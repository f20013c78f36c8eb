----------------------------- MODULE MCNetwork ------------------------------
(***************************************************************************)
(* TLC instances of the models of the peer-to-peer library. A behaviour    *)
(* runs one of them, named by part:                                        *)
(*   p2p    P2P: a fixed peer, a seed, and a third peer with the address   *)
(*          of the fixed one; a free slot of each kind; buckets that hold  *)
(*          them all;                                                      *)
(*   peer   Peer: one connected peer that may be honest, with limits of    *)
(*          two messages and a reputation that two penalties use up.       *)
(***************************************************************************)
EXTENDS P2P, Peer

VARIABLE part

MCPeer  == {"f", "s", "x"}
MCIP    == [p \in MCPeer |-> IF p = "s" THEN 2 ELSE 1]
MCFixed == {"f"}
MCSeed  == {"s"}
MCNone  == {}
OneBucket == [p \in MCPeer |-> 1]

-----------------------------------------------------------------------------
OnP2P == part = "p2p" /\ UNCHANGED <<part, peerVars>>
OnPeer == part = "peer" /\ UNCHANGED <<part, vars>>

MCInit ==
  /\ part \in {"p2p", "peer"}
  /\ Init
  /\ PeerInit

MCNext ==
  \/ OnP2P /\ Start
  \/ OnP2P /\ StartFails
  \/ OnP2P /\ Started
  \/ OnP2P /\ Populate
  \/ OnP2P /\ Stop
  \/ OnP2P /\ Stopped
  \/ \E p \in MCPeer : OnP2P /\ Connect(p)
  \/ \E p \in MCPeer : OnP2P /\ ConnectAbort(p)
  \/ \E p \in MCPeer : OnP2P /\ StatusFetched(p)
  \/ \E p \in MCPeer : OnP2P /\ StatusFails(p)
  \/ \E p \in MCPeer : OnP2P /\ PeersFetched(p)
  \/ \E p \in MCPeer : OnP2P /\ SeedAnswers(p)
  \/ \E p \in MCPeer : OnP2P /\ NodeInfoPosted(p)
  \/ \E p \in MCPeer : OnP2P /\ Close(p)
  \/ \E p \in MCPeer : OnP2P /\ Shuffle(p)
  \/ \E p \in MCPeer : OnP2P /\ Handshake(p)
  \/ \E p \in MCPeer : OnP2P /\ Reject(p)
  \/ \E p \in MCPeer : OnP2P /\ Connection(p)
  \/ \E p \in MCPeer : OnP2P /\ BanPeer(p)
  \/ \E p \in MCPeer : OnP2P /\ BanSocket(p)
  \/ \E ip \in {IP[p] : p \in Peer} : OnP2P /\ BanOver(ip)
  \/ OnPeer /\ PeerConnects
  \/ OnPeer /\ PeerCloses
  \/ OnPeer /\ PeerRemoved
  \/ OnPeer /\ Forgotten
  \/ OnPeer /\ PeerBanOver
  \/ \E k \in Discovery : OnPeer /\ Request(k)
  \/ \E wellFormed \in BOOLEAN : OnPeer /\ Post(wellFormed)
  \/ OnPeer /\ Message
  \/ OnPeer /\ Tick
  \/ OnPeer /\ ResetCounters
  \/ OnPeer /\ ResetStatus

\* Only the populator's timer is fair.
MCSpec ==
  /\ MCInit /\ [][MCNext]_<<part, vars, peerVars>>
  /\ WF_vars(part = "p2p" /\ Populate)

=============================================================================
