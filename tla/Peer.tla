-------------------------------- MODULE Peer --------------------------------
(***************************************************************************)
(* One peer that connects to this node again and again: what it may ask,   *)
(* what is counted and what it costs it (elements/lisk-p2p/src/peer), and  *)
(* what the peer book remembers of it between two connections.             *)
(*                                                                         *)
(* The object of a connection takes a copy of the state kept in the book:  *)
(* the reputation is copied, but the counter of requests is one map for    *)
(* both until the timer of the connection puts a new one in its place.     *)
(* One tick of the clock is rateCalculationInterval.                       *)
(***************************************************************************)
EXTENDS Integers, FiniteSets, Sequences

CONSTANTS
  Full,             \* DEFAULT_REPUTATION_SCORE, in penalties of 10
  StatusTicks,      \* PEER_STATUS_MESSAGE_RATE_INTERVAL
  StatusRate,       \* peerStatusMessageRate: posts of node info in that time
  WsMaxRate,        \* wsMaxMessageRate
  Exempt,           \* fixed or whitelisted: the book does not ban it
  MaxBurst,         \* bound on the messages in an interval
  MaxCounted        \* bound: numbers of messages are not told apart from here on

ASSUME PeerAssumption ==
  /\ {Full, StatusTicks, StatusRate, WsMaxRate, MaxBurst, MaxCounted} \subseteq Nat \ {0}
  /\ Exempt \in BOOLEAN

VARIABLES
  conn,             \* the connection of the peer, or NoConnection:
                    \*   live     internalState
                    \*   shared   live.rpc is the map of the copy in the book
                    \*   count    _discoveryMessageCounter
                    \*   due      timers that have yet to fire in this tick
                    \*   clock    ticks since the status timer fired
                    \*   passed   history: requests passed on since the reset
                    \*   spotless history: was unknown, no offence so far
  saved,            \* internalState in the book: at most one
  banned,           \* the address is banned
  age,              \* history: per kind, ticks since its last messages, as
                    \* many of them as the limit of the kind, newest first
  burst             \* history: messages in the last tick and in this one

peerVars == <<conn, saved, banned, age, burst>>

Discovery == {"getNodeInfo", "getPeers"}
Kind == Discovery \cup {"post"}
Renewed == Kind \ {"getNodeInfo"}     \* may be sent again on a connection

\* A counter that is compared with nothing above most.
More(n, most) == IF n < most THEN n + 1 ELSE n

Zero(kinds) == [k \in kinds |-> 0]
Fresh == [rep |-> Full, rpc |-> Zero(Discovery), ws |-> 0]
Long == StatusTicks + 1         \* more than any window

NewConnection(live, unknown) ==
  [open |-> TRUE, live |-> live, shared |-> TRUE, count |-> Zero(Kind), due |-> {},
   clock |-> 0, passed |-> Zero(Discovery), spotless |-> unknown]
NoConnection == [NewConnection(Fresh, FALSE) EXCEPT !.open = FALSE]

-----------------------------------------------------------------------------
(* Penalties. *)

\* addBannedPeer removes the peers of the address from the book, unless the
\* peer is one of the configuration.
ForgetsBanned == IF Exempt THEN saved ELSE {}

\* The end of a handler, after which the connection would be c and the book b.
\* applyPenalty bans a peer without reputation: it leaves the pool and nobody
\* listens to it any more, not even to the closing of its socket.
Settle(c, b) ==
  IF c.live.rep <= 0
    THEN conn' = NoConnection /\ banned' = ~Exempt /\ saved' = ForgetsBanned
    ELSE conn' = c /\ saved' = b /\ UNCHANGED banned

-----------------------------------------------------------------------------
(* Connections. *)

\* _constructPeerInfoForInboundConnection and _handleInboundPeerConnect
PeerConnects ==
  /\ ~conn.open /\ ~banned
  /\ \E s \in IF saved = {} THEN {Fresh} ELSE saved :
       conn' = NewConnection(s, saved = {}) /\ saved' = {s}
  /\ UNCHANGED <<banned, age, burst>>

\* The peer goes: the book learns the state of the connection.
PeerCloses ==
  /\ conn.open
  /\ conn' = NoConnection
  /\ saved' = {conn.live : s \in saved}
  /\ UNCHANGED <<banned, age, burst>>

\* removePeer: the node itself ends the connection, and hears of no close.
PeerRemoved ==
  /\ conn.open
  /\ conn' = NoConnection
  /\ UNCHANGED <<saved, banned, age, burst>>

\* The book gives the place of the peer to another.
Forgotten ==
  /\ ~conn.open
  /\ saved # {}
  /\ saved' = {}
  /\ UNCHANGED <<conn, banned, age, burst>>

PeerBanOver ==
  /\ banned
  /\ banned' = FALSE
  /\ UNCHANGED <<conn, saved, age, burst>>

-----------------------------------------------------------------------------
(* What the peer sends. Every frame counts for the rate of the socket.     *)

\* How many of a kind are free until its counter is reset.
Free(k) == IF k = "post" THEN StatusRate ELSE 1

\* History: with one more, the peer has sent more than that in a window.
TooSoon(k) == age[k][Free(k)] < Long

Sent(k) ==
  /\ conn.open
  /\ burst[2] < MaxBurst
  /\ age' = IF k \in Renewed
              THEN [age EXCEPT ![k] = <<0>> \o SubSeq(@, 1, Free(k) - 1)]
              ELSE age
  /\ burst' = [burst EXCEPT ![2] = @ + 1]

\* History: the peer kept to the limits, in whatever window.
Kept(k) ==
  /\ conn.spotless
  /\ burst[1] + burst[2] < WsMaxRate
  /\ k \in Renewed => ~TooSoon(k)
  /\ k = "getNodeInfo" => conn.count[k] = 0

Counted(k) ==
  [conn EXCEPT !.count[k] = More(@, Free(k)), !.live.ws = More(@, MaxCounted),
               !.spotless = Kept(k)]

\* More than that since the counter was reset costs the peer.
Surplus(k) == IF conn.count[k] >= Free(k) THEN 1 ELSE 0

\* Mutant: a repeated request is only counted.
DropsNothing(k) == FALSE

\* A discovery request is dropped if one has been counted in this interval.
Drops(k) == conn.live.rpc[k] > 0

\* _handleRawRPC. A dropped request is never answered.
Request(k) ==
  /\ Sent(k)
  /\ LET rpc == [conn.live.rpc EXCEPT ![k] = More(@, 2)]
     IN  Settle([Counted(k) EXCEPT !.live.rep = @ - Surplus(k),
                                   !.live.rpc = rpc,
                                   !.passed[k] = IF Drops(k) THEN @ ELSE @ + 1],
                IF conn.shared THEN {[s EXCEPT !.rpc = rpc] : s \in saved} ELSE saved)

\* _handleRawMessage of postNodeInfo; a malformed one costs everything. The book
\* learns the new info, and with it the state of the connection.
Post(wellFormed) ==
  /\ Sent("post")
  /\ LET cost == Surplus("post") + (IF wellFormed THEN 0 ELSE Full)
         c    == [Counted("post") EXCEPT !.live.rep = @ - cost, !.shared = TRUE]
     IN  Settle(c, {c.live})

\* Any other message.
Message ==
  /\ Sent("message")
  /\ conn' = [conn EXCEPT !.live.ws = More(@, MaxCounted), !.spotless = Kept("message")]
  /\ UNCHANGED <<saved, banned>>

-----------------------------------------------------------------------------
(* Timers. *)

Tick ==
  /\ conn.due = {}
  /\ conn' = IF ~conn.open THEN conn
             ELSE [conn EXCEPT
                     !.due = {"rate"} \cup
                       (IF conn.clock + 1 = StatusTicks THEN {"status"} ELSE {}),
                     !.clock = (@ + 1) % StatusTicks]
  /\ age' = [k \in Renewed |->
               [i \in 1..Free(k) |-> IF age[k][i] < Long THEN age[k][i] + 1 ELSE Long]]
  /\ burst' = <<burst[2], 0>>
  /\ UNCHANGED <<saved, banned>>

\* _resetCounters: the rate of the socket, then the requests counted.
ResetCounters ==
  /\ "rate" \in conn.due
  /\ LET flood == IF conn.live.ws > WsMaxRate THEN conn.live.ws \div WsMaxRate ELSE 0
         asked == Cardinality({k \in Discovery : conn.live.rpc[k] > 1})
     IN  Settle([conn EXCEPT !.live = [rep |-> @.rep - flood - asked,
                                       rpc |-> Zero(Discovery), ws |-> 0],
                             !.shared = FALSE,
                             !.due = @ \ {"rate"},
                             !.passed = Zero(Discovery)],
                saved)
  /\ UNCHANGED <<age, burst>>

\* Mutant: the counter of getPeers is not reset.
ResetPosts ==
  /\ "status" \in conn.due
  /\ conn' = [conn EXCEPT !.due = @ \ {"status"}, !.count["post"] = 0]
  /\ UNCHANGED <<saved, banned, age, burst>>

\* _resetStatusMessageRate: getNodeInfo is counted as long as the connection is.
ResetStatus ==
  /\ "status" \in conn.due
  /\ conn' = [conn EXCEPT !.due = @ \ {"status"}, !.count["post"] = 0,
                          !.count["getPeers"] = 0]
  /\ UNCHANGED <<saved, banned, age, burst>>

-----------------------------------------------------------------------------
PeerInit ==
  /\ conn = NoConnection
  /\ saved = {}
  /\ banned = FALSE
  /\ age = [k \in Renewed |-> [i \in 1..Free(k) |-> Long]]
  /\ burst = <<0, 0>>

PeerNext ==
  \/ PeerConnects \/ PeerCloses \/ PeerRemoved \/ Forgotten \/ PeerBanOver
  \/ \E k \in Discovery : Request(k)
  \/ \E wellFormed \in BOOLEAN : Post(wellFormed)
  \/ Message
  \/ Tick \/ ResetCounters \/ ResetStatus

PeerSpec == PeerInit /\ [][PeerNext]_peerVars

-----------------------------------------------------------------------------
\* A peer that was unknown and never asked too much pays nothing: the fixed
\* windows of the timers never punish what keeps to the limits in any window.
NoPenaltyUnearned == conn.spotless => conn.live.rep = Full

\* In an interval no more than one request of each kind reaches the node, and
\* the counters that the book hands on do not change that.
DiscoveryLimited == \A k \in Discovery : conn.passed[k] <= 1

\* "Discovery requests are only allowed once per second. If it exceeds that, we
\* prevent the request from propagating." (base.ts): one that comes later does.
LaterOnesPass ==
  [][\A k \in Discovery \cap Renewed :
       ~TooSoon(k) /\ age'[k] = <<0>> /\ conn'.open =>
         conn'.passed[k] = conn.passed[k] + 1]_peerVars

\* A peer is punished for what it did only, and slowed down as the limit says.
PenaltiesEarned == NoPenaltyUnearned /\ DiscoveryLimited
=============================================================================
