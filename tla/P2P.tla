--------------------------------- MODULE P2P --------------------------------
(***************************************************************************)
(* The peer to peer library of one node (elements/lisk-p2p): P2P, its pool *)
(* of connections, the server for incoming ones and the peer book.         *)
(*                                                                         *)
(* Everything runs in one thread: an action is one handler of an event of  *)
(* a socket, a timer or the application. Between two of them anything may  *)
(* happen: a peer is banned while its status is being fetched, the ban     *)
(* that a handshake was checked against is another one when the connection *)
(* is made, a peer of the configuration connects to us before we do.       *)
(***************************************************************************)
EXTENDS PeerBook, SequencesExt

CONSTANTS
  LocalIP,          \* 127.0.0.1
  MaxOutbound,      \* maxOutboundConnections
  MaxInbound,       \* maxInboundConnections
  MinTried,         \* DEFAULT_MIN_TRIED_PEER_COUNT
  Protection,       \* TRUE: the ratios may protect every inbound peer
  MaxHandshaken,    \* bound on the sockets between handshake and connection
  MaxDiscovered     \* bound on the length of a list of peers received

ASSUME P2PAssumption ==
  /\ {MaxOutbound, MaxInbound, MinTried, MaxHandshaken, MaxDiscovered} \subseteq Nat
  /\ Protection \in BOOLEAN
  /\ \A p, q \in Seed : p # q => IP[p] # IP[q]

VARIABLES
  book,             \* _peerBook
  pool,             \* _peerMap: peer -> what it is to us, see Outbound
  handshaken,       \* sockets that passed the check of the server
  asked,            \* seeds whose list of peers was asked for again
  active,           \* "stopped", "starting", "on", "stopping", "done"
  expelled          \* history: banned by their own id, ban not over

vars == <<book, pool, handshaken, asked, active, expelled>>

OutboundStage == {"connecting", "status", "peers", "ready", "failed"}

Outbound(conns) == {p \in Peer : conns[p] \in OutboundStage}
Inbound(conns)  == {p \in Peer : conns[p] \in {"in", "exempt"}}

IsOpen(p) == pool[p] \notin {"none", "connecting"}

\* _assignPeerKind tells by address.
KindFixed(p)  == IP[p] \in {IP[q] : q \in Fixed}
KindExempt(p) == IP[p] \in {IP[q] : q \in Fixed \cup Whitelisted}

-----------------------------------------------------------------------------
(* Choosing peers to connect to.                                           *)

Disconnected(ps, conns) == {p \in ps : conns[p] = "none"}

\* Mutant: only the connections that are made count.
FreeSlotsOfOpen(conns) ==
  MaxOutbound - Cardinality(Disconnected(Fixed, conns))
              - Cardinality({p \in Peer : conns[p] \in OutboundStage \ {"connecting"}})

\* getFreeOutboundSlots: a slot is kept for each fixed peer that is missing.
FreeOutboundSlots(conns) ==
  MaxOutbound - Cardinality(Disconnected(Fixed, conns))
              - Cardinality(Outbound(conns))

\* Mutants of addOutbound: the address is not looked at, or not the bans.
AddOutboundAnyIP(conns, p) ==
  IF conns[p] # "none" \/ IP[p] \in BannedIPs(book) THEN conns
  ELSE [conns EXCEPT ![p] = "connecting"]

AddOutboundBanned(conns, p) ==
  IF \/ conns[p] # "none"
     \/ \E q \in Outbound(conns) : IP[q] = IP[p] /\ IP[p] # LocalIP
    THEN conns
    ELSE [conns EXCEPT ![p] = "connecting"]

AddOutbound(conns, p) ==
  IF \/ conns[p] # "none"
     \/ IP[p] \in BannedIPs(book)
     \/ \E q \in Outbound(conns) : IP[q] = IP[p] /\ IP[p] # LocalIP
    THEN conns
    ELSE [conns EXCEPT ![p] = "connecting"]

AddEach(conns, ps) == FoldLeft(AddOutbound, conns, ps)

OnePerIP(ps) == \A p, q \in ps : p # q => IP[p] # IP[q]

\* selectPeersForConnection: all if there is room for all, else limit of them,
\* and in both cases one of each address.
SelectForConnection(candidates, limit) ==
  IF limit < 0 THEN {{}}
  ELSE {s \in SUBSET candidates :
          /\ OnePerIP(s)
          /\ IF limit >= Cardinality(candidates)
               THEN \A p \in candidates : \E q \in s : IP[q] = IP[p]
               ELSE \E drawn \in SUBSET candidates :
                      /\ Cardinality(drawn) = limit /\ s \subseteq drawn
                      /\ \A p \in drawn : \E q \in s : IP[q] = IP[p]}

\* _disconnectFromSeedPeers
WithoutSeeds(conns) ==
  [p \in Peer |-> IF p \in (Outbound(conns) \cap Seed) \ Fixed THEN "none"
                                                               ELSE conns[p]]

\* Mutant: without free slots nobody is connected to.
NewConnectionsIfFree(conns) ==
  LET free == FreeOutboundSlots(conns)
      rest == IF free = 0 THEN WithoutSeeds(conns) ELSE conns
  IN  IF free <= 0 THEN {rest}
      ELSE {AddEach(rest, SetToSeq(s) \o SetToSeq(Disconnected(Fixed, conns))) :
              s \in SelectForConnection(
                      Disconnected(NewPeers(book) \cup TriedPeers(book), conns), free)}

\* triggerNewConnections: the lists are made before the seeds are let go.
NewConnections(conns) ==
  LET free       == FreeOutboundSlots(conns)
      candidates == Disconnected(NewPeers(book) \cup TriedPeers(book), conns)
      rest       == IF free = 0 THEN WithoutSeeds(conns) ELSE conns
  IN  {AddEach(rest, SetToSeq(s) \o SetToSeq(Disconnected(Fixed, conns))) :
         s \in SelectForConnection(candidates, free)}

\* discoverFromSeedPeers. slice(0, n) of a negative n leaves out the last -n.
SeedSeq == SetToSeq(Seed)

SeedsFor(free) ==
  SubSeq(SeedSeq, 1, IF free < 0 THEN Len(SeedSeq) + free
                     ELSE IF free < Len(SeedSeq) THEN free ELSE Len(SeedSeq))

SeedConnections(conns) ==
  LET free == FreeOutboundSlots(conns)
  IN  IF free = 0 THEN conns ELSE AddEach(conns, SeedsFor(free))

SeedsAsked(conns) ==
  IF FreeOutboundSlots(conns) = 0 THEN {} ELSE Seed \ Disconnected(Seed, conns)

-----------------------------------------------------------------------------
(* P2P.start and stop, and the timers.                                     *)

Start ==
  /\ active = "stopped"
  /\ active' = "starting"
  /\ UNCHANGED <<book, pool, handshaken, asked, expelled>>

\* The server could not listen.
StartFails ==
  /\ active = "starting"
  /\ active' = "stopped"
  /\ handshaken' = {}
  /\ UNCHANGED <<book, pool, asked, expelled>>

Started ==
  /\ active = "starting"
  /\ active' = "on"
  /\ IF Cardinality(TriedPeers(book)) < MinTried
       THEN /\ asked' = asked \cup SeedsAsked(pool)
            /\ pool' \in NewConnections(SeedConnections(pool))
       ELSE pool' \in NewConnections(pool) /\ UNCHANGED asked
  /\ UNCHANGED <<book, handshaken, expelled>>

\* The populator; now and then it looks for peers at the seeds as well.
Populate ==
  /\ active = "on"
  /\ \E conns \in NewConnections(pool) :
       \/ pool' = conns /\ UNCHANGED asked
       \/ /\ FreeOutboundSlots(conns) > 0
          /\ pool' = SeedConnections(conns)
          /\ asked' = asked \cup SeedsAsked(conns)
  /\ UNCHANGED <<book, handshaken, active, expelled>>

\* The shuffle: one outbound peer that is not of a fixed address goes.
Shuffle(p) ==
  /\ active \notin {"stopping", "done"}
  /\ p \in Outbound(pool)
  /\ ~KindFixed(p)
  /\ pool' = [pool EXCEPT ![p] = "none"]
  /\ UNCHANGED <<book, handshaken, asked, active, expelled>>

\* The timers of the bans end with it: a ban that is not over stays.
Stop ==
  /\ active = "on"
  /\ active' = "stopping"
  /\ pool' = [p \in Peer |-> "none"]
  /\ asked' = {}
  /\ UNCHANGED <<book, handshaken, expelled>>

\* The server has closed its sockets.
Stopped ==
  /\ active = "stopping"
  /\ active' = "done"
  /\ pool' = [p \in Peer |-> "none"]
  /\ handshaken' = {}
  /\ UNCHANGED <<book, asked, expelled>>

-----------------------------------------------------------------------------
(* Outbound connections.                                                   *)

Live == active \in {"on", "starting", "stopping"}

\* A handler that throws leaves the book as it was.
AddOrThrow(b, p) == AddPeer(b, p) \cup (IF AddPeerMayThrow(b, p) THEN {b} ELSE {})

AddIfUnknown(b, p) == IF HasPeer(b, p) THEN {b} ELSE AddOrThrow(b, p)

\* _handleDiscoveredPeer for each peer of a list.
Discovered(b, ps) ==
  FoldSet(LAMBDA p, books : UNION {AddIfUnknown(c, p) : c \in books}, {b}, ps)

PeerLists == {ps \in SUBSET Peer : Cardinality(ps) <= MaxDiscovered}

Connect(p) ==
  /\ pool[p] = "connecting"
  /\ pool' = [pool EXCEPT ![p] = "status"]
  /\ UNCHANGED <<book, handshaken, asked, active, expelled>>

\* connectAbort and close.
ConnectAbort(p) ==
  /\ pool[p] = "connecting"
  /\ \E b \in IF HasPeer(book, p)
                THEN DowngradePeer(book, p) \cup
                       (IF DowngradePeer(book, p) = {} THEN {book} ELSE {})
                ELSE {book} :
       book' = UpdatePeer(b, p)
  /\ pool' = [pool EXCEPT ![p] = "none"]
  /\ UNCHANGED <<handshaken, asked, active, expelled>>

\* _handlePeerInfoUpdate
InfoUpdated(b, p) ==
  UNION {IF HasPeer(c, p) /\ IsUpdated(c, p) THEN UpgradePeer(UpdatePeer(c, p), p)
                                             ELSE {c} : c \in AddIfUnknown(b, p)}

StatusFetched(p) ==
  /\ pool[p] = "status"
  /\ book' \in InfoUpdated(book, p)
  /\ pool' = [pool EXCEPT ![p] = "peers"]
  /\ UNCHANGED <<handshaken, asked, active, expelled>>

\* No answer, another network or a handler that threw: the connection stays,
\* and nothing more is asked of the peer.
StatusFails(p) ==
  /\ pool[p] = "status"
  /\ pool' = [pool EXCEPT ![p] = "failed"]
  /\ UNCHANGED <<book, handshaken, asked, active, expelled>>

\* The peers it knows, or a failure (no peers); then EVENT_CONNECT_OUTBOUND.
PeersFetched(p) ==
  /\ pool[p] = "peers"
  /\ \E ps \in PeerLists : \E b \in Discovered(book, ps) :
       book' \in UNION {UpgradePeer(c, p) : c \in AddIfUnknown(b, p)}
  /\ pool' = [pool EXCEPT ![p] = "ready"]
  /\ UNCHANGED <<handshaken, asked, active, expelled>>

\* A seed that was connected already answers with its peers.
SeedAnswers(p) ==
  /\ p \in asked
  /\ asked' = asked \ {p}
  /\ \E ps \in PeerLists : book' \in IF IsOpen(p) THEN Discovered(book, ps) ELSE {book}
  /\ UNCHANGED <<pool, handshaken, active, expelled>>

\* EVENT_UPDATED_PEER_INFO after a peer sent its node info.
NodeInfoPosted(p) ==
  /\ IsOpen(p)
  /\ book' \in InfoUpdated(book, p)
  /\ UNCHANGED <<pool, handshaken, asked, active, expelled>>

\* Close of either kind.
Close(p) ==
  /\ IsOpen(p)
  /\ pool' = [pool EXCEPT ![p] = "none"]
  /\ book' = UpdatePeer(book, p)
  /\ UNCHANGED <<handshaken, asked, active, expelled>>

-----------------------------------------------------------------------------
(* Inbound connections.                                                    *)

\* MIDDLEWARE_HANDSHAKE_WS and the handshake event look at the bans.
Handshake(p) ==
  /\ Live
  /\ MaxInbound > 0
  /\ p \notin handshaken
  /\ Cardinality(handshaken) < MaxHandshaken
  /\ IP[p] \notin BannedIPs(book)
  /\ handshaken' = handshaken \cup {p}
  /\ UNCHANGED <<book, pool, asked, active, expelled>>

\* The socket is closed for its query, its info or its network.
Reject(p) ==
  /\ p \in handshaken
  /\ handshaken' = handshaken \ {p}
  /\ UNCHANGED <<book, pool, asked, active, expelled>>

\* Mutant: the peers of the configuration may be evicted, and nobody else.
EvictExempt(conns) ==
  IF Cardinality(Inbound(conns)) < MaxInbound THEN {conns}
  ELSE LET free == {p \in Peer : conns[p] = "exempt"}
       IN  IF free = {} THEN {conns} ELSE {[conns EXCEPT ![p] = "none"] : p \in free}

\* _evictPeer(InboundPeer) when the pool is full. With small numbers of peers
\* the ratios protect all of them.
EvictInbound(conns) ==
  IF Cardinality(Inbound(conns)) < MaxInbound THEN {conns}
  ELSE LET free == {p \in Peer : conns[p] = "in"}
       IN  {[conns EXCEPT ![p] = "none"] : p \in free}
             \cup (IF Protection \/ free = {} THEN {conns} ELSE {})

\* The connection event: nothing looks at the bans again. A peer that is in
\* the pool already is a duplicate: its new socket is closed.
Connection(p) ==
  /\ p \in handshaken
  /\ handshaken' = handshaken \ {p}
  /\ IF pool[p] # "none" THEN UNCHANGED <<pool, book>>
     ELSE /\ \E conns \in EvictInbound(pool) :
               pool' = [conns EXCEPT ![p] =
                          IF HasPeer(book, p) /\ KindExempt(p) THEN "exempt" ELSE "in"]
          /\ book' \in AddIfUnknown(book, p)
  /\ UNCHANGED <<asked, active, expelled>>

-----------------------------------------------------------------------------
(* Bans. *)

\* _handleBanPeer after the reputation of a connected peer has gone.
BanPeer(p) ==
  /\ pool[p] # "none"
  /\ pool' = [pool EXCEPT ![p] = "none"]
  /\ book' = IF MayBan(p) THEN Ban(book, IP[p]) ELSE book
  /\ expelled' = IF MayBan(p) THEN expelled \cup {p} ELSE expelled
  /\ UNCHANGED <<handshaken, asked, active>>

\* A control frame on an incoming socket: the server bans the address under
\* the port of the socket, an id that is nobody's.
BanSocket(p) ==
  /\ p \in handshaken \/ p \in Inbound(pool)
  /\ book' = Ban(book, IP[p])
  /\ handshaken' = handshaken \ {p}
  /\ UNCHANGED <<pool, asked, active, expelled>>

\* peerBanTime is over.
BanOver(ip) ==
  /\ active \notin {"stopping", "done"}
  /\ ip \in book.banned
  /\ book' = Unban(book, ip)
  /\ expelled' = {p \in expelled : IP[p] # ip}
  /\ UNCHANGED <<pool, handshaken, asked, active>>

-----------------------------------------------------------------------------
Init ==
  /\ book = FirstBook
  /\ pool = [p \in Peer |-> "none"]
  /\ handshaken = {}
  /\ asked = {}
  /\ active = "stopped"
  /\ expelled = {}

Next ==
  \/ Start \/ StartFails \/ Started \/ Populate \/ Stop \/ Stopped
  \/ \E p \in Peer :
       \/ Connect(p) \/ ConnectAbort(p) \/ StatusFetched(p) \/ StatusFails(p)
       \/ PeersFetched(p) \/ SeedAnswers(p) \/ NodeInfoPosted(p) \/ Close(p)
       \/ Shuffle(p)
       \/ Handshake(p) \/ Reject(p) \/ Connection(p)
       \/ BanPeer(p) \/ BanSocket(p)
  \/ \E ip \in {IP[p] : p \in Peer} : BanOver(ip)

Spec == Init /\ [][Next]_vars

\* The populator is an interval of the event loop: it keeps running.
FairSpec == Spec /\ WF_vars(Populate)

-----------------------------------------------------------------------------
\* The pool holds a stage for each peer; a list has no bucket entry without an
\* entry in its table, and a bare one is in a bucket or was.
TypeOK ==
  /\ pool \in [Peer -> OutboundStage \cup {"none", "in", "exempt"}]
  /\ handshaken \cup asked \cup expelled \subseteq Peer
  /\ active \in {"stopped", "starting", "on", "stopping", "done"}
  /\ \A list \in {book.new, book.tried} :
       /\ list.in \cup list.bare \subseteq list.known
       /\ \A p \in Peer : list.failures[p] < MaxReconnectTries

\* A node never has more outbound connections than its limit, but for fixed
\* peers: the slot of a fixed peer that is missing is not given away, though
\* one that was connected inbound may come on top when it is called back
\* (triggerNewConnections, getFreeOutboundSlots).
OutboundBounded ==
  Cardinality(Outbound(pool) \ Fixed) <= MaxOutbound

\* No two outbound connections lead to one
\* address, whatever the order in which lists, seeds and fixed peers are tried
\* (_addOutboundPeer).
OneOutboundPerIP ==
  \A p, q \in Outbound(pool) : p # q => IP[p] # IP[q] \/ IP[p] = LocalIP

\* When the ratios leave somebody to evict, the inbound connections beyond the
\* limit are those of fixed and whitelisted addresses (addInboundPeer).
InboundBounded ==
  ~Protection =>
    \/ Cardinality(Inbound(pool)) <= MaxInbound
    \/ Cardinality({p \in Peer : pool[p] = "in"}) <= 1

\* A peer that was banned by its id has no outbound connection until its ban
\* is over, not even by a way of its own as a seed (_handleBanPeer).
ExpelledStaysOut == expelled \cap Outbound(pool) = {}

\* No address of a ban is in the lists that are handed out to others, but for
\* entries that an update has put back into a bucket without their data
\* (addBannedPeer, addPeer, upgradePeer).
BannedNotListed ==
  \A p \in book.new.in \cup book.tried.in :
    IP[p] \in book.banned => p \in book.new.bare \cup book.tried.bare

\* The new list does not grow beyond the size of its buckets, as
\* test/unit/peer_book/new_list.spec.ts:155 says. It does: a peer that lost its
\* bucket stays in the table, and an update of it puts it back (makeSpace,
\* updatePeer).
NewListBounded ==
  Cardinality(book.new.in) <= BucketSize * Cardinality({NewBucket[p] : p \in Peer})

\* As long as the node runs it connects to each fixed peer again and again,
\* unless its address is banned or taken by another outbound connection
\* (triggerNewConnections).
FixedReached ==
  \A p \in Fixed :
    []<>( \/ active # "on"
          \/ pool[p] # "none"
          \/ IP[p] \in BannedIPs(book)
          \/ \E q \in Outbound(pool) : q # p /\ IP[q] = IP[p] )

\* The pool keeps its limits: slots of both kinds, and one connection for an
\* address.
SlotsBounded == TypeOK /\ OutboundBounded /\ OneOutboundPerIP /\ InboundBounded

\* Who was expelled is neither connected nor listed while the ban lasts.
BansHold == ExpelledStaysOut /\ BannedNotListed
=============================================================================
