------------------------------- MODULE PeerBook -----------------------------
(***************************************************************************)
(* The peer book of elements/lisk-p2p: the addresses the node knows, in    *)
(* two lists of buckets (peers it has only heard of, and peers it has been *)
(* connected to), and the addresses it has banned. Pure operators on one   *)
(* book; P2P holds the book of a node and calls them.                      *)
(*                                                                         *)
(* A list keeps every peer twice: in a bucket, and in a table by id that   *)
(* says which bucket. in is the set of peers in the buckets, known that of *)
(* the peers in the table. Entries made by updatePeer for a peer that has  *)
(* lost its bucket lack what addPeer writes (bucketId, dateAdded and       *)
(* numOfConnectionFailures): they are the bare ones.                       *)
(***************************************************************************)
EXTENDS Integers, FiniteSets

CONSTANTS
  Peer,             \* ids of the peers (address and port)
  IP,               \* peer -> its address
  Seed, Fixed, Whitelisted,   \* the peers of the configuration
  Blacklisted,      \* addresses of the configuration
  NewBucket,        \* peer -> its bucket in the new list
  TriedBucket,      \* peer -> its bucket in the tried list
  BucketSize,       \* peers a bucket may hold
  MaxReconnectTries \* failed connections after which a tried peer goes back

ASSUME BookAssumption ==
  /\ IsFiniteSet(Peer)
  /\ Seed \cup Fixed \cup Whitelisted \subseteq Peer
  /\ DOMAIN IP = Peer
  /\ BucketSize \in Nat \ {0} /\ MaxReconnectTries \in Nat \ {0}

-----------------------------------------------------------------------------
(* One list.                                                               *)

EmptyList == [in |-> {}, known |-> {}, bare |-> {}, failures |-> [p \in Peer |-> 0]]

Bucketmates(bucketOf, list, p) == {q \in list.in : bucketOf[q] = bucketOf[p]}

Put(list, p) ==
  [list EXCEPT !.in = @ \cup {p}, !.known = @ \cup {p}, !.bare = @ \ {p},
               !.failures[p] = 0]

\* makeSpace takes a peer out of the bucket and leaves it in the table.
Evict(list, q) == [list EXCEPT !.in = @ \ {q}]

\* The peers makeSpace may choose. The new list looks for an old entry first
\* and reads the date of every entry on the way.
Evictable(kind, mates, list) ==
  IF kind = "new" THEN mates \ list.bare ELSE mates

\* addPeer: the lists it may leave. None if the table has the peer: it throws.
Added(kind, bucketOf, list, p) ==
  LET mates == Bucketmates(bucketOf, list, p)
  IN  IF p \in list.known THEN {}
      ELSE IF Cardinality(mates) < BucketSize THEN {Put(list, p)}
      ELSE {Put(Evict(list, q), p) : q \in Evictable(kind, mates, list)}

\* An entry without a date in a full bucket: addPeer may throw.
MayThrow(kind, bucketOf, list, p) ==
  LET mates == Bucketmates(bucketOf, list, p)
  IN  \/ p \in list.known
      \/ /\ kind = "new"
         /\ Cardinality(mates) >= BucketSize
         /\ mates \cap list.bare # {}

\* getBucket: undefined for a peer whose entry has no bucketId.
HasBucket(list, p) == p \in list.known \ list.bare

\* updatePeer writes the bucket and the table; a peer that is no longer in the
\* bucket gets into it again, with a bare entry.
Updated(list, p) ==
  IF ~HasBucket(list, p) THEN list
  ELSE [list EXCEPT !.in = @ \cup {p},
                    !.bare = IF p \in list.in THEN @ ELSE @ \cup {p}]

\* removePeer does nothing for a peer that is not in its bucket.
Removed(list, p) ==
  IF HasBucket(list, p) /\ p \in list.in
    THEN [list EXCEPT !.in = @ \ {p}, !.known = @ \ {p}, !.failures[p] = 0]
    ELSE list

\* Mutant: one try more.
FailedOnceMore(list, p) ==
  /\ p \in list.in \ list.bare
  /\ list.failures[p] + 1 > MaxReconnectTries

\* failedConnectionAction of the tried list; a bare entry has no count.
FailedTooOften(list, p) ==
  /\ p \in list.in \ list.bare
  /\ list.failures[p] + 1 >= MaxReconnectTries

Failed(list, p) ==
  IF p \notin list.in \ list.bare THEN list
  ELSE IF FailedTooOften(list, p)
    THEN [list EXCEPT !.in = @ \ {p}, !.known = @ \ {p}, !.failures[p] = 0]
    ELSE [list EXCEPT !.failures[p] = @ + 1]

-----------------------------------------------------------------------------
(* The book: new and tried list, and the addresses banned for a while.     *)

BannedIPs(book) == Blacklisted \cup book.banned

HasPeer(book, p) == p \in book.tried.known \cup book.new.known

NewPeers(book) == book.new.in
TriedPeers(book) == book.tried.in

IsTrusted(p) == p \in Seed \cup Fixed \cup Whitelisted

\* Mutant: the bans are not looked at.
AddPeerAnyway(book, p) ==
  IF p \in book.tried.known THEN {}
  ELSE {[book EXCEPT !.new = list] : list \in Added("new", NewBucket, book.new, p)}

\* addPeer: refused for a banned address, thrown for a tried peer.
AddPeer(book, p) ==
  IF IP[p] \in book.banned THEN {book}
  ELSE IF p \in book.tried.known THEN {}
  ELSE {[book EXCEPT !.new = list] : list \in Added("new", NewBucket, book.new, p)}

AddPeerMayThrow(book, p) ==
  /\ IP[p] \notin book.banned
  /\ p \in book.tried.known \/ MayThrow("new", NewBucket, book.new, p)

RemovePeer(book, p) ==
  [book EXCEPT !.new = Removed(@, p), !.tried = Removed(@, p)]

UpdatePeer(book, p) ==
  IF p \in book.tried.known THEN [book EXCEPT !.tried = Updated(@, p)]
  ELSE IF p \in book.new.known THEN [book EXCEPT !.new = Updated(@, p)]
  ELSE book

IsUpdated(book, p) ==
  IF p \in book.tried.known THEN HasBucket(book.tried, p)
                            ELSE HasBucket(book.new, p)

\* upgradePeer: from the new list to the tried one. The peer is removed before
\* its address is looked at.
UpgradePeer(book, p) ==
  IF p \in book.tried.known \/ p \notin book.new.known THEN {book}
  ELSE LET rest == RemovePeer(book, p)
       IN  IF IP[p] \in BannedIPs(book) THEN {rest}
           ELSE {[rest EXCEPT !.tried = list] :
                   list \in Added("tried", TriedBucket, rest.tried, p)}

\* downgradePeer: a new peer is forgotten, a tried one after its last try is
\* new again; the peers of the configuration stay.
DowngradePeer(book, p) ==
  IF IsTrusted(p) THEN {book}
  ELSE IF p \in book.new.known THEN {[book EXCEPT !.new = Removed(@, p)]}
  ELSE IF p \in book.tried.known
    THEN LET failed == [book EXCEPT !.tried = Failed(@, p)]
         IN  IF FailedTooOften(book.tried, p) THEN AddPeer(failed, p) ELSE {failed}
  ELSE {book}

\* addBannedPeer: the listed peers of the address are removed.
RemoveAll(list, ps) ==
  LET gone == {p \in ps : HasBucket(list, p) /\ p \in list.in}
  IN  [list EXCEPT !.in = @ \ gone, !.known = @ \ gone,
                   !.failures = [p \in Peer |-> IF p \in gone THEN 0 ELSE @[p]]]

Ban(book, ip) ==
  LET ps == {p \in book.new.in \cup book.tried.in : IP[p] = ip}
  IN  IF ip \in BannedIPs(book) THEN book
      ELSE [book EXCEPT !.banned = @ \cup {ip}, !.new = RemoveAll(@, ps),
                        !.tried = RemoveAll(@, ps)]

\* Fixed and whitelisted peers are told apart by their id.
MayBan(p) == p \notin Fixed \cup Whitelisted

Unban(book, ip) == [book EXCEPT !.banned = @ \ {ip}]

\* The constructor adds the fixed and whitelisted peers and upgrades them.
FirstBook ==
  LET first == Fixed \cup Whitelisted
      kept  == {p \in first : IP[p] \notin Blacklisted}
  IN  [new |-> EmptyList, banned |-> {},
       tried |-> [EmptyList EXCEPT !.in = kept, !.known = kept]]
=============================================================================
