----------------------------- MODULE StoresProofs ---------------------------
(***************************************************************************)
(* Proofs about what a node stores, for any values of the constants.       *)
(*                                                                         *)
(* The state of the chain (StateStore), when what is set was read before   *)
(* and no account deleted in a block is read in it again. The invariant    *)
(* says for every key where the caches, the initial values and the         *)
(* database can stand to each other, for the cache and for the one kept by *)
(* createSnapshot, because restoreSnapshot makes the latter the former;    *)
(* and that every stored diff leads from the database above its block to   *)
(* the one below.                                                          *)
(*                                                                         *)
(* The record of the forger (Forger), when no status update overlaps the   *)
(* forging of a block. The invariant follows a block from the tip it is    *)
(* built on to the tip it becomes: it states as previously forged at least *)
(* the height of every block its delegate sent out (RecordCovers,          *)
(* BlockComesLast), and its chain ranks above all of them that did not     *)
(* fail, because the node leaves a chain only for a higher one             *)
(* (SettledRanks); together that orders the blocks of a delegate as an     *)
(* honest one signs them (Ordered).                                        *)
(*                                                                         *)
(* The seeds of the forger, whatever overlaps. The invariant follows the   *)
(* delegates that lost no block: the stored list of used layers has as its *)
(* highest entry the last block on the chain (LayersKnown), or the one     *)
(* about to be adopted; a start drops entries only of onions whose version *)
(* no block can have again (VersionsKept).                                 *)
(***************************************************************************)
EXTENDS StateStore, Forger, FiniteSetTheorems, SequenceTheorems, NaturalsInduction,
        WellFoundedInduction, TLAPS

\* The assumption of every theorem here: the modules of the repository keep to it.
ReadsBeforeWrites == BlindWrites = FALSE /\ ReadsDeleted = FALSE

\* One key in a cache c of a block that asked for w[k].
KeyAgrees(c, w, k) ==
  /\ k \in c.deleted =>
       c.data[k] = None /\ initial[k] # None /\ w[k] = None /\ k \notin c.updated
  /\ k \in c.updated =>
       /\ c.data[k] # None /\ w[k] = c.data[k]
       /\ k = FinalizedKey \/ initial[k] # None \/ db[k] = None
  /\ k \notin c.updated \cup c.deleted =>
       /\ w[k] = db[k]
       /\ c.data[k] # None =>
            c.data[k] = db[k] \/ (k \in Account /\ db[k] = None /\ c.data[k] = Default)
  /\ k \in Account /\ c.data[k] # None /\ initial[k] = None => db[k] = None

Agrees(c, w) == \A k \in Key : KeyAgrees(c, w, k)

InitialFromDb == \A k \in Key : initial[k] \in {None, db[k]}

\* The database above block h.
Above(h) == IF h = Len(diffs) THEN db ELSE past[h + 1]

DiffsUndo ==
  \A h \in 1..Len(diffs) : \A k \in Key \ {FinalizedKey} :
    Undone(Above(h), diffs[h])[k] = past[h][k]

IInv ==
  /\ TypeOK
  /\ executing => InitialFromDb /\ Agrees(cache, want)
  /\ executing /\ snapshot => Agrees(original, wantOriginal)
  /\ DiffsUndo

-----------------------------------------------------------------------------
LEMMA CachesTyped ==
  ASSUME TypeOK
  PROVE  /\ \A c \in {cache, original} :
              /\ c \in [data : [Key -> Value \cup {None}], updated : SUBSET Key,
                         deleted : SUBSET Account]
              /\ c.data \in [Key -> Value \cup {None}]
              /\ c.updated \subseteq Key /\ c.deleted \subseteq Account
         /\ Account \subseteq Key /\ FinalizedKey \in Key /\ FinalizedKey \notin Account
         /\ Default \in Value /\ None \notin Value
  BY StateStoreAssumption DEF TypeOK, CacheType, Key

\* A diff of typed values is typed.
LEMMA DiffTyped ==
  ASSUME IInv, executing
  PROVE  /\ Diff \in DiffType
         /\ DOMAIN Diff.restored \subseteq Key
         /\ Diff.created \subseteq Key
  <1> DEFINE changed == {k \in cache.updated \ {FinalizedKey} :
                           initial[k] # None /\ initial[k] # cache.data[k]}
             S == changed \cup cache.deleted
             R == [k \in S |-> initial[k]]
             C == {k \in cache.updated \ {FinalizedKey} : initial[k] = None}
  <1>1. S \in SUBSET Key
    BY CachesTyped DEF IInv
  <1>2. R \in [S -> Value]
    <2>1. initial \in [Key -> Value \cup {None}]
      BY DEF IInv, TypeOK
    <2>2. ASSUME NEW k \in S
          PROVE  initial[k] \in Value
      BY <1>1, <2>1 DEF IInv, Agrees, KeyAgrees
    <2> QED  BY <2>2
  <1>3. C \in SUBSET Key
    BY CachesTyped DEF IInv
  <1>4. Diff = [created |-> C, restored |-> R]
    BY DEF Diff
  <1>5. R \in UNION {[T -> Value] : T \in SUBSET Key}
    BY <1>1, <1>2
  <1>6. Diff.restored = R /\ Diff.created = C /\ DOMAIN R = S
    BY <1>4
  <1> HIDE DEF R, C, S
  <1> QED  BY <1>1, <1>3, <1>4, <1>5, <1>6 DEF DiffType

\* What finalize writes is what the block asked for, key by key.
LEMMA FinalizedIsWanted ==
  ASSUME IInv, executing, NEW k \in Key
  PROVE  Finalized[k] = want[k]
  BY CachesTyped DEF IInv, Agrees, KeyAgrees, Finalized

\* The diff undoes the batch it is saved with, for every key but the finalized
\* height.
LEMMA DiffInvertsBatch ==
  ASSUME IInv, executing, NEW k \in Key \ {FinalizedKey}
  PROVE  Undone(Finalized, Diff)[k] = db[k]
  <1> DEFINE changed == {j \in cache.updated \ {FinalizedKey} :
                           initial[j] # None /\ initial[j] # cache.data[j]}
  <1>1. /\ Diff.created = {j \in cache.updated \ {FinalizedKey} : initial[j] = None}
        /\ Diff.restored = [j \in changed \cup cache.deleted |-> initial[j]]
    BY DEF Diff
  <1>2. DOMAIN Diff.restored = changed \cup cache.deleted
    BY <1>1
  <1>3. KeyAgrees(cache, want, k) /\ initial[k] \in {None, db[k]}
    BY DEF IInv, Agrees, InitialFromDb
  <1>4. Undone(Finalized, Diff)[k] =
          IF k \in changed \cup cache.deleted THEN initial[k]
          ELSE IF k \in Diff.created THEN None ELSE Finalized[k]
    BY <1>1, <1>2 DEF Undone
  <1>5. Finalized[k] = IF k \in cache.deleted THEN None
                       ELSE IF k \in cache.updated THEN cache.data[k] ELSE db[k]
    BY DEF Finalized
  <1>6. CASE k \in cache.deleted
    BY <1>3, <1>4, <1>6 DEF KeyAgrees
  <1>7. CASE k \notin cache.deleted /\ k \notin cache.updated
    BY <1>1, <1>4, <1>5, <1>7
  <1>8. CASE k \notin cache.deleted /\ k \in cache.updated
    BY <1>1, <1>3, <1>4, <1>5, <1>8 DEF KeyAgrees
  <1> QED  BY <1>6, <1>7, <1>8

-----------------------------------------------------------------------------
LEMMA DiffsKept ==
  ASSUME DiffsUndo, UNCHANGED <<db, diffs, past>>
  PROVE  DiffsUndo'
  BY DEF DiffsUndo, Above, Undone

LEMMA LoadStep ==
  ASSUME IInv, NEW k \in Key, executing, cache.data[k] = None, k \notin cache.deleted,
         db[k] # None, Load(k),
         UNCHANGED <<db, diffs, past, executing, original, snapshot, want, wantOriginal>>
  PROVE  IInv'
  <1>1. TypeOK'
    <2>1. cache' \in CacheType
      BY CachesTyped DEF IInv, TypeOK, Load, CacheType
    <2>2. initial' \in [Key -> Value \cup {None}]
      BY DEF IInv, TypeOK, Load
    <2> QED  BY <2>1, <2>2 DEF IInv, TypeOK
  <1>2. initial \in [Key -> Value \cup {None}] /\ db \in [Key -> Value \cup {None}]
        /\ cache.data \in [Key -> Value \cup {None}]
    BY CachesTyped DEF IInv, TypeOK
  <1>3. InitialFromDb'
    BY <1>2 DEF IInv, InitialFromDb, Load
  <1>4. ASSUME NEW j \in Key
        PROVE  KeyAgrees(cache, want, j)'
    <2>1. KeyAgrees(cache, want, j) /\ KeyAgrees(cache, want, k)
      BY DEF IInv, Agrees
    <2>2. cache'.updated = cache.updated /\ cache'.deleted = cache.deleted
          /\ cache'.data = [cache.data EXCEPT ![k] = db[k]]
      BY CachesTyped DEF IInv, Load
    <2>3. CASE j = k
      BY <1>2, <2>1, <2>2, <2>3, CachesTyped DEF KeyAgrees, Load, IInv
    <2>4. CASE j # k
      BY <1>2, <2>1, <2>2, <2>4 DEF KeyAgrees, Load
    <2> QED  BY <2>3, <2>4
  <1>5. ASSUME snapshot, NEW j \in Key
        PROVE  KeyAgrees(original, wantOriginal, j)'
    <2>1. KeyAgrees(original, wantOriginal, j)
      BY <1>5 DEF IInv, Agrees
    <2>2. j \in Account /\ j = k => initial'[j] = db[j] /\ j # FinalizedKey
      BY <1>2, CachesTyped DEF Load, IInv
    <2>3. j # k => initial'[j] = initial[j]
      BY <1>2 DEF Load
    <2>4. initial[j] # None => initial'[j] # None \/ j = FinalizedKey
      BY <1>2 DEF Load
    <2>5. j = FinalizedKey => initial'[j] = initial[j]
      BY <1>2 DEF Load
    <2> QED  BY <2>1, <2>2, <2>3, <2>4, <2>5 DEF KeyAgrees
  <1>6. DiffsUndo'
    BY DiffsKept DEF IInv
  <1> QED  BY <1>1, <1>3, <1>4, <1>5, <1>6 DEF IInv, Agrees

LEMMA GetOrDefaultStep ==
  ASSUME ReadsBeforeWrites, IInv, NEW a \in Account, GetOrDefault(a)
  PROVE  IInv'
  <1>1. a \in Key /\ executing /\ cache.data[a] = None /\ a \notin cache.deleted
    BY DEF ReadsBeforeWrites, GetOrDefault, IsCached, Key
  <1>2. CASE db[a] # None
    BY <1>1, <1>2, LoadStep DEF GetOrDefault
  <1>3. CASE db[a] = None
    <2>1. /\ cache' = [cache EXCEPT !.data[a] = Default]
          /\ UNCHANGED <<db, diffs, past, executing, initial, original, snapshot,
                         want, wantOriginal>>
      BY <1>3 DEF GetOrDefault
    <2>2. /\ cache'.updated = cache.updated /\ cache'.deleted = cache.deleted
          /\ cache'.data = [cache.data EXCEPT ![a] = Default]
          /\ cache.data \in [Key -> Value \cup {None}]
          /\ cache' \in CacheType
      BY <2>1, CachesTyped DEF IInv, CacheType
    <2>3. TypeOK'
      BY <2>1, <2>2 DEF IInv, TypeOK
    <2>4. ASSUME NEW j \in Key
          PROVE  KeyAgrees(cache, want, j)'
      <3>1. KeyAgrees(cache, want, j)
        BY <1>1 DEF IInv, Agrees
      <3>2. CASE j = a
        BY <1>1, <1>3, <2>1, <2>2, <3>1, <3>2, CachesTyped DEF KeyAgrees, IInv
      <3>3. CASE j # a
        BY <2>1, <2>2, <3>1, <3>3 DEF KeyAgrees
      <3> QED  BY <3>2, <3>3
    <2>5. snapshot => Agrees(original, wantOriginal)'
      BY <1>1, <2>1 DEF IInv, Agrees, KeyAgrees
    <2>6. InitialFromDb' /\ DiffsUndo'
      BY <1>1, <2>1, DiffsKept DEF IInv, InitialFromDb
    <2> QED  BY <2>1, <2>3, <2>4, <2>5, <2>6 DEF IInv, Agrees
  <1> QED  BY <1>2, <1>3

LEMMA SetStep ==
  ASSUME ReadsBeforeWrites, IInv, NEW k \in Key, NEW v \in Value, Set(k, v)
  PROVE  IInv'
  <1>1. /\ executing
        /\ initial[k] # None \/ db[k] = None \/ k = FinalizedKey
        /\ cache'.data = [cache.data EXCEPT ![k] = v]
        /\ cache'.updated = cache.updated \cup {k}
        /\ cache'.deleted = cache.deleted \ {k}
        /\ want' = [want EXCEPT ![k] = v]
        /\ UNCHANGED <<db, diffs, past, executing, initial, original, snapshot,
                       wantOriginal>>
    BY DEF ReadsBeforeWrites, Set, MaySet, UndeletedBySet
  <1>2. cache' \in CacheType /\ want' \in [Key -> Value \cup {None}]
    BY <1>1, CachesTyped DEF IInv, CacheType, TypeOK, Set
  <1>3. TypeOK'
    BY <1>1, <1>2 DEF IInv, TypeOK
  <1>4. /\ cache.data \in [Key -> Value \cup {None}]
        /\ want \in [Key -> Value \cup {None}] /\ None \notin Value
    BY CachesTyped DEF IInv, TypeOK
  <1>5. ASSUME NEW j \in Key
        PROVE  KeyAgrees(cache, want, j)'
    <2>1. KeyAgrees(cache, want, j)
      BY <1>1 DEF IInv, Agrees
    <2>2. CASE j = k
      BY <1>1, <1>4, <2>1, <2>2, CachesTyped DEF KeyAgrees, IInv
    <2>3. CASE j # k
      BY <1>1, <1>4, <2>1, <2>3 DEF KeyAgrees
    <2> QED  BY <2>2, <2>3
  <1>6. snapshot => Agrees(original, wantOriginal)'
    BY <1>1 DEF IInv, Agrees, KeyAgrees
  <1>7. InitialFromDb' /\ DiffsUndo'
    BY <1>1, DiffsKept DEF IInv, InitialFromDb
  <1> QED  BY <1>1, <1>3, <1>5, <1>6, <1>7 DEF IInv, Agrees

LEMMA DelStep ==
  ASSUME IInv, NEW a \in Account, Del(a)
  PROVE  IInv'
  <1> DEFINE stored == IF IsCached(a) THEN initial[a] ELSE db[a]
  <1>1. /\ executing /\ a \in Key /\ a # FinalizedKey
        /\ IsCached(a) \/ (a \notin cache.deleted /\ db[a] # None)
        /\ initial' = [initial EXCEPT ![a] = stored]
        /\ cache'.data = [cache.data EXCEPT ![a] = None]
        /\ cache'.updated = cache.updated \ {a}
        /\ cache'.deleted = IF stored # None THEN cache.deleted \cup {a} ELSE cache.deleted
        /\ want' = [want EXCEPT ![a] = None]
        /\ UNCHANGED <<db, diffs, past, executing, original, snapshot, wantOriginal>>
    BY CachesTyped DEF Del, IInv
  <1>2. /\ cache.data \in [Key -> Value \cup {None}] /\ db \in [Key -> Value \cup {None}]
        /\ want \in [Key -> Value \cup {None}] /\ initial \in [Key -> Value \cup {None}]
    BY CachesTyped DEF IInv, TypeOK
  <1>3. stored \in Value \cup {None} /\ stored \in {None, db[a]}
    BY <1>1, <1>2 DEF IInv, InitialFromDb
  <1>4. TypeOK'
    <2>1. cache' \in CacheType
      BY <1>1, <1>2, CachesTyped DEF Del, CacheType, IInv
    <2>2. initial' \in [Key -> Value \cup {None}] /\ want' \in [Key -> Value \cup {None}]
      BY <1>1, <1>2, <1>3
    <2> QED  BY <1>1, <2>1, <2>2 DEF IInv, TypeOK
  <1>5. InitialFromDb'
    BY <1>1, <1>2, <1>3 DEF IInv, InitialFromDb
  \* A cached account without initial value is not in the database.
  <1>6. stored = None => db[a] = None /\ a \notin cache.deleted
    BY <1>1 DEF IInv, Agrees, KeyAgrees, IsCached
  <1> HIDE DEF stored
  <1>7. ASSUME NEW j \in Key
        PROVE  KeyAgrees(cache, want, j)'
    <2>1. KeyAgrees(cache, want, j)
      BY <1>1 DEF IInv, Agrees
    <2>2. CASE j = a
      BY <1>1, <1>2, <1>6, <2>1, <2>2 DEF KeyAgrees
    <2>3. CASE j # a
      BY <1>1, <1>2, <2>1, <2>3 DEF KeyAgrees
    <2> QED  BY <2>2, <2>3
  <1>8. ASSUME snapshot, NEW j \in Key
        PROVE  KeyAgrees(original, wantOriginal, j)'
    <2>1. KeyAgrees(original, wantOriginal, j)
      BY <1>1, <1>8 DEF IInv, Agrees
    <2>2. j = a => initial'[j] = stored
      BY <1>1, <1>2
    <2>3. j # a => initial'[j] = initial[j]
      BY <1>1, <1>2
    <2>4. stored = None => initial[a] = None
      BY <1>1, <1>6 DEF IInv, InitialFromDb
    <2> QED  BY <1>1, <1>6, <2>1, <2>2, <2>3, <2>4 DEF KeyAgrees
  <1>9. DiffsUndo'
    BY <1>1, DiffsKept DEF IInv
  <1> QED  BY <1>1, <1>4, <1>5, <1>7, <1>8, <1>9 DEF IInv, Agrees

LEMMA FreshTyped ==
  /\ EmptyCache \in CacheType
  /\ NoValues \in [Key -> Value \cup {None}]
  BY DEF EmptyCache, CacheType, NoValues

LEMMA BeginStep ==
  ASSUME IInv, Begin
  PROVE  IInv'
  <1>1. /\ executing' /\ ~snapshot' /\ cache' = EmptyCache /\ original' = EmptyCache
        /\ initial' = NoValues /\ want' = db /\ wantOriginal' = NoValues
        /\ UNCHANGED <<db, diffs, past>>
    BY DEF Begin, NewStateStore
  <1>2. TypeOK'
    BY <1>1, FreshTyped DEF Begin, NewStateStore, IInv, TypeOK
  <1>3. InitialFromDb' /\ Agrees(cache, want)'
    BY <1>1 DEF InitialFromDb, Agrees, KeyAgrees, EmptyCache, NoValues
  <1> QED  BY <1>1, <1>2, <1>3, DiffsKept DEF IInv

LEMMA SnapshotStep ==
  ASSUME IInv, CreateSnapshot \/ RestoreSnapshot
  PROVE  IInv'
  <1>1. executing /\ UNCHANGED <<db, diffs, past, executing, initial>>
    BY DEF CreateSnapshot, RestoreSnapshot
  <1>2. TypeOK'
    BY FreshTyped DEF IInv, TypeOK, CreateSnapshot, RestoreSnapshot, RestoredCache
  <1>3. Agrees(cache, want)' /\ (snapshot' => Agrees(original, wantOriginal)')
    <2>1. CASE CreateSnapshot
      BY <1>1, <2>1 DEF IInv, Agrees, KeyAgrees, CreateSnapshot
    <2>2. CASE RestoreSnapshot
      BY <1>1, <2>2 DEF IInv, Agrees, KeyAgrees, RestoreSnapshot, RestoredCache
    <2> QED  BY <2>1, <2>2
  <1> QED  BY <1>1, <1>2, <1>3, DiffsKept DEF IInv, InitialFromDb

LEMMA DiscardStep ==
  ASSUME IInv, Discard
  PROVE  IInv'
  <1>1. ~executing' /\ UNCHANGED <<db, diffs, past>>
    BY DEF Discard, NewStateStore
  <1>2. TypeOK'
    BY <1>1, FreshTyped DEF Discard, NewStateStore, IInv, TypeOK
  <1> QED  BY <1>1, <1>2, DiffsKept DEF IInv

LEMMA SaveBlockStep ==
  ASSUME IInv, SaveBlock
  PROVE  IInv'
  <1>1. /\ executing /\ ~executing'
        /\ db' = Finalized /\ diffs' = Append(diffs, Diff) /\ past' = Append(past, db)
    BY DEF SaveBlock, NewStateStore
  <1>2. Finalized \in [Key -> Value \cup {None}]
    <2>1. \A k \in Key : Finalized[k] \in Value \cup {None}
      BY <1>1, FinalizedIsWanted DEF IInv, TypeOK
    <2> QED  BY <2>1 DEF Finalized
  <1>3. Diff \in DiffType
    BY <1>1, DiffTyped
  <1>4. /\ diffs \in Seq(DiffType) /\ past \in Seq([Key -> Value \cup {None}])
        /\ Len(past) = Len(diffs) /\ db \in [Key -> Value \cup {None}]
    BY DEF IInv, TypeOK
  <1>5. TypeOK'
    <2>1. /\ diffs' \in Seq(DiffType) /\ past' \in Seq([Key -> Value \cup {None}])
          /\ Len(past') = Len(diffs')
      BY <1>1, <1>3, <1>4
    <2>2. /\ executing' \in BOOLEAN /\ snapshot' \in BOOLEAN
          /\ cache' \in CacheType /\ original' \in CacheType
          /\ initial' = NoValues /\ want' = NoValues /\ wantOriginal' = NoValues
      BY FreshTyped DEF SaveBlock, NewStateStore
    <2> QED  BY <1>1, <1>2, <2>1, <2>2, FreshTyped DEF TypeOK
  <1>6. ASSUME NEW h \in 1..Len(diffs'), NEW k \in Key \ {FinalizedKey}
        PROVE  Undone(Above(h)', diffs'[h])[k] = past'[h][k]
    <2>1. CASE h = Len(diffs')
      <3>1. diffs'[h] = Diff /\ past'[h] = db
        BY <1>1, <1>4, <2>1
      <3>2. Above(h)' = Finalized
        BY <1>1, <2>1 DEF Above
      <3> QED  BY <1>1, <3>1, <3>2, DiffInvertsBatch
    <2>2. CASE h # Len(diffs')
      <3>1. h \in 1..Len(diffs)
        BY <1>1, <1>3, <1>4, <2>2
      <3>2. diffs'[h] = diffs[h] /\ past'[h] = past[h]
        BY <1>1, <1>3, <1>4, <3>1
      <3>3. Above(h)' = past'[h + 1]
        BY <2>2 DEF Above
      <3>4. past'[h + 1] = Above(h)
        BY <1>1, <1>4, <3>1 DEF Above
      <3> QED  BY <3>1, <3>2, <3>3, <3>4 DEF IInv, DiffsUndo
    <2> QED  BY <2>1, <2>2
  <1>7. DiffsUndo'
    BY <1>6 DEF DiffsUndo, Undone
  <1> QED  BY <1>1, <1>5, <1>7 DEF IInv

LEMMA DeleteBlockStep ==
  ASSUME IInv, DeleteBlock
  PROVE  IInv'
  <1>1. /\ ~executing /\ ~executing' /\ diffs # <<>>
        /\ db' = Undone(db, diffs[Height])
        /\ diffs' = SubSeq(diffs, 1, Height - 1)
        /\ past' = SubSeq(past, 1, Height - 1)
        /\ UNCHANGED <<executing, cache, initial, original, snapshot, want, wantOriginal>>
    BY DEF DeleteBlock, storeVars
  <1>2. /\ diffs \in Seq(DiffType) /\ past \in Seq([Key -> Value \cup {None}])
        /\ Len(past) = Len(diffs) /\ db \in [Key -> Value \cup {None}]
        /\ Height \in Nat \ {0}
    BY <1>1 DEF IInv, TypeOK, Height
  <1>3. db' \in [Key -> Value \cup {None}]
    <2>1. diffs[Height] \in DiffType
      BY <1>2 DEF Height
    <2>2. diffs[Height].restored \in [DOMAIN diffs[Height].restored -> Value]
      BY <2>1 DEF DiffType
    <2>3. ASSUME NEW k \in Key
          PROVE  db'[k] \in Value \cup {None}
      BY <1>1, <1>2, <2>2 DEF Undone
    <2> QED  BY <1>1, <2>3 DEF Undone
  <1>4. /\ diffs' \in Seq(DiffType) /\ Len(diffs') = Height - 1
        /\ past' \in Seq([Key -> Value \cup {None}]) /\ Len(past') = Height - 1
        /\ \A h \in 1..(Height - 1) : diffs'[h] = diffs[h] /\ past'[h] = past[h]
    BY <1>1, <1>2 DEF Height
  <1>5. TypeOK'
    BY <1>1, <1>3, <1>4 DEF IInv, TypeOK
  <1>6. ASSUME NEW h \in 1..Len(diffs'), NEW k \in Key \ {FinalizedKey}
        PROVE  Undone(Above(h)', diffs'[h])[k] = past'[h][k]
    <2>1. h \in 1..Len(diffs) /\ h # Len(diffs) /\ h \in 1..(Height - 1)
      BY <1>2, <1>4 DEF Height
    <2>2. Undone(Above(h), diffs[h])[k] = past[h][k] /\ Above(h) = past[h + 1]
      BY <2>1 DEF IInv, DiffsUndo, Above
    <2>3. CASE h = Height - 1
      <3>1. Above(h)' = db'
        BY <1>4, <2>3 DEF Above
      <3>2. \A j \in Key \ {FinalizedKey} : db'[j] = past[h + 1][j]
        BY <1>1, <1>2, <2>3 DEF IInv, DiffsUndo, Above, Height
      <3>3. Undone(db', diffs[h])[k] = Undone(past[h + 1], diffs[h])[k]
        BY <3>2 DEF Undone
      <3> QED  BY <1>4, <2>1, <2>2, <3>1, <3>3
    <2>4. CASE h # Height - 1
      <3>1. Above(h)' = past'[h + 1] /\ h + 1 \in 1..(Height - 1)
        BY <1>2, <1>4, <2>1, <2>4 DEF Above
      <3> QED  BY <1>4, <2>1, <2>2, <3>1
    <2> QED  BY <2>3, <2>4
  <1>7. DiffsUndo'
    BY <1>6 DEF DiffsUndo, Undone
  <1> QED  BY <1>1, <1>5, <1>7 DEF IInv

LEMMA Inductive ==
  ASSUME ReadsBeforeWrites
  PROVE  IInv /\ [Next]_vars => IInv'
  <1> SUFFICES ASSUME IInv, [Next]_vars PROVE IInv'
    OBVIOUS
  <1>1. ASSUME NEW k \in Key, Get(k) PROVE IInv'
    BY <1>1, LoadStep DEF Get, IsCached
  <1>2. ASSUME NEW a \in Account, GetOrDefault(a) \/ Del(a) PROVE IInv'
    BY <1>2, GetOrDefaultStep, DelStep
  <1>3. ASSUME NEW k \in Key, NEW v \in Value, Set(k, v) PROVE IInv'
    BY <1>3, SetStep
  <1>4. CASE UNCHANGED vars
    <2>1. TypeOK'
      BY <1>4 DEF vars, IInv, TypeOK
    <2>2. executing' => InitialFromDb' /\ Agrees(cache, want)'
      BY <1>4 DEF vars, IInv, InitialFromDb, Agrees, KeyAgrees
    <2>3. executing' /\ snapshot' => Agrees(original, wantOriginal)'
      BY <1>4 DEF vars, IInv, Agrees, KeyAgrees
    <2>4. DiffsUndo'
      BY <1>4, DiffsKept DEF vars, IInv
    <2> QED  BY <2>1, <2>2, <2>3, <2>4 DEF IInv
  <1> QED
    BY <1>1, <1>2, <1>3, <1>4, BeginStep, SnapshotStep, DiscardStep, SaveBlockStep,
       DeleteBlockStep DEF Next

LEMMA Invariant ==
  ASSUME ReadsBeforeWrites
  PROVE  Spec => []IInv
  <1>1. Init => IInv
    <2> SUFFICES ASSUME Init PROVE IInv
      OBVIOUS
    <2>1. diffs = <<>> /\ past = <<>> /\ ~executing
      BY DEF Init
    <2>2. TypeOK
      <3>1. /\ <<>> \in Seq(DiffType) /\ <<>> \in Seq([Key -> Value \cup {None}])
            /\ FALSE \in BOOLEAN
        OBVIOUS
      <3> QED  BY <3>1, FreshTyped DEF Init, TypeOK
    <2>3. DiffsUndo
      BY <2>1 DEF DiffsUndo
    <2> QED  BY <2>1, <2>2, <2>3 DEF IInv
  <1> QED  BY <1>1, Inductive, PTL DEF Spec

-----------------------------------------------------------------------------
\* Type correctness of the state store and its diffs.
THEOREM StateStoreTypeOK ==
  ASSUME ReadsBeforeWrites
  PROVE  Spec => []TypeOK
  BY Invariant, PTL DEF IInv

\* For any database and any sequence of reads, writes, deletions and snapshots in a
\* block, the stored diff leads back to the database below the block.
THEOREM DiffUndoesBlock ==
  ASSUME ReadsBeforeWrites
  PROVE  Spec => []UndoRestores
  <1>1. IInv => UndoRestores
    BY DEF IInv, TypeOK, DiffsUndo, UndoRestores, Above, Height
  <1> QED  BY <1>1, Invariant, PTL

\* A block reads what it wrote and did not take back.
THEOREM BlockReadsItsWrites ==
  ASSUME ReadsBeforeWrites
  PROVE  Spec => []ReadYourWrites
  <1>1. IInv => ReadYourWrites
    BY DEF IInv, Agrees, KeyAgrees, ReadYourWrites, Visible, IsCached
  <1> QED  BY <1>1, Invariant, PTL

\* All that a block is promised by its store: types, a diff that leads back to
\* the database below it, and reads that see what was written.
THEOREM StoreStaysSound ==
  ASSUME ReadsBeforeWrites
  PROVE  Spec => []StateSound
  BY StateStoreTypeOK, DiffUndoesBlock, BlockReadsItsWrites, PTL DEF StateSound

\* The batch of a block holds exactly the effect of the operations not taken back.
THEOREM BatchIsWhatWasWritten ==
  ASSUME ReadsBeforeWrites
  PROVE  Spec => SavesWhatWasWritten
  <1>1. ASSUME IInv, [Next]_vars
        PROVE  [diffs' # diffs /\ executing => db' = want]_vars
    <2> SUFFICES ASSUME diffs' # diffs, executing, Next
                 PROVE  db' = want
      BY <1>1 DEF vars
    <2>1. SaveBlock
      BY DEF Next, Begin, Get, GetOrDefault, Del, Set, CreateSnapshot, RestoreSnapshot,
             Discard, DeleteBlock
    <2>2. db' = Finalized
      BY <2>1 DEF SaveBlock
    <2>3. \A k \in Key : Finalized[k] = want[k]
      BY <1>1, FinalizedIsWanted
    <2> QED  BY <1>1, <2>2, <2>3 DEF Finalized, IInv, TypeOK
  <1> QED  BY <1>1, Invariant, PTL DEF Spec, SavesWhatWasWritten

-----------------------------------------------------------------------------
(* The invariant of the forger.                                            *)

IsSeq(c) == \E S : c \in Seq(S)

IsBlock(b) == b.mhpf \in Nat /\ b.mhp \in Nat /\ b.next \in Nat

\* A chain: what its blocks prevote never falls and is never above them, and
\* a block states the prevoted height of the chain below it or less.
IsChain(c) ==
  /\ IsSeq(c)
  /\ \A h \in 1..Len(c) :
       /\ IsBlock(c[h]) /\ c[h].mhp <= c[h].next /\ c[h].next <= h
       /\ \A g \in 1..(h - 1) : c[g].next <= c[h].mhp

\* Chain c ranks at least as high as chain d.
AtLeast(c, d) ==
  \/ TipOf(d).mhp < TipOf(c).mhp
  \/ TipOf(d).mhp = TipOf(c).mhp /\ Len(d) <= Len(c)

\* The order of two headers that do not contradict each other.
Before(c, d) ==
  /\ Len(c) <= Last(d).mhpf
  /\ Last(c).mhpf <= Last(d).mhpf
  /\ \/ Last(c).mhp < Last(d).mhp
     \/ Last(c).mhp = Last(d).mhp /\ Len(c) < Len(d)

Steps == {"begun", "created", "recorded", "kept", "processing"}
Forging == job # Idle

\* What was broadcast and neither failed nor is being applied.
Settled == {c \in broadcast \ failed : job.pc = "processing" => c # Forged}

ChainsWellFormed ==
  /\ IsChain(chain)
  /\ syncFrom # Idle => IsChain(syncFrom.old)
  /\ Forging => IsChain(job.on)
  /\ \A c \in broadcast : IsChain(c) /\ Len(c) > 0

JobWellFormed ==
  Forging =>
    /\ job.pc \in Steps
    /\ DOMAIN job = {"pc", "d", "on"} \cup
         (IF job.pc = "begun" THEN {} ELSE {"map", "list", "block"})
    /\ job.d \in Delegate
    /\ job.pc # "begun" =>
         /\ IsBlock(job.block) /\ job.block.gen = job.d
         /\ MaxHeightPrevoted(job.on) <= job.block.next
         /\ job.block.next <= Len(job.on) + 1
    /\ job.pc = "created" =>
         /\ job.map = forged
         /\ job.block.mhpf = MaxHeightPreviouslyForged(job.d)
    /\ job.pc = "processing" =>
         /\ chain = job.on
         /\ job.block.mhp = MaxHeightPrevoted(job.on)
         /\ Forged \in broadcast

UpdateWellFormed ==
  update # Idle =>
    /\ job = Idle
    /\ update.pc = "read"
    /\ update.d \in Delegate
    /\ update.map = forged
    /\ update.info \in [height : Nat, mhp : Nat, mhpf : Nat]
    /\ update.overwrite \in BOOLEAN
    /\ update.overwrite => update.d \in overwritten

SyncWellFormed ==
  /\ finalized \in Nat
  /\ syncFrom = Idle => finalized <= Len(chain)
  /\ syncFrom # Idle =>
       /\ syncFrom.pc = "reverted"
       /\ syncFrom.common \in Nat
       /\ finalized <= syncFrom.common
       /\ syncFrom.common < Len(syncFrom.old)
       /\ syncFrom.common <= Len(chain)
       /\ Forging => chain = SubSeq(syncFrom.old, 1, syncFrom.common)

\* The record covers a block: it is not below its height nor below what the
\* block says was forged before it.
Covers(info, height, mhpf) ==
  info # NoInfo /\ info.height >= height /\ info.height >= mhpf

RecordCovers ==
  \A c \in broadcast :
    Last(c).gen \notin overwritten =>
      Last(c).gen \in Delegate /\ Covers(forged[Last(c).gen], Len(c), Last(c).mhpf)

\* The block being forged comes after all others of its delegate.
BlockComesLast ==
  /\ Forging /\ job.pc \in {"created", "recorded", "kept"} =>
       \A c \in broadcast :
         (Last(c).gen = job.d /\ job.d \notin overwritten) =>
           Len(c) <= job.block.mhpf /\ Last(c).mhpf <= job.block.mhpf
  /\ (Forging /\ job.pc \in {"recorded", "kept", "processing"}
        /\ job.d \notin overwritten) =>
         Covers(forged[job.d], Len(job.on) + 1, job.block.mhpf)

\* The node never leaves its chain for a lower one.
SettledRanks ==
  \A c \in Settled :
    /\ AtLeast(IF syncFrom = Idle THEN chain ELSE syncFrom.old, c)
    /\ Forging => AtLeast(job.on, c)

Ordered ==
  \A c, d \in broadcast \ failed :
    Last(c).gen = Last(d).gen /\ Last(c).gen \notin overwritten =>
      c = d \/ Before(c, d) \/ Before(d, c)

ForgerInvariant ==
  /\ ForgerTypeOK
  /\ ChainsWellFormed
  /\ JobWellFormed
  /\ UpdateWellFormed
  /\ SyncWellFormed
  /\ RecordCovers
  /\ BlockComesLast
  /\ SettledRanks
  /\ Ordered

-----------------------------------------------------------------------------
(* Chains.                                                                 *)

LEMMA SeqIs ==
  ASSUME NEW c, IsSeq(c)
  PROVE  /\ Len(c) \in Nat
         /\ DOMAIN c = 1..Len(c)
         /\ c = <<>> <=> Len(c) = 0
<1> PICK S : c \in Seq(S)
  BY DEF IsSeq
<1> QED BY LenProperties, EmptySeq

LEMMA AppendIs ==
  ASSUME NEW c, IsSeq(c), NEW e
  PROVE  /\ IsSeq(Append(c, e))
         /\ Len(Append(c, e)) = Len(c) + 1
         /\ \A i \in 1..Len(c) : Append(c, e)[i] = c[i]
         /\ Append(c, e)[Len(c) + 1] = e
         /\ Last(Append(c, e)) = e
         /\ TipOf(Append(c, e)) = e
<1> PICK S : c \in Seq(S)
  BY DEF IsSeq
<1> DEFINE T == S \cup {e}
<1>1. c \in Seq(T) /\ e \in T
  BY SeqMonotonic
<1> HIDE DEF T
<1>2. Append(c, e) \in Seq(T)
  BY <1>1
<1>3. /\ Len(Append(c, e)) = Len(c) + 1
      /\ \A i \in 1..Len(c) : Append(c, e)[i] = c[i]
      /\ Append(c, e)[Len(c) + 1] = e
      /\ Len(c) \in Nat
  BY <1>1, LenProperties
<1>4. Append(c, e) # <<>>
  BY <1>2, <1>3, EmptySeq
<1> QED BY <1>2, <1>3, <1>4 DEF IsSeq, Last, TipOf

LEMMA PrefixIs ==
  ASSUME NEW c, IsSeq(c), NEW n \in 0..Len(c)
  PROVE  /\ IsSeq(SubSeq(c, 1, n))
         /\ Len(SubSeq(c, 1, n)) = n
         /\ \A i \in 1..n : SubSeq(c, 1, n)[i] = c[i]
<1> PICK S : c \in Seq(S)
  BY DEF IsSeq
<1>1. Len(c) \in Nat /\ n \in Nat /\ 1 \in Int /\ n \in Int
  BY LenProperties
<1>2. \A i \in 1..n : c[i] \in S
  BY <1>1, ElementOfSeq
<1>3. PICK p : p = SubSeq(c, 1, n)
  OBVIOUS
<1>4. /\ p \in Seq(S)
      /\ Len(p) = IF 1 <= n THEN n - 1 + 1 ELSE 0
      /\ \A i \in 1..(n - 1 + 1) : p[i] = c[1 + i - 1]
  BY <1>1, <1>2, <1>3, SubSeqProperties
<1>5. Len(p) = n /\ \A i \in 1..n : p[i] = c[i]
  <2>1. n - 1 + 1 = n /\ \A i \in 1..n : 1 + i - 1 = i
    BY <1>1
  <2> QED BY <1>1, <1>4, <2>1
<1> QED BY <1>3, <1>4, <1>5 DEF IsSeq

\* The tip of a chain.
LEMMA TipIs ==
  ASSUME NEW c, IsChain(c)
  PROVE  /\ Len(c) \in Nat
         /\ TipOf(c).mhp \in Nat /\ TipOf(c).next \in Nat
         /\ TipOf(c).mhp <= TipOf(c).next /\ TipOf(c).next <= Len(c)
         /\ Len(c) > 0 => TipOf(c) = c[Len(c)] /\ Last(c) = c[Len(c)]
         /\ Len(c) > 0 => IsBlock(Last(c))
         /\ Len(c) = 0 => TipOf(c) = Genesis
<1>1. Len(c) \in Nat /\ (c = <<>> <=> Len(c) = 0)
  BY SeqIs DEF IsChain
<1>2. CASE Len(c) = 0
  BY <1>1, <1>2 DEF TipOf, Genesis
<1>3. CASE Len(c) > 0
  <2>1. /\ IsBlock(c[Len(c)]) /\ c[Len(c)].mhp <= c[Len(c)].next
        /\ c[Len(c)].next <= Len(c)
    BY <1>1, <1>3 DEF IsChain
  <2>2. TipOf(c) = c[Len(c)] /\ Last(c) = c[Len(c)]
    BY <1>1, <1>3 DEF TipOf, Last
  <2> QED BY <1>1, <1>3, <2>1, <2>2 DEF IsBlock
<1> QED BY <1>1, <1>2, <1>3

\* A block that states the prevoted height of the chain makes a chain of it.
LEMMA AppendChain ==
  ASSUME NEW c, IsChain(c), NEW e, IsBlock(e), e.mhp = MaxHeightPrevoted(c),
         e.mhp <= e.next, e.next <= Len(c) + 1
  PROVE  /\ IsChain(Append(c, e))
         /\ Len(Append(c, e)) = Len(c) + 1
         /\ AtLeast(Append(c, e), c)
<1> DEFINE d == Append(c, e)
<1>1. /\ IsSeq(d) /\ Len(d) = Len(c) + 1 /\ TipOf(d) = e
      /\ \A i \in 1..Len(c) : d[i] = c[i]
      /\ d[Len(c) + 1] = e
  BY AppendIs DEF IsChain
<1>2. Len(c) \in Nat /\ TipOf(c).mhp \in Nat /\ TipOf(c).next \in Nat
      /\ TipOf(c).mhp <= TipOf(c).next
  BY TipIs
<1> HIDE DEF d
<1>3. \A g \in 1..Len(c) : c[g].next <= e.mhp
  <2> SUFFICES ASSUME NEW g \in 1..Len(c)
               PROVE  c[g].next <= e.mhp
    OBVIOUS
  <2>1. TipOf(c) = c[Len(c)] /\ e.mhp = c[Len(c)].next
    BY <1>2, TipIs DEF MaxHeightPrevoted
  <2>2. Len(c) \in 1..Len(c) /\ g <= Len(c)
    BY <1>2
  <2>3. CASE g = Len(c)
    BY <2>1, <2>3, <1>2
  <2>4. CASE g # Len(c)
    <3>1. g \in 1..(Len(c) - 1)
      BY <1>2, <2>4
    <3>2. c[g].next <= c[Len(c)].mhp
      BY <2>2, <3>1 DEF IsChain
    <3>3. c[g].next \in Nat
      BY DEF IsChain, IsBlock
    <3> QED BY <1>2, <2>1, <3>2, <3>3
  <2> QED BY <2>3, <2>4
<1>4. IsChain(d)
  <2> SUFFICES ASSUME NEW h \in 1..Len(d)
               PROVE  /\ IsBlock(d[h]) /\ d[h].mhp <= d[h].next /\ d[h].next <= h
                      /\ \A g \in 1..(h - 1) : d[g].next <= d[h].mhp
    BY <1>1 DEF IsChain
  <2>1. CASE h = Len(c) + 1
    BY <1>1, <1>2, <1>3, <2>1
  <2>2. CASE h \in 1..Len(c)
    <3>1. d[h] = c[h] /\ \A g \in 1..(h - 1) : d[g] = c[g]
      BY <1>1, <1>2, <2>2
    <3> QED BY <2>2, <3>1 DEF IsChain
  <2> QED BY <1>1, <1>2, <2>1, <2>2
<1>5. AtLeast(d, c)
  BY <1>1, <1>2 DEF AtLeast, MaxHeightPrevoted
<1> QED BY <1>1, <1>4, <1>5 DEF d

\* The first blocks of a chain are a chain, and it is outranked by no more
\* than they prevote.
LEMMA PrefixChain ==
  ASSUME NEW c, IsChain(c), NEW n \in 0..Len(c)
  PROVE  /\ IsChain(SubSeq(c, 1, n))
         /\ Len(SubSeq(c, 1, n)) = n
         /\ AtLeast(c, SubSeq(c, 1, n))
         /\ n < Len(c) => MaxHeightPrevoted(SubSeq(c, 1, n)) <= TipOf(c).mhp
<1> DEFINE p == SubSeq(c, 1, n)
<1>1. IsSeq(p) /\ Len(p) = n /\ \A i \in 1..n : p[i] = c[i]
  BY PrefixIs DEF IsChain
<1> HIDE DEF p
<1>2. Len(c) \in Nat /\ TipOf(c).mhp \in Nat /\ TipOf(c).next \in Nat
  BY TipIs
<1>3. IsChain(p)
  <2> SUFFICES ASSUME NEW h \in 1..n
               PROVE  /\ IsBlock(p[h]) /\ p[h].mhp <= p[h].next /\ p[h].next <= h
                      /\ \A g \in 1..(h - 1) : p[g].next <= p[h].mhp
    BY <1>1 DEF IsChain
  <2>1. h \in 1..Len(c) /\ p[h] = c[h] /\ \A g \in 1..(h - 1) : p[g] = c[g]
    BY <1>1, <1>2
  <2> QED BY <2>1 DEF IsChain
<1>4. /\ TipOf(p).mhp \in Nat /\ TipOf(p).next \in Nat
      /\ TipOf(p).mhp <= TipOf(p).next
  BY <1>3, TipIs
<1>5. ASSUME n < Len(c)
      PROVE  TipOf(p).next <= TipOf(c).mhp
  <2>1. TipOf(c) = c[Len(c)]
    BY <1>2, <1>5, TipIs
  <2>2. CASE n = 0
    BY <1>1, <1>2, <1>3, <2>2, TipIs DEF Genesis
  <2>3. CASE n > 0
    <3>1. TipOf(p) = c[n]
      BY <1>1, <1>3, <2>3, TipIs
    <3>2. n \in 1..(Len(c) - 1) /\ Len(c) \in 1..Len(c)
      BY <1>2, <1>5, <2>3
    <3> QED BY <2>1, <3>1, <3>2 DEF IsChain
  <2> QED BY <2>2, <2>3
<1>6. AtLeast(c, p)
  <2>1. CASE n < Len(c)
    BY <1>1, <1>2, <1>4, <1>5, <2>1 DEF AtLeast
  <2>2. CASE n = Len(c)
    <3>1. TipOf(p) = TipOf(c)
      <4>1. CASE n = 0
        BY <1>1, <1>3, <2>2, <4>1, TipIs
      <4>2. CASE n > 0
        BY <1>1, <1>3, <2>2, <4>2, TipIs
      <4> QED BY <4>1, <4>2
    <3> QED BY <1>1, <2>2, <3>1, <1>2 DEF AtLeast
  <2> QED BY <1>2, <2>1, <2>2
<1> QED BY <1>1, <1>3, <1>5, <1>6 DEF p, MaxHeightPrevoted

LEMMA AtLeastTransitive ==
  ASSUME NEW a, NEW b, NEW c, IsChain(a), IsChain(b), IsChain(c),
         AtLeast(a, b), AtLeast(b, c)
  PROVE  AtLeast(a, c)
<1>1. /\ TipOf(a).mhp \in Nat /\ TipOf(b).mhp \in Nat /\ TipOf(c).mhp \in Nat
      /\ Len(a) \in Nat /\ Len(b) \in Nat /\ Len(c) \in Nat
  BY TipIs
<1> QED BY <1>1 DEF AtLeast

LEMMA OutranksIs ==
  ASSUME NEW a, NEW b, IsChain(a), IsChain(b), Outranks(a, b)
  PROVE  AtLeast(a, b)
<1>1. /\ TipOf(a).mhp \in Nat /\ TipOf(b).mhp \in Nat
      /\ Len(a) \in Nat /\ Len(b) \in Nat
  BY TipIs
<1> QED BY <1>1 DEF AtLeast, Outranks

\* Blocks of others make chains of chains.
LEMMA ExtendedIs ==
  ASSUME NEW c, IsChain(c), NEW x \in Extended(c)
  PROVE  IsChain(x) /\ Len(x) = Len(c) + 1 /\ AtLeast(x, c)
<1>1. PICK next \in NextPrevoted(c) : x = Append(c, StrangersBlock(c, next))
  BY DEF Extended
<1>2. /\ Len(c) \in Nat /\ MaxHeightPrevoted(c) \in Nat
      /\ next \in Nat /\ MaxHeightPrevoted(c) <= next /\ next <= Len(c) + 1
  BY TipIs DEF NextPrevoted, MaxHeightPrevoted
<1> DEFINE e == StrangersBlock(c, next)
<1>3. /\ IsBlock(e) /\ e.mhp = MaxHeightPrevoted(c) /\ e.mhp <= e.next
      /\ e.next <= Len(c) + 1
  BY <1>2 DEF StrangersBlock, IsBlock
<1> HIDE DEF e
<1> QED BY <1>1, <1>3, AppendChain DEF e

LEMMA ExtendedTwiceIs ==
  ASSUME NEW c, IsChain(c), NEW x \in ExtendedTwice(c)
  PROVE  IsChain(x) /\ Len(x) = Len(c) + 2
<1>1. PICK d \in Extended(c) : x \in Extended(d)
  BY DEF ExtendedTwice
<1>2. IsChain(d) /\ Len(d) = Len(c) + 1
  BY ExtendedIs
<1>3. IsChain(x) /\ Len(x) = Len(d) + 1
  BY <1>1, <1>2, ExtendedIs
<1>4. Len(c) \in Nat
  BY TipIs
<1> QED BY <1>2, <1>3, <1>4

LEMMA OtherChainsAre ==
  ASSUME NEW old, IsChain(old), NEW common \in Nat, common < Len(old),
         \A c \in broadcast : IsChain(c),
         NEW x \in OtherChains(old, common)
  PROVE  IsChain(x) /\ Len(x) > common /\ AtLeast(x, old)
<1> DEFINE base  == SubSeq(old, 1, common)
           known == {c \in broadcast : Len(c) > common /\ SubSeq(c, 1, common) = base}
<1>1. Len(old) \in Nat /\ common \in 0..Len(old)
  BY TipIs
<1>2. IsChain(base) /\ Len(base) = common
  BY <1>1, PrefixChain
<1>3. \A b \in {base} \cup known : IsChain(b) /\ Len(b) >= common
  <2> SUFFICES ASSUME NEW b \in {base} \cup known
               PROVE  IsChain(b) /\ Len(b) >= common
    OBVIOUS
  <2>1. CASE b = base
    BY <1>2, <2>1
  <2>2. CASE b \in known
    <3>1. IsChain(b) /\ Len(b) > common
      BY <2>2
    <3> QED BY <3>1, TipIs
  <2> QED BY <2>1, <2>2
<1>4. /\ x \in known \cup UNION {Extended(b) \cup ExtendedTwice(b) : b \in {base} \cup known}
      /\ Outranks(x, old)
  BY DEF OtherChains
<1>5. IsChain(x) /\ Len(x) > common
  <2>1. CASE x \in known
    BY <2>1, <1>3
  <2>2. CASE x \notin known
    <3>1. PICK b \in {base} \cup known : x \in Extended(b) \cup ExtendedTwice(b)
      BY <1>4, <2>2
    <3>2. IsChain(b) /\ Len(b) >= common /\ Len(b) \in Nat
      BY <1>3, <3>1, TipIs
    <3>3. CASE x \in Extended(b)
      <4>1. IsChain(x) /\ Len(x) = Len(b) + 1
        BY <3>2, <3>3, ExtendedIs
      <4> QED BY <3>2, <4>1
    <3>4. CASE x \in ExtendedTwice(b)
      <4>1. IsChain(x) /\ Len(x) = Len(b) + 2
        BY <3>2, <3>4, ExtendedTwiceIs
      <4> QED BY <3>2, <4>1
    <3> QED BY <3>1, <3>3, <3>4
  <2> QED BY <2>1, <2>2
<1> QED BY <1>4, <1>5, OutranksIs

-----------------------------------------------------------------------------
(* The initial state, and the steps of the job.                            *)

LEMMA FirstChainIs == IsChain(FirstChain)
<1>1. Len(FirstPrevoted) \in Nat /\ DOMAIN FirstPrevoted = 1..Len(FirstPrevoted)
  BY ForgerAssumption
<1> DEFINE n == Len(FirstPrevoted)
<1>2. \A h \in 1..n : FirstPrevoted[h] \in Nat
  BY ForgerAssumption
<1>3. /\ DOMAIN FirstChain = 1..n
      /\ \A h \in 1..n :
           FirstChain[h] = [Genesis EXCEPT !.mhp = IF h = 1 THEN 0 ELSE FirstPrevoted[h - 1],
                                           !.next = FirstPrevoted[h]]
  BY <1>1 DEF FirstChain
<1>4. FirstChain \in [1..n -> {FirstChain[h] : h \in 1..n}]
  BY <1>1 DEF FirstChain
<1>5. /\ FirstChain \in Seq({FirstChain[h] : h \in 1..n})
      /\ Len(FirstChain) = n
  <2> DEFINE T == {FirstChain[h] : h \in 1..n}
  <2>1. PICK f : f = FirstChain
    OBVIOUS
  <2>2. f \in [1..n -> T] /\ n \in Nat
    BY <1>1, <1>4, <2>1
  <2> HIDE DEF n, T
  <2>3. f \in Seq(T) /\ Len(f) = n
    BY <2>2
  <2> QED BY <2>1, <2>3 DEF T
<1>6. IsSeq(FirstChain) /\ Len(FirstChain) = n
  BY <1>5 DEF IsSeq
<1>7. ASSUME NEW h \in 1..n
      PROVE  /\ FirstChain[h].mhpf = 0
             /\ FirstChain[h].mhp = IF h = 1 THEN 0 ELSE FirstPrevoted[h - 1]
             /\ FirstChain[h].next = FirstPrevoted[h]
  <2> DEFINE mhp  == IF h = 1 THEN 0 ELSE FirstPrevoted[h - 1]
             next == FirstPrevoted[h]
  <2>1. FirstChain[h] = [Genesis EXCEPT !.mhp = mhp, !.next = next]
    BY <1>3
  <2> HIDE DEF mhp, next
  <2>2. /\ FirstChain[h].mhpf = 0 /\ FirstChain[h].mhp = mhp
        /\ FirstChain[h].next = next
    BY <2>1 DEF Genesis
  <2> QED BY <2>2 DEF mhp, next
<1> SUFFICES ASSUME NEW h \in 1..n
             PROVE  /\ IsBlock(FirstChain[h])
                    /\ FirstChain[h].mhp <= FirstChain[h].next
                    /\ FirstChain[h].next <= h
                    /\ \A g \in 1..(h - 1) : FirstChain[g].next <= FirstChain[h].mhp
  BY <1>6 DEF IsChain
<1>8. FirstPrevoted[h] \in Nat /\ FirstPrevoted[h] <= h
  BY <1>1, <1>2, ForgerAssumption
<1>9. CASE h = 1
  BY <1>7, <1>8, <1>9 DEF IsBlock
<1>10. CASE h # 1
  <2>1. h - 1 \in 1..n /\ h - 1 \in 1..h
    BY <1>1, <1>10
  <2>2. FirstPrevoted[h - 1] \in Nat /\ FirstPrevoted[h - 1] <= FirstPrevoted[h]
    BY <1>1, <1>2, <2>1, ForgerAssumption
  <2>3. \A g \in 1..(h - 1) : FirstPrevoted[g] <= FirstPrevoted[h - 1]
    BY <1>1, <2>1, ForgerAssumption
  <2>4. FirstChain[h].mhp = FirstPrevoted[h - 1]
    BY <1>7, <1>10
  <2>5. \A g \in 1..(h - 1) : g \in 1..n
    BY <1>1
  <2> QED BY <1>7, <1>8, <2>2, <2>3, <2>4, <2>5 DEF IsBlock
<1> QED BY <1>9, <1>10

LEMMA InitHolds == ForgerInit => ForgerInvariant
<1> SUFFICES ASSUME ForgerInit
             PROVE  ForgerInvariant
  OBVIOUS
<1>1. IsChain(chain) /\ Len(chain) \in Nat
  BY FirstChainIs, TipIs DEF ForgerInit
<1>2. ForgerTypeOK
  BY <1>1 DEF ForgerInit, ForgerTypeOK, Idle
<1>3. ChainsWellFormed /\ JobWellFormed /\ UpdateWellFormed
  BY <1>1 DEF ForgerInit, ChainsWellFormed, JobWellFormed, UpdateWellFormed, Forging
<1>4. SyncWellFormed
  BY <1>1 DEF ForgerInit, SyncWellFormed
<1>5. RecordCovers /\ BlockComesLast /\ SettledRanks /\ Ordered
  BY DEF ForgerInit, RecordCovers, BlockComesLast, SettledRanks, Settled, Ordered, Forging
<1> QED BY <1>2, <1>3, <1>4, <1>5 DEF ForgerInvariant

\* Of a job only the step changes.
LEMMA JobSteps ==
  ASSUME JobWellFormed, Forging, job.pc # "begun", NEW p \in Steps \ {"begun"},
         job' = [job EXCEPT !.pc = p]
  PROVE  /\ job'.pc = p /\ job'.d = job.d /\ job'.on = job.on
         /\ job'.map = job.map /\ job'.list = job.list /\ job'.block = job.block
         /\ DOMAIN job' = DOMAIN job
         /\ Forged' = Forged /\ Forging'
<1>1. DOMAIN job = {"pc", "d", "on", "map", "list", "block"}
  BY DEF JobWellFormed
<1>2. /\ job'.pc = p /\ job'.d = job.d /\ job'.on = job.on
      /\ job'.map = job.map /\ job'.list = job.list /\ job'.block = job.block
      /\ DOMAIN job' = DOMAIN job
  BY <1>1
<1> QED BY <1>2 DEF Forged, Forging, Idle, Steps

\* At any other step than idle there is a job.
LEMMA JobIs ==
  ASSUME JobWellFormed, job.pc # "idle"
  PROVE  Forging
  BY DEF Forging, Idle

LEMMA ForgeBegins ==
  ASSUME ForgerInvariant, Overlap = FALSE, NEW d \in Delegate, ForgeBegin(d)
  PROVE  ForgerInvariant'
<1>1. /\ job = Idle /\ syncFrom = Idle /\ update = Idle
      /\ job' = [pc |-> "begun", d |-> d, on |-> chain]
      /\ UNCHANGED <<forged, enabled, update, chain, finalized, syncFrom, broadcast,
                     failed, overwritten>>
  BY DEF ForgeBegin, forgerDb
<1>2. /\ job'.pc = "begun" /\ job'.d = d /\ job'.on = chain /\ Forging'
      /\ DOMAIN job' = {"pc", "d", "on"}
      /\ job.pc = "idle" /\ ~Forging
  BY <1>1 DEF Forging, Idle
<1>3. ForgerTypeOK'
  BY <1>1, <1>2 DEF ForgerInvariant, ForgerTypeOK
<1>4. ChainsWellFormed'
  BY <1>1, <1>2 DEF ForgerInvariant, ChainsWellFormed
<1>5. JobWellFormed' /\ UpdateWellFormed' /\ SyncWellFormed'
  BY <1>1, <1>2 DEF ForgerInvariant, JobWellFormed, UpdateWellFormed, SyncWellFormed, Steps
<1>6. RecordCovers' /\ BlockComesLast' /\ Ordered'
  BY <1>1, <1>2 DEF ForgerInvariant, RecordCovers, BlockComesLast, Ordered, Covers
<1>7. SettledRanks'
  BY <1>1, <1>2 DEF ForgerInvariant, SettledRanks, Settled, AtLeast
<1> QED BY <1>3, <1>4, <1>5, <1>6, <1>7 DEF ForgerInvariant

LEMMA Creates ==
  ASSUME ForgerInvariant, Create
  PROVE  ForgerInvariant'
<1>1. /\ job.pc = "begun" /\ Forging
      /\ UNCHANGED <<forged, enabled, update, chain, finalized, syncFrom, broadcast,
                     failed, overwritten>>
  BY JobIs DEF Create, forgerDb, ForgerInvariant
<1>2. IsChain(job.on) /\ job.d \in Delegate /\ IsChain(chain) /\ update = Idle
  BY <1>1 DEF ForgerInvariant, ChainsWellFormed, JobWellFormed, UpdateWellFormed, Forging
<1> DEFINE height == Len(job.on) + 1
           layer  == NextHashOnion(used, job.d, height)
           use    == [address |-> job.d, count |-> layer.count, height |-> height]
           list   == FilterUsedHashOnions(Recorded(used, use), finalized)
           made(next) == [gen |-> job.d, mhpf |-> MaxHeightPreviouslyForged(job.d),
                          mhp |-> MaxHeightPrevoted(chain), next |-> next,
                          version |-> layer.version, seed |-> layer.count]
<1>a. \E next \in NextPrevoted(job.on) :
        job' = [pc |-> "created", d |-> job.d, on |-> job.on, map |-> forged,
                list |-> list, block |-> made(next)]
  BY Zenon DEF Create
<1>b. PICK next \in NextPrevoted(job.on) :
        job' = [pc |-> "created", d |-> job.d, on |-> job.on, map |-> forged,
                list |-> list, block |-> made(next)]
  BY <1>a
<1>c. PICK block : block = made(next)
  OBVIOUS
<1>3. /\ job' = [pc |-> "created", d |-> job.d, on |-> job.on, map |-> forged,
                 list |-> list, block |-> block]
      /\ block.gen = job.d /\ block.mhpf = MaxHeightPreviouslyForged(job.d)
      /\ block.mhp = MaxHeightPrevoted(chain) /\ block.next = next
  BY <1>b, <1>c
<1> HIDE DEF height, layer, use, list, made
<1>4. /\ job'.pc = "created" /\ job'.d = job.d /\ job'.on = job.on
      /\ job'.map = forged /\ job'.block = block /\ Forging'
      /\ DOMAIN job' = {"pc", "d", "on", "map", "list", "block"}
  BY <1>3 DEF Forging, Idle
<1>5. /\ MaxHeightPreviouslyForged(job.d) \in Nat
      /\ forged[job.d] # NoInfo => MaxHeightPreviouslyForged(job.d) = forged[job.d].height
  BY <1>2 DEF ForgerInvariant, ForgerTypeOK, MaxHeightPreviouslyForged
<1>6. /\ IsBlock(block) /\ MaxHeightPrevoted(job.on) <= block.next
      /\ block.next <= Len(job.on) + 1
  BY <1>2, <1>3, <1>5, TipIs DEF IsBlock, NextPrevoted, MaxHeightPrevoted
<1>7. ForgerTypeOK'
  BY <1>1, <1>4 DEF ForgerInvariant, ForgerTypeOK
<1>8. ChainsWellFormed'
  BY <1>1, <1>4 DEF ForgerInvariant, ChainsWellFormed
<1>9. JobWellFormed'
  BY <1>1, <1>2, <1>3, <1>4, <1>6
     DEF JobWellFormed, Steps, MaxHeightPreviouslyForged
<1>10. UpdateWellFormed' /\ SyncWellFormed' /\ RecordCovers' /\ Ordered'
  BY <1>1, <1>2, <1>4
     DEF ForgerInvariant, UpdateWellFormed, SyncWellFormed, RecordCovers, Ordered, Covers
<1>11. BlockComesLast'
  <2> SUFFICES ASSUME NEW c \in broadcast, Last(c).gen = job.d, job.d \notin overwritten
               PROVE  Len(c) <= block.mhpf /\ Last(c).mhpf <= block.mhpf
    BY <1>1, <1>4 DEF BlockComesLast
  <2>1. Covers(forged[job.d], Len(c), Last(c).mhpf)
    BY DEF ForgerInvariant, RecordCovers
  <2> QED BY <1>3, <1>5, <2>1 DEF Covers
<1>12. SettledRanks'
  BY <1>1, <1>4 DEF ForgerInvariant, SettledRanks, Settled, AtLeast
<1> QED BY <1>7, <1>8, <1>9, <1>10, <1>11, <1>12 DEF ForgerInvariant

\* The record is not below the block afterwards, and nothing is forgotten.
LEMMA RecordSaved ==
  ASSUME ForgerInvariant, SaveRecord
  PROVE  /\ job.pc = "created" /\ Forging /\ job.d \in Delegate
         /\ forged' \in [Delegate -> {NoInfo} \cup [height : Nat, mhp : Nat, mhpf : Nat]]
         /\ Covers(forged'[job.d], Len(job.on) + 1, job.block.mhpf)
         /\ \A d \in Delegate :
              forged[d] # NoInfo =>
                forged'[d] # NoInfo /\ forged'[d].height >= forged[d].height
<1>1. job.pc = "created" /\ Forging
  BY JobIs DEF SaveRecord, ForgerInvariant
<1>2. /\ job.d \in Delegate /\ job.map = forged
      /\ job.block.mhpf = MaxHeightPreviouslyForged(job.d)
      /\ job.block.mhp \in Nat
  BY <1>1 DEF ForgerInvariant, JobWellFormed, IsBlock
<1>3. Len(job.on) \in Nat
  BY <1>1, TipIs DEF ForgerInvariant, ChainsWellFormed
<1> DEFINE height == Len(job.on) + 1
           before == MaxHeightPreviouslyForged(job.d)
           info   == Info(height, job.block.mhp, job.block.mhpf)
<1>4. forged' = IF height <= before THEN forged ELSE [forged EXCEPT ![job.d] = info]
  BY <1>1, <1>2 DEF SaveRecord, MaxHeightPreviouslyForged
<1>5. forged \in [Delegate -> {NoInfo} \cup [height : Nat, mhp : Nat, mhpf : Nat]]
  BY DEF ForgerInvariant, ForgerTypeOK
<1>6. before \in Nat /\ before = (IF forged[job.d] = NoInfo THEN 0 ELSE forged[job.d].height)
  BY <1>2, <1>5 DEF MaxHeightPreviouslyForged
<1>7. /\ info \in [height : Nat, mhp : Nat, mhpf : Nat]
      /\ info.height = height /\ info # NoInfo
  BY <1>2, <1>3, <1>6 DEF Info, NoInfo
<1>8. job.block.mhpf = before /\ height \in Nat /\ height > 0
  BY <1>2, <1>3
<1> HIDE DEF height, before, info
<1>9. CASE height <= before
  <2>1. forged' = forged /\ forged[job.d] # NoInfo /\ forged[job.d].height = before
    BY <1>4, <1>6, <1>8, <1>9
  <2>2. \A d \in Delegate : forged[d] # NoInfo => forged[d].height \in Nat
    BY <1>5
  <2> QED BY <1>1, <1>2, <1>5, <1>6, <1>8, <1>9, <2>1, <2>2 DEF Covers, height
<1>10. CASE ~(height <= before)
  <2>1. forged' = [forged EXCEPT ![job.d] = info]
    BY <1>4, <1>10
  <2>2. \A d \in Delegate : forged[d] # NoInfo => forged[d].height \in Nat
    BY <1>5
  <2>3. forged'[job.d] = info /\ \A d \in Delegate \ {job.d} : forged'[d] = forged[d]
    BY <1>2, <1>5, <2>1
  <2>4. forged' \in [Delegate -> {NoInfo} \cup [height : Nat, mhp : Nat, mhpf : Nat]]
    BY <1>2, <1>5, <1>7, <2>1
  <2>5. Covers(forged'[job.d], Len(job.on) + 1, job.block.mhpf)
    BY <1>6, <1>7, <1>8, <1>10, <2>3 DEF Covers, height
  <2>6. ASSUME NEW d \in Delegate, forged[d] # NoInfo
        PROVE  forged'[d] # NoInfo /\ forged'[d].height >= forged[d].height
    BY <1>6, <1>7, <1>8, <1>10, <2>2, <2>3, <2>6
  <2> QED BY <1>1, <1>2, <2>4, <2>5, <2>6
<1> QED BY <1>9, <1>10

\* A record that did not fall covers what it covered.
LEMMA StillCovers ==
  ASSUME NEW old, NEW new, NEW height, NEW mhpf, height \in Nat, mhpf \in Nat,
         old.height \in Int, new.height \in Int,
         Covers(old, height, mhpf), new # NoInfo, new.height >= old.height
  PROVE  Covers(new, height, mhpf)
  BY DEF Covers

LEMMA SavesRecord ==
  ASSUME ForgerInvariant, SaveRecord
  PROVE  ForgerInvariant'
<1>1. /\ job.pc = "created" /\ Forging /\ job.d \in Delegate
      /\ forged' \in [Delegate -> {NoInfo} \cup [height : Nat, mhp : Nat, mhpf : Nat]]
      /\ Covers(forged'[job.d], Len(job.on) + 1, job.block.mhpf)
      /\ \A d \in Delegate :
           forged[d] # NoInfo => forged'[d] # NoInfo /\ forged'[d].height >= forged[d].height
  BY RecordSaved
<1>2. /\ job' = [job EXCEPT !.pc = "recorded"]
      /\ UNCHANGED <<enabled, update, chain, finalized, syncFrom, broadcast,
                     failed, overwritten>>
  BY DEF SaveRecord
<1>3. /\ job'.pc = "recorded" /\ job'.d = job.d /\ job'.on = job.on
      /\ job'.map = job.map /\ job'.list = job.list /\ job'.block = job.block
      /\ DOMAIN job' = DOMAIN job
      /\ Forged' = Forged /\ Forging'
  BY <1>1, <1>2, JobSteps DEF ForgerInvariant, Steps
<1>4. update = Idle
  BY <1>1 DEF ForgerInvariant, UpdateWellFormed, Forging
<1>5. ForgerTypeOK'
  BY <1>1, <1>2, <1>3 DEF ForgerInvariant, ForgerTypeOK
<1>6. ChainsWellFormed'
  BY <1>1, <1>2, <1>3 DEF ForgerInvariant, ChainsWellFormed
<1>7. JobWellFormed'
  BY <1>1, <1>2, <1>3 DEF ForgerInvariant, JobWellFormed, Steps
<1>8. UpdateWellFormed' /\ SyncWellFormed' /\ Ordered'
  BY <1>1, <1>2, <1>3, <1>4
     DEF ForgerInvariant, UpdateWellFormed, SyncWellFormed, Ordered
<1>9. RecordCovers'
  <2> SUFFICES ASSUME NEW c \in broadcast, Last(c).gen \notin overwritten
               PROVE  Last(c).gen \in Delegate /\ Covers(forged'[Last(c).gen], Len(c), Last(c).mhpf)
    BY <1>2 DEF RecordCovers
  <2>1. Last(c).gen \in Delegate /\ Covers(forged[Last(c).gen], Len(c), Last(c).mhpf)
    BY DEF ForgerInvariant, RecordCovers
  <2>2. Len(c) \in Nat /\ Last(c).mhpf \in Nat
    BY TipIs DEF ForgerInvariant, ChainsWellFormed, IsBlock
  <2>3. /\ forged[Last(c).gen] # NoInfo
        /\ forged'[Last(c).gen] # NoInfo
        /\ forged'[Last(c).gen].height >= forged[Last(c).gen].height
    BY <1>1, <2>1 DEF Covers
  <2>4. forged[Last(c).gen].height \in Nat /\ forged'[Last(c).gen].height \in Nat
    BY <1>1, <2>1, <2>3 DEF ForgerInvariant, ForgerTypeOK
  <2> QED BY <2>1, <2>2, <2>3, <2>4, StillCovers
<1>10. BlockComesLast'
  BY <1>1, <1>2, <1>3 DEF ForgerInvariant, BlockComesLast
<1>11. SettledRanks'
  BY <1>1, <1>2, <1>3 DEF ForgerInvariant, SettledRanks, Settled, AtLeast
<1> QED BY <1>5, <1>6, <1>7, <1>8, <1>9, <1>10, <1>11 DEF ForgerInvariant

LEMMA SavesOnion ==
  ASSUME ForgerInvariant, SaveOnion
  PROVE  ForgerInvariant'
<1>1. /\ job.pc = "recorded" /\ Forging
      /\ job' = [job EXCEPT !.pc = "kept"]
      /\ UNCHANGED <<forged, enabled, update, chain, finalized, syncFrom, broadcast,
                     failed, overwritten>>
  BY JobIs DEF SaveOnion, ForgerInvariant
<1>2. /\ job'.pc = "kept" /\ job'.d = job.d /\ job'.on = job.on
      /\ job'.map = job.map /\ job'.list = job.list /\ job'.block = job.block
      /\ DOMAIN job' = DOMAIN job
      /\ Forged' = Forged /\ Forging'
  BY <1>1, JobSteps DEF ForgerInvariant, Steps
<1>3. ForgerTypeOK'
  BY <1>1, <1>2 DEF ForgerInvariant, ForgerTypeOK
<1>4. ChainsWellFormed' /\ JobWellFormed'
  BY <1>1, <1>2 DEF ForgerInvariant, ChainsWellFormed, JobWellFormed, Steps
<1>5. UpdateWellFormed' /\ SyncWellFormed' /\ RecordCovers' /\ Ordered'
  BY <1>1, <1>2
     DEF ForgerInvariant, UpdateWellFormed, SyncWellFormed, RecordCovers, Ordered, Forging
<1>6. BlockComesLast'
  BY <1>1, <1>2 DEF ForgerInvariant, BlockComesLast
<1>7. SettledRanks'
  BY <1>1, <1>2 DEF ForgerInvariant, SettledRanks, Settled, AtLeast
<1> QED BY <1>3, <1>4, <1>5, <1>6, <1>7 DEF ForgerInvariant

\* The block that is sent out is a chain on the tip, above the settled ones
\* of its delegate.
LEMMA ForgedIs ==
  ASSUME ForgerInvariant, Forging, job.pc \in {"kept", "processing"},
         job.block.mhp = MaxHeightPrevoted(job.on)
  PROVE  /\ IsChain(job.on) /\ IsChain(Forged)
         /\ Len(Forged) = Len(job.on) + 1 /\ Len(job.on) \in Nat
         /\ Last(Forged) = job.block /\ TipOf(Forged) = job.block
         /\ AtLeast(Forged, job.on)
<1>1. IsChain(job.on)
  BY DEF ForgerInvariant, ChainsWellFormed
<1>2. /\ IsBlock(job.block) /\ MaxHeightPrevoted(job.on) <= job.block.next
      /\ job.block.next <= Len(job.on) + 1
  BY DEF ForgerInvariant, JobWellFormed
<1>3. IsChain(Forged) /\ Len(Forged) = Len(job.on) + 1 /\ AtLeast(Forged, job.on)
  BY <1>1, <1>2, AppendChain DEF Forged
<1>4. Last(Forged) = job.block /\ TipOf(Forged) = job.block
  BY <1>1, AppendIs DEF Forged, IsChain
<1> QED BY <1>1, <1>3, <1>4, TipIs

LEMMA Broadcasts ==
  ASSUME ForgerInvariant, Broadcast
  PROVE  ForgerInvariant'
<1>1. /\ job.pc = "kept" /\ Forging
      /\ chain = job.on /\ job.block.mhp = MaxHeightPrevoted(job.on)
      /\ broadcast' = broadcast \cup {Forged}
      /\ job' = [job EXCEPT !.pc = "processing"]
      /\ UNCHANGED <<forged, enabled, update, chain, finalized, syncFrom,
                     failed, overwritten>>
  BY JobIs DEF Broadcast, ForgerInvariant, forgerDb, IsValidOnTip
<1>2. /\ job'.pc = "processing" /\ job'.d = job.d /\ job'.on = job.on
      /\ job'.map = job.map /\ job'.list = job.list /\ job'.block = job.block
      /\ DOMAIN job' = DOMAIN job
      /\ Forged' = Forged /\ Forging'
  BY <1>1, JobSteps DEF ForgerInvariant, Steps
<1>3. /\ IsChain(job.on) /\ IsChain(Forged)
      /\ Len(Forged) = Len(job.on) + 1 /\ Len(job.on) \in Nat
      /\ Last(Forged) = job.block /\ TipOf(Forged) = job.block
  BY <1>1, ForgedIs
<1>4. job.d \in Delegate /\ job.block.gen = job.d /\ IsBlock(job.block)
  BY <1>1 DEF ForgerInvariant, JobWellFormed
<1>5. ForgerTypeOK'
  BY <1>1, <1>2 DEF ForgerInvariant, ForgerTypeOK
<1>6. ChainsWellFormed' /\ JobWellFormed'
  BY <1>1, <1>2, <1>3 DEF ForgerInvariant, ChainsWellFormed, JobWellFormed, Steps
<1>7. UpdateWellFormed' /\ SyncWellFormed'
  BY <1>1, <1>2 DEF ForgerInvariant, UpdateWellFormed, SyncWellFormed, Forging
<1>8. RecordCovers' /\ BlockComesLast'
  BY <1>1, <1>2, <1>3, <1>4 DEF ForgerInvariant, RecordCovers, BlockComesLast
<1>9. Settled' \subseteq Settled
  BY <1>1, <1>2 DEF Settled
<1>10. SettledRanks'
  BY <1>1, <1>2, <1>9 DEF ForgerInvariant, SettledRanks, AtLeast
<1>11. \A c \in broadcast \ failed :
         Last(c).gen = job.d /\ job.d \notin overwritten => Before(c, Forged)
  <2> SUFFICES ASSUME NEW c \in broadcast \ failed, Last(c).gen = job.d,
                      job.d \notin overwritten
               PROVE  Before(c, Forged)
    OBVIOUS
  <2>1. Len(c) <= job.block.mhpf /\ Last(c).mhpf <= job.block.mhpf
    BY <1>1 DEF ForgerInvariant, BlockComesLast
  <2>2. AtLeast(job.on, c)
    BY <1>1 DEF ForgerInvariant, SettledRanks, Settled
  <2>3. /\ Len(c) \in Nat /\ TipOf(c).mhp \in Nat /\ TipOf(c) = Last(c)
        /\ TipOf(job.on).mhp \in Nat /\ TipOf(job.on).next \in Nat
        /\ TipOf(job.on).mhp <= TipOf(job.on).next
    BY <1>1, <1>3, TipIs DEF ForgerInvariant, ChainsWellFormed
  <2> QED BY <1>1, <1>3, <2>1, <2>2, <2>3 DEF Before, AtLeast, MaxHeightPrevoted
<1>12. Ordered'
  <2> SUFFICES ASSUME NEW c \in (broadcast \cup {Forged}) \ failed,
                      NEW d \in (broadcast \cup {Forged}) \ failed,
                      Last(c).gen = Last(d).gen, Last(c).gen \notin overwritten
               PROVE  c = d \/ Before(c, d) \/ Before(d, c)
    BY <1>1 DEF Ordered, Before
  <2>1. CASE c \in broadcast /\ d \in broadcast
    BY <2>1 DEF ForgerInvariant, Ordered
  <2>2. CASE c \in broadcast /\ d = Forged
    BY <1>3, <1>4, <1>11, <2>2
  <2>3. CASE c = Forged /\ d \in broadcast
    BY <1>3, <1>4, <1>11, <2>3
  <2> QED BY <2>1, <2>2, <2>3
<1> QED BY <1>5, <1>6, <1>7, <1>8, <1>10, <1>12 DEF ForgerInvariant

LEMMA Discards ==
  ASSUME ForgerInvariant, DiscardBlock
  PROVE  ForgerInvariant'
<1>1. /\ job.pc = "kept" /\ Forging /\ job' = Idle
      /\ UNCHANGED <<forged, enabled, update, chain, finalized, syncFrom, broadcast,
                     failed, overwritten>>
  BY JobIs DEF DiscardBlock, ForgerInvariant, forgerDb
<1>2. job'.pc = "idle" /\ ~Forging' /\ update = Idle /\ Settled' = Settled
  BY <1>1 DEF ForgerInvariant, UpdateWellFormed, Forging, Idle, Settled
<1>3. ForgerTypeOK' /\ ChainsWellFormed' /\ JobWellFormed' /\ UpdateWellFormed'
  BY <1>1, <1>2 DEF ForgerInvariant, ForgerTypeOK, ChainsWellFormed, JobWellFormed,
                    UpdateWellFormed
<1>4. SyncWellFormed' /\ RecordCovers' /\ BlockComesLast' /\ Ordered'
  BY <1>1, <1>2 DEF ForgerInvariant, SyncWellFormed, RecordCovers, BlockComesLast, Ordered
<1>5. SettledRanks'
  BY <1>1, <1>2 DEF ForgerInvariant, SettledRanks, AtLeast
<1> QED BY <1>3, <1>4, <1>5 DEF ForgerInvariant

LEMMA Adopts ==
  ASSUME ForgerInvariant, Adopt
  PROVE  ForgerInvariant'
<1>1. /\ job.pc = "processing" /\ Forging /\ job' = Idle /\ chain' = Forged
      /\ UNCHANGED <<forged, enabled, update, finalized, syncFrom, broadcast,
                     failed, overwritten>>
  BY JobIs DEF Adopt, ForgerInvariant, forgerDb
<1>2. /\ job'.pc = "idle" /\ ~Forging' /\ update = Idle
      /\ Settled' \subseteq Settled \cup {Forged}
  BY <1>1 DEF ForgerInvariant, UpdateWellFormed, Forging, Idle, Settled
<1>3. /\ chain = job.on /\ job.block.mhp = MaxHeightPrevoted(job.on)
      /\ Forged \in broadcast
  BY <1>1 DEF ForgerInvariant, JobWellFormed
<1>4. /\ IsChain(job.on) /\ IsChain(Forged)
      /\ Len(Forged) = Len(job.on) + 1 /\ Len(job.on) \in Nat
      /\ TipOf(Forged) = job.block /\ AtLeast(Forged, job.on)
  BY <1>1, <1>3, ForgedIs
<1>5. ForgerTypeOK'
  <2>1. finalized' \in 0..Len(chain')
    BY <1>1, <1>3, <1>4 DEF ForgerInvariant, ForgerTypeOK
  <2> QED BY <1>1, <1>2, <2>1 DEF ForgerInvariant, ForgerTypeOK
<1>6. ChainsWellFormed' /\ JobWellFormed' /\ UpdateWellFormed'
  BY <1>1, <1>2, <1>4 DEF ForgerInvariant, ChainsWellFormed, JobWellFormed, UpdateWellFormed
<1>7. SyncWellFormed'
  BY <1>1, <1>2, <1>3, <1>4 DEF ForgerInvariant, SyncWellFormed
<1>8. RecordCovers' /\ BlockComesLast' /\ Ordered'
  BY <1>1, <1>2 DEF ForgerInvariant, RecordCovers, BlockComesLast, Ordered
<1>9. ASSUME syncFrom = Idle
      PROVE  \A c \in Settled' : AtLeast(Forged, c)
  <2> SUFFICES ASSUME NEW c \in Settled \cup {Forged}
               PROVE  AtLeast(Forged, c)
    BY <1>2
  <2>1. CASE c = Forged
    BY <1>4, <2>1 DEF AtLeast
  <2>2. CASE c \in Settled
    <3>1. AtLeast(job.on, c) /\ IsChain(c)
      BY <1>1, <2>2 DEF ForgerInvariant, SettledRanks, ChainsWellFormed, Settled
    <3> QED BY <1>4, <3>1, AtLeastTransitive
  <2> QED BY <2>1, <2>2
\* A block on the common block is below the chain that was left.
<1>10. ASSUME syncFrom # Idle
       PROVE  \A c \in Settled' : AtLeast(syncFrom.old, c)
  <2>1. /\ IsChain(syncFrom.old) /\ syncFrom.common \in Nat
        /\ syncFrom.common < Len(syncFrom.old)
        /\ job.on = SubSeq(syncFrom.old, 1, syncFrom.common)
    BY <1>1, <1>3, <1>10 DEF ForgerInvariant, ChainsWellFormed, SyncWellFormed
  <2>2. /\ Len(syncFrom.old) \in Nat /\ TipOf(syncFrom.old).mhp \in Nat
        /\ syncFrom.common \in 0..Len(syncFrom.old)
    BY <2>1, TipIs
  <2>3. /\ Len(job.on) = syncFrom.common
        /\ MaxHeightPrevoted(job.on) <= TipOf(syncFrom.old).mhp
    BY <2>1, <2>2, PrefixChain
  <2>4. TipOf(Forged).mhp = MaxHeightPrevoted(job.on) /\ MaxHeightPrevoted(job.on) \in Nat
    BY <1>3, <1>4, TipIs DEF MaxHeightPrevoted
  <2>5. AtLeast(syncFrom.old, Forged)
    BY <1>4, <2>1, <2>2, <2>3, <2>4 DEF AtLeast
  <2> QED BY <1>2, <1>10, <2>5 DEF ForgerInvariant, SettledRanks
<1>11. SettledRanks'
  BY <1>1, <1>2, <1>9, <1>10 DEF SettledRanks, AtLeast
<1> QED BY <1>5, <1>6, <1>7, <1>8, <1>11 DEF ForgerInvariant

LEMMA ApplyingFails ==
  ASSUME ForgerInvariant, ApplyFails
  PROVE  ForgerInvariant'
<1>1. /\ job.pc = "processing" /\ Forging /\ job' = Idle
      /\ failed' = failed \cup {Forged}
      /\ UNCHANGED <<forged, enabled, update, chain, finalized, syncFrom, broadcast,
                     overwritten>>
  BY JobIs DEF ApplyFails, ForgerInvariant, forgerDb
<1>2. /\ job'.pc = "idle" /\ ~Forging' /\ update = Idle
      /\ Settled' \subseteq Settled /\ Forged \in broadcast
  BY <1>1 DEF ForgerInvariant, JobWellFormed, UpdateWellFormed, Forging, Idle, Settled
<1>3. ForgerTypeOK' /\ ChainsWellFormed' /\ JobWellFormed' /\ UpdateWellFormed'
  BY <1>1, <1>2 DEF ForgerInvariant, ForgerTypeOK, ChainsWellFormed, JobWellFormed,
                    UpdateWellFormed
<1>4. SyncWellFormed' /\ RecordCovers' /\ BlockComesLast' /\ Ordered'
  BY <1>1, <1>2
     DEF ForgerInvariant, SyncWellFormed, RecordCovers, BlockComesLast, Ordered, Before
<1>5. SettledRanks'
  BY <1>1, <1>2 DEF ForgerInvariant, SettledRanks, AtLeast
<1> QED BY <1>3, <1>4, <1>5 DEF ForgerInvariant

-----------------------------------------------------------------------------
(* Status updates.                                                         *)

LEMMA Disables ==
  ASSUME ForgerInvariant, NEW d \in Delegate, Disable(d)
  PROVE  ForgerInvariant'
<1>1. /\ enabled' = enabled \ {d}
      /\ UNCHANGED <<forged, job, update, chain, finalized, syncFrom, broadcast,
                     failed, overwritten>>
  BY DEF Disable, forgerDb
<1>2. Forging' = Forging /\ Forged' = Forged /\ Settled' = Settled
  BY <1>1 DEF Forging, Forged, Settled
<1>3. ForgerTypeOK' /\ ChainsWellFormed' /\ JobWellFormed' /\ UpdateWellFormed'
  BY <1>1, <1>2 DEF ForgerInvariant, ForgerTypeOK, ChainsWellFormed, JobWellFormed,
                    UpdateWellFormed, MaxHeightPreviouslyForged
<1>4. SyncWellFormed' /\ RecordCovers' /\ BlockComesLast' /\ Ordered' /\ SettledRanks'
  BY <1>1, <1>2 DEF ForgerInvariant, SyncWellFormed, RecordCovers, BlockComesLast,
                    Ordered, SettledRanks, AtLeast
<1> QED BY <1>3, <1>4 DEF ForgerInvariant

LEMMA EnablingBegins ==
  ASSUME ForgerInvariant, Overlap = FALSE, NEW d \in Delegate, NEW overwrite \in BOOLEAN,
         EnableBegin(d, overwrite)
  PROVE  ForgerInvariant'
<1>1. /\ update = Idle /\ job = Idle
      /\ UNCHANGED <<forged, enabled, job, chain, finalized, syncFrom, broadcast, failed>>
  BY DEF EnableBegin, forgerDb
<1>2. PICK info \in Input(d, overwrite) :
        /\ update' = [pc |-> "read", d |-> d, info |-> info, map |-> forged,
                      overwrite |-> overwrite]
        /\ overwritten' = IF overwrite THEN overwritten \cup {d} ELSE overwritten
  BY DEF EnableBegin
<1>3. info \in [height : Nat, mhp : Nat, mhpf : Nat]
  <2>1. forged[d] \in {NoInfo} \cup [height : Nat, mhp : Nat, mhpf : Nat]
    BY DEF ForgerInvariant, ForgerTypeOK
  <2>2. Stated \subseteq Nat
    BY ForgerAssumption
  <2> QED BY <1>2, <2>1, <2>2 DEF Input, Info, ZeroInfo
<1>4. ~Forging /\ ~Forging' /\ job.pc = "idle" /\ Settled' = Settled
  BY <1>1 DEF Forging, Idle, Settled
<1>5. ForgerTypeOK' /\ ChainsWellFormed' /\ JobWellFormed' /\ SyncWellFormed'
  BY <1>1, <1>4 DEF ForgerInvariant, ForgerTypeOK, ChainsWellFormed, JobWellFormed,
                    SyncWellFormed
<1>6. UpdateWellFormed'
  BY <1>1, <1>2, <1>3 DEF UpdateWellFormed
<1>7. RecordCovers' /\ BlockComesLast' /\ Ordered' /\ SettledRanks'
  BY <1>1, <1>2, <1>4 DEF ForgerInvariant, RecordCovers, BlockComesLast, Ordered,
                          SettledRanks, AtLeast
<1> QED BY <1>5, <1>6, <1>7 DEF ForgerInvariant

\* What is written back is what is stored, except for a delegate that had no
\* record or whose record is to be overwritten.
LEMMA Enabled ==
  ASSUME ForgerInvariant, EnableEnd
  PROVE  /\ update # Idle /\ job = Idle /\ update.d \in Delegate
         /\ forged' \in [Delegate -> {NoInfo} \cup [height : Nat, mhp : Nat, mhpf : Nat]]
         /\ \A d \in Delegate : (d \notin overwritten /\ forged[d] # NoInfo) =>
              forged'[d] = forged[d]
<1>1. update # Idle
  BY DEF EnableEnd, Idle
<1>2. /\ job = Idle /\ update.d \in Delegate /\ update.map = forged
      /\ update.info \in [height : Nat, mhp : Nat, mhpf : Nat]
      /\ update.overwrite => update.d \in overwritten
  BY <1>1 DEF ForgerInvariant, UpdateWellFormed
<1>3. forged \in [Delegate -> {NoInfo} \cup [height : Nat, mhp : Nat, mhpf : Nat]]
  BY DEF ForgerInvariant, ForgerTypeOK
<1>4. forged' = IF forged[update.d] = NoInfo \/ update.overwrite
                  THEN [forged EXCEPT ![update.d] = update.info]
                  ELSE forged
  BY <1>2 DEF EnableEnd
<1> HIDE DEF NoInfo
<1> QED BY <1>1, <1>2, <1>3, <1>4

LEMMA EnablingEnds ==
  ASSUME ForgerInvariant, EnableEnd
  PROVE  ForgerInvariant'
<1>1. /\ update # Idle /\ job = Idle /\ update.d \in Delegate
      /\ forged' \in [Delegate -> {NoInfo} \cup [height : Nat, mhp : Nat, mhpf : Nat]]
      /\ \A d \in Delegate : (d \notin overwritten /\ forged[d] # NoInfo) =>
           forged'[d] = forged[d]
  BY Enabled
<1>2. /\ enabled' = enabled \cup {update.d} /\ update' = Idle
      /\ UNCHANGED <<job, chain, finalized, syncFrom, broadcast, failed, overwritten>>
  BY DEF EnableEnd
<1>3. ~Forging /\ ~Forging' /\ job.pc = "idle" /\ Settled' = Settled
  BY <1>1, <1>2 DEF Forging, Idle, Settled
<1>4. ForgerTypeOK' /\ ChainsWellFormed' /\ JobWellFormed' /\ UpdateWellFormed'
  BY <1>1, <1>2, <1>3 DEF ForgerInvariant, ForgerTypeOK, ChainsWellFormed, JobWellFormed,
                          UpdateWellFormed
<1>5. SyncWellFormed' /\ BlockComesLast' /\ Ordered' /\ SettledRanks'
  BY <1>1, <1>2, <1>3 DEF ForgerInvariant, SyncWellFormed, BlockComesLast, Ordered,
                          SettledRanks, AtLeast
<1>6. RecordCovers'
  BY <1>1, <1>2 DEF ForgerInvariant, RecordCovers, Covers
<1> QED BY <1>4, <1>5, <1>6 DEF ForgerInvariant

-----------------------------------------------------------------------------
(* The rest of the node.                                                   *)

\* While no block is being applied, a step that only moves the chain keeps
\* what is not about the chain.
LEMMA ChainMoves ==
  ASSUME ForgerInvariant, NotProcessing,
         UNCHANGED <<forged, enabled, job, update, broadcast, failed, overwritten>>,
         IsChain(chain'), finalized' \in 0..Len(chain'), SyncWellFormed',
         syncFrom' # Idle => IsChain(syncFrom'.old),
         \A c \in Settled :
           AtLeast(IF syncFrom' = Idle THEN chain' ELSE syncFrom'.old, c)
  PROVE  ForgerInvariant'
<1>1. Forging' = Forging /\ Forged' = Forged /\ Settled' = Settled /\ job.pc # "processing"
  BY DEF Forging, Forged, Settled, NotProcessing
<1>2. ForgerTypeOK' /\ UpdateWellFormed'
  BY <1>1 DEF ForgerInvariant, ForgerTypeOK, UpdateWellFormed
<1>3. ChainsWellFormed' /\ JobWellFormed'
  BY <1>1 DEF ForgerInvariant, ChainsWellFormed, JobWellFormed, MaxHeightPreviouslyForged
<1>4. RecordCovers' /\ BlockComesLast' /\ Ordered'
  BY <1>1 DEF ForgerInvariant, RecordCovers, BlockComesLast, Ordered
<1>5. SettledRanks'
  BY <1>1 DEF ForgerInvariant, SettledRanks, AtLeast
<1> QED BY <1>2, <1>3, <1>4, <1>5 DEF ForgerInvariant

LEMMA Receives ==
  ASSUME ForgerInvariant, ReceiveBlock
  PROVE  ForgerInvariant'
<1>1. /\ NotProcessing /\ syncFrom = Idle
      /\ chain' \in Extended(chain) \cup
           {c \in broadcast : chain = SubSeq(c, 1, Len(c) - 1)}
      /\ UNCHANGED <<forged, enabled, job, update, finalized, syncFrom, broadcast,
                     failed, overwritten>>
  BY DEF ReceiveBlock, forgerDb
<1>2. IsChain(chain) /\ Len(chain) \in Nat /\ finalized \in 0..Len(chain)
  BY TipIs DEF ForgerInvariant, ChainsWellFormed, ForgerTypeOK
<1>3. IsChain(chain') /\ Len(chain') = Len(chain) + 1 /\ AtLeast(chain', chain)
  <2>1. CASE chain' \in Extended(chain)
    BY <1>2, <2>1, ExtendedIs
  <2>2. CASE chain' \in broadcast /\ chain = SubSeq(chain', 1, Len(chain') - 1)
    <3>1. IsChain(chain') /\ Len(chain') \in Nat /\ Len(chain') > 0
      BY <2>2, TipIs DEF ForgerInvariant, ChainsWellFormed
    <3>2. Len(chain') - 1 \in 0..Len(chain')
      BY <3>1
    <3>3. Len(SubSeq(chain', 1, Len(chain') - 1)) = Len(chain') - 1
          /\ AtLeast(chain', SubSeq(chain', 1, Len(chain') - 1))
      BY <3>1, <3>2, PrefixChain
    <3> QED BY <2>2, <3>1, <3>3
  <2> QED BY <1>1, <2>1, <2>2
<1>4. finalized' \in 0..Len(chain')
  BY <1>1, <1>2, <1>3
<1>5. SyncWellFormed'
  BY <1>1, <1>4, <1>2, <1>3 DEF ForgerInvariant, SyncWellFormed
<1>6. \A c \in Settled : AtLeast(chain', c)
  <2> SUFFICES ASSUME NEW c \in Settled
               PROVE  AtLeast(chain', c)
    OBVIOUS
  <2>1. IsChain(c) /\ AtLeast(chain, c)
    BY <1>1 DEF ForgerInvariant, ChainsWellFormed, SettledRanks, Settled
  <2> QED BY <1>2, <1>3, <2>1, AtLeastTransitive
<1> QED BY <1>1, <1>3, <1>4, <1>5, <1>6, ChainMoves

LEMMA Finalizes ==
  ASSUME ForgerInvariant, Finalize
  PROVE  ForgerInvariant'
<1>1. /\ NotProcessing /\ syncFrom = Idle
      /\ finalized' = TipOf(chain).mhp
      /\ UNCHANGED <<forged, enabled, job, update, chain, syncFrom, broadcast,
                     failed, overwritten>>
  BY DEF Finalize, forgerDb
<1>2. IsChain(chain)
  BY DEF ForgerInvariant, ChainsWellFormed
<1>3. finalized' \in 0..Len(chain')
  BY <1>1, <1>2, TipIs
<1>4. SyncWellFormed'
  BY <1>1, <1>3, <1>2, TipIs DEF SyncWellFormed
<1>5. \A c \in Settled : AtLeast(chain', c)
  BY <1>1 DEF ForgerInvariant, SettledRanks
<1> QED BY <1>1, <1>2, <1>3, <1>4, <1>5, ChainMoves

LEMMA SyncBegins ==
  ASSUME ForgerInvariant, SyncBegin
  PROVE  ForgerInvariant'
<1>1. /\ NotProcessing /\ syncFrom = Idle
      /\ UNCHANGED <<forged, enabled, job, update, finalized, broadcast,
                     failed, overwritten>>
  BY DEF SyncBegin, forgerDb
<1>2. PICK common \in finalized..(Len(chain) - 1) :
        /\ chain' = SubSeq(chain, 1, common)
        /\ syncFrom' = [pc |-> "reverted", old |-> chain, common |-> common]
  BY DEF SyncBegin
<1>3. IsChain(chain) /\ Len(chain) \in Nat /\ finalized \in Nat
  BY TipIs DEF ForgerInvariant, ChainsWellFormed, SyncWellFormed
<1>4. /\ common \in Nat /\ finalized <= common /\ common < Len(chain)
      /\ common \in 0..Len(chain)
  BY <1>2, <1>3
<1>5. IsChain(chain') /\ Len(chain') = common
  BY <1>2, <1>3, <1>4, PrefixChain
<1>6. syncFrom' # Idle /\ syncFrom'.pc = "reverted" /\ syncFrom'.old = chain
      /\ syncFrom'.common = common
  BY <1>2 DEF Idle
<1>7. SyncWellFormed'
  BY <1>1, <1>2, <1>3, <1>4, <1>5, <1>6 DEF SyncWellFormed
<1>8. \A c \in Settled : AtLeast(syncFrom'.old, c)
  BY <1>1, <1>6 DEF ForgerInvariant, SettledRanks
<1>9. finalized' \in 0..Len(chain')
  BY <1>1, <1>3, <1>4, <1>5
<1> QED BY <1>1, <1>3, <1>5, <1>6, <1>7, <1>8, <1>9, ChainMoves

\* The chain that was left is a chain, longer than its common block.
LEMMA LeftIs ==
  ASSUME ForgerInvariant, syncFrom # Idle
  PROVE  /\ IsChain(syncFrom.old) /\ Len(syncFrom.old) \in Nat
         /\ syncFrom.common \in Nat /\ syncFrom.common < Len(syncFrom.old)
         /\ finalized \in Nat /\ finalized <= syncFrom.common
         /\ \A c \in Settled : IsChain(c) /\ AtLeast(syncFrom.old, c)
<1>1. IsChain(syncFrom.old)
  BY DEF ForgerInvariant, ChainsWellFormed
<1> QED BY <1>1, TipIs
        DEF ForgerInvariant, ChainsWellFormed, SyncWellFormed, SettledRanks, Settled

LEMMA SyncEndsWell ==
  ASSUME ForgerInvariant, SyncDone
  PROVE  ForgerInvariant'
<1>1. /\ NotProcessing /\ syncFrom # Idle /\ syncFrom' = Idle
      /\ chain' \in OtherChains(syncFrom.old, syncFrom.common)
      /\ UNCHANGED <<forged, enabled, job, update, finalized, broadcast,
                     failed, overwritten>>
  BY DEF SyncDone, forgerDb, Idle
<1>2. /\ IsChain(syncFrom.old) /\ Len(syncFrom.old) \in Nat
      /\ syncFrom.common \in Nat /\ syncFrom.common < Len(syncFrom.old)
      /\ finalized \in Nat /\ finalized <= syncFrom.common
      /\ \A c \in Settled : IsChain(c) /\ AtLeast(syncFrom.old, c)
  BY <1>1, LeftIs
<1>3. \A c \in broadcast : IsChain(c)
  BY DEF ForgerInvariant, ChainsWellFormed
<1>4. IsChain(chain') /\ Len(chain') > syncFrom.common /\ AtLeast(chain', syncFrom.old)
  BY <1>1, <1>2, <1>3, OtherChainsAre
<1>5. Len(chain') \in Nat
  BY <1>4, TipIs
<1>6. finalized' \in 0..Len(chain') /\ SyncWellFormed'
  BY <1>1, <1>2, <1>4, <1>5 DEF SyncWellFormed
<1>7. \A c \in Settled : AtLeast(chain', c)
  BY <1>2, <1>4, AtLeastTransitive
<1> QED BY <1>1, <1>4, <1>6, <1>7, ChainMoves

LEMMA SyncEndsBadly ==
  ASSUME ForgerInvariant, SyncFails
  PROVE  ForgerInvariant'
<1>1. /\ NotProcessing /\ syncFrom # Idle /\ syncFrom' = Idle
      /\ chain' = syncFrom.old
      /\ UNCHANGED <<forged, enabled, job, update, finalized, broadcast,
                     failed, overwritten>>
  BY DEF SyncFails, forgerDb, Idle
<1>2. /\ IsChain(syncFrom.old) /\ Len(syncFrom.old) \in Nat
      /\ syncFrom.common \in Nat /\ syncFrom.common < Len(syncFrom.old)
      /\ finalized \in Nat /\ finalized <= syncFrom.common
      /\ \A c \in Settled : IsChain(c) /\ AtLeast(syncFrom.old, c)
  BY <1>1, LeftIs
<1>3. finalized' \in 0..Len(chain') /\ SyncWellFormed'
  BY <1>1, <1>2 DEF SyncWellFormed
<1> QED BY <1>1, <1>2, <1>3, ChainMoves

LEMMA Restarts ==
  ASSUME ForgerInvariant, NEW force \in BOOLEAN, NEW renew \in BOOLEAN,
         Restart(force, renew)
  PROVE  ForgerInvariant'
<1>1. /\ job' = Idle /\ update' = Idle /\ syncFrom' = Idle
      /\ chain' \in RestoredChains
      /\ failed' = IF job.pc = "processing" THEN failed \cup {Forged} ELSE failed
      /\ UNCHANGED <<forged, finalized, broadcast, overwritten>>
  BY DEF Restart
<1>2. enabled' \subseteq Delegate
  <2>1. \A list : Loaded(list) \subseteq Delegate
    BY DEF Loaded
  <2> QED BY <2>1 DEF Restart, LoadDelegates
<1>3. /\ job'.pc = "idle" /\ ~Forging' /\ Settled' \subseteq Settled
      /\ failed' \subseteq broadcast /\ failed \subseteq failed'
  <2>1. job.pc = "processing" => Forged \in broadcast
    BY JobIs DEF ForgerInvariant, JobWellFormed
  <2> QED BY <1>1, <2>1 DEF ForgerInvariant, ForgerTypeOK, Forging, Idle, Settled
<1>4. /\ IsChain(chain') /\ finalized' \in 0..Len(chain')
      /\ \A c \in Settled : AtLeast(chain', c)
  <2>1. CASE syncFrom = Idle
    BY <1>1, <2>1
       DEF RestoredChains, ForgerInvariant, ChainsWellFormed, ForgerTypeOK, SettledRanks
  <2>2. CASE syncFrom # Idle
    <3>1. /\ IsChain(syncFrom.old) /\ Len(syncFrom.old) \in Nat
          /\ syncFrom.common \in Nat /\ syncFrom.common < Len(syncFrom.old)
          /\ finalized \in Nat /\ finalized <= syncFrom.common
          /\ \A c \in Settled : IsChain(c) /\ AtLeast(syncFrom.old, c)
      BY <2>2, LeftIs
    <3>2. CASE chain' = syncFrom.old
      BY <1>1, <3>1, <3>2
    <3>3. CASE chain' = chain /\ Outranks(chain, syncFrom.old)
      <4>1. IsChain(chain) /\ finalized \in 0..Len(chain)
        BY DEF ForgerInvariant, ChainsWellFormed, ForgerTypeOK
      <4>2. AtLeast(chain, syncFrom.old)
        BY <3>1, <3>3, <4>1, OutranksIs
      <4> QED BY <1>1, <3>1, <3>3, <4>1, <4>2, AtLeastTransitive
    <3> QED BY <1>1, <2>2, <3>2, <3>3 DEF RestoredChains
  <2> QED BY <2>1, <2>2
<1>5. ForgerTypeOK'
  BY <1>1, <1>2, <1>3, <1>4 DEF ForgerInvariant, ForgerTypeOK
<1>6. ChainsWellFormed' /\ JobWellFormed' /\ UpdateWellFormed' /\ SyncWellFormed'
  BY <1>1, <1>3, <1>4
     DEF ForgerInvariant, ChainsWellFormed, JobWellFormed, UpdateWellFormed, SyncWellFormed
<1>7. RecordCovers' /\ BlockComesLast' /\ Ordered'
  BY <1>1, <1>3 DEF ForgerInvariant, RecordCovers, BlockComesLast, Ordered
<1>8. SettledRanks'
  BY <1>1, <1>3, <1>4 DEF SettledRanks
<1> QED BY <1>5, <1>6, <1>7, <1>8 DEF ForgerInvariant

-----------------------------------------------------------------------------
(* The theorems.                                                           *)

LEMMA ForgerStep ==
  ASSUME Overlap = FALSE, ForgerInvariant, [ForgerNext]_forgerVars
  PROVE  ForgerInvariant'
<1>1. CASE \E d \in Delegate : ForgeBegin(d) \/ Disable(d)
  BY <1>1, ForgeBegins, Disables
<1>2. CASE Create \/ SaveRecord \/ SaveOnion
  BY <1>2, Creates, SavesRecord, SavesOnion
<1>3. CASE Broadcast \/ DiscardBlock \/ Adopt \/ ApplyFails
  BY <1>3, Broadcasts, Discards, Adopts, ApplyingFails
<1>4. CASE \E d \in Delegate, overwrite \in BOOLEAN : EnableBegin(d, overwrite)
  BY <1>4, EnablingBegins
<1>5. CASE EnableEnd
  BY <1>5, EnablingEnds
<1>6. CASE ReceiveBlock \/ Finalize
  BY <1>6, Receives, Finalizes
<1>7. CASE SyncBegin \/ SyncDone \/ SyncFails
  BY <1>7, SyncBegins, SyncEndsWell, SyncEndsBadly
<1>8. CASE \E force, renew \in BOOLEAN : Restart(force, renew)
  BY <1>8, Restarts
<1>9. CASE UNCHANGED forgerVars
  <2>1. UNCHANGED <<forged, enabled, job, update, chain, finalized, syncFrom, broadcast,
                    failed, overwritten>>
    BY <1>9 DEF forgerVars
  <2>2. Forging' = Forging /\ Forged' = Forged /\ Settled' = Settled
    BY <2>1 DEF Forging, Forged, Settled
  <2>3. ForgerTypeOK' /\ ChainsWellFormed' /\ JobWellFormed' /\ UpdateWellFormed'
    BY <2>1, <2>2 DEF ForgerInvariant, ForgerTypeOK, ChainsWellFormed, JobWellFormed,
                      UpdateWellFormed, MaxHeightPreviouslyForged
  <2>4. SyncWellFormed' /\ RecordCovers' /\ BlockComesLast' /\ Ordered' /\ SettledRanks'
    BY <2>1, <2>2 DEF ForgerInvariant, SyncWellFormed, RecordCovers, BlockComesLast,
                      Ordered, SettledRanks, AtLeast
  <2> QED BY <2>3, <2>4 DEF ForgerInvariant
<1> QED BY <1>1, <1>2, <1>3, <1>4, <1>5, <1>6, <1>7, <1>8, <1>9 DEF ForgerNext

LEMMA ForgerInvariance ==
  ASSUME Overlap = FALSE
  PROVE  ForgerSpec => []ForgerInvariant
<1>1. ForgerInvariant /\ [ForgerNext]_forgerVars => ForgerInvariant'
  BY ForgerStep
<1> QED BY InitHolds, <1>1, PTL DEF ForgerSpec

\* What is signed in that order is no contradiction (areHeadersContradicting).
LEMMA BeforeIsHonest ==
  ASSUME NEW c, NEW d, IsChain(c), IsChain(d), Len(c) > 0, Len(d) > 0, Before(c, d)
  PROVE  /\ ~Ledger!Contradicting(Header(c), Header(d))
         /\ ~Ledger!Contradicting(Header(d), Header(c))
<1>1. /\ Len(c) \in Nat /\ Len(d) \in Nat
      /\ Last(c).mhpf \in Nat /\ Last(c).mhp \in Nat
      /\ Last(d).mhpf \in Nat /\ Last(d).mhp \in Nat
  BY TipIs DEF IsBlock
<1>2. /\ Header(c).mhpf = Last(c).mhpf /\ Header(c).mhp = Last(c).mhp
      /\ Header(c).height = Len(c)
      /\ Header(d).mhpf = Last(d).mhpf /\ Header(d).mhp = Last(d).mhp
      /\ Header(d).height = Len(d)
  BY DEF Header
<1>3. Ledger!SignedBefore(Header(c), Header(d)) /\ ~Ledger!SignedBefore(Header(d), Header(c))
  BY <1>1, <1>2 DEF Before, Ledger!SignedBefore
<1>4. ~Ledger!BreaksSigningRules(Header(c), Header(d))
  BY <1>1, <1>2 DEF Before, Ledger!BreaksSigningRules
<1> QED BY <1>3, <1>4 DEF Ledger!Contradicting

\* Whatever the node does between the steps of forging - switching chains,
\* finalizing, restarting, enabling and disabling delegates - the record covers
\* every block it sent out, and two headers of a delegate contradict each other
\* only if one of the blocks failed, as long as no status update overlaps the
\* forging of a block (forger.ts:404-488, data_access.ts
\* saveMaxHeightPreviouslyForged).
THEOREM ForgerStaysHonest ==
  ASSUME Overlap = FALSE
  PROVE  ForgerSpec => []ForgerHonest
<1>1. ASSUME ForgerInvariant
      PROVE  ForgerHonest
  <2>1. ForgerTypeOK
    BY <1>1 DEF ForgerInvariant
  <2>2. RecordCoversBroadcast
    BY <1>1 DEF ForgerInvariant, RecordCovers, RecordCoversBroadcast, Covers
  <2>3. OnlyFailedContradict
    <3> SUFFICES ASSUME NEW c \in broadcast, NEW d \in broadcast,
                        Last(c).gen = Last(d).gen, Last(c).gen \notin overwritten,
                        Ledger!Contradicting(Header(c), Header(d)),
                        c \notin failed, d \notin failed
                 PROVE  FALSE
      BY DEF OnlyFailedContradict
    <3>1. IsChain(c) /\ IsChain(d) /\ Len(c) > 0 /\ Len(d) > 0
      BY <1>1 DEF ForgerInvariant, ChainsWellFormed
    <3>2. c # d
      BY DEF Ledger!Contradicting
    <3>3. Before(c, d) \/ Before(d, c)
      BY <1>1, <3>2 DEF ForgerInvariant, Ordered
    <3> QED BY <3>1, <3>3, BeforeIsHonest
  <2> QED BY <2>1, <2>2, <2>3 DEF ForgerHonest
<1>2. ForgerSpec => []ForgerInvariant
  BY ForgerInvariance
<1> QED BY <1>1, <1>2, PTL

\* No step lowers the stored height of a delegate, except where an operator
\* overwrites it (data_access.ts:278).
THEOREM RecordOnlyGrows ==
  ASSUME Overlap = FALSE
  PROVE  ForgerSpec => RecordNeverFalls
<1> DEFINE Grows == \A d \in Delegate \ overwritten' :
                      forged[d] # NoInfo =>
                        forged'[d] # NoInfo /\ forged'[d].height >= forged[d].height
<1>1. ASSUME ForgerInvariant, [ForgerNext]_forgerVars
      PROVE  Grows
  <2>1. \A d \in Delegate : forged[d] # NoInfo => forged[d].height \in Nat
    BY <1>1 DEF ForgerInvariant, ForgerTypeOK
  <2>2. CASE UNCHANGED forged
    BY <2>1, <2>2
  <2>3. CASE SaveRecord
    BY <1>1, <2>3, RecordSaved
  <2>4. CASE EnableEnd
    <3>1. UNCHANGED overwritten
      BY <2>4 DEF EnableEnd
    <3> QED BY <1>1, <2>1, <2>4, <3>1, Enabled
  <2>5. ForgerNext => UNCHANGED forged \/ SaveRecord \/ EnableEnd
    BY DEF ForgerNext, ForgeBegin, Disable, Create, SaveOnion, Broadcast, DiscardBlock,
           Adopt, ApplyFails, EnableBegin, ReceiveBlock, Finalize, SyncBegin, SyncDone,
           SyncFails, Restart, forgerDb
  <2> QED BY <1>1, <2>2, <2>3, <2>4, <2>5 DEF forgerVars
<1>2. ForgerSpec => []ForgerInvariant
  BY ForgerInvariance
<1> QED BY <1>1, <1>2, PTL DEF ForgerSpec, RecordNeverFalls

-----------------------------------------------------------------------------
(* Entries of a list at some of its places.                                *)

LEMMA LeastNumber ==
  ASSUME NEW C \in SUBSET Nat, C # {}
  PROVE  \E n \in C : \A m \in C : n <= m
<1> DEFINE Less == {p \in Nat \X Nat : p[1] < p[2]}
<1>1. IsWellFoundedOn(Less, Nat)
  BY NatLessThanWellFounded DEF OpToRel
<1>2. PICK n \in C : \A m \in C : ~(<<m, n>> \in Less)
  BY <1>1, WFMin, Zenon
<1>3. ASSUME NEW m \in C PROVE n <= m
  <2>1. ~(<<m, n>> \in Less)
    BY <1>2
  <2>2. ~(m < n)
    BY <2>1
  <2> QED  BY <2>2
<1> QED  BY <1>3

Lower(S, p) == {q \in S : q < p}

LEMMA LowerHasLess ==
  ASSUME NEW S \in SUBSET Nat, IsFiniteSet(S), NEW p \in S, NEW q \in S, q < p
  PROVE  Cardinality(Lower(S, q)) < Cardinality(Lower(S, p))
<1> DEFINE P == Lower(S, p)
           Q == Lower(S, q)
<1>1. IsFiniteSet(P) /\ IsFiniteSet(Q)
  BY FS_Subset DEF Lower
<1>2. q \in P /\ Q \subseteq P \ {q}
  <2>1. ASSUME NEW r \in Q PROVE r \in P /\ r # q
    <3>1. r \in Nat /\ q \in Nat /\ p \in Nat /\ r < q
      BY <2>1 DEF Lower
    <3> QED  BY <2>1, <3>1 DEF Lower
  <2> QED  BY <2>1 DEF Lower
<1> HIDE DEF P, Q
<1>3. IsFiniteSet(P \ {q}) /\ Cardinality(P \ {q}) = Cardinality(P) - 1
  BY <1>1, <1>2, FS_RemoveElement
<1>4. Cardinality(Q) <= Cardinality(P \ {q})
  BY <1>2, <1>3, FS_Subset
<1>5. Cardinality(P) \in Nat /\ Cardinality(Q) \in Nat
  BY <1>1, FS_CardinalityType
<1>6. Cardinality(Q) < Cardinality(P)
  BY <1>3, <1>4, <1>5
<1> QED  BY <1>6 DEF P, Q

\* The place with i - 1 places below it, and of each place its number.
LEMMA PlacesCounted ==
  ASSUME NEW S \in SUBSET Nat, IsFiniteSet(S)
  PROVE  /\ Cardinality(S) \in Nat
         /\ \A i \in 1..Cardinality(S) : \E p \in S : Cardinality(Lower(S, p)) = i - 1
         /\ \A p \in S : \E i \in 1..Cardinality(S) : Cardinality(Lower(S, p)) = i - 1
         /\ \A p, q \in S : Cardinality(Lower(S, p)) = Cardinality(Lower(S, q)) => p = q
<1> DEFINE n == Cardinality(S)
           place == [p \in S |-> Cardinality(Lower(S, p)) + 1]
<1>1. n \in Nat
  BY FS_CardinalityType
<1>2. ASSUME NEW p \in S PROVE Cardinality(Lower(S, p)) \in Nat /\ place[p] \in 1..n
  <2>1. Lower(S, p) \subseteq S \ {p}
    BY DEF Lower
  <2>2. IsFiniteSet(S \ {p}) /\ Cardinality(S \ {p}) = n - 1
    BY FS_RemoveElement
  <2>3. IsFiniteSet(Lower(S, p)) /\ Cardinality(Lower(S, p)) <= n - 1
    BY <2>1, <2>2, FS_Subset
  <2>4. Cardinality(Lower(S, p)) \in Nat
    BY <2>3, FS_CardinalityType
  <2> QED  BY <1>1, <2>3, <2>4
<1>3. ASSUME NEW p \in S, NEW q \in S, p # q
      PROVE  Cardinality(Lower(S, p)) # Cardinality(Lower(S, q)) /\ place[p] # place[q]
  <2>1. p < q \/ q < p
    BY <1>3
  <2>2. Cardinality(Lower(S, p)) < Cardinality(Lower(S, q))
        \/ Cardinality(Lower(S, q)) < Cardinality(Lower(S, p))
    BY <2>1, LowerHasLess
  <2>3. Cardinality(Lower(S, p)) \in Nat /\ Cardinality(Lower(S, q)) \in Nat
    BY <1>2
  <2> QED  BY <2>2, <2>3
<1>4. place \in Injection(S, 1..n)
  <2>1. place \in [S -> 1..n]
    BY <1>2
  <2> HIDE DEF place, n
  <2> QED  BY <1>3, <2>1 DEF Injection, IsInjective
<1>5. IsFiniteSet(1..n) /\ Cardinality(1..n) = n
  BY <1>1, FS_Interval
<1>6. place \in Surjection(S, 1..n)
  BY <1>4, <1>5, FS_Injection
<1>7. ASSUME NEW i \in 1..n PROVE \E p \in S : Cardinality(Lower(S, p)) = i - 1
  <2>1. PICK p \in S : place[p] = i
    BY <1>6 DEF Surjection
  <2> QED  BY <1>2, <2>1
<1>8. ASSUME NEW p \in S PROVE \E i \in 1..n : Cardinality(Lower(S, p)) = i - 1
  <2>1. PICK i \in 1..n : i = Cardinality(Lower(S, p)) + 1
    BY <1>2
  <2> QED  BY <1>2, <2>1
<1> QED  BY <1>1, <1>3, <1>7, <1>8

LEMMA EntriesAre ==
  ASSUME NEW T, NEW list \in Seq(T), NEW S \in SUBSET DOMAIN list
  PROVE  /\ EntriesAt(list, S) \in Seq(T)
         /\ \A i \in DOMAIN EntriesAt(list, S) : \E p \in S : EntriesAt(list, S)[i] = list[p]
         /\ \A p \in S : \E i \in DOMAIN EntriesAt(list, S) : EntriesAt(list, S)[i] = list[p]
<1>1. S \in SUBSET Nat /\ IsFiniteSet(S) /\ \A p \in S : list[p] \in T
  <2>1. PICK n \in Nat : n = Len(list) /\ DOMAIN list = 1..n
    OBVIOUS
  <2>2. IsFiniteSet(1..n)
    <3>1. 1 \in Int /\ n \in Int
      OBVIOUS
    <3> QED  BY <3>1, FS_Interval
  <2> QED  BY <2>1, <2>2, FS_Subset
<1>2. PICK n : n = Cardinality(S)
  OBVIOUS
<1>3. /\ n \in Nat
      /\ \A i \in 1..n : \E p \in S : Cardinality(Lower(S, p)) = i - 1
      /\ \A p \in S : \E i \in 1..n : Cardinality(Lower(S, p)) = i - 1
      /\ \A p, q \in S : Cardinality(Lower(S, p)) = Cardinality(Lower(S, q)) => p = q
  BY <1>1, <1>2, PlacesCounted
<1> DEFINE at(i) == CHOOSE p \in S : Cardinality(Lower(S, p)) = i - 1
<1>4. PICK e : e = EntriesAt(list, S)
  OBVIOUS
<1>5. e = [i \in 1..n |-> list[at(i)]]
  BY <1>2, <1>4 DEF EntriesAt, Lower
<1>6. ASSUME NEW i \in 1..n PROVE at(i) \in S /\ Cardinality(Lower(S, at(i))) = i - 1
  BY <1>3
<1> HIDE DEF at
<1>7. DOMAIN e = 1..n /\ \A i \in 1..n : e[i] = list[at(i)] /\ e[i] \in T
  BY <1>1, <1>5, <1>6
<1>8. e \in Seq(T)
  <2>1. e \in [1..n -> T]
    BY <1>5, <1>7
  <2> QED  BY <1>3, <2>1
<1>9. ASSUME NEW p \in S PROVE \E i \in 1..n : e[i] = list[p]
  <2>1. PICK i \in 1..n : Cardinality(Lower(S, p)) = i - 1
    BY <1>3
  <2>2. at(i) = p
    BY <1>3, <1>6, <2>1
  <2> QED  BY <1>7, <2>2
<1> QED  BY <1>4, <1>6, <1>7, <1>8, <1>9
-----------------------------------------------------------------------------
(* The lists of used layers.                                               *)

Use == [address : Delegate, count : Nat, height : Nat]

Unused(list, d) == \A i \in DOMAIN list : list[i].address # d

\* The highest use of a delegate in a list: a layer, at a height.
HasTop(list, d, height, layer) ==
  /\ \E i \in DOMAIN list : list[i].address = d /\ list[i].height = height
  /\ \A i \in DOMAIN list :
       list[i].address = d =>
         /\ list[i].height <= height
         /\ list[i].height = height => list[i].count = layer

LEMMA UseIs ==
  ASSUME NEW list \in Seq(Use), NEW i \in DOMAIN list
  PROVE  list[i] \in Use /\ list[i].height \in Nat /\ list[i].count \in Nat
<1>1. list[i] \in Use
  OBVIOUS
<1> QED  BY <1>1 DEF Use

\* Where the highest use of a delegate is first.
FirstTop(list, d, n, layer, i) ==
  /\ i \in DOMAIN list
  /\ list[i].address = d /\ list[i].height = n /\ list[i].count = layer
  /\ \A j \in DOMAIN list :
       list[j].address = d /\ j < i => list[j].height < n

LEMMA TopIsFirst ==
  ASSUME NEW list \in Seq(Use), NEW d, NEW n \in Nat, NEW layer, HasTop(list, d, n, layer)
  PROVE  \E i : FirstTop(list, d, n, layer, i)
<1> DEFINE tops == {i \in DOMAIN list : list[i].address = d /\ list[i].height = n}
<1>1. DOMAIN list \subseteq Nat
  OBVIOUS
<1>2. tops \in SUBSET Nat /\ tops # {}
  BY <1>1 DEF HasTop
<1>3. PICK i \in tops : \A j \in tops : i <= j
  <2> HIDE DEF tops
  <2> QED  BY <1>2, LeastNumber
<1>4. list[i].address = d /\ list[i].height = n /\ list[i].count = layer
  BY <1>3 DEF HasTop
<1>5. ASSUME NEW j \in DOMAIN list, list[j].address = d, j < i PROVE list[j].height < n
  <2>1. list[j].height <= n /\ list[j].height \in Nat
    BY <1>5, UseIs DEF HasTop
  <2>2. j \notin tops
    BY <1>1, <1>3, <1>5
  <2> QED  BY <1>5, <2>1, <2>2
<1> QED  BY <1>3, <1>4, <1>5 DEF FirstTop

\* The uses of a list that a delegate has in another.
Part(list, more, d) ==
  \A i \in DOMAIN list :
    list[i].address = d => \E j \in DOMAIN more : more[j] = list[i]

LEMMA PartKeepsTop ==
  ASSUME NEW list \in Seq(Use), NEW more \in Seq(Use), NEW d, NEW n \in Nat, NEW layer,
         HasTop(more, d, n, layer), Part(list, more, d),
         \E i \in DOMAIN list : list[i].address = d /\ list[i].height = n
  PROVE  HasTop(list, d, n, layer)
  BY DEF HasTop, Part

LEMMA PartOfUnused ==
  ASSUME NEW list, NEW more, NEW d, Unused(more, d), Part(list, more, d)
  PROVE  Unused(list, d)
  BY DEF Unused, Part

\* Filtering keeps the highest use of every delegate.
LEMMA FilteredKeeps ==
  ASSUME NEW list \in Seq(Use), NEW final
  PROVE  /\ FilterUsedHashOnions(list, final) \in Seq(Use)
         /\ \A d : Part(FilterUsedHashOnions(list, final), list, d)
         /\ \A d, layer : \A n \in Nat :
              HasTop(list, d, n, layer) =>
                HasTop(FilterUsedHashOnions(list, final), d, n, layer)
<1> DEFINE others == {i \in DOMAIN list : PushedOut(list, i) /\ list[i].height > final}
           tops   == {i \in DOMAIN list : RisesTo(list, i) /\ ~PushedOut(list, i)}
<1>1. PICK o : o = EntriesAt(list, others)
  OBVIOUS
<1>2. PICK t : t = EntriesAt(list, tops)
  OBVIOUS
<1>3. PICK f : f = FilterUsedHashOnions(list, final)
  OBVIOUS
<1>4. f = o \o t
  BY <1>1, <1>2, <1>3 DEF FilterUsedHashOnions
<1>5. others \in SUBSET DOMAIN list /\ tops \in SUBSET DOMAIN list
  OBVIOUS
<1>6. \A i \in DOMAIN list : RisesTo(list, i) /\ ~PushedOut(list, i) => i \in tops
  OBVIOUS
<1> HIDE DEF others, tops
<1>7. o \in Seq(Use) /\ \A i \in DOMAIN o : \E j \in DOMAIN list : list[j] = o[i]
  BY <1>1, <1>5, EntriesAre
<1>8. t \in Seq(Use) /\ \A i \in DOMAIN t : \E j \in DOMAIN list : list[j] = t[i]
  BY <1>2, <1>5, EntriesAre
<1>9. \A p \in tops : \E i \in DOMAIN t : t[i] = list[p]
  BY <1>2, <1>5, EntriesAre
<1>10. /\ f \in Seq(Use)
       /\ \A i \in DOMAIN f : \/ i \in DOMAIN o /\ f[i] = o[i]
                              \/ \E j \in DOMAIN t : f[i] = t[j]
       /\ \A i \in DOMAIN t : \E j \in DOMAIN f : f[j] = t[i]
  <2>1. PICK a \in Nat, b \in Nat : a = Len(o) /\ b = Len(t)
    BY <1>7, <1>8
  <2>2. /\ f \in Seq(Use) /\ Len(f) = a + b
        /\ \A i \in 1..(a + b) : f[i] = IF i <= a THEN o[i] ELSE t[i - a]
    BY <1>4, <1>7, <1>8, <2>1
  <2>3. DOMAIN f = 1..(a + b) /\ DOMAIN o = 1..a /\ DOMAIN t = 1..b
    BY <1>7, <1>8, <2>1, <2>2
  <2>4. ASSUME NEW i \in DOMAIN f
        PROVE  \/ i \in DOMAIN o /\ f[i] = o[i]
               \/ \E j \in DOMAIN t : f[i] = t[j]
    <3>1. CASE i <= a
      BY <2>2, <2>3, <3>1
    <3>2. CASE ~(i <= a)
      <4>1. i - a \in 1..b /\ f[i] = t[i - a]
        BY <2>2, <2>3, <3>2
      <4> QED  BY <2>3, <4>1
    <3> QED  BY <3>1, <3>2
  <2>5. ASSUME NEW i \in DOMAIN t PROVE \E j \in DOMAIN f : f[j] = t[i]
    <3>1. i \in 1..b /\ a + i \in 1..(a + b) /\ ~(a + i <= a) /\ (a + i) - a = i
      BY <2>3
    <3>2. f[a + i] = t[i]
      BY <2>2, <3>1
    <3> QED  BY <2>3, <3>1, <3>2
  <2> QED  BY <2>2, <2>4, <2>5
<1>11. \A d : Part(f, list, d)
  <2>1. ASSUME NEW i \in DOMAIN f PROVE \E j \in DOMAIN list : list[j] = f[i]
    <3>1. CASE i \in DOMAIN o /\ f[i] = o[i]
      BY <1>7, <3>1
    <3>2. CASE \E j \in DOMAIN t : f[i] = t[j]
      BY <1>8, <3>2
    <3> QED  BY <1>10, <3>1, <3>2
  <2> QED  BY <2>1 DEF Part
<1>12. ASSUME NEW d, NEW layer, NEW n \in Nat, HasTop(list, d, n, layer)
       PROVE  HasTop(f, d, n, layer)
  <2> PICK i : FirstTop(list, d, n, layer, i)
    BY <1>12, TopIsFirst
  <2>1. /\ i \in DOMAIN list
        /\ list[i].address = d /\ list[i].height = n
        /\ \A j \in DOMAIN list :
             list[j].address = d /\ j < i => list[j].height < n
    BY DEF FirstTop
  <2>2. DOMAIN list \subseteq Nat /\ DOMAIN list = 1..Len(list) /\ Len(list) \in Nat
    OBVIOUS
  <2>3. RisesTo(list, i)
    BY <2>1, <2>2 DEF RisesTo
  <2>4. ~PushedOut(list, i)
    <3> SUFFICES ASSUME PushedOut(list, i) PROVE FALSE
      OBVIOUS
    <3>1. PICK k \in (i + 1)..Len(list) :
            /\ list[k].address = list[i].address
            /\ \A j \in {j \in 1..(k - 1) : list[j].address = list[i].address} :
                 list[j].height < list[k].height
      BY DEF PushedOut
    <3>2. k \in DOMAIN list /\ i \in 1..(k - 1)
      <4>1. PICK l \in Nat : l = Len(list) /\ DOMAIN list = 1..l
        BY <2>2
      <4>2. i \in 1..l /\ k \in (i + 1)..l
        BY <2>1, <3>1, <4>1
      <4> QED  BY <4>1, <4>2
    <3>3. list[i].height < list[k].height
      BY <3>1, <3>2
    <3>4. list[k].height <= n /\ list[k].height \in Nat
      <4>1. list[k].height <= n
        BY <1>12, <2>1, <3>1, <3>2 DEF HasTop
      <4> QED  BY <3>2, <4>1, UseIs
    <3> QED  BY <2>1, <3>3, <3>4
  <2>5. PICK j \in DOMAIN t : t[j] = list[i]
    <3>1. i \in tops
      BY <1>6, <2>1, <2>3, <2>4
    <3> QED  BY <1>9, <3>1
  <2>6. \E k \in DOMAIN f : f[k].address = d /\ f[k].height = n
    BY <1>10, <2>1, <2>5
  <2> QED  BY <1>10, <1>11, <1>12, <2>6, PartKeepsTop
<1> QED  BY <1>3, <1>10, <1>11, <1>12
LEMMA SamePartSameTop ==
  ASSUME NEW list \in Seq(Use), NEW more \in Seq(Use), NEW d, NEW n \in Nat, NEW layer,
         HasTop(more, d, n, layer), Part(list, more, d), Part(more, list, d)
  PROVE  HasTop(list, d, n, layer)
<1>1. \E i \in DOMAIN list : list[i].address = d /\ list[i].height = n
  <2>1. PICK j \in DOMAIN more : more[j].address = d /\ more[j].height = n
    BY DEF HasTop
  <2> QED  BY <2>1 DEF Part
<1> QED  BY <1>1, PartKeepsTop

\* What is recorded is in the list, and the uses of the other delegates stay.
LEMMA RecordedIs ==
  ASSUME NEW list \in Seq(Use), NEW use \in Use
  PROVE  /\ Recorded(list, use) \in Seq(Use)
         /\ \E i \in DOMAIN Recorded(list, use) : Recorded(list, use)[i] = use
         /\ \A i \in DOMAIN Recorded(list, use) :
              \/ Recorded(list, use)[i] = use
              \/ \E j \in DOMAIN list : list[j] = Recorded(list, use)[i]
         /\ \A d : d # use.address =>
              Part(Recorded(list, use), list, d) /\ Part(list, Recorded(list, use), d)
<1> DEFINE same == {i \in DOMAIN list : list[i].address = use.address /\ list[i].count = use.count}
<1>1. PICK r : r = Recorded(list, use)
  OBVIOUS
<1>2. PICK l \in Nat : l = Len(list) /\ DOMAIN list = 1..l
  OBVIOUS
<1>3. CASE same = {}
  <2>1. r = Append(list, use)
    BY <1>1, <1>3 DEF Recorded
  <2>2. /\ r \in Seq(Use) /\ DOMAIN r = 1..(l + 1) /\ r[l + 1] = use
        /\ \A i \in 1..l : r[i] = list[i]
    BY <1>2, <2>1
  <2>3. l + 1 \in DOMAIN r /\ \A i \in 1..l : i \in DOMAIN r
    BY <2>2
  <2>4. \A i \in DOMAIN r : i = l + 1 \/ i \in 1..l
    BY <2>2
  <2>5. ASSUME NEW i \in DOMAIN r
        PROVE  r[i] = use \/ \E j \in DOMAIN list : list[j] = r[i]
    BY <1>2, <2>2, <2>4
  <2>6. ASSUME NEW d, d # use.address
        PROVE  Part(r, list, d) /\ Part(list, r, d)
    <3>1. Part(r, list, d)
      BY <2>5, <2>6 DEF Part
    <3>2. Part(list, r, d)
      BY <1>2, <2>2, <2>3 DEF Part
    <3> QED  BY <3>1, <3>2
  <2> QED  BY <1>1, <2>2, <2>3, <2>5, <2>6
<1>4. CASE same # {}
  <2>1. same \in SUBSET Nat
    BY <1>2
  <2>2. PICK p : p = CHOOSE i \in same : \A j \in same : i <= j
    OBVIOUS
  <2>3. p \in same
    <3> HIDE DEF same
    <3> QED  BY <1>4, <2>1, <2>2, LeastNumber
  <2>4. p \in DOMAIN list /\ list[p].address = use.address
    BY <2>3
  <2>5. r = [list EXCEPT ![p] = use]
    BY <1>1, <1>4, <2>2 DEF Recorded
  <2> HIDE DEF same
  <2>6. /\ r \in Seq(Use) /\ DOMAIN r = DOMAIN list /\ r[p] = use
        /\ \A i \in DOMAIN list : i # p => r[i] = list[i]
    BY <1>2, <2>4, <2>5
  <2>7. ASSUME NEW i \in DOMAIN r
        PROVE  r[i] = use \/ \E j \in DOMAIN list : list[j] = r[i]
    BY <2>6
  <2>8. ASSUME NEW d, d # use.address
        PROVE  Part(r, list, d) /\ Part(list, r, d)
    <3>1. Part(r, list, d)
      BY <2>7, <2>8 DEF Part
    <3>2. Part(list, r, d)
      BY <2>4, <2>6, <2>8 DEF Part
    <3> QED  BY <3>1, <3>2
  <2> QED  BY <1>1, <2>4, <2>6, <2>7, <2>8
<1> QED  BY <1>3, <1>4

LEMMA RecordedTop ==
  ASSUME NEW list \in Seq(Use), NEW use \in Use,
         \A i \in DOMAIN list : list[i].address = use.address => list[i].height < use.height
  PROVE  HasTop(Recorded(list, use), use.address, use.height, use.count)
<1>1. PICK r : r = Recorded(list, use)
  OBVIOUS
<1>2. PICK k \in DOMAIN r : r[k] = use
  BY <1>1, RecordedIs
<1>3. ASSUME NEW i \in DOMAIN r, r[i].address = use.address
      PROVE  r[i].height <= use.height /\ (r[i].height = use.height => r[i].count = use.count)
  <2>1. use.height \in Nat
    BY DEF Use
  <2>2. CASE r[i] = use
    BY <2>1, <2>2
  <2>3. CASE \E j \in DOMAIN list : list[j] = r[i]
    <3>1. PICK j \in DOMAIN list : list[j] = r[i]
      BY <2>3
    <3>2. list[j].height < use.height /\ list[j].height \in Nat
      BY <1>3, <3>1, UseIs
    <3> QED  BY <2>1, <3>1, <3>2
  <2> QED  BY <1>1, <2>2, <2>3, RecordedIs
<1> QED  BY <1>1, <1>2, <1>3 DEF HasTop

\* The layer that is revealed next.
TopBelow(list, d, n, layer) == \E m \in Nat : m < n /\ HasTop(list, d, m, layer)

LEMMA NextAfterTop ==
  ASSUME NEW list \in Seq(Use), NEW d, NEW n \in Nat, NEW layer,
         TopBelow(list, d, n, layer), NEW next, next = NextHashOnion(list, d, n)
  PROVE  \/ next.version = 0 /\ next.count = 0
         \/ next.version = onion[d] /\ next.count = layer + 1
<1> PICK m \in Nat : m < n /\ HasTop(list, d, m, layer)
  BY DEF TopBelow
<1> DEFINE below == {i \in UsesOf(d, list) : list[i].height < n}
<1>1. PICK i : FirstTop(list, d, m, layer, i)
  BY TopIsFirst
<1>2. /\ i \in DOMAIN list /\ list[i].address = d /\ list[i].height = m
      /\ \A j \in DOMAIN list : list[j].address = d /\ j < i => list[j].height < m
  BY <1>1 DEF FirstTop
<1>3. i \in below
  BY <1>2 DEF UsesOf
<1>4. \A j \in below : j \in DOMAIN list /\ list[j].address = d
  BY DEF UsesOf
<1> DEFINE Wins(h) == \A j \in below : \/ list[j].height < list[h].height
                                       \/ list[j].height = list[h].height /\ h <= j
<1>5. Wins(i)
  <2> SUFFICES ASSUME NEW j \in below
               PROVE  list[j].height < m \/ (list[j].height = m /\ i <= j)
    BY <1>2
  <2>1. list[j].height \in Nat /\ list[j].height <= m /\ j \in Nat /\ i \in Nat
    BY <1>2, <1>4, UseIs DEF HasTop
  <2>2. j < i => list[j].height < m
    BY <1>2, <1>4
  <2> QED  BY <2>1, <2>2
<1>6. PICK h : h = Highest(list, below)
  OBVIOUS
<1>7. h = CHOOSE k \in below : Wins(k)
  BY <1>6 DEF Highest
<1> HIDE DEF Wins
<1>8. h \in below /\ Wins(h)
  BY <1>3, <1>5, <1>7
<1>9. list[h].count = layer
  <2>1. m < list[h].height \/ m = list[h].height
    BY <1>2, <1>3, <1>8 DEF Wins
  <2>2. list[h].height <= m /\ list[h].height \in Nat
    BY <1>4, <1>8, UseIs DEF HasTop
  <2>3. list[h].height = m
    BY <2>1, <2>2
  <2> QED  BY <1>4, <1>8, <2>3 DEF HasTop
<1>10. NextHashOnion(list, d, n) =
         IF layer + 1 > OnionCount THEN [version |-> 0, count |-> 0]
         ELSE [version |-> onion[d], count |-> layer + 1]
  BY <1>3, <1>6, <1>9 DEF NextHashOnion
<1> QED  BY <1>10

LEMMA NextOfUnused ==
  ASSUME NEW list, NEW d, NEW n, Unused(list, d), NEW next, next = NextHashOnion(list, d, n)
  PROVE  next.version = onion[d] /\ next.count = 0
<1>1. UsesOf(d, list) = {}
  BY DEF Unused, UsesOf
<1>2. NextHashOnion(list, d, n) = [version |-> onion[d], count |-> 0]
  BY <1>1 DEF NextHashOnion
<1> QED  BY <1>2

\* A start drops all uses of a delegate, or none.
LEMMA KeptAre ==
  ASSUME NEW version, NEW list \in Seq(Use), NEW kept, kept = KeptUses(version, list)
  PROVE  /\ kept \in Seq(Use)
         /\ \A d : Part(kept, list, d)
         /\ \A d : registered[d] \in {0, version[d]} => Part(list, kept, d)
         /\ \A d : registered[d] \notin {0, version[d]} => Unused(kept, d)
<1> DEFINE S == {i \in DOMAIN list :
                   registered[list[i].address] \in {0, version[list[i].address]}}
<1>1. kept = EntriesAt(list, S) /\ S \in SUBSET DOMAIN list
  BY DEF KeptUses
<1>2. /\ kept \in Seq(Use)
      /\ \A i \in DOMAIN kept : \E p \in S : kept[i] = list[p]
      /\ \A p \in S : \E i \in DOMAIN kept : kept[i] = list[p]
  <2> HIDE DEF S
  <2> QED  BY <1>1, EntriesAre
<1>3. \A d : Part(kept, list, d)
  BY <1>2 DEF Part
<1>4. \A d : registered[d] \in {0, version[d]} => Part(list, kept, d)
  <2> SUFFICES ASSUME NEW d, registered[d] \in {0, version[d]},
                      NEW i \in DOMAIN list, list[i].address = d
               PROVE  \E j \in DOMAIN kept : kept[j] = list[i]
    BY DEF Part
  <2>1. i \in S
    OBVIOUS
  <2> QED  BY <1>2, <2>1
<1>5. \A d : registered[d] \notin {0, version[d]} => Unused(kept, d)
  <2> SUFFICES ASSUME NEW d, registered[d] \notin {0, version[d]},
                      NEW i \in DOMAIN kept, kept[i].address = d
               PROVE  FALSE
    BY DEF Unused
  <2>1. PICK p \in S : kept[i] = list[p]
    BY <1>2
  <2> QED  BY <2>1
<1> QED  BY <1>2, <1>3, <1>4, <1>5

LEMMA CountOfUnused ==
  ASSUME NEW list, NEW d, Unused(list, d)
  PROVE  HighestCount(d, list) = -1
<1>1. UsesOf(d, list) = {}
  BY DEF Unused, UsesOf
<1>2. PICK counts : counts = {list[i].count : i \in UsesOf(d, list)} /\ counts = {}
  BY <1>1
<1>3. HighestCount(d, list) = CHOOSE c \in counts \cup {-1} : \A b \in counts \cup {-1} : b <= c
  BY <1>2 DEF HighestCount
<1>4. counts \cup {-1} = {-1} /\ -1 <= -1
  BY <1>2
<1> QED  BY <1>3, <1>4
-----------------------------------------------------------------------------
(* The blocks of a delegate on a chain.                                    *)

IsSealed(b) ==
  /\ b.gen \in Delegate \cup {Stranger}
  /\ b.mhp \in Nat /\ b.next \in Nat /\ b.version \in Nat /\ b.seed \in Nat

IsRow(c) == IsSeq(c) /\ \A h \in DOMAIN c : IsSealed(c[h])

\* The last block of a delegate on a chain.
LastOwn(c, d, h) ==
  /\ h \in DOMAIN c /\ c[h].gen = d
  /\ \A k \in DOMAIN c : c[k].gen = d => k <= h

\* A list knows which layer a delegate revealed last on the chain, or the onion
\* of this version is new.
Knows(list, d, c, version) ==
  /\ (\A h \in DOMAIN c : c[h].gen # d) => Unused(list, d)
  /\ \A h : LastOwn(c, d, h) =>
       \/ Unused(list, d) /\ c[h].version # version
       \/ HasTop(list, d, h, c[h].seed)

\* A block reveals the layer after the one its delegate revealed last.
Follows(c, b) ==
  \A h : LastOwn(c, b.gen, h) /\ c[h].version # 0 /\ c[h].version = b.version
         => b.seed = c[h].seed + 1

\* A list has the layer of a block at height n, if its delegate is one of D, and
\* knows those of the others.
HasBlock(list, D, c, versions, b, n) ==
  \A d \in D :
    IF d = b.gen THEN HasTop(list, d, n, b.seed) /\ Follows(c, b)
                 ELSE Knows(list, d, c, versions[d])

\* The seeds on a chain, of the delegates D.
SeedsRight(c, D) ==
  \A i, j \in DOMAIN c :
    ( /\ i < j /\ c[i].gen = c[j].gen /\ c[i].gen \in D
      /\ \A k \in (i + 1)..(j - 1) : c[k].gen # c[i].gen
      /\ c[i].version = c[j].version /\ c[i].version # 0 )
    => c[j].seed = c[i].seed + 1

VersionsRight(c, D, versions) ==
  \A h \in DOMAIN c : c[h].gen \in D => c[h].version <= versions[c[h].gen]

\* The first n blocks of two chains are the same.
Agree(c, e, n) == n <= Len(c) /\ n <= Len(e) /\ \A i \in 1..n : c[i] = e[i]

\* Two chains part above a height, and have no block of D there.
Apart(c, e, n, D) ==
  /\ Agree(c, e, n)
  /\ \A h \in DOMAIN c : h > n => c[h].gen \notin D
  /\ \A h \in DOMAIN e : h > n => e[h].gen \notin D

SameOwn(c, e, d) ==
  /\ \A h \in DOMAIN c : c[h].gen = d => h \in DOMAIN e /\ e[h] = c[h]
  /\ \A h \in DOMAIN e : e[h].gen = d => h \in DOMAIN c /\ c[h] = e[h]

LEMMA ApartIsSame ==
  ASSUME NEW c, NEW e, IsSeq(c), IsSeq(e), NEW n \in Nat, NEW D, Apart(c, e, n, D), NEW d \in D
  PROVE  SameOwn(c, e, d)
<1>1. PICK l \in Nat, m \in Nat :
        l = Len(c) /\ DOMAIN c = 1..l /\ m = Len(e) /\ DOMAIN e = 1..m
  BY SeqIs
<1>2. n <= l /\ n <= m /\ \A i \in 1..n : c[i] = e[i]
  BY <1>1 DEF Apart, Agree
<1>3. ASSUME NEW h \in 1..l, c[h].gen = d PROVE h \in 1..m /\ e[h] = c[h]
  <2>1. ~(h > n)
    BY <1>1, <1>3 DEF Apart
  <2>2. h \in 1..n /\ h \in 1..m
    BY <1>2, <2>1
  <2> QED  BY <1>2, <2>2
<1>4. ASSUME NEW h \in 1..m, e[h].gen = d PROVE h \in 1..l /\ c[h] = e[h]
  <2>1. ~(h > n)
    BY <1>1, <1>4 DEF Apart
  <2>2. h \in 1..n /\ h \in 1..l
    BY <1>2, <2>1
  <2> QED  BY <1>2, <2>2
<1> QED  BY <1>1, <1>3, <1>4 DEF SameOwn

LEMMA SameLastOwn ==
  ASSUME NEW c, NEW e, NEW d, SameOwn(c, e, d)
  PROVE  /\ \A h : LastOwn(e, d, h) => LastOwn(c, d, h) /\ c[h] = e[h]
         /\ (\A h \in DOMAIN e : e[h].gen # d) => (\A h \in DOMAIN c : c[h].gen # d)
  BY Zenon DEF SameOwn, LastOwn

LEMMA KnowsMoved ==
  ASSUME NEW c, NEW e, NEW d, SameOwn(c, e, d), NEW list, NEW version,
         Knows(list, d, c, version)
  PROVE  Knows(list, d, e, version)
  BY SameLastOwn DEF Knows

LEMMA FollowsMoved ==
  ASSUME NEW c, NEW e, NEW b, SameOwn(c, e, b.gen), Follows(c, b)
  PROVE  Follows(e, b)
  BY SameLastOwn DEF Follows

LEMMA HasBlockMoved ==
  ASSUME NEW c, NEW e, NEW D, NEW E \in SUBSET D, \A d \in E : SameOwn(c, e, d),
         NEW list, NEW versions, NEW b, NEW n, HasBlock(list, D, c, versions, b, n)
  PROVE  HasBlock(list, E, e, versions, b, n)
<1> SUFFICES ASSUME NEW d \in E
             PROVE  IF d = b.gen THEN HasTop(list, d, n, b.seed) /\ Follows(e, b)
                                 ELSE Knows(list, d, e, versions[d])
  BY DEF HasBlock
<1>1. CASE d = b.gen
  <2>1. HasTop(list, d, n, b.seed) /\ Follows(c, b)
    BY <1>1 DEF HasBlock
  <2> QED  BY <1>1, <2>1, FollowsMoved
<1>2. CASE d # b.gen
  <2>1. Knows(list, d, c, versions[d])
    BY <1>2 DEF HasBlock
  <2> QED  BY <1>2, <2>1, KnowsMoved
<1> QED  BY <1>1, <1>2

LEMMA SeedsMoved ==
  ASSUME NEW c, NEW e, IsSeq(c), IsSeq(e), NEW D, NEW E \in SUBSET D,
         \A d \in E : SameOwn(c, e, d), SeedsRight(c, D)
  PROVE  SeedsRight(e, E)
<1> SUFFICES ASSUME NEW i \in DOMAIN e, NEW j \in DOMAIN e,
                    i < j, e[i].gen = e[j].gen, e[i].gen \in E,
                    \A k \in (i + 1)..(j - 1) : e[k].gen # e[i].gen,
                    e[i].version = e[j].version, e[i].version # 0
             PROVE  e[j].seed = e[i].seed + 1
  BY DEF SeedsRight
<1>1. PICK l \in Nat, m \in Nat : DOMAIN c = 1..l /\ DOMAIN e = 1..m
  BY SeqIs
<1>2. PICK d \in E : d = e[i].gen /\ SameOwn(c, e, d)
  OBVIOUS
<1>3. i \in DOMAIN c /\ c[i] = e[i] /\ j \in DOMAIN c /\ c[j] = e[j]
  BY <1>2 DEF SameOwn
<1>4. ASSUME NEW k \in (i + 1)..(j - 1) PROVE c[k].gen # c[i].gen
  <2>1. k \in DOMAIN c
    BY <1>1, <1>3
  <2> QED  BY <1>2, <1>3, <1>4, <2>1 DEF SameOwn
<1> QED  BY <1>2, <1>3, <1>4 DEF SeedsRight

LEMMA VersionsMoved ==
  ASSUME NEW c, NEW e, NEW D, NEW E \in SUBSET D, \A d \in E : SameOwn(c, e, d),
         NEW versions, VersionsRight(c, D, versions)
  PROVE  VersionsRight(e, E, versions)
  BY DEF VersionsRight, SameOwn

LEMMA AgreeMore ==
  ASSUME NEW c, NEW e, NEW f, NEW k \in Nat, NEW n \in Nat, k <= n, IsSeq(e), IsSeq(f),
         Agree(c, e, k), Agree(e, f, n)
  PROVE  Agree(c, f, k)
<1>1. PICK m \in Nat : m = Len(f) /\ n <= m
  BY SeqIs DEF Agree
<1>2. \A i \in 1..k : i \in 1..n
  OBVIOUS
<1> QED  BY <1>1, <1>2 DEF Agree

-----------------------------------------------------------------------------
(* The invariant of the seeds. It is about the delegates that lost no block. *)

Tracked == Delegate \ (lost \cup {Stranger})

BlockStored == job.pc \in {"kept", "processing"}

\* What is kept in the state has the shape it should.
RowsTyped ==
  /\ IsRow(chain)
  /\ \A c \in broadcast : IsRow(c) /\ c # <<>>
  /\ syncFrom # Idle =>
       syncFrom.pc = "reverted" /\ IsRow(syncFrom.old) /\ syncFrom.common \in Nat
  /\ used \in Seq(Use)
  /\ finalized \in Nat
  /\ \A d \in Delegate : onion[d] \in Nat \ {0} /\ registered[d] \in Nat

JobTyped ==
  Forging =>
    /\ job.pc \in Steps
    /\ DOMAIN job = {"pc", "d", "on"} \cup
         (IF job.pc = "begun" THEN {} ELSE {"map", "list", "block"})
    /\ job.d \in Delegate
    /\ IsRow(job.on)
    /\ job.pc # "begun" =>
         /\ job.list \in Seq(Use)
         /\ IsSealed(job.block)
         /\ job.block.gen = job.d

\* The stored list knows what the chain revealed, and what the block that is
\* being forged is about to reveal once it was stored.
LayersKnown ==
  /\ ~BlockStored => \A d \in Tracked : Knows(used, d, chain, onion[d])
  /\ job.pc \in {"created", "recorded"} =>
       HasBlock(job.list, Tracked, chain, onion, job.block, Len(job.on) + 1)
  /\ BlockStored =>
       HasBlock(used, Tracked, chain, onion, job.block, Len(job.on) + 1)

\* No block of the delegate came between since the forging began.
JobIsNext ==
  /\ Forging /\ job.d \in Tracked =>
       \A h \in DOMAIN chain : chain[h].gen = job.d => h <= Len(job.on)
  /\ job.pc = "processing" => chain = job.on
  /\ Forging /\ job.pc # "begun" => job.block.version \in {0, onion[job.d]}

\* Versions of onions only grow, and the registered ones are old only for
\* delegates that are not followed.
VersionsKept ==
  /\ VersionsRight(chain, Tracked, onion)
  /\ \/ \A d \in Delegate : registered[d] = 0
     \/ \A d \in Delegate : registered[d] \in 1..onion[d]
  /\ \A d \in Tracked : registered[d] \in {0, onion[d]}

\* What was sent out is on the chain.
SentIsHeld ==
  \A c \in broadcast : \A k \in DOMAIN c :
    c[k].gen \in Tracked =>
      \/ Agree(c, chain, k)
      \/ job.pc = "processing" /\ c = Forged /\ k = Len(c)

\* A synchronization costs the blocks above the common one.
SyncLoses ==
  syncFrom # Idle =>
    /\ Agree(syncFrom.old, chain, syncFrom.common)
    /\ \A h \in DOMAIN syncFrom.old : h > syncFrom.common => syncFrom.old[h].gen \notin Tracked

LayersInvariant ==
  /\ RowsTyped /\ JobTyped
  /\ LayersKnown
  /\ JobIsNext
  /\ VersionsKept
  /\ SentIsHeld
  /\ SyncLoses
  /\ SeedsRight(chain, Tracked)

LEMMA SeedsRightIsFollow ==
  ASSUME LayersInvariant
  PROVE  SeedsFollow
<1> SUFFICES ASSUME NEW i \in DOMAIN chain, NEW j \in DOMAIN chain,
                    i < j, chain[i].gen = chain[j].gen,
                    chain[i].gen \notin lost \cup {Stranger},
                    \A k \in (i + 1)..(j - 1) : chain[k].gen # chain[i].gen,
                    chain[i].version = chain[j].version, chain[i].version # 0
             PROVE  chain[j].seed = chain[i].seed + 1
  BY DEF SeedsFollow
<1>1. chain[i].gen \in Tracked
  BY DEF LayersInvariant, RowsTyped, IsRow, IsSealed, Tracked
<1>2. SeedsRight(chain, Tracked)
  BY DEF LayersInvariant
<1> QED  BY <1>1, <1>2 DEF SeedsRight

\* A delegate has no block on a chain, or a last one.
LEMMA LastOwnExists ==
  ASSUME NEW c, IsSeq(c), NEW d, NEW h \in DOMAIN c, c[h].gen = d
  PROVE  \E k : LastOwn(c, d, k)
<1>1. PICK l \in Nat : DOMAIN c = 1..l
  BY SeqIs
<1> DEFINE C == {m \in Nat : \A k \in 1..l : c[k].gen = d => k <= m}
<1>2. l \in C
  OBVIOUS
<1>3. PICK m \in C : \A x \in C : m <= x
  <2>1. C \in SUBSET Nat /\ C # {}
    BY <1>2
  <2> HIDE DEF C
  <2> QED  BY <2>1, LeastNumber
<1>4. m \in Nat /\ (\A k \in 1..l : c[k].gen = d => k <= m) /\ h <= m /\ h \in 1..l
  BY <1>1
<1>5. m \in 1..l /\ c[m].gen = d
  <2>1. m <= l
    BY <1>2, <1>3
  <2>2. m \in 1..l /\ m - 1 \in Nat
    BY <1>4, <2>1
  <2>3. ASSUME c[m].gen # d PROVE FALSE
    <3>1. ASSUME NEW k \in 1..l, c[k].gen = d PROVE k <= m - 1
      <4>1. k <= m /\ k # m
        BY <1>4, <2>3, <3>1
      <4> QED  BY <2>2, <4>1
    <3>2. m - 1 \in C
      BY <2>2, <3>1
    <3>3. m <= m - 1
      BY <1>3, <3>2
    <3> QED  BY <2>2, <3>3
  <2> QED  BY <2>2, <2>3
<1> QED  BY <1>1, <1>4, <1>5 DEF LastOwn

\* A list that has the same uses of a delegate knows the same.
LEMMA KnowsKept ==
  ASSUME NEW list, NEW more, NEW d, NEW c, IsSeq(c), NEW version, Knows(list, d, c, version),
         Unused(list, d) => Unused(more, d),
         \A n \in Nat : \A layer : HasTop(list, d, n, layer) => HasTop(more, d, n, layer)
  PROVE  Knows(more, d, c, version)
<1>1. ASSUME NEW h, LastOwn(c, d, h)
      PROVE  \/ Unused(more, d) /\ c[h].version # version
             \/ HasTop(more, d, h, c[h].seed)
  <2>1. h \in Nat
    BY <1>1, SeqIs DEF LastOwn
  <2> QED  BY <1>1, <2>1 DEF Knows
<1> QED  BY <1>1 DEF Knows

LEMMA RowAppend ==
  ASSUME NEW c, IsRow(c), NEW b, IsSealed(b)
  PROVE  /\ IsRow(Append(c, b)) /\ Append(c, b) # <<>>
         /\ Len(c) \in Nat /\ Len(Append(c, b)) = Len(c) + 1
         /\ DOMAIN c = 1..Len(c) /\ DOMAIN Append(c, b) = 1..(Len(c) + 1)
         /\ \A i \in 1..Len(c) : Append(c, b)[i] = c[i]
         /\ Append(c, b)[Len(c) + 1] = b
<1>1. PICK x : x = Append(c, b)
  OBVIOUS
<1>2. /\ IsSeq(c) /\ IsSeq(x) /\ Len(x) = Len(c) + 1
      /\ \A i \in 1..Len(c) : x[i] = c[i]
      /\ x[Len(c) + 1] = b
  BY <1>1, AppendIs DEF IsRow
<1>3. Len(c) \in Nat /\ DOMAIN c = 1..Len(c) /\ DOMAIN x = 1..(Len(c) + 1) /\ x # <<>>
  BY <1>2, SeqIs
<1>4. IsRow(x)
  <2> SUFFICES ASSUME NEW h \in 1..(Len(c) + 1) PROVE IsSealed(x[h])
    BY <1>2, <1>3 DEF IsRow
  <2>1. h \in 1..Len(c) \/ h = Len(c) + 1
    BY <1>3
  <2> QED  BY <1>2, <1>3, <2>1 DEF IsRow
<1> QED  BY <1>1, <1>2, <1>3, <1>4

LEMMA RowTip ==
  ASSUME NEW c, IsRow(c)
  PROVE  TipOf(c).mhp \in Nat /\ TipOf(c).next \in Nat
<1>1. CASE c = <<>>
  BY <1>1 DEF TipOf, Genesis
<1>2. CASE c # <<>>
  <2>1. Len(c) \in Nat /\ Len(c) # 0 /\ DOMAIN c = 1..Len(c)
    BY <1>2, SeqIs DEF IsRow
  <2>2. Len(c) \in DOMAIN c
    BY <2>1
  <2> QED  BY <1>2, <2>2 DEF IsRow, IsSealed, TipOf, Last
<1> QED  BY <1>1, <1>2

\* The chain that is left when a node goes back to a height.
Cut(c, n) == SubSeq(c, 1, n)

LEMMA CutIs ==
  ASSUME NEW c, IsRow(c), NEW n \in Nat, n <= Len(c)
  PROVE  /\ IsRow(Cut(c, n)) /\ Len(Cut(c, n)) = n /\ DOMAIN Cut(c, n) = 1..n
         /\ \A i \in 1..n : Cut(c, n)[i] = c[i]
<1>1. IsSeq(c) /\ Len(c) \in Nat /\ DOMAIN c = 1..Len(c)
  BY SeqIs DEF IsRow
<1>2. n \in 0..Len(c)
  BY <1>1
<1>3. IsSeq(Cut(c, n)) /\ Len(Cut(c, n)) = n /\ \A i \in 1..n : Cut(c, n)[i] = c[i]
  BY <1>1, <1>2, PrefixIs DEF Cut
<1>4. DOMAIN Cut(c, n) = 1..n /\ \A i \in 1..n : i \in DOMAIN c
  BY <1>1, <1>2, <1>3, SeqIs
<1> QED  BY <1>3, <1>4 DEF IsRow

\* Another node's block is of none of the delegates.
LEMMA ExtendedRow ==
  ASSUME NEW c, IsRow(c), NEW x \in Extended(c)
  PROVE  /\ IsRow(x) /\ Len(c) \in Nat /\ Len(x) = Len(c) + 1
         /\ Agree(c, x, Len(c))
         /\ \A h \in DOMAIN x : h > Len(c) => x[h].gen = Stranger
<1>1. PICK next \in NextPrevoted(c) : x = Append(c, StrangersBlock(c, next))
  BY DEF Extended
<1>2. TipOf(c).next \in Nat
  BY RowTip
<1>3. PICK b : b = StrangersBlock(c, next)
  OBVIOUS
<1>4. IsSealed(b) /\ b.gen = Stranger
  BY <1>2, <1>3 DEF IsSealed, StrangersBlock, MaxHeightPrevoted, NextPrevoted
<1>5. x = Append(c, b)
  BY <1>1, <1>3
<1>6. /\ IsRow(x) /\ Len(c) \in Nat /\ Len(x) = Len(c) + 1
      /\ DOMAIN x = 1..(Len(c) + 1)
      /\ \A i \in 1..Len(c) : x[i] = c[i]
      /\ x[Len(c) + 1] = b
  BY <1>4, <1>5, RowAppend
<1>7. ASSUME NEW h \in DOMAIN x, h > Len(c) PROVE x[h].gen = Stranger
  <2>1. h = Len(c) + 1
    BY <1>6, <1>7
  <2> QED  BY <1>4, <1>6, <2>1
<1> QED  BY <1>6, <1>7 DEF Agree

-----------------------------------------------------------------------------
(* The steps of the rest of the node move its chain, and leave the blocks    *)
(* of the delegates that are followed in their places.                      *)

LEMMA FewerTracked ==
  ASSUME lost \subseteq lost'
  PROVE  Tracked' \subseteq Tracked
  BY DEF Tracked

LEMMA ChainMovesApart ==
  ASSUME LayersInvariant, lost \subseteq lost', job' = job, job.pc # "processing",
         UNCHANGED <<used, registered, onion, broadcast>>,
         NEW n \in Nat, Apart(chain, chain', n, Tracked'),
         IsRow(chain'), finalized' \in Nat,
         syncFrom' # Idle => syncFrom'.pc = "reverted" /\ IsRow(syncFrom'.old)
                               /\ syncFrom'.common \in Nat,
         SyncLoses'
  PROVE  LayersInvariant'
<1>1. PICK D : D = Tracked'
  OBVIOUS
<1>2. D \in SUBSET Tracked
  BY <1>1, FewerTracked
<1>3. IsSeq(chain) /\ IsSeq(chain')
  BY DEF LayersInvariant, RowsTyped, IsRow
<1>4. \A d \in D : SameOwn(chain, chain', d)
  BY <1>1, <1>3, ApartIsSame
<1>5. RowsTyped'
  BY DEF LayersInvariant, RowsTyped
<1>6. JobTyped'
  BY DEF LayersInvariant, JobTyped, Forging
<1>7. LayersKnown'
  <2>1. ASSUME ~BlockStored, NEW d \in D PROVE Knows(used, d, chain', onion[d])
    <3>1. Knows(used, d, chain, onion[d])
      BY <1>2, <2>1 DEF LayersInvariant, LayersKnown
    <3> QED  BY <1>4, <2>1, <3>1, KnowsMoved
  <2>2. ASSUME job.pc \in {"created", "recorded"}
        PROVE  HasBlock(job.list, D, chain', onion, job.block, Len(job.on) + 1)
    <3>1. HasBlock(job.list, Tracked, chain, onion, job.block, Len(job.on) + 1)
      BY <2>2 DEF LayersInvariant, LayersKnown
    <3> QED  BY <1>2, <1>4, <3>1, HasBlockMoved
  <2>3. ASSUME BlockStored
        PROVE  HasBlock(used, D, chain', onion, job.block, Len(job.on) + 1)
    <3>1. HasBlock(used, Tracked, chain, onion, job.block, Len(job.on) + 1)
      BY <2>3 DEF LayersInvariant, LayersKnown
    <3> QED  BY <1>2, <1>4, <3>1, HasBlockMoved
  <2> QED  BY <1>1, <2>1, <2>2, <2>3 DEF LayersKnown, BlockStored
<1>8. JobIsNext'
  <2>1. ASSUME Forging, job.d \in D, NEW h \in DOMAIN chain', chain'[h].gen = job.d
        PROVE  h <= Len(job.on)
    <3>1. h \in DOMAIN chain /\ chain[h].gen = job.d
      BY <1>4, <2>1 DEF SameOwn
    <3> QED  BY <1>2, <2>1, <3>1 DEF LayersInvariant, JobIsNext
  <2>2. Forging' <=> Forging
    BY DEF Forging, Idle
  <2>3. job'.pc # "processing"
    OBVIOUS
  <2>4. Forging /\ job.pc # "begun" => job.block.version \in {0, onion[job.d]}
    BY DEF LayersInvariant, JobIsNext
  <2> QED  BY <1>1, <2>1, <2>2, <2>3, <2>4 DEF JobIsNext
<1>9. VersionsKept'
  <2>1. VersionsRight(chain', D, onion)
    BY <1>2, <1>4, VersionsMoved DEF LayersInvariant, VersionsKept
  <2>2. \A d \in D : registered[d] \in {0, onion[d]}
    BY <1>2 DEF LayersInvariant, VersionsKept
  <2>3. \/ \A d \in Delegate : registered[d] = 0
        \/ \A d \in Delegate : registered[d] \in 1..onion[d]
    BY DEF LayersInvariant, VersionsKept
  <2> QED  BY <1>1, <2>1, <2>2, <2>3 DEF VersionsKept
<1>10. SentIsHeld'
  <2>1. ASSUME NEW c \in broadcast, NEW k \in DOMAIN c, c[k].gen \in D
        PROVE  Agree(c, chain', k)
    <3>1. Agree(c, chain, k)
      BY <1>2, <2>1 DEF LayersInvariant, SentIsHeld
    <3>2. IsSeq(c)
      BY DEF LayersInvariant, RowsTyped, IsRow
    <3>3. k \in Nat /\ k >= 1 /\ k <= Len(chain) /\ chain[k] = c[k]
      BY <3>1, <3>2, SeqIs DEF Agree
    <3>4. k \in DOMAIN chain
      BY <1>3, <3>3, SeqIs
    <3>5. ~(k > n)
      BY <1>1, <2>1, <3>3, <3>4 DEF Apart
    <3>6. Agree(chain, chain', n) /\ k <= n
      BY <3>3, <3>5 DEF Apart
    <3> QED  BY <1>3, <3>1, <3>3, <3>6, AgreeMore
  <2> QED  BY <1>1, <2>1 DEF SentIsHeld
<1>11. SeedsRight(chain', D)
  <2>1. SeedsRight(chain, Tracked)
    BY DEF LayersInvariant
  <2> QED  BY <1>2, <1>3, <1>4, <2>1, SeedsMoved
<1> QED  BY <1>1, <1>5, <1>6, <1>7, <1>8, <1>9, <1>10, <1>11 DEF LayersInvariant

LEMMA RowIs ==
  ASSUME NEW c, IsRow(c)
  PROVE  IsSeq(c) /\ Len(c) \in Nat /\ DOMAIN c = 1..Len(c) /\ Agree(c, c, Len(c))
  BY SeqIs DEF IsRow, Agree

LEMMA NotTracked ==
  Stranger \notin Tracked
  BY DEF Tracked

LEMMA ReceivingKeepsLayers ==
  ASSUME LayersInvariant, ReceiveBlock
  PROVE  LayersInvariant'
<1>1. /\ job.pc # "processing" /\ syncFrom = Idle
      /\ UNCHANGED <<used, registered, onion, job, finalized, syncFrom, broadcast, lost>>
      /\ chain' \in Extended(chain) \cup
           {c \in broadcast : chain = SubSeq(c, 1, Len(c) - 1)}
  BY DEF ReceiveBlock, NotProcessing, forgerDb
<1>2. IsRow(chain) /\ finalized \in Nat /\ Len(chain) \in Nat /\ DOMAIN chain = 1..Len(chain)
  BY RowIs DEF LayersInvariant, RowsTyped
<1>3. Tracked' = Tracked
  BY <1>1 DEF Tracked
<1>4. /\ IsRow(chain') /\ Agree(chain, chain', Len(chain))
      /\ \A h \in DOMAIN chain' : h > Len(chain) => chain'[h].gen \notin Tracked
  <2>1. CASE chain' \in Extended(chain)
    BY <1>2, <2>1, ExtendedRow, NotTracked
  <2>2. CASE chain' \notin Extended(chain)
    <3>1. PICK c \in broadcast : chain' = c /\ chain = Cut(c, Len(c) - 1)
      BY <1>1, <2>2 DEF Cut
    <3>2. IsRow(c) /\ c # <<>>
      BY DEF LayersInvariant, RowsTyped
    <3>3. Len(c) \in Nat /\ Len(c) # 0 /\ DOMAIN c = 1..Len(c) /\ Len(c) - 1 \in Nat
      BY <3>2, SeqIs DEF IsRow
    <3>4. Len(chain) = Len(c) - 1 /\ \A i \in 1..(Len(c) - 1) : chain[i] = c[i]
      <4>1. PICK m : m = Len(c) - 1
        OBVIOUS
      <4>2. m \in Nat /\ m <= Len(c)
        BY <3>3, <4>1
      <4>3. Len(Cut(c, m)) = m /\ \A i \in 1..m : Cut(c, m)[i] = c[i]
        BY <3>2, <4>2, CutIs
      <4> QED  BY <3>1, <4>1, <4>3
    <3>5. ASSUME NEW h \in DOMAIN c, h > Len(chain) PROVE c[h].gen \notin Tracked
      <4>1. h \in Nat /\ ~(h <= Len(chain))
        BY <1>2, <3>3, <3>5
      <4>2. ~Agree(c, chain, h)
        BY <4>1 DEF Agree
      <4> QED  BY <1>1, <4>2 DEF LayersInvariant, SentIsHeld
    <3>6. Agree(chain, c, Len(chain))
      BY <3>3, <3>4 DEF Agree
    <3> QED  BY <3>1, <3>2, <3>5, <3>6
  <2> QED  BY <2>1, <2>2
<1>5. Apart(chain, chain', Len(chain), Tracked)
  BY <1>2, <1>4 DEF Apart
<1>6. SyncLoses'
  BY <1>1 DEF SyncLoses
<1> QED  BY <1>1, <1>2, <1>3, <1>4, <1>5, <1>6, ChainMovesApart

LEMMA FinalizingKeepsLayers ==
  ASSUME LayersInvariant, Finalize
  PROVE  LayersInvariant'
<1>1. /\ job.pc # "processing" /\ syncFrom = Idle /\ finalized' = TipOf(chain).mhp
      /\ UNCHANGED <<used, registered, onion, job, chain, syncFrom, broadcast, lost>>
  BY DEF Finalize, NotProcessing, forgerDb
<1>2. IsRow(chain) /\ Len(chain) \in Nat /\ DOMAIN chain = 1..Len(chain)
  BY RowIs DEF LayersInvariant, RowsTyped
<1>3. finalized' \in Nat
  BY <1>1, <1>2, RowTip
<1>4. Tracked' = Tracked
  BY <1>1 DEF Tracked
<1>5. Apart(chain, chain, Len(chain), Tracked)
  BY <1>2, RowIs DEF Apart
<1>6. SyncLoses'
  BY <1>1 DEF SyncLoses
<1> QED  BY <1>1, <1>2, <1>3, <1>4, <1>5, <1>6, ChainMovesApart

LEMMA OwnersAre ==
  ASSUME NEW c, IsRow(c), NEW n \in Nat, OwnersOf(c, n) \subseteq lost', NEW h \in DOMAIN c, h > n
  PROVE  c[h].gen \notin Tracked'
<1>1. h \in (n + 1)..Len(c)
  BY RowIs
<1>2. c[h].gen = Stranger \/ c[h].gen \in OwnersOf(c, n)
  BY <1>1 DEF OwnersOf
<1> QED  BY <1>2 DEF Tracked

LEMMA SyncBeginningKeepsLayers ==
  ASSUME LayersInvariant, SyncBegin
  PROVE  LayersInvariant'
<1>1. PICK common :
        /\ common \in finalized..(Len(chain) - 1)
        /\ chain' = SubSeq(chain, 1, common)
        /\ syncFrom' = [pc |-> "reverted", old |-> chain, common |-> common]
        /\ lost' = lost \cup OwnersOf(chain, common)
  BY DEF SyncBegin
<1>2. /\ job.pc # "processing"
      /\ UNCHANGED <<used, registered, onion, job, finalized, broadcast>>
  BY DEF SyncBegin, NotProcessing, forgerDb
<1>3. IsRow(chain) /\ finalized \in Nat /\ Len(chain) \in Nat /\ DOMAIN chain = 1..Len(chain)
  BY RowIs DEF LayersInvariant, RowsTyped
<1>4. common \in Nat /\ common <= Len(chain)
  BY <1>1, <1>3
<1>5. /\ IsRow(chain') /\ Len(chain') = common /\ DOMAIN chain' = 1..common
      /\ \A i \in 1..common : chain'[i] = chain[i]
  <2>1. chain' = Cut(chain, common)
    BY <1>1 DEF Cut
  <2> QED  BY <1>3, <1>4, <2>1, CutIs
<1>6. Agree(chain, chain', common)
  BY <1>4, <1>5 DEF Agree
<1>7. \A h \in DOMAIN chain : h > common => chain[h].gen \notin Tracked'
  <2>1. OwnersOf(chain, common) \subseteq lost'
    BY <1>1
  <2> QED  BY <1>3, <1>4, <2>1, OwnersAre
<1>8. Apart(chain, chain', common, Tracked')
  <2>1. \A h \in DOMAIN chain' : ~(h > common)
    BY <1>4, <1>5
  <2> QED  BY <1>6, <1>7, <2>1 DEF Apart
<1>9. syncFrom'.pc = "reverted" /\ syncFrom'.old = chain /\ syncFrom'.common = common
  BY <1>1
<1>10. SyncLoses'
  BY <1>6, <1>7, <1>9 DEF SyncLoses
<1>11. lost \subseteq lost'
  BY <1>1
<1> QED  BY <1>2, <1>3, <1>4, <1>5, <1>8, <1>9, <1>10, <1>11, ChainMovesApart

LEMMA SyncIs ==
  ASSUME LayersInvariant, syncFrom.pc = "reverted"
  PROVE  /\ syncFrom # Idle
         /\ IsRow(syncFrom.old) /\ syncFrom.common \in Nat
         /\ Agree(syncFrom.old, chain, syncFrom.common)
         /\ \A h \in DOMAIN syncFrom.old :
              h > syncFrom.common => syncFrom.old[h].gen \notin Tracked
<1>1. syncFrom # Idle
  BY DEF Idle
<1> QED  BY <1>1 DEF LayersInvariant, RowsTyped, SyncLoses

\* What is above a height of a chain is not followed; another node's blocks
\* do not change that.
FreeAbove(c, n, D) ==
  IsRow(c) /\ n <= Len(c) /\ \A h \in DOMAIN c : h > n => c[h].gen \notin D

LEMMA ExtendedIsFree ==
  ASSUME NEW c, NEW n \in Nat, NEW D, Stranger \notin D, FreeAbove(c, n, D), NEW x \in Extended(c)
  PROVE  /\ FreeAbove(x, n, D)
         /\ \A i \in 1..n : x[i] = c[i]
<1>1. /\ IsRow(x) /\ Len(c) \in Nat /\ Len(x) = Len(c) + 1
      /\ Agree(c, x, Len(c))
      /\ \A h \in DOMAIN x : h > Len(c) => x[h].gen = Stranger
  BY ExtendedRow DEF FreeAbove
<1>2. DOMAIN x = 1..Len(x) /\ DOMAIN c = 1..Len(c) /\ n <= Len(c)
  BY <1>1, RowIs DEF FreeAbove
<1>3. \A i \in 1..Len(c) : x[i] = c[i]
  BY <1>1 DEF Agree
<1>4. ASSUME NEW h \in DOMAIN x, h > n PROVE x[h].gen \notin D
  <2>1. CASE h > Len(c)
    BY <1>1, <2>1
  <2>2. CASE ~(h > Len(c))
    <3>1. h \in 1..Len(c)
      BY <1>1, <1>2, <2>2
    <3> QED  BY <1>2, <1>3, <1>4, <3>1 DEF FreeAbove
  <2> QED  BY <2>1, <2>2
<1>5. \A i \in 1..n : i \in 1..Len(c)
  BY <1>1, <1>2
<1> QED  BY <1>1, <1>2, <1>3, <1>4, <1>5 DEF FreeAbove

LEMMA SyncEndKeepsLayers ==
  ASSUME LayersInvariant, SyncDone
  PROVE  LayersInvariant'
<1>1. /\ job.pc # "processing" /\ syncFrom.pc = "reverted" /\ syncFrom' = Idle
      /\ UNCHANGED <<used, registered, onion, job, finalized, broadcast, lost>>
      /\ Len(chain) = syncFrom.common
      /\ chain' \in OtherChains(syncFrom.old, syncFrom.common)
  BY DEF SyncDone, NotProcessing, forgerDb
<1>2. PICK old, n : old = syncFrom.old /\ n = syncFrom.common
  OBVIOUS
<1>3. IsRow(old) /\ n \in Nat /\ Agree(old, chain, n)
  BY <1>1, <1>2, SyncIs
<1>4. IsRow(chain) /\ finalized \in Nat /\ Len(chain) = n /\ DOMAIN chain = 1..n
  BY <1>1, <1>2, RowIs DEF LayersInvariant, RowsTyped
<1>5. PICK base : base = Cut(old, n)
  OBVIOUS
<1>6. IsRow(base) /\ Len(base) = n /\ DOMAIN base = 1..n /\ \A i \in 1..n : base[i] = chain[i]
  <2>1. n <= Len(old) /\ \A i \in 1..n : old[i] = chain[i]
    BY <1>3 DEF Agree
  <2>2. IsRow(base) /\ Len(base) = n /\ DOMAIN base = 1..n /\ \A i \in 1..n : base[i] = old[i]
    BY <1>3, <1>5, <2>1, CutIs
  <2> QED  BY <2>1, <2>2
<1> DEFINE Right(c) == FreeAbove(c, n, Tracked) /\ \A i \in 1..n : c[i] = chain[i]
<1>7. Right(base)
  BY <1>3, <1>6 DEF FreeAbove
<1>8. ASSUME NEW c \in broadcast, Len(c) > n, Cut(c, n) = base
      PROVE  Right(c)
  <2>1. IsRow(c) /\ Len(c) \in Nat /\ DOMAIN c = 1..Len(c) /\ n <= Len(c)
    BY <1>3, <1>8, RowIs DEF LayersInvariant, RowsTyped
  <2>2. \A i \in 1..n : base[i] = c[i]
    BY <1>3, <1>8, <2>1, CutIs
  <2>3. ASSUME NEW h \in DOMAIN c, h > n PROVE c[h].gen \notin Tracked
    <3>1. ~(h <= Len(chain))
      BY <1>3, <1>4, <2>1, <2>3
    <3>2. ~Agree(c, chain, h)
      BY <3>1 DEF Agree
    <3> QED  BY <1>1, <3>2 DEF LayersInvariant, SentIsHeld
  <2> QED  BY <1>6, <2>1, <2>2, <2>3 DEF FreeAbove
<1>9. ASSUME NEW b, Right(b), NEW x \in Extended(b) PROVE Right(x)
  BY <1>3, <1>9, ExtendedIsFree, NotTracked
<1>10. Right(chain')
  <2> DEFINE known == {c \in broadcast : Len(c) > n /\ Cut(c, n) = base}
  <2>1. chain' \in known \cup UNION {Extended(b) \cup ExtendedTwice(b) : b \in {base} \cup known}
    BY <1>1, <1>2, <1>5 DEF OtherChains, Cut
  <2>2. \A b \in {base} \cup known : Right(b)
    BY <1>7, <1>8
  <2> HIDE DEF Right
  <2>3. CASE chain' \in known
    BY <2>2, <2>3
  <2>4. CASE chain' \notin known
    <3>1. PICK b \in {base} \cup known : chain' \in Extended(b) \cup ExtendedTwice(b)
      BY <2>1, <2>4
    <3>2. Right(b)
      BY <2>2, <3>1
    <3>3. CASE chain' \in Extended(b)
      BY <1>9, <3>2, <3>3
    <3>4. CASE chain' \in ExtendedTwice(b)
      <4>1. PICK x \in Extended(b) : chain' \in Extended(x)
        BY <3>4 DEF ExtendedTwice
      <4>2. Right(x)
        BY <1>9, <3>2, <4>1
      <4> QED  BY <1>9, <4>1, <4>2
    <3> QED  BY <3>1, <3>3, <3>4
  <2> QED  BY <2>3, <2>4
<1>11. Apart(chain, chain', n, Tracked)
  <2>1. \A h \in DOMAIN chain : ~(h > n)
    BY <1>3, <1>4
  <2> QED  BY <1>3, <1>4, <1>10, <2>1 DEF Apart, Agree, FreeAbove
<1>12. Tracked' = Tracked /\ IsRow(chain') /\ SyncLoses'
  BY <1>1, <1>10 DEF Tracked, SyncLoses, FreeAbove
<1> QED  BY <1>1, <1>3, <1>4, <1>11, <1>12, ChainMovesApart

LEMMA SyncFailureKeepsLayers ==
  ASSUME LayersInvariant, SyncFails
  PROVE  LayersInvariant'
<1>1. /\ job.pc # "processing" /\ syncFrom.pc = "reverted" /\ syncFrom' = Idle
      /\ UNCHANGED <<used, registered, onion, job, finalized, broadcast>>
      /\ chain' = syncFrom.old
      /\ lost' = lost \cup OwnersOf(chain, syncFrom.common)
  BY DEF SyncFails, NotProcessing, forgerDb
<1>2. PICK n : n = syncFrom.common
  OBVIOUS
<1>3. /\ IsRow(chain') /\ n \in Nat /\ Agree(chain', chain, n)
      /\ \A h \in DOMAIN chain' : h > n => chain'[h].gen \notin Tracked
  BY <1>1, <1>2, SyncIs
<1>4. IsRow(chain) /\ finalized \in Nat
  BY DEF LayersInvariant, RowsTyped
<1>5. Tracked' \subseteq Tracked
  BY <1>1, FewerTracked
<1>6. \A h \in DOMAIN chain : h > n => chain[h].gen \notin Tracked'
  <2>1. OwnersOf(chain, n) \subseteq lost'
    BY <1>1, <1>2
  <2> QED  BY <1>3, <1>4, <2>1, OwnersAre
<1>7. Apart(chain, chain', n, Tracked')
  BY <1>3, <1>5, <1>6 DEF Apart, Agree
<1>8. SyncLoses' /\ lost \subseteq lost'
  BY <1>1 DEF SyncLoses
<1> QED  BY <1>1, <1>3, <1>4, <1>7, <1>8, ChainMovesApart

-----------------------------------------------------------------------------
(* The steps of the job.                                                   *)

LEMMA UnmovedKeepsLayers ==
  ASSUME LayersInvariant,
         UNCHANGED <<used, registered, onion, job, chain, finalized, syncFrom, broadcast, lost>>
  PROVE  LayersInvariant'
<1>1. RowsTyped' /\ JobTyped'
  BY DEF LayersInvariant, RowsTyped, JobTyped, Forging
<1>2. Tracked' = Tracked /\ BlockStored' = BlockStored /\ Forging' = Forging /\ Forged' = Forged
  BY DEF Tracked, BlockStored, Forging, Forged
<1>3. LayersKnown' /\ JobIsNext'
  BY <1>2 DEF LayersInvariant, LayersKnown, JobIsNext
<1>4. VersionsKept' /\ SentIsHeld' /\ SyncLoses'
  BY <1>2 DEF LayersInvariant, VersionsKept, SentIsHeld, SyncLoses
<1> QED  BY <1>1, <1>2, <1>3, <1>4 DEF LayersInvariant

LEMMA ForgingKeepsLayers ==
  ASSUME LayersInvariant, NEW d \in Delegate, ForgeBegin(d)
  PROVE  LayersInvariant'
<1>1. /\ job = Idle
      /\ job' = [pc |-> "begun", d |-> d, on |-> chain]
      /\ UNCHANGED <<used, registered, onion, chain, finalized, syncFrom, broadcast, lost>>
  BY DEF ForgeBegin, forgerDb
<1>2. /\ job'.pc = "begun" /\ job'.d = d /\ job'.on = chain
      /\ DOMAIN job' = {"pc", "d", "on"}
      /\ job.pc = "idle"
  BY <1>1 DEF Idle
<1>3. Tracked' = Tracked /\ ~BlockStored /\ ~BlockStored'
  BY <1>1, <1>2 DEF Tracked, BlockStored
<1>4. RowsTyped'
  BY <1>1 DEF LayersInvariant, RowsTyped
<1>5. IsRow(chain)
  BY DEF LayersInvariant, RowsTyped
<1>6. JobTyped'
  BY <1>1, <1>2, <1>5 DEF JobTyped, Steps
<1>7. LayersKnown'
  BY <1>1, <1>2, <1>3 DEF LayersInvariant, LayersKnown
<1>8. JobIsNext'
  <2>1. \A h \in DOMAIN chain : h <= Len(chain)
    BY <1>5, RowIs
  <2> QED  BY <1>1, <1>2, <2>1 DEF JobIsNext
<1>9. VersionsKept' /\ SyncLoses'
  BY <1>1, <1>3 DEF LayersInvariant, VersionsKept, SyncLoses
<1>10. SentIsHeld'
  BY <1>1, <1>2, <1>3 DEF LayersInvariant, SentIsHeld
<1> QED  BY <1>1, <1>3, <1>4, <1>6, <1>7, <1>8, <1>9, <1>10 DEF LayersInvariant

\* Whatever the list, the next layer is a number, of the delegate's onion or of
\* a random one.
LEMMA NextIsTyped ==
  ASSUME NEW list \in Seq(Use), NEW d, NEW n \in Nat, NEW next, next = NextHashOnion(list, d, n)
  PROVE  next.count \in Nat /\ next.version \in {0, onion[d]}
<1> DEFINE below == {i \in UsesOf(d, list) : list[i].height < n}
<1>1. next.version \in {0, onion[d]}
  <2>1. \/ next = [version |-> onion[d], count |-> 0]
        \/ next = [version |-> 0, count |-> 0]
        \/ \E m : next = [version |-> onion[d], count |-> m]
    BY DEF NextHashOnion
  <2> QED  BY <2>1
<1>2. CASE below = {}
  <2>1. next = [version |-> onion[d], count |-> 0]
    BY <1>2 DEF NextHashOnion
  <2> QED  BY <1>1, <2>1
<1>3. CASE below # {}
  <2>1. PICK l \in Nat : DOMAIN list = 1..l
    BY LenProperties
  <2>2. \A i \in below : i \in 1..l /\ i \in Nat /\ list[i].height \in Nat /\ list[i].height < n
                           /\ list[i].count \in Nat
    BY <2>1, UseIs DEF UsesOf
  <2> DEFINE C == {m \in Nat : \A i \in below : list[i].height <= m}
  <2>3. n \in C
    BY <2>2
  <2>4. PICK m \in C : \A x \in C : m <= x
    <3>1. C \in SUBSET Nat /\ C # {}
      BY <2>3
    <3> HIDE DEF C
    <3> QED  BY <3>1, LeastNumber
  <2> HIDE DEF below
  <2>5. m \in Nat /\ \A i \in below : list[i].height <= m
    BY <2>4
  <2> DEFINE Tops == {i \in below : list[i].height = m}
  <2>6. Tops # {}
    <3>1. SUFFICES ASSUME \A i \in below : list[i].height # m PROVE FALSE
      OBVIOUS
    <3>2. PICK i \in below : TRUE
      BY <1>3
    <3>3. m # 0
      BY <2>2, <2>5, <3>1, <3>2
    <3>4. m - 1 \in Nat
      BY <2>5, <3>3
    <3>5. \A j \in below : list[j].height <= m - 1
      BY <2>2, <2>5, <3>1
    <3>6. m - 1 \in C
      BY <3>4, <3>5
    <3>7. m <= m - 1
      BY <2>4, <3>6
    <3> QED  BY <2>5, <3>7
  <2>7. PICK t \in Tops : \A j \in Tops : t <= j
    <3>1. Tops \in SUBSET Nat
      BY <2>2
    <3> HIDE DEF Tops
    <3> QED  BY <2>6, <3>1, LeastNumber
  <2>8. /\ t \in below
        /\ \A j \in below : \/ list[j].height < list[t].height
                            \/ list[j].height = list[t].height /\ t <= j
    <3> SUFFICES ASSUME NEW j \in below
                 PROVE  \/ list[j].height < list[t].height
                        \/ list[j].height = list[t].height /\ t <= j
      BY <2>7
    <3>1. list[t].height = m /\ list[j].height <= m /\ list[j].height \in Nat
      BY <2>2, <2>5, <2>7
    <3>2. CASE list[j].height = m
      BY <2>7, <3>1, <3>2
    <3>3. CASE list[j].height # m
      BY <2>5, <3>1, <3>3
    <3> QED  BY <3>2, <3>3
  <2>9. PICK i : i = Highest(list, below)
    OBVIOUS
  <2>10. i \in below
    BY <2>8, <2>9 DEF Highest
  <2>11. next = IF list[i].count + 1 > OnionCount THEN [version |-> 0, count |-> 0]
                ELSE [version |-> onion[d], count |-> list[i].count + 1]
    BY <1>3, <2>9 DEF NextHashOnion, below
  <2>12. list[i].count \in Nat
    BY <2>2, <2>10
  <2>13. CASE list[i].count + 1 > OnionCount
    BY <1>1, <2>11, <2>13
  <2>14. CASE ~(list[i].count + 1 > OnionCount)
    BY <1>1, <2>11, <2>12, <2>14
  <2> QED  BY <2>13, <2>14
<1> QED  BY <1>2, <1>3

\* The list that is made for a block has its layer, and knows those of the
\* other delegates as the stored one does.
LEMMA ListMade ==
  ASSUME NEW list \in Seq(Use), NEW use \in Use, NEW final, NEW c, IsSeq(c),
         NEW made, made = FilterUsedHashOnions(Recorded(list, use), final)
  PROVE  /\ made \in Seq(Use)
         /\ (\A i \in DOMAIN list : list[i].address = use.address => list[i].height < use.height)
              => HasTop(made, use.address, use.height, use.count)
         /\ \A d, version : d # use.address /\ Knows(list, d, c, version) => Knows(made, d, c, version)
<1>1. PICK rec : rec = Recorded(list, use)
  OBVIOUS
<1>2. rec \in Seq(Use)
  BY <1>1, RecordedIs
<1>3. /\ made \in Seq(Use)
      /\ \A d : Part(made, rec, d)
      /\ \A d, layer : \A n \in Nat : HasTop(rec, d, n, layer) => HasTop(made, d, n, layer)
  BY <1>1, <1>2, FilteredKeeps
<1>4. ASSUME \A i \in DOMAIN list : list[i].address = use.address => list[i].height < use.height
      PROVE  HasTop(made, use.address, use.height, use.count)
  <2>1. HasTop(rec, use.address, use.height, use.count)
    BY <1>1, <1>4, RecordedTop
  <2>2. use.height \in Nat
    BY DEF Use
  <2> QED  BY <1>3, <2>1, <2>2
<1>5. ASSUME NEW d, NEW version, d # use.address, Knows(list, d, c, version)
      PROVE  Knows(made, d, c, version)
  <2>1. Part(rec, list, d) /\ Part(list, rec, d)
    BY <1>1, <1>5, RecordedIs
  <2>2. Unused(list, d) => Unused(made, d)
    <3>1. Unused(list, d) => Unused(rec, d)
      BY <2>1, PartOfUnused
    <3>2. Unused(rec, d) => Unused(made, d)
      BY <1>3, PartOfUnused
    <3> QED  BY <3>1, <3>2
  <2>3. ASSUME NEW n \in Nat, NEW layer, HasTop(list, d, n, layer)
        PROVE  HasTop(made, d, n, layer)
    <3>1. HasTop(rec, d, n, layer)
      BY <1>2, <2>1, <2>3, SamePartSameTop
    <3> QED  BY <1>3, <3>1
  <2> QED  BY <1>5, <2>2, <2>3, KnowsKept
<1> QED  BY <1>3, <1>4, <1>5

\* What a delegate is to reveal next, by a list that knows what it revealed last.
LEMMA NextIsRight ==
  ASSUME NEW list \in Seq(Use), NEW c, IsSeq(c), NEW d, NEW n \in Nat,
         \A h \in DOMAIN c : c[h].gen = d => h < n,
         Knows(list, d, c, onion[d]), NEW next, next = NextHashOnion(list, d, n)
  PROVE  /\ \A i \in DOMAIN list : list[i].address = d => list[i].height < n
         /\ \A h : LastOwn(c, d, h) /\ c[h].version # 0 /\ c[h].version = next.version
                     => next.count = c[h].seed + 1
<1>1. \A h : LastOwn(c, d, h) => h \in Nat /\ h < n
  BY SeqIs DEF LastOwn
<1>2. ASSUME NEW i \in DOMAIN list, list[i].address = d PROVE list[i].height < n
  <2>1. ~Unused(list, d)
    BY <1>2 DEF Unused
  <2>2. ~(\A h \in DOMAIN c : c[h].gen # d)
    BY <2>1 DEF Knows
  <2>3. PICK h : LastOwn(c, d, h)
    BY <2>2, LastOwnExists
  <2>4. HasTop(list, d, h, c[h].seed)
    BY <2>1, <2>3 DEF Knows
  <2>5. list[i].height <= h /\ list[i].height \in Nat
    BY <1>2, <2>4, UseIs DEF HasTop
  <2> QED  BY <1>1, <2>3, <2>5
<1>3. ASSUME NEW h, LastOwn(c, d, h), c[h].version # 0, c[h].version = next.version
      PROVE  next.count = c[h].seed + 1
  <2>1. h \in Nat /\ h < n
    BY <1>1, <1>3
  <2>2. CASE Unused(list, d)
    <3>1. next.version = onion[d] /\ next.count = 0
      BY <2>2, NextOfUnused
    <3>2. ~HasTop(list, d, h, c[h].seed)
      BY <2>2 DEF HasTop, Unused
    <3> QED  BY <1>3, <3>1, <3>2 DEF Knows
  <2>3. CASE ~Unused(list, d)
    <3>1. TopBelow(list, d, n, c[h].seed)
      BY <1>3, <2>1, <2>3 DEF Knows, TopBelow
    <3>2. \/ next.version = 0 /\ next.count = 0
          \/ next.version = onion[d] /\ next.count = c[h].seed + 1
      BY <3>1, NextAfterTop
    <3> QED  BY <1>3, <3>2
  <2> QED  BY <2>2, <2>3
<1> QED  BY <1>2, <1>3

LEMMA LayersForging ==
  ASSUME LayersInvariant, job.pc # "idle"
  PROVE  /\ Forging /\ job.pc \in Steps /\ job.d \in Delegate /\ IsRow(job.on)
         /\ Len(job.on) \in Nat
         /\ job.pc # "begun" =>
              /\ DOMAIN job = {"pc", "d", "on", "map", "list", "block"}
              /\ job.list \in Seq(Use) /\ IsSealed(job.block) /\ job.block.gen = job.d
<1>1. Forging
  BY DEF Forging, Idle
<1>2. IsRow(job.on)
  BY <1>1 DEF LayersInvariant, JobTyped
<1>3. Len(job.on) \in Nat
  BY <1>2, RowIs
<1> QED  BY <1>1, <1>2, <1>3 DEF LayersInvariant, JobTyped

LEMMA CreatingKeepsLayers ==
  ASSUME LayersInvariant, Create
  PROVE  LayersInvariant'
<1>1. /\ job.pc = "begun"
      /\ UNCHANGED <<used, registered, onion, chain, finalized, syncFrom, broadcast, lost>>
  BY DEF Create, forgerDb
<1>2. Forging /\ job.d \in Delegate /\ IsRow(job.on) /\ Len(job.on) \in Nat /\ ~BlockStored
  BY <1>1, LayersForging DEF BlockStored
<1>3. IsRow(chain) /\ IsSeq(chain) /\ used \in Seq(Use)
  BY RowIs DEF LayersInvariant, RowsTyped
<1> DEFINE height == Len(job.on) + 1
           layer  == NextHashOnion(used, job.d, height)
           use    == [address |-> job.d, count |-> layer.count, height |-> height]
           made   == FilterUsedHashOnions(Recorded(used, use), finalized)
           sealed(next) == [gen |-> job.d, mhpf |-> MaxHeightPreviouslyForged(job.d),
                            mhp |-> MaxHeightPrevoted(chain), next |-> next,
                            version |-> layer.version, seed |-> layer.count]
<1>4. PICK next \in NextPrevoted(job.on) :
        job' = [pc |-> "created", d |-> job.d, on |-> job.on, map |-> forged,
                list |-> made, block |-> sealed(next)]
  <2>1. \E next \in NextPrevoted(job.on) :
          job' = [pc |-> "created", d |-> job.d, on |-> job.on, map |-> forged,
                  list |-> made, block |-> sealed(next)]
    BY Zenon DEF Create
  <2> QED  BY <2>1
<1>5. PICK d, n, l, u, m, b :
        d = job.d /\ n = height /\ l = layer /\ u = use /\ m = made /\ b = sealed(next)
  OBVIOUS
<1>6. /\ l = NextHashOnion(used, d, n)
      /\ u = [address |-> d, count |-> l.count, height |-> n]
      /\ m = FilterUsedHashOnions(Recorded(used, u), finalized)
  BY <1>5
<1>7. /\ b.gen = d /\ b.mhp = MaxHeightPrevoted(chain) /\ b.next = next
      /\ b.version = l.version /\ b.seed = l.count
  BY <1>5
<1>8. job' = [pc |-> "created", d |-> d, on |-> job.on, map |-> forged, list |-> m, block |-> b]
  BY <1>4, <1>5
<1> HIDE DEF height, layer, use, made, sealed
<1>9. /\ job'.pc = "created" /\ job'.d = d /\ job'.on = job.on /\ job'.list = m /\ job'.block = b
      /\ DOMAIN job' = {"pc", "d", "on", "map", "list", "block"}
  BY <1>8
<1>10. n = Len(job.on) + 1 /\ n \in Nat /\ d \in Delegate /\ d = job.d
  BY <1>2, <1>5 DEF height
<1>11. l.count \in Nat /\ l.version \in {0, onion[d]} /\ onion[d] \in Nat
  <2>1. onion[d] \in Nat
    BY <1>10 DEF LayersInvariant, RowsTyped
  <2> QED  BY <1>3, <1>6, <1>10, <2>1, NextIsTyped
<1>12. IsSealed(b)
  <2>1. b.mhp \in Nat
    BY <1>3, <1>7, RowTip DEF MaxHeightPrevoted
  <2>2. b.next \in Nat
    BY <1>2, <1>7, RowTip DEF NextPrevoted, MaxHeightPrevoted
  <2>3. b.version \in Nat /\ b.seed \in Nat
    BY <1>7, <1>11
  <2> QED  BY <1>7, <1>10, <2>1, <2>2, <2>3 DEF IsSealed
<1>13. u \in Use /\ u.address = d /\ u.count = l.count /\ u.height = n
  BY <1>6, <1>10, <1>11 DEF Use
<1>14. /\ m \in Seq(Use)
       /\ (\A i \in DOMAIN used : used[i].address = d => used[i].height < n)
            => HasTop(m, d, n, l.count)
       /\ \A e, version : e # d /\ Knows(used, e, chain, version) => Knows(m, e, chain, version)
  BY <1>3, <1>6, <1>13, ListMade
<1>15. Tracked' = Tracked /\ Forging' /\ ~BlockStored'
  BY <1>1, <1>9 DEF Tracked, Forging, Idle, BlockStored
<1>16. RowsTyped'
  BY <1>1 DEF LayersInvariant, RowsTyped
<1>17. JobTyped'
  BY <1>2, <1>7, <1>9, <1>10, <1>12, <1>14 DEF JobTyped, Steps
<1>18. HasBlock(m, Tracked, chain, onion, b, n)
  <2> SUFFICES ASSUME NEW e \in Tracked
               PROVE  IF e = b.gen THEN HasTop(m, e, n, b.seed) /\ Follows(chain, b)
                                   ELSE Knows(m, e, chain, onion[e])
    BY DEF HasBlock
  <2>1. Knows(used, e, chain, onion[e])
    BY <1>2 DEF LayersInvariant, LayersKnown
  <2>2. CASE e = d
    <3>1. \A h \in DOMAIN chain : chain[h].gen = d => h < n
      <4> SUFFICES ASSUME NEW h \in DOMAIN chain, chain[h].gen = d PROVE h < n
        OBVIOUS
      <4>1. h <= Len(job.on)
        BY <1>2, <1>10, <2>2 DEF LayersInvariant, JobIsNext
      <4>2. h \in Nat
        BY <1>3, RowIs
      <4> QED  BY <1>2, <1>10, <4>1, <4>2
    <3>2. /\ \A i \in DOMAIN used : used[i].address = d => used[i].height < n
          /\ \A h : LastOwn(chain, d, h) /\ chain[h].version # 0 /\ chain[h].version = l.version
                      => l.count = chain[h].seed + 1
      BY <1>3, <1>6, <1>10, <2>1, <2>2, <3>1, NextIsRight
    <3>3. Follows(chain, b)
      BY <1>7, <3>2 DEF Follows
    <3> QED  BY <1>7, <1>14, <2>2, <3>2, <3>3
  <2>3. CASE e # d
    BY <1>7, <1>14, <2>1, <2>3
  <2> QED  BY <2>2, <2>3
<1>19. LayersKnown'
  <2>1. \A e \in Tracked : Knows(used, e, chain, onion[e])
    BY <1>2 DEF LayersInvariant, LayersKnown
  <2> QED  BY <1>1, <1>9, <1>10, <1>15, <1>18, <2>1 DEF LayersKnown
<1>20. JobIsNext'
  <2>1. job.d \in Tracked => \A h \in DOMAIN chain : chain[h].gen = job.d => h <= Len(job.on)
    BY <1>2 DEF LayersInvariant, JobIsNext
  <2> QED  BY <1>1, <1>7, <1>9, <1>10, <1>11, <1>15, <2>1 DEF JobIsNext
<1>21. VersionsKept' /\ SyncLoses'
  BY <1>1, <1>15 DEF LayersInvariant, VersionsKept, SyncLoses
<1>22. SentIsHeld'
  BY <1>1, <1>9, <1>15 DEF LayersInvariant, SentIsHeld
<1>23. SeedsRight(chain, Tracked)'
  BY <1>1, <1>15 DEF LayersInvariant
<1> QED  BY <1>16, <1>17, <1>19, <1>20, <1>21, <1>22, <1>23 DEF LayersInvariant

\* Of a job only the step changes.
LEMMA StepOnly ==
  ASSUME LayersInvariant, job.pc \notin {"idle", "begun"}, NEW p \in Steps \ {"begun"},
         job' = [job EXCEPT !.pc = p]
  PROVE  /\ job'.pc = p /\ job'.d = job.d /\ job'.on = job.on
         /\ job'.list = job.list /\ job'.block = job.block
         /\ DOMAIN job' = DOMAIN job
         /\ Forging' /\ Forging
         /\ JobTyped'
<1>1. /\ Forging /\ job.d \in Delegate /\ IsRow(job.on)
      /\ DOMAIN job = {"pc", "d", "on", "map", "list", "block"}
      /\ job.list \in Seq(Use) /\ IsSealed(job.block) /\ job.block.gen = job.d
  BY LayersForging
<1>2. /\ job'.pc = p /\ job'.d = job.d /\ job'.on = job.on
      /\ job'.list = job.list /\ job'.block = job.block
      /\ DOMAIN job' = DOMAIN job
  BY <1>1
<1>3. Forging'
  BY <1>2 DEF Forging, Idle, Steps
<1>4. JobTyped'
  BY <1>1, <1>2 DEF JobTyped
<1> QED  BY <1>1, <1>2, <1>3, <1>4

LEMMA RecordingKeepsLayers ==
  ASSUME LayersInvariant, SaveRecord
  PROVE  LayersInvariant'
<1>1. /\ job.pc = "created" /\ job' = [job EXCEPT !.pc = "recorded"]
      /\ UNCHANGED <<used, registered, onion, chain, finalized, syncFrom, broadcast, lost>>
  BY DEF SaveRecord
<1>2. /\ job'.pc = "recorded" /\ job'.d = job.d /\ job'.on = job.on
      /\ job'.list = job.list /\ job'.block = job.block
      /\ Forging' /\ Forging /\ JobTyped'
  BY <1>1, StepOnly DEF Steps
<1>3. Tracked' = Tracked /\ ~BlockStored /\ ~BlockStored'
  BY <1>1, <1>2 DEF Tracked, BlockStored
<1>4. RowsTyped'
  BY <1>1 DEF LayersInvariant, RowsTyped
<1>5. LayersKnown' /\ JobIsNext'
  BY <1>1, <1>2, <1>3 DEF LayersInvariant, LayersKnown, JobIsNext
<1>6. VersionsKept' /\ SyncLoses' /\ SentIsHeld'
  BY <1>1, <1>2, <1>3 DEF LayersInvariant, VersionsKept, SyncLoses, SentIsHeld
<1> QED  BY <1>1, <1>2, <1>3, <1>4, <1>5, <1>6 DEF LayersInvariant

LEMMA StoringKeepsLayers ==
  ASSUME LayersInvariant, SaveOnion
  PROVE  LayersInvariant'
<1>1. /\ job.pc = "recorded" /\ job' = [job EXCEPT !.pc = "kept"] /\ used' = job.list
      /\ UNCHANGED <<registered, onion, chain, finalized, syncFrom, broadcast, lost>>
  BY DEF SaveOnion
<1>2. /\ job'.pc = "kept" /\ job'.d = job.d /\ job'.on = job.on
      /\ job'.list = job.list /\ job'.block = job.block
      /\ Forging' /\ Forging /\ JobTyped'
  BY <1>1, StepOnly DEF Steps
<1>3. Tracked' = Tracked /\ BlockStored'
  BY <1>1, <1>2 DEF Tracked, BlockStored
<1>4. RowsTyped'
  <2>1. used' \in Seq(Use)
    BY <1>1, LayersForging
  <2> QED  BY <1>1, <2>1 DEF LayersInvariant, RowsTyped
<1>5. LayersKnown'
  <2>1. HasBlock(job.list, Tracked, chain, onion, job.block, Len(job.on) + 1)
    BY <1>1 DEF LayersInvariant, LayersKnown
  <2> QED  BY <1>1, <1>2, <1>3, <2>1 DEF LayersKnown
<1>6. JobIsNext'
  BY <1>1, <1>2, <1>3 DEF LayersInvariant, JobIsNext
<1>7. VersionsKept' /\ SyncLoses' /\ SentIsHeld'
  BY <1>1, <1>2, <1>3 DEF LayersInvariant, VersionsKept, SyncLoses, SentIsHeld
<1> QED  BY <1>1, <1>2, <1>3, <1>4, <1>5, <1>6, <1>7 DEF LayersInvariant

LEMMA ForgedRow ==
  ASSUME LayersInvariant, job.pc \notin {"idle", "begun"}
  PROVE  /\ IsRow(Forged) /\ Forged # <<>>
         /\ Len(job.on) \in Nat /\ Len(Forged) = Len(job.on) + 1
         /\ DOMAIN job.on = 1..Len(job.on) /\ DOMAIN Forged = 1..(Len(job.on) + 1)
         /\ \A i \in 1..Len(job.on) : Forged[i] = job.on[i]
         /\ Forged[Len(job.on) + 1] = job.block
<1>1. IsRow(job.on) /\ IsSealed(job.block)
  BY LayersForging
<1> QED  BY <1>1, RowAppend DEF Forged

LEMMA BroadcastingKeepsLayers ==
  ASSUME LayersInvariant, Broadcast
  PROVE  LayersInvariant'
<1>1. /\ job.pc = "kept" /\ job' = [job EXCEPT !.pc = "processing"] /\ chain = job.on
      /\ broadcast' = broadcast \cup {Forged}
      /\ UNCHANGED <<used, registered, onion, chain, finalized, syncFrom, lost>>
  BY DEF Broadcast, IsValidOnTip, forgerDb
<1>2. /\ job'.pc = "processing" /\ job'.d = job.d /\ job'.on = job.on
      /\ job'.list = job.list /\ job'.block = job.block
      /\ Forging' /\ Forging /\ JobTyped'
  BY <1>1, StepOnly DEF Steps
<1>3. Tracked' = Tracked /\ BlockStored' /\ BlockStored /\ Forged' = Forged
  BY <1>1, <1>2 DEF Tracked, BlockStored, Forged
<1>4. /\ IsRow(Forged) /\ Forged # <<>>
      /\ Len(job.on) \in Nat /\ Len(Forged) = Len(job.on) + 1
      /\ DOMAIN job.on = 1..Len(job.on) /\ DOMAIN Forged = 1..(Len(job.on) + 1)
      /\ \A i \in 1..Len(job.on) : Forged[i] = job.on[i]
  BY <1>1, ForgedRow
<1>5. RowsTyped'
  BY <1>1, <1>4 DEF LayersInvariant, RowsTyped
<1>6. LayersKnown' /\ JobIsNext'
  BY <1>1, <1>2, <1>3 DEF LayersInvariant, LayersKnown, JobIsNext, BlockStored
<1>7. VersionsKept' /\ SyncLoses'
  BY <1>1, <1>3 DEF LayersInvariant, VersionsKept, SyncLoses
<1>8. SentIsHeld'
  <2> SUFFICES ASSUME NEW c \in broadcast \cup {Forged}, NEW k \in DOMAIN c, c[k].gen \in Tracked
               PROVE  Agree(c, chain, k) \/ (c = Forged /\ k = Len(c))
    BY <1>1, <1>2, <1>3 DEF SentIsHeld
  <2>1. CASE c \in broadcast
    BY <1>1, <2>1 DEF LayersInvariant, SentIsHeld
  <2>2. CASE c = Forged
    <3>1. k \in 1..(Len(job.on) + 1)
      BY <1>4, <2>2
    <3>2. CASE k = Len(job.on) + 1
      BY <1>4, <2>2, <3>2
    <3>3. CASE k # Len(job.on) + 1
      <4>1. k \in 1..Len(job.on) /\ k <= Len(Forged)
        BY <1>4, <3>1, <3>3
      <4>2. \A i \in 1..k : i \in 1..Len(job.on)
        BY <1>4, <4>1
      <4> QED  BY <1>1, <1>4, <2>2, <4>1, <4>2 DEF Agree
    <3> QED  BY <3>2, <3>3
  <2> QED  BY <2>1, <2>2
<1> QED  BY <1>1, <1>2, <1>3, <1>5, <1>6, <1>7, <1>8 DEF LayersInvariant

\* The stored list knows the layers of a delegate whose block is not being
\* adopted.
LEMMA StoredKnows ==
  ASSUME LayersInvariant, NEW d \in Tracked, BlockStored => d # job.d
  PROVE  Knows(used, d, chain, onion[d])
<1>1. CASE BlockStored
  <2>1. HasBlock(used, Tracked, chain, onion, job.block, Len(job.on) + 1)
    BY <1>1 DEF LayersInvariant, LayersKnown
  <2>2. job.block.gen = job.d
    BY <1>1, LayersForging DEF BlockStored
  <2> QED  BY <1>1, <2>1, <2>2 DEF HasBlock
<1>2. CASE ~BlockStored
  BY <1>2 DEF LayersInvariant, LayersKnown
<1> QED  BY <1>1, <1>2

\* A block that is given up costs its delegate a layer.
LEMMA LosingKeepsLayers ==
  ASSUME LayersInvariant, BlockStored, job' = Idle, lost' = lost \cup {job.d},
         UNCHANGED <<used, registered, onion, chain, finalized, syncFrom, broadcast>>
  PROVE  LayersInvariant'
<1>1. PICK D : D = Tracked'
  OBVIOUS
<1>2. D \in SUBSET Tracked /\ job.d \notin D
  BY <1>1, FewerTracked DEF Tracked
<1>3. job'.pc = "idle" /\ ~Forging' /\ ~BlockStored'
  BY DEF Idle, Forging, BlockStored
<1>4. RowsTyped' /\ JobTyped' /\ JobIsNext'
  BY <1>3 DEF LayersInvariant, RowsTyped, JobTyped, JobIsNext
<1>5. LayersKnown'
  <2>1. \A d \in D : Knows(used, d, chain, onion[d])
    BY <1>2, StoredKnows
  <2> QED  BY <1>1, <1>3, <2>1 DEF LayersKnown
<1>6. VersionsKept'
  <2>1. VersionsRight(chain, D, onion) /\ \A d \in D : registered[d] \in {0, onion[d]}
    BY <1>2 DEF LayersInvariant, VersionsKept, VersionsRight
  <2>2. \/ \A d \in Delegate : registered[d] = 0
        \/ \A d \in Delegate : registered[d] \in 1..onion[d]
    BY DEF LayersInvariant, VersionsKept
  <2> QED  BY <1>1, <2>1, <2>2 DEF VersionsKept
<1>7. SentIsHeld'
  <2>1. ASSUME NEW c \in broadcast, NEW k \in DOMAIN c, c[k].gen \in D
        PROVE  Agree(c, chain, k)
    <3>1. \/ Agree(c, chain, k)
          \/ job.pc = "processing" /\ c = Forged /\ k = Len(c)
      BY <1>2, <2>1 DEF LayersInvariant, SentIsHeld
    <3>2. c = Forged /\ k = Len(c) => c[k].gen = job.d
      <4>1. Forged[Len(job.on) + 1] = job.block /\ Len(Forged) = Len(job.on) + 1
        BY ForgedRow DEF BlockStored
      <4>2. job.block.gen = job.d
        BY LayersForging DEF BlockStored
      <4> QED  BY <4>1, <4>2
    <3> QED  BY <1>2, <2>1, <3>1, <3>2
  <2> QED  BY <1>1, <2>1 DEF SentIsHeld
<1>8. SyncLoses'
  <2>1. syncFrom # Idle =>
          /\ Agree(syncFrom.old, chain, syncFrom.common)
          /\ \A h \in DOMAIN syncFrom.old : h > syncFrom.common => syncFrom.old[h].gen \notin D
    BY <1>2 DEF LayersInvariant, SyncLoses
  <2> QED  BY <1>1, <2>1 DEF SyncLoses
<1>9. SeedsRight(chain, D)
  <2>1. SeedsRight(chain, Tracked)
    BY DEF LayersInvariant
  <2> QED  BY <1>2, <2>1 DEF SeedsRight
<1> QED  BY <1>1, <1>4, <1>5, <1>6, <1>7, <1>8, <1>9 DEF LayersInvariant

LEMMA DiscardingKeepsLayers ==
  ASSUME LayersInvariant, DiscardBlock
  PROVE  LayersInvariant'
  BY LosingKeepsLayers DEF DiscardBlock, BlockStored, forgerDb

LEMMA FailureKeepsLayers ==
  ASSUME LayersInvariant, ApplyFails
  PROVE  LayersInvariant'
  BY LosingKeepsLayers DEF ApplyFails, BlockStored, forgerDb

LEMMA AdoptingKeepsLayers ==
  ASSUME LayersInvariant, Adopt
  PROVE  LayersInvariant'
<1>1. /\ job.pc = "processing" /\ chain' = Forged /\ job' = Idle
      /\ UNCHANGED <<used, registered, onion, finalized, syncFrom, broadcast, lost>>
  BY DEF Adopt, forgerDb
<1>2. chain = job.on
  BY <1>1 DEF LayersInvariant, JobIsNext
<1>3. PICK n, b, d : n = Len(chain) + 1 /\ b = job.block /\ d = job.d
  OBVIOUS
<1>4. /\ IsRow(chain') /\ chain' # <<>> /\ Len(chain) \in Nat /\ n \in Nat
      /\ n = Len(chain) + 1 /\ Len(chain) < n /\ Len(chain') = n
      /\ DOMAIN chain = 1..Len(chain) /\ DOMAIN chain' = 1..n
      /\ \A i \in 1..Len(chain) : chain'[i] = chain[i]
      /\ chain'[n] = b
  BY <1>1, <1>2, <1>3, ForgedRow
<1>5. \A h \in 1..n : h \in 1..Len(chain) \/ h = n
  BY <1>4
<1>6. Forging /\ d \in Delegate /\ IsSealed(b) /\ b.gen = d
  BY <1>1, <1>3, LayersForging
<1>7. job'.pc = "idle" /\ ~Forging' /\ ~BlockStored' /\ Tracked' = Tracked /\ BlockStored
  BY <1>1 DEF Idle, Forging, BlockStored, Tracked
<1>8. HasBlock(used, Tracked, chain, onion, b, n)
  BY <1>1, <1>2, <1>3 DEF LayersInvariant, LayersKnown, BlockStored
<1>9. RowsTyped' /\ JobTyped' /\ JobIsNext'
  BY <1>1, <1>4, <1>7 DEF LayersInvariant, RowsTyped, JobTyped, JobIsNext
<1>10. Agree(chain, chain', Len(chain))
  BY <1>4 DEF Agree
<1>11. \A e \in Tracked \ {d} : SameOwn(chain, chain', e)
  <2> SUFFICES ASSUME NEW e \in Tracked \ {d} PROVE SameOwn(chain, chain', e)
    OBVIOUS
  <2>1. \A h \in DOMAIN chain : h \in DOMAIN chain' /\ chain'[h] = chain[h]
    BY <1>4
  <2>2. \A h \in DOMAIN chain' : chain'[h].gen = e => h \in DOMAIN chain /\ chain[h] = chain'[h]
    BY <1>4, <1>5, <1>6
  <2> QED  BY <2>1, <2>2 DEF SameOwn
<1>12. LayersKnown'
  <2> SUFFICES ASSUME NEW e \in Tracked PROVE Knows(used, e, chain', onion[e])
    BY <1>1, <1>7 DEF LayersKnown
  <2>1. CASE e = d
    <3>1. HasTop(used, d, n, b.seed)
      BY <1>6, <1>8, <2>1 DEF HasBlock
    <3>2. n \in DOMAIN chain' /\ chain'[n].gen = d
      BY <1>4, <1>6
    <3>3. ASSUME NEW h, LastOwn(chain', d, h) PROVE h = n
      <4>1. h \in 1..n /\ n <= h
        BY <1>4, <3>2, <3>3 DEF LastOwn
      <4> QED  BY <1>4, <4>1
    <3> QED  BY <1>4, <2>1, <3>1, <3>2, <3>3 DEF Knows
  <2>2. CASE e # d
    <3>1. Knows(used, e, chain, onion[e])
      BY <1>6, <1>8, <2>2 DEF HasBlock
    <3> QED  BY <1>11, <2>2, <3>1, KnowsMoved
  <2> QED  BY <2>1, <2>2
<1>13. VersionsKept'
  <2>1. VersionsRight(chain', Tracked, onion)
    <3> SUFFICES ASSUME NEW h \in 1..n, chain'[h].gen \in Tracked
                 PROVE  chain'[h].version <= onion[chain'[h].gen]
      BY <1>4 DEF VersionsRight
    <3>1. CASE h \in 1..Len(chain)
      BY <1>4, <3>1 DEF LayersInvariant, VersionsKept, VersionsRight
    <3>2. CASE h = n
      <4>1. b.version \in {0, onion[d]} /\ onion[d] \in Nat
        BY <1>1, <1>3, <1>6 DEF LayersInvariant, JobIsNext, RowsTyped
      <4> QED  BY <1>4, <1>6, <3>2, <4>1
    <3> QED  BY <1>5, <3>1, <3>2
  <2>2. /\ \/ \A e \in Delegate : registered[e] = 0
           \/ \A e \in Delegate : registered[e] \in 1..onion[e]
        /\ \A e \in Tracked : registered[e] \in {0, onion[e]}
    BY DEF LayersInvariant, VersionsKept
  <2> QED  BY <1>1, <1>7, <2>1, <2>2 DEF VersionsKept
<1>14. SentIsHeld'
  <2> SUFFICES ASSUME NEW c \in broadcast, NEW k \in DOMAIN c, c[k].gen \in Tracked
               PROVE  Agree(c, chain', k)
    BY <1>1, <1>7 DEF SentIsHeld
  <2>1. CASE Agree(c, chain, k)
    <3>1. IsSeq(c) /\ IsSeq(chain) /\ IsSeq(chain')
      BY <1>4 DEF LayersInvariant, RowsTyped, IsRow
    <3>2. k \in Nat /\ k <= Len(chain)
      BY <2>1, <3>1, SeqIs DEF Agree
    <3> QED  BY <1>4, <1>10, <2>1, <3>1, <3>2, AgreeMore
  <2>2. CASE c = Forged /\ k = Len(c)
    BY <1>1, <1>4, <2>2, RowIs
  <2> QED  BY <2>1, <2>2 DEF LayersInvariant, SentIsHeld
<1>15. SyncLoses'
  <2> SUFFICES ASSUME syncFrom # Idle
               PROVE  /\ Agree(syncFrom.old, chain', syncFrom.common)
                      /\ \A h \in DOMAIN syncFrom.old :
                           h > syncFrom.common => syncFrom.old[h].gen \notin Tracked
    BY <1>1, <1>7 DEF SyncLoses
  <2>1. /\ Agree(syncFrom.old, chain, syncFrom.common)
        /\ \A h \in DOMAIN syncFrom.old :
             h > syncFrom.common => syncFrom.old[h].gen \notin Tracked
    BY DEF LayersInvariant, SyncLoses
  <2>2. syncFrom.common \in Nat /\ syncFrom.common <= Len(chain)
    BY <2>1 DEF LayersInvariant, RowsTyped, Agree
  <2>3. IsSeq(chain) /\ IsSeq(chain')
    BY <1>4 DEF LayersInvariant, RowsTyped, IsRow
  <2>4. Agree(syncFrom.old, chain', syncFrom.common)
    BY <1>4, <1>10, <2>1, <2>2, <2>3, AgreeMore
  <2> QED  BY <2>1, <2>4
<1>16. SeedsRight(chain', Tracked)
  <2> SUFFICES ASSUME NEW i \in 1..n, NEW j \in 1..n,
                      i < j, chain'[i].gen = chain'[j].gen, chain'[i].gen \in Tracked,
                      \A k \in (i + 1)..(j - 1) : chain'[k].gen # chain'[i].gen,
                      chain'[i].version = chain'[j].version, chain'[i].version # 0
               PROVE  chain'[j].seed = chain'[i].seed + 1
    BY <1>4 DEF SeedsRight
  <2>1. i \in 1..Len(chain) /\ chain'[i] = chain[i]
    BY <1>4
  <2>2. CASE j \in 1..Len(chain)
    <3>1. chain'[j] = chain[j]
      BY <1>4, <2>2
    <3>2. \A k \in (i + 1)..(j - 1) : chain[k].gen # chain[i].gen
      <4> SUFFICES ASSUME NEW k \in (i + 1)..(j - 1) PROVE chain[k].gen # chain[i].gen
        OBVIOUS
      <4>1. k \in 1..Len(chain)
        BY <1>4, <2>1, <2>2
      <4> QED  BY <1>4, <2>1, <4>1
    <3>3. SeedsRight(chain, Tracked)
      BY DEF LayersInvariant
    <3> QED  BY <1>4, <2>1, <2>2, <3>1, <3>2, <3>3 DEF SeedsRight
  <2>3. CASE j = n
    <3>1. chain'[j] = b /\ chain[i].gen = d /\ d \in Tracked
      BY <1>4, <1>6, <2>1, <2>3
    <3>2. ASSUME NEW k \in DOMAIN chain, chain[k].gen = d PROVE k <= i
      <4>1. k \in 1..Len(chain) /\ chain'[k].gen = d
        BY <1>4, <3>2
      <4>2. ~(k \in (i + 1)..(j - 1))
        BY <2>1, <3>1, <4>1
      <4> QED  BY <1>4, <2>3, <4>1, <4>2
    <3>3. LastOwn(chain, d, i)
      BY <1>4, <2>1, <3>1, <3>2 DEF LastOwn
    <3>4. Follows(chain, b)
      BY <1>6, <1>8, <3>1 DEF HasBlock
    <3> QED  BY <1>6, <2>1, <3>1, <3>3, <3>4 DEF Follows
  <2> QED  BY <1>5, <2>2, <2>3
<1> QED  BY <1>7, <1>9, <1>12, <1>13, <1>14, <1>15, <1>16 DEF LayersInvariant

-----------------------------------------------------------------------------
(* The start of the node.                                                  *)

\* A list that keeps all uses of a delegate knows what it knew.
LEMMA KeptKnows ==
  ASSUME NEW list \in Seq(Use), NEW kept \in Seq(Use), NEW d, NEW c, IsSeq(c), NEW version,
         Knows(list, d, c, version), Part(kept, list, d), Part(list, kept, d)
  PROVE  Knows(kept, d, c, version)
<1>1. Unused(list, d) => Unused(kept, d)
  BY PartOfUnused
<1>2. \A n \in Nat : \A layer : HasTop(list, d, n, layer) => HasTop(kept, d, n, layer)
  BY SamePartSameTop
<1> QED  BY <1>1, <1>2, KnowsKept

\* What is known of a delegate is still true when it gets a new onion, whose
\* version no block on the chain has; also if its uses were dropped.
LEMMA KnowsOfNewOnion ==
  ASSUME NEW list, NEW d, NEW c, NEW old, NEW version,
         \A h \in DOMAIN c : c[h].gen = d => c[h].version # version
  PROVE  /\ Knows(list, d, c, old) => Knows(list, d, c, version)
         /\ Unused(list, d) => Knows(list, d, c, version)
  BY DEF Knows, LastOwn

LEMMA RestartingMovesChain ==
  ASSUME LayersInvariant, NEW force, NEW renew, Restart(force, renew)
  PROVE  /\ lost \subseteq lost'
         /\ IsRow(chain')
         /\ \E n \in Nat : Apart(chain, chain', n, Tracked')
<1>1. /\ chain' \in RestoredChains
      /\ lost \subseteq lost'
      /\ syncFrom # Idle => OwnersOf(chain, syncFrom.common) \subseteq lost'
  BY DEF Restart
<1>2. IsRow(chain) /\ Len(chain) \in Nat /\ DOMAIN chain = 1..Len(chain)
  BY RowIs DEF LayersInvariant, RowsTyped
<1>3. Agree(chain, chain, Len(chain)) /\ \A h \in DOMAIN chain : ~(h > Len(chain))
  BY <1>2, RowIs
<1>4. CASE chain' = chain
  BY <1>1, <1>2, <1>3, <1>4 DEF Apart
<1>5. CASE chain' # chain
  <2>1. syncFrom # Idle /\ chain' = syncFrom.old
    BY <1>1, <1>5 DEF RestoredChains
  <2>2. PICK n : n = syncFrom.common
    OBVIOUS
  <2>3. /\ IsRow(chain') /\ n \in Nat /\ Agree(chain', chain, n)
        /\ \A h \in DOMAIN chain' : h > n => chain'[h].gen \notin Tracked
    BY <2>1, <2>2 DEF LayersInvariant, RowsTyped, SyncLoses
  <2>4. Tracked' \subseteq Tracked
    BY <1>1, FewerTracked
  <2>5. \A h \in DOMAIN chain : h > n => chain[h].gen \notin Tracked'
    BY <1>1, <1>2, <2>1, <2>2, <2>3, OwnersAre
  <2>6. Apart(chain, chain', n, Tracked')
    BY <2>3, <2>4, <2>5 DEF Apart, Agree
  <2> QED  BY <1>1, <2>3, <2>6
<1> QED  BY <1>4, <1>5

\* What the start does to the two tables: nothing, or it drops the uses of
\* old onions and registers the new ones.
LEMMA LoadingIs ==
  ASSUME LayersInvariant, NEW force, NEW version, LoadDelegates(force, version)
  PROVE  \/ ~force /\ used' = used /\ registered' = registered
         \/ /\ used' = used /\ registered' = registered
            /\ \E d \in Delegate : ~Unused(KeptUses(version, used), d)
         \/ used' = KeptUses(version, used) /\ registered' = version
<1>1. CASE ~force
  BY <1>1 DEF LoadDelegates
<1>2. CASE force /\ ~(\E d \in Delegate : HighestCount(d, KeptUses(version, used)) >= OnionCount)
  BY <1>2 DEF LoadDelegates
<1>3. CASE force /\ \E d \in Delegate : HighestCount(d, KeptUses(version, used)) >= OnionCount
  <2>1. PICK d \in Delegate : HighestCount(d, KeptUses(version, used)) >= OnionCount
    BY <1>3
  <2>2. OnionCount \in Nat
    BY ForgerAssumption
  <2>3. ~(-1 >= OnionCount)
    BY <2>2
  <2>4. ~Unused(KeptUses(version, used), d)
    BY <2>1, <2>3, CountOfUnused
  <2>5. used' = used /\ registered' = registered
    BY <1>3 DEF LoadDelegates
  <2> QED  BY <2>4, <2>5
<1> QED  BY <1>1, <1>2, <1>3

LEMMA RestartingKeepsLayers ==
  ASSUME LayersInvariant, NEW force \in BOOLEAN, NEW renew \in BOOLEAN, Restart(force, renew)
  PROVE  LayersInvariant'
<1>1. /\ onion' = IF renew THEN [d \in Delegate |-> onion[d] + 1] ELSE onion
      /\ LoadDelegates(force, onion')
      /\ job' = Idle /\ syncFrom' = Idle
      /\ BlockStored => job.d \in lost'
      /\ renew /\ ~force => Delegate \subseteq lost'
      /\ UNCHANGED <<finalized, broadcast>>
  BY DEF Restart, BlockStored
<1>2. PICK D : D = Tracked'
  OBVIOUS
<1>3. PICK n \in Nat : Apart(chain, chain', n, D)
  BY <1>2, RestartingMovesChain
<1>4. IsRow(chain') /\ IsSeq(chain') /\ IsRow(chain) /\ IsSeq(chain)
  BY RestartingMovesChain, RowIs DEF LayersInvariant, RowsTyped
<1>5. D \in SUBSET Tracked /\ D \subseteq Delegate /\ (BlockStored => job.d \notin D)
  BY <1>1, <1>2, RestartingMovesChain, FewerTracked DEF Tracked
<1>6. \A d \in D : SameOwn(chain, chain', d)
  BY <1>3, <1>4, ApartIsSame
<1>7. job'.pc = "idle" /\ ~Forging' /\ ~BlockStored'
  BY <1>1 DEF Idle, Forging, BlockStored
<1>8. PICK version : version = onion'
  OBVIOUS
<1>9. PICK kept : kept = KeptUses(version, used)
  OBVIOUS
<1>10. /\ used \in Seq(Use)
       /\ \A d \in Delegate : onion[d] \in Nat \ {0} /\ registered[d] \in Nat
       /\ \A d \in Delegate : version[d] = IF renew THEN onion[d] + 1 ELSE onion[d]
       /\ renew => D = {}  \/ force
  BY <1>1, <1>2, <1>8 DEF LayersInvariant, RowsTyped, Tracked
<1>11. /\ kept \in Seq(Use)
       /\ \A d : Part(kept, used, d)
       /\ \A d : registered[d] \in {0, version[d]} => Part(used, kept, d)
       /\ \A d : registered[d] \notin {0, version[d]} => Unused(kept, d)
  BY <1>9, <1>10, KeptAre
<1>12. \/ ~force /\ used' = used /\ registered' = registered
       \/ /\ used' = used /\ registered' = registered
          /\ \E d \in Delegate : ~Unused(kept, d)
       \/ used' = kept /\ registered' = version
  BY <1>1, <1>8, <1>9, LoadingIs
<1>13. /\ \/ \A d \in Delegate : registered[d] = 0
          \/ \A d \in Delegate : registered[d] \in 1..onion[d]
       /\ \A d \in D : registered[d] \in {0, onion[d]}
       /\ VersionsRight(chain', D, onion)
  <2>1. VersionsRight(chain', D, onion)
    BY <1>5, <1>6, VersionsMoved DEF LayersInvariant, VersionsKept
  <2> QED  BY <1>5, <2>1 DEF LayersInvariant, VersionsKept
<1>14. \A d \in Delegate : version[d] \in Nat \ {0} /\ onion[d] <= version[d]
  BY <1>10
<1>15. RowsTyped'
  <2>1. used' \in Seq(Use)
    BY <1>10, <1>11, <1>12
  <2>2. \A d \in Delegate : registered'[d] \in Nat
    BY <1>10, <1>12, <1>14
  <2>3. \A c \in broadcast : IsRow(c) /\ c # <<>>
    BY DEF LayersInvariant, RowsTyped
  <2>4. finalized \in Nat
    BY DEF LayersInvariant, RowsTyped
  <2> QED  BY <1>1, <1>4, <1>8, <1>14, <2>1, <2>2, <2>3, <2>4 DEF RowsTyped
<1>16. JobTyped' /\ JobIsNext' /\ SyncLoses'
  BY <1>1, <1>7 DEF JobTyped, JobIsNext, SyncLoses
<1>17. LayersKnown'
  <2> SUFFICES ASSUME NEW d \in D PROVE Knows(used', d, chain', version[d])
    BY <1>2, <1>7, <1>8 DEF LayersKnown
  <2>1. Knows(used, d, chain', onion[d])
    <3>1. Knows(used, d, chain, onion[d])
      BY <1>5, StoredKnows
    <3> QED  BY <1>6, <3>1, KnowsMoved
  <2>2. CASE ~renew
    <3>1. version[d] = onion[d] /\ registered[d] \in {0, version[d]}
      BY <1>5, <1>10, <1>13, <2>2
    <3>2. Knows(kept, d, chain', onion[d])
      BY <1>4, <1>10, <1>11, <2>1, <3>1, KeptKnows
    <3> QED  BY <1>12, <2>1, <3>1, <3>2
  <2>3. CASE renew
    <3>1. version[d] = onion[d] + 1 /\ onion[d] \in Nat \ {0} /\ registered[d] \in Nat
      BY <1>5, <1>10, <2>3
    <3>2. \A h \in DOMAIN chain' : chain'[h].gen = d => chain'[h].version # version[d]
      <4> SUFFICES ASSUME NEW h \in DOMAIN chain', chain'[h].gen = d PROVE chain'[h].version # version[d]
        OBVIOUS
      <4>1. chain'[h].version <= onion[d]
        BY <1>13 DEF VersionsRight
      <4>2. chain'[h].version \in Nat
        BY <1>4 DEF IsRow, IsSealed
      <4> QED  BY <3>1, <4>1, <4>2
    <3>3. Knows(used, d, chain', version[d])
      BY <2>1, <3>2, KnowsOfNewOnion
    <3>4. Knows(kept, d, chain', version[d])
      <4>1. CASE registered[d] \in {0, version[d]}
        <5>1. Part(used, kept, d) /\ Part(kept, used, d)
          BY <1>11, <4>1
        <5> QED  BY <1>4, <1>10, <1>11, <3>3, <5>1, KeptKnows
      <4>2. CASE registered[d] \notin {0, version[d]}
        <5>1. Unused(kept, d)
          BY <1>11, <4>2
        <5> QED  BY <3>2, <5>1, KnowsOfNewOnion
      <4> QED  BY <4>1, <4>2
    <3> QED  BY <1>12, <3>3, <3>4
  <2> QED  BY <2>2, <2>3
<1>18. VersionsKept'
  <2>1. VersionsRight(chain', D, version)
    <3> SUFFICES ASSUME NEW h \in DOMAIN chain', chain'[h].gen \in D
                 PROVE  chain'[h].version <= version[chain'[h].gen]
      BY DEF VersionsRight
    <3>1. PICK d \in D : d = chain'[h].gen
      OBVIOUS
    <3>2. chain'[h].version <= onion[d] /\ chain'[h].version \in Nat
      BY <1>4, <1>13, <3>1 DEF VersionsRight, IsRow, IsSealed
    <3>3. onion[d] <= version[d] /\ onion[d] \in Nat /\ version[d] \in Nat
      BY <1>5, <1>10, <1>14
    <3> QED  BY <3>1, <3>2, <3>3
  <2>2. \/ \A d \in Delegate : registered'[d] = 0
        \/ \A d \in Delegate : registered'[d] \in 1..version[d]
    <3>1. CASE registered' = registered
      <4>1. ASSUME NEW d \in Delegate, registered[d] \in 1..onion[d] PROVE registered[d] \in 1..version[d]
        BY <1>10, <1>14, <4>1
      <4> QED  BY <1>13, <3>1, <4>1
    <3>2. CASE registered' = version
      BY <1>14, <3>2
    <3> QED  BY <1>12, <3>1, <3>2
  <2>3. ASSUME NEW d \in D PROVE registered'[d] \in {0, version[d]}
    <3>1. CASE registered' = version
      BY <3>1
    <3>2. CASE ~renew /\ registered' = registered
      BY <1>5, <1>10, <1>13, <2>3, <3>2
    <3>3. CASE renew /\ registered' = registered /\ \E e \in Delegate : ~Unused(kept, e)
      <4>1. PICK e \in Delegate : ~Unused(kept, e)
        BY <3>3
      <4>2. registered[e] \in {0, version[e]}
        BY <1>11, <4>1
      <4>3. version[e] = onion[e] + 1 /\ onion[e] \in Nat
        BY <1>10, <3>3
      <4>4. ~(registered[e] \in 1..onion[e])
        BY <4>2, <4>3
      <4>5. \A x \in Delegate : registered[x] = 0
        BY <1>13, <4>4
      <4> QED  BY <1>5, <2>3, <3>3, <4>5
    <3> QED  BY <1>10, <1>12, <2>3, <3>1, <3>2, <3>3
  <2> QED  BY <1>2, <1>8, <2>1, <2>2, <2>3 DEF VersionsKept
<1>19. SentIsHeld'
  <2> SUFFICES ASSUME NEW c \in broadcast, NEW k \in DOMAIN c, c[k].gen \in D
               PROVE  Agree(c, chain', k)
    BY <1>1, <1>2 DEF SentIsHeld
  <2>1. \/ Agree(c, chain, k)
        \/ job.pc = "processing" /\ c = Forged /\ k = Len(c)
    BY <1>5 DEF LayersInvariant, SentIsHeld
  <2>2. ~(job.pc = "processing" /\ c = Forged /\ k = Len(c))
    <3> SUFFICES ASSUME job.pc = "processing", c = Forged, k = Len(c) PROVE FALSE
      OBVIOUS
    <3>1. Forged[Len(job.on) + 1] = job.block /\ Len(Forged) = Len(job.on) + 1
      BY ForgedRow
    <3>2. job.block.gen = job.d
      BY LayersForging
    <3>3. job.d \notin D
      BY <1>5 DEF BlockStored
    <3> QED  BY <3>1, <3>2, <3>3
  <2>3. IsSeq(c)
    BY DEF LayersInvariant, RowsTyped, IsRow
  <2>4. Agree(c, chain, k)
    BY <2>1, <2>2
  <2>5. k \in Nat /\ k >= 1 /\ k <= Len(chain) /\ chain[k] = c[k]
    BY <2>3, <2>4, SeqIs DEF Agree
  <2>6. k \in DOMAIN chain
    BY <1>4, <2>5, SeqIs
  <2>7. ~(k > n)
    BY <1>3, <2>5, <2>6 DEF Apart
  <2>8. Agree(chain, chain', n) /\ k <= n
    BY <1>3, <2>5, <2>7 DEF Apart
  <2> QED  BY <1>4, <2>3, <2>4, <2>5, <2>8, AgreeMore
<1>20. SeedsRight(chain', D)
  <2>1. SeedsRight(chain, Tracked)
    BY DEF LayersInvariant
  <2> QED  BY <1>4, <1>5, <1>6, <2>1, SeedsMoved
<1> QED  BY <1>2, <1>15, <1>16, <1>17, <1>18, <1>19, <1>20 DEF LayersInvariant

-----------------------------------------------------------------------------
LEMMA LayersAtFirst == ForgerInit => LayersInvariant
<1> SUFFICES ASSUME ForgerInit PROVE LayersInvariant
  OBVIOUS
<1>1. /\ used = <<>> /\ onion = [d \in Delegate |-> 1]
      /\ registered = onion \/ registered = [d \in Delegate |-> 0]
      /\ job = Idle /\ chain = FirstChain /\ finalized = 0 /\ syncFrom = Idle
      /\ broadcast = {} /\ lost = {}
  BY DEF ForgerInit
<1>2. job.pc = "idle" /\ ~Forging /\ ~BlockStored
  BY <1>1 DEF Idle, Forging, BlockStored
<1>3. IsRow(chain) /\ \A h \in DOMAIN chain : chain[h].gen = Stranger
  <2>1. IsSeq(FirstChain)
    BY FirstChainIs DEF IsChain
  <2>2. FirstPrevoted \in Seq(Nat)
    BY ForgerAssumption
  <2>3. PICK l \in Nat : DOMAIN FirstPrevoted = 1..l /\ \A h \in 1..l : FirstPrevoted[h] \in Nat
    BY <2>2
  <2>4. ASSUME NEW h \in DOMAIN FirstChain
        PROVE  IsSealed(FirstChain[h]) /\ FirstChain[h].gen = Stranger
    <3>1. h \in 1..l
      BY <2>3 DEF FirstChain
    <3>2. PICK mhp, next : /\ mhp = IF h = 1 THEN 0 ELSE FirstPrevoted[h - 1]
                           /\ next = FirstPrevoted[h]
      OBVIOUS
    <3>3. mhp \in Nat /\ next \in Nat
      <4>1. CASE h = 1
        BY <2>3, <3>1, <3>2, <4>1
      <4>2. CASE h # 1
        <5>1. h - 1 \in 1..l
          BY <3>1, <4>2
        <5> QED  BY <2>3, <3>1, <3>2, <4>2, <5>1
      <4> QED  BY <4>1, <4>2
    <3>4. FirstChain[h] = [Genesis EXCEPT !.mhp = mhp, !.next = next]
      BY <2>3, <3>1, <3>2 DEF FirstChain
    <3> QED  BY <3>3, <3>4 DEF Genesis, IsSealed
  <2> QED  BY <1>1, <2>1, <2>4 DEF IsRow
<1>4. used \in Seq(Use) /\ \A d : Unused(used, d)
  BY <1>1 DEF Unused
<1>5. \A d \in Delegate : onion[d] = 1
  BY <1>1
<1>6. RowsTyped
  <2>1. \A d \in Delegate : registered[d] \in Nat
    BY <1>1
  <2> QED  BY <1>1, <1>3, <1>4, <1>5, <2>1 DEF RowsTyped
<1>7. JobTyped /\ JobIsNext /\ SyncLoses /\ SentIsHeld
  BY <1>1, <1>2 DEF JobTyped, JobIsNext, SyncLoses, SentIsHeld
<1>8. \A h \in DOMAIN chain : chain[h].gen \notin Tracked
  BY <1>3, NotTracked
<1>9. LayersKnown
  <2>1. \A d \in Tracked : Knows(used, d, chain, onion[d])
    BY <1>4, <1>8 DEF Knows, LastOwn
  <2> QED  BY <1>2, <2>1 DEF LayersKnown
<1>10. VersionsKept
  <2>1. VersionsRight(chain, Tracked, onion)
    BY <1>8 DEF VersionsRight
  <2>2. /\ \/ \A d \in Delegate : registered[d] = 0
           \/ \A d \in Delegate : registered[d] \in 1..onion[d]
        /\ \A d \in Delegate : registered[d] \in {0, onion[d]}
    BY <1>1, <1>5
  <2> QED  BY <2>1, <2>2 DEF VersionsKept, Tracked
<1>11. SeedsRight(chain, Tracked)
  BY <1>8 DEF SeedsRight
<1> QED  BY <1>6, <1>7, <1>9, <1>10, <1>11 DEF LayersInvariant

LEMMA LayersStep ==
  ASSUME LayersInvariant, [ForgerNext]_forgerVars
  PROVE  LayersInvariant'
<1>1. CASE UNCHANGED forgerVars
  BY <1>1, UnmovedKeepsLayers DEF forgerVars
<1>2. CASE \E d \in Delegate : ForgeBegin(d)
  BY <1>2, ForgingKeepsLayers
<1>3. CASE \E d \in Delegate : Disable(d)
  BY <1>3, UnmovedKeepsLayers DEF Disable, forgerDb
<1>4. CASE Create
  BY <1>4, CreatingKeepsLayers
<1>5. CASE SaveRecord
  BY <1>5, RecordingKeepsLayers
<1>6. CASE SaveOnion
  BY <1>6, StoringKeepsLayers
<1>7. CASE Broadcast
  BY <1>7, BroadcastingKeepsLayers
<1>8. CASE DiscardBlock
  BY <1>8, DiscardingKeepsLayers
<1>9. CASE Adopt
  BY <1>9, AdoptingKeepsLayers
<1>10. CASE ApplyFails
  BY <1>10, FailureKeepsLayers
<1>11. CASE \E d \in Delegate, overwrite \in BOOLEAN : EnableBegin(d, overwrite)
  BY <1>11, UnmovedKeepsLayers DEF EnableBegin, forgerDb
<1>12. CASE EnableEnd
  BY <1>12, UnmovedKeepsLayers DEF EnableEnd
<1>13. CASE ReceiveBlock
  BY <1>13, ReceivingKeepsLayers
<1>14. CASE Finalize
  BY <1>14, FinalizingKeepsLayers
<1>15. CASE SyncBegin
  BY <1>15, SyncBeginningKeepsLayers
<1>16. CASE SyncDone
  BY <1>16, SyncEndKeepsLayers
<1>17. CASE SyncFails
  BY <1>17, SyncFailureKeepsLayers
<1>18. CASE \E force, renew \in BOOLEAN : Restart(force, renew)
  BY <1>18, RestartingKeepsLayers
<1> QED  BY <1>1, <1>2, <1>3, <1>4, <1>5, <1>6, <1>7, <1>8, <1>9, <1>10, <1>11, <1>12,
            <1>13, <1>14, <1>15, <1>16, <1>17, <1>18 DEF ForgerNext

\* Whatever is forged, received, synchronized, switched on or off, and however
\* often the node crashes and starts with new onions: as long as none of a
\* delegate's blocks was lost, each reveals the layer after the one before it
\* (SeedsFollow), also if a status update runs while a block is forged
\* (forger.ts _getNextHashOnion, _filterUsedHashOnions, loadDelegates).
THEOREM SeedsStayInOrder == ForgerSpec => []SeedsFollow
<1>1. ForgerSpec => []LayersInvariant
  <2>1. LayersInvariant /\ [ForgerNext]_forgerVars => LayersInvariant'
    BY LayersStep
  <2> QED  BY <2>1, LayersAtFirst, PTL DEF ForgerSpec
<1>2. LayersInvariant => SeedsFollow
  BY SeedsRightIsFollow
<1> QED  BY <1>1, <1>2, PTL
=============================================================================
