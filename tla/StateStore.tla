------------------------------ MODULE StateStore ----------------------------
(***************************************************************************)
(* elements/lisk-chain/src/state_store: the accounts and the consensus and *)
(* chain state a block reads and writes before it is saved, and the diff   *)
(* that undoes it. While a block is executed, values are cached; finalize  *)
(* writes the changed ones in one batch together with the diff, deleteBlock*)
(* takes the diff back.                                                    *)
(*                                                                         *)
(* An account or a state entry is one value of a small set. want and past  *)
(* are history: what the operations of the block ask for, and the database *)
(* below each block.                                                       *)
(***************************************************************************)
EXTENDS Integers, Sequences

CONSTANTS
  Account,          \* addresses (AccountStore)
  StateKey,         \* keys of ChainStateStore and ConsensusStateStore
  FinalizedKey,     \* CONSENSUS_STATE_FINALIZED_HEIGHT_KEY
  Value,            \* encoded values
  Default,          \* the default account
  None,             \* no value
  MaxHeight,        \* bound on the blocks
  BlindWrites,      \* may a module set what it has not read?
  ReadsDeleted      \* may a module read an account deleted in its block?

Key == Account \cup StateKey \cup {FinalizedKey}

ASSUME StateStoreAssumption ==
  /\ Account \cap StateKey = {}
  /\ FinalizedKey \notin Account \cup StateKey
  /\ Default \in Value /\ None \notin Value
  /\ MaxHeight \in Nat
  /\ BlindWrites \in BOOLEAN /\ ReadsDeleted \in BOOLEAN

VARIABLES
  db,               \* the database
  diffs,            \* the stored diffs, one for each block
  executing,        \* is there a block under way?
  cache,            \* _data, _updatedKeys and _deletedKeys
  initial,          \* _initialAccountValue, _initialValue
  original,         \* the cache at the last createSnapshot
  snapshot,         \* is there a snapshot to go back to?
  want, wantOriginal, past

storeVars == <<executing, cache, initial, original, snapshot, want, wantOriginal>>
vars == <<db, diffs, executing, cache, initial, original, snapshot, want,
          wantOriginal, past>>

NoValues == [k \in Key |-> None]

EmptyCache == [data |-> NoValues, updated |-> {}, deleted |-> {}]

Height == Len(diffs)

\* The database may hold whatever the genesis block and earlier blocks left.
Init ==
  /\ db \in [Key -> Value \cup {None}]
  /\ diffs = <<>> /\ past = <<>>
  /\ executing = FALSE
  /\ cache = EmptyCache /\ original = EmptyCache /\ snapshot = FALSE
  /\ initial = NoValues
  /\ want = NoValues /\ wantOriginal = NoValues

-----------------------------------------------------------------------------
(* Execution of a block. *)

\* chain.newStateStore: every block starts with a store of its own.
NewStateStore(isUsed, expected) ==
  /\ executing' = isUsed
  /\ cache' = EmptyCache /\ original' = EmptyCache /\ snapshot' = FALSE
  /\ initial' = NoValues
  /\ want' = expected /\ wantOriginal' = NoValues

Begin ==
  /\ ~executing
  /\ NewStateStore(TRUE, db)
  /\ UNCHANGED <<db, diffs, past>>

IsCached(k) == cache.data[k] # None

\* The value in the database is cached and remembered for the diff.
Load(k) ==
  /\ cache' = [cache EXCEPT !.data[k] = db[k]]
  /\ initial' = [initial EXCEPT ![k] = IF k = FinalizedKey THEN @ ELSE db[k]]

\* AccountStore.get and the get of the other two: an account that is not there
\* or was deleted is an error, an entry that is not there is not cached.
Get(k) ==
  /\ executing
  /\ ~IsCached(k) /\ k \notin cache.deleted
  /\ db[k] # None
  /\ Load(k)
  /\ UNCHANGED <<db, diffs, past, executing, original, snapshot, want, wantOriginal>>

\* AccountStore.getOrDefault does not look at the deleted accounts.
GetOrDefault(a) ==
  /\ executing
  /\ a \in Account /\ ~IsCached(a)
  /\ a \in cache.deleted => ReadsDeleted
  /\ IF db[a] # None
       THEN Load(a)
       ELSE /\ cache' = [cache EXCEPT !.data[a] = Default]
            /\ UNCHANGED initial
  /\ UNCHANGED <<db, diffs, past, executing, original, snapshot, want, wantOriginal>>

\* What is set was read before, unless nothing is stored: the store a module is
\* given reads an account before it sets it, and every caller of the other two
\* stores in the repository does the same. A module may still set an entry of
\* the chain state blindly.
MaySet(k) ==
  initial[k] # None \/ db[k] = None \/ k = FinalizedKey
    \/ (BlindWrites /\ k \in StateKey)

KeepsDeletedKey(k) == cache.deleted

UndeletedBySet(k) == cache.deleted \ {k}

Set(k, v) ==
  /\ executing
  /\ MaySet(k)
  /\ cache' = [data |-> [cache.data EXCEPT ![k] = v],
               updated |-> cache.updated \cup {k},
               deleted |-> UndeletedBySet(k)]
  /\ want' = [want EXCEPT ![k] = v]
  /\ UNCHANGED <<db, diffs, past, executing, initial, original, snapshot, wantOriginal>>

\* AccountStore.del reads the account first, and fails if there is none.
Del(a) ==
  LET stored == IF IsCached(a) THEN initial[a] ELSE db[a]
  IN  /\ executing
      /\ a \in Account
      /\ IsCached(a) \/ (a \notin cache.deleted /\ db[a] # None)
      /\ initial' = [initial EXCEPT ![a] = stored]
      /\ cache' = [data |-> [cache.data EXCEPT ![a] = None],
                   updated |-> cache.updated \ {a},
                   deleted |-> IF stored # None THEN cache.deleted \cup {a}
                                                ELSE cache.deleted]
      /\ want' = [want EXCEPT ![a] = None]
      /\ UNCHANGED <<db, diffs, past, executing, original, snapshot, wantOriginal>>

\* The forger brackets every transaction it tries.
CreateSnapshot ==
  /\ executing
  /\ original' = cache /\ snapshot' = TRUE
  /\ wantOriginal' = want
  /\ UNCHANGED <<db, diffs, past, executing, cache, initial, want>>

RestoredWithNewDeletions == [original EXCEPT !.deleted = cache.deleted]

RestoredCache == original

RestoreSnapshot ==
  /\ executing /\ snapshot
  /\ cache' = RestoredCache
  /\ original' = EmptyCache /\ snapshot' = FALSE
  /\ want' = wantOriginal /\ wantOriginal' = NoValues
  /\ UNCHANGED <<db, diffs, past, executing, initial>>

-----------------------------------------------------------------------------
(* The batch of the block. *)

\* finalize: what was set is put, what was deleted is removed.
Finalized ==
  [k \in Key |-> IF k \in cache.deleted THEN None
                 ELSE IF k \in cache.updated THEN cache.data[k] ELSE db[k]]

DiffRestoresAll ==
  [created |-> {}, restored |-> [k \in cache.updated \cup cache.deleted |-> initial[k]]]

DiffForgetsDeleted ==
  [created |-> {k \in cache.updated \ {FinalizedKey} : initial[k] = None},
   restored |-> [k \in {j \in cache.updated : initial[j] # None} |-> initial[k]]]

\* The diff: created keys, and the initial values of the updated and deleted
\* ones. A key set to the value it had is in none of them.
Diff ==
  LET changed == {k \in cache.updated \ {FinalizedKey} :
                    initial[k] # None /\ initial[k] # cache.data[k]}
  IN  [created |-> {k \in cache.updated \ {FinalizedKey} : initial[k] = None},
       restored |-> [k \in changed \cup cache.deleted |-> initial[k]]]

\* chain.saveBlock
SaveBlock ==
  /\ executing
  /\ Height < MaxHeight
  /\ db' = Finalized
  /\ diffs' = Append(diffs, Diff)
  /\ past' = Append(past, db)
  /\ NewStateStore(FALSE, NoValues)

\* The block failed.
Discard ==
  /\ executing
  /\ NewStateStore(FALSE, NoValues)
  /\ UNCHANGED <<db, diffs, past>>

Undone(state, diff) ==
  [k \in Key |-> IF k \in DOMAIN diff.restored THEN diff.restored[k]
                 ELSE IF k \in diff.created THEN None ELSE state[k]]

\* storage.deleteBlock
DeleteBlock ==
  /\ ~executing
  /\ diffs # <<>>
  /\ db' = Undone(db, diffs[Height])
  /\ diffs' = SubSeq(diffs, 1, Height - 1)
  /\ past' = SubSeq(past, 1, Height - 1)
  /\ UNCHANGED storeVars

Next ==
  \/ Begin
  \/ \E k \in Key : Get(k)
  \/ \E a \in Account : GetOrDefault(a) \/ Del(a)
  \/ \E k \in Key, v \in Value : Set(k, v)
  \/ CreateSnapshot \/ RestoreSnapshot
  \/ SaveBlock \/ Discard \/ DeleteBlock

Spec == Init /\ [][Next]_vars

-----------------------------------------------------------------------------
DiffType == [created : SUBSET Key, restored : UNION {[S -> Value] : S \in SUBSET Key}]

CacheType ==
  [data : [Key -> Value \cup {None}], updated : SUBSET Key, deleted : SUBSET Account]

TypeOK ==
  /\ db \in [Key -> Value \cup {None}]
  /\ diffs \in Seq(DiffType)
  /\ executing \in BOOLEAN /\ snapshot \in BOOLEAN
  /\ cache \in CacheType /\ original \in CacheType
  /\ initial \in [Key -> Value \cup {None}]
  /\ want \in [Key -> Value \cup {None}] /\ wantOriginal \in [Key -> Value \cup {None}]
  /\ past \in Seq([Key -> Value \cup {None}]) /\ Len(past) = Len(diffs)

\* Whatever a block read, set, deleted, and took back to a snapshot, its diff
\* leads back to the database below it, for everything but the finalized height,
\* which is not undone (StateStore.finalize, storage.deleteBlock).
UndoRestores ==
  diffs # <<>> =>
    \A k \in Key \ {FinalizedKey} : Undone(db, diffs[Height])[k] = past[Height][k]

\* What a module would be given for k.
Visible(k) ==
  IF IsCached(k) THEN cache.data[k]
  ELSE IF k \in cache.deleted THEN None ELSE db[k]

\* A block sees its own writes, and after restoreSnapshot none of those taken
\* back; an account that is not there may be seen as the default account.
ReadYourWrites ==
  executing =>
    \A k \in Key : \/ Visible(k) = want[k]
                   \/ k \in Account /\ want[k] = None /\ Visible(k) = Default

\* The batch holds the effect of the operations that were not taken back, no
\* less and no more.
SavesWhatWasWritten == [][ diffs' # diffs /\ executing => db' = want ]_vars

\* The comment of getOrDefault, "If account does not exists, return default
\* account", and the error of get, "has been deleted": the old value of an account
\* deleted in the block is not given out again.
DeletedStaysDeleted ==
  executing => \A a \in Account : want[a] = None => Visible(a) \in {None, Default}

\* The comment of deleteBlock, "Delete all the newly created states": undoing a
\* block takes away no state that was there before it.
OnlyNewStatesDeleted ==
  diffs # <<>> =>
    \A k \in diffs[Height].created : past[Height][k] = None

\* A block sees what it wrote, and its diff leads back to the state below it.
StateSound == TypeOK /\ UndoRestores /\ ReadYourWrites
=============================================================================
