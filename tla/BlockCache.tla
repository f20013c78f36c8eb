------------------------------ MODULE BlockCache ----------------------------
(***************************************************************************)
(* elements/lisk-chain/src/data_access: the newest block headers are kept  *)
(* in memory and answer most reads of the node. A block reaches the        *)
(* database first and the cache after it; when removals have taken too     *)
(* many headers, older ones are read from the database.                    *)
(*                                                                         *)
(* The chain is the sequence of the blocks above the genesis block, which  *)
(* has height 0. Version tells the blocks of one height apart. The         *)
(* processor's mutex lets only one block be added or removed at a time.    *)
(***************************************************************************)
EXTENDS Integers, Sequences, SequencesExt

CONSTANTS
  Version,          \* what tells blocks of one height apart
  MinCachedItems,   \* below this the cache wants a refill
  MaxCachedItems,   \* what the cache should hold at most
  MaxHeight         \* bound on the chain

\* The defaults are 309 and 515.
BlockCacheAssumption ==
  /\ MinCachedItems \in Nat /\ MaxCachedItems \in Nat
  /\ 1 < MinCachedItems /\ MinCachedItems < MaxCachedItems
  /\ MaxHeight \in Nat

VARIABLES
  blocks,           \* the blocks in the database
  items,            \* the cached headers, oldest first
  needsRefill,      \* the cache wants older headers
  pending           \* what is done to the database and not yet to the cache,
                    \* and the header of the block it is done to

cacheVars == <<blocks, items, needsRefill, pending>>

NumberedFromOne(height, version) == [height |-> height + 1, version |-> version]

Header(height, version) == [height |-> height, version |-> version]

Genesis == Header(0, "genesis")

Height == Len(blocks)

Stored(height) == IF height = 0 THEN Genesis ELSE blocks[height]

\* getBlockHeadersByHeightBetween on the database, oldest first.
StoredBetween(from, to) == [i \in 1..(to - from + 1) |-> Stored(from + i - 1)]

First == Head(items)

NothingPending == [step |-> "none", header |-> Genesis]

\* The genesis block is saved like any other block.
CacheInit ==
  /\ blocks = <<>>
  /\ items = <<Genesis>>
  /\ needsRefill = FALSE
  /\ pending = NothingPending

-----------------------------------------------------------------------------
ShiftIfTooMany(headers) ==
  IF Len(headers) > MaxCachedItems THEN Tail(headers) ELSE headers

\* BlockCache.add; the assertion holds when a header follows the last one.
CanAdd(header) == items # <<>> => header.height = Last(items).height + 1

Added(header) == ShiftIfTooMany(Append(items, header))

\* chain.saveBlock: the database, then the cache.
SaveBlock(version) ==
  /\ pending = NothingPending
  /\ Height < MaxHeight
  /\ LET header == Header(Height + 1, version)
     IN  /\ blocks' = Append(blocks, header)
         /\ pending' = [step |-> "add", header |-> header]
  /\ UNCHANGED <<items, needsRefill>>

AddBlockHeader ==
  /\ pending.step = "add"
  /\ CanAdd(pending.header)
  /\ items' = Added(pending.header)
  /\ pending' = NothingPending
  /\ UNCHANGED <<blocks, needsRefill>>

\* chain.removeBlock: the database, then the cache.
RemoveBlock ==
  /\ pending = NothingPending
  /\ Height > 0
  /\ blocks' = Front(blocks)
  /\ pending' = [step |-> "remove", header |-> Last(blocks)]
  /\ UNCHANGED <<items, needsRefill>>

RemovesFirst == IF items = <<>> THEN items ELSE Tail(items)

\* BlockCache.remove; it throws when another header is the last one.
CanRemove(header) == items # <<>> => Last(items) = header

AfterRemoval == IF items = <<>> THEN items ELSE Front(items)

RemoveBlockHeader ==
  /\ pending.step = "remove"
  /\ CanRemove(pending.header)
  /\ items' = AfterRemoval
  /\ needsRefill' = (needsRefill \/ Len(items') < MinCachedItems)
  /\ pending' = IF needsRefill' THEN [pending EXCEPT !.step = "refill"] ELSE NothingPending
  /\ UNCHANGED blocks

\* In JavaScript NaN || 0 is 0, and so is 0 || 0.
UpperHeightToFetch == IF items = <<>> THEN 0 ELSE First.height - 1

LowerHeightToFetch ==
  LET lower == UpperHeightToFetch - (MaxCachedItems - MinCachedItems)
  IN  IF lower > 1 THEN lower ELSE 1

NeverRefills == FALSE

RefillIsPossible == UpperHeightToFetch - LowerHeightToFetch > 0

StillWantsRefill == TRUE

WantsRefillAfterRefill == FALSE

\* needsRefill stays set when there is too little to fetch.
Refill ==
  /\ pending.step = "refill"
  /\ IF RefillIsPossible
       THEN /\ items' = StoredBetween(LowerHeightToFetch, UpperHeightToFetch) \o items
            /\ needsRefill' = WantsRefillAfterRefill
       ELSE UNCHANGED <<items, needsRefill>>
  /\ pending' = NothingPending
  /\ UNCHANGED blocks

\* _cacheBlockHeaders of a chain above the genesis block: the headers from
\* MaxCachedItems below the last one are added one by one, and the first of them is
\* shifted out again.
CachedAtStart ==
  LET all == StoredBetween(IF Height > MaxCachedItems THEN Height - MaxCachedItems ELSE 0, Height)
  IN  IF Height = 0 THEN <<>> ELSE ShiftIfTooMany(all)

\* Chain.init after a restart, which can come between database and cache.
CacheRestart ==
  /\ items' = CachedAtStart
  /\ needsRefill' = FALSE
  /\ pending' = NothingPending
  /\ UNCHANGED blocks

CacheNext ==
  \/ \E version \in Version : SaveBlock(version)
  \/ AddBlockHeader
  \/ RemoveBlock \/ RemoveBlockHeader \/ Refill
  \/ CacheRestart

CacheSpec == CacheInit /\ [][CacheNext]_cacheVars

-----------------------------------------------------------------------------
\* The headers of blocks that this chain can have.
CacheTypeOK ==
  LET Headers == {Genesis} \cup [height : 1..MaxHeight, version : Version]
  IN  /\ blocks \in Seq(Headers) /\ items \in Seq(Headers)
      /\ needsRefill \in BOOLEAN
      /\ pending \in [step : {"none", "add", "remove", "refill"}, header : Headers]

\* The cached headers are the newest ones of the database, in order and without a
\* gap, through forks, refills and restarts: reads by id, height and range that
\* are answered from the cache are what the database would answer. While a block
\* is added or removed only the header of that block differs.
CacheMirrorsChain ==
  LET mirrored == CASE pending.step = "add"    -> Front(blocks)
                    [] pending.step = "remove" -> Append(blocks, pending.header)
                    [] OTHER                   -> blocks
      withGenesis == <<Genesis>> \o mirrored
  IN  IsSuffix(items, withGenesis)

\* Neither the assertion of BlockCache.add nor the error of BlockCache.remove is
\* ever met: a block that is in the database, or gone from it, is so in the cache.
CacheNeverRefuses ==
  /\ pending.step = "add" => CanAdd(pending.header)
  /\ pending.step = "remove" => CanRemove(pending.header)

\* Whenever the node is between two blocks, a cache that was refilled holds enough
\* headers, unless it reaches down to the first blocks of the chain.
CacheNotStarved ==
  pending = NothingPending /\ items # <<>> =>
    Len(items) >= MinCachedItems \/ First.height <= 2

\* However chains grow, shrink and grow again, what the cache holds beyond its
\* maximum does not add up.
OvershootBounded == Len(items) <= 2 * MaxCachedItems - MinCachedItems + 1

\* The comment of BlockCache.add, "If the list size is already full remove one
\* item", and the unit test "should only contain maximum of 500 block header at
\* given point in time".
CacheWithinMaximum == Len(items) <= MaxCachedItems

\* The cache holds the newest headers of the chain, takes every header and gives
\* up every one, and stays near its size.
CacheFollows ==
  CacheTypeOK /\ CacheMirrorsChain /\ CacheNeverRefuses /\ CacheNotStarved /\ OvershootBounded
=============================================================================
