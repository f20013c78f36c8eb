----------------------------- MODULE VotingLedger ---------------------------
(***************************************************************************)
(* The voting ledger of elements/lisk-bft: how the headers of one chain    *)
(* are counted as prevotes and precommits, which header is refused, and    *)
(* which height is finalized. Pure operators over a header, the chain it   *)
(* is added to and the ledger of that chain.                               *)
(*                                                                         *)
(* A header is a record with id, height, gen (the generator), mhpf         *)
(* (asset.maxHeightPreviouslyForged) and mhp (asset.maxHeightPrevoted). A  *)
(* chain is the sequence of its headers above the genesis block, which has *)
(* height 0: chain[h] is the header of height h.                           *)
(***************************************************************************)
EXTENDS Integers, Sequences, FiniteSets

CONSTANTS
  Validator,        \* the validators of the round
  Participant,      \* those that are consensus participants
  ActiveFrom,       \* validator -> its minActiveHeight
  Threshold         \* votes that make a height prevoted or precommitted

LedgerAssumption ==
  /\ IsFiniteSet(Validator)
  /\ Participant \subseteq Validator
  /\ ActiveFrom \in [Validator -> Nat \ {0}]
  /\ Threshold \in Nat \ {0}

-----------------------------------------------------------------------------
BFTRoundThreshold == 3

NumberOfValidators == Cardinality(Validator)

\* Heights below the tip that a header can still vote for.
ProcessingThreshold == NumberOfValidators * BFTRoundThreshold - 1

\* Heights the ledger keeps.
MaxHeaders == NumberOfValidators * 5

Maximum(S) == CHOOSE x \in S : \A y \in S : y <= x

AtLeast(low, S) == Maximum({low} \cup S)

\* stateStore.chain.lastBlockHeaders: the headers of the last three rounds,
\* by height; the genesis header counts but has no generator.
LastBlockHeaders(chain) ==
  LET from == AtLeast(1, {Len(chain) - 3 * NumberOfValidators})
  IN  [h \in from..Len(chain) |-> chain[h]]

LastBlockHeadersLength(chain) ==
  IF Len(chain) < 3 * NumberOfValidators
    THEN Len(chain) + 1 ELSE 3 * NumberOfValidators + 1

-----------------------------------------------------------------------------
(* areHeadersContradicting: two headers that one honest generator never    *)
(* signs both.                                                             *)

\* The order in which an honest generator would have signed them.
SignedBefore(b1, b2) ==
  \/ b1.mhpf < b2.mhpf
  \/ b1.mhpf = b2.mhpf /\ b1.mhp < b2.mhp
  \/ b1.mhpf = b2.mhpf /\ b1.mhp = b2.mhp /\ b1.height <= b2.height

IgnoresPreviousForging(earlier, later) ==
  \/ earlier.mhp = later.mhp /\ earlier.height >= later.height
  \/ earlier.mhp > later.mhp

BreaksSigningRules(earlier, later) ==
  \/ earlier.mhp = later.mhp /\ earlier.height >= later.height
  \/ earlier.height > later.mhpf
  \/ earlier.mhp > later.mhp

Contradicting(b1, b2) ==
  /\ b1.gen = b2.gen
  /\ b1.id # b2.id
  /\ IF SignedBefore(b1, b2) THEN BreaksSigningRules(b1, b2)
                             ELSE BreaksSigningRules(b2, b1)

-----------------------------------------------------------------------------
(* The ledger: votes by height, and the last height each validator has     *)
(* precommitted. (Its maxPreVoteHeight is stored and never read.)          *)

EmptyLedger ==
  [votes |-> <<>>, maxPreCommitHeight |-> [v \in Validator |-> 0]]

NoVotes == [prevotes |-> 0, precommits |-> 0]

VotesAt(ledger, height) ==
  IF height \in DOMAIN ledger.votes THEN ledger.votes[height] ELSE NoVotes

Prevoted(ledger) ==
  {h \in DOMAIN ledger.votes : ledger.votes[h].prevotes >= Threshold}

Precommitted(ledger) ==
  {h \in DOMAIN ledger.votes : ledger.votes[h].precommits >= Threshold}

ForgetsTipMhp(ledger, lastMhp) ==
  IF Prevoted(ledger) = {} THEN 0 ELSE Maximum(Prevoted(ledger))

\* calculateMaxHeightPrevoted, for a chain whose tip says lastMhp.
MaxHeightPrevoted(ledger, lastMhp) ==
  IF Prevoted(ledger) = {} THEN lastMhp ELSE Maximum(Prevoted(ledger))

HighestPrevoted(ledger) == AtLeast(0, Prevoted(ledger))

\* updateFinalizedHeight without the height it compares with: 0 for none.
HighestPrecommitted(ledger) == AtLeast(0, Precommitted(ledger))

TipMhp(chain) == IF chain = <<>> THEN 0 ELSE chain[Len(chain)].mhp

ExpectedMhp(chain, ledger) == MaxHeightPrevoted(ledger, TipMhp(chain))

-----------------------------------------------------------------------------
(* verifyBlockHeaders *)

\* The first headers of a chain, up to three rounds, are not verified.
IsMhpVerified(chain) == LastBlockHeadersLength(chain) >= ProcessingThreshold

MhpUnverified(chain, ledger, header) == TRUE

MhpAccepted(chain, ledger, header) ==
  IsMhpVerified(chain) => header.mhp = ExpectedMhp(chain, ledger)

\* Only the generator's last header on the chain is compared.
ContradictsChain(chain, header) ==
  LET headers == LastBlockHeaders(chain)
      own     == {h \in DOMAIN headers : headers[h].gen = header.gen}
  IN  own # {} /\ Contradicting(headers[Maximum(own)], header)

VerifyBlockHeaders(chain, ledger, header) ==
  /\ MhpAccepted(chain, ledger, header)
  /\ ~ContradictsChain(chain, header)

-----------------------------------------------------------------------------
(* updatePrevotesPrecommits *)

CanVote(header) ==
  /\ header.mhpf < header.height
  /\ header.gen \in Participant

OldestVote(header) == header.height - ProcessingThreshold

\* getMinValidHeightToPreCommit: follow maxHeightPreviouslyForged down the
\* chain for as long as it points at a header of the same generator. Where
\* it does not, the generator was on another chain up to that height.
NoMinValidHeight(chain, header) == AtLeast(1, {OldestVote(header)})

\* The height found from each height on the way down.
MinValidSearch(chain, header) ==
  LET headers == LastBlockHeaders(chain)
      searchTill == AtLeast(1, {OldestVote(header)})
      search[h \in 0..Len(chain)] ==
        IF h < searchTill THEN searchTill
        ELSE IF h \notin DOMAIN headers THEN 0
        ELSE IF headers[h].gen # header.gen \/ headers[h].mhpf >= h THEN h + 1
        ELSE search[headers[h].mhpf]
  IN  search

MinValidHeightToPreCommit(chain, header) == MinValidSearch(chain, header)[header.mhpf]

\* The heights below it that a header precommits: prevoted ones, not yet
\* precommitted by its generator.
PreCommitHeights(chain, ledger, header) ==
  LET from == Maximum({ OldestVote(header), ActiveFrom[header.gen],
                        MinValidHeightToPreCommit(chain, header),
                        ledger.maxPreCommitHeight[header.gen] + 1 })
  IN  {h \in from..(header.height - 1) :
         VotesAt(ledger, h).prevotes >= Threshold}

PreVoteHeights(header) ==
  Maximum({ ActiveFrom[header.gen], header.mhpf + 1,
            OldestVote(header) })..header.height

NothingPruned(votes) == votes

\* The highest MaxHeaders heights of the ledger are kept.
PruneVotes(votes) ==
  [h \in {k \in DOMAIN votes :
            Cardinality({m \in DOMAIN votes : m > k}) < MaxHeaders} |-> votes[h]]

AddVotes(chain, ledger, header) ==
  LET precommits == PreCommitHeights(chain, ledger, header)
      prevotes   == PreVoteHeights(header)
      votes == [h \in DOMAIN ledger.votes \cup precommits \cup prevotes |->
        [ prevotes   |-> VotesAt(ledger, h).prevotes
                           + (IF h \in prevotes THEN 1 ELSE 0),
          precommits |-> VotesAt(ledger, h).precommits
                           + (IF h \in precommits THEN 1 ELSE 0) ]]
  IN  [ votes |-> PruneVotes(votes),
        maxPreCommitHeight |->
          [ledger.maxPreCommitHeight EXCEPT ![header.gen] =
             AtLeast(@, precommits)] ]

\* The ledger after a header that was accepted.
UpdatePrevotesPrecommits(chain, ledger, header) ==
  IF CanVote(header) THEN AddVotes(chain, ledger, header) ELSE ledger
=============================================================================
