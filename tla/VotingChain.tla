----------------------------- MODULE VotingChain ----------------------------
(***************************************************************************)
(* One chain and its voting ledger: headers of any content are offered,    *)
(* verified and counted one after the other (FinalityManager.              *)
(* addBlockHeader). Generators may lie about what they forged before and,  *)
(* in the first rounds, about maxHeightPrevoted.                           *)
(***************************************************************************)
EXTENDS VotingLedger

CONSTANT MaxHeight  \* bound on the length of the chain

VotingAssumption == MaxHeight \in Nat

VARIABLES
  chain,            \* headers above the genesis block
  ledger,           \* voting ledger in the consensus state
  finalizedHeight,  \* finalityManager.finalizedHeight
  prevoters,        \* history: height -> validators that prevoted it
  precommitters,    \* history: height -> validators that precommitted it
  liars             \* validators that claim anything in their headers

vars == <<chain, ledger, finalizedHeight, prevoters, precommitters, liars>>

Heights == 1..MaxHeight

Init ==
  /\ chain = <<>>
  /\ ledger = EmptyLedger
  /\ finalizedHeight = 0
  /\ prevoters = [h \in Heights |-> {}]
  /\ precommitters = [h \in Heights |-> {}]
  /\ liars \in SUBSET Validator

\* updateFinalizedHeight: only upwards.
UpdateFinalizedHeight(current, next) == AtLeast(current, {HighestPrecommitted(next)})

Voted(voters, heights, header) ==
  [h \in Heights |-> IF CanVote(header) /\ h \in heights
                       THEN voters[h] \cup {header.gen} ELSE voters[h]]

AddBlockHeader(header) ==
  /\ VerifyBlockHeaders(chain, ledger, header)
  /\ chain' = Append(chain, header)
  /\ ledger' = UpdatePrevotesPrecommits(chain, ledger, header)
  /\ finalizedHeight' = UpdateFinalizedHeight(finalizedHeight, ledger')
  /\ prevoters' = Voted(prevoters, PreVoteHeights(header), header)
  /\ precommitters' =
       Voted(precommitters, PreCommitHeights(chain, ledger, header), header)

NextHeader(gen, mhpf, mhp) ==
  [id |-> Len(chain) + 1, height |-> Len(chain) + 1, gen |-> gen,
   mhpf |-> mhpf, mhp |-> mhp]

LastForgedHeight(gen) == AtLeast(0, {h \in 1..Len(chain) : chain[h].gen = gen})

\* Claims about earlier forging and about maxHeightPrevoted, true or false. One
\* who claims to have forged this height or a higher one has no votes.
ClaimedMhpf(gen) ==
  IF gen \in liars THEN 0..Len(chain) \cup {MaxHeight} ELSE {LastForgedHeight(gen)}

ClaimedMhp(gen) ==
  {ExpectedMhp(chain, ledger)} \cup (IF gen \in liars THEN {0, Len(chain)} ELSE {})

Next ==
  /\ Len(chain) < MaxHeight
  /\ \E gen \in Validator :
       \E mhpf \in ClaimedMhpf(gen), mhp \in ClaimedMhp(gen) :
         AddBlockHeader(NextHeader(gen, mhpf, mhp))
  /\ UNCHANGED liars

Spec == Init /\ [][Next]_vars

-----------------------------------------------------------------------------
TypeOK ==
  /\ Len(chain) <= MaxHeight
  /\ DOMAIN ledger.votes \subseteq Heights
  /\ Cardinality(DOMAIN ledger.votes) <= MaxHeaders
  /\ finalizedHeight \in 0..MaxHeight
  /\ \A h \in Heights : prevoters[h] \cup precommitters[h] \subseteq Participant

\* So it is once maxHeightPrevoted is verified.
MhpNeverFalls == \A h \in 2..Len(chain) : chain[h].mhp >= chain[h - 1].mhp

\* The ledger counts validators, not headers: whatever a generator claims
\* about its earlier blocks, no height gets two prevotes or two precommits
\* from it on one chain, although verifyBlockHeaders compares a header with
\* only the last one of its generator. In the first rounds, when nobody checks
\* the claims about maxHeightPrevoted, this holds for true claims only: a header
\* with a high maxHeightPrevoted and maxHeightPreviouslyForged makes the next
\* one look like an earlier one, and that one votes again for the same heights.
OneVoteEach ==
  \A h \in DOMAIN ledger.votes :
    /\ MhpNeverFalls => ledger.votes[h].prevotes = Cardinality(prevoters[h])
    /\ ledger.votes[h].precommits = Cardinality(precommitters[h])

\* A validator precommits only heights it has prevoted on this chain: where
\* its maxHeightPreviouslyForged points at somebody else's block it was on
\* another chain, and getMinValidHeightToPreCommit cuts it off.
PrecommitsFollowPrevotes ==
  \A h \in Heights : precommitters[h] \subseteq prevoters[h]

\* What is finalized was prevoted by a threshold of validators before.
FinalizedWasPrevoted ==
  finalizedHeight > 0 =>
    /\ Cardinality(prevoters[finalizedHeight]) >= Threshold
    /\ Cardinality(precommitters[finalizedHeight]) >= Threshold

\* Where nobody lies, maxHeightPrevoted never decreases along a chain once headers
\* are verified, even when the ledger has dropped the heights it came from. The
\* fork choice rule compares tips by it.
MaxHeightPrevotedGrows ==
  liars = {} => \A h \in 2..Len(chain) :
    IsMhpVerified(SubSeq(chain, 1, h - 2)) => chain[h].mhp >= chain[h - 1].mhp

\* What the ledger counts is sound: a validator has one vote at a height, it
\* precommits only what it had seen prevoted, and only that becomes final.
VotesSound == OneVoteEach /\ PrecommitsFollowPrevotes /\ FinalizedWasPrevoted

\* Pruning keeps the ledger within its bounds and changes no prevoted height.
LedgerPruned == TypeOK /\ MaxHeightPrevotedGrows
=============================================================================
