------------------------------- MODULE Finality -----------------------------
(***************************************************************************)
(* The network: validators forge on the chains they know and follow the    *)
(* fork choice rule; every chain carries the voting ledger that            *)
(* VotingLedger computes from its headers. Blocks travel in any order and  *)
(* with any delay, so a validator may see any of the chains or none.       *)
(*                                                                         *)
(* The state is the set of all chains forged so far, with their ledgers.   *)
(* What an honest validator may do next depends on the last block it       *)
(* forged: its own block became its tip, the tip has only moved up in rank *)
(* since (TipAdoption), and its forger remembers the greatest height it    *)
(* forged. Some validators may be faulty and forge anywhere.               *)
(***************************************************************************)
EXTENDS VotingLedger, SequencesExt

CONSTANTS
  MaxBlocks,        \* bound on the blocks forged if all are honest
  MaxMixedBlocks,   \* bound on the blocks forged if some are faulty
  MaxFaultyBlocks,  \* and on those of the faulty ones among them
  MaxChainLength    \* bound on the length of a chain

FinalityAssumption ==
  /\ MaxChainLength \in Nat
  /\ MaxBlocks \in Nat /\ MaxMixedBlocks \in Nat /\ MaxFaultyBlocks \in Nat

\* Two sets of voters that reach the threshold share more than the faulty
\* validators. The threshold is configured (genesisConfig.bftThreshold), by
\* default 68 for 101 participants among 103 validators.
QuorumAssumption ==
  \A f \in 0..Cardinality(Validator) :
    3 * f < Cardinality(Validator) => 2 * Threshold > Cardinality(Participant) + f

VARIABLES
  ledgers,          \* chain, as the sequence of its headers -> its ledger
  faulty            \* the validators that forge anything the chain accepts

networkVars == <<ledgers, faulty>>

NetworkInit ==
  /\ ledgers = [c \in {<<>>} |-> EmptyLedger]
  /\ faulty \in SUBSET Validator

chains == DOMAIN ledgers

-----------------------------------------------------------------------------
FinalizedHeight(chain) == HighestPrecommitted(ledgers[chain])

OwnChains(v) == {c \in chains : c # <<>> /\ Last(c).gen = v}

\* The order of the fork choice rule: maxHeightPrevoted, then height.
ChainOutranks(c, d) ==
  \/ TipMhp(c) > TipMhp(d)
  \/ TipMhp(c) = TipMhp(d) /\ Len(c) > Len(d)

StandsAnywhere(v, c) == TRUE

\* The chains v's node may stand on: it has not left its own last block for
\* a chain the rule does not prefer.
MayStandOn(v, c) == \A own \in OwnChains(v) : c = own \/ ChainOutranks(c, own)

\* previouslyForgedMap: the greatest height, on whichever chain.
MaxHeightPreviouslyForged(v) == AtLeast(0, {Len(c) : c \in OwnChains(v)})

NewHeader(v, chain, mhpf) ==
  [id |-> Append([h \in 1..Len(chain) |-> <<chain[h].gen, chain[h].mhpf>>],
                 <<v, mhpf>>),
   height |-> Len(chain) + 1, gen |-> v, mhpf |-> mhpf,
   mhp |-> ExpectedMhp(chain, ledgers[chain])]

AddBlock(chain, header) ==
  /\ Cardinality(chains) <= (IF faulty = {} THEN MaxBlocks ELSE MaxMixedBlocks)
  /\ Len(chain) < MaxChainLength
  /\ VerifyBlockHeaders(chain, ledgers[chain], header)
  /\ LET longer == Append(chain, header)
     IN  ledgers' = [c \in chains \cup {longer} |->
           IF c = longer
             THEN UpdatePrevotesPrecommits(chain, ledgers[chain], header)
             ELSE ledgers[c]]

\* Forger.forge on the tip of v's node.
Forge(v, chain) ==
  /\ v \notin faulty
  /\ MayStandOn(v, chain)
  /\ AddBlock(chain, NewHeader(v, chain, MaxHeightPreviouslyForged(v)))

ForgeFaulty(v, chain, mhpf) ==
  /\ v \in faulty
  /\ Cardinality(UNION {OwnChains(w) : w \in faulty}) < MaxFaultyBlocks
  /\ AddBlock(chain, NewHeader(v, chain, mhpf))

NetworkNext ==
  /\ \E v \in Validator, chain \in chains :
       \/ Forge(v, chain)
       \/ \E mhpf \in 0..MaxChainLength : ForgeFaulty(v, chain, mhpf)
  /\ UNCHANGED faulty

NetworkSpec == NetworkInit /\ [][NetworkNext]_networkVars

\* What the protocol asks of the validators.
FewFaulty == 3 * Cardinality(faulty) < Cardinality(Validator)

-----------------------------------------------------------------------------
SharePrefix(c, d, height) ==
  \A h \in 1..height : h <= Len(c) /\ h <= Len(d) /\ c[h] = d[h]

\* With less than a third faulty, no two nodes finalize different blocks of
\* one height, whichever chains they follow and however messages are delayed.
Agreement ==
  FewFaulty => \A c, d \in chains :
    LET h == FinalizedHeight(c)
    IN  h > 0 /\ FinalizedHeight(d) >= h => SharePrefix(c, d, h)

\* With less than a third faulty, once a height is finalized on one chain, no
\* chain without that block has a maxHeightPrevoted as high: the fork choice
\* rule never asks a node that has seen the finalization to leave it.
FinalizedNeverOutvoted ==
  FewFaulty => \A c, d \in chains :
    LET h == FinalizedHeight(c)
    IN  h > 0 /\ ExpectedMhp(d, ledgers[d]) >= h => SharePrefix(c, d, h)

\* However many are faulty, a validator that follows the fork choice rule and
\* remembers what it forged never signs two contradicting headers, so it is
\* never punished for them.
HonestNeverContradicts ==
  \A c, d \in chains :
    c # <<>> /\ d # <<>> /\ Last(c).gen \notin faulty
      => ~Contradicting(Last(c), Last(d))

\* What is final is one chain, and no chain with a different block is preferred.
FinalitySafe == Agreement /\ FinalizedNeverOutvoted
=============================================================================
