----------------------------- MODULE MCConsensus ----------------------------
(***************************************************************************)
(* TLC instances of the models of BFT and fork choice. A behaviour runs    *)
(* one of them, named by part, and leaves the variables of the others      *)
(* alone:                                                                  *)
(*   tip      TipAdoption: two heights above the genesis block, forks at   *)
(*            both and a maxHeightPrevoted that can outrank height;        *)
(*   lying    VotingChain: three validators, two of which lie, and five    *)
(*            headers;                                                     *)
(*   long     VotingChain: a chain of which the ledger forgets the oldest  *)
(*            heights; nobody lies and one of the validators is away;      *)
(*   network  Finality: three validators, at most one of them faulty.      *)
(***************************************************************************)
EXTENDS TipAdoption, VotingChain, Finality, TLC

VARIABLE part

votingVars == vars

-----------------------------------------------------------------------------
H(id, height, prev, mhp, gen, time) ==
  [id |-> id, height |-> height, prev |-> prev, mhp |-> mhp, gen |-> gen,
   timestamp |-> GenesisTime + time]

MCFirstTip == H("g", 0, "none", 0, "none", 0)

MCBlock ==
  { MCFirstTip,
    H("a1", 1, "g", 0, "va", 2),  H("b1", 1, "g", 0, "vb", 4),
    H("c1", 1, "g", 1, "vb", 4),  H("d1", 1, "g", 0, "vc", 6),
    H("a2", 2, "a1", 0, "vb", 4), H("b2", 2, "b1", 0, "va", 6),
    H("c2", 2, "a1", 0, "vc", 6), H("a3", 3, "a2", 1, "va", 6) }

\* Every validator participates, and from height 1.
MCParticipant == Validator
MCActiveFrom == [v \in Validator |-> 1]

Symmetry == Permutations(Validator)

ASSUME LedgerAssumption /\ VotingAssumption /\ FinalityAssumption /\ QuorumAssumption

-----------------------------------------------------------------------------
OnTip == part = "tip" /\ UNCHANGED <<part, votingVars, networkVars>>
OnLying == part = "lying" /\ Len(chain) < 5 /\ UNCHANGED <<part, tipVars, networkVars>>
OnLong == part = "long" /\ UNCHANGED <<part, tipVars, networkVars>>
OnNetwork == part = "network" /\ UNCHANGED <<part, tipVars, votingVars>>

MCInit ==
  /\ part \in {"tip", "lying", "long", "network"}
  /\ TipInit
  /\ Init /\ Cardinality(liars) = (IF part = "lying" THEN 2 ELSE 0)
  /\ NetworkInit /\ Cardinality(faulty) <= (IF part = "network" THEN 1 ELSE 0)

OneIsAway == Cardinality({chain'[h].gen : h \in DOMAIN chain'}) < Cardinality(Validator)

MCNext ==
  \/ OnTip /\ Tick
  \/ \E block \in Block : OnTip /\ Extend(block)
  \/ \E block \in Block : OnTip /\ ReplaceTip(block)
  \/ \E block \in Block : OnTip /\ MoveToChainOf(block)
  \/ OnLying /\ Next
  \/ OnLong /\ Next /\ OneIsAway
  \/ \E v \in Validator, c \in chains :
       OnNetwork /\ Forge(v, c) /\ UNCHANGED faulty
  \/ \E v \in Validator, c \in chains, mhpf \in 0..MaxChainLength :
       OnNetwork /\ ForgeFaulty(v, c, mhpf) /\ UNCHANGED faulty

MCSpec == MCInit /\ [][MCNext]_<<part, tipVars, votingVars, networkVars>>
=============================================================================
