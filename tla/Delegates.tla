----------------------------- MODULE Delegates ------------------------------
(***************************************************************************)
(* Who forges in a round (framework/src/modules/dpos: dpos_module.ts,      *)
(* delegates.ts, rounds.ts). After every block missed slots are counted;   *)
(* after the last block of a round the vote weights are recorded for a     *)
(* later round and the list of the next round is drawn from the weights    *)
(* recorded for it.                                                        *)
(*                                                                         *)
(* Votes and reports come from transactions (module Ledger): here they set *)
(* the fields of a delegate. A random seed is any number, and the hashes   *)
(* that shuffle the list are those of Shuffles, by place.                  *)
(***************************************************************************)
EXTENDS Integers, SequencesExt

CONSTANTS
  Delegate,             \* addresses: numbers, in their order
  Active, Standby,      \* activeDelegates, standbyDelegates
  RoundOffset,          \* delegateListRoundOffset
  ActiveRoundLimit,     \* _delegateActiveRoundLimit
  CapRate, Threshold,   \* DEFAULT_VOTE_WEIGHT_CAP_RATE, _STANDBY_THRESHOLD
  PunishPeriod,         \* PUNISHMENT_PERIOD
  MaxMissed, MaxForgedDiff, \* MAX_CONSECUTIVE_MISSED_BLOCKS, MAX_LAST_FORGED_...
  BlockTime,
  Offsets,              \* how far into its slot a block may be stamped
  Votes,                \* what a delegate may hold: [self, received]
  InitVotes, InitDelegates, \* of the genesis block
  SeedPairs, Shuffles,  \* two seed numbers; roundHash of the delegates drawn
  Gaps,                 \* slots from a block to the next
  MaxTip, MaxChange     \* bounds of the model

BlocksPerRound == Active + Standby

ASSUME RoundsAssumption ==
  /\ Delegate \subseteq Nat /\ IsFiniteSet(Delegate)
  /\ Active \in Nat \ {0} /\ Standby \in 0..Active
  /\ {BlockTime, Threshold} \subseteq Nat \ {0}
  /\ {RoundOffset, ActiveRoundLimit, CapRate} \subseteq Nat
  /\ Offsets \subseteq 0..(BlockTime - 1) /\ Gaps \subseteq Nat \ {0}
  /\ Votes \subseteq [self : Nat, received : Nat]
  /\ InitVotes \in [Delegate -> [self : Nat, received : Nat]]
  /\ InitDelegates \in Seq(Delegate) /\ Len(InitDelegates) <= BlocksPerRound
  /\ \A i, j \in DOMAIN InitDelegates : InitDelegates[i] = InitDelegates[j] => i = j
  /\ \A seeds \in SeedPairs : {seeds[1], seeds[2]} \subseteq Nat
  /\ \A hash \in Shuffles :
       /\ hash \in [1..BlocksPerRound -> Nat]
       /\ \A k, l \in 1..BlocksPerRound : hash[k] = hash[l] => k = l

VARIABLES
  account,      \* account.dpos of the delegates
  weights,      \* dpos:delegateVoteWeights: round -> sequence of [d, weight]
  list,         \* the validators: sequence of [d, active]
  tip, time, \* of the last block
  finalized,    \* _finalizedHeight
  skipped,      \* history: slots of a delegate that passed since it forged
  bannedIn,     \* history: the round in which it was banned, or 0
  change        \* changes by transactions so far

roundsVars == <<account, weights, list, tip, time, finalized, skipped, bannedIn, change>>

Round(h) == (h + BlocksPerRound - 1) \div BlocksPerRound
IsLastOfRound(h) == Round(h) < Round(h + 1)

-----------------------------------------------------------------------------
(* createVoteWeightsSnapshot *)

IsCurrentlyPunished(acc, d, h) == acc[d].pom # <<>> /\ h - Last(acc[d].pom) < PunishPeriod

\* Mutant: a punished delegate keeps the weight of its votes.
UnpunishedWeight(acc, d, h) == Min({acc[d].received, acc[d].self * CapRate})

Weight(acc, d, h) ==
  IF IsCurrentlyPunished(acc, d, h) THEN 0 ELSE Min({acc[d].received, acc[d].self * CapRate})

\* Mutant: banned delegates are listed.
AllEligible(acc) == Delegate

Eligible(acc) == {d \in Delegate : ~acc[d].banned}

\* The elements of a finite set in the order of a relation, a set of pairs.
Ordered(S, before) ==
  [i \in 1..Cardinality(S) |->
     CHOOSE x \in S : Cardinality({y \in S : <<y, x>> \in before}) = i - 1]

\* The delegates by weight, highest first, and then by address.
Ranking(acc, h) ==
  LET candidates == {[d |-> d, weight |-> Weight(acc, d, h)] : d \in Eligible(acc)}
  IN  Ordered(candidates,
              {p \in candidates \X candidates :
                 \/ p[1].weight > p[2].weight
                 \/ p[1].weight = p[2].weight /\ p[1].d < p[2].d})

\* Mutant: the standby slots are filled up with whoever is there.
ListedAll(ranking) == Len(ranking)

\* The active ones, and of the others those above the threshold; below it only
\* as many as the standby slots need.
Listed(ranking) ==
  LET above == Cardinality({i \in Active+1..Len(ranking) : ranking[i].weight >= Threshold})
  IN  Min({Len(ranking), Active + Max({above, Standby})})

Snapshot(acc, h) ==
  LET ranking == Ranking(acc, h)
  IN  SubSeq(ranking, 1, Listed(ranking))

-----------------------------------------------------------------------------
(* updateDelegateList *)

\* The weight of the first n candidates.
WeightUpto(candidates, n) ==
  LET upto[k \in 0..Len(candidates)] ==
        IF k = 0 THEN 0 ELSE upto[k - 1] + candidates[k].weight
  IN  upto[n]

\* pickStandByDelegate: the candidate in whose share of the weight the seed falls.
Picked(candidates, seed) ==
  LET threshold == seed % WeightUpto(candidates, Len(candidates))
  IN  CHOOSE i \in DOMAIN candidates :
        /\ WeightUpto(candidates, i) > threshold
        /\ WeightUpto(candidates, i - 1) <= threshold

\* The seeds are used in turn.
PickedNext(candidates, seeds, k) == Picked(candidates, seeds[((k - 1) % 2) + 1])

\* The standby delegates: each one drawn leaves the candidates.
PickStandby(candidates, seeds) ==
  IF Len(candidates) <= Standby THEN [i \in DOMAIN candidates |-> candidates[i].d]
  ELSE LET left[k \in 0..Standby] ==
             IF k = 0 THEN candidates
             ELSE RemoveAt(left[k - 1], PickedNext(left[k - 1], seeds, k))
       IN  [k \in 1..Standby |-> left[k - 1][PickedNext(left[k - 1], seeds, k)].d]

\* Mutant: one standby delegate takes part in the consensus.
ParticipatesMore(k, active) == k <= active + 1

\* isConsensusParticipant, for the k-th of the delegates drawn.
Participates(k, active) == k <= active

Drawn(snapshot, seeds, hash) ==
  LET active == Min({Active, Len(snapshot)})
      chosen == [i \in 1..active |-> snapshot[i].d]
                \o PickStandby(SubSeq(snapshot, active + 1, Len(snapshot)), seeds)
      places == 1..Len(chosen)
      order == Ordered(places, {p \in places \X places : hash[p[1]] < hash[p[2]]})
  IN  [i \in DOMAIN order |-> [d |-> chosen[order[i]],
                               active |-> Participates(order[i], active)]]

-----------------------------------------------------------------------------
(* updateDelegateProductivity *)

\* Mutant: the block itself counts.
MissedInclusive(timestamp) == (timestamp - time + BlockTime - 1) \div BlockTime

\* Math.ceil of the slots between, minus the slot of the block.
Missed(timestamp) == ((timestamp - time + BlockTime - 1) \div BlockTime) - 1

\* Mutant: the delegates after the forger are charged.
MissersAfter(i, k) == ((i + k) % Len(list)) + 1

\* The k-th delegate before the forger, around the list (k from 0).
Misser(i, k) == ((i - 2 - k) % Len(list)) + 1

Productive(acc, i, h, missed) ==
  LET times(d) == Cardinality({k \in 0..missed-1 : list[Misser(i, k)].d = d})
      counted(d) == acc[d].missed + times(d)
  IN  [d \in Delegate |->
        LET bans == /\ times(d) > 0 /\ counted(d) > MaxMissed
                    /\ h - acc[d].lastForged > MaxForgedDiff
        IN  [acc[d] EXCEPT !.banned = @ \/ bans,
               !.missed = IF d = list[i].d THEN 0 ELSE counted(d),
               !.lastForged = IF d = list[i].d THEN h ELSE @]]

-----------------------------------------------------------------------------
(* DPoSModule.afterBlockApply *)

\* Mutant: rounds that are still to come are disposed of.
DisposableAhead(h) == Round(h) + RoundOffset + ActiveRoundLimit

DisposableUntil(h) == Round(h) - RoundOffset - ActiveRoundLimit

KeptWeights(h) ==
  IF h = finalized THEN weights
  ELSE [r \in {q \in DOMAIN weights : q >= DisposableUntil(h)} |-> weights[r]]

WithSnapshot(kept, r, snapshot) ==
  [q \in DOMAIN kept \cup {r} |-> IF q = r THEN snapshot ELSE kept[q]]

BansOf(acc, h) ==
  [d \in Delegate |-> IF acc[d].banned /\ bannedIn[d] = 0 THEN Round(h) ELSE bannedIn[d]]

\* The block of the delegate at place i of the list, gap slots after the last.
Block(i, gap, offset, fin) ==
  LET h == tip + 1
      slot == time \div BlockTime + gap
      timestamp == slot * BlockTime + offset
      acc == Productive(account, i, h, Missed(timestamp))
      passed(d) == Cardinality({s \in 1..gap-1 : list[((slot - s) % Len(list)) + 1].d = d})
  IN  /\ tip < MaxTip
      /\ i = (slot % Len(list)) + 1
      /\ tip' = h /\ time' = timestamp
      /\ account' = acc
      /\ bannedIn' = BansOf(acc, h)
      /\ skipped' = [d \in Delegate |->
                       IF d = list[i].d THEN 0 ELSE skipped[d] + passed(d)]
      /\ finalized' = fin
      /\ IF IsLastOfRound(h)
           THEN \E seeds \in SeedPairs, hash \in Shuffles :
                  /\ weights' = WithSnapshot(KeptWeights(fin), Round(h + 1) + RoundOffset,
                                             Snapshot(acc, h + 1))
                  /\ list' = Drawn(weights'[Round(h) + 1], seeds, hash)
           ELSE weights' = KeptWeights(fin) /\ UNCHANGED list
      /\ UNCHANGED change

-----------------------------------------------------------------------------
(* Transactions of the next block. *)

ChangeVotes(d, v) ==
  /\ change < MaxChange /\ change' = change + 1
  /\ account' = [account EXCEPT ![d].self = v.self, ![d].received = v.received]
  /\ UNCHANGED <<weights, list, tip, time, finalized, skipped, bannedIn>>

\* A report; a delegate is banned with the second of the model.
ReportDelegate(d) ==
  LET acc == [account EXCEPT ![d].pom = Append(@, tip + 1),
                             ![d].banned = account[d].pom # <<>>]
  IN  /\ change < MaxChange /\ change' = change + 1
      /\ ~account[d].banned
      /\ ~IsCurrentlyPunished(account, d, tip + 1)
      /\ account' = acc
      /\ bannedIn' = BansOf(acc, tip + 1)
      /\ UNCHANGED <<weights, list, tip, time, finalized, skipped>>

-----------------------------------------------------------------------------
\* afterGenesisBlockApply: the first rounds get the weights of the genesis block.
RoundsInit ==
  /\ account = [d \in Delegate |->
       [self |-> InitVotes[d].self, received |-> InitVotes[d].received,
        pom |-> <<>>, banned |-> FALSE, missed |-> 0, lastForged |-> 0]]
  /\ weights = [r \in 1..1 + RoundOffset |-> Snapshot(account, 0)]
  /\ list = [i \in DOMAIN InitDelegates |-> [d |-> InitDelegates[i], active |-> TRUE]]
  /\ tip = 0 /\ time = 0 /\ finalized = 0
  /\ skipped = [d \in Delegate |-> 0]
  /\ bannedIn = [d \in Delegate |-> 0]
  /\ change = 0

RoundsNext ==
  \/ \E i \in 1..BlocksPerRound, gap \in Gaps, offset \in Offsets,
        fin \in {finalized, tip} : list # <<>> /\ Block(i, gap, offset, fin)
  \/ \E d \in Delegate, v \in Votes : ChangeVotes(d, v)
  \/ \E d \in Delegate : ReportDelegate(d)

RoundsSpec == RoundsInit /\ [][RoundsNext]_roundsVars

-----------------------------------------------------------------------------
\* Nobody is listed twice, and standby delegates come on top of the active ones:
\* no more than activeDelegates take part in the consensus.
RoundsTypeOK ==
  /\ \A i, j \in DOMAIN list : i # j => list[i].d # list[j].d
  /\ Len(list) <= BlocksPerRound
  /\ tip >= BlocksPerRound
       => Cardinality({i \in DOMAIN list : list[i].active}) <= Active

\* Whenever standby delegates have to be drawn, all candidates have weight: the
\* seed is never divided by zero and a delegate is always found (updateDelegateList
\* throws if not, and no node could apply the block).
DrawingWorks ==
  \A r \in DOMAIN weights :
    LET standby == SubSeq(weights[r], Active + 1, Len(weights[r]))
    IN  Len(standby) > Standby => \A i \in DOMAIN standby : standby[i].weight > 0

\* The weights of the coming rounds are recorded and not yet disposed of, whatever
\* was finalized: the list of the next round can be drawn.
WeightsAhead ==
  \A k \in 1..RoundOffset : Round(tip + 1) + k \in DOMAIN weights

\* A banned delegate is gone from the list RoundOffset + 1 rounds later for good.
BannedLeaves ==
  \A d \in Delegate :
    bannedIn[d] > 0 /\ Round(tip + 1) > bannedIn[d] + RoundOffset
      => \A i \in DOMAIN list : list[i].d # d

\* Who is reported gets no active place in a round whose weights were recorded
\* during the punishment, unless too few others have any weight.
PunishedStandBack ==
  [][\A r \in DOMAIN weights' \ DOMAIN weights, d \in Delegate :
       /\ IsCurrentlyPunished(account', d, tip' + 1)
       /\ Cardinality({e \in Eligible(account') \ {d} :
                         Weight(account', e, tip' + 1) > 0}) >= Active
       => \A i \in 1..Min({Active, Len(weights'[r])}) : weights'[r][i].d # d]_roundsVars

\* consecutiveMissedBlocks counts the slots in which a delegate was to forge since
\* it last did: nobody is charged with the slot of another.
MissedOwnSlots == \A d \in Delegate : account[d].missed = skipped[d]

\* A round finds its snapshot and draws delegates who may forge, charges each with
\* its own slots, and sets the punished back.
RoundsHold ==
  /\ [](RoundsTypeOK /\ DrawingWorks /\ WeightsAhead /\ BannedLeaves /\ MissedOwnSlots)
  /\ PunishedStandBack
=============================================================================
