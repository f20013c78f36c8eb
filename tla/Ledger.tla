------------------------------- MODULE Ledger -------------------------------
(***************************************************************************)
(* The tokens of the chain: the token module and the transactions of the   *)
(* DPoS module (framework/src/modules/token and modules/dpos). A step is a *)
(* transaction of the block at height + 1 or the end of that block; what   *)
(* throws leaves no trace, because its block is not applied.               *)
(*                                                                         *)
(* Amounts are counted in units of ten tokens, so every amount is a valid  *)
(* multiple. The order of the arrays in an account is left out: they are   *)
(* sorted by their content (sortUnlocking).                                *)
(***************************************************************************)
EXTENDS Integers, Sequences, Bags, FiniteSetsExt

CONSTANTS
  Account,
  Delegates,            \* those the genesis block registers
  Genesis,              \* account -> its balance in the genesis block
  MinRemaining,         \* minRemainingBalance
  Fees, MinFee,         \* what a sender may pay, and the minimal fee
  Rewarded,             \* heights with a reward of one
  Amount,               \* what is transferred or voted with
  MaxVote, MaxUnlocking,
  WaitVote, WaitSelf,   \* WAIT_TIME_VOTE, WAIT_TIME_SELF_VOTE
  PunishVoter, PunishSelf,  \* VOTER_PUNISH_TIME, SELF_VOTE_PUNISH_TIME
  PunishableDiff,       \* MAX_PUNISHABLE_BLOCK_HEIGHT_DIFFERENCE
  MaxPom,               \* MAX_POM_HEIGHTS
  UnlockFixHeight,
  Headers,              \* pairs of contradicting headers: [by, h1, h2]
  MaxHeight, MaxTx      \* bounds of the model

ASSUME LedgerAssumption ==
  /\ IsFiniteSet(Account) /\ Delegates \subseteq Account
  /\ Genesis \in [Account -> Nat]
  /\ Fees \cup {MinFee, MinRemaining} \subseteq Nat
  /\ MaxPom \in Nat \ {0}
  /\ Amount \subseteq Nat \ {0}
  /\ \A p \in Headers : p.by \in Account /\ {p.h1, p.h2} \subseteq Nat
  /\ {WaitVote, WaitSelf, PunishVoter, PunishSelf, PunishableDiff,
      UnlockFixHeight, MaxHeight} \subseteq Nat
  /\ PunishSelf >= 2 * PunishableDiff      \* constants.ts: 780000, 260000

VARIABLES
  balance,      \* account.token.balance
  votes,        \* account.dpos.sentVotes: account -> delegate -> amount
  unlocking,    \* account.dpos.unlocking: account -> bag of objects
  delegate,     \* account.dpos.delegate: [registered, received, pom, banned]
  height,       \* of the last block
  fees,         \* fees of the block in progress: [total, min]
  burnt,        \* token:burntFee
  minted,       \* history: rewards paid
  destroyed,    \* history: fees nobody got
  punished,     \* history: pairs of headers that were reported
  count         \* transactions so far

tokens == <<balance, votes, unlocking>>
books == <<burnt, minted, destroyed>>
vars == <<tokens, delegate, height, fees, books, punished, count>>

Current == height + 1
Registered == {a \in Account : delegate[a].registered}

-----------------------------------------------------------------------------
(* Heights (dpos/utils.ts). pom holds rising heights: the last is Math.max. *)

MinWaitingHeight(a, o) == o.height + (IF o.to = a THEN WaitSelf ELSE WaitVote)

LastPom(d) == delegate[d].pom[Len(delegate[d].pom)]

MinPunishedHeight(a, d) ==
  IF delegate[d].pom = <<>> THEN 0
  ELSE LastPom(d) + (IF a = d THEN PunishSelf ELSE PunishVoter)

\* Mutant: the condition before the fork is kept.
BlockedByAnyPunishment(a, o) == MinPunishedHeight(a, o.to) > Current

\* The second condition of UnlockTransactionAsset.apply.
BlockedByPunishment(a, o) ==
  /\ MinPunishedHeight(a, o.to) > Current
  /\ Current >= UnlockFixHeight => LastPom(o.to) < MinWaitingHeight(a, o)

Unlockable(a, o) ==
  /\ MinWaitingHeight(a, o) <= Current
  /\ ~BlockedByPunishment(a, o)

\* Mutant: the report does not count.
MinUnlockUnpunished(a, o) == MinWaitingHeight(a, o)

\* What the action getUnlockings tells the owner.
MinUnlockHeight(a, o) ==
  Max({MinWaitingHeight(a, o), MinPunishedHeight(a, o.to)})

-----------------------------------------------------------------------------
(* A transaction: the fee first, the balance of the sender last.           *)

Charge(fee) ==
  /\ count < MaxTx
  /\ count' = count + 1
  /\ fees' = [total |-> fees.total + fee, min |-> fees.min + MinFee]

Transfer(s, fee, r, n) ==
  /\ Charge(fee)
  /\ LET paid == [balance EXCEPT ![s] = @ - fee - n]
     IN  balance' = [paid EXCEPT ![r] = @ + n]
  /\ balance'[s] >= MinRemaining
  /\ balance'[r] >= MinRemaining
  /\ UNCHANGED <<votes, unlocking, delegate, height, books, punished>>

Register(s, fee) ==
  /\ Charge(fee)
  /\ ~delegate[s].registered
  /\ balance[s] - fee >= MinRemaining
  /\ balance' = [balance EXCEPT ![s] = @ - fee]
  /\ delegate' = [delegate EXCEPT ![s].registered = TRUE]
  /\ UNCHANGED <<votes, unlocking, height, books, punished>>

VoteAssets == UNION {[D -> Amount \cup {-n : n \in Amount}] :
                       D \in SUBSET Account \ {{}}}

Sum(f) == MapThenSumSet(LAMBDA x : f[x], DOMAIN f)

Ups(asset) == Sum([d \in DOMAIN asset |-> Max({asset[d], 0})])

\* The unlocking objects the downvotes create.
Released(s, asset) ==
  SetToBag({[to |-> d, amount |-> -asset[d], height |-> Current] :
              d \in {e \in DOMAIN asset : asset[e] < 0}})

\* Mutant: only upvotes are counted for the delegate.
ReceivedUps(d, asset) == delegate[d].received + Max({asset[d], 0})

Received(d, asset) == delegate[d].received + asset[d]

\* VoteTransactionAsset.apply. The votes are taken from the lowest amount on:
\* all downvotes come before the first upvote, so the limits are those of the
\* result.
Vote(s, fee, asset) ==
  /\ Charge(fee)
  /\ DOMAIN asset \subseteq Registered
  /\ votes' = [votes EXCEPT ![s] =
        [d \in Account |-> @[d] + IF d \in DOMAIN asset THEN asset[d] ELSE 0]]
  /\ \A d \in Account : votes'[s][d] >= 0
  /\ (\E d \in DOMAIN asset : asset[d] > 0)
        => Cardinality({d \in Account : votes'[s][d] > 0}) <= MaxVote
  /\ unlocking' = [unlocking EXCEPT ![s] = @ (+) Released(s, asset)]
  /\ (\E d \in DOMAIN asset : asset[d] < 0)
        => BagCardinality(unlocking'[s]) <= MaxUnlocking
  /\ balance' = [balance EXCEPT ![s] = @ - fee - Ups(asset)]
  /\ balance'[s] >= MinRemaining
  /\ delegate' = [d \in Account |-> IF d \in DOMAIN asset
        THEN [delegate[d] EXCEPT !.received = Received(d, asset)] ELSE delegate[d]]
  /\ UNCHANGED <<height, books, punished>>

BagTotal(b) == Sum([o \in DOMAIN b |-> o.amount * b[o]])

\* UnlockTransactionAsset.apply, for the objects of one transaction.
Unlock(s, fee) ==
  /\ Charge(fee)
  /\ \E objects \in UNION {[O -> 1..BagCardinality(unlocking[s])] :
                          O \in SUBSET BagToSet(unlocking[s]) \ {{}}} :
       /\ objects \sqsubseteq unlocking[s]
       /\ \A o \in BagToSet(objects) : Unlockable(s, o)
       /\ unlocking' = [unlocking EXCEPT ![s] = @ (-) objects]
       /\ balance' = [balance EXCEPT ![s] = @ - fee + BagTotal(objects)]
  /\ balance'[s] >= MinRemaining
  /\ UNCHANGED <<votes, delegate, height, books, punished>>

LastBlockReward == IF height \in Rewarded THEN 1 ELSE 0

\* What a report takes from the delegate.
ReportReward(d) ==
  LET spare == Max({balance[d] - MinRemaining, 0})
  IN  IF LastBlockReward > spare THEN spare ELSE LastBlockReward

Distance(a, b) == IF a > b THEN a - b ELSE b - a

\* Mutant: punished for as long as the voters are.
IsPunishedAsVoter(d) ==
  delegate[d].pom # <<>> /\ LastPom(d) + PunishVoter > Current

\* getPunishmentPeriod of delegates for themselves.
IsPunished(d) == MinPunishedHeight(d, d) > Current

\* Mutant: one report too late.
BansLate(pom) == Len(pom) > MaxPom

Bans(pom) == Len(pom) >= MaxPom

\* PomTransactionAsset.apply. The balance of the delegate is read after the fee
\* was taken, which matters when delegates report themselves.
Report(s, fee, pair) ==
  LET d == pair.by
      charged == [balance EXCEPT ![s] = @ - fee]
      reward == IF d = s THEN 0 ELSE ReportReward(d)
  IN  /\ Charge(fee)
      /\ \A h \in {pair.h1, pair.h2} : Distance(h, Current) < PunishableDiff
      /\ delegate[d].registered /\ ~delegate[d].banned
      /\ ~IsPunished(d)
      /\ delegate' = [delegate EXCEPT ![d].pom = Append(@, Current),
                        ![d].banned = Bans(Append(delegate[d].pom, Current))]
      /\ balance' = [[charged EXCEPT ![s] = @ + reward] EXCEPT ![d] = @ - reward]
      /\ balance'[s] >= MinRemaining
      /\ punished' = Append(punished, pair)
      /\ UNCHANGED <<votes, unlocking, height, books>>

-----------------------------------------------------------------------------
\* Mutant: the minimal fees are given to the generator too.
GivenAll == fees.total

\* What the generator gets of the fees.
GivenFee == fees.total - fees.min

\* TokenModule.afterBlockApply. The reward is none when the header breaks the
\* BFT rules. The minimal fees are gone, but they are only added to burntFee when
\* more than them was paid.
EndBlock(g, reward) ==
  /\ height < MaxHeight
  /\ g \in Registered
  /\ reward \in {0, IF Current \in Rewarded THEN 1 ELSE 0}
  /\ balance' = [balance EXCEPT ![g] = @ + reward + GivenFee]
  /\ burnt' = IF GivenFee > 0 THEN burnt + fees.min ELSE burnt
  /\ minted' = minted + reward
  /\ destroyed' = destroyed + fees.min
  /\ height' = Current
  /\ fees' = [total |-> 0, min |-> 0]
  /\ UNCHANGED <<votes, unlocking, delegate, punished, count>>

-----------------------------------------------------------------------------
Init ==
  /\ balance = Genesis
  /\ votes = [a \in Account |-> [d \in Account |-> 0]]
  /\ unlocking = [a \in Account |-> EmptyBag]
  /\ delegate = [a \in Account |-> [registered |-> a \in Delegates,
                                    received |-> 0, pom |-> <<>>, banned |-> FALSE]]
  /\ height = 0
  /\ fees = [total |-> 0, min |-> 0]
  /\ burnt = 0 /\ minted = 0 /\ destroyed = 0
  /\ punished = <<>>
  /\ count = 0

Next ==
  \/ \E s \in Account, fee \in Fees :
       \/ \E r \in Account, n \in Amount : Transfer(s, fee, r, n)
       \/ Register(s, fee)
       \/ \E asset \in VoteAssets : Vote(s, fee, asset)
       \/ Unlock(s, fee)
       \/ \E pair \in Headers : Report(s, fee, pair)
  \/ \E g \in Account, reward \in {0, 1} : EndBlock(g, reward)

Spec == Init /\ [][Next]_vars

-----------------------------------------------------------------------------
\* Votes are positive or absent, unlocking objects hold an amount of a past
\* height, and a delegate is banned after MaxPom reports.
TypeOK ==
  /\ \A a \in Account :
       /\ \A d \in Account : votes[a][d] \in Nat
       /\ \A o \in BagToSet(unlocking[a]) :
            o.to \in Account /\ o.amount > 0 /\ o.height \in 1..Current
  /\ \A d \in Account : delegate[d].banned <=> Len(delegate[d].pom) >= MaxPom

Locked == [a \in Account |-> Sum(votes[a]) + BagTotal(unlocking[a])]

\* No token appears or vanishes: what the accounts hold, have voted with and are
\* unlocking, with the fees of the block in progress and those destroyed, is what
\* the genesis block and the rewards created.
SupplyKept ==
  Sum(balance) + Sum(Locked) + fees.total + destroyed = Sum(Genesis) + minted

\* totalVotesReceived, from which the vote weights are taken, is the sum of what
\* the accounts voted with, self votes and repeated votes included.
VotesMatch ==
  \A d \in Account : delegate[d].received = Sum([a \in Account |-> votes[a][d]])

\* The same two headers never punish a delegate twice: the punishment lasts
\* longer than headers can be reported.
PunishedOnce == \A i, j \in DOMAIN punished : i # j => punished[i] # punished[j]

\* What its owner could unlock stays unlockable, whatever the delegate is reported
\* for later (the reason of unlockFixHeight).
StaysUnlockable ==
  [][\A a \in Account, o \in UNION {BagToSet(unlocking[b]) : b \in Account} :
       Current >= UnlockFixHeight /\ Unlockable(a, o) => Unlockable(a, o)']_vars

\* An owner who waits for the height that getUnlockings reports can unlock.
ReportedHeightSuffices ==
  \A a \in Account : \A o \in BagToSet(unlocking[a]) :
    MinUnlockHeight(a, o) <= Current => Unlockable(a, o)

\* The sums of the ledger hold.
LedgerKept == TypeOK /\ SupplyKept /\ VotesMatch

\* Reports punish once for a pair of headers, and what they forbid ends when the
\* owner is told and never begins anew.
PunishmentsHold == [](PunishedOnce /\ ReportedHeightSuffices) /\ StaysUnlockable
=============================================================================
