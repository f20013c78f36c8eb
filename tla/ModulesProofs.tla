---------------------------- MODULE ModulesProofs ---------------------------
(***************************************************************************)
(* Proofs about Ledger, Signatures and Delegates, for any accounts,        *)
(* headers, waiting periods, keys, delegates and votes: what a report of   *)
(* contradicting headers does to those who wait to unlock, that no token   *)
(* appears or vanishes, who can send a transaction, and who is listed for  *)
(* a round.                                                                *)
(***************************************************************************)
EXTENDS Ledger, Delegates, Signatures, FiniteSetTheorems, SequenceTheorems, TLAPS

(***************************************************************************)
(* Ledger. The pairs punished so far are all too old to be reported once   *)
(* the punishment of their delegate is over: PunishedOld is what makes     *)
(* PunishedOnce inductive.                                                 *)
(***************************************************************************)

LedgerTypes ==
  /\ height \in Nat
  /\ delegate \in [Account -> [registered : BOOLEAN, received : Int,
                               pom : Seq(Nat), banned : BOOLEAN]]
  /\ DOMAIN unlocking = Account
  /\ \A a \in Account : \A o \in DOMAIN unlocking[a] :
       o.to \in Account /\ o.height \in Nat
  /\ punished \in Seq(Headers)

PunishedOld ==
  \A i \in DOMAIN punished :
    LET d == punished[i].by
    IN  delegate[d].pom # <<>> /\ punished[i].h1 < LastPom(d) + PunishableDiff

LedgerOK == LedgerTypes /\ PunishedOld /\ PunishedOnce

\* What every step does to the reports and to the height.
ReportsGrow ==
  \A d \in Account :
    \/ delegate'[d].pom = delegate[d].pom /\ height' \in {height, Current}
    \/ delegate'[d].pom = Append(delegate[d].pom, Current) /\ height' = height

LEMMA LastIsNat ==
  ASSUME LedgerTypes, NEW d \in Account, delegate[d].pom # <<>>
  PROVE  LastPom(d) \in Nat
BY DEF LedgerTypes, LastPom

LEMMA LedgerInit ==
  ASSUME Init PROVE LedgerOK
<1>1. LedgerTypes
  BY LedgerAssumption DEF Init, LedgerTypes, EmptyBag, SetToBag
<1>2. PunishedOld /\ PunishedOnce
  BY DEF Init, PunishedOld, PunishedOnce
<1> QED  BY <1>1, <1>2 DEF LedgerOK

\* Whoever leaves reports and waiting objects as they are keeps the invariant.
LEMMA NothingReported ==
  ASSUME LedgerOK, height' \in {height, Current},
         delegate' \in [Account -> [registered : BOOLEAN, received : Int,
                                    pom : Seq(Nat), banned : BOOLEAN]],
         \A d \in Account : delegate'[d].pom = delegate[d].pom,
         DOMAIN unlocking' = Account,
         \A a \in Account : \A o \in DOMAIN unlocking'[a] :
           o.to \in Account /\ o.height \in Nat,
         UNCHANGED punished
  PROVE  LedgerOK' /\ ReportsGrow
<1>1. LedgerTypes'
  BY DEF LedgerOK, LedgerTypes, Current
<1>2. PunishedOld'
  <2> SUFFICES ASSUME NEW i \in DOMAIN punished
               PROVE  /\ delegate'[punished[i].by].pom # <<>>
                      /\ punished[i].h1 < LastPom(punished[i].by)' + PunishableDiff
    BY DEF PunishedOld
  <2>1. punished[i].by \in Account
    BY LedgerAssumption DEF LedgerOK, LedgerTypes
  <2> QED  BY <2>1 DEF LedgerOK, PunishedOld, LastPom
<1>3. PunishedOnce'
  BY DEF LedgerOK, PunishedOnce
<1> QED  BY <1>1, <1>2, <1>3 DEF LedgerOK, ReportsGrow

LEMMA AmountsAreInts ==
  \A n \in Amount \cup {-m : m \in Amount} : n \in Int
<1>1. Amount \subseteq Nat
  BY LedgerAssumption
<1> QED  BY <1>1

LEMMA SameOrNext ==
  ASSUME NEW x \in Nat, NEW y \in Nat, y = x \/ y = x + 1
  PROVE  x + 1 \in Nat /\ y + 1 \in Nat /\ y + 1 >= x + 1
OBVIOUS

LEMMA HeightGrows ==
  ASSUME LedgerTypes, LedgerTypes', height' = height \/ height' = Current
  PROVE  Current \in Nat /\ Current' \in Nat /\ Current' >= Current
BY SameOrNext DEF LedgerTypes, Current

LEMMA VoteKeeps ==
  ASSUME LedgerOK, NEW s \in Account, NEW fee \in Fees, NEW asset \in VoteAssets,
         Vote(s, fee, asset)
  PROVE  LedgerOK' /\ ReportsGrow
<1>1. PICK D \in SUBSET Account : asset \in [D -> Amount \cup {-n : n \in Amount}]
  BY DEF VoteAssets
<1>2. \A d \in DOMAIN asset : asset[d] \in Int
  BY <1>1, AmountsAreInts
<1>3. delegate' \in [Account -> [registered : BOOLEAN, received : Int,
                                 pom : Seq(Nat), banned : BOOLEAN]]
  <2> SUFFICES ASSUME NEW d \in Account
               PROVE  delegate'[d] \in [registered : BOOLEAN, received : Int,
                                        pom : Seq(Nat), banned : BOOLEAN]
    BY DEF Vote
  <2>1. CASE d \in DOMAIN asset
    <3>1. delegate'[d] = [delegate[d] EXCEPT !.received = delegate[d].received + asset[d]]
      BY <2>1 DEF Vote, Received
    <3>2. delegate[d] \in [registered : BOOLEAN, received : Int,
                           pom : Seq(Nat), banned : BOOLEAN]
      BY DEF LedgerOK, LedgerTypes
    <3> QED  BY <2>1, <3>1, <3>2, <1>2
  <2>2. CASE d \notin DOMAIN asset
    BY <2>2 DEF Vote, LedgerOK, LedgerTypes
  <2> QED  BY <2>1, <2>2
<1>4. \A d \in Account : delegate'[d].pom = delegate[d].pom
  BY DEF Vote, LedgerOK, LedgerTypes
<1>5. DOMAIN unlocking' = Account
  BY DEF Vote, LedgerOK, LedgerTypes
<1>6. ASSUME NEW a \in Account, NEW o \in DOMAIN unlocking'[a]
      PROVE  o.to \in Account /\ o.height \in Nat
  <2>1. CASE o \in DOMAIN unlocking[a]
    BY <2>1 DEF LedgerOK, LedgerTypes
  <2>2. CASE o \notin DOMAIN unlocking[a]
    <3>1. a = s /\ o \in DOMAIN Released(s, asset)
      BY <2>2 DEF Vote, LedgerOK, LedgerTypes, (+)
    <3>2. PICK d \in DOMAIN asset :
            o = [to |-> d, amount |-> -asset[d], height |-> Current]
      BY <3>1 DEF Released, SetToBag
    <3> QED  BY <3>2, <1>1 DEF Current, LedgerOK, LedgerTypes
  <2> QED  BY <2>1, <2>2
<1>7. height' = height /\ UNCHANGED punished
  BY DEF Vote
<1> QED  BY <1>3, <1>4, <1>5, <1>6, <1>7, NothingReported

LEMMA UnlockKeeps ==
  ASSUME LedgerOK, NEW s \in Account, NEW fee \in Fees, Unlock(s, fee)
  PROVE  LedgerOK' /\ ReportsGrow
<1>1. PICK objects : unlocking' = [unlocking EXCEPT ![s] = @ (-) objects]
  BY DEF Unlock
<1>2. \A a \in Account : DOMAIN unlocking'[a] \subseteq DOMAIN unlocking[a]
  BY <1>1 DEF LedgerOK, LedgerTypes, (-)
<1>3. \A a \in Account : \A o \in DOMAIN unlocking'[a] :
        o.to \in Account /\ o.height \in Nat
  BY <1>2 DEF LedgerOK, LedgerTypes
<1>4. DOMAIN unlocking' = Account
  BY <1>1 DEF LedgerOK, LedgerTypes
<1>5. UNCHANGED <<delegate, height, punished>>
  BY DEF Unlock
<1>6. delegate' \in [Account -> [registered : BOOLEAN, received : Int,
                                 pom : Seq(Nat), banned : BOOLEAN]]
  BY <1>5 DEF LedgerOK, LedgerTypes
<1> QED  BY <1>3, <1>4, <1>5, <1>6, NothingReported

LEMMA LastAppended ==
  ASSUME NEW p \in Seq(Nat), NEW c \in Nat
  PROVE  Append(p, c)[Len(Append(p, c))] = c /\ Append(p, c) # <<>>
OBVIOUS

\* A report comes after the punishment for the last one: at PunishSelf and more
\* above it, where the headers of earlier reports lie too far below.
LEMMA ReportKeeps ==
  ASSUME LedgerOK, NEW s \in Account, NEW fee \in Fees, NEW pair \in Headers,
         Report(s, fee, pair)
  PROVE  LedgerOK' /\ ReportsGrow
<1> DEFINE d == pair.by
<1>1. /\ d \in Account /\ pair.h1 \in Nat
      /\ {PunishSelf, PunishableDiff} \subseteq Nat
      /\ PunishSelf >= 2 * PunishableDiff
  BY LedgerAssumption
<1>2. Current \in Nat /\ delegate[d].pom \in Seq(Nat)
  BY <1>1 DEF LedgerOK, LedgerTypes, Current
<1>3. /\ pair.h1 < Current + PunishableDiff
      /\ Current < pair.h1 + PunishableDiff
  BY <1>1, <1>2 DEF Report, Distance
<1>4. delegate[d].pom # <<>> => Current >= LastPom(d) + PunishSelf
  BY <1>1, <1>2, LastIsNat DEF Report, IsPunished, MinPunishedHeight, LedgerOK
<1>5. delegate' = [delegate EXCEPT ![d].pom = Append(@, Current),
                     ![d].banned = Bans(Append(delegate[d].pom, Current))]
  BY DEF Report
<1>6. /\ delegate'[d].pom = Append(delegate[d].pom, Current)
      /\ \A e \in Account \ {d} : delegate'[e] = delegate[e]
  BY <1>1, <1>5 DEF LedgerOK, LedgerTypes
<1>7. UNCHANGED <<height, unlocking>> /\ punished' = Append(punished, pair)
  BY DEF Report
<1>8. LastPom(d)' = Current /\ delegate'[d].pom # <<>>
  <2>1. LET p == Append(delegate[d].pom, Current)
        IN  p[Len(p)] = Current /\ p # <<>>
    BY <1>2, LastAppended
  <2> QED  BY <2>1, <1>6 DEF LastPom
<1>9. LedgerTypes'
  <2>1. delegate' \in [Account -> [registered : BOOLEAN, received : Int,
                                   pom : Seq(Nat), banned : BOOLEAN]]
    <3>1. Append(delegate[d].pom, Current) \in Seq(Nat)
      BY <1>2
    <3>2. Bans(Append(delegate[d].pom, Current)) \in BOOLEAN
      BY DEF Bans
    <3>3. delegate \in [Account -> [registered : BOOLEAN, received : Int,
                                    pom : Seq(Nat), banned : BOOLEAN]]
      BY DEF LedgerOK, LedgerTypes
    <3>4. \A e \in Account \ {d} : delegate'[e] \in [registered : BOOLEAN, received : Int,
                                                   pom : Seq(Nat), banned : BOOLEAN]
      BY <1>6, <3>3
    <3>5. delegate'[d] = [delegate[d] EXCEPT !.pom = Append(delegate[d].pom, Current),
                            !.banned = Bans(Append(delegate[d].pom, Current))]
      BY <1>1, <1>5, <3>3
    <3>6. delegate'[d] \in [registered : BOOLEAN, received : Int,
                           pom : Seq(Nat), banned : BOOLEAN]
      BY <1>1, <3>1, <3>2, <3>3, <3>5
    <3>7. delegate' = [e \in Account |-> delegate'[e]]
      BY <1>1, <1>5, <3>3
    <3> QED  BY <3>4, <3>6, <3>7
  <2>2. punished' \in Seq(Headers)
    BY <1>7 DEF LedgerOK, LedgerTypes
  <2> QED  BY <1>7, <2>1, <2>2 DEF LedgerOK, LedgerTypes
<1>10. ASSUME NEW i \in DOMAIN punished, punished[i].by = d
       PROVE  /\ delegate[d].pom # <<>>
              /\ LastPom(d) \in Nat
              /\ punished[i].h1 < LastPom(d) + PunishableDiff
              /\ punished[i].h1 \in Nat
  <2>1. punished[i] \in Headers
    BY DEF LedgerOK, LedgerTypes
  <2>2. delegate[d].pom # <<>> /\ punished[i].h1 < LastPom(d) + PunishableDiff
    BY <1>10 DEF LedgerOK, PunishedOld
  <2>3. punished[i].h1 \in Nat
    BY <2>1, LedgerAssumption
  <2> QED  BY <1>1, <2>2, <2>3, LastIsNat DEF LedgerOK
<1>11. PunishedOld'
  <2>1. ASSUME NEW i \in DOMAIN punished, punished[i].by = d
        PROVE  punished[i].h1 < Current + PunishableDiff
    BY <2>1, <1>1, <1>2, <1>4, <1>10
  <2>2. ASSUME NEW i \in DOMAIN punished, NEW e \in Account, e = punished[i].by, e # d
        PROVE  delegate'[e].pom # <<>> /\ punished[i].h1 < LastPom(e)' + PunishableDiff
    <3>1. delegate'[e] = delegate[e] /\ LastPom(e)' = LastPom(e)
      BY <2>2, <1>6 DEF LastPom
    <3>2. delegate[e].pom # <<>> /\ punished[i].h1 < LastPom(e) + PunishableDiff
      BY <2>2 DEF LedgerOK, PunishedOld
    <3> QED  BY <3>1, <3>2
  <2>3. \A i \in DOMAIN punished' :
          \/ i \in DOMAIN punished /\ punished'[i] = punished[i]
          \/ punished'[i] = pair
    BY <1>7 DEF LedgerOK, LedgerTypes
  <2>4. \A i \in DOMAIN punished : punished[i].by \in Account
    BY LedgerAssumption DEF LedgerOK, LedgerTypes
  <2> QED  BY <2>1, <2>2, <2>3, <2>4, <1>3, <1>8 DEF PunishedOld, LastPom
<1>12. \A i \in DOMAIN punished : punished[i] # pair
  <2> SUFFICES ASSUME NEW i \in DOMAIN punished, punished[i] = pair PROVE FALSE
    OBVIOUS
  <2> QED  BY <1>1, <1>2, <1>3, <1>4, <1>10
<1>13. PunishedOnce'
  BY <1>7, <1>12 DEF LedgerOK, LedgerTypes, PunishedOnce
<1>14. ReportsGrow
  BY <1>6, <1>7 DEF ReportsGrow
<1> QED  BY <1>9, <1>11, <1>13, <1>14 DEF LedgerOK

LEMMA LedgerStep ==
  ASSUME LedgerOK, [Next]_vars
  PROVE  LedgerOK' /\ ReportsGrow
<1>0. /\ DOMAIN unlocking = Account
      /\ \A a \in Account : \A o \in DOMAIN unlocking[a] :
           o.to \in Account /\ o.height \in Nat
      /\ delegate \in [Account -> [registered : BOOLEAN, received : Int,
                                   pom : Seq(Nat), banned : BOOLEAN]]
  BY DEF LedgerOK, LedgerTypes
<1>1. ASSUME NEW s \in Account, NEW fee \in Fees, NEW r \in Account, NEW n \in Amount,
             Transfer(s, fee, r, n)
      PROVE  LedgerOK' /\ ReportsGrow
  <2>1. UNCHANGED <<delegate, height, unlocking, punished>>
    BY <1>1 DEF Transfer
  <2> QED  BY <1>0, <2>1, NothingReported
<1>2. ASSUME NEW s \in Account, NEW fee \in Fees, Register(s, fee)
      PROVE  LedgerOK' /\ ReportsGrow
  <2>1. UNCHANGED <<height, unlocking, punished>>
    BY <1>2 DEF Register
  <2>2. delegate' = [delegate EXCEPT ![s].registered = TRUE]
    BY <1>2 DEF Register
  <2>3. delegate' \in [Account -> [registered : BOOLEAN, received : Int,
                                   pom : Seq(Nat), banned : BOOLEAN]]
    BY <1>0, <2>2
  <2>4. \A d \in Account : delegate'[d].pom = delegate[d].pom
    BY <1>0, <2>2
  <2> QED  BY <1>0, <2>1, <2>3, <2>4, NothingReported
<1>3. ASSUME NEW s \in Account, NEW fee \in Fees, NEW asset \in VoteAssets,
             Vote(s, fee, asset)
      PROVE  LedgerOK' /\ ReportsGrow
  BY <1>3, VoteKeeps
<1>4. ASSUME NEW s \in Account, NEW fee \in Fees, Unlock(s, fee)
      PROVE  LedgerOK' /\ ReportsGrow
  BY <1>4, UnlockKeeps
<1>5. ASSUME NEW s \in Account, NEW fee \in Fees, NEW pair \in Headers,
             Report(s, fee, pair)
      PROVE  LedgerOK' /\ ReportsGrow
  BY <1>5, ReportKeeps
<1>6. ASSUME NEW g \in Account, NEW reward \in {0, 1}, EndBlock(g, reward)
      PROVE  LedgerOK' /\ ReportsGrow
  <2>1. UNCHANGED <<delegate, unlocking, punished>> /\ height' = Current
    BY <1>6 DEF EndBlock
  <2> QED  BY <1>0, <2>1, NothingReported
<1>7. CASE UNCHANGED vars
  <2>1. UNCHANGED <<delegate, height, unlocking, punished>>
    BY <1>7 DEF vars, tokens
  <2> QED  BY <1>0, <2>1, NothingReported
<1> QED  BY <1>1, <1>2, <1>3, <1>4, <1>5, <1>6, <1>7 DEF Next

\* Both bounds of the owner's height are numbers, and the greater one is reached
\* when both are.
LEMMA BothReached ==
  ASSUME NEW x \in Int, NEW y \in Int, NEW z \in Int, Max({x, y}) <= z
  PROVE  x <= z /\ y <= z
<1>1. \E m \in {x, y} : \A n \in {x, y} : m >= n
  BY DEF Max
<1>2. Max({x, y}) \in {x, y} /\ \A n \in {x, y} : Max({x, y}) >= n
  BY <1>1 DEF Max
<1> QED  BY <1>2

LEMMA PunishedHeightIsNat ==
  ASSUME LedgerTypes, NEW a \in Account, NEW d \in Account
  PROVE  MinPunishedHeight(a, d) \in Nat
<1>1. PunishSelf \in Nat /\ PunishVoter \in Nat
  BY LedgerAssumption
<1>2. delegate[d].pom # <<>> => LastPom(d) \in Nat
  BY LastIsNat
<1> QED  BY <1>1, <1>2 DEF MinPunishedHeight

LEMMA ReportedSuffices ==
  ASSUME LedgerOK PROVE ReportedHeightSuffices
<1> SUFFICES ASSUME NEW a \in Account, NEW o \in DOMAIN unlocking[a],
                    MinUnlockHeight(a, o) <= Current
             PROVE  Unlockable(a, o)
  BY DEF ReportedHeightSuffices, BagToSet
<1>1. o.to \in Account /\ o.height \in Nat /\ Current \in Nat
  BY DEF LedgerOK, LedgerTypes, Current
<1>2. MinWaitingHeight(a, o) \in Nat
  BY <1>1, LedgerAssumption DEF MinWaitingHeight
<1>3. MinPunishedHeight(a, o.to) \in Nat
  BY <1>1, PunishedHeightIsNat DEF LedgerOK
<1>4. MinWaitingHeight(a, o) <= Current /\ MinPunishedHeight(a, o.to) <= Current
  BY <1>1, <1>2, <1>3, BothReached DEF MinUnlockHeight
<1> QED  BY <1>1, <1>3, <1>4 DEF Unlockable, BlockedByPunishment

\* A new report lies at the current height, to which its owner has waited already.
LEMMA UnlockableStays ==
  ASSUME LedgerOK, LedgerOK', ReportsGrow,
         NEW a \in Account,
         NEW o \in UNION {BagToSet(unlocking[b]) : b \in Account},
         Current >= UnlockFixHeight, Unlockable(a, o)
  PROVE  Unlockable(a, o)'
<1> DEFINE d == o.to
<1>1. d \in Account /\ o.height \in Nat /\ Current \in Nat /\ UnlockFixHeight \in Nat
  <2>1. d \in Account /\ o.height \in Nat /\ Current \in Nat
    BY DEF LedgerOK, LedgerTypes, Current, BagToSet
  <2> QED  BY <2>1, LedgerAssumption
<1>2. MinWaitingHeight(a, o) \in Nat /\ MinWaitingHeight(a, o) <= Current
  BY <1>1, LedgerAssumption DEF MinWaitingHeight, Unlockable
<1>3. Current' \in Nat /\ Current' >= Current
  BY <1>1, HeightGrows DEF ReportsGrow, LedgerOK
<1>4. MinWaitingHeight(a, o) <= Current'
  BY <1>1, <1>2, <1>3
<1>5. CASE delegate'[d].pom = delegate[d].pom
  <2>1. /\ MinPunishedHeight(a, d)' = MinPunishedHeight(a, d)
        /\ LastPom(d)' = LastPom(d)
    BY <1>5 DEF MinPunishedHeight, LastPom
  <2>2. \/ MinPunishedHeight(a, d) <= Current
        \/ delegate[d].pom # <<>> /\ LastPom(d) >= MinWaitingHeight(a, o)
    <3>1. MinPunishedHeight(a, d) \in Nat
      BY <1>1, PunishedHeightIsNat DEF LedgerOK
    <3>2. CASE delegate[d].pom = <<>>
      BY <3>2, <1>1 DEF MinPunishedHeight
    <3>3. CASE delegate[d].pom # <<>>
      <4>1. LastPom(d) \in Nat
        BY <1>1, <3>3, LastIsNat DEF LedgerOK
      <4> QED  BY <4>1, <3>1, <3>3, <1>1, <1>2 DEF Unlockable, BlockedByPunishment
    <3> QED  BY <3>2, <3>3
  <2>3. CASE MinPunishedHeight(a, d) <= Current
    <3>1. ~(MinPunishedHeight(a, d) > Current')
      BY <2>3, <1>1, <1>3, PunishedHeightIsNat DEF LedgerOK
    <3> QED  BY <3>1, <2>1, <1>4 DEF Unlockable, BlockedByPunishment, MinWaitingHeight
  <2>4. CASE delegate[d].pom # <<>> /\ LastPom(d) >= MinWaitingHeight(a, o)
    <3>1. LastPom(d) \in Nat
      BY <2>4, <1>1, LastIsNat DEF LedgerOK
    <3>2. Current' >= UnlockFixHeight /\ ~(LastPom(d)' < MinWaitingHeight(a, o))
      BY <2>1, <2>4, <3>1, <1>1, <1>2, <1>3
    <3> QED  BY <3>2, <1>4 DEF Unlockable, BlockedByPunishment, MinWaitingHeight
  <2> QED  BY <2>2, <2>3, <2>4
<1>6. CASE delegate'[d].pom = Append(delegate[d].pom, Current) /\ height' = height
  <2>1. LastPom(d)' = Current
    BY <1>1, <1>6, LastAppended DEF LastPom, LedgerOK, LedgerTypes
  <2>2. Current' >= UnlockFixHeight /\ ~(LastPom(d)' < MinWaitingHeight(a, o))
    BY <2>1, <1>1, <1>2, <1>3
  <2> QED  BY <2>2, <1>4 DEF Unlockable, BlockedByPunishment, MinWaitingHeight
<1> QED  BY <1>1, <1>5, <1>6 DEF ReportsGrow

\* Whatever the periods are, as long as a punishment lasts twice as long as headers
\* can be reported: no pair of headers punishes twice, who waits for the height that
\* getUnlockings reports can unlock, and what could be unlocked stays so.
THEOREM PunishmentsStay == Spec => PunishmentsHold
<1>1. Init => LedgerOK
  BY LedgerInit
<1>2. LedgerOK /\ [Next]_vars => LedgerOK'
  BY LedgerStep
<1>3. LedgerOK => PunishedOnce /\ ReportedHeightSuffices
  BY ReportedSuffices DEF LedgerOK
<1>4. LedgerOK /\ [Next]_vars =>
        [\A a \in Account, o \in UNION {BagToSet(unlocking[b]) : b \in Account} :
           Current >= UnlockFixHeight /\ Unlockable(a, o) => Unlockable(a, o)']_vars
  BY LedgerStep, UnlockableStays
<1> QED  BY <1>1, <1>2, <1>3, <1>4, PTL DEF Spec, PunishmentsHold, StaysUnlockable

-----------------------------------------------------------------------------
(***************************************************************************)
(* Sums. MapThenSumSet adds up a set element by element, in an order of    *)
(* its own. Its recursion is unfolded once, in SumExists and AnyOrder;     *)
(* after that a sum is what IsTotal says. In place of an induction, a      *)
(* smallest set that is summed up wrongly leads to a contradiction.        *)
(***************************************************************************)

IsSum(g, D, F) ==
  g = [s \in SUBSET D |-> IF s = {} THEN 0
                          ELSE F[CHOOSE x \in s : TRUE] + g[s \ {CHOOSE x \in s : TRUE}]]

IsTotal(g, D, F) ==
  /\ g \in [SUBSET D -> Int]
  /\ g[{}] = 0
  /\ \A s \in SUBSET D : \A a \in s : g[s] = F[a] + g[s \ {a}]

LEMMA SmallestSet ==
  ASSUME NEW D, IsFiniteSet(D), NEW C \in SUBSET SUBSET D, C # {}
  PROVE  \E s \in C : \A x \in s : s \ {x} \notin C
<1>1. IsWellFoundedOn(StrictSubsetOrdering(D), FiniteSubsetsOf(D))
  BY FS_StrictSubsetOrderingWellFounded
<1>2. C \subseteq FiniteSubsetsOf(D)
  BY FS_FiniteSubsetsOfFinite
<1>3. PICK s \in C : \A y \in C : ~(<<y, s>> \in StrictSubsetOrdering(D))
  BY <1>1, <1>2, WFMin
<1>4. ASSUME NEW x \in s, s \ {x} \in C PROVE FALSE
  <2>1. <<s \ {x}, s>> \in StrictSubsetOrdering(D)
    BY DEF StrictSubsetOrdering
  <2> QED  BY <1>3, <1>4, <2>1
<1> QED  BY <1>4

LEMMA LeastNumber ==
  ASSUME NEW C \in SUBSET Nat, C # {}
  PROVE  \E n \in C : n - 1 \notin C
<1> DEFINE Less == {p \in Nat \X Nat : p[1] < p[2]}
<1>1. IsWellFoundedOn(Less, Nat)
  BY NatLessThanWellFounded DEF OpToRel
<1>2. PICK n \in C : \A m \in C : ~(<<m, n>> \in Less)
  BY <1>1, WFMin, Zenon
<1>3. ASSUME n - 1 \in C PROVE FALSE
  <2>1. <<n - 1, n>> \in Less
    BY <1>3
  <2> QED  BY <1>2, <1>3, <2>1, Zenon
<1> QED  BY <1>3

\* Up to a size the recursion has a solution, hence for all subsets.
LEMMA SumExists ==
  ASSUME NEW D, IsFiniteSet(D), NEW F
  PROVE  \E g : IsSum(g, D, F)
<1> DEFINE Small(n) == {s \in SUBSET D : Cardinality(s) <= n}
           pick(s) == CHOOSE x \in s : TRUE
           Step(g, n) == [s \in Small(n) |-> IF s = {} THEN 0 ELSE F[pick(s)] + g[s \ {pick(s)}]]
           Solved(n) == \E g : g = Step(g, n)
<1>1. \A s \in SUBSET D : IsFiniteSet(s) /\ Cardinality(s) \in Nat
  BY FS_Subset, FS_CardinalityType
<1>2. \A s \in SUBSET D : s # {} =>
        /\ pick(s) \in s /\ s \ {pick(s)} \in SUBSET D
        /\ Cardinality(s \ {pick(s)}) = Cardinality(s) - 1
  BY <1>1, FS_RemoveElement
<1>3. \A s \in SUBSET D : Cardinality(s) = 0 => s = {}
  BY <1>1, FS_EmptySet
<1> HIDE DEF pick
<1>4. \A n \in Nat : Solved(n)
  <2> SUFFICES ASSUME {n \in Nat : ~Solved(n)} # {} PROVE FALSE
    OBVIOUS
  <2>1. PICK n \in {m \in Nat : ~Solved(m)} : n - 1 \notin {m \in Nat : ~Solved(m)}
    <3> HIDE DEF Solved
    <3> QED  BY LeastNumber
  <2>2. CASE n = 0
    <3> DEFINE g == [s \in Small(0) |-> 0]
    <3>1. g = Step(g, 0)
      BY <1>1, <1>3
    <3> QED  BY <2>1, <2>2, <3>1
  <2>3. CASE n # 0
    <3>1. n - 1 \in Nat
      BY <2>3
    <3>2. Solved(n - 1)
      BY <2>1, <3>1
    <3>3. PICK g : g = Step(g, n - 1)
      BY <3>2
    <3> DEFINE h == Step(g, n)
    <3>4. \A s \in Small(n) : s # {} => s \ {pick(s)} \in Small(n - 1)
      BY <1>1, <1>2, <3>1
    <3>5. ASSUME NEW s \in Small(n - 1) PROVE h[s] = g[s]
      <4>1. s \in Small(n)
        BY <1>1, <3>1
      <4>2. h[s] = IF s = {} THEN 0 ELSE F[pick(s)] + g[s \ {pick(s)}]
        BY <4>1
      <4>3. g[s] = IF s = {} THEN 0 ELSE F[pick(s)] + g[s \ {pick(s)}]
        BY <3>3
      <4> QED  BY <4>2, <4>3
    <3> HIDE DEF h
    <3>6. \A s \in Small(n) : s # {} => h[s \ {pick(s)}] = g[s \ {pick(s)}]
      BY <3>4, <3>5
    <3>7. h = Step(h, n)
      BY <3>6 DEF h
    <3> QED  BY <2>1, <3>7
  <2> QED  BY <2>2, <2>3
<1>5. Cardinality(D) \in Nat /\ Small(Cardinality(D)) = SUBSET D
  <2>1. \A s \in SUBSET D : Cardinality(s) <= Cardinality(D)
    BY FS_Subset
  <2> QED  BY <1>1, <2>1
<1>6. PICK g : g = Step(g, Cardinality(D))
  BY <1>4, <1>5
<1>7. IsSum(g, D, F)
  BY <1>5, <1>6 DEF IsSum, pick
<1> QED  BY <1>7

LEMMA SumTypes ==
  ASSUME NEW D, IsFiniteSet(D), NEW F \in [D -> Int], NEW g, IsSum(g, D, F)
  PROVE  g \in [SUBSET D -> Int] /\ g[{}] = 0
<1> DEFINE C == {s \in SUBSET D : g[s] \notin Int}
<1>1. \A s \in SUBSET D : g[s] = IF s = {} THEN 0
          ELSE F[CHOOSE x \in s : TRUE] + g[s \ {CHOOSE x \in s : TRUE}]
  BY DEF IsSum
<1>2. ASSUME C # {} PROVE FALSE
  <2>1. PICK s \in C : \A x \in s : s \ {x} \notin C
    <3> HIDE DEF C
    <3>1. C \in SUBSET SUBSET D
      BY DEF C
    <3> QED  BY <1>2, <3>1, SmallestSet
  <2>2. s # {}
    BY <1>1, <2>1
  <2>3. PICK x \in s : x = CHOOSE y \in s : TRUE
    BY <2>2
  <2>4. g[s] = F[x] + g[s \ {x}]
    BY <1>1, <2>2, <2>3
  <2>5. g[s \ {x}] \in Int /\ F[x] \in Int
    BY <2>1, <2>3
  <2> QED  BY <2>1, <2>4, <2>5
<1>3. g = [s \in SUBSET D |-> g[s]]
  BY DEF IsSum
<1> QED  BY <1>1, <1>2, <1>3

\* It does not matter which element is taken first.
LEMMA AnyOrder ==
  ASSUME NEW D, IsFiniteSet(D), NEW F \in [D -> Int], NEW g, IsSum(g, D, F)
  PROVE  IsTotal(g, D, F)
<1> DEFINE C == {s \in SUBSET D : \E a \in s : g[s] # F[a] + g[s \ {a}]}
<1>1. g \in [SUBSET D -> Int] /\ g[{}] = 0
  BY SumTypes
<1>2. \A s \in SUBSET D : s # {} =>
        g[s] = F[CHOOSE x \in s : TRUE] + g[s \ {CHOOSE x \in s : TRUE}]
  BY DEF IsSum
<1>3. ASSUME C # {} PROVE FALSE
  <2>1. PICK s \in C : \A x \in s : s \ {x} \notin C
    <3> HIDE DEF C
    <3>1. C \in SUBSET SUBSET D
      BY DEF C
    <3> QED  BY <1>3, <3>1, SmallestSet
  <2>2. PICK a \in s : g[s] # F[a] + g[s \ {a}]
    BY <2>1
  <2>3. PICK c \in s : c = CHOOSE x \in s : TRUE
    BY <2>2
  <2>4. g[s] = F[c] + g[s \ {c}]
    BY <1>2, <2>2, <2>3
  <2>5. a # c
    BY <2>2, <2>4
  <2> DEFINE r == (s \ {c}) \ {a}
  <2>6. g[s \ {c}] = F[a] + g[r]
    BY <2>1, <2>5
  <2>7. g[s \ {a}] = F[c] + g[r]
    <3>1. s \ {a} \in SUBSET D /\ c \in s \ {a} /\ s \ {a} \notin C
      BY <2>1, <2>5
    <3>2. (s \ {a}) \ {c} = r
      OBVIOUS
    <3> QED  BY <3>1, <3>2
  <2>8. F[a] \in Int /\ F[c] \in Int /\ g[r] \in Int
    BY <1>1, <2>1
  <2> HIDE DEF r
  <2> QED  BY <2>2, <2>4, <2>6, <2>7, <2>8
<1> QED  BY <1>1, <1>3 DEF IsTotal

LEMMA SumIsTotal ==
  ASSUME NEW D, IsFiniteSet(D), NEW F \in [D -> Int]
  PROVE  \E g : IsTotal(g, D, F) /\ Sum(F) = g[D]
<1>1. Sum(F) = (CHOOSE g : IsSum(g, D, F))[D]
  <2>1. DOMAIN F = D
    OBVIOUS
  <2>2. Sum(F) = (CHOOSE g : IsSum(g, DOMAIN F, F))[DOMAIN F]
    BY DEF Sum, MapThenSumSet, MapThenFoldSet, IsSum
  <2> QED  BY <2>1, <2>2
<1>2. IsSum(CHOOSE g : IsSum(g, D, F), D, F)
  BY SumExists
<1> QED  BY <1>1, <1>2, AnyOrder

LEMMA TotalUnique ==
  ASSUME NEW D, IsFiniteSet(D), NEW F \in [D -> Int],
         NEW g, IsTotal(g, D, F), NEW h, IsTotal(h, D, F)
  PROVE  g[D] = h[D]
<1> DEFINE C == {s \in SUBSET D : g[s] # h[s]}
<1>1. ASSUME C # {} PROVE FALSE
  <2>1. PICK s \in C : \A x \in s : s \ {x} \notin C
    <3> HIDE DEF C
    <3>1. C \in SUBSET SUBSET D
      BY DEF C
    <3> QED  BY <1>1, <3>1, SmallestSet
  <2>2. s # {}
    BY <2>1 DEF IsTotal
  <2>3. PICK a \in s : TRUE
    BY <2>2
  <2>4. g[s] = F[a] + g[s \ {a}] /\ h[s] = F[a] + h[s \ {a}]
    BY DEF IsTotal
  <2>5. g[s \ {a}] = h[s \ {a}]
    BY <2>1
  <2> QED  BY <2>1, <2>4, <2>5
<1> QED  BY <1>1

LEMMA SumType ==
  ASSUME NEW D, IsFiniteSet(D), NEW F \in [D -> Int]
  PROVE  Sum(F) \in Int
<1>1. PICK g : IsTotal(g, D, F) /\ Sum(F) = g[D]
  BY SumIsTotal
<1> QED  BY <1>1 DEF IsTotal

LEMMA SumAdd ==
  ASSUME NEW D, IsFiniteSet(D), NEW F \in [D -> Int], NEW G \in [D -> Int]
  PROVE  Sum([x \in D |-> F[x] + G[x]]) = Sum(F) + Sum(G)
<1> DEFINE H == [x \in D |-> F[x] + G[x]]
<1>1. H \in [D -> Int]
  OBVIOUS
<1>2. PICK f : IsTotal(f, D, F) /\ Sum(F) = f[D]
  BY SumIsTotal
<1>3. PICK g : IsTotal(g, D, G) /\ Sum(G) = g[D]
  BY SumIsTotal
<1>4. PICK h : IsTotal(h, D, H) /\ Sum(H) = h[D]
  <2> HIDE DEF H
  <2> QED  BY <1>1, SumIsTotal
<1> DEFINE k == [s \in SUBSET D |-> f[s] + g[s]]
<1>5. k \in [SUBSET D -> Int] /\ k[{}] = 0
  BY <1>2, <1>3 DEF IsTotal
<1>6. \A s \in SUBSET D : \A a \in s : k[s] = H[a] + k[s \ {a}]
  <2> SUFFICES ASSUME NEW s \in SUBSET D, NEW a \in s PROVE k[s] = H[a] + k[s \ {a}]
    OBVIOUS
  <2>1. f[s] = F[a] + f[s \ {a}] /\ g[s] = G[a] + g[s \ {a}]
    BY <1>2, <1>3 DEF IsTotal
  <2>2. f[s \ {a}] \in Int /\ g[s \ {a}] \in Int /\ F[a] \in Int /\ G[a] \in Int
    BY <1>2, <1>3 DEF IsTotal
  <2> QED  BY <2>1, <2>2
<1>7. IsTotal(k, D, H)
  BY <1>5, <1>6 DEF IsTotal
<1> HIDE DEF H, k
<1>8. h[D] = k[D]
  BY <1>1, <1>4, <1>7, TotalUnique
<1> QED  BY <1>2, <1>3, <1>4, <1>8 DEF H, k

\* Zeros may be left out.
LEMMA SumExtend ==
  ASSUME NEW E, IsFiniteSet(E), NEW F \in [E -> Int], NEW D \in SUBSET E,
         \A x \in E \ D : F[x] = 0,
         NEW G \in [D -> Int], \A x \in D : G[x] = F[x]
  PROVE  Sum(F) = Sum(G)
<1>1. IsFiniteSet(D)
  BY FS_Subset
<1>2. PICK f : IsTotal(f, E, F) /\ Sum(F) = f[E]
  BY SumIsTotal
<1>3. PICK g : IsTotal(g, D, G) /\ Sum(G) = g[D]
  BY <1>1, SumIsTotal
<1> DEFINE k == [s \in SUBSET E |-> g[s \cap D]]
<1>4. k \in [SUBSET E -> Int] /\ k[{}] = 0
  BY <1>3 DEF IsTotal
<1>5. \A s \in SUBSET E : \A a \in s : k[s] = F[a] + k[s \ {a}]
  <2> SUFFICES ASSUME NEW s \in SUBSET E, NEW a \in s PROVE k[s] = F[a] + k[s \ {a}]
    OBVIOUS
  <2>1. CASE a \in D
    <3>1. (s \ {a}) \cap D = (s \cap D) \ {a} /\ a \in s \cap D
      BY <2>1
    <3>2. g[s \cap D] = G[a] + g[(s \cap D) \ {a}]
      BY <1>3, <3>1 DEF IsTotal
    <3> QED  BY <2>1, <3>1, <3>2
  <2>2. CASE a \notin D
    <3>1. (s \ {a}) \cap D = s \cap D /\ F[a] = 0
      BY <2>2
    <3>2. g[s \cap D] \in Int
      BY <1>3 DEF IsTotal
    <3>3. k[s] = g[s \cap D] /\ k[s \ {a}] = g[(s \ {a}) \cap D]
      OBVIOUS
    <3> HIDE DEF k
    <3> QED  BY <3>1, <3>2, <3>3
  <2> QED  BY <2>1, <2>2
<1>6. k[E] = g[D]
  <2>1. E \cap D = D
    OBVIOUS
  <2> QED  BY <2>1
<1>7. IsTotal(k, E, F)
  BY <1>4, <1>5 DEF IsTotal
<1> HIDE DEF k
<1>8. f[E] = k[E]
  BY <1>2, <1>7, TotalUnique
<1> QED  BY <1>2, <1>3, <1>6, <1>8

LEMMA SumEmpty ==
  ASSUME NEW F \in [{} -> Int] PROVE Sum(F) = 0
BY SumIsTotal, FS_EmptySet DEF IsTotal

LEMMA SumZero ==
  ASSUME NEW D, IsFiniteSet(D), NEW F \in [D -> Int], \A x \in D : F[x] = 0
  PROVE  Sum(F) = 0
<1> DEFINE G == [x \in {} |-> F[x]]
<1> DEFINE none == {}
<1>1. /\ none \in SUBSET D /\ G \in [none -> Int]
      /\ \A x \in none : G[x] = F[x]
      /\ \A x \in D \ none : F[x] = 0
  OBVIOUS
<1>2. Sum(F) = Sum(G)
  <2> HIDE DEF G, none
  <2> QED  BY <1>1, SumExtend
<1> QED  BY <1>1, <1>2, SumEmpty

LEMMA SumRemove ==
  ASSUME NEW D, IsFiniteSet(D), NEW F \in [D -> Int], NEW a \in D,
         NEW R \in [D \ {a} -> Int], \A x \in D \ {a} : R[x] = F[x]
  PROVE  Sum(F) = F[a] + Sum(R)
<1> DEFINE Z == [x \in D |-> IF x = a THEN 0 ELSE F[x]]
<1>1. Z \in [D -> Int]
  OBVIOUS
<1>2. PICK f : IsTotal(f, D, F) /\ Sum(F) = f[D]
  BY SumIsTotal
<1>3. PICK z : IsTotal(z, D, Z) /\ Sum(Z) = z[D]
  <2> HIDE DEF Z
  <2> QED  BY <1>1, SumIsTotal
<1>4. Sum(Z) = Sum(R)
  <2>1. D \ {a} \in SUBSET D /\ \A x \in D \ (D \ {a}) : Z[x] = 0
    OBVIOUS
  <2>2. \A x \in D \ {a} : R[x] = Z[x]
    OBVIOUS
  <2> HIDE DEF Z
  <2> QED  BY <1>1, <2>1, <2>2, SumExtend
<1> DEFINE k == [s \in SUBSET D |-> IF a \in s THEN F[a] + z[s] ELSE z[s]]
<1>6. k \in [SUBSET D -> Int] /\ k[{}] = 0
  BY <1>3 DEF IsTotal
<1>7. \A s \in SUBSET D : \A b \in s : k[s] = F[b] + k[s \ {b}]
  <2> SUFFICES ASSUME NEW s \in SUBSET D, NEW b \in s PROVE k[s] = F[b] + k[s \ {b}]
    OBVIOUS
  <2>1. z[s] = Z[b] + z[s \ {b}] /\ z[s \ {b}] \in Int
    BY <1>3 DEF IsTotal
  <2>2. CASE b = a
    BY <2>1, <2>2
  <2>3. CASE b # a
    BY <2>1, <2>3
  <2> QED  BY <2>2, <2>3
<1>8. k[D] = F[a] + z[D]
  OBVIOUS
<1>9. IsTotal(k, D, F)
  BY <1>6, <1>7 DEF IsTotal
<1> HIDE DEF Z, k
<1>10. f[D] = k[D]
  BY <1>2, <1>9, TotalUnique
<1> QED  BY <1>2, <1>3, <1>4, <1>8, <1>10

LEMMA SumChange ==
  ASSUME NEW D, IsFiniteSet(D), NEW F \in [D -> Int], NEW a \in D, NEW x \in Int,
         NEW G \in [D -> Int], G[a] = F[a] + x, \A b \in D \ {a} : G[b] = F[b]
  PROVE  Sum(G) = Sum(F) + x
<1> DEFINE R == [b \in D \ {a} |-> F[b]]
<1>1. R \in [D \ {a} -> Int] /\ IsFiniteSet(D \ {a})
  BY FS_Subset
<1>2. \A b \in D \ {a} : R[b] = F[b] /\ R[b] = G[b]
  OBVIOUS
<1> HIDE DEF R
<1>3. Sum(F) = F[a] + Sum(R) /\ Sum(G) = G[a] + Sum(R)
  BY <1>1, <1>2, SumRemove
<1>4. Sum(R) \in Int
  BY <1>1, SumType
<1> QED  BY <1>3, <1>4

\* Renaming what is summed does not change the sum.
LEMMA SumRename ==
  ASSUME NEW D, IsFiniteSet(D), NEW E, IsFiniteSet(E), NEW p \in [D -> E],
         \A x, y \in D : p[x] = p[y] => x = y,
         \A e \in E : \E x \in D : p[x] = e,
         NEW F \in [E -> Int]
  PROVE  Sum([x \in D |-> F[p[x]]]) = Sum(F)
<1> DEFINE G == [x \in D |-> F[p[x]]]
           image(s) == {p[x] : x \in s}
<1>1. G \in [D -> Int]
  OBVIOUS
<1>2. PICK f : IsTotal(f, E, F) /\ Sum(F) = f[E]
  BY SumIsTotal
<1>3. PICK g : IsTotal(g, D, G) /\ Sum(G) = g[D]
  <2> HIDE DEF G
  <2> QED  BY <1>1, SumIsTotal
<1> DEFINE k == [s \in SUBSET D |-> f[image(s)]]
<1>4. image({}) = {} /\ image(D) = E /\ \A s \in SUBSET D : image(s) \in SUBSET E
  OBVIOUS
<1>5. k \in [SUBSET D -> Int] /\ k[{}] = 0
  BY <1>2, <1>4 DEF IsTotal
<1>6. \A s \in SUBSET D : \A a \in s : k[s] = G[a] + k[s \ {a}]
  <2> SUFFICES ASSUME NEW s \in SUBSET D, NEW a \in s PROVE k[s] = G[a] + k[s \ {a}]
    OBVIOUS
  <2>1. image(s \ {a}) = image(s) \ {p[a]} /\ p[a] \in image(s)
    OBVIOUS
  <2>2. f[image(s)] = F[p[a]] + f[image(s) \ {p[a]}]
    BY <1>2, <1>4, <2>1 DEF IsTotal
  <2>3. k[s] = f[image(s)] /\ k[s \ {a}] = f[image(s \ {a})] /\ G[a] = F[p[a]]
    OBVIOUS
  <2> HIDE DEF image, k, G
  <2> QED  BY <2>1, <2>2, <2>3
<1>7. k[D] = f[E]
  BY <1>4
<1>8. IsTotal(k, D, G)
  <2> HIDE DEF G, k
  <2> QED  BY <1>5, <1>6 DEF IsTotal
<1> HIDE DEF G, k, image
<1>9. g[D] = k[D]
  BY <1>1, <1>3, <1>8, TotalUnique
<1> QED  BY <1>2, <1>3, <1>7, <1>9 DEF G

(***************************************************************************)
(* The sums of the ledger. Every step changes the balance, the votes and   *)
(* the waiting objects of at most three accounts, so a sum changes by what *)
(* SumChange says; votes and waiting objects change by a whole map or bag  *)
(* at once, which SumAdd, SumExtend and SumRename take apart.              *)
(***************************************************************************)

IsWaiting(o, h) == o.to \in Account /\ o.amount \in Nat \ {0} /\ o.height \in 1..h

Waiting(b) ==
  /\ IsFiniteSet(DOMAIN b) /\ b \in [DOMAIN b -> Nat \ {0}]
  /\ \A o \in DOMAIN b : IsWaiting(o, Current)

BooksTypes ==
  /\ balance \in [Account -> Int]
  /\ votes \in [Account -> [Account -> Nat]]
  /\ fees \in [total : Int, min : Int]
  /\ minted \in Int /\ destroyed \in Int

WaitingOK == \A a \in Account : Waiting(unlocking[a])

BansOK == \A d \in Account : delegate[d].banned <=> Len(delegate[d].pom) >= MaxPom

BooksOK ==
  LedgerOK /\ BooksTypes /\ WaitingOK /\ BansOK /\ SupplyKept /\ VotesMatch

\* The amounts of a bag, over a larger set of objects.
CountOf(b, o) == IF o \in DOMAIN b THEN b[o] ELSE 0
Counts(b, D) == [o \in D |-> o.amount * CountOf(b, o)]

HaveAmounts(D) == \A o \in D : o.amount \in Int

LEMMA Product ==
  ASSUME NEW x \in Int, NEW y \in Int, NEW z \in Int
  PROVE  x * y \in Int /\ x * (y + z) = x * y + x * z /\ x * 1 = x /\ x * 0 = 0
OBVIOUS

LEMMA BagOver ==
  ASSUME NEW D, IsFiniteSet(D), HaveAmounts(D),
         NEW E \in SUBSET D, NEW b \in [E -> Int]
  PROVE  Counts(b, D) \in [D -> Int] /\ BagTotal(b) = Sum(Counts(b, D))
<1> DEFINE F == Counts(b, D)
           G == [o \in E |-> o.amount * b[o]]
<1>1. \A o \in D : CountOf(b, o) \in Int
  BY DEF CountOf
<1>2. \A o \in D : o.amount * CountOf(b, o) \in Int
  BY <1>1, Product DEF HaveAmounts
<1>3. F \in [D -> Int]
  BY <1>2 DEF Counts
<1>4. \A o \in D \ E : F[o] = 0
  BY Product DEF Counts, CountOf, HaveAmounts
<1>5. G \in [E -> Int] /\ \A o \in E : G[o] = F[o]
  BY <1>3 DEF Counts, CountOf
<1>6. BagTotal(b) = Sum(G)
  BY DEF BagTotal
<1> HIDE DEF F, G
<1>7. Sum(F) = Sum(G)
  BY <1>3, <1>4, <1>5, SumExtend
<1> QED  BY <1>3, <1>6, <1>7 DEF F

\* The bag r holds what b and c hold together.
LEMMA BagsAdd ==
  ASSUME NEW D, IsFiniteSet(D), HaveAmounts(D),
         NEW b, b \in [DOMAIN b -> Int], DOMAIN b \subseteq D,
         NEW c, c \in [DOMAIN c -> Int], DOMAIN c \subseteq D,
         NEW r, r \in [DOMAIN r -> Int], DOMAIN r \subseteq D,
         \A o \in D : CountOf(r, o) = CountOf(b, o) + CountOf(c, o)
  PROVE  BagTotal(r) = BagTotal(b) + BagTotal(c)
<1>1. /\ Counts(b, D) \in [D -> Int] /\ BagTotal(b) = Sum(Counts(b, D))
      /\ Counts(c, D) \in [D -> Int] /\ BagTotal(c) = Sum(Counts(c, D))
      /\ Counts(r, D) \in [D -> Int] /\ BagTotal(r) = Sum(Counts(r, D))
  BY BagOver
<1>2. ASSUME NEW o \in D
      PROVE  o.amount * CountOf(r, o) = o.amount * CountOf(b, o) + o.amount * CountOf(c, o)
  <2>1. CountOf(b, o) \in Int /\ CountOf(c, o) \in Int
    BY DEF CountOf
  <2> QED  BY <2>1, Product DEF HaveAmounts
<1>3. Counts(r, D) = [o \in D |-> Counts(b, D)[o] + Counts(c, D)[o]]
  BY <1>2 DEF Counts
<1>4. Sum([o \in D |-> Counts(b, D)[o] + Counts(c, D)[o]]) = Sum(Counts(b, D)) + Sum(Counts(c, D))
  BY <1>1, SumAdd
<1> QED  BY <1>1, <1>3, <1>4

LEMMA WaitingType ==
  ASSUME NEW b, Waiting(b)
  PROVE  BagTotal(b) \in Int /\ b \in [DOMAIN b -> Int]
<1>1. /\ IsFiniteSet(DOMAIN b) /\ b \in [DOMAIN b -> Int]
      /\ HaveAmounts(DOMAIN b)
  BY DEF Waiting, IsWaiting, HaveAmounts
<1>2. Counts(b, DOMAIN b) \in [DOMAIN b -> Int] /\ BagTotal(b) = Sum(Counts(b, DOMAIN b))
  BY <1>1, BagOver
<1> QED  BY <1>1, <1>2, SumType

LEMMA WaitMore ==
  ASSUME NEW b, Waiting(b), NEW c, Waiting(c)
  PROVE  Waiting(b (+) c) /\ BagTotal(b (+) c) = BagTotal(b) + BagTotal(c)
<1> DEFINE D == DOMAIN b \cup DOMAIN c
           r == b (+) c
<1>1. IsFiniteSet(D)
  BY FS_Union DEF Waiting
<1>2. DOMAIN r = D /\ \A o \in D : r[o] = CountOf(b, o) + CountOf(c, o)
  BY DEF (+), CountOf
<1>3. \A o \in D : CountOf(b, o) \in Nat /\ CountOf(c, o) \in Nat
                   /\ CountOf(b, o) + CountOf(c, o) \in Nat \ {0}
  BY DEF CountOf, Waiting
<1>4. r \in [D -> Nat \ {0}]
  <2>1. r = [o \in D |-> r[o]]
    BY <1>2 DEF (+)
  <2> QED  BY <2>1, <1>2, <1>3
<1>5. \A o \in D : IsWaiting(o, Current)
  BY DEF Waiting
<1>6. Waiting(r)
  BY <1>1, <1>2, <1>4, <1>5 DEF Waiting
<1>7. \A o \in D : CountOf(r, o) = CountOf(b, o) + CountOf(c, o)
  BY <1>2 DEF CountOf
<1>8. HaveAmounts(D)
  BY <1>5 DEF IsWaiting, HaveAmounts
<1>9. r \in [DOMAIN r -> Int] /\ b \in [DOMAIN b -> Int] /\ c \in [DOMAIN c -> Int]
  BY <1>6, WaitingType
<1> HIDE DEF r
<1>10. BagTotal(r) = BagTotal(b) + BagTotal(c)
  BY <1>1, <1>2, <1>7, <1>8, <1>9, BagsAdd
<1> QED  BY <1>6, <1>10 DEF r

LEMMA WaitLess ==
  ASSUME NEW b, Waiting(b), NEW c, c \in [DOMAIN c -> Nat \ {0}], c \sqsubseteq b
  PROVE  Waiting(b (-) c) /\ BagTotal(b (-) c) = BagTotal(b) - BagTotal(c)
         /\ BagTotal(c) \in Int
<1> DEFINE D == DOMAIN b
           r == b (-) c
<1>1. /\ IsFiniteSet(D) /\ b \in [D -> Nat \ {0}] /\ DOMAIN c \subseteq D
      /\ \A o \in D : IsWaiting(o, Current)
      /\ \A o \in DOMAIN c : c[o] <= b[o]
  BY DEF Waiting, \sqsubseteq
<1>2. \A o \in D : CountOf(c, o) \in Nat /\ CountOf(b, o) = b[o] /\ CountOf(c, o) <= b[o]
  BY <1>1 DEF CountOf
<1>3. /\ DOMAIN r = {o \in D : b[o] - CountOf(c, o) > 0}
      /\ \A o \in DOMAIN r : r[o] = b[o] - CountOf(c, o)
      /\ r = [o \in DOMAIN r |-> r[o]]
  BY <1>1 DEF (-), CountOf
<1>4. r \in [DOMAIN r -> Nat \ {0}]
  BY <1>1, <1>2, <1>3
<1>5. Waiting(r)
  <2>1. IsFiniteSet(DOMAIN r)
    BY <1>1, <1>3, FS_Subset
  <2> QED  BY <2>1, <1>1, <1>3, <1>4 DEF Waiting
<1> HIDE DEF r
<1>6. \A o \in D : CountOf(b, o) = CountOf(r, o) + CountOf(c, o)
  <2> SUFFICES ASSUME NEW o \in D PROVE b[o] = CountOf(r, o) + CountOf(c, o)
    BY <1>2
  <2>1. CASE o \in DOMAIN r
    BY <2>1, <1>1, <1>2, <1>3 DEF CountOf
  <2>2. CASE o \notin DOMAIN r
    <3>1. b[o] \in Nat /\ CountOf(c, o) \in Nat /\ CountOf(c, o) <= b[o]
      BY <1>1, <1>2
    <3>2. ~(b[o] - CountOf(c, o) > 0)
      BY <2>2, <1>3
    <3>3. CountOf(r, o) = 0
      BY <2>2 DEF CountOf
    <3> QED  BY <3>1, <3>2, <3>3
  <2> QED  BY <2>1, <2>2
<1>7. HaveAmounts(D)
  BY <1>1 DEF IsWaiting, HaveAmounts
<1>8. r \in [DOMAIN r -> Int] /\ b \in [DOMAIN b -> Int] /\ c \in [DOMAIN c -> Int]
      /\ DOMAIN r \subseteq D
  BY <1>3, <1>5, WaitingType
<1>9. BagTotal(b) = BagTotal(r) + BagTotal(c)
  BY <1>1, <1>6, <1>7, <1>8, BagsAdd
<1>10. BagTotal(c) \in Int /\ BagTotal(r) \in Int
  <2>1. Counts(c, D) \in [D -> Int] /\ BagTotal(c) = Sum(Counts(c, D))
    BY <1>1, <1>7, <1>8, BagOver
  <2> QED  BY <2>1, <1>1, <1>5, SumType, WaitingType
<1>11. BagTotal(r) = BagTotal(b) - BagTotal(c)
  BY <1>9, <1>10
<1> QED  BY <1>5, <1>10, <1>11 DEF r

\* What the ledger is counted with.
LEMMA LedgerNumbers ==
  /\ IsFiniteSet(Account) /\ Genesis \in [Account -> Int]
  /\ MinFee \in Nat /\ MinRemaining \in Nat
  /\ \A fee \in Fees : fee \in Nat
  /\ \A n \in Amount : n \in Nat
<1>1. /\ IsFiniteSet(Account) /\ Genesis \in [Account -> Nat]
      /\ Fees \cup {MinFee, MinRemaining} \subseteq Nat
      /\ Amount \subseteq Nat \ {0}
  BY LedgerAssumption
<1> QED  BY <1>1

LEMMA LockedOf ==
  ASSUME NEW vs \in [Account -> [Account -> Nat]], NEW un, \A a \in Account : Waiting(un[a])
  PROVE  /\ [a \in Account |-> Sum(vs[a]) + BagTotal(un[a])] \in [Account -> Int]
         /\ \A a \in Account : Sum(vs[a]) \in Int /\ BagTotal(un[a]) \in Int
<1>1. ASSUME NEW a \in Account PROVE Sum(vs[a]) \in Int /\ BagTotal(un[a]) \in Int
  <2>1. vs[a] \in [Account -> Int]
    OBVIOUS
  <2>2. Sum(vs[a]) \in Int
    BY <2>1, LedgerNumbers, SumType
  <2> QED  BY <2>2, WaitingType
<1> QED  BY <1>1

LEMMA LockedType ==
  ASSUME BooksTypes, WaitingOK
  PROVE  /\ Locked \in [Account -> Int] /\ Sum(Locked) \in Int /\ Sum(balance) \in Int
         /\ \A a \in Account : Sum(votes[a]) \in Int /\ BagTotal(unlocking[a]) \in Int
<1>1. /\ Locked \in [Account -> Int]
      /\ \A a \in Account : Sum(votes[a]) \in Int /\ BagTotal(unlocking[a]) \in Int
  BY LockedOf DEF Locked, BooksTypes, WaitingOK
<1>2. Sum(Locked) \in Int /\ Sum(balance) \in Int
  BY <1>1, LedgerNumbers, SumType DEF BooksTypes
<1> QED  BY <1>1, <1>2

LEMMA Balanced ==
  ASSUME NEW b \in Int, NEW l \in Int, NEW f \in Int, NEW d \in Int, NEW m \in Int,
         NEW g \in Int, b + l + f + d = g + m,
         NEW x \in Int, NEW y \in Int, NEW f2 \in Int, NEW d2 \in Int, NEW m2 \in Int,
         x + y + (f2 - f) + (d2 - d) = m2 - m
  PROVE  (b + x) + (l + y) + f2 + d2 = g + m2
OBVIOUS

\* The accounts get x and lock y more.
LEMMA SupplyMoves ==
  ASSUME BooksOK, BooksTypes', NEW x \in Int, NEW y \in Int,
         Sum(balance') = Sum(balance) + x, Sum(Locked') = Sum(Locked) + y,
         x + y + (fees'.total - fees.total) + (destroyed' - destroyed) = minted' - minted
  PROVE  SupplyKept'
<1>1. /\ Sum(balance) \in Int /\ Sum(Locked) \in Int
      /\ Sum(balance) + Sum(Locked) + fees.total + destroyed = Sum(Genesis) + minted
  BY LockedType DEF BooksOK, SupplyKept
<1>2. Sum(Genesis) \in Int
  BY LedgerNumbers, SumType
<1>3. /\ fees.total \in Int /\ destroyed \in Int /\ minted \in Int
      /\ fees'.total \in Int /\ destroyed' \in Int /\ minted' \in Int
  BY DEF BooksOK, BooksTypes
<1>4. (Sum(balance) + x) + (Sum(Locked) + y) + fees'.total + destroyed' = Sum(Genesis) + minted'
  BY <1>1, <1>2, <1>3, Balanced
<1> QED  BY <1>4 DEF SupplyKept

\* What a transaction does to the fees.
LEMMA FeesCharged ==
  ASSUME BooksOK, NEW fee \in Fees, Charge(fee), UNCHANGED books
  PROVE  /\ fees' \in [total : Int, min : Int]
         /\ fees'.total = fees.total + fee /\ fees.total \in Int /\ fee \in Int
         /\ destroyed' = destroyed /\ minted' = minted
         /\ destroyed \in Int /\ minted \in Int
<1>1. /\ fees.total \in Int /\ fees.min \in Int /\ fee \in Int /\ MinFee \in Int
      /\ destroyed \in Int /\ minted \in Int
  BY LedgerNumbers DEF BooksOK, BooksTypes
<1>2. fees' = [total |-> fees.total + fee, min |-> fees.min + MinFee]
  BY DEF Charge
<1>3. \A x, y \in Int : x + y \in Int
  OBVIOUS
<1>4. fees' \in [total : Int, min : Int] /\ fees'.total = fees.total + fee
  BY <1>1, <1>2, <1>3
<1> QED  BY <1>1, <1>4 DEF books

LEMMA Cancels ==
  ASSUME NEW f \in Int, NEW t \in Int, NEW d \in Int, NEW m \in Int, NEW u \in Int
  PROVE  (0 - f - u) + u + ((t + f) - t) + (d - d) = m - m
OBVIOUS

\* A transaction moves u from what accounts have to what they have locked, and
\* the fee to the fees of the block.
LEMMA ChargedSupply ==
  ASSUME BooksOK, BooksTypes', NEW fee \in Fees, Charge(fee), UNCHANGED books,
         NEW u \in Int,
         Sum(balance') = Sum(balance) + (0 - fee - u), Sum(Locked') = Sum(Locked) + u
  PROVE  SupplyKept'
<1>1. /\ fees'.total = fees.total + fee /\ fees.total \in Int /\ fee \in Int
      /\ destroyed' = destroyed /\ minted' = minted
      /\ destroyed \in Int /\ minted \in Int
  BY FeesCharged
<1>2. (0 - fee - u) + u + (fees'.total - fees.total) + (destroyed' - destroyed)
        = minted' - minted
  BY <1>1, Cancels
<1>3. 0 - fee - u \in Int
  BY <1>1
<1> QED  BY <1>2, <1>3, SupplyMoves

\* Votes, waiting objects and delegates are as they were.
LEMMA BooksSame ==
  ASSUME BooksOK, UNCHANGED <<votes, unlocking>>, height' \in {height, Current},
         \A d \in Account : /\ delegate'[d].received = delegate[d].received
                            /\ delegate'[d].pom = delegate[d].pom
                            /\ delegate'[d].banned = delegate[d].banned
  PROVE  WaitingOK' /\ BansOK' /\ VotesMatch' /\ Locked' = Locked
<1>1. WaitingOK'
  <2> SUFFICES ASSUME NEW a \in Account PROVE Waiting(unlocking[a])'
    BY DEF WaitingOK
  <2>1. Waiting(unlocking[a]) /\ unlocking'[a] = unlocking[a]
    BY DEF BooksOK, WaitingOK
  <2>2. Current \in Nat /\ Current' \in Nat /\ Current' >= Current
    BY SameOrNext DEF BooksOK, LedgerOK, LedgerTypes, Current
  <2>3. \A o \in DOMAIN unlocking[a] : IsWaiting(o, Current')
    BY <2>1, <2>2 DEF Waiting, IsWaiting
  <2> QED  BY <2>1, <2>3 DEF Waiting
<1>2. BansOK'
  BY DEF BooksOK, BansOK
<1>3. VotesMatch' /\ Locked' = Locked
  BY DEF BooksOK, VotesMatch, Locked
<1> QED  BY <1>1, <1>2, <1>3

LEMMA TransferBooks ==
  ASSUME BooksOK, LedgerOK', NEW s \in Account, NEW fee \in Fees, NEW r \in Account,
         NEW n \in Amount, Transfer(s, fee, r, n)
  PROVE  BooksOK'
<1> DEFINE x == 0 - fee - n
           paid == [balance EXCEPT ![s] = balance[s] - fee - n]
<1>1. fee \in Int /\ n \in Int /\ x \in Int
      /\ balance \in [Account -> Int] /\ IsFiniteSet(Account)
  BY LedgerNumbers DEF BooksOK, BooksTypes
<1>2. /\ paid \in [Account -> Int] /\ paid[s] = balance[s] + x
      /\ \A a \in Account \ {s} : paid[a] = balance[a]
  BY <1>1
<1>3. balance' = [paid EXCEPT ![r] = paid[r] + n]
  BY DEF Transfer
<1>4. /\ balance' \in [Account -> Int] /\ balance'[r] = paid[r] + n
      /\ \A a \in Account \ {r} : balance'[a] = paid[a]
  <2> HIDE DEF paid
  <2> QED  BY <1>1, <1>2, <1>3
<1> HIDE DEF paid, x
<1>5. Sum(paid) = Sum(balance) + x
  BY <1>1, <1>2, SumChange
<1>6. Sum(balance') = Sum(paid) + n
  BY <1>1, <1>2, <1>4, SumChange
<1>7. Sum(balance') = Sum(balance) + (0 - fee - 0)
  <2>1. Sum(balance) \in Int
    BY LockedType DEF BooksOK
  <2> QED  BY <2>1, <1>1, <1>5, <1>6 DEF x
<1>8. WaitingOK' /\ BansOK' /\ VotesMatch' /\ Locked' = Locked
  BY BooksSame DEF Transfer
<1>9. Charge(fee) /\ UNCHANGED books /\ UNCHANGED votes
  BY DEF Transfer
<1>10. BooksTypes'
  BY <1>4, <1>9, FeesCharged DEF BooksOK, BooksTypes
<1>11. Sum(Locked') = Sum(Locked) + 0
  BY <1>8, LockedType DEF BooksOK
<1>12. SupplyKept'
  BY <1>7, <1>9, <1>10, <1>11, ChargedSupply
<1> QED  BY <1>8, <1>10, <1>12 DEF BooksOK

LEMMA RegisterBooks ==
  ASSUME BooksOK, LedgerOK', NEW s \in Account, NEW fee \in Fees, Register(s, fee)
  PROVE  BooksOK'
<1>1. fee \in Int /\ balance \in [Account -> Int] /\ IsFiniteSet(Account)
  BY LedgerNumbers DEF BooksOK, BooksTypes
<1> DEFINE x == 0 - fee - 0
<1>2. x \in Int
  BY <1>1
<1>3. /\ balance' \in [Account -> Int] /\ balance'[s] = balance[s] + x
      /\ \A a \in Account \ {s} : balance'[a] = balance[a]
  <2>1. balance' = [balance EXCEPT ![s] = balance[s] - fee]
    BY DEF Register
  <2> QED  BY <1>1, <2>1
<1> HIDE DEF x
<1>4. Sum(balance') = Sum(balance) + (0 - fee - 0)
  <2>1. Sum(balance') = Sum(balance) + x
    BY <1>1, <1>2, <1>3, SumChange
  <2> QED  BY <2>1 DEF x
<1>5. \A d \in Account : /\ delegate'[d].received = delegate[d].received
                         /\ delegate'[d].pom = delegate[d].pom
                         /\ delegate'[d].banned = delegate[d].banned
  BY DEF Register, BooksOK, LedgerOK, LedgerTypes
<1>6. WaitingOK' /\ BansOK' /\ VotesMatch' /\ Locked' = Locked
  BY <1>5, BooksSame DEF Register
<1>7. Charge(fee) /\ UNCHANGED books /\ UNCHANGED votes
  BY DEF Register
<1>8. BooksTypes'
  BY <1>3, <1>7, FeesCharged DEF BooksOK, BooksTypes
<1>9. Sum(Locked') = Sum(Locked) + 0
  BY <1>6, LockedType DEF BooksOK
<1>10. SupplyKept'
  BY <1>4, <1>7, <1>8, <1>9, ChargedSupply
<1> QED  BY <1>6, <1>8, <1>10 DEF BooksOK

LEMMA AssetTypes ==
  ASSUME NEW asset \in VoteAssets
  PROVE  /\ DOMAIN asset \subseteq Account /\ IsFiniteSet(DOMAIN asset)
         /\ asset \in [DOMAIN asset -> Int]
<1>1. PICK D \in SUBSET Account : asset \in [D -> Amount \cup {-n : n \in Amount}]
  BY DEF VoteAssets
<1>2. \A d \in DOMAIN asset : asset[d] \in Int
  BY <1>1, AmountsAreInts
<1>3. DOMAIN asset \subseteq Account
  BY <1>1
<1>4. IsFiniteSet(DOMAIN asset)
  BY <1>3, LedgerNumbers, FS_Subset
<1> QED  BY <1>1, <1>2, <1>3, <1>4

LEMMA MaxZero ==
  ASSUME NEW x \in Int
  PROVE  Max({x, 0}) = IF x > 0 THEN x ELSE 0
<1>1. \E m \in {x, 0} : \A n \in {x, 0} : m >= n
  OBVIOUS
<1>2. Max({x, 0}) \in {x, 0} /\ \A n \in {x, 0} : Max({x, 0}) >= n
  BY <1>1 DEF Max
<1> QED  BY <1>2

\* What the downvotes of an asset give back.
Downs(asset) == [d \in DOMAIN asset |-> IF asset[d] < 0 THEN -asset[d] ELSE 0]

LEMMA UpsAndDowns ==
  ASSUME NEW asset \in VoteAssets
  PROVE  /\ Sum(asset) \in Int /\ Downs(asset) \in [DOMAIN asset -> Int]
         /\ Sum(Downs(asset)) \in Int
         /\ Ups(asset) = Sum(asset) + Sum(Downs(asset))
<1> DEFINE D == DOMAIN asset
<1>1. IsFiniteSet(D) /\ asset \in [D -> Int] /\ Downs(asset) \in [D -> Int]
  BY AssetTypes DEF Downs
<1>2. \A d \in D : Max({asset[d], 0}) = asset[d] + Downs(asset)[d]
  <2> SUFFICES ASSUME NEW d \in D PROVE Max({asset[d], 0}) = asset[d] + Downs(asset)[d]
    OBVIOUS
  <2>1. asset[d] \in Int
    BY <1>1
  <2>2. Max({asset[d], 0}) = IF asset[d] > 0 THEN asset[d] ELSE 0
    BY <2>1, MaxZero
  <2> QED  BY <2>1, <2>2 DEF Downs
<1>3. [d \in D |-> Max({asset[d], 0})] = [d \in D |-> asset[d] + Downs(asset)[d]]
  BY <1>2
<1>4. Sum([d \in D |-> asset[d] + Downs(asset)[d]]) = Sum(asset) + Sum(Downs(asset))
  BY <1>1, SumAdd
<1> QED  BY <1>1, <1>3, <1>4, SumType DEF Ups

LEMMA ReleasedTotal ==
  ASSUME LedgerTypes, NEW s, NEW asset \in VoteAssets
  PROVE  /\ Waiting(Released(s, asset))
         /\ BagTotal(Released(s, asset)) = Sum(Downs(asset))
<1> DEFINE D == {d \in DOMAIN asset : asset[d] < 0}
           p == [d \in D |-> [to |-> d, amount |-> -asset[d], height |-> Current]]
           E == {p[d] : d \in D}
           r == Released(s, asset)
           F == [o \in E |-> o.amount * 1]
<1>1. /\ IsFiniteSet(DOMAIN asset) /\ DOMAIN asset \subseteq Account
      /\ asset \in [DOMAIN asset -> Int] /\ IsFiniteSet(D)
  BY AssetTypes, FS_Subset
<1>2. r = [o \in E |-> 1]
  BY DEF Released, SetToBag
<1>3. \A d \in D : p[d].to = d /\ p[d].amount = -asset[d] /\ p[d].height = Current
  OBVIOUS
<1>4. p \in [D -> E] /\ \A e \in E : \E d \in D : p[d] = e
  OBVIOUS
<1> HIDE DEF p
<1>5. \A x, y \in D : p[x] = p[y] => x = y
  BY <1>3
<1>6. IsFiniteSet(E)
  <2>1. p \in Surjection(D, E)
    BY <1>4 DEF Surjection
  <2> QED  BY <1>1, <2>1, FS_Surjection
<1>7. Current \in Nat /\ Current >= 1
  BY DEF LedgerTypes, Current
<1>8. \A o \in E : IsWaiting(o, Current)
  <2> SUFFICES ASSUME NEW d \in D PROVE IsWaiting(p[d], Current)
    BY <1>4
  <2>1. d \in Account /\ -asset[d] \in Nat \ {0}
    BY <1>1
  <2> QED  BY <2>1, <1>3, <1>7 DEF IsWaiting
<1>9. Waiting(r)
  BY <1>2, <1>6, <1>8 DEF Waiting
<1>10. \A o \in E : o.amount \in Int /\ o.amount * 1 = o.amount
  BY <1>8, Product DEF IsWaiting
<1>11. F \in [E -> Int]
  BY <1>10
<1>12. BagTotal(r) = Sum(F)
  <2>1. [o \in DOMAIN r |-> o.amount * r[o]] = F
    BY <1>2
  <2> QED  BY <2>1 DEF BagTotal
<1> DEFINE H == [d \in D |-> F[p[d]]]
<1>13. Sum(H) = Sum(F)
  <2> HIDE DEF F, D, E
  <2> QED  BY <1>1, <1>4, <1>5, <1>6, <1>11, SumRename
<1>14. H \in [D -> Int] /\ \A d \in D : H[d] = Downs(asset)[d]
  <2>1. \A d \in D : F[p[d]] = -asset[d]
    BY <1>3, <1>4, <1>10
  <2> QED  BY <1>1, <2>1 DEF Downs
<1>15. Sum(Downs(asset)) = Sum(H)
  <2>1. Downs(asset) \in [DOMAIN asset -> Int] /\ D \in SUBSET DOMAIN asset
    BY UpsAndDowns
  <2>2. \A d \in DOMAIN asset \ D : Downs(asset)[d] = 0
    BY DEF Downs
  <2> HIDE DEF D, H
  <2> QED  BY <1>1, <1>14, <2>1, <2>2, SumExtend
<1> QED  BY <1>9, <1>12, <1>13, <1>15

LEMMA VoteBooks ==
  ASSUME BooksOK, LedgerOK', NEW s \in Account, NEW fee \in Fees, NEW asset \in VoteAssets,
         Vote(s, fee, asset)
  PROVE  BooksOK'
<1> DEFINE ext == [d \in Account |-> IF d \in DOMAIN asset THEN asset[d] ELSE 0]
           u == Ups(asset)
           x == 0 - fee - u
<1>1. /\ DOMAIN asset \subseteq Account /\ IsFiniteSet(Account)
      /\ asset \in [DOMAIN asset -> Int] /\ ext \in [Account -> Int]
      /\ Sum(asset) \in Int /\ Sum(Downs(asset)) \in Int
      /\ u = Sum(asset) + Sum(Downs(asset)) /\ fee \in Int
  BY AssetTypes, UpsAndDowns, LedgerNumbers
<1>2. /\ balance \in [Account -> Int] /\ votes \in [Account -> [Account -> Nat]]
      /\ delegate \in [Account -> [registered : BOOLEAN, received : Int,
                                   pom : Seq(Nat), banned : BOOLEAN]]
  BY DEF BooksOK, BooksTypes, LedgerOK, LedgerTypes
<1>3. Charge(fee) /\ UNCHANGED <<height, books, punished>>
  BY DEF Vote
<1> HIDE DEF u
<1>4. balance' \in [Account -> Int] /\ Sum(balance') = Sum(balance) + (0 - fee - u)
  <2>1. x \in Int
    BY <1>1
  <2>2. /\ balance' \in [Account -> Int] /\ balance'[s] = balance[s] + x
        /\ \A a \in Account \ {s} : balance'[a] = balance[a]
    <3>1. balance' = [balance EXCEPT ![s] = balance[s] - fee - u]
      BY DEF Vote, u
    <3> QED  BY <1>1, <1>2, <3>1
  <2> HIDE DEF x, ext
  <2>3. Sum(balance') = Sum(balance) + x
    <3>1. IsFiniteSet(Account) /\ balance \in [Account -> Int]
      BY <1>1, <1>2
    <3> QED  BY <3>1, <2>1, <2>2, SumChange
  <2> QED  BY <2>2, <2>3 DEF x
<1>5. /\ DOMAIN votes' = Account
      /\ votes'[s] = [d \in Account |-> votes[s][d] + ext[d]]
      /\ \A a \in Account \ {s} : votes'[a] = votes[a]
      /\ \A d \in Account : votes'[s][d] >= 0
  BY <1>2 DEF Vote
<1>6. votes' \in [Account -> [Account -> Nat]]
  <2>1. \A d \in Account : votes[s][d] \in Int /\ ext[d] \in Int
    BY <1>1, <1>2
  <2> HIDE DEF ext
  <2>2. \A d \in Account : votes'[s][d] = votes[s][d] + ext[d] /\ votes'[s][d] \in Nat
    BY <1>5, <2>1
  <2>3. votes'[s] \in [Account -> Nat]
    BY <1>5, <2>2
  <2>4. \A a \in Account : votes'[a] \in [Account -> Nat]
    BY <1>2, <1>5, <2>3
  <2>5. votes' = [a \in Account |-> votes'[a]]
    BY DEF Vote, BooksOK, BooksTypes
  <2> QED  BY <2>4, <2>5
<1>7. Sum(votes'[s]) = Sum(votes[s]) + Sum(asset)
  <2>1. /\ \A d \in Account \ DOMAIN asset : ext[d] = 0
        /\ \A d \in DOMAIN asset : asset[d] = ext[d]
    BY <1>1
  <2> HIDE DEF ext
  <2>2. Sum(ext) = Sum(asset)
    <3> DEFINE E == DOMAIN asset
    <3>1. /\ IsFiniteSet(Account) /\ ext \in [Account -> Int]
          /\ E \in SUBSET Account /\ asset \in [E -> Int]
          /\ \A d \in Account \ E : ext[d] = 0
          /\ \A d \in E : asset[d] = ext[d]
      BY <1>1, <2>1
    <3> HIDE DEF E
    <3> QED  BY <3>1, SumExtend
  <2>3. votes[s] \in [Account -> Int]
    BY <1>2
  <2>4. Sum([d \in Account |-> votes[s][d] + ext[d]]) = Sum(votes[s]) + Sum(ext)
    BY <1>1, <2>3, SumAdd
  <2> QED  BY <1>5, <2>2, <2>4
<1>8. /\ DOMAIN unlocking' = Account
      /\ unlocking'[s] = unlocking[s] (+) Released(s, asset)
      /\ \A a \in Account \ {s} : unlocking'[a] = unlocking[a]
  BY DEF Vote, BooksOK, LedgerOK, LedgerTypes
<1>9. /\ Waiting(unlocking[s]) /\ Waiting(unlocking'[s])
      /\ BagTotal(unlocking'[s]) = BagTotal(unlocking[s]) + Sum(Downs(asset))
  <2>1. Waiting(unlocking[s])
    BY DEF BooksOK, WaitingOK
  <2>2. Waiting(Released(s, asset)) /\ BagTotal(Released(s, asset)) = Sum(Downs(asset))
    BY ReleasedTotal DEF BooksOK, LedgerOK
  <2> QED  BY <1>8, <2>1, <2>2, WaitMore
<1>10. WaitingOK'
  <2> SUFFICES ASSUME NEW a \in Account PROVE Waiting(unlocking[a])'
    BY DEF WaitingOK
  <2>1. Waiting(unlocking'[a])
    BY <1>8, <1>9 DEF BooksOK, WaitingOK
  <2> QED  BY <1>3, <2>1 DEF Waiting, Current
<1>11. BooksTypes'
  BY <1>3, <1>4, <1>6, FeesCharged DEF BooksOK, BooksTypes
<1>12. Sum(Locked') = Sum(Locked) + u
  <2>1. Locked \in [Account -> Int] /\ Locked' \in [Account -> Int]
    <3>1. \A a \in Account : Waiting(unlocking'[a])
      BY <1>8, <1>9 DEF BooksOK, WaitingOK
    <3> QED  BY <1>6, <3>1, LockedOf, LockedType DEF Locked, BooksOK
  <2>2. /\ \A a \in Account : Locked[a] = Sum(votes[a]) + BagTotal(unlocking[a])
        /\ \A a \in Account : Locked'[a] = Sum(votes'[a]) + BagTotal(unlocking'[a])
    BY DEF Locked
  <2>3. \A a \in Account \ {s} : Locked'[a] = Locked[a]
    BY <1>5, <1>8, <2>2
  <2>4. Sum(votes[s]) \in Int /\ BagTotal(unlocking[s]) \in Int /\ u \in Int
    BY <1>1, LockedType DEF BooksOK
  <2>5. Locked'[s] = Locked[s] + u
    BY <1>1, <1>7, <1>9, <2>2, <2>4
  <2> QED  BY <1>1, <2>1, <2>3, <2>4, <2>5, SumChange
<1>13. SupplyKept'
  <2>1. u \in Int
    BY <1>1
  <2> QED  BY <1>3, <1>4, <1>11, <1>12, <2>1, ChargedSupply
<1>14. /\ \A d \in Account : delegate'[d].received = delegate[d].received + ext[d]
       /\ \A d \in Account : delegate'[d].pom = delegate[d].pom
       /\ \A d \in Account : delegate'[d].banned = delegate[d].banned
  <2> SUFFICES ASSUME NEW d \in Account
               PROVE  /\ delegate'[d].received = delegate[d].received + ext[d]
                      /\ delegate'[d].pom = delegate[d].pom
                      /\ delegate'[d].banned = delegate[d].banned
    OBVIOUS
  <2>1. CASE d \in DOMAIN asset
    <3>1. delegate'[d] = [delegate[d] EXCEPT !.received = delegate[d].received + asset[d]]
      BY <2>1 DEF Vote, Received
    <3> QED  BY <1>2, <2>1, <3>1
  <2>2. CASE d \notin DOMAIN asset
    <3>1. delegate'[d] = delegate[d] /\ ext[d] = 0
      BY <2>2 DEF Vote
    <3>2. delegate[d].received \in Int
      BY <1>2
    <3> QED  BY <3>1, <3>2
  <2> QED  BY <2>1, <2>2
<1>15. BansOK'
  BY <1>14 DEF BooksOK, BansOK
<1>16. VotesMatch'
  <2> SUFFICES ASSUME NEW d \in Account
               PROVE  delegate'[d].received = Sum([a \in Account |-> votes'[a][d]])
    BY DEF VotesMatch
  <2> DEFINE F == [a \in Account |-> votes[a][d]]
             G == [a \in Account |-> votes'[a][d]]
  <2>1. delegate[d].received = Sum(F)
    BY DEF BooksOK, VotesMatch
  <2>2. F \in [Account -> Int]
    BY <1>2
  <2>3. G \in [Account -> Int]
    BY <1>6
  <2>4. ext[d] \in Int
    BY <1>1
  <2>5. G[s] = F[s] + ext[d]
    BY <1>5
  <2>6. \A a \in Account \ {s} : G[a] = F[a]
    BY <1>5
  <2> HIDE DEF F, G, ext
  <2>7. Sum(G) = Sum(F) + ext[d]
    BY <1>1, <2>2, <2>3, <2>4, <2>5, <2>6, SumChange
  <2> QED  BY <1>14, <2>1, <2>7 DEF G
<1> QED  BY <1>10, <1>11, <1>13, <1>15, <1>16 DEF BooksOK

LEMMA UnlockBooks ==
  ASSUME BooksOK, LedgerOK', NEW s \in Account, NEW fee \in Fees, Unlock(s, fee)
  PROVE  BooksOK'
<1>1. fee \in Int /\ balance \in [Account -> Int] /\ IsFiniteSet(Account)
  BY LedgerNumbers DEF BooksOK, BooksTypes
<1>2. Charge(fee) /\ UNCHANGED <<votes, delegate, height, books, punished>>
  BY DEF Unlock
<1>3. PICK objects :
        /\ objects \in [DOMAIN objects -> Nat \ {0}] /\ objects \sqsubseteq unlocking[s]
        /\ unlocking' = [unlocking EXCEPT ![s] = unlocking[s] (-) objects]
        /\ balance' = [balance EXCEPT ![s] = balance[s] - fee + BagTotal(objects)]
  <2>1. PICK objects \in UNION {[O -> 1..BagCardinality(unlocking[s])] :
                              O \in SUBSET BagToSet(unlocking[s]) \ {{}}} :
          /\ objects \sqsubseteq unlocking[s]
          /\ unlocking' = [unlocking EXCEPT ![s] = unlocking[s] (-) objects]
          /\ balance' = [balance EXCEPT ![s] = balance[s] - fee + BagTotal(objects)]
    BY DEF Unlock
  <2>2. PICK O : objects \in [O -> 1..BagCardinality(unlocking[s])]
    BY <2>1
  <2>3. \A n : \A k \in 1..n : k \in Nat \ {0}
    OBVIOUS
  <2>4. objects \in [DOMAIN objects -> Nat \ {0}]
    BY <2>2, <2>3
  <2> QED  BY <2>1, <2>4
<1> DEFINE t == BagTotal(objects)
           u == 0 - t
           x == 0 - fee - u
<1>4. /\ Waiting(unlocking[s]) /\ Waiting(unlocking[s] (-) objects) /\ t \in Int
      /\ BagTotal(unlocking[s] (-) objects) = BagTotal(unlocking[s]) - t
  <2>1. Waiting(unlocking[s])
    BY DEF BooksOK, WaitingOK
  <2> QED  BY <1>3, <2>1, WaitLess
<1> HIDE DEF t
<1>5. balance' \in [Account -> Int] /\ Sum(balance') = Sum(balance) + (0 - fee - u)
  <2>1. x \in Int
    BY <1>1, <1>4
  <2>2. /\ balance' \in [Account -> Int] /\ balance'[s] = balance[s] + x
        /\ \A a \in Account \ {s} : balance'[a] = balance[a]
    <3>1. balance' = [balance EXCEPT ![s] = balance[s] - fee + t]
      BY <1>3 DEF t
    <3> QED  BY <1>1, <1>4, <3>1
  <2> HIDE DEF x
  <2>3. Sum(balance') = Sum(balance) + x
    BY <1>1, <2>1, <2>2, SumChange
  <2> QED  BY <2>2, <2>3 DEF x
<1>6. /\ unlocking'[s] = unlocking[s] (-) objects
      /\ \A a \in Account \ {s} : unlocking'[a] = unlocking[a]
  BY <1>3 DEF BooksOK, LedgerOK, LedgerTypes
<1>7. WaitingOK'
  <2> SUFFICES ASSUME NEW a \in Account PROVE Waiting(unlocking[a])'
    BY DEF WaitingOK
  <2>1. Waiting(unlocking'[a])
    BY <1>4, <1>6 DEF BooksOK, WaitingOK
  <2> QED  BY <1>2, <2>1 DEF Waiting, Current
<1>8. BooksTypes'
  BY <1>2, <1>5, FeesCharged DEF BooksOK, BooksTypes
<1>9. Sum(Locked') = Sum(Locked) + u
  <2>1. Locked \in [Account -> Int] /\ Locked' \in [Account -> Int]
    <3>1. \A a \in Account : Waiting(unlocking'[a])
      BY <1>4, <1>6 DEF BooksOK, WaitingOK
    <3>2. votes' \in [Account -> [Account -> Nat]]
      BY <1>2 DEF BooksOK, BooksTypes
    <3> QED  BY <3>1, <3>2, LockedOf, LockedType DEF Locked, BooksOK
  <2>2. /\ \A a \in Account : Locked[a] = Sum(votes[a]) + BagTotal(unlocking[a])
        /\ \A a \in Account : Locked'[a] = Sum(votes[a]) + BagTotal(unlocking'[a])
    BY <1>2 DEF Locked
  <2>3. \A a \in Account \ {s} : Locked'[a] = Locked[a]
    BY <1>6, <2>2
  <2>4. Sum(votes[s]) \in Int /\ BagTotal(unlocking[s]) \in Int /\ u \in Int
    BY <1>4, LockedType DEF BooksOK
  <2>5. Locked'[s] = Locked[s] + u
    BY <1>4, <1>6, <2>2, <2>4 DEF t
  <2> HIDE DEF u
  <2> QED  BY <1>1, <2>1, <2>3, <2>4, <2>5, SumChange
<1>10. SupplyKept'
  <2>1. u \in Int
    BY <1>4
  <2> HIDE DEF u
  <2> QED  BY <1>2, <1>5, <1>8, <1>9, <2>1, ChargedSupply
<1>11. BansOK' /\ VotesMatch'
  BY <1>2 DEF BooksOK, BansOK, VotesMatch
<1> QED  BY <1>7, <1>8, <1>10, <1>11 DEF BooksOK

\* A report adds the height of its block to the reports of the delegate, and its
\* reward is what the delegate loses.
LEMMA ReportBooks ==
  ASSUME BooksOK, LedgerOK', NEW s \in Account, NEW fee \in Fees, NEW pair \in Headers,
         Report(s, fee, pair)
  PROVE  BooksOK'
<1> DEFINE d == pair.by
           reward == IF d = s THEN 0 ELSE ReportReward(d)
           charged == [balance EXCEPT ![s] = balance[s] - fee]
           paid == [charged EXCEPT ![s] = charged[s] + reward]
           x == 0 - fee - 0
           loss == 0 - reward
<1>1. fee \in Int /\ x \in Int /\ IsFiniteSet(Account) /\ d \in Account
  BY LedgerNumbers, LedgerAssumption
<1>2. /\ balance \in [Account -> Int]
      /\ delegate \in [Account -> [registered : BOOLEAN, received : Int,
                                   pom : Seq(Nat), banned : BOOLEAN]]
  BY DEF BooksOK, BooksTypes, LedgerOK, LedgerTypes
<1>3. Charge(fee) /\ UNCHANGED <<votes, unlocking, height, books>>
  BY DEF Report
<1>4. reward \in Int /\ loss \in Int
  <2>1. balance[d] - MinRemaining \in Int
    BY <1>1, <1>2, LedgerNumbers
  <2>2. Max({balance[d] - MinRemaining, 0}) \in Int
    BY <2>1, MaxZero
  <2>3. ReportReward(d) \in Int
    BY <2>2 DEF ReportReward, LastBlockReward
  <2> QED  BY <2>3
<1>5. balance' = [paid EXCEPT ![d] = paid[d] - reward]
  BY DEF Report
<1> HIDE DEF d, reward
<1>6. /\ charged \in [Account -> Int] /\ charged[s] = balance[s] + x
      /\ \A a \in Account \ {s} : charged[a] = balance[a]
  BY <1>1, <1>2
<1> HIDE DEF charged
<1>7. /\ paid \in [Account -> Int] /\ paid[s] = charged[s] + reward
      /\ \A a \in Account \ {s} : paid[a] = charged[a]
  BY <1>4, <1>6
<1> HIDE DEF paid
<1>8. /\ balance' \in [Account -> Int] /\ balance'[d] = paid[d] + loss
      /\ \A a \in Account \ {d} : balance'[a] = paid[a]
  BY <1>1, <1>4, <1>5, <1>7
<1> HIDE DEF x, loss
<1>9. Sum(balance') = Sum(balance) + (0 - fee - 0)
  <2>1. Sum(charged) = Sum(balance) + x
    <3>1. IsFiniteSet(Account) /\ x \in Int /\ balance \in [Account -> Int]
      BY <1>1, <1>2
    <3> QED  BY <3>1, <1>6, SumChange
  <2>2. Sum(paid) = Sum(charged) + reward
    BY <1>1, <1>4, <1>6, <1>7, SumChange
  <2>3. Sum(balance') = Sum(paid) + loss
    BY <1>1, <1>4, <1>7, <1>8, SumChange
  <2>4. Sum(balance) \in Int
    BY LockedType DEF BooksOK
  <2> QED  BY <2>1, <2>2, <2>3, <2>4, <1>1, <1>4 DEF x, loss
<1>10. WaitingOK'
  BY <1>3 DEF BooksOK, WaitingOK, Waiting, Current
<1>11. BooksTypes'
  BY <1>3, <1>8, FeesCharged DEF BooksOK, BooksTypes
<1>12. SupplyKept'
  <2>1. Locked' = Locked
    BY <1>3 DEF Locked
  <2>2. Sum(Locked') = Sum(Locked) + 0
    BY <2>1, LockedType DEF BooksOK
  <2> QED  BY <1>3, <1>9, <1>11, <2>2, ChargedSupply
<1>13. /\ delegate'[d] = [delegate[d] EXCEPT !.pom = Append(delegate[d].pom, Current),
                            !.banned = Bans(Append(delegate[d].pom, Current))]
       /\ \A e \in Account \ {d} : delegate'[e] = delegate[e]
  BY <1>1, <1>2 DEF Report, d
<1>14. BansOK'
  <2>1. \A e \in Account \ {d} : delegate'[e].banned <=> Len(delegate'[e].pom) >= MaxPom
    BY <1>13 DEF BooksOK, BansOK
  <2>2. PICK p : p = Append(delegate[d].pom, Current)
    OBVIOUS
  <2>3. delegate'[d] = [delegate[d] EXCEPT !.pom = p, !.banned = Bans(p)]
    BY <1>13, <2>2
  <2>4. Bans(p) \in BOOLEAN /\ (Bans(p) <=> Len(p) >= MaxPom)
    BY DEF Bans
  <2>5. delegate'[d].pom = p /\ delegate'[d].banned = Bans(p)
    BY <1>1, <1>2, <2>3
  <2> QED  BY <2>1, <2>4, <2>5 DEF BansOK
<1>15. VotesMatch'
  <2>1. delegate'[d].received = delegate[d].received
    <3>1. PICK p, b : delegate'[d] = [delegate[d] EXCEPT !.pom = p, !.banned = b]
      BY <1>13
    <3>2. delegate[d] \in [registered : BOOLEAN, received : Int,
                           pom : Seq(Nat), banned : BOOLEAN]
      BY <1>1, <1>2
    <3> QED  BY <3>1, <3>2
  <2>2. \A e \in Account : delegate'[e].received = delegate[e].received
    BY <1>13, <2>1
  <2> QED  BY <1>3, <2>2 DEF BooksOK, VotesMatch
<1> QED  BY <1>10, <1>11, <1>12, <1>14, <1>15 DEF BooksOK

LEMMA EndBlockBooks ==
  ASSUME BooksOK, LedgerOK', NEW g \in Account, NEW reward \in {0, 1}, EndBlock(g, reward)
  PROVE  BooksOK'
<1> DEFINE x == reward + (fees.total - fees.min)
<1>1. /\ fees.total \in Int /\ fees.min \in Int /\ minted \in Int /\ destroyed \in Int
      /\ balance \in [Account -> Int] /\ IsFiniteSet(Account)
  BY LedgerNumbers DEF BooksOK, BooksTypes
<1>2. x \in Int
  BY <1>1
<1>3. /\ balance' \in [Account -> Int] /\ balance'[g] = balance[g] + x
      /\ \A a \in Account \ {g} : balance'[a] = balance[a]
  <2>1. balance' = [balance EXCEPT ![g] = balance[g] + reward + (fees.total - fees.min)]
    BY DEF EndBlock, GivenFee
  <2> QED  BY <1>1, <2>1
<1>4. /\ minted' = minted + reward /\ destroyed' = destroyed + fees.min
      /\ fees' = [total |-> 0, min |-> 0] /\ UNCHANGED <<votes, unlocking, delegate>>
      /\ height' = Current
  BY DEF EndBlock
<1>5. BooksTypes'
  BY <1>1, <1>3, <1>4 DEF BooksOK, BooksTypes
<1>6. WaitingOK' /\ BansOK' /\ VotesMatch' /\ Locked' = Locked
  BY <1>4, BooksSame
<1>7. SupplyKept'
  <2>1. Sum(Locked') = Sum(Locked) + 0
    BY <1>6, LockedType DEF BooksOK
  <2>2. x + 0 + (fees'.total - fees.total) + (destroyed' - destroyed) = minted' - minted
    BY <1>1, <1>4
  <2> HIDE DEF x
  <2>3. Sum(balance') = Sum(balance) + x
    BY <1>1, <1>2, <1>3, SumChange
  <2> QED  BY <1>2, <1>5, <2>1, <2>2, <2>3, SupplyMoves
<1> QED  BY <1>5, <1>6, <1>7 DEF BooksOK

LEMMA BooksStep ==
  ASSUME BooksOK, [Next]_vars
  PROVE  BooksOK'
<1>1. LedgerOK'
  BY LedgerStep DEF BooksOK
<1>2. CASE Next
  BY <1>1, <1>2, TransferBooks, RegisterBooks, VoteBooks, UnlockBooks, ReportBooks,
     EndBlockBooks DEF Next
<1>3. CASE UNCHANGED vars
  <2>1. UNCHANGED <<balance, votes, unlocking, delegate, height, fees, minted, destroyed>>
    BY <1>3 DEF vars, tokens, books
  <2>2. WaitingOK' /\ BansOK' /\ VotesMatch' /\ Locked' = Locked
    BY <2>1, BooksSame
  <2>3. BooksTypes' /\ SupplyKept'
    BY <2>1, <2>2 DEF BooksOK, BooksTypes, SupplyKept
  <2> QED  BY <1>1, <2>2, <2>3 DEF BooksOK
<1> QED  BY <1>2, <1>3

LEMMA BooksInit ==
  ASSUME Init PROVE BooksOK
<1>1. /\ balance = Genesis /\ votes = [a \in Account |-> [d \in Account |-> 0]]
      /\ unlocking = [a \in Account |-> EmptyBag] /\ height = 0
      /\ fees = [total |-> 0, min |-> 0] /\ minted = 0 /\ destroyed = 0
      /\ \A d \in Account : /\ delegate[d].received = 0 /\ delegate[d].pom = <<>>
                            /\ delegate[d].banned = FALSE
  BY DEF Init
<1>2. BooksTypes
  BY <1>1, LedgerNumbers DEF BooksTypes
<1>3. WaitingOK
  <2>1. DOMAIN EmptyBag = {} /\ EmptyBag \in [{} -> Nat \ {0}]
    BY DEF EmptyBag, SetToBag
  <2> QED  BY <1>1, <2>1, FS_EmptySet DEF WaitingOK, Waiting
<1>4. BansOK
  <2>1. MaxPom \in Nat \ {0} /\ Len(<<>>) = 0
    BY LedgerAssumption
  <2> QED  BY <1>1, <2>1 DEF BansOK
<1>5. VotesMatch
  <2> SUFFICES ASSUME NEW d \in Account
               PROVE  Sum([a \in Account |-> votes[a][d]]) = 0
    BY <1>1 DEF VotesMatch
  <2> DEFINE F == [a \in Account |-> votes[a][d]]
  <2>1. F \in [Account -> Int] /\ \A a \in Account : F[a] = 0
    BY <1>1
  <2> HIDE DEF F
  <2>2. Sum(F) = 0
    BY <2>1, LedgerNumbers, SumZero
  <2> QED  BY <2>2 DEF F
<1>6. SupplyKept
  <2>1. \A a \in Account : votes[a] \in [Account -> Int] /\ \A d \in Account : votes[a][d] = 0
    BY <1>1
  <2>2. \A a \in Account : Sum(votes[a]) = 0
    BY <2>1, LedgerNumbers, SumZero
  <2>3. \A a \in Account : BagTotal(unlocking[a]) = 0
    <3>1. DOMAIN EmptyBag = {}
      BY DEF EmptyBag, SetToBag
    <3>2. [o \in DOMAIN EmptyBag |-> o.amount * EmptyBag[o]] \in [{} -> Int]
      BY <3>1
    <3>3. BagTotal(EmptyBag) = 0
      BY <3>2, SumEmpty DEF BagTotal
    <3> QED  BY <1>1, <3>3
  <2>4. Locked \in [Account -> Int] /\ \A a \in Account : Locked[a] = 0
    BY <2>2, <2>3 DEF Locked
  <2>5. Sum(Locked) = 0
    BY <2>4, LedgerNumbers, SumZero
  <2>6. Sum(Genesis) \in Int
    BY LedgerNumbers, SumType
  <2> QED  BY <1>1, <2>5, <2>6 DEF SupplyKept
<1> QED  BY <1>2, <1>3, <1>4, <1>5, <1>6, LedgerInit DEF BooksOK

\* For any accounts, amounts and genesis block, in every block and after every
\* transaction: no token appears or vanishes, a delegate has received what the
\* accounts voted for it with, votes are positive, what waits to be unlocked has an
\* amount and a past height, and who was reported MaxPom times is banned.
THEOREM LedgerStaysKept == Spec => []LedgerKept
<1>1. Init => BooksOK
  BY BooksInit
<1>2. BooksOK /\ [Next]_vars => BooksOK'
  BY BooksStep
<1>3. BooksOK => LedgerKept
  <2> SUFFICES ASSUME BooksOK PROVE TypeOK
    BY DEF BooksOK, LedgerKept
  <2>1. ASSUME NEW a \in Account, NEW o \in BagToSet(unlocking[a])
        PROVE  o.to \in Account /\ o.amount > 0 /\ o.height \in 1..Current
    <3>1. IsWaiting(o, Current)
      BY <2>1 DEF BooksOK, WaitingOK, Waiting, BagToSet
    <3> QED  BY <3>1 DEF IsWaiting
  <2>2. \A a \in Account : \A d \in Account : votes[a][d] \in Nat
    BY DEF BooksOK, BooksTypes
  <2> QED  BY <2>1, <2>2 DEF TypeOK, BooksOK, BansOK
<1> QED  BY <1>1, <1>2, <1>3, PTL DEF Spec

-----------------------------------------------------------------------------
(***************************************************************************)
(* Signatures. The number of transactions of an account is its nonce, and  *)
(* its group is at least as valid as one of the genesis block: KeysOK.     *)
(***************************************************************************)

Group == [n : Nat, mandatory : Seq(Key), optional : Seq(Key)]
SentRecord == [by : Sender, nonce : Nat, kind : {"send", "register"},
               group : Group, signers : SUBSET Key]

KeysTypes ==
  /\ keys \in [Sender -> Group]
  /\ nonce \in [Sender -> Nat]
  /\ sent \in Seq(SentRecord)

SentBy(a, n) == {j \in 1..n : sent[j].by = a}

NonceCounts == \A a \in Sender : nonce[a] = Cardinality(SentBy(a, Len(sent)))

KeysOK ==
  /\ KeysTypes
  /\ \A a \in Sender : ValidGenesis(keys[a])
  /\ NonceCounts
  /\ NoReplay
  /\ QuorumSigned

GroupKeys(group) == group.mandatory \o group.optional

LEMMA GroupKeysList ==
  ASSUME NEW group \in Group
  PROVE  /\ group.mandatory \in Seq(Key) /\ group.optional \in Seq(Key)
         /\ Len(group.mandatory) \in Nat /\ Len(group.optional) \in Nat
         /\ DOMAIN group.mandatory = 1..Len(group.mandatory)
         /\ DOMAIN group.optional = 1..Len(group.optional)
         /\ GroupKeys(group) \in Seq(Key)
         /\ Len(GroupKeys(group)) = Len(group.mandatory) + Len(group.optional)
         /\ DOMAIN GroupKeys(group) = 1..Len(group.mandatory) + Len(group.optional)
BY DEF Group, GroupKeys

\* A place in two lists one after the other.
LEMMA SplitIndex ==
  ASSUME NEW a \in Nat, NEW b \in Nat
  PROVE  /\ a <= a + b
         /\ \A x \in 1..a + b :
              /\ x \in Int
              /\ x <= a => x \in 1..a
              /\ ~(x <= a) => x - a \in 1..b /\ x \in a+1..a + b
         /\ \A x \in 1..a : x <= a /\ x \in 1..a + b
OBVIOUS

LEMMA AfterFirst ==
  ASSUME NEW a \in Nat, NEW b \in Nat, NEW x \in a+1..a + b
  PROVE  x \in 1..a + b /\ ~(x <= a)
OBVIOUS

LEMMA RegisteredBounds ==
  ASSUME NEW a \in Nat, NEW b \in Nat, NEW n \in Nat, NEW k \in Nat,
         a + b \in 1..k, a <= n, n <= a + b
  PROVE  a + b <= k /\ n \in a..(a + b)
OBVIOUS

\* The mandatory keys come first.
LEMMA GroupKeyAt ==
  ASSUME NEW group \in Group, NEW x \in DOMAIN GroupKeys(group)
  PROVE  /\ x <= Len(group.mandatory) =>
              /\ x \in DOMAIN group.mandatory
              /\ GroupKeys(group)[x] = group.mandatory[x]
         /\ ~(x <= Len(group.mandatory)) =>
              /\ x - Len(group.mandatory) \in DOMAIN group.optional
              /\ GroupKeys(group)[x] = group.optional[x - Len(group.mandatory)]
<1>1. /\ group.mandatory \in Seq(Key) /\ group.optional \in Seq(Key)
      /\ x \in 1..Len(group.mandatory) + Len(group.optional)
  BY GroupKeysList
<1>2. \A i \in 1..Len(group.mandatory) + Len(group.optional) :
        GroupKeys(group)[i] = IF i <= Len(group.mandatory) THEN group.mandatory[i]
                              ELSE group.optional[i - Len(group.mandatory)]
  BY <1>1, ConcatProperties DEF GroupKeys
<1> QED  BY <1>1, <1>2, SplitIndex, GroupKeysList

\* The keys of a valid group are different.
LEMMA GroupKeysDiffer ==
  ASSUME NEW group \in Group, ValidGenesis(group),
         NEW i \in DOMAIN GroupKeys(group), NEW j \in DOMAIN GroupKeys(group),
         GroupKeys(group)[i] = GroupKeys(group)[j]
  PROVE  i = j
<1> DEFINE m == Len(group.mandatory)
           ks == GroupKeys(group)
<1>1. m \in Nat /\ i \in Int /\ j \in Int
  BY GroupKeysList
<1>2. ASSUME NEW x \in DOMAIN ks, x <= m
      PROVE  x \in DOMAIN group.mandatory /\ ks[x] = group.mandatory[x]
  BY <1>2, GroupKeyAt
<1>3. ASSUME NEW x \in DOMAIN ks, ~(x <= m)
      PROVE  x - m \in DOMAIN group.optional /\ ks[x] = group.optional[x - m]
  BY <1>3, GroupKeyAt
<1>4. ASSUME NEW x \in DOMAIN group.mandatory, NEW y \in DOMAIN group.optional
      PROVE  group.mandatory[x] # group.optional[y]
  <2>1. group.mandatory[x] \in ToSet(group.mandatory)
    BY DEF ToSet
  <2>2. group.optional[y] \in ToSet(group.optional)
    BY DEF ToSet
  <2> QED  BY <2>1, <2>2 DEF ValidGenesis
<1>5. CASE i <= m /\ j <= m
  BY <1>2, <1>5 DEF ValidGenesis, IsInjective
<1>6. CASE ~(i <= m) /\ ~(j <= m)
  <2>1. i - m = j - m
    BY <1>3, <1>6 DEF ValidGenesis, IsInjective
  <2> QED  BY <2>1, <1>1
<1>7. CASE i <= m /\ ~(j <= m)
  BY <1>2, <1>3, <1>4, <1>7
<1>8. CASE ~(i <= m) /\ j <= m
  BY <1>2, <1>3, <1>4, <1>8
<1> QED  BY <1>5, <1>6, <1>7, <1>8

\* A group that can be registered could come with the genesis block.
LEMMA RegisteredIsValid ==
  ASSUME NEW group \in Groups
  PROVE  group \in Group /\ ValidGenesis(group)
<1>1. /\ ValidGroup(group) /\ group.n \in Nat
      /\ group.mandatory \in Seq(Key) /\ group.optional \in Seq(Key)
  <2>1. MaxKeys \in Nat
    BY SignaturesAssumption
  <2>2. KeyLists \subseteq Seq(Key)
    <3> SUFFICES ASSUME NEW n \in 0..MaxKeys, NEW ks \in [1..n -> Key]
                 PROVE  ks \in Seq(Key)
      BY DEF KeyLists
    <3> QED  BY <2>1
  <2> QED  BY <2>1, <2>2 DEF Groups
<1>2. group \in Group
  BY <1>1 DEF Groups, Group
<1>3. /\ Len(group.mandatory) + Len(group.optional) <= MaxKeys
      /\ group.n \in Len(group.mandatory)..(Len(group.mandatory) + Len(group.optional))
  <2>1. /\ Len(group.mandatory) \in Nat /\ Len(group.optional) \in Nat
        /\ MaxKeys \in Nat
    BY <1>1, SignaturesAssumption
  <2>2. /\ group.n <= Len(group.mandatory) + Len(group.optional)
        /\ Len(group.mandatory) <= group.n
        /\ Len(group.mandatory) + Len(group.optional) \in 1..MaxKeys
    BY <1>1 DEF ValidGroup
  <2> QED  BY <1>1, <2>1, <2>2, RegisteredBounds
<1> QED  BY <1>1, <1>2, <1>3 DEF ValidGroup, ValidGenesis

LEMMA NotEmpty ==
  ASSUME NEW ks \in Seq(Key), ks # <<>>
  PROVE  Len(ks) # 0
OBVIOUS

LEMMA KeyInList ==
  ASSUME NEW ks \in Seq(Key), NEW i \in DOMAIN ks
  PROVE  ks[i] \in Key
OBVIOUS

LEMMA KeysAreFinite ==
  ASSUME NEW ks \in Seq(Key)
  PROVE  IsFiniteSet(ToSet(ks))
<1>1. ks \in Surjection(1..Len(ks), ToSet(ks))
  BY DEF Surjection, ToSet
<1> QED  BY <1>1, FS_Interval, FS_Surjection

\* What GroupSigned accepts was signed by as many different keys of the group as it
\* asks for, all the mandatory ones among them.
LEMMA GroupSignedByQuorum ==
  ASSUME NEW group \in Group, ValidGenesis(group), IsMultisignature(group),
         NEW n \in Nat, NEW signatures \in [1..n -> Key \cup {Empty, Bad}],
         GroupSigned(group, signatures)
  PROVE  /\ Signers(signatures) # {}
         /\ ToSet(group.mandatory) \subseteq Signers(signatures)
         /\ Cardinality(Signers(signatures) \cap ToSet(GroupKeys(group))) >= group.n
<1> DEFINE m == Len(group.mandatory)
           ks == GroupKeys(group)
           given == NonEmpty(signatures)
           signing == Signers(signatures) \cap ToSet(ks)
<1>1. /\ Len(signatures) = n /\ DOMAIN signatures = 1..n
      /\ ks \in Seq(Key) /\ DOMAIN ks = 1..n
      /\ m \in Nat /\ m <= n /\ n = m + Len(group.optional)
      /\ DOMAIN group.mandatory = 1..m
  <2>1. Len(signatures) = n /\ DOMAIN signatures = 1..n
    OBVIOUS
  <2>2. n = m + Len(group.optional)
    BY <2>1 DEF GroupSigned
  <2>3. /\ ks \in Seq(Key) /\ m \in Nat /\ Len(group.optional) \in Nat
        /\ DOMAIN ks = 1..m + Len(group.optional)
        /\ DOMAIN group.mandatory = 1..m
    BY GroupKeysList
  <2>4. m <= m + Len(group.optional)
    BY <2>3, SplitIndex
  <2> QED  BY <2>1, <2>2, <2>3, <2>4
<1>2. \A i \in 1..m : signatures[i] = group.mandatory[i]
  BY <1>1 DEF GroupSigned, SignedBy
<1>3. ASSUME NEW i \in given PROVE i \in 1..n /\ signatures[i] = ks[i] /\ ks[i] \in Key
  <2>1. i \in 1..n /\ signatures[i] # Empty
    BY <1>1 DEF NonEmpty
  <2>2. ks[i] \in Key
    BY <2>1, <1>1, KeyInList
  <2>3. CASE i <= m
    <3>1. i \in 1..m /\ ks[i] = group.mandatory[i]
      BY <2>1, <2>3, <1>1, GroupKeyAt
    <3> QED  BY <2>1, <2>2, <3>1, <1>2
  <2>4. CASE ~(i <= m)
    <3>1. i \in m+1..m + Len(group.optional)
      BY <2>1, <2>4, <1>1, GroupKeysList, SplitIndex
    <3>2. signatures[i] \in {group.optional[i - m], Empty}
      BY <3>1 DEF GroupSigned
    <3>3. ks[i] = group.optional[i - m]
      BY <2>1, <2>4, <1>1, GroupKeyAt
    <3> QED  BY <2>1, <2>2, <3>2, <3>3
  <2> QED  BY <2>3, <2>4
<1>4. ASSUME NEW i \in given PROVE ks[i] \in signing
  <2>1. ks[i] \in ToSet(ks)
    BY <1>1, <1>3 DEF ToSet
  <2>2. ks[i] \in ToSet(signatures)
    BY <1>1, <1>3 DEF ToSet
  <2> QED  BY <2>1, <2>2, <1>3 DEF Signers
<1>5. IsFiniteSet(signing)
  <2>1. IsFiniteSet(ToSet(ks))
    BY <1>1, KeysAreFinite
  <2> QED  BY <2>1, FS_Subset
<1>6. Cardinality(given) <= Cardinality(signing) /\ IsFiniteSet(given)
  <2> DEFINE f == [i \in given |-> ks[i]]
  <2>1. f \in [given -> signing]
    BY <1>4
  <2>2. ASSUME NEW i \in given, NEW j \in given, f[i] = f[j] PROVE i = j
    BY <2>2, <1>1, <1>3, GroupKeysDiffer
  <2>3. f \in Injection(given, signing)
    BY <2>1, <2>2 DEF Injection, IsInjective
  <2> QED  BY <2>3, <1>5, FS_Injection
<1>7. Cardinality(given) = group.n
  BY DEF GroupSigned
<1>8. group.n \in Nat /\ group.n # 0
  BY DEF Group, IsMultisignature
<1>9. Cardinality(signing) >= group.n
  BY <1>5, <1>6, <1>7, <1>8, FS_CardinalityType
<1>10. given # {}
  BY <1>7, <1>8, FS_EmptySet
<1>11. Signers(signatures) # {}
  BY <1>4, <1>10
<1>12. ToSet(group.mandatory) \subseteq Signers(signatures)
  <2> SUFFICES ASSUME NEW i \in 1..m PROVE group.mandatory[i] \in Signers(signatures)
    BY <1>1 DEF ToSet
  <2>1. group.mandatory[i] \in Key
    BY <1>1 DEF Group
  <2>2. group.mandatory[i] = signatures[i] /\ i \in DOMAIN signatures
    BY <1>1, <1>2, GroupKeysList, SplitIndex
  <2> QED  BY <2>1, <2>2 DEF Signers, ToSet
<1> QED  BY <1>9, <1>11, <1>12

LEMMA KeysOfSender ==
  ASSUME NEW a \in Sender
  PROVE  /\ KeyOf[a] \in Key /\ Empty \notin Key
         /\ Signers(<<KeyOf[a]>>) = {KeyOf[a]}
<1>1. KeyOf[a] \in Key /\ Key \subseteq Nat \ {0}
  BY SignaturesAssumption
<1>2. ToSet(<<KeyOf[a]>>) = {KeyOf[a]}
  BY DEF ToSet
<1> QED  BY <1>1, <1>2 DEF Signers, Empty

\* The first n of a list of keys sign, the other places stay empty.
SignFirst(ks, n) == [i \in 1..Len(ks) |-> IF i <= n THEN ks[i] ELSE Empty]

LEMMA FirstSign ==
  ASSUME NEW ks \in Seq(Key), NEW n \in Nat, n <= Len(ks),
         Len(ks) # 0, Len(ks) <= MaxKeys
  PROVE  /\ SignFirst(ks, n) \in Vectors
         /\ Len(SignFirst(ks, n)) = Len(ks)
         /\ Cardinality(NonEmpty(SignFirst(ks, n))) = n
         /\ \A i \in 1..n : SignFirst(ks, n)[i] = ks[i]
         /\ \A i \in 1..Len(ks) : SignFirst(ks, n)[i] \in {ks[i], Empty}
<1> DEFINE w == SignFirst(ks, n)
<1>1. /\ Len(ks) \in Nat /\ DOMAIN ks = 1..Len(ks) /\ MaxKeys \in Nat
      /\ \A i \in 1..Len(ks) : ks[i] \in Key
      /\ Key \subseteq Nat \ {0}
  BY SignaturesAssumption
<1>2. w \in [1..Len(ks) -> Key \cup {Empty, Bad}]
  BY <1>1 DEF SignFirst
<1>3. w \in Vectors
  <2>1. Len(ks) \in 1..MaxKeys + 1
    BY <1>1
  <2> QED  BY <1>2, <2>1 DEF Vectors
<1>4. Len(w) = Len(ks)
  BY <1>1, <1>2
<1>5. NonEmpty(w) = 1..n
  <2>1. DOMAIN w = 1..Len(ks)
    BY DEF SignFirst
  <2>2. \A i \in 1..Len(ks) : w[i] # Empty <=> i <= n
    BY <1>1 DEF SignFirst, Empty
  <2>3. 1..n = {i \in 1..Len(ks) : i <= n}
    BY <1>1
  <2> QED  BY <2>1, <2>2, <2>3 DEF NonEmpty
<1>6. Cardinality(NonEmpty(w)) = n
  BY <1>5, FS_Interval
<1>7. /\ \A i \in 1..n : w[i] = ks[i]
      /\ \A i \in 1..Len(ks) : w[i] \in {ks[i], Empty}
  BY <1>1 DEF SignFirst
<1> QED  BY <1>3, <1>4, <1>6, <1>7

LEMMA GroupBounds ==
  ASSUME NEW group \in Group, ValidGenesis(group)
  PROVE  /\ group.n \in Nat
         /\ group.n <= Len(group.mandatory) + Len(group.optional)
         /\ \A i \in 1..Len(group.mandatory) : i \in 1..group.n
<1>1. \A a \in Nat, b \in Nat : \A n \in a..a + b :
        n \in Nat /\ n <= a + b /\ \A i \in 1..a : i \in 1..n
  OBVIOUS
<1>2. /\ Len(group.mandatory) \in Nat /\ Len(group.optional) \in Nat
      /\ group.n \in Len(group.mandatory)..Len(group.mandatory) + Len(group.optional)
  BY GroupKeysList DEF ValidGenesis
<1> QED  BY <1>1, <1>2

\* A group can send when the first n of its keys sign.
LEMMA GroupCanSend ==
  ASSUME KeysOK, NEW a \in Sender
  PROVE  \E signatures \in Vectors : Authorized(a, signatures)
<1> DEFINE group == keys[a]
           m == Len(group.mandatory)
           ks == GroupKeys(group)
<1>1. group \in Group /\ ValidGenesis(group) /\ MaxKeys \in Nat
  BY SignaturesAssumption DEF KeysOK, KeysTypes
<1>2. CASE ~IsMultisignature(group)
  <2>1. <<KeyOf[a]>> \in [1..1 -> Key \cup {Empty, Bad}]
    BY KeysOfSender
  <2>2. <<KeyOf[a]>> \in Vectors
    BY <1>1, <2>1 DEF Vectors
  <2> QED  BY <1>2, <2>2 DEF Authorized
<1>3. CASE IsMultisignature(group)
  <2> DEFINE w == SignFirst(ks, group.n)
  <2>1. /\ ks \in Seq(Key) /\ Len(ks) = m + Len(group.optional)
        /\ DOMAIN ks = 1..m + Len(group.optional)
        /\ m \in Nat /\ Len(group.optional) \in Nat
        /\ DOMAIN group.mandatory = 1..m
    BY <1>1, GroupKeysList
  <2>2. ks # <<>>
    BY <1>3 DEF IsMultisignature, GroupKeys
  <2>3. Len(ks) # 0 /\ Len(ks) <= MaxKeys
    BY <1>1, <2>1, <2>2, NotEmpty DEF ValidGenesis
  <2>4. group.n \in Nat /\ group.n <= Len(ks) /\ \A i \in 1..m : i \in 1..group.n
    <3>1. /\ group.n \in Nat /\ group.n <= m + Len(group.optional)
          /\ \A i \in 1..m : i \in 1..group.n
      BY <1>1, GroupBounds
    <3> QED  BY <3>1, <2>1
  <2>5. /\ w \in Vectors /\ Len(w) = m + Len(group.optional)
        /\ Cardinality(NonEmpty(w)) = group.n
        /\ \A i \in 1..group.n : w[i] = ks[i]
        /\ \A i \in DOMAIN ks : w[i] \in {ks[i], Empty}
    BY <2>1, <2>3, <2>4, FirstSign
  <2>6. SignedBy(group.mandatory, w)
    <3> SUFFICES ASSUME NEW i \in 1..m PROVE w[i] = group.mandatory[i]
      BY <2>1 DEF SignedBy
    <3>1. i \in 1..group.n /\ i \in DOMAIN ks /\ i <= m
      BY <2>1, <2>4, SplitIndex
    <3> QED  BY <3>1, <2>5, <1>1, GroupKeyAt
  <2>7. ASSUME NEW i \in m+1..m + Len(group.optional)
        PROVE  w[i] \in {group.optional[i - m], Empty}
    <3>1. i \in DOMAIN ks /\ ~(i <= m)
      BY <2>1, AfterFirst
    <3> QED  BY <3>1, <2>5, <1>1, GroupKeyAt
  <2>8. GroupSigned(group, w)
    BY <2>5, <2>6, <2>7 DEF GroupSigned
  <2> QED  BY <1>3, <2>5, <2>8 DEF Authorized
<1> QED  BY <1>2, <1>3

LEMMA LastOrEarlier ==
  ASSUME NEW n \in Nat, NEW i \in 1..n + 1
  PROVE  i \in 1..n \/ i = n + 1
OBVIOUS

LEMMA SentByFinite ==
  ASSUME NEW a, NEW n \in Nat
  PROVE  IsFiniteSet(SentBy(a, n)) /\ Cardinality(SentBy(a, n)) \in Nat
<1>1. IsFiniteSet(1..n)
  BY FS_Interval
<1> QED  BY <1>1, FS_Subset, FS_CardinalityType DEF SentBy

\* The record of one more transaction at the nonce of its sender.
LEMMA RecordKeeps ==
  ASSUME KeysOK, NEW a \in Sender, NEW n \in Nat, NEW r \in SentRecord,
         r.by = a, r.nonce = n, NonceFits(a, n),
         sent' = Append(sent, r), nonce' = [nonce EXCEPT ![a] = @ + 1]
  PROVE  /\ NonceCounts' /\ NoReplay'
         /\ nonce' \in [Sender -> Nat] /\ sent' \in Seq(SentRecord)
<1> DEFINE len == Len(sent)
<1>1. /\ len \in Nat /\ nonce \in [Sender -> Nat] /\ sent \in Seq(SentRecord)
      /\ Len(sent') = len + 1 /\ sent'[len + 1] = r
      /\ \A j \in 1..len : sent'[j] = sent[j]
      /\ DOMAIN sent = 1..len /\ DOMAIN sent' = 1..len + 1
  BY DEF KeysOK, KeysTypes
<1>2. nonce' \in [Sender -> Nat] /\ sent' \in Seq(SentRecord)
  BY <1>1
<1>3. n = Cardinality(SentBy(a, len))
  BY <1>1 DEF NonceFits, KeysOK, NonceCounts
<1>4. NonceCounts'
  <2> SUFFICES ASSUME NEW b \in Sender
               PROVE  nonce'[b] = Cardinality({j \in 1..len + 1 : sent'[j].by = b})
    BY <1>1 DEF NonceCounts, SentBy
  <2>1. nonce[b] = Cardinality(SentBy(b, len))
    BY DEF KeysOK, NonceCounts
  <2>2. CASE b = a
    <3>1. {j \in 1..len + 1 : sent'[j].by = b} = SentBy(b, len) \cup {len + 1}
      BY <2>2, <1>1 DEF SentBy
    <3>2. len + 1 \notin SentBy(b, len)
      BY <1>1 DEF SentBy
    <3>3. Cardinality(SentBy(b, len) \cup {len + 1}) = Cardinality(SentBy(b, len)) + 1
      BY <3>2, <1>1, SentByFinite, FS_AddElement
    <3>4. nonce'[b] = nonce[b] + 1
      BY <2>2, <1>1
    <3> QED  BY <2>1, <3>1, <3>3, <3>4
  <2>3. CASE b # a
    <3>1. {j \in 1..len + 1 : sent'[j].by = b} = SentBy(b, len)
      BY <2>3, <1>1 DEF SentBy
    <3> QED  BY <2>1, <2>3, <3>1, <1>1
  <2> QED  BY <2>2, <2>3
<1>5. NoReplay'
  <2> SUFFICES ASSUME NEW i \in 1..len + 1
               PROVE  sent'[i].nonce =
                        Cardinality({j \in 1..i-1 : sent'[j].by = sent'[i].by})
    BY <1>1 DEF NoReplay
  <2>1. CASE i \in 1..len
    <3>1. sent'[i] = sent[i] /\ \A j \in 1..i-1 : sent'[j] = sent[j]
      BY <2>1, <1>1
    <3>2. {j \in 1..i-1 : sent'[j].by = sent'[i].by} =
          {j \in 1..i-1 : sent[j].by = sent[i].by}
      BY <3>1
    <3> QED  BY <2>1, <3>1, <3>2, <1>1 DEF KeysOK, NoReplay
  <2>2. CASE i = len + 1
    <3>1. i - 1 = len /\ sent'[i] = r
      BY <2>2, <1>1
    <3>2. {j \in 1..i-1 : sent'[j].by = sent'[i].by} = SentBy(a, len)
      BY <3>1, <1>1 DEF SentBy
    <3> QED  BY <3>1, <3>2, <1>3
  <2> QED  BY <1>1, <2>1, <2>2, LastOrEarlier
<1> QED  BY <1>2, <1>4, <1>5

\* The transactions recorded before this step are signed as they were.
LEMMA SignedStays ==
  ASSUME KeysOK, NEW r \in SentRecord, sent' = Append(sent, r),
         r.signers # {},
         IsMultisignature(r.group) /\ r.kind = "send" =>
           /\ ToSet(r.group.mandatory) \subseteq r.signers
           /\ Cardinality(r.signers \cap
                ToSet(r.group.mandatory \o r.group.optional)) >= r.group.n
  PROVE  QuorumSigned'
<1>1. /\ sent \in Seq(SentRecord) /\ Len(sent) \in Nat
      /\ DOMAIN sent' = 1..Len(sent) + 1 /\ DOMAIN sent = 1..Len(sent)
      /\ sent'[Len(sent) + 1] = r /\ \A j \in 1..Len(sent) : sent'[j] = sent[j]
  BY DEF KeysOK, KeysTypes
<1>2. \A i \in DOMAIN sent' : (i \in DOMAIN sent /\ sent'[i] = sent[i]) \/ sent'[i] = r
  BY <1>1, LastOrEarlier
<1> QED  BY <1>2 DEF KeysOK, QuorumSigned

LEMMA SendKeeps ==
  ASSUME KeysOK, NEW a \in Sender, NEW n \in 0..MaxSent, NEW signatures \in Vectors,
         Send(a, n, signatures)
  PROVE  KeysOK' /\ UNCHANGED keys
<1> DEFINE group == keys[a]
           r == [by |-> a, nonce |-> n, kind |-> "send", group |-> group,
                 signers |-> Signers(signatures)]
<1>1. group \in Group /\ ValidGenesis(group) /\ n \in Nat
  BY SignaturesAssumption DEF KeysOK, KeysTypes
<1>2. r \in SentRecord
  BY <1>1 DEF SentRecord, Signers
<1>3. /\ sent' = Append(sent, r) /\ nonce' = [nonce EXCEPT ![a] = @ + 1]
      /\ NonceFits(a, n) /\ UNCHANGED keys
  BY DEF Send, Record
<1>4. NonceCounts' /\ NoReplay' /\ nonce' \in [Sender -> Nat] /\ sent' \in Seq(SentRecord)
  BY <1>1, <1>2, <1>3, RecordKeeps
<1>5. QuorumSigned'
  <2>1. CASE IsMultisignature(group)
    <3>1. GroupSigned(group, signatures)
      BY <2>1 DEF Send, Authorized
    <3>2. PICK k \in 1..MaxKeys + 1 : signatures \in [1..k -> Key \cup {Empty, Bad}]
      BY DEF Vectors
    <3>3. k \in Nat
      BY <3>2, SignaturesAssumption
    <3>4. /\ r.signers # {}
          /\ ToSet(group.mandatory) \subseteq r.signers
          /\ Cardinality(r.signers \cap ToSet(GroupKeys(group))) >= group.n
      BY <1>1, <2>1, <3>1, <3>2, <3>3, GroupSignedByQuorum
    <3> QED  BY <1>2, <1>3, <3>4, SignedStays DEF GroupKeys
  <2>2. CASE ~IsMultisignature(group)
    <3>1. r.signers # {}
      BY <2>2, KeysOfSender DEF Send, Authorized
    <3> QED  BY <1>2, <1>3, <2>2, <3>1, SignedStays
  <2> QED  BY <2>1, <2>2
<1>6. KeysTypes' /\ \A b \in Sender : ValidGenesis(keys'[b])
  BY <1>3, <1>4 DEF KeysOK, KeysTypes
<1> QED  BY <1>3, <1>4, <1>5, <1>6 DEF KeysOK

LEMMA SenderFirst ==
  ASSUME NEW k \in Key, NEW s \in Seq(Key), NEW t \in Seq(Key)
  PROVE  1 \in DOMAIN (<<k>> \o s \o t) /\ (<<k>> \o s \o t)[1] = k
<1>1. <<k>> \in Seq(Key) /\ Len(<<k>>) = 1
  OBVIOUS
<1>2. /\ <<k>> \o s \in Seq(Key) /\ Len(<<k>> \o s) = 1 + Len(s)
      /\ (<<k>> \o s)[1] = k
  BY <1>1
<1> QED  BY <1>1, <1>2

LEMMA RegisterKeeps ==
  ASSUME KeysOK, NEW a \in Sender, NEW n \in 0..MaxSent, NEW group \in Groups,
         RegisterKeys(a, n, group)
  PROVE  KeysOK' /\ \A b \in Sender : IsMultisignature(keys[b]) => keys'[b] = keys[b]
<1> DEFINE r == [by |-> a, nonce |-> n, kind |-> "register", group |-> keys[a],
                 signers |-> Signers(AllSigned(a, group))]
<1>1. /\ group \in Group /\ ValidGenesis(group) /\ n \in Nat
      /\ keys \in [Sender -> Group]
  BY SignaturesAssumption, RegisteredIsValid DEF KeysOK, KeysTypes
<1>2. r \in SentRecord
  BY <1>1 DEF SentRecord, Signers
<1>3. /\ sent' = Append(sent, r) /\ nonce' = [nonce EXCEPT ![a] = @ + 1]
      /\ NonceFits(a, n) /\ keys' = [keys EXCEPT ![a] = group]
      /\ keys[a].n = 0
  BY DEF RegisterKeys, Record
<1>4. NonceCounts' /\ NoReplay' /\ nonce' \in [Sender -> Nat] /\ sent' \in Seq(SentRecord)
  BY <1>1, <1>2, <1>3, RecordKeeps
<1>5. r.signers # {}
  <2> DEFINE all == AllSigned(a, group)
  <2>1. KeyOf[a] \in Key
    BY KeysOfSender
  <2>2. group.mandatory \in Seq(Key) /\ group.optional \in Seq(Key)
    BY <1>1, GroupKeysList
  <2>3. 1 \in DOMAIN all /\ all[1] = KeyOf[a]
    BY <2>1, <2>2, SenderFirst DEF AllSigned
  <2> QED  BY <2>1, <2>3 DEF Signers, ToSet
<1>6. QuorumSigned'
  BY <1>2, <1>3, <1>5, SignedStays
<1>7. KeysTypes' /\ \A b \in Sender : ValidGenesis(keys'[b])
  BY <1>1, <1>3, <1>4 DEF KeysOK, KeysTypes
<1>8. \A b \in Sender : IsMultisignature(keys[b]) => keys'[b] = keys[b]
  BY <1>1, <1>3 DEF IsMultisignature
<1> QED  BY <1>4, <1>6, <1>7, <1>8 DEF KeysOK

LEMMA KeysStep ==
  ASSUME KeysOK, [KeysNext]_keysVars
  PROVE  KeysOK' /\ \A b \in Sender : IsMultisignature(keys[b]) => keys'[b] = keys[b]
<1>1. ASSUME NEW a \in Sender, NEW n \in 0..MaxSent, NEW signatures \in Vectors,
             Send(a, n, signatures)
      PROVE  KeysOK' /\ UNCHANGED keys
  BY <1>1, SendKeeps
<1>2. ASSUME NEW a \in Sender, NEW n \in 0..MaxSent, NEW group \in Groups,
             RegisterKeys(a, n, group)
      PROVE  KeysOK' /\ \A b \in Sender : IsMultisignature(keys[b]) => keys'[b] = keys[b]
  BY <1>2, RegisterKeeps
<1>3. CASE UNCHANGED keysVars
  BY <1>3 DEF keysVars, KeysOK, KeysTypes, NonceCounts, SentBy, NoReplay, QuorumSigned
<1> QED  BY <1>1, <1>2, <1>3 DEF KeysNext

LEMMA KeysInitOK ==
  ASSUME KeysInit PROVE KeysOK
<1>1. KeysTypes /\ \A a \in Sender : ValidGenesis(keys[a])
  BY SignaturesAssumption DEF KeysInit, KeysTypes, Group
<1>2. NoReplay /\ QuorumSigned
  BY DEF KeysInit, NoReplay, QuorumSigned
<1>3. NonceCounts
  <2> SUFFICES ASSUME NEW a \in Sender PROVE nonce[a] = Cardinality(SentBy(a, Len(sent)))
    BY DEF NonceCounts
  <2>1. SentBy(a, Len(sent)) = {} /\ nonce[a] = 0
    BY DEF KeysInit, SentBy
  <2> QED  BY <2>1, FS_EmptySet
<1> QED  BY <1>1, <1>2, <1>3 DEF KeysOK

\* For any keys and any groups, those of the genesis block among them: transactions
\* are applied once each without a gap, nobody sends without the keys its group asks
\* for, every account can be used, and nobody replaces a group.
THEOREM SignaturesStay == KeysSpec => SignaturesHold
<1>1. KeysInit => KeysOK
  BY KeysInitOK
<1>2. KeysOK /\ [KeysNext]_keysVars => KeysOK'
  BY KeysStep
<1>3. KeysOK => NoReplay /\ QuorumSigned /\ CanSend
  BY GroupCanSend DEF KeysOK, CanSend
<1>4. KeysOK /\ [KeysNext]_keysVars =>
        [\A a \in Sender : IsMultisignature(keys[a]) => keys'[a] = keys[a]]_keysVars
  BY KeysStep
<1> QED  BY <1>1, <1>2, <1>3, <1>4, PTL DEF KeysSpec, SignaturesHold, GroupKept

-----------------------------------------------------------------------------
(* Delegates: sorting a set.                                               *)

\* A strict total order on S.
Orders(R, S) ==
  /\ \A x, y \in S : x # y => <<x, y>> \in R \/ <<y, x>> \in R
  /\ \A x, y \in S : <<x, y>> \in R => <<y, x>> \notin R
  /\ \A x, y, z \in S : <<x, y>> \in R /\ <<y, z>> \in R => <<x, z>> \in R

Before(S, R, x) == {y \in S : <<y, x>> \in R}

LEMMA EarlierHasLess ==
  ASSUME NEW S, IsFiniteSet(S), NEW R, Orders(R, S), NEW x \in S, NEW y \in S, <<y, x>> \in R
  PROVE  Cardinality(Before(S, R, y)) < Cardinality(Before(S, R, x))
<1> DEFINE X == Before(S, R, x)
           Y == Before(S, R, y)
<1>1. IsFiniteSet(X) /\ IsFiniteSet(Y)
  BY FS_Subset DEF Before
<1>2. y \in X /\ Y \subseteq X \ {y}
  BY DEF Before, Orders
<1> HIDE DEF X, Y
<1>3. IsFiniteSet(X \ {y}) /\ Cardinality(X \ {y}) = Cardinality(X) - 1
  BY <1>1, <1>2, FS_RemoveElement
<1>4. Cardinality(Y) <= Cardinality(X \ {y})
  BY <1>2, <1>3, FS_Subset
<1>5. Cardinality(X) \in Nat /\ Cardinality(Y) \in Nat
  BY <1>1, FS_CardinalityType
<1>6. Cardinality(Y) < Cardinality(X)
  BY <1>3, <1>4, <1>5
<1> QED  BY <1>6 DEF X, Y

LEMMA PlacesFill ==
  ASSUME NEW S, IsFiniteSet(S), NEW R, Orders(R, S)
  PROVE  \A i \in 1..Cardinality(S) :
           \E x \in S : Cardinality(Before(S, R, x)) = i - 1
<1> DEFINE n == Cardinality(S)
           place == [x \in S |-> Cardinality(Before(S, R, x)) + 1]
<1>1. n \in Nat
  BY FS_CardinalityType
<1>2. ASSUME NEW x \in S PROVE place[x] \in 1..n
  <2>1. Before(S, R, x) \subseteq S \ {x}
    BY DEF Before, Orders
  <2>2. IsFiniteSet(S \ {x}) /\ Cardinality(S \ {x}) = n - 1
    BY FS_RemoveElement
  <2>3. IsFiniteSet(Before(S, R, x)) /\ Cardinality(Before(S, R, x)) <= n - 1
    BY <2>1, <2>2, FS_Subset
  <2>4. Cardinality(Before(S, R, x)) \in Nat
    BY <2>3, FS_CardinalityType
  <2> QED  BY <1>1, <2>3, <2>4
<1>3. ASSUME NEW x \in S, NEW y \in S, x # y PROVE place[x] # place[y]
  <2>1. <<x, y>> \in R \/ <<y, x>> \in R
    BY <1>3 DEF Orders
  <2>2. Cardinality(Before(S, R, x)) < Cardinality(Before(S, R, y))
        \/ Cardinality(Before(S, R, y)) < Cardinality(Before(S, R, x))
    BY <2>1, EarlierHasLess
  <2>3. Cardinality(Before(S, R, x)) \in Nat /\ Cardinality(Before(S, R, y)) \in Nat
    BY FS_Subset, FS_CardinalityType DEF Before
  <2> QED  BY <2>2, <2>3
<1>4. place \in Injection(S, 1..n)
  <2>1. place \in [S -> 1..n]
    BY <1>2
  <2> HIDE DEF place, n
  <2> QED  BY <1>3, <2>1 DEF Injection, IsInjective
<1>5. IsFiniteSet(1..n) /\ Cardinality(1..n) = n
  BY <1>1, FS_Interval
<1>6. place \in Surjection(S, 1..n)
  BY <1>4, <1>5, FS_Injection
<1> SUFFICES ASSUME NEW i \in 1..n
             PROVE  \E x \in S : Cardinality(Before(S, R, x)) = i - 1
  OBVIOUS
<1>7. PICK x \in S : place[x] = i
  BY <1>6 DEF Surjection
<1>8. Cardinality(Before(S, R, x)) \in Nat
  BY FS_Subset, FS_CardinalityType DEF Before
<1> QED  BY <1>7, <1>8

LEMMA OrderedLists ==
  ASSUME NEW S, IsFiniteSet(S), NEW R, Orders(R, S)
  PROVE  /\ Ordered(S, R) \in Seq(S) /\ Len(Ordered(S, R)) = Cardinality(S)
         /\ \A i, j \in 1..Cardinality(S) : i < j => <<Ordered(S, R)[i], Ordered(S, R)[j]>> \in R
         /\ \A x \in S : \E i \in 1..Cardinality(S) : Ordered(S, R)[i] = x
<1> DEFINE n == Cardinality(S)
<1>1. n \in Nat
  BY FS_CardinalityType
<1>2. PICK s : s = Ordered(S, R)
  OBVIOUS
<1>3. s = [i \in 1..n |-> CHOOSE x \in S : Cardinality(Before(S, R, x)) = i - 1]
  BY <1>2 DEF Ordered, Before
<1>4. \A i \in 1..n : s[i] \in S /\ Cardinality(Before(S, R, s[i])) = i - 1
  <2> SUFFICES ASSUME NEW i \in 1..n
               PROVE  s[i] \in S /\ Cardinality(Before(S, R, s[i])) = i - 1
    OBVIOUS
  <2>1. \E x \in S : Cardinality(Before(S, R, x)) = i - 1
    BY PlacesFill
  <2>2. s[i] = CHOOSE x \in S : Cardinality(Before(S, R, x)) = i - 1
    BY <1>3
  <2> QED  BY <2>1, <2>2
<1>5. s \in [1..n -> S]
  BY <1>3, <1>4
<1>6. s \in Seq(S) /\ Len(s) = n
  BY <1>1, <1>5
<1>7. ASSUME NEW i \in 1..n, NEW j \in 1..n, i < j PROVE <<s[i], s[j]>> \in R
  <2>1. s[i] # s[j]
    BY <1>4, <1>7
  <2>2. ASSUME <<s[j], s[i]>> \in R PROVE FALSE
    <3>1. Cardinality(Before(S, R, s[j])) < Cardinality(Before(S, R, s[i]))
      BY <1>4, <2>2, EarlierHasLess
    <3> QED  BY <1>1, <1>4, <1>7, <3>1
  <2> QED  BY <1>4, <2>1, <2>2 DEF Orders
<1>8. ASSUME NEW x \in S PROVE \E i \in 1..n : s[i] = x
  <2>1. Cardinality(Before(S, R, x)) \in Nat
    BY FS_Subset, FS_CardinalityType DEF Before
  <2>2. Before(S, R, x) \subseteq S \ {x}
    BY DEF Before, Orders
  <2>3. IsFiniteSet(S \ {x}) /\ Cardinality(S \ {x}) = n - 1
    BY FS_RemoveElement
  <2>4. Cardinality(Before(S, R, x)) <= n - 1
    BY <2>2, <2>3, FS_Subset
  <2>5. PICK i \in 1..n : i = Cardinality(Before(S, R, x)) + 1
    BY <1>1, <2>1, <2>4
  <2>6. s[i] \in S /\ Cardinality(Before(S, R, s[i])) = Cardinality(Before(S, R, x))
    BY <1>4, <2>1, <2>5
  <2>7. ASSUME s[i] # x PROVE FALSE
    <3>1. <<s[i], x>> \in R \/ <<x, s[i]>> \in R
      BY <2>6, <2>7 DEF Orders
    <3>2. Cardinality(Before(S, R, s[i])) < Cardinality(Before(S, R, x))
          \/ Cardinality(Before(S, R, x)) < Cardinality(Before(S, R, s[i]))
      BY <2>6, <3>1, EarlierHasLess
    <3> QED  BY <2>1, <2>6, <3>2
  <2> QED  BY <2>7
<1> QED  BY <1>2, <1>6, <1>7, <1>8

-----------------------------------------------------------------------------
(* Rounds and slots.                                                       *)

LEMMA DivUnique ==
  ASSUME NEW a \in Int, NEW n \in Nat, n > 0, NEW q \in Int, NEW r \in Nat, r < n, a = n * q + r
  PROVE  a \div n = q /\ a % n = r
  OBVIOUS

LEMMA DivMod ==
  ASSUME NEW a \in Int, NEW n \in Nat, n > 0
  PROVE  a = n * (a \div n) + (a % n) /\ a % n \in Nat /\ a % n < n /\ a \div n \in Int
  OBVIOUS

LEMMA ModMinus ==
  ASSUME NEW a \in Int, NEW c \in Int, NEW n \in Nat, n > 0
  PROVE  ((a % n) - c) % n = (a - c) % n
<1>1. PICK q \in Int, r \in Nat : a = n * q + r /\ r = a % n /\ r < n
  BY DivMod
<1>2. PICK p \in Int, s \in Nat : r - c = n * p + s /\ s = (r - c) % n /\ s < n
  <2>1. r - c \in Int
    OBVIOUS
  <2> QED  BY <2>1, DivMod
<1>3. a - c = n * (q + p) + s
  <2>1. n * (q + p) = n * q + n * p
    OBVIOUS
  <2>2. n * q \in Int /\ n * p \in Int
    OBVIOUS
  <2> QED  BY <1>1, <1>2, <2>1, <2>2
<1>4. (a - c) % n = s
  <2>1. a - c \in Int /\ q + p \in Int
    OBVIOUS
  <2> QED  BY <1>2, <1>3, <2>1, DivUnique
<1> QED  BY <1>1, <1>2, <1>4

LEMMA PerRound == BlocksPerRound \in Nat /\ BlocksPerRound > 0
  BY RoundsAssumption DEF BlocksPerRound

LEMMA RoundIsNat == ASSUME NEW h \in Nat PROVE Round(h) \in Nat
<1>1. PICK n \in Nat : n = BlocksPerRound /\ n > 0
  BY PerRound
<1>2. (h + n - 1) \div n \in Nat
  BY <1>1
<1> QED  BY <1>1, <1>2 DEF Round

LEMMA RoundsRise ==
  ASSUME NEW g \in Nat, NEW h \in Nat, g <= h
  PROVE  Round(g) <= Round(h)
<1>1. PICK n \in Nat : n = BlocksPerRound /\ n > 0
  BY PerRound
<1>2. (g + n - 1) \div n <= (h + n - 1) \div n
  BY <1>1
<1> QED  BY <1>1, <1>2 DEF Round

LEMMA NextRound ==
  ASSUME NEW h \in Nat
  PROVE  Round(h + 1) \in {Round(h), Round(h) + 1}
<1>1. PICK n \in Nat : n = BlocksPerRound /\ n > 0
  BY PerRound
<1>2. PICK a \in Int : a = h + n - 1
  BY <1>1
<1>3. (a + 1) \div n \in {a \div n, a \div n + 1}
  BY <1>1
<1>4. h + 1 + n - 1 = a + 1
  BY <1>1, <1>2
<1> QED  BY <1>1, <1>2, <1>3, <1>4 DEF Round

LEMMA FirstRound ==
  ASSUME NEW h \in Nat
  PROVE  /\ h >= 1 => Round(h) >= 1
         /\ Round(1) = 1
         /\ Round(h) > 1 <=> h > BlocksPerRound
<1>1. PICK n \in Nat : n = BlocksPerRound /\ n > 0
  BY PerRound
<1>2. h >= 1 => (h + n - 1) \div n >= 1
  BY <1>1
<1>3. (1 + n - 1) \div n = 1
  BY <1>1
<1>4. (h + n - 1) \div n > 1 <=> h > n
  BY <1>1
<1> QED  BY <1>1, <1>2, <1>3, <1>4 DEF Round

-----------------------------------------------------------------------------
(* Snapshots.                                                              *)

LEMMA MinOfTwo ==
  ASSUME NEW x \in Int, NEW y \in Int
  PROVE  Min({x, y}) = IF x <= y THEN x ELSE y
<1>1. \E m \in {x, y} : \A n \in {x, y} : m <= n
  OBVIOUS
<1>2. Min({x, y}) \in {x, y} /\ \A n \in {x, y} : Min({x, y}) <= n
  BY <1>1 DEF Min
<1> QED  BY <1>2

LEMMA MaxOfTwo ==
  ASSUME NEW x \in Int, NEW y \in Int
  PROVE  Max({x, y}) = IF x >= y THEN x ELSE y
<1>1. \E m \in {x, y} : \A n \in {x, y} : m >= n
  OBVIOUS
<1>2. Max({x, y}) \in {x, y} /\ \A n \in {x, y} : Max({x, y}) >= n
  BY <1>1 DEF Max
<1> QED  BY <1>2

DelegateAccount ==
  [self : Nat, received : Nat, pom : Seq(Nat), banned : BOOLEAN, missed : Nat, lastForged : Nat]

Entry == [d : Delegate, weight : Nat]
EntryOf(acc, h, d) == [d |-> d, weight |-> Weight(acc, d, h)]
Entries(acc, h) == {EntryOf(acc, h, d) : d \in Eligible(acc)}
Ahead(S) ==
  {p \in S \X S : \/ p[1].weight > p[2].weight
                  \/ p[1].weight = p[2].weight /\ p[1].d < p[2].d}

Listing(s) == {s[i].d : i \in 1..Len(s)}

\* A sequence of entries that names nobody twice, with candidates of weight
\* when stand-by delegates have to be drawn.
IsSnapshot(s) ==
  /\ s \in Seq(Entry)
  /\ \A i, j \in 1..Len(s) : i < j => s[i].d # s[j].d
  /\ Len(s) > Active + Standby => \A i \in (Active + 1)..Len(s) : s[i].weight > 0

LEMMA WeightIsNat ==
  ASSUME NEW acc \in [Delegate -> DelegateAccount], NEW d \in Delegate, NEW h
  PROVE  Weight(acc, d, h) \in Nat
<1>1. PICK x \in Nat, y \in Nat : x = acc[d].received /\ y = acc[d].self
  BY DEF DelegateAccount
<1>2. PICK z \in Nat : z = y * CapRate
  <2>1. CapRate \in Nat
    BY RoundsAssumption
  <2> QED  BY <2>1
<1>3. Min({x, z}) \in Nat
  BY MinOfTwo
<1> QED  BY <1>1, <1>2, <1>3 DEF Weight

LEMMA EntriesAre ==
  ASSUME NEW acc \in [Delegate -> DelegateAccount], NEW h
  PROVE  /\ IsFiniteSet(Entries(acc, h)) /\ Entries(acc, h) \subseteq Entry
         /\ Orders(Ahead(Entries(acc, h)), Entries(acc, h))
         /\ \A x \in Entries(acc, h) :
              x.d \in Eligible(acc) /\ x.weight = Weight(acc, x.d, h)
<1> DEFINE D == Eligible(acc)
           S == Entries(acc, h)
           f == [d \in D |-> EntryOf(acc, h, d)]
<1>1. IsFiniteSet(D) /\ D \subseteq Delegate
  BY FS_Subset, RoundsAssumption DEF Eligible
<1>2. f \in Surjection(D, S)
  BY DEF Surjection, Entries
<1>3. IsFiniteSet(S)
  <2> HIDE DEF f, D, S
  <2> QED  BY <1>1, <1>2, FS_Surjection
<1>4. \A d \in D : Weight(acc, d, h) \in Nat
  BY <1>1, WeightIsNat
<1>5. S \subseteq Entry
  BY <1>1, <1>4 DEF Entries, EntryOf, Entry
<1>6. \A x \in S : x.d \in D /\ x.weight = Weight(acc, x.d, h)
  BY DEF Entries, EntryOf
<1>7. \A x, y \in S : x # y => x.d # y.d
  BY DEF Entries, EntryOf
<1>8. \A x \in S : x.d \in Nat /\ x.weight \in Nat
  BY <1>5, RoundsAssumption DEF Entry
<1>9. ASSUME NEW x \in S, NEW y \in S
      PROVE  <<x, y>> \in Ahead(S) <=> \/ x.weight > y.weight
                                       \/ x.weight = y.weight /\ x.d < y.d
  BY DEF Ahead
<1> HIDE DEF S
<1>10. Orders(Ahead(S), S)
  <2>1. \A x, y \in S : x # y => <<x, y>> \in Ahead(S) \/ <<y, x>> \in Ahead(S)
    BY <1>7, <1>8, <1>9
  <2>2. \A x, y \in S : <<x, y>> \in Ahead(S) => <<y, x>> \notin Ahead(S)
    BY <1>8, <1>9
  <2>3. \A x, y, z \in S :
          <<x, y>> \in Ahead(S) /\ <<y, z>> \in Ahead(S) => <<x, z>> \in Ahead(S)
    BY <1>8, <1>9
  <2> QED  BY <2>1, <2>2, <2>3 DEF Orders
<1> QED  BY <1>3, <1>5, <1>6, <1>10 DEF S

LEMMA RankingIs ==
  ASSUME NEW acc \in [Delegate -> DelegateAccount], NEW h
  PROVE  /\ Ranking(acc, h) \in Seq(Entry)
         /\ \A i \in 1..Len(Ranking(acc, h)) :
              /\ Ranking(acc, h)[i].d \in Eligible(acc)
              /\ Ranking(acc, h)[i].weight = Weight(acc, Ranking(acc, h)[i].d, h)
         /\ \A i, j \in 1..Len(Ranking(acc, h)) : i < j =>
              /\ Ranking(acc, h)[i].d # Ranking(acc, h)[j].d
              /\ Ranking(acc, h)[i].weight >= Ranking(acc, h)[j].weight
         /\ \A d \in Eligible(acc) :
              \E i \in 1..Len(Ranking(acc, h)) : Ranking(acc, h)[i].d = d
<1>1. PICK S : S = Entries(acc, h)
  OBVIOUS
<1>2. /\ IsFiniteSet(S) /\ S \subseteq Entry /\ Orders(Ahead(S), S)
      /\ \A x \in S : x.d \in Eligible(acc) /\ x.weight = Weight(acc, x.d, h)
      /\ \A d \in Eligible(acc) : \E x \in S : x.d = d
  <2>1. ASSUME NEW d \in Eligible(acc) PROVE \E x \in S : x.d = d
    <3>1. EntryOf(acc, h, d) \in S
      BY <1>1 DEF Entries
    <3>2. EntryOf(acc, h, d).d = d
      BY DEF EntryOf
    <3> QED  BY <3>1, <3>2
  <2> QED  BY <1>1, <2>1, EntriesAre
<1>3. PICK r : r = Ranking(acc, h)
  OBVIOUS
<1>4. r = Ordered(S, Ahead(S))
  BY <1>1, <1>3 DEF Ranking, Entries, EntryOf, Ahead
<1>5. /\ r \in Seq(S) /\ Len(r) = Cardinality(S)
      /\ \A i, j \in 1..Cardinality(S) : i < j => <<r[i], r[j]>> \in Ahead(S)
      /\ \A x \in S : \E i \in 1..Cardinality(S) : r[i] = x
  BY <1>2, <1>4, OrderedLists
<1>6. \A i \in 1..Len(r) : r[i] \in S
  BY <1>5
<1>7. r \in Seq(Entry)
  BY <1>2, <1>5, <1>6
<1>8. ASSUME NEW i \in 1..Len(r), NEW j \in 1..Len(r), i < j
      PROVE  r[i].d # r[j].d /\ r[i].weight >= r[j].weight
  <2>1. PICK x \in S, y \in S : x = r[i] /\ y = r[j] /\ <<x, y>> \in Ahead(S)
    BY <1>5, <1>6, <1>8
  <2>2. x.weight \in Nat /\ y.weight \in Nat /\ x.d \in Nat /\ y.d \in Nat
    BY <1>2, RoundsAssumption DEF Entry
  <2>3. x.weight > y.weight \/ (x.weight = y.weight /\ x.d < y.d)
    BY <2>1 DEF Ahead
  <2>4. x.weight = Weight(acc, x.d, h) /\ y.weight = Weight(acc, y.d, h)
    BY <1>2
  <2> QED  BY <2>1, <2>2, <2>3, <2>4
<1>9. \A d \in Eligible(acc) : \E i \in 1..Len(r) : r[i].d = d
  BY <1>2, <1>5
<1> QED  BY <1>2, <1>3, <1>6, <1>7, <1>8, <1>9

LEMMA EntryWeight ==
  ASSUME NEW r \in Seq(Entry), NEW i \in 1..Len(r)
  PROVE  r[i] \in Entry /\ r[i].weight \in Nat /\ r[i].d \in Delegate
<1>1. r[i] \in Entry
  OBVIOUS
<1> QED  BY <1>1 DEF Entry

LEMMA ListedIs ==
  ASSUME NEW r \in Seq(Entry)
  PROVE  /\ Listed(r) \in 0..Len(r)
         /\ Listed(r) > Active + Standby =>
              Listed(r) <= Active + Cardinality({i \in Active+1..Len(r) : r[i].weight >= Threshold})
<1> DEFINE A == {i \in Active+1..Len(r) : r[i].weight >= Threshold}
<1>1. PICK n \in Nat, a \in Nat, s \in Nat : n = Len(r) /\ a = Active /\ s = Standby
  BY RoundsAssumption
<1>2. IsFiniteSet(A)
  <2>1. PICK l \in Int, h \in Int : l = Active + 1 /\ h = Len(r)
    BY <1>1
  <2>2. PICK T : T = l..h
    OBVIOUS
  <2>3. IsFiniteSet(T)
    BY <2>2, FS_Interval
  <2>4. A \in SUBSET T
    BY <2>1, <2>2
  <2> HIDE DEF A
  <2> QED  BY <2>3, <2>4, FS_Subset
<1>3. PICK c \in Nat : c = Cardinality(A)
  BY <1>2, FS_CardinalityType
<1>4. PICK m \in Nat : m = Max({c, s}) /\ m = IF c >= s THEN c ELSE s
  BY MaxOfTwo
<1>5. PICK l \in Nat : l = Min({n, a + m}) /\ l = IF n <= a + m THEN n ELSE a + m
  BY MinOfTwo
<1>6. Listed(r) = l
  BY <1>1, <1>3, <1>4, <1>5 DEF Listed
<1> QED  BY <1>1, <1>3, <1>4, <1>5, <1>6

LEMMA SnapshotIs ==
  ASSUME NEW acc \in [Delegate -> DelegateAccount], NEW h
  PROVE  /\ IsSnapshot(Snapshot(acc, h))
         /\ Listing(Snapshot(acc, h)) \subseteq Eligible(acc)
<1>1. PICK r \in Seq(Entry) : r = Ranking(acc, h)
  BY RankingIs
<1>2. /\ \A i \in 1..Len(r) : r[i].d \in Eligible(acc)
      /\ \A i, j \in 1..Len(r) : i < j => r[i].d # r[j].d /\ r[i].weight >= r[j].weight
  BY <1>1, RankingIs
<1>3. PICK l \in 0..Len(r) : l = Listed(r)
  BY ListedIs
<1>4. PICK s : s = Snapshot(acc, h)
  OBVIOUS
<1>5. s = SubSeq(r, 1, l)
  BY <1>1, <1>3, <1>4 DEF Snapshot
<1>6. s \in Seq(Entry) /\ Len(s) = l /\ \A i \in 1..l : s[i] = r[i]
  BY <1>1, <1>3, <1>5
<1>7. PICK a \in Nat : a = Active
  BY RoundsAssumption
<1>8. ASSUME l > Active + Standby, NEW i \in (Active + 1)..l, ~(s[i].weight > 0) PROVE FALSE
  <2>1. i \in 1..l /\ i \in 1..Len(r) /\ r[i].weight \in Nat /\ s[i] = r[i]
    <3>1. i \in 1..l /\ i \in 1..Len(r)
      BY <1>7
    <3> QED  BY <1>6, <3>1, EntryWeight
  <2>2. r[i].weight = 0
    BY <1>8, <2>1
  <2> DEFINE A == {j \in Active+1..Len(r) : r[j].weight >= Threshold}
  <2>3. A \subseteq (a + 1)..(i - 1)
    <3> SUFFICES ASSUME NEW j \in A PROVE j \in (a + 1)..(i - 1)
      OBVIOUS
    <3>1. j \in (a + 1)..Len(r) /\ j \in 1..Len(r) /\ r[j].weight >= Threshold
      BY <1>7
    <3>2. r[j].weight > 0
      <4>1. Threshold \in Nat /\ Threshold > 0 /\ r[j].weight \in Nat
        BY <3>1, RoundsAssumption, EntryWeight
      <4> QED  BY <3>1, <4>1
    <3>3. j # i
      BY <2>2, <3>2
    <3>4. ~(i < j)
      <4> SUFFICES ASSUME i < j PROVE FALSE
        OBVIOUS
      <4>1. r[i].weight >= r[j].weight
        BY <1>2, <2>1, <3>1
      <4>2. r[j].weight \in Nat
        BY <3>1, EntryWeight
      <4> QED  BY <2>2, <3>2, <4>1, <4>2
    <3> QED  BY <2>1, <3>1, <3>3, <3>4
  <2>4. IsFiniteSet((a + 1)..(i - 1)) /\ Cardinality((a + 1)..(i - 1)) = i - 1 - a
    <3>1. a + 1 \in Int /\ i - 1 \in Int /\ ~(a + 1 > i)
      BY <1>7, <1>8, <2>1
    <3>2. i - 1 - (a + 1) + 1 = i - 1 - a
      BY <2>1
    <3>3. CASE a + 1 > i - 1
      <4>1. i = a + 1
        BY <2>1, <3>1, <3>3
      <4>2. (a + 1)..(i - 1) = {}
        BY <4>1
      <4> QED  BY <4>1, <4>2, FS_EmptySet
    <3>4. CASE ~(a + 1 > i - 1)
      <4> QED  BY <3>1, <3>2, <3>4, FS_Interval
    <3> QED  BY <3>3, <3>4
  <2>5. Cardinality(A) <= i - 1 - a /\ IsFiniteSet(A)
    BY <2>3, <2>4, FS_Subset
  <2>6. PICK c \in Nat : c = Cardinality(A)
    BY <2>5, FS_CardinalityType
  <2>7. l <= a + c
    BY <1>3, <1>7, <1>8, <2>6, ListedIs
  <2> QED  BY <1>8, <2>1, <2>5, <2>6, <2>7
<1>9. Len(s) > Active + Standby => \A i \in (Active + 1)..Len(s) : s[i].weight > 0
  BY <1>6, <1>8
<1>10. \A i, j \in 1..Len(s) : i < j => s[i].d # s[j].d
  BY <1>2, <1>3, <1>6, SMTT(30)
<1>11. Listing(s) \subseteq Eligible(acc)
  BY <1>2, <1>3, <1>6 DEF Listing
<1> QED  BY <1>4, <1>6, <1>9, <1>10, <1>11 DEF IsSnapshot

LEMMA PunishedLast ==
  ASSUME NEW acc \in [Delegate -> DelegateAccount], NEW h, NEW d \in Delegate,
         IsCurrentlyPunished(acc, d, h),
         Cardinality({e \in Eligible(acc) \ {d} : Weight(acc, e, h) > 0}) >= Active,
         NEW i \in 1..Min({Active, Len(Snapshot(acc, h))})
  PROVE  Snapshot(acc, h)[i].d # d
<1>1. PICK r \in Seq(Entry) : r = Ranking(acc, h)
  BY RankingIs
<1>2. /\ \A j \in 1..Len(r) : r[j].weight = Weight(acc, r[j].d, h)
      /\ \A j, k \in 1..Len(r) : j < k => r[j].d # r[k].d /\ r[j].weight >= r[k].weight
      /\ \A e \in Eligible(acc) : \E j \in 1..Len(r) : r[j].d = e
  BY <1>1, RankingIs
<1>3. PICK l \in 0..Len(r) : l = Listed(r)
  BY ListedIs
<1>4. PICK s : s = Snapshot(acc, h)
  OBVIOUS
<1>5. s = SubSeq(r, 1, l)
  BY <1>1, <1>3, <1>4 DEF Snapshot
<1>6. s \in Seq(Entry) /\ Len(s) = l /\ \A k \in 1..l : s[k] = r[k]
  BY <1>1, <1>3, <1>5
<1>7. PICK a \in Nat : a = Active
  BY RoundsAssumption
<1>8. Min({a, l}) = IF a <= l THEN a ELSE l
  BY <1>7, MinOfTwo
<1>9. i \in 1..l /\ i <= a /\ i \in 1..Len(r)
  BY <1>4, <1>6, <1>7, <1>8
<1>10. SUFFICES ASSUME r[i].d = d PROVE FALSE
  BY <1>4, <1>6, <1>9
<1>11. r[i].weight = 0
  BY <1>2, <1>9, <1>10 DEF Weight
<1> DEFINE E == {e \in Eligible(acc) \ {d} : Weight(acc, e, h) > 0}
           J == {j \in 1..(i - 1) : r[j].d \in E}
           f == [j \in J |-> r[j].d]
<1>12. \A e \in E : \E j \in J : r[j].d = e
  <2> SUFFICES ASSUME NEW e \in E PROVE \E j \in J : r[j].d = e
    OBVIOUS
  <2>1. PICK j \in 1..Len(r) : r[j].d = e
    BY <1>2
  <2>2. r[j].weight > 0
    BY <1>2, <2>1
  <2>3. j # i
    BY <1>10, <2>1
  <2>4. ~(i < j)
    <3> SUFFICES ASSUME i < j PROVE FALSE
      OBVIOUS
    <3>1. r[i].weight >= r[j].weight
      BY <1>2, <1>9
    <3>2. r[j].weight \in Nat
      BY <2>1, EntryWeight
    <3> QED  BY <1>11, <2>2, <3>1, <3>2
  <2>5. j \in 1..(i - 1)
    BY <1>9, <2>3, <2>4
  <2> QED  BY <2>1, <2>5
<1>13. f \in Surjection(J, E)
  BY <1>12 DEF Surjection
<1>14. IsFiniteSet(1..(i - 1)) /\ Cardinality(1..(i - 1)) = i - 1
  <2>1. CASE i = 1
    <3>1. 1..(i - 1) = {}
      BY <2>1
    <3> QED  BY <2>1, <3>1, FS_EmptySet
  <2>2. CASE i # 1
    <3>1. 1 \in Int /\ i - 1 \in Int /\ ~(1 > i - 1) /\ i - 1 - 1 + 1 = i - 1
      BY <1>9, <2>2
    <3> QED  BY <3>1, FS_Interval
  <2> QED  BY <2>1, <2>2
<1>15. IsFiniteSet(J) /\ Cardinality(J) <= i - 1
  BY <1>14, FS_Subset
<1> HIDE DEF f, J, E
<1>16. IsFiniteSet(E) /\ Cardinality(E) <= Cardinality(J)
  BY <1>13, <1>15, FS_Surjection
<1>17. Cardinality(E) \in Nat /\ Cardinality(J) \in Nat
  BY <1>15, <1>16, FS_CardinalityType
<1>18. Cardinality(E) >= a
  BY <1>7 DEF E
<1> QED  BY <1>7, <1>9, <1>15, <1>16, <1>17, <1>18

-----------------------------------------------------------------------------
(* Drawing the stand-by delegates.                                         *)

IsUpto(g, c) ==
  g = [k \in 0..Len(c) |-> IF k = 0 THEN 0 ELSE g[k - 1] + c[k].weight]

\* The recursion of WeightUpto has a solution.
LEMMA UptoExists ==
  ASSUME NEW c, NEW m \in Nat
  PROVE  \E g : g = [k \in 0..m |-> IF k = 0 THEN 0 ELSE g[k - 1] + c[k].weight]
<1> DEFINE Solved(k) == \E g : g = [n \in 0..k |-> IF n = 0 THEN 0 ELSE g[n - 1] + c[n].weight]
           C == {k \in Nat : ~Solved(k)}
<1>1. ASSUME C # {} PROVE FALSE
  <2>1. PICK k \in C : k - 1 \notin C
    <3> HIDE DEF Solved
    <3> QED  BY <1>1, LeastNumber
  <2>2. k # 0
    <3> DEFINE g == [n \in 0..0 |-> 0]
    <3>1. g = [n \in 0..0 |-> IF n = 0 THEN 0 ELSE g[n - 1] + c[n].weight]
      OBVIOUS
    <3> QED  BY <2>1, <3>1
  <2>3. k - 1 \in Nat /\ Solved(k - 1)
    BY <2>1, <2>2
  <2>4. PICK g : g = [n \in 0..(k - 1) |-> IF n = 0 THEN 0 ELSE g[n - 1] + c[n].weight]
    BY <2>3
  <2> DEFINE h == [n \in 0..k |-> IF n = 0 THEN 0 ELSE g[n - 1] + c[n].weight]
  <2>5. \A n \in 0..(k - 1) : h[n] = g[n]
    BY <2>3, <2>4
  <2>6. \A n \in 0..k : n # 0 => n - 1 \in 0..(k - 1)
    BY <2>3
  <2>7. h = [n \in 0..k |-> IF n = 0 THEN 0 ELSE h[n - 1] + c[n].weight]
    BY <2>5, <2>6
  <2> QED  BY <2>1, <2>7
<1> QED  BY <1>1

LEMMA UptoUnfolds ==
  ASSUME NEW c \in Seq(Entry)
  PROVE  /\ WeightUpto(c, 0) = 0
         /\ \A n \in 1..Len(c) : WeightUpto(c, n) = WeightUpto(c, n - 1) + c[n].weight
         /\ \A n \in 0..Len(c) : WeightUpto(c, n) \in Nat
<1> DEFINE g == CHOOSE f : IsUpto(f, c)
<1>1. IsUpto(g, c)
  <2>1. Len(c) \in Nat
    OBVIOUS
  <2>2. \E f : IsUpto(f, c)
    BY <2>1, UptoExists DEF IsUpto
  <2> QED  BY <2>2
<1>2. ASSUME NEW n PROVE WeightUpto(c, n) = g[n]
  BY DEF WeightUpto, IsUpto
<1> HIDE DEF g
<1>3. g[0] = 0 /\ \A n \in 1..Len(c) : g[n] = g[n - 1] + c[n].weight
  <2>1. Len(c) \in Nat
    OBVIOUS
  <2>2. \A n \in 0..Len(c) : g[n] = IF n = 0 THEN 0 ELSE g[n - 1] + c[n].weight
    BY <1>1 DEF IsUpto
  <2>3. 0 \in 0..Len(c) /\ \A n \in 1..Len(c) : n \in 0..Len(c) /\ n # 0
    BY <2>1
  <2> QED  BY <2>2, <2>3
<1> DEFINE C == {n \in 0..Len(c) : g[n] \notin Nat}
<1>4. C = {}
  <2> SUFFICES ASSUME C # {} PROVE FALSE
    OBVIOUS
  <2>1. PICK n \in C : n - 1 \notin C
    <3>1. C \in SUBSET Nat
      OBVIOUS
    <3> HIDE DEF C
    <3> QED  BY <3>1, LeastNumber
  <2>2. n \in 1..Len(c) /\ n - 1 \in 0..Len(c)
    BY <1>3, <2>1
  <2>3. g[n - 1] \in Nat /\ c[n].weight \in Nat
    BY <2>1, <2>2, EntryWeight
  <2> QED  BY <1>3, <2>1, <2>2, <2>3
<1> QED  BY <1>2, <1>3, <1>4

\* A seed falls in the share of some candidate.
LEMMA PickedIs ==
  ASSUME NEW c \in Seq(Entry), Len(c) > 0, \A i \in 1..Len(c) : c[i].weight > 0,
         NEW seed \in Nat
  PROVE  Picked(c, seed) \in 1..Len(c)
<1>1. PICK n \in Nat : n = Len(c) /\ n > 0
  OBVIOUS
<1>2. PICK w \in Nat : w = WeightUpto(c, n) /\ w > 0
  <2>1. n \in 1..Len(c) /\ n - 1 \in 0..Len(c) /\ n \in 0..Len(c)
    BY <1>1
  <2>2. WeightUpto(c, n) = WeightUpto(c, n - 1) + c[n].weight
    BY <2>1, UptoUnfolds
  <2>3. WeightUpto(c, n) \in Nat /\ WeightUpto(c, n - 1) \in Nat
    BY <2>1, UptoUnfolds
  <2>4. c[n].weight > 0 /\ c[n].weight \in Nat
    BY <2>1, EntryWeight
  <2> QED  BY <2>2, <2>3, <2>4
<1>3. PICK t \in Nat : t = seed % w /\ t < w
  BY <1>2
<1> DEFINE C == {k \in 0..n : WeightUpto(c, k) > t}
<1>4. PICK i \in C : i - 1 \notin C
  <2>1. C \in SUBSET Nat /\ n \in C
    BY <1>1, <1>2, <1>3
  <2> HIDE DEF C
  <2> QED  BY <2>1, LeastNumber
<1>5. i # 0
  BY <1>3, <1>4, UptoUnfolds
<1>6. i \in 1..n /\ i - 1 \in 0..n
  BY <1>4, <1>5
<1>7. WeightUpto(c, i) > t /\ WeightUpto(c, i - 1) <= t
  <2>1. WeightUpto(c, i - 1) \in Nat
    BY <1>1, <1>6, UptoUnfolds
  <2> QED  BY <1>3, <1>4, <1>6, <2>1
<1>8. \E j \in DOMAIN c : WeightUpto(c, j) > t /\ WeightUpto(c, j - 1) <= t
  BY <1>1, <1>6, <1>7
<1>9. Picked(c, seed) = CHOOSE j \in DOMAIN c : WeightUpto(c, j) > t /\ WeightUpto(c, j - 1) <= t
  BY <1>1, <1>2, <1>3 DEF Picked
<1>10. Picked(c, seed) \in DOMAIN c
  BY <1>8, <1>9
<1> QED  BY <1>10

LEMMA Joined ==
  ASSUME NEW X, NEW u \in Seq(X), NEW v \in Seq(X), NEW a \in Nat, NEW b \in Nat,
         a = Len(u), b = Len(v)
  PROVE  /\ u \o v \in Seq(X) /\ Len(u \o v) = a + b
         /\ \A j \in 1..(a + b) : (u \o v)[j] = IF j <= a THEN u[j] ELSE v[j - a]
  BY ConcatProperties

LEMMA Removal ==
  ASSUME NEW s \in Seq(Entry), NEW i \in 1..Len(s)
  PROVE  /\ RemoveAt(s, i) \in Seq(Entry) /\ Len(RemoveAt(s, i)) = Len(s) - 1
         /\ \A j \in 1..(Len(s) - 1) :
              RemoveAt(s, i)[j] = IF j < i THEN s[j] ELSE s[j + 1]
<1>1. PICK n \in Nat : n = Len(s)
  OBVIOUS
<1>2. PICK u \in Seq(Entry) :
        u = SubSeq(s, 1, i - 1) /\ Len(u) = i - 1 /\ \A j \in 1..(i - 1) : u[j] = s[j]
  <2>1. i - 1 \in 0..n /\ i \in 1..n
    BY <1>1
  <2>2. SubSeq(s, 1, i - 1) \in Seq(Entry) /\ Len(SubSeq(s, 1, i - 1)) = i - 1
    BY <1>1, <2>1
  <2>3. \A j \in 1..(i - 1) : SubSeq(s, 1, i - 1)[j] = s[j]
    BY <1>1, <2>1
  <2> QED  BY <2>2, <2>3
<1>3. PICK v \in Seq(Entry) :
        v = SubSeq(s, i + 1, Len(s)) /\ Len(v) = n - i /\ \A j \in 1..(n - i) : v[j] = s[i + j]
  <2>1. i \in 1..n
    BY <1>1
  <2>2. SubSeq(s, i + 1, n) \in Seq(Entry) /\ Len(SubSeq(s, i + 1, n)) = n - i
    BY <1>1, <2>1
  <2>3. \A j \in 1..(n - i) : SubSeq(s, i + 1, n)[j] = s[i + j]
    BY <1>1, <2>1
  <2> QED  BY <1>1, <2>2, <2>3
<1>4. RemoveAt(s, i) = u \o v
  BY <1>2, <1>3 DEF RemoveAt
<1>5. PICK a \in Nat, b \in Nat : a = i - 1 /\ b = n - i /\ a + b = n - 1
  <2>1. i - 1 \in Nat /\ n - i \in Nat /\ (i - 1) + (n - i) = n - 1
    BY <1>1
  <2> QED  BY <2>1
<1>6. /\ u \o v \in Seq(Entry) /\ Len(u \o v) = n - 1
      /\ \A j \in 1..(n - 1) : (u \o v)[j] = IF j <= a THEN u[j] ELSE v[j - a]
  <2>1. a = Len(u) /\ b = Len(v)
    BY <1>2, <1>3, <1>5
  <2>2. /\ u \o v \in Seq(Entry) /\ Len(u \o v) = a + b
        /\ \A j \in 1..(a + b) : (u \o v)[j] = IF j <= a THEN u[j] ELSE v[j - a]
    BY <2>1, Joined
  <2> QED  BY <1>5, <2>2
<1>7. ASSUME NEW j \in 1..(n - 1) PROVE (u \o v)[j] = IF j < i THEN s[j] ELSE s[j + 1]
  <2>1. CASE j < i
    <3>1. j \in 1..(i - 1) /\ j <= a
      BY <1>1, <1>5, <2>1
    <3>2. u[j] = s[j]
      BY <1>2, <3>1
    <3> QED  BY <1>6, <2>1, <3>1, <3>2
  <2>2. CASE ~(j < i)
    <3>1. j - a \in 1..(n - i) /\ i + (j - a) = j + 1 /\ ~(j <= a)
      BY <1>1, <1>5, <2>2
    <3>2. v[j - a] = s[i + (j - a)]
      BY <1>3, <3>1
    <3> QED  BY <1>6, <2>2, <3>1, <3>2
  <2> QED  BY <2>1, <2>2
<1> QED  BY <1>1, <1>4, <1>6, <1>7

\* Candidates of weight, nobody twice.
AreCandidates(c) ==
  /\ c \in Seq(Entry)
  /\ \A i, j \in 1..Len(c) : i < j => c[i].d # c[j].d
  /\ \A i \in 1..Len(c) : c[i].weight > 0

LEMMA OneLess ==
  ASSUME NEW c, AreCandidates(c), NEW p \in 1..Len(c)
  PROVE  /\ AreCandidates(RemoveAt(c, p)) /\ Len(RemoveAt(c, p)) = Len(c) - 1
         /\ Listing(RemoveAt(c, p)) \subseteq Listing(c) \ {c[p].d}
<1>1. c \in Seq(Entry)
  BY DEF AreCandidates
<1>2. PICK n \in Nat : n = Len(c)
  BY <1>1
<1>3. PICK r \in Seq(Entry) :
        /\ r = RemoveAt(c, p) /\ Len(r) = n - 1
        /\ \A j \in 1..(n - 1) : r[j] = IF j < p THEN c[j] ELSE c[j + 1]
  BY <1>1, <1>2, Removal
<1> DEFINE at(j) == IF j < p THEN j ELSE j + 1
<1>4. \A j \in 1..(n - 1) : at(j) \in 1..n /\ at(j) # p /\ r[j] = c[at(j)]
  BY <1>2, <1>3
<1>5. \A i, j \in 1..(n - 1) : i < j => at(i) < at(j)
  BY <1>2
<1> HIDE DEF at
<1>6. \A i, j \in 1..n : i # j => c[i].d # c[j].d
  BY <1>2 DEF AreCandidates
<1>7. \A i, j \in 1..(n - 1) : i < j => r[i].d # r[j].d
  <2> SUFFICES ASSUME NEW i \in 1..(n - 1), NEW j \in 1..(n - 1), i < j
               PROVE  r[i].d # r[j].d
    OBVIOUS
  <2>1. at(i) < at(j) /\ at(i) \in 1..n /\ at(j) \in 1..n
    BY <1>4, <1>5
  <2>2. at(i) # at(j)
    BY <2>1
  <2> QED  BY <1>4, <1>6, <2>1, <2>2
<1>8. \A j \in 1..(n - 1) : r[j].weight > 0
  BY <1>2, <1>4 DEF AreCandidates
<1>9. Listing(r) \subseteq Listing(c) \ {c[p].d}
  <2> SUFFICES ASSUME NEW j \in 1..(n - 1)
               PROVE  r[j].d \in Listing(c) /\ r[j].d # c[p].d
    BY <1>3 DEF Listing
  <2>1. at(j) \in 1..n /\ at(j) # p /\ r[j] = c[at(j)]
    BY <1>4
  <2> QED  BY <1>2, <1>6, <2>1 DEF Listing
<1> QED  BY <1>2, <1>3, <1>7, <1>8, <1>9 DEF AreCandidates

LEMMA NextPicked ==
  ASSUME NEW c, AreCandidates(c), Len(c) > 0, NEW seeds \in SeedPairs, NEW k \in Nat, k > 0
  PROVE  PickedNext(c, seeds, k) \in 1..Len(c)
<1>1. PICK i \in {1, 2} : i = ((k - 1) % 2) + 1
  OBVIOUS
<1>2. PICK seed \in Nat : seed = seeds[i]
  BY RoundsAssumption
<1>3. Picked(c, seed) \in 1..Len(c)
  BY PickedIs DEF AreCandidates
<1> QED  BY <1>1, <1>2, <1>3 DEF PickedNext

IsDrawing(left, c, seeds) ==
  left = [k \in 0..Standby |->
            IF k = 0 THEN c ELSE RemoveAt(left[k - 1], PickedNext(left[k - 1], seeds, k))]

\* The recursion of PickStandby has a solution.
LEMMA DrawingExists ==
  ASSUME NEW c, NEW seeds
  PROVE  \E left : IsDrawing(left, c, seeds)
<1> DEFINE Less(s, k) == RemoveAt(s, PickedNext(s, seeds, k))
           Solved(m) == \E g : g = [k \in 0..m |-> IF k = 0 THEN c ELSE Less(g[k - 1], k)]
           C == {k \in Nat : ~Solved(k)}
<1> HIDE DEF Less
<1>1. ASSUME C # {} PROVE FALSE
  <2>1. PICK k \in C : k - 1 \notin C
    <3> HIDE DEF Solved
    <3> QED  BY <1>1, LeastNumber
  <2>2. k # 0
    <3> DEFINE g == [n \in 0..0 |-> c]
    <3>1. g = [n \in 0..0 |-> IF n = 0 THEN c ELSE Less(g[n - 1], n)]
      OBVIOUS
    <3> QED  BY <2>1, <3>1
  <2>3. k - 1 \in Nat /\ Solved(k - 1)
    BY <2>1, <2>2
  <2>4. PICK g : g = [n \in 0..(k - 1) |-> IF n = 0 THEN c ELSE Less(g[n - 1], n)]
    BY <2>3
  <2> DEFINE h == [n \in 0..k |-> IF n = 0 THEN c ELSE Less(g[n - 1], n)]
  <2>5. \A n \in 0..(k - 1) : h[n] = g[n]
    BY <2>3, <2>4
  <2>6. \A n \in 0..k : n # 0 => n - 1 \in 0..(k - 1)
    BY <2>3
  <2>7. h = [n \in 0..k |-> IF n = 0 THEN c ELSE Less(h[n - 1], n)]
    BY <2>5, <2>6
  <2> QED  BY <2>1, <2>7
<1>2. PICK g : g = [k \in 0..Standby |-> IF k = 0 THEN c ELSE Less(g[k - 1], k)]
  <2>1. Standby \in Nat
    BY RoundsAssumption
  <2>2. Solved(Standby)
    BY <1>1, <2>1
  <2> QED  BY <2>2
<1>3. IsDrawing(g, c, seeds)
  BY <1>2 DEF IsDrawing, Less
<1> QED  BY <1>3

\* What is left after each draw.
LEMMA LeftIs ==
  ASSUME NEW c, AreCandidates(c), Len(c) > Standby, NEW seeds \in SeedPairs,
         NEW left, IsDrawing(left, c, seeds)
  PROVE  /\ left[0] = c
         /\ \A k \in 0..Standby : AreCandidates(left[k]) /\ Len(left[k]) = Len(c) - k
         /\ \A k \in 1..Standby :
              LET p == PickedNext(left[k - 1], seeds, k)
              IN  /\ p \in 1..Len(left[k - 1])
                  /\ Listing(left[k]) \subseteq Listing(left[k - 1]) \ {left[k - 1][p].d}
<1>1. PICK s \in Nat : s = Standby
  BY RoundsAssumption
<1>2. PICK n \in Nat : n = Len(c) /\ n > s
  BY <1>1 DEF AreCandidates
<1>3. left[0] = c
  BY <1>1 DEF IsDrawing
<1>4. \A k \in 1..s : left[k] = RemoveAt(left[k - 1], PickedNext(left[k - 1], seeds, k))
  BY <1>1 DEF IsDrawing
<1> DEFINE Good(k) == AreCandidates(left[k]) /\ Len(left[k]) = n - k
<1>5. ASSUME NEW k \in 1..s, Good(k - 1)
      PROVE  /\ PickedNext(left[k - 1], seeds, k) \in 1..Len(left[k - 1])
             /\ Listing(left[k]) \subseteq
                  Listing(left[k - 1]) \ {left[k - 1][PickedNext(left[k - 1], seeds, k)].d}
             /\ Good(k)
  <2>1. PICK b : b = left[k - 1]
    OBVIOUS
  <2>2. AreCandidates(b) /\ Len(b) = n - (k - 1) /\ Len(b) > 0
    BY <1>2, <1>5, <2>1
  <2>3. PICK p \in 1..Len(b) : p = PickedNext(b, seeds, k)
    BY <2>2, NextPicked
  <2>4. left[k] = RemoveAt(b, p)
    BY <1>4, <2>1, <2>3
  <2>5. /\ AreCandidates(RemoveAt(b, p)) /\ Len(RemoveAt(b, p)) = Len(b) - 1
        /\ Listing(RemoveAt(b, p)) \subseteq Listing(b) \ {b[p].d}
    BY <2>2, OneLess
  <2>6. Len(b) - 1 = n - k
    BY <1>2, <2>2
  <2> QED  BY <2>1, <2>3, <2>4, <2>5, <2>6
<1> DEFINE C == {k \in 0..s : ~Good(k)}
<1>6. C = {}
  <2> SUFFICES ASSUME C # {} PROVE FALSE
    OBVIOUS
  <2>1. PICK k \in C : k - 1 \notin C
    <3>1. C \in SUBSET Nat
      OBVIOUS
    <3> HIDE DEF C
    <3> QED  BY <3>1, LeastNumber
  <2>2. k # 0
    BY <1>2, <1>3, <2>1
  <2>3. k \in 1..s /\ Good(k - 1)
    BY <2>1, <2>2
  <2> QED  BY <1>5, <2>1, <2>3
<1>7. \A k \in 0..s : Good(k)
  BY <1>6
<1>8. ASSUME NEW k \in 1..s
      PROVE  LET p == PickedNext(left[k - 1], seeds, k)
             IN  /\ p \in 1..Len(left[k - 1])
                 /\ Listing(left[k]) \subseteq Listing(left[k - 1]) \ {left[k - 1][p].d}
  <2>1. k - 1 \in 0..s
    OBVIOUS
  <2>2. Good(k - 1)
    BY <1>7, <2>1
  <2> HIDE DEF Good
  <2> QED  BY <1>5, <2>2
<1> QED  BY <1>1, <1>2, <1>3, <1>7, <1>8

LEMMA StandbyIs ==
  ASSUME NEW c \in Seq(Entry), \A i, j \in 1..Len(c) : i < j => c[i].d # c[j].d,
         Len(c) > Standby => \A i \in 1..Len(c) : c[i].weight > 0,
         NEW seeds \in SeedPairs
  PROVE  /\ PickStandby(c, seeds) \in Seq(Delegate) /\ Len(PickStandby(c, seeds)) <= Standby
         /\ \A i \in 1..Len(PickStandby(c, seeds)) : PickStandby(c, seeds)[i] \in Listing(c)
         /\ \A i, j \in 1..Len(PickStandby(c, seeds)) :
              i < j => PickStandby(c, seeds)[i] # PickStandby(c, seeds)[j]
<1>1. PICK s \in Nat : s = Standby
  BY RoundsAssumption
<1>2. PICK n \in Nat : n = Len(c)
  OBVIOUS
<1>3. Listing(c) \subseteq Delegate
  BY EntryWeight DEF Listing
<1>4. CASE ~(n > s)
  <2>1. PICK t : t = [i \in 1..n |-> c[i].d]
    OBVIOUS
  <2>2. PickStandby(c, seeds) = t
    BY <1>1, <1>2, <1>4, <2>1 DEF PickStandby
  <2>3. t \in Seq(Delegate) /\ Len(t) = n
    <3>1. \A i \in 1..n : c[i].d \in Delegate
      BY <1>2, EntryWeight
    <3> QED  BY <2>1, <3>1
  <2>4. \A i \in 1..n : t[i] \in Listing(c)
    BY <1>2, <2>1 DEF Listing
  <2>5. \A i, j \in 1..n : i < j => t[i] # t[j]
    BY <1>2, <2>1
  <2>6. n <= s
    BY <1>4
  <2> QED  BY <1>1, <2>2, <2>3, <2>4, <2>5, <2>6
<1>5. CASE n > s
  <2> DEFINE g == CHOOSE f : IsDrawing(f, c, seeds)
  <2>1. IsDrawing(g, c, seeds)
    <3>1. \E f : IsDrawing(f, c, seeds)
      BY DrawingExists
    <3> QED  BY <3>1
  <2>2. PickStandby(c, seeds) = [k \in 1..Standby |-> g[k - 1][PickedNext(g[k - 1], seeds, k)].d]
    BY <1>1, <1>2, <1>5 DEF PickStandby, IsDrawing
  <2> HIDE DEF g
  <2>3. AreCandidates(c)
    BY <1>1, <1>2, <1>5 DEF AreCandidates
  <2>4. /\ g[0] = c
        /\ \A k \in 0..s : AreCandidates(g[k]) /\ Len(g[k]) = n - k
        /\ \A k \in 1..s :
              LET p == PickedNext(g[k - 1], seeds, k)
              IN  /\ p \in 1..Len(g[k - 1])
                  /\ Listing(g[k]) \subseteq Listing(g[k - 1]) \ {g[k - 1][p].d}
    <3>1. Len(c) > Standby
      BY <1>1, <1>2, <1>5
    <3>2. /\ g[0] = c
          /\ \A k \in 0..Standby : AreCandidates(g[k]) /\ Len(g[k]) = Len(c) - k
          /\ \A k \in 1..Standby :
               LET p == PickedNext(g[k - 1], seeds, k)
               IN  /\ p \in 1..Len(g[k - 1])
                   /\ Listing(g[k]) \subseteq Listing(g[k - 1]) \ {g[k - 1][p].d}
      BY <2>1, <2>3, <3>1, LeftIs
    <3> QED  BY <1>1, <1>2, <3>2
  <2>5. PICK t : t = PickStandby(c, seeds)
    OBVIOUS
  <2>6. ASSUME NEW k \in 1..s
        PROVE  /\ t[k] \in Listing(g[k - 1]) /\ t[k] \notin Listing(g[k])
               /\ Listing(g[k]) \subseteq Listing(g[k - 1])
    <3>1. PICK b : b = g[k - 1]
      OBVIOUS
    <3>2. PICK p : p = PickedNext(b, seeds, k)
      OBVIOUS
    <3>3. p \in 1..Len(b) /\ Listing(g[k]) \subseteq Listing(b) \ {b[p].d}
      BY <2>4, <3>1, <3>2
    <3>4. t[k] = b[p].d
      BY <1>1, <2>2, <2>5, <3>1, <3>2
    <3>5. b[p].d \in Listing(b)
      BY <3>3 DEF Listing
    <3> QED  BY <3>1, <3>3, <3>4, <3>5
  <2>7. \A i, k \in 0..s : i <= k => Listing(g[k]) \subseteq Listing(g[i])
    <3> SUFFICES ASSUME NEW i \in 0..s
                 PROVE  \A k \in 0..s : i <= k => Listing(g[k]) \subseteq Listing(g[i])
      OBVIOUS
    <3> DEFINE C == {k \in 0..s : i <= k /\ ~(Listing(g[k]) \subseteq Listing(g[i]))}
    <3> SUFFICES ASSUME C # {} PROVE FALSE
      OBVIOUS
    <3>1. PICK k \in C : k - 1 \notin C
      <4>1. C \in SUBSET Nat
        OBVIOUS
      <4> HIDE DEF C
      <4> QED  BY <4>1, LeastNumber
    <3>2. k # i
      BY <3>1
    <3>3. k \in 1..s /\ k - 1 \in 0..s /\ i <= k - 1
      BY <3>1, <3>2
    <3>4. Listing(g[k - 1]) \subseteq Listing(g[i])
      BY <3>1, <3>3
    <3> QED  BY <2>6, <3>1, <3>3, <3>4
  <2>8. \A k \in 1..s : t[k] \in Listing(c)
    <3> SUFFICES ASSUME NEW k \in 1..s PROVE t[k] \in Listing(c)
      OBVIOUS
    <3>1. k - 1 \in 0..s /\ 0 \in 0..s /\ 0 <= k - 1
      OBVIOUS
    <3> QED  BY <2>4, <2>6, <2>7, <3>1
  <2>9. ASSUME NEW i \in 1..s, NEW j \in 1..s, i < j PROVE t[i] # t[j]
    <3>1. i \in 0..s /\ j - 1 \in 0..s /\ i <= j - 1
      BY <2>9
    <3>2. t[j] \in Listing(g[j - 1]) /\ t[i] \notin Listing(g[i])
      BY <2>6
    <3>3. Listing(g[j - 1]) \subseteq Listing(g[i])
      BY <2>7, <3>1
    <3> QED  BY <3>2, <3>3
  <2>10. t \in Seq(Delegate) /\ Len(t) = s
    <3>1. t \in [1..s -> Delegate]
      <4>1. t = [k \in 1..s |-> t[k]]
        BY <1>1, <2>2, <2>5
      <4> QED  BY <1>3, <2>8, <4>1
    <3> QED  BY <3>1
  <2> QED  BY <1>1, <2>5, <2>8, <2>9, <2>10
<1> QED  BY <1>4, <1>5

-----------------------------------------------------------------------------
(* The list of a round.                                                    *)

Place == [d : Delegate, active : BOOLEAN]

\* No more than Active places of a list take part in the consensus.
FewActive(l) == Cardinality({i \in 1..Len(l) : l[i].active}) <= Active

\* A list that names nobody twice and is no longer than a round.
IsList(l) ==
  /\ l \in Seq(Place) /\ Len(l) <= BlocksPerRound
  /\ \A i, j \in 1..Len(l) : i < j => l[i].d # l[j].d

Shuffled(n, hash) == Ordered(1..n, {p \in (1..n) \X (1..n) : hash[p[1]] < hash[p[2]]})

LEMMA OrderOfPlaces ==
  ASSUME NEW hash \in Shuffles, NEW n \in Nat, n <= BlocksPerRound
  PROVE  /\ Shuffled(n, hash) \in Seq(1..n) /\ Len(Shuffled(n, hash)) = n
         /\ \A i, j \in 1..n : i < j => Shuffled(n, hash)[i] # Shuffled(n, hash)[j]
<1> DEFINE S == 1..n
           R == {p \in S \X S : hash[p[1]] < hash[p[2]]}
<1>1. IsFiniteSet(S) /\ Cardinality(S) = n
  <2>1. CASE n = 0
    <3>1. S = {}
      BY <2>1
    <3> QED  BY <2>1, <3>1, FS_EmptySet
  <2>2. CASE n # 0
    <3>1. 1 \in Int /\ n \in Int /\ ~(1 > n) /\ n - 1 + 1 = n
      BY <2>2
    <3> QED  BY <3>1, FS_Interval
  <2> QED  BY <2>1, <2>2
<1>2. /\ \A k \in S : hash[k] \in Nat
      /\ \A k, l \in S : k # l => hash[k] # hash[l]
  <2>1. BlocksPerRound \in Nat
    BY PerRound
  <2>2. /\ hash \in [1..BlocksPerRound -> Nat]
        /\ \A k, l \in 1..BlocksPerRound : hash[k] = hash[l] => k = l
    BY RoundsAssumption, Zenon
  <2>3. \A k \in 1..BlocksPerRound : hash[k] \in Nat
    BY <2>2
  <2>4. S \subseteq 1..BlocksPerRound
    BY <2>1
  <2> QED  BY <2>2, <2>3, <2>4
<1>3. \A x, y \in S : <<x, y>> \in R <=> hash[x] < hash[y]
  OBVIOUS
<1> HIDE DEF S, R
<1>4. Orders(R, S)
  BY <1>2, <1>3 DEF Orders
<1>5. /\ Ordered(S, R) \in Seq(S) /\ Len(Ordered(S, R)) = Cardinality(S)
      /\ \A i, j \in 1..Cardinality(S) : i < j => <<Ordered(S, R)[i], Ordered(S, R)[j]>> \in R
  BY <1>1, <1>4, OrderedLists
<1>6. ASSUME NEW i \in 1..n, NEW j \in 1..n, i < j PROVE Ordered(S, R)[i] # Ordered(S, R)[j]
  <2>1. PICK x \in S, y \in S : x = Ordered(S, R)[i] /\ y = Ordered(S, R)[j]
    BY <1>1, <1>5
  <2>2. hash[x] < hash[y]
    BY <1>1, <1>3, <1>5, <1>6, <2>1
  <2> QED  BY <1>2, <2>1, <2>2
<1>7. Ordered(S, R) \in Seq(S) /\ Len(Ordered(S, R)) = n
  BY <1>1, <1>5
<1> QED  BY <1>6, <1>7 DEF S, R, Shuffled

LEMMA DownToOne ==
  ASSUME NEW n \in Nat
  PROVE  IsFiniteSet(1..n) /\ Cardinality(1..n) = n
<1>1. CASE n = 0
  <2>1. 1..n = {}
    BY <1>1
  <2> QED  BY <1>1, <2>1, FS_EmptySet
<1>2. CASE n # 0
  <2>1. 1 \in Int /\ n \in Int /\ ~(1 > n) /\ n - 1 + 1 = n
    BY <1>2
  <2> QED  BY <2>1, FS_Interval
<1> QED  BY <1>1, <1>2

LEMMA Suffix ==
  ASSUME NEW X, NEW s \in Seq(X), NEW n \in Nat, n = Len(s), NEW a \in 0..n
  PROVE  /\ SubSeq(s, a + 1, n) \in Seq(X) /\ Len(SubSeq(s, a + 1, n)) = n - a
         /\ \A i \in 1..(n - a) : SubSeq(s, a + 1, n)[i] = s[a + i]
<1>1. \A i \in (a + 1)..n : s[i] \in X
  OBVIOUS
<1>2. SubSeq(s, a + 1, n) = [i \in 1..(n - a) |-> s[a + i]]
  OBVIOUS
<1>3. n - a \in Nat /\ \A i \in 1..(n - a) : a + i \in (a + 1)..n
  OBVIOUS
<1>4. [i \in 1..(n - a) |-> s[a + i]] \in [1..(n - a) -> X]
  BY <1>1, <1>3
<1> QED  BY <1>2, <1>3, <1>4

LEMMA Names ==
  ASSUME NEW w \in Seq(Entry), NEW a \in 0..Len(w)
  PROVE  /\ [i \in 1..a |-> w[i].d] \in Seq(Delegate) /\ Len([i \in 1..a |-> w[i].d]) = a
         /\ \A i \in 1..a : [j \in 1..a |-> w[j].d][i] = w[i].d
<1>1. \A i \in 1..a : w[i].d \in Delegate
  <2> SUFFICES ASSUME NEW i \in 1..a PROVE w[i].d \in Delegate
    OBVIOUS
  <2>1. i \in 1..Len(w)
    OBVIOUS
  <2> QED  BY <2>1, EntryWeight
<1>2. [i \in 1..a |-> w[i].d] \in [1..a -> Delegate]
  BY <1>1
<1>3. a \in Nat
  OBVIOUS
<1> QED  BY <1>2, <1>3

\* Those who are shuffled: the first of the snapshot and the stand-by delegates.
ActiveOf(w) == Min({Active, Len(w)})

ChosenOf(w, seeds) ==
  [i \in 1..ActiveOf(w) |-> w[i].d] \o PickStandby(SubSeq(w, ActiveOf(w) + 1, Len(w)), seeds)

LEMMA ChosenAre ==
  ASSUME NEW w, IsSnapshot(w), NEW seeds \in SeedPairs
  PROVE  /\ ChosenOf(w, seeds) \in Seq(Delegate)
         /\ Len(ChosenOf(w, seeds)) <= BlocksPerRound
         /\ \A i \in 1..Len(ChosenOf(w, seeds)) : ChosenOf(w, seeds)[i] \in Listing(w)
         /\ \A i, j \in 1..Len(ChosenOf(w, seeds)) :
              i < j => ChosenOf(w, seeds)[i] # ChosenOf(w, seeds)[j]
<1>0. PICK chosen : chosen = ChosenOf(w, seeds)
  OBVIOUS
<1>1. w \in Seq(Entry) /\ \A i, j \in 1..Len(w) : i < j => w[i].d # w[j].d
  BY DEF IsSnapshot
<1>2. PICK n \in Nat, act \in Nat, s \in Nat :
        n = Len(w) /\ act = Active /\ s = Standby /\ BlocksPerRound = act + s
  BY <1>1, RoundsAssumption DEF BlocksPerRound
<1>3. PICK a \in Nat : a = ActiveOf(w) /\ a = IF act <= n THEN act ELSE n
  BY <1>2, MinOfTwo DEF ActiveOf
<1>4. PICK c : c = SubSeq(w, a + 1, n)
  OBVIOUS
<1>5. c \in Seq(Entry) /\ Len(c) = n - a /\ \A i \in 1..(n - a) : c[i] = w[a + i]
  <2>1. a \in 0..n
    BY <1>2, <1>3
  <2>2. /\ SubSeq(w, a + 1, n) \in Seq(Entry) /\ Len(SubSeq(w, a + 1, n)) = n - a
        /\ \A i \in 1..(n - a) : SubSeq(w, a + 1, n)[i] = w[a + i]
    BY <1>1, <1>2, <2>1, Suffix, SMTT(30)
  <2> QED  BY <1>4, <2>2
<1>6. PICK m \in Nat : m = n - a /\ m = Len(c)
  BY <1>2, <1>3, <1>5
<1>7. \A i \in 1..m : a + i \in 1..n /\ a + i > a
  BY <1>2, <1>3, <1>6
<1>8. \A i, j \in 1..m : i < j => c[i].d # c[j].d
  <2> SUFFICES ASSUME NEW i \in 1..m, NEW j \in 1..m, i < j PROVE c[i].d # c[j].d
    OBVIOUS
  <2>1. a + i \in 1..n /\ a + j \in 1..n /\ a + i < a + j
    <3>1. i \in Nat /\ j \in Nat
      OBVIOUS
    <3> QED  BY <1>7, <3>1
  <2>2. c[i] = w[a + i] /\ c[j] = w[a + j]
    BY <1>5, <1>6
  <2> QED  BY <1>1, <1>2, <2>1, <2>2
<1>9. m > s => \A i \in 1..m : c[i].weight > 0
  <2> SUFFICES ASSUME m > s, NEW i \in 1..m PROVE c[i].weight > 0
    OBVIOUS
  <2>1. a = act /\ n > act + s
    BY <1>2, <1>3, <1>6
  <2>2. a + i \in (act + 1)..n
    <3>1. a + i \in 1..n /\ a + i > a
      BY <1>7
    <3> QED  BY <2>1, <3>1
  <2>3. w[a + i].weight > 0
    BY <1>2, <2>1, <2>2 DEF IsSnapshot
  <2> QED  BY <1>5, <1>6, <2>3
<1>10. PICK t : t = PickStandby(c, seeds)
  OBVIOUS
<1>11. /\ t \in Seq(Delegate) /\ Len(t) <= s
       /\ \A i \in 1..Len(t) : t[i] \in Listing(c)
       /\ \A i, j \in 1..Len(t) : i < j => t[i] # t[j]
  <2>1. \A i, j \in 1..Len(c) : i < j => c[i].d # c[j].d
    BY <1>6, <1>8
  <2>2. Len(c) > Standby => \A i \in 1..Len(c) : c[i].weight > 0
    BY <1>2, <1>6, <1>9
  <2>3. /\ PickStandby(c, seeds) \in Seq(Delegate) /\ Len(PickStandby(c, seeds)) <= Standby
        /\ \A i \in 1..Len(PickStandby(c, seeds)) : PickStandby(c, seeds)[i] \in Listing(c)
        /\ \A i, j \in 1..Len(PickStandby(c, seeds)) :
              i < j => PickStandby(c, seeds)[i] # PickStandby(c, seeds)[j]
    BY <1>5, <2>1, <2>2, StandbyIs
  <2> QED  BY <1>2, <1>10, <2>3
<1>12. PICK k \in Nat : k = Len(t) /\ k <= s
  BY <1>11
<1>13. PICK f : f = [i \in 1..a |-> w[i].d]
  OBVIOUS
<1>14. /\ f \in Seq(Delegate) /\ Len(f) = a
       /\ \A i \in 1..a : f[i] = w[i].d
  <2>1. a \in 0..Len(w)
    BY <1>2, <1>3
  <2> QED  BY <1>1, <1>13, <2>1, Names
<1>15. /\ chosen \in Seq(Delegate) /\ Len(chosen) = a + k
       /\ \A i \in 1..(a + k) : chosen[i] = IF i <= a THEN f[i] ELSE t[i - a]
  <2>1. a = Len(f) /\ k = Len(t) /\ f \in Seq(Delegate) /\ t \in Seq(Delegate)
    BY <1>11, <1>12, <1>14
  <2>2. /\ f \o t \in Seq(Delegate) /\ Len(f \o t) = a + k
        /\ \A i \in 1..(a + k) : (f \o t)[i] = IF i <= a THEN f[i] ELSE t[i - a]
    BY <2>1, Joined
  <2>3. chosen = f \o t
    BY <1>0, <1>2, <1>3, <1>4, <1>10, <1>13 DEF ChosenOf
  <2> QED  BY <2>2, <2>3
<1>16. a + k <= BlocksPerRound
  BY <1>2, <1>3, <1>12
<1>17. ASSUME NEW i \in 1..(a + k)
       PROVE  \E p \in 1..n : chosen[i] = w[p].d /\ (IF i <= a THEN p = i ELSE p > a)
  <2>1. CASE i <= a
    BY <1>2, <1>3, <1>14, <1>15, <2>1
  <2>2. CASE ~(i <= a)
    <3>1. i - a \in 1..k
      BY <2>2
    <3>2. chosen[i] = t[i - a] /\ t[i - a] \in Listing(c)
      BY <1>11, <1>12, <1>15, <2>2, <3>1
    <3>3. PICK q \in 1..m : t[i - a] = c[q].d
      BY <1>6, <3>2 DEF Listing
    <3>4. c[q] = w[a + q] /\ a + q \in 1..n /\ a + q > a
      BY <1>5, <1>6, <1>7
    <3> QED  BY <2>2, <3>2, <3>3, <3>4
  <2> QED  BY <2>1, <2>2
<1>18. \A i, j \in 1..n : i # j => w[i].d # w[j].d
  BY <1>1, <1>2
<1>19. ASSUME NEW i \in 1..(a + k), NEW j \in 1..(a + k), i < j PROVE chosen[i] # chosen[j]
  <2>1. CASE i <= a
    <3>1. PICK p \in 1..n : chosen[i] = w[p].d /\ p = i
      BY <1>17, <2>1
    <3>2. PICK q \in 1..n : chosen[j] = w[q].d /\ (IF j <= a THEN q = j ELSE q > a)
      BY <1>17
    <3>3. p # q
      BY <1>19, <2>1, <3>1, <3>2
    <3> QED  BY <1>18, <3>1, <3>2, <3>3
  <2>2. CASE ~(i <= a)
    <3>1. i - a \in 1..k /\ j - a \in 1..k /\ i - a < j - a /\ ~(j <= a)
      BY <1>19, <2>2
    <3>2. chosen[i] = t[i - a] /\ chosen[j] = t[j - a]
      BY <1>15, <2>2, <3>1
    <3> QED  BY <1>11, <1>12, <3>1, <3>2
  <2> QED  BY <2>1, <2>2
<1>20. \A i \in 1..(a + k) : chosen[i] \in Listing(w)
  <2> SUFFICES ASSUME NEW i \in 1..(a + k) PROVE chosen[i] \in Listing(w)
    OBVIOUS
  <2>1. PICK p \in 1..n : chosen[i] = w[p].d
    BY <1>17
  <2> QED  BY <1>2, <2>1 DEF Listing
<1>21. PICK len \in Nat : len = a + k /\ len = Len(chosen)
  BY <1>15
<1> QED  BY <1>0, <1>15, <1>16, <1>19, <1>20, <1>21

LEMMA DrawnIs ==
  ASSUME NEW w, IsSnapshot(w), NEW seeds \in SeedPairs, NEW hash \in Shuffles
  PROVE  /\ IsList(Drawn(w, seeds, hash)) /\ FewActive(Drawn(w, seeds, hash))
         /\ Listing(Drawn(w, seeds, hash)) \subseteq Listing(w)
<1>1. PICK act \in Nat, n \in Nat : act = Active /\ n = Len(w)
  <2>1. w \in Seq(Entry) /\ Active \in Nat
    BY RoundsAssumption DEF IsSnapshot
  <2> QED  BY <2>1
<1>2. PICK a \in Nat : a = ActiveOf(w) /\ a <= act
  BY <1>1, MinOfTwo DEF ActiveOf
<1>3. PICK chosen : chosen = ChosenOf(w, seeds)
  OBVIOUS
<1>4. /\ chosen \in Seq(Delegate) /\ Len(chosen) <= BlocksPerRound
      /\ \A i \in 1..Len(chosen) : chosen[i] \in Listing(w)
      /\ \A i, j \in 1..Len(chosen) : i < j => chosen[i] # chosen[j]
  BY <1>3, ChosenAre
<1>5. PICK m \in Nat : m = Len(chosen) /\ m <= BlocksPerRound
  BY <1>4
<1>6. PICK order : order = Shuffled(m, hash)
  OBVIOUS
<1>7. /\ order \in Seq(1..m) /\ Len(order) = m
      /\ \A i, j \in 1..m : i < j => order[i] # order[j]
  BY <1>5, <1>6, OrderOfPlaces
<1>8. PICK l : l = Drawn(w, seeds, hash)
  OBVIOUS
<1>9. l = [i \in DOMAIN order |-> [d |-> chosen[order[i]], active |-> order[i] <= a]]
  BY <1>2, <1>3, <1>5, <1>6, <1>8 DEF Drawn, Participates, ChosenOf, ActiveOf, Shuffled
<1>10. \A i \in 1..m : order[i] \in 1..m
  BY <1>7
<1>11. l = [i \in 1..m |-> [d |-> chosen[order[i]], active |-> order[i] <= a]]
  BY <1>7, <1>9
<1>12. l \in Seq(Place) /\ Len(l) = m
  <2>1. \A i \in 1..m : [d |-> chosen[order[i]], active |-> order[i] <= a] \in Place
    BY <1>4, <1>5, <1>10 DEF Place
  <2> QED  BY <1>11, <2>1
<1>13. \A i \in 1..m : l[i].d = chosen[order[i]] /\ (l[i].active <=> order[i] <= a)
  BY <1>11
<1>14. \A i, j \in 1..m : i # j => chosen[i] # chosen[j] /\ order[i] # order[j]
  BY <1>4, <1>5, <1>7
<1>15. \A i, j \in 1..m : i < j => l[i].d # l[j].d
  <2> SUFFICES ASSUME NEW i \in 1..m, NEW j \in 1..m, i < j PROVE l[i].d # l[j].d
    OBVIOUS
  <2>1. order[i] # order[j] /\ order[i] \in 1..m /\ order[j] \in 1..m
    BY <1>7, <1>10
  <2> QED  BY <1>13, <1>14, <2>1
<1>16. Listing(l) \subseteq Listing(w)
  <2> SUFFICES ASSUME NEW i \in 1..m PROVE l[i].d \in Listing(w)
    BY <1>12 DEF Listing
  <2> QED  BY <1>4, <1>5, <1>10, <1>13
<1>17. FewActive(l)
  <2> DEFINE J == {i \in 1..m : l[i].active}
             f == [i \in J |-> order[i]]
  <2>1. \A i \in J : order[i] \in 1..a
    BY <1>10, <1>13
  <2>2. f \in Injection(J, 1..a)
    BY <1>14, <2>1 DEF Injection, IsInjective
  <2>3. IsFiniteSet(1..a) /\ Cardinality(1..a) = a
    BY DownToOne
  <2> HIDE DEF J, f
  <2>4. IsFiniteSet(J) /\ Cardinality(J) <= a
    BY <2>2, <2>3, FS_Injection
  <2>5. Cardinality(J) \in Nat
    BY <2>4, FS_CardinalityType
  <2>6. Cardinality(J) <= act
    BY <1>2, <2>4, <2>5
  <2> QED  BY <1>1, <1>12, <2>6 DEF FewActive, J
<1> QED  BY <1>5, <1>8, <1>12, <1>15, <1>16, <1>17 DEF IsList

-----------------------------------------------------------------------------
(* What every state of the rounds keeps.                                   *)

RoundsTyped ==
  /\ account \in [Delegate -> DelegateAccount]
  /\ tip \in Nat /\ time \in Nat /\ finalized \in 0..tip
  /\ skipped \in [Delegate -> Nat] /\ bannedIn \in [Delegate -> Nat]

ListKept == IsList(list) /\ (tip >= BlocksPerRound => FewActive(list))

\* The weights recorded are those of rounds up to the last that can be known.
WeightsKept ==
  \A r \in DOMAIN weights :
    r \in Nat /\ r <= Round(tip + 1) + RoundOffset /\ IsSnapshot(weights[r])

\* A banned delegate is in no weights recorded after its ban.
BansKept ==
  /\ \A d \in Delegate :
       /\ account[d].banned <=> bannedIn[d] # 0
       /\ bannedIn[d] <= Round(tip + 1)
  /\ \A r \in DOMAIN weights, d \in Delegate :
       bannedIn[d] # 0 /\ r > bannedIn[d] + RoundOffset => d \notin Listing(weights[r])

RoundsKept ==
  /\ RoundsTyped /\ ListKept /\ WeightsKept /\ BansKept /\ WeightsAhead /\ BannedLeaves

\* With blocks stamped at the start of their slots.
SlotsKept == time % BlockTime = 0 /\ MissedOwnSlots

Charged(i, missed, d) == Cardinality({k \in 0..missed-1 : list[Misser(i, k)].d = d})

LEMMA ChargedIsNat ==
  ASSUME NEW i, NEW missed \in Nat, NEW d
  PROVE  Charged(i, missed, d) \in Nat
<1>1. IsFiniteSet(0..missed - 1)
  BY FS_Interval
<1>2. IsFiniteSet({k \in 0..missed-1 : list[Misser(i, k)].d = d})
  BY <1>1, FS_Subset
<1> QED  BY <1>2, FS_CardinalityType DEF Charged

\* The accounts after a block: missed slots are added, bans stay.
Updates(acc, new, i, missed) ==
  /\ new \in [Delegate -> DelegateAccount]
  /\ \A d \in Delegate :
       /\ acc[d].banned => new[d].banned
       /\ new[d].missed = IF d = list[i].d THEN 0 ELSE acc[d].missed + Charged(i, missed, d)

LEMMA ProductiveIs ==
  ASSUME NEW acc \in [Delegate -> DelegateAccount], NEW i, NEW h \in Nat, NEW missed \in Nat
  PROVE  Updates(acc, Productive(acc, i, h, missed), i, missed)
<1>1. PICK new : new = Productive(acc, i, h, missed)
  OBVIOUS
<1> DEFINE bans(d) == /\ Charged(i, missed, d) > 0
                      /\ acc[d].missed + Charged(i, missed, d) > MaxMissed
                      /\ h - acc[d].lastForged > MaxForgedDiff
           counted(d) == IF d = list[i].d THEN 0 ELSE acc[d].missed + Charged(i, missed, d)
           last(d) == IF d = list[i].d THEN h ELSE acc[d].lastForged
<1>2. new = [d \in Delegate |->
               [acc[d] EXCEPT !.banned = @ \/ bans(d), !.missed = counted(d), !.lastForged = last(d)]]
  BY <1>1 DEF Productive, Charged
<1>3. ASSUME NEW d \in Delegate
      PROVE  /\ new[d] \in DelegateAccount
             /\ acc[d].banned => new[d].banned
             /\ new[d].missed = counted(d)
  <2>1. PICK a \in DelegateAccount : a = acc[d]
    OBVIOUS
  <2>2. PICK b \in BOOLEAN : b = bans(d)
    OBVIOUS
  <2>3. PICK c \in Nat, l \in Nat : c = counted(d) /\ l = last(d)
    <3>1. a.missed \in Nat /\ a.lastForged \in Nat /\ Charged(i, missed, d) \in Nat
      BY ChargedIsNat DEF DelegateAccount
    <3> QED  BY <2>1, <3>1
  <2>4. PICK e \in BOOLEAN : e = (a.banned \/ b)
    OBVIOUS
  <2>5. new[d] = [a EXCEPT !.banned = e, !.missed = c, !.lastForged = l]
    BY <1>2, <2>1, <2>2, <2>3, <2>4
  <2> HIDE DEF bans, counted, last
  <2>6. [a EXCEPT !.banned = e, !.missed = c, !.lastForged = l] \in DelegateAccount
    BY DEF DelegateAccount
  <2>7. /\ [a EXCEPT !.banned = e, !.missed = c, !.lastForged = l].banned = e
        /\ [a EXCEPT !.banned = e, !.missed = c, !.lastForged = l].missed = c
    BY DEF DelegateAccount
  <2> QED  BY <2>1, <2>3, <2>4, <2>5, <2>6, <2>7
<1>4. new = [d \in Delegate |-> new[d]]
  BY <1>2
<1>5. new \in [Delegate -> DelegateAccount]
  BY <1>3, <1>4
<1> QED  BY <1>1, <1>3, <1>5 DEF Updates

\* The slots between two blocks: who did not use them.
LEMMA SlotsMissedAreNat ==
  ASSUME RoundsTyped, NEW gap \in Nat, gap > 0, NEW slot \in Nat, slot = time \div BlockTime + gap,
         NEW offset \in Nat, NEW t, t = slot * BlockTime + offset
  PROVE  t \in Nat /\ Missed(t) \in Nat
<1>1. PICK b \in Nat : b = BlockTime /\ b > 0
  BY RoundsAssumption
<1>2. PICK q \in Nat, r \in Nat : q = time \div b /\ time = b * q + r /\ r < b
  <2>1. time \in Nat
    BY DEF RoundsTyped
  <2>2. time \div b \in Nat
    BY <1>1, <2>1
  <2>3. time = b * (time \div b) + (time % b) /\ time % b \in Nat /\ time % b < b
    BY <1>1, <2>1, DivMod
  <2> QED  BY <2>2, <2>3
<1>3. slot = q + gap
  BY <1>1, <1>2
<1>4. PICK x \in Nat, y \in Nat : x = b * q /\ y = b * (gap - 1)
  <2>1. b * q \in Nat
    OBVIOUS
  <2>2. gap - 1 \in Nat
    OBVIOUS
  <2>3. b * (gap - 1) \in Nat
    BY <2>2
  <2> QED  BY <2>1, <2>3
<1>5. t = x + y + b + offset
  <2>1. slot * b = b * q + b * (gap - 1) + b
    BY <1>3
  <2> QED  BY <1>1, <1>4, <2>1
<1>6. PICK z \in Nat : z = t - time + b - 1 /\ z >= b
  BY <1>1, <1>2, <1>4, <1>5
<1>7. (z \div b) - 1 \in Nat
  BY <1>1, <1>6
<1>8. Missed(t) = (z \div b) - 1
  BY <1>1, <1>6 DEF Missed
<1> QED  BY <1>4, <1>5, <1>7, <1>8

LEMMA SlotsMissed ==
  ASSUME RoundsTyped, time % BlockTime = 0, NEW gap \in Nat, gap > 0, NEW slot \in Nat, slot = time \div BlockTime + gap,
         NEW t, t = slot * BlockTime
  PROVE  Missed(t) = gap - 1
<1>1. PICK b \in Nat : b = BlockTime /\ b > 0
  BY RoundsAssumption
<1>2. PICK q \in Nat : q = time \div b /\ time = b * q
  <2>1. time \in Nat /\ time % b = 0
    BY <1>1 DEF RoundsTyped
  <2>2. time \div b \in Nat
    BY <1>1, <2>1
  <2>3. time = b * (time \div b) + 0
    BY <1>1, <2>1, DivMod
  <2>4. b * (time \div b) \in Nat
    BY <2>2
  <2> QED  BY <2>2, <2>3, <2>4
<1>3. slot = q + gap
  BY <1>1, <1>2
<1>4. slot * b = b * q + b * gap
  BY <1>3
<1>5. b * gap \in Nat /\ b * q \in Nat /\ slot * b \in Nat
  BY <1>3
<1>6. t - time + b - 1 = b * gap + (b - 1)
  BY <1>1, <1>2, <1>4, <1>5
<1>7. (b * gap + (b - 1)) \div b = gap
  <2>1. b - 1 \in Nat /\ b - 1 < b
    BY <1>1
  <2>2. b * gap + (b - 1) \in Int
    BY <1>5
  <2> QED  BY <1>1, <2>1, <2>2, DivUnique
<1>8. Missed(t) = ((t - time + b - 1) \div b) - 1
  BY <1>1 DEF Missed
<1> QED  BY <1>6, <1>7, <1>8

PlaceOf(slot) == (slot % Len(list)) + 1

LEMMA MisserAt ==
  ASSUME Len(list) \in Nat, Len(list) > 0, NEW slot \in Nat, NEW k \in Nat
  PROVE  Misser(PlaceOf(slot), k) = PlaceOf(slot - (k + 1))
<1>1. PICK n \in Nat : n = Len(list) /\ n > 0
  OBVIOUS
<1>2. PICK m \in Nat : m = slot % n
  BY <1>1
<1>3. PICK c \in Int : c = k + 1
  OBVIOUS
<1>4. ((slot % n) - c) % n = (slot - c) % n
  <2>1. slot \in Int
    OBVIOUS
  <2> QED  BY <1>1, <2>1, ModMinus
<1>5. Misser(PlaceOf(slot), k) = ((m + 1 - 2 - k) % n) + 1
  BY <1>1, <1>2 DEF Misser, PlaceOf
<1>6. m + 1 - 2 - k = m - c
  BY <1>3
<1>7. Misser(PlaceOf(slot), k) = ((slot - c) % n) + 1
  BY <1>2, <1>4, <1>5, <1>6
<1> QED  BY <1>1, <1>3, <1>7 DEF PlaceOf

LEMMA ChargedOwn ==
  ASSUME Len(list) \in Nat, Len(list) > 0, NEW slot \in Nat, NEW gap \in Nat, gap > 0, NEW d
  PROVE  Charged(PlaceOf(slot), gap - 1, d) =
           Cardinality({s \in 1..gap-1 : list[PlaceOf(slot - s)].d = d})
<1> DEFINE K == {k \in 0..(gap - 1)-1 : list[Misser(PlaceOf(slot), k)].d = d}
           S == {s \in 1..gap-1 : list[PlaceOf(slot - s)].d = d}
           f == [k \in K |-> k + 1]
<1>1. \A k \in 0..(gap - 1)-1 : Misser(PlaceOf(slot), k) = PlaceOf(slot - (k + 1))
  <2> SUFFICES ASSUME NEW k \in 0..(gap - 1)-1
               PROVE  Misser(PlaceOf(slot), k) = PlaceOf(slot - (k + 1))
    OBVIOUS
  <2>1. k \in Nat
    OBVIOUS
  <2> QED  BY <2>1, MisserAt
<1>2. \A k \in K : k \in Nat /\ k + 1 \in S
  BY <1>1
<1>3. ASSUME NEW s \in S PROVE s - 1 \in K
  <2>1. s \in 1..gap-1 /\ list[PlaceOf(slot - s)].d = d
    OBVIOUS
  <2>2. s - 1 \in 0..(gap - 1)-1 /\ (s - 1) + 1 = s
    BY <2>1
  <2>3. Misser(PlaceOf(slot), s - 1) = PlaceOf(slot - s)
    BY <1>1, <2>2
  <2> QED  BY <2>1, <2>2, <2>3
<1>4. \A s \in S : s \in Int
  OBVIOUS
<1>5. IsFiniteSet(S) /\ IsFiniteSet(K)
  <2>1. IsFiniteSet(1..gap-1) /\ IsFiniteSet(0..(gap - 1)-1)
    <3>1. 0 \in Int /\ 1 \in Int /\ gap - 1 \in Int /\ (gap - 1) - 1 \in Int
      OBVIOUS
    <3> QED  BY <3>1, FS_Interval
  <2> QED  BY <2>1, FS_Subset
<1> HIDE DEF K, S
<1>6. f \in Injection(K, S)
  BY <1>2 DEF Injection, IsInjective
<1>7. f \in Surjection(K, S)
  <2>1. f \in [K -> S]
    BY <1>2
  <2>2. \A s \in S : \E k \in K : f[k] = s
    <3> SUFFICES ASSUME NEW s \in S PROVE \E k \in K : f[k] = s
      OBVIOUS
    <3>1. s - 1 \in K /\ f[s - 1] = s
      BY <1>3, <1>4
    <3> QED  BY <3>1
  <2> HIDE DEF f
  <2> QED  BY <2>1, <2>2 DEF Surjection
<1> HIDE DEF f
<1>8. Cardinality(K) = Cardinality(S)
  BY <1>5, <1>6, <1>7, FS_Injection
<1> QED  BY <1>8 DEF Charged, K, S

\* Weights of rounds that are over may go.
KeptOf(kept) ==
  /\ DOMAIN kept \subseteq DOMAIN weights
  /\ \A q \in DOMAIN kept : kept[q] = weights[q]
  /\ \A q \in DOMAIN weights : q >= Round(tip + 1) => q \in DOMAIN kept

\* Who is banned now is banned in this round.
BansGrow(acc, b) ==
  /\ acc \in [Delegate -> DelegateAccount] /\ b \in [Delegate -> Nat]
  /\ \A d \in Delegate :
       /\ acc[d].banned <=> b[d] # 0
       /\ bannedIn[d] # 0 => b[d] = bannedIn[d]
       /\ bannedIn[d] = 0 => b[d] \in {0, Round(tip + 1)}

LEMMA NextTip ==
  ASSUME RoundsTyped
  PROVE  /\ tip + 1 \in Nat /\ tip + 1 + 1 \in Nat
         /\ Round(tip + 1) \in Nat /\ Round(tip + 1) >= 1 /\ Round(tip + 1 + 1) \in Nat
         /\ Round(tip + 1 + 1) \in {Round(tip + 1), Round(tip + 1) + 1}
<1>1. PICK h \in Nat : h = tip + 1 /\ h >= 1 /\ h + 1 \in Nat
  BY DEF RoundsTyped
<1>2. Round(h) \in Nat /\ Round(h) >= 1 /\ Round(h + 1) \in Nat
  BY <1>1, RoundIsNat, FirstRound
<1>3. Round(h + 1) \in {Round(h), Round(h) + 1}
  BY NextRound
<1> QED  BY <1>1, <1>2, <1>3

LEMMA WeightsStay ==
  ASSUME RoundsTyped, NEW fin \in {finalized, tip},
         \A r \in DOMAIN weights : r \in Nat
  PROVE  KeptOf(KeptWeights(fin))
<1>1. CASE fin = finalized
  BY <1>1 DEF KeptOf, KeptWeights
<1>2. CASE fin # finalized
  <2>1. PICK u \in Int : u = DisposableUntil(fin) /\ u <= Round(tip + 1)
    <3>1. tip \in Nat /\ fin = tip
      BY <1>2 DEF RoundsTyped
    <3>2. Round(fin) \in Nat /\ Round(tip + 1) \in Nat /\ Round(fin) <= Round(tip + 1)
      <4>1. tip + 1 \in Nat /\ tip <= tip + 1
        BY <3>1
      <4> QED  BY <3>1, <4>1, RoundIsNat, RoundsRise
    <3>3. RoundOffset \in Nat /\ ActiveRoundLimit \in Nat
      BY RoundsAssumption
    <3>4. Round(fin) - RoundOffset - ActiveRoundLimit <= Round(tip + 1)
      BY <3>2, <3>3
    <3>5. Round(fin) - RoundOffset - ActiveRoundLimit \in Int
      BY <3>2, <3>3
    <3> QED  BY <3>4, <3>5 DEF DisposableUntil
  <2>2. PICK k : k = KeptWeights(fin)
    OBVIOUS
  <2>3. k = [r \in {q \in DOMAIN weights : q >= u} |-> weights[r]]
    BY <1>2, <2>1, <2>2 DEF KeptWeights
  <2>4. PICK R \in Nat : R = Round(tip + 1)
    BY NextTip
  <2>5. \A q \in DOMAIN weights : q >= R => q >= u
    BY <2>1, <2>4
  <2> QED  BY <2>2, <2>3, <2>4, <2>5 DEF KeptOf
<1> QED  BY <1>1, <1>2

\* Inside a round.
LEMMA SameRound ==
  ASSUME RoundsKept, NEW acc, NEW b, BansGrow(acc, b),
         tip' \in Nat, Round(tip' + 1) = Round(tip + 1),
         KeptOf(weights'), list' = list, account' = acc, bannedIn' = b
  PROVE  ListKept' /\ WeightsKept' /\ BansKept' /\ WeightsAhead' /\ BannedLeaves'
<1>1. PICK R \in Nat, o \in Nat : R = Round(tip + 1) /\ o = RoundOffset
  BY NextTip, RoundsAssumption DEF RoundsKept
<1>2. /\ R = Round(tip' + 1)
      /\ \A d \in Delegate : b[d] \in Nat /\ bannedIn[d] \in Nat
  BY <1>1 DEF BansGrow, RoundsKept, RoundsTyped
<1>3. ListKept'
  <2>1. IsList(list) /\ (tip >= BlocksPerRound => FewActive(list))
    BY DEF RoundsKept, ListKept
  <2>2. tip' >= BlocksPerRound => tip >= BlocksPerRound
    <3>1. PICK n \in Nat, s \in Nat, t \in Nat : n = BlocksPerRound /\ s = tip /\ t = tip'
      BY PerRound DEF RoundsKept, RoundsTyped
    <3>2. Round(s + 1) > 1 <=> s + 1 > n
      <4>1. s + 1 \in Nat
        OBVIOUS
      <4> QED  BY <3>1, <4>1, FirstRound
    <3>3. Round(t + 1) > 1 <=> t + 1 > n
      <4>1. t + 1 \in Nat
        OBVIOUS
      <4> QED  BY <3>1, <4>1, FirstRound
    <3>4. Round(s + 1) = Round(t + 1)
      BY <3>1
    <3>5. t + 1 > n <=> s + 1 > n
      BY <3>2, <3>3, <3>4
    <3>6. t >= n => s >= n
      BY <3>5
    <3> QED  BY <3>1, <3>6, Zenon
  <2> QED  BY <2>1, <2>2 DEF ListKept
<1>4. WeightsKept'
  <2>1. \A r \in DOMAIN weights : r \in Nat /\ r <= R + o /\ IsSnapshot(weights[r])
    BY <1>1 DEF RoundsKept, WeightsKept
  <2>2. \A r \in DOMAIN weights' : r \in DOMAIN weights /\ weights'[r] = weights[r]
    BY DEF KeptOf
  <2> QED  BY <1>1, <1>2, <2>1, <2>2 DEF WeightsKept
<1>5. BansKept'
  <2>1. \A d \in Delegate : (acc[d].banned <=> b[d] # 0) /\ b[d] <= R
    BY <1>1, <1>2 DEF BansGrow, RoundsKept, BansKept
  <2>2. ASSUME NEW r \in DOMAIN weights', NEW d \in Delegate, b[d] # 0, r > b[d] + o
        PROVE  d \notin Listing(weights'[r])
    <3>1. r \in DOMAIN weights /\ weights'[r] = weights[r]
      BY DEF KeptOf
    <3>2. r \in Nat /\ r <= R + o
      BY <1>1, <3>1 DEF RoundsKept, WeightsKept
    <3>3. b[d] # R
      BY <1>1, <1>2, <2>2, <3>2
    <3>4. bannedIn[d] # 0 /\ b[d] = bannedIn[d]
      BY <1>1, <2>2, <3>3 DEF BansGrow
    <3> QED  BY <1>1, <2>2, <3>1, <3>4 DEF RoundsKept, BansKept
  <2> QED  BY <1>1, <1>2, <2>1, <2>2 DEF BansKept
<1>6. WeightsAhead'
  <2> SUFFICES ASSUME NEW k \in 1..RoundOffset PROVE Round(tip' + 1) + k \in DOMAIN weights'
    BY DEF WeightsAhead
  <2>1. Round(tip + 1) + k \in DOMAIN weights
    BY DEF RoundsKept, WeightsAhead
  <2>2. Round(tip + 1) + k >= Round(tip + 1)
    BY <1>1
  <2>3. Round(tip + 1) + k \in DOMAIN weights'
    BY <2>1, <2>2 DEF KeptOf
  <2> QED  BY <2>3
<1>7. BannedLeaves'
  <2> SUFFICES ASSUME NEW d \in Delegate, b[d] > 0, R > b[d] + o
               PROVE  \A i \in DOMAIN list : list[i].d # d
    BY <1>1, <1>2 DEF BannedLeaves
  <2>1. b[d] # R
    BY <1>1, <1>2
  <2>2. bannedIn[d] # 0 /\ b[d] = bannedIn[d]
    BY <1>1, <1>2, <2>1 DEF BansGrow
  <2>3. bannedIn[d] > 0 /\ Round(tip + 1) > bannedIn[d] + RoundOffset
    BY <1>1, <2>2
  <2> QED  BY <2>3 DEF RoundsKept, BannedLeaves
<1> QED  BY <1>3, <1>4, <1>5, <1>6, <1>7

\* From a round to the next: the weights recorded and the list drawn.
LEMMA NextList ==
  ASSUME RoundsKept, NEW acc, NEW b, BansGrow(acc, b), NEW kept, KeptOf(kept),
         NEW R \in Nat, R = Round(tip + 1), NEW h,
         NEW w, w = WithSnapshot(kept, R + 1 + RoundOffset, Snapshot(acc, h)),
         NEW seeds \in SeedPairs, NEW hash \in Shuffles
  PROVE  /\ IsList(Drawn(w[R + 1], seeds, hash)) /\ FewActive(Drawn(w[R + 1], seeds, hash))
         /\ \A r \in DOMAIN w : r \in Nat /\ r <= R + 1 + RoundOffset /\ IsSnapshot(w[r])
         /\ \A k \in 1..RoundOffset : R + 1 + k \in DOMAIN w
         /\ \A r \in DOMAIN w, d \in Delegate :
              b[d] # 0 /\ r > b[d] + RoundOffset => d \notin Listing(w[r])
         /\ \A d \in Delegate :
              b[d] # 0 /\ R + 1 > b[d] + RoundOffset
                => d \notin Listing(Drawn(w[R + 1], seeds, hash))
<1>1. PICK o \in Nat : o = RoundOffset
  BY RoundsAssumption
<1>2. PICK new \in Nat : new = R + 1 + o
  <2>1. R + 1 + o \in Nat
    BY <1>1
  <2> QED  BY <2>1
<1>3. PICK snapshot : snapshot = Snapshot(acc, h)
  OBVIOUS
<1>4. IsSnapshot(snapshot) /\ Listing(snapshot) \subseteq Eligible(acc)
  BY <1>3, SnapshotIs DEF BansGrow
<1>5. /\ DOMAIN w = DOMAIN kept \cup {new} /\ w[new] = snapshot
      /\ \A q \in DOMAIN kept : q # new => w[q] = kept[q]
  BY <1>1, <1>2, <1>3 DEF WithSnapshot
<1>6. ASSUME NEW q \in DOMAIN w, q # new
      PROVE  q \in DOMAIN weights /\ w[q] = weights[q] /\ q \in Nat /\ q <= R + o /\ IsSnapshot(w[q])
  <2>1. q \in DOMAIN weights /\ w[q] = weights[q]
    BY <1>5, <1>6 DEF KeptOf
  <2> QED  BY <1>1, <2>1 DEF RoundsKept, WeightsKept
<1>7. \A r \in DOMAIN w : r \in Nat /\ r <= R + 1 + o /\ IsSnapshot(w[r])
  <2> SUFFICES ASSUME NEW r \in DOMAIN w PROVE r \in Nat /\ r <= R + 1 + o /\ IsSnapshot(w[r])
    OBVIOUS
  <2>1. CASE r = new
    BY <1>2, <1>4, <1>5, <2>1
  <2>2. CASE r # new
    BY <1>6, <2>2
  <2> QED  BY <2>1, <2>2
<1>8. \A k \in 1..o : R + 1 + k \in DOMAIN w
  <2> SUFFICES ASSUME NEW k \in 1..o PROVE R + 1 + k \in DOMAIN w
    OBVIOUS
  <2>1. CASE k = o
    BY <1>2, <1>5, <2>1
  <2>2. CASE k # o
    <3>1. k + 1 \in 1..o
      BY <2>2
    <3>2. R + (k + 1) \in DOMAIN weights /\ R + (k + 1) >= R
      BY <1>1, <3>1 DEF RoundsKept, WeightsAhead
    <3>3. R + (k + 1) = R + 1 + k
      OBVIOUS
    <3> QED  BY <1>5, <3>2, <3>3 DEF KeptOf
  <2> QED  BY <2>1, <2>2
<1>9. R + 1 \in DOMAIN w
  <2>1. CASE o = 0
    BY <1>2, <1>5, <2>1
  <2>2. CASE o # 0
    <3>1. 1 \in 1..o
      BY <2>2
    <3>2. R + 1 \in DOMAIN weights /\ R + 1 >= R
      BY <1>1, <3>1 DEF RoundsKept, WeightsAhead
    <3> QED  BY <1>5, <3>2 DEF KeptOf
  <2> QED  BY <2>1, <2>2
<1>10. \A d \in Delegate : b[d] \in Nat /\ (acc[d].banned <=> b[d] # 0)
  BY DEF BansGrow
<1>11. ASSUME NEW r \in DOMAIN w, NEW d \in Delegate, b[d] # 0, r > b[d] + o
       PROVE  d \notin Listing(w[r])
  <2>1. CASE r = new
    BY <1>4, <1>5, <1>10, <1>11, <2>1 DEF Eligible
  <2>2. CASE r # new
    <3>1. r \in DOMAIN weights /\ w[r] = weights[r] /\ r \in Nat /\ r <= R + o
      BY <1>6, <2>2
    <3>2. b[d] # R
      BY <1>10, <1>11, <3>1
    <3>3. bannedIn[d] # 0 /\ b[d] = bannedIn[d]
      BY <1>11, <3>2 DEF BansGrow
    <3> QED  BY <1>1, <1>11, <3>1, <3>3 DEF RoundsKept, BansKept
  <2> QED  BY <2>1, <2>2
<1>12. PICK v : v = w[R + 1] /\ IsSnapshot(v)
  BY <1>7, <1>9
<1>13. /\ IsList(Drawn(v, seeds, hash)) /\ FewActive(Drawn(v, seeds, hash))
       /\ Listing(Drawn(v, seeds, hash)) \subseteq Listing(v)
  BY <1>12, DrawnIs
<1> QED  BY <1>1, <1>7, <1>8, <1>9, <1>11, <1>12, <1>13

LEMMA BansRecorded ==
  ASSUME RoundsTyped, BansKept, NEW acc \in [Delegate -> DelegateAccount],
         \A d \in Delegate : account[d].banned => acc[d].banned,
         NEW h, h = tip + 1
  PROVE  BansGrow(acc, BansOf(acc, h))
<1>1. PICK R \in Nat : R = Round(tip + 1) /\ R >= 1 /\ R = Round(h)
  BY NextTip
<1>2. PICK b : b = BansOf(acc, h)
  OBVIOUS
<1>3. b = [d \in Delegate |-> IF acc[d].banned /\ bannedIn[d] = 0 THEN R ELSE bannedIn[d]]
  BY <1>1, <1>2 DEF BansOf
<1>4. ASSUME NEW d \in Delegate
      PROVE  /\ b[d] \in Nat
             /\ acc[d].banned <=> b[d] # 0
             /\ bannedIn[d] # 0 => b[d] = bannedIn[d]
             /\ bannedIn[d] = 0 => b[d] \in {0, R}
  <2>1. bannedIn[d] \in Nat /\ (account[d].banned <=> bannedIn[d] # 0)
    BY DEF RoundsTyped, BansKept
  <2>2. b[d] = IF acc[d].banned /\ bannedIn[d] = 0 THEN R ELSE bannedIn[d]
    BY <1>3
  <2> QED  BY <1>1, <2>1, <2>2
<1>5. b \in [Delegate -> Nat]
  BY <1>3, <1>4
<1> QED  BY <1>1, <1>2, <1>4, <1>5 DEF BansGrow

\* What a step may not do to the weights recorded.
StandBack ==
  \A r \in DOMAIN weights' \ DOMAIN weights, d \in Delegate :
    /\ IsCurrentlyPunished(account', d, tip' + 1)
    /\ Cardinality({e \in Eligible(account') \ {d} :
                      Weight(account', e, tip' + 1) > 0}) >= Active
    => \A i \in 1..Min({Active, Len(weights'[r])}) : weights'[r][i].d # d

PassedBy(slot, gap, d) == Cardinality({s \in 1..gap-1 : list[PlaceOf(slot - s)].d = d})

LEMMA PassedIsNat ==
  ASSUME NEW slot, NEW gap \in Nat, NEW d
  PROVE  PassedBy(slot, gap, d) \in Nat
<1>1. IsFiniteSet(1..gap-1)
  <2>1. 1 \in Int /\ gap - 1 \in Int
    OBVIOUS
  <2> QED  BY <2>1, FS_Interval
<1>2. IsFiniteSet({s \in 1..gap-1 : list[PlaceOf(slot - s)].d = d})
  BY <1>1, FS_Subset
<1> QED  BY <1>2, FS_CardinalityType DEF PassedBy

\* The accounts and the history after a block.
BlockAt(i, g, slot, t, h, m, fin) ==
  /\ i = PlaceOf(slot)
  /\ Updates(account, account', i, m)
  /\ tip' = h /\ time' = t /\ finalized' = fin
  /\ bannedIn' = BansOf(account', h)
  /\ skipped' = [d \in Delegate |->
                   IF d = list[i].d THEN 0 ELSE skipped[d] + PassedBy(slot, g, d)]

LEMMA BlockMoves ==
  ASSUME RoundsKept, list # <<>>,
         NEW i \in 1..BlocksPerRound, NEW gap \in Gaps, NEW offset \in Offsets,
         NEW fin \in {finalized, tip}, Block(i, gap, offset, fin)
  PROVE  \E g \in Nat, slot \in Nat, t \in Nat, h \in Nat, m \in Nat :
           /\ g > 0 /\ slot = time \div BlockTime + g /\ t = slot * BlockTime + offset
           /\ h = tip + 1 /\ m = Missed(t) /\ Len(list) \in Nat /\ Len(list) > 0
           /\ BlockAt(i, g, slot, t, h, m, fin)
<1>1. Len(list) \in Nat /\ Len(list) > 0
  <2>1. list \in Seq(Place) /\ list # <<>>
    BY DEF RoundsKept, ListKept, IsList
  <2> QED  BY <2>1
<1>2. PICK g \in Nat, o \in Nat : g = gap /\ g > 0 /\ o = offset
  <2>1. gap \in Nat /\ gap > 0
    BY RoundsAssumption
  <2>2. BlockTime \in Nat /\ offset \in 0..(BlockTime - 1)
    BY RoundsAssumption
  <2> QED  BY <2>1, <2>2
<1>3. PICK slot \in Nat : slot = time \div BlockTime + g
  <2>1. PICK b \in Nat : b = BlockTime /\ b > 0
    BY RoundsAssumption
  <2>2. time \in Nat
    BY DEF RoundsKept, RoundsTyped
  <2>3. time \div b \in Nat
    BY <2>1, <2>2
  <2> QED  BY <2>1, <2>3
<1>4. PICK t : t = slot * BlockTime + o
  OBVIOUS
<1>5. t \in Nat /\ Missed(t) \in Nat
  BY <1>2, <1>3, <1>4, SlotsMissedAreNat DEF RoundsKept
<1>6. PICK h \in Nat, m \in Nat : h = tip + 1 /\ m = Missed(t)
  BY <1>5, NextTip DEF RoundsKept
<1>7. slot * BlockTime + offset = t
  BY <1>2, <1>4
<1>8. i = PlaceOf(slot)
  BY <1>2, <1>3 DEF Block, PlaceOf
<1>9. PICK old \in [Delegate -> DelegateAccount] : old = account
  BY DEF RoundsKept, RoundsTyped
<1>10. Updates(old, Productive(old, i, h, m), i, m)
  BY ProductiveIs
<1>11. account' = Productive(old, i, h, m)
  BY <1>2, <1>3, <1>6, <1>7, <1>9 DEF Block
<1>12. tip' = h /\ time' = t /\ finalized' = fin /\ bannedIn' = BansOf(account', h)
  BY <1>2, <1>3, <1>6, <1>7, <1>9, <1>11 DEF Block
<1>13. skipped' = [d \in Delegate |->
                     IF d = list[i].d THEN 0 ELSE skipped[d] + PassedBy(slot, g, d)]
  BY <1>2, <1>3 DEF Block, PlaceOf, PassedBy
<1>14. BlockAt(i, g, slot, t, h, m, fin)
  BY <1>8, <1>9, <1>10, <1>11, <1>12, <1>13 DEF BlockAt
<1> QED  BY <1>1, <1>2, <1>3, <1>5, <1>6, <1>7, <1>14

LEMMA BlockTypes ==
  ASSUME RoundsKept, NEW i, NEW g \in Nat, NEW slot, NEW t, NEW h, h = tip + 1, NEW m, NEW fin,
         BlockAt(i, g, slot, t, h, m, fin)
  PROVE  BansGrow(account', bannedIn') /\ skipped' \in [Delegate -> Nat]
<1>1. PICK acc : acc = account' /\ Updates(account, acc, i, m)
  BY DEF BlockAt
<1>2. BansGrow(acc, BansOf(acc, h))
  BY <1>1, BansRecorded DEF RoundsKept, Updates
<1>3. ASSUME NEW d \in Delegate PROVE skipped'[d] \in Nat
  <2>1. PassedBy(slot, g, d) \in Nat /\ skipped[d] \in Nat
    BY PassedIsNat DEF RoundsKept, RoundsTyped
  <2> QED  BY <2>1 DEF BlockAt
<1>4. skipped' = [d \in Delegate |-> skipped'[d]]
  BY DEF BlockAt
<1>5. skipped' \in [Delegate -> Nat]
  BY <1>3, <1>4
<1> QED  BY <1>1, <1>2, <1>5 DEF BlockAt

\* A delegate is charged with the slots that were its own.
LEMMA BlockCharges ==
  ASSUME RoundsKept, SlotsKept, Len(list) \in Nat, Len(list) > 0,
         NEW i, NEW g \in Nat, g > 0, NEW slot \in Nat, slot = time \div BlockTime + g,
         NEW t \in Nat, t = slot * BlockTime,
         NEW h, NEW m, m = Missed(t), NEW fin,
         BlockAt(i, g, slot, t, h, m, fin)
  PROVE  SlotsKept'
<1>1. m = g - 1
  BY SlotsMissed DEF RoundsKept, SlotsKept
<1>2. t % BlockTime = 0
  <2>1. PICK b \in Nat : b = BlockTime /\ b > 0
    BY RoundsAssumption
  <2>2. t = b * slot + 0
    BY <2>1
  <2>3. t \in Int /\ 0 \in Nat /\ 0 < b /\ slot \in Int
    BY <2>1
  <2>4. t % b = 0
    BY <2>1, <2>2, <2>3, DivUnique
  <2> QED  BY <2>1, <2>4
<1>3. ASSUME NEW d \in Delegate PROVE account'[d].missed = skipped'[d]
  <2>1. Charged(PlaceOf(slot), g - 1, d) = PassedBy(slot, g, d)
    BY ChargedOwn DEF PassedBy
  <2>2. account[d].missed = skipped[d]
    BY DEF SlotsKept, MissedOwnSlots
  <2>3. /\ i = PlaceOf(slot)
        /\ account'[d].missed = IF d = list[i].d THEN 0 ELSE account[d].missed + Charged(i, m, d)
        /\ skipped'[d] = IF d = list[i].d THEN 0 ELSE skipped[d] + PassedBy(slot, g, d)
    BY DEF BlockAt, Updates
  <2> QED  BY <1>1, <2>1, <2>2, <2>3
<1>4. time' = t
  BY DEF BlockAt
<1> QED  BY <1>2, <1>3, <1>4 DEF SlotsKept, MissedOwnSlots

LEMMA BlockKeeps ==
  ASSUME RoundsKept, list # <<>>,
         NEW i \in 1..BlocksPerRound, NEW gap \in Gaps, NEW offset \in Offsets,
         NEW fin \in {finalized, tip}, Block(i, gap, offset, fin)
  PROVE  RoundsKept' /\ StandBack
<1>1. PICK acc, b : acc = account' /\ b = bannedIn'
  OBVIOUS
<1>2. PICK h \in Nat, t \in Nat :
        /\ h = tip + 1 /\ tip' = h /\ time' = t /\ finalized' = fin
        /\ BansGrow(acc, b) /\ skipped' \in [Delegate -> Nat]
  <2>1. PICK g \in Nat, slot \in Nat, t \in Nat, h \in Nat, m \in Nat :
          h = tip + 1 /\ BlockAt(i, g, slot, t, h, m, fin)
    BY BlockMoves
  <2>2. BansGrow(acc, b) /\ skipped' \in [Delegate -> Nat]
    BY <1>1, <2>1, BlockTypes
  <2> QED  BY <2>1, <2>2 DEF BlockAt
<1>3. h = tip + 1 /\ tip' = h
  BY <1>2
<1>4. RoundsTyped'
  <2>1. finalized' \in 0..h
    <3>1. tip \in Nat /\ finalized \in 0..tip
      BY DEF RoundsKept, RoundsTyped
    <3>2. fin \in 0..h
      BY <1>3, <3>1
    <3> QED  BY <1>2, <3>2
  <2> QED  BY <1>1, <1>2, <2>1 DEF RoundsTyped, BansGrow
<1>5. PICK R \in Nat :
        R = Round(tip + 1) /\ Round(h) = R /\ Round(h + 1) \in {R, R + 1} /\ Round(h + 1) \in Nat
  BY <1>3, NextTip DEF RoundsKept
<1>6. PICK kept : kept = KeptWeights(fin) /\ KeptOf(kept)
  BY WeightsStay DEF RoundsKept, WeightsKept
<1>7. CASE ~IsLastOfRound(h)
  <2>1. Round(h + 1) = R
    BY <1>5, <1>7 DEF IsLastOfRound
  <2>2. weights' = kept /\ list' = list
    BY <1>3, <1>6, <1>7 DEF Block
  <2>3. ListKept' /\ WeightsKept' /\ BansKept' /\ WeightsAhead' /\ BannedLeaves'
    <3>1. tip' \in Nat /\ Round(tip' + 1) = Round(tip + 1)
      BY <1>3, <1>5, <2>1
    <3> QED  BY <1>1, <1>2, <1>6, <2>2, <3>1, SameRound
  <2>4. StandBack
    BY <1>6, <2>2 DEF StandBack, KeptOf
  <2> QED  BY <1>4, <2>3, <2>4 DEF RoundsKept
<1>8. CASE IsLastOfRound(h)
  <2>1. Round(h + 1) = R + 1
    BY <1>5, <1>8 DEF IsLastOfRound
  <2>2. PICK seeds \in SeedPairs, hash \in Shuffles :
          /\ weights' = WithSnapshot(KeptWeights(fin), Round(h + 1) + RoundOffset,
                                     Snapshot(account', h + 1))
          /\ list' = Drawn(weights'[Round(h) + 1], seeds, hash)
    BY <1>3, <1>8 DEF Block
  <2>3. PICK w, l : w = weights' /\ l = list'
    OBVIOUS
  <2>4. PICK next \in Nat : next = h + 1
    BY <1>3
  <2>5. w = WithSnapshot(kept, R + 1 + RoundOffset, Snapshot(acc, next))
    BY <1>1, <1>6, <2>1, <2>2, <2>3, <2>4
  <2>6. l = Drawn(w[R + 1], seeds, hash)
    BY <1>5, <2>2, <2>3
  <2>7. /\ IsList(l) /\ FewActive(l)
        /\ \A r \in DOMAIN w : r \in Nat /\ r <= R + 1 + RoundOffset /\ IsSnapshot(w[r])
        /\ \A k \in 1..RoundOffset : R + 1 + k \in DOMAIN w
        /\ \A r \in DOMAIN w, d \in Delegate :
             b[d] # 0 /\ r > b[d] + RoundOffset => d \notin Listing(w[r])
        /\ \A d \in Delegate :
             b[d] # 0 /\ R + 1 > b[d] + RoundOffset => d \notin Listing(l)
    BY <1>2, <1>5, <1>6, <2>5, <2>6, NextList, SMTT(30)
  <2>8. Round(tip' + 1) = R + 1
    BY <1>3, <2>1
  <2>9. ListKept' /\ WeightsKept' /\ WeightsAhead'
    BY <2>3, <2>7, <2>8 DEF ListKept, WeightsKept, WeightsAhead
  <2>10. BansKept'
    <3>1. \A d \in Delegate : (acc[d].banned <=> b[d] # 0) /\ b[d] <= R + 1
      <4> SUFFICES ASSUME NEW d \in Delegate PROVE (acc[d].banned <=> b[d] # 0) /\ b[d] <= R + 1
        OBVIOUS
      <4>1. b[d] \in {bannedIn[d], 0, R} /\ bannedIn[d] \in Nat /\ bannedIn[d] <= R
        BY <1>2, <1>5 DEF BansGrow, RoundsKept, RoundsTyped, BansKept
      <4>2. acc[d].banned <=> b[d] # 0
        BY <1>2 DEF BansGrow
      <4> QED  BY <4>1, <4>2
    <3> QED  BY <1>1, <2>3, <2>7, <2>8, <3>1 DEF BansKept
  <2>11. BannedLeaves'
    <3> SUFFICES ASSUME NEW d \in Delegate, b[d] > 0, R + 1 > b[d] + RoundOffset
                 PROVE  \A j \in DOMAIN l : l[j].d # d
      BY <1>1, <2>3, <2>8 DEF BannedLeaves
    <3>1. b[d] # 0
      OBVIOUS
    <3>2. d \notin Listing(l)
      BY <2>7, <3>1
    <3>3. DOMAIN l = 1..Len(l)
      BY <2>7 DEF IsList
    <3> QED  BY <3>2, <3>3 DEF Listing
  <2>12. StandBack
    <3> SUFFICES ASSUME NEW r \in DOMAIN w \ DOMAIN weights, NEW d \in Delegate,
                        IsCurrentlyPunished(acc, d, next),
                        Cardinality({e \in Eligible(acc) \ {d} : Weight(acc, e, next) > 0}) >= Active,
                        NEW j \in 1..Min({Active, Len(w[r])})
                 PROVE  w[r][j].d # d
      BY <1>1, <1>3, <2>3, <2>4 DEF StandBack
    <3>1. r \notin DOMAIN kept
      BY <1>6 DEF KeptOf
    <3>2. w[r] = Snapshot(acc, next)
      BY <2>5, <3>1 DEF WithSnapshot
    <3>3. acc \in [Delegate -> DelegateAccount]
      BY <1>2 DEF BansGrow
    <3> QED  BY <3>2, <3>3, PunishedLast
  <2> QED  BY <1>4, <2>9, <2>10, <2>11, <2>12 DEF RoundsKept
<1> QED  BY <1>7, <1>8

\* A transaction changes accounts only.
LEMMA ChangeKeeps ==
  ASSUME RoundsKept, NEW acc, NEW b, BansGrow(acc, b), account' = acc, bannedIn' = b,
         \A d \in Delegate : acc[d].missed = account[d].missed,
         UNCHANGED <<weights, list, tip, time, finalized, skipped>>
  PROVE  RoundsKept' /\ StandBack /\ (SlotsKept => SlotsKept')
<1>1. KeptOf(weights')
  BY DEF KeptOf
<1>2. tip' \in Nat /\ Round(tip' + 1) = Round(tip + 1)
  BY DEF RoundsKept, RoundsTyped
<1>3. ListKept' /\ WeightsKept' /\ BansKept' /\ WeightsAhead' /\ BannedLeaves'
  BY <1>1, <1>2, SameRound
<1>4. RoundsTyped'
  BY DEF RoundsKept, RoundsTyped, BansGrow
<1>5. SlotsKept => SlotsKept'
  BY DEF SlotsKept, MissedOwnSlots
<1>6. StandBack
  BY DEF StandBack
<1> QED  BY <1>3, <1>4, <1>5, <1>6 DEF RoundsKept

LEMMA ChangeVotesKeeps ==
  ASSUME RoundsKept, NEW d \in Delegate, NEW v \in Votes, ChangeVotes(d, v)
  PROVE  RoundsKept' /\ StandBack /\ (SlotsKept => SlotsKept')
<1>1. PICK old \in [Delegate -> DelegateAccount] : old = account
  BY DEF RoundsKept, RoundsTyped
<1>2. PICK x \in Nat, y \in Nat : x = v.self /\ y = v.received
  <2>1. v \in [self : Nat, received : Nat]
    BY RoundsAssumption
  <2> QED  BY <2>1
<1>3. PICK acc : acc = account'
  OBVIOUS
<1>4. acc = [old EXCEPT ![d].self = x, ![d].received = y]
  BY <1>1, <1>2, <1>3 DEF ChangeVotes
<1>5. ASSUME NEW e \in Delegate
      PROVE  /\ acc[e] \in DelegateAccount
             /\ acc[e].banned = old[e].banned /\ acc[e].missed = old[e].missed
  <2>1. CASE e = d
    <3>1. PICK a \in DelegateAccount : a = old[d]
      OBVIOUS
    <3>2. acc[e] = [a EXCEPT !.self = x, !.received = y]
      BY <1>4, <2>1, <3>1
    <3> QED  BY <2>1, <3>1, <3>2 DEF DelegateAccount
  <2>2. CASE e # d
    <3>1. acc[e] = old[e]
      BY <1>4, <2>2
    <3> QED  BY <3>1
  <2> QED  BY <2>1, <2>2
<1>6. acc \in [Delegate -> DelegateAccount]
  <2>1. acc = [e \in Delegate |-> acc[e]]
    BY <1>4
  <2> QED  BY <1>5, <2>1
<1>7. BansGrow(acc, bannedIn)
  BY <1>1, <1>5, <1>6 DEF BansGrow, RoundsKept, RoundsTyped, BansKept
<1>8. bannedIn' = bannedIn /\ UNCHANGED <<weights, list, tip, time, finalized, skipped>>
  BY DEF ChangeVotes
<1> QED  BY <1>1, <1>3, <1>5, <1>7, <1>8, ChangeKeeps

LEMMA ReportDelegateKeeps ==
  ASSUME RoundsKept, NEW d \in Delegate, ReportDelegate(d)
  PROVE  RoundsKept' /\ StandBack /\ (SlotsKept => SlotsKept')
<1>1. PICK old \in [Delegate -> DelegateAccount] : old = account
  BY DEF RoundsKept, RoundsTyped
<1>2. PICK h \in Nat : h = tip + 1
  BY NextTip DEF RoundsKept
<1>3. PICK acc : acc = account'
  OBVIOUS
<1>4. PICK pom \in Seq(Nat), bans \in BOOLEAN : pom = Append(old[d].pom, h) /\ bans = (old[d].pom # <<>>)
  <2>1. old[d].pom \in Seq(Nat)
    BY DEF DelegateAccount
  <2>2. Append(old[d].pom, h) \in Seq(Nat)
    BY <2>1
  <2> QED  BY <2>2
<1>5. acc = [old EXCEPT ![d].pom = pom, ![d].banned = bans]
  BY <1>1, <1>2, <1>3, <1>4 DEF ReportDelegate
<1>6. ~old[d].banned
  BY <1>1 DEF ReportDelegate
<1>7. ASSUME NEW e \in Delegate
      PROVE  /\ acc[e] \in DelegateAccount
             /\ old[e].banned => acc[e].banned
             /\ acc[e].missed = old[e].missed
  <2>1. CASE e = d
    <3>1. PICK a \in DelegateAccount : a = old[d]
      OBVIOUS
    <3>2. acc[e] = [a EXCEPT !.pom = pom, !.banned = bans]
      BY <1>5, <2>1, <3>1
    <3> QED  BY <1>6, <2>1, <3>1, <3>2 DEF DelegateAccount
  <2>2. CASE e # d
    <3>1. acc[e] = old[e]
      BY <1>5, <2>2
    <3> QED  BY <3>1
  <2> QED  BY <2>1, <2>2
<1>8. acc \in [Delegate -> DelegateAccount]
  <2>1. acc = [e \in Delegate |-> acc[e]]
    BY <1>5
  <2> QED  BY <1>7, <2>1
<1>9. BansGrow(acc, BansOf(acc, h))
  BY <1>1, <1>2, <1>7, <1>8, BansRecorded DEF RoundsKept
<1>10. bannedIn' = BansOf(acc, h) /\ UNCHANGED <<weights, list, tip, time, finalized, skipped>>
  BY <1>2, <1>3 DEF ReportDelegate
<1> QED  BY <1>1, <1>3, <1>7, <1>9, <1>10, ChangeKeeps

LEMMA RoundsStart == ASSUME RoundsInit PROVE RoundsKept /\ SlotsKept
<1>1. PICK acc : acc = account
  OBVIOUS
<1>2. acc \in [Delegate -> DelegateAccount] /\ \A d \in Delegate : ~acc[d].banned /\ acc[d].missed = 0
  <2>1. \A d \in Delegate : InitVotes[d].self \in Nat /\ InitVotes[d].received \in Nat
    BY RoundsAssumption
  <2>2. acc = [d \in Delegate |->
                 [self |-> InitVotes[d].self, received |-> InitVotes[d].received,
                  pom |-> <<>>, banned |-> FALSE, missed |-> 0, lastForged |-> 0]]
    BY <1>1 DEF RoundsInit
  <2>3. ASSUME NEW d \in Delegate
        PROVE  acc[d] \in DelegateAccount /\ ~acc[d].banned /\ acc[d].missed = 0
    <3>1. acc[d] = [self |-> InitVotes[d].self, received |-> InitVotes[d].received,
                    pom |-> <<>>, banned |-> FALSE, missed |-> 0, lastForged |-> 0]
      BY <2>2
    <3>2. <<>> \in Seq(Nat)
      OBVIOUS
    <3> QED  BY <2>1, <3>1, <3>2 DEF DelegateAccount
  <2> QED  BY <2>2, <2>3
<1>3. /\ tip = 0 /\ time = 0 /\ finalized = 0
      /\ skipped = [d \in Delegate |-> 0] /\ bannedIn = [d \in Delegate |-> 0]
  BY DEF RoundsInit
<1>4. RoundsTyped
  BY <1>1, <1>2, <1>3 DEF RoundsTyped
<1>5. ListKept
  <2>1. PICK n \in Nat : n = Len(InitDelegates) /\ InitDelegates \in Seq(Delegate) /\ n <= BlocksPerRound
    BY RoundsAssumption
  <2>2. list = [i \in 1..n |-> [d |-> InitDelegates[i], active |-> TRUE]]
    BY <2>1 DEF RoundsInit
  <2>3. \A i \in 1..n : [d |-> InitDelegates[i], active |-> TRUE] \in Place
    BY <2>1 DEF Place
  <2>4. list \in Seq(Place) /\ Len(list) = n
    BY <2>2, <2>3
  <2>5. \A i, j \in 1..n : i < j => list[i].d # list[j].d
    <3>1. \A i, j \in 1..n : InitDelegates[i] = InitDelegates[j] => i = j
      BY <2>1, RoundsAssumption
    <3> QED  BY <2>2, <3>1
  <2>6. ~(tip >= BlocksPerRound)
    BY <1>3, PerRound
  <2> QED  BY <2>1, <2>4, <2>5, <2>6 DEF ListKept, IsList
<1>6. PICK o \in Nat : o = RoundOffset
  BY RoundsAssumption
<1>7. Round(tip + 1) = 1
  BY <1>3, FirstRound
<1>8. weights = [r \in 1..1 + o |-> Snapshot(acc, 0)]
  BY <1>1, <1>6 DEF RoundsInit
<1>9. WeightsKept
  BY <1>2, <1>6, <1>7, <1>8, SnapshotIs DEF WeightsKept
<1>10. BansKept /\ BannedLeaves
  BY <1>1, <1>2, <1>3, <1>7 DEF BansKept, BannedLeaves
<1>11. WeightsAhead
  BY <1>6, <1>7, <1>8 DEF WeightsAhead
<1>12. SlotsKept
  <2>1. 0 % BlockTime = 0
    <3>1. PICK t \in Nat : t = BlockTime /\ t > 0
      BY RoundsAssumption
    <3> QED  BY <3>1
  <2> QED  BY <1>1, <1>2, <1>3, <2>1 DEF SlotsKept, MissedOwnSlots
<1> QED  BY <1>4, <1>5, <1>9, <1>10, <1>11, <1>12 DEF RoundsKept

LEMMA RoundsStep ==
  ASSUME RoundsKept, [RoundsNext]_roundsVars
  PROVE  RoundsKept' /\ (StandBack \/ UNCHANGED roundsVars)
<1>1. ASSUME NEW i \in 1..BlocksPerRound, NEW gap \in Gaps, NEW offset \in Offsets,
             NEW fin \in {finalized, tip}, list # <<>>, Block(i, gap, offset, fin)
      PROVE  RoundsKept' /\ StandBack
  BY <1>1, BlockKeeps
<1>2. ASSUME NEW d \in Delegate, NEW v \in Votes, ChangeVotes(d, v)
      PROVE  RoundsKept' /\ StandBack
  BY <1>2, ChangeVotesKeeps
<1>3. ASSUME NEW d \in Delegate, ReportDelegate(d)
      PROVE  RoundsKept' /\ StandBack
  BY <1>3, ReportDelegateKeeps
<1>4. ASSUME UNCHANGED roundsVars PROVE RoundsKept'
  BY <1>4 DEF roundsVars, RoundsKept, RoundsTyped, ListKept, WeightsKept, BansKept,
              WeightsAhead, BannedLeaves
<1> QED  BY <1>1, <1>2, <1>3, <1>4 DEF RoundsNext

LEMMA SlotsStep ==
  ASSUME RoundsKept, SlotsKept, Offsets \subseteq {0}, [RoundsNext]_roundsVars
  PROVE  SlotsKept'
<1>1. ASSUME NEW i \in 1..BlocksPerRound, NEW gap \in Gaps, NEW offset \in Offsets,
             NEW fin \in {finalized, tip}, list # <<>>, Block(i, gap, offset, fin)
      PROVE  SlotsKept'
  <2>1. PICK g \in Nat, slot \in Nat, t \in Nat, h \in Nat, m \in Nat :
          /\ g > 0 /\ slot = time \div BlockTime + g /\ t = slot * BlockTime + offset
          /\ h = tip + 1 /\ m = Missed(t) /\ Len(list) \in Nat /\ Len(list) > 0
          /\ BlockAt(i, g, slot, t, h, m, fin)
    BY <1>1, BlockMoves
  <2>2. t = slot * BlockTime
    <3>1. offset = 0
      BY <1>1
    <3>2. PICK b \in Nat : b = BlockTime
      BY RoundsAssumption
    <3>3. slot * b + 0 = slot * b
      BY <3>2
    <3> QED  BY <2>1, <3>1, <3>2, <3>3
  <2> QED  BY <2>1, <2>2, BlockCharges
<1>2. ASSUME NEW d \in Delegate, NEW v \in Votes, ChangeVotes(d, v) PROVE SlotsKept'
  BY <1>2, ChangeVotesKeeps
<1>3. ASSUME NEW d \in Delegate, ReportDelegate(d) PROVE SlotsKept'
  BY <1>3, ReportDelegateKeeps
<1>4. ASSUME UNCHANGED roundsVars PROVE SlotsKept'
  BY <1>4 DEF roundsVars, SlotsKept, MissedOwnSlots
<1> QED  BY <1>1, <1>2, <1>3, <1>4 DEF RoundsNext

LEMMA RoundsImplied ==
  ASSUME RoundsKept
  PROVE  RoundsTypeOK /\ DrawingWorks
<1>1. IsList(list) /\ (tip >= BlocksPerRound => FewActive(list)) /\ DOMAIN list = 1..Len(list)
  BY DEF RoundsKept, ListKept, IsList
<1>2. RoundsTypeOK
  <2>1. \A i, j \in DOMAIN list : i # j => list[i].d # list[j].d
    <3> SUFFICES ASSUME NEW i \in DOMAIN list, NEW j \in DOMAIN list, i # j
                 PROVE  list[i].d # list[j].d
      OBVIOUS
    <3>1. i \in 1..Len(list) /\ j \in 1..Len(list) /\ (i < j \/ j < i)
      BY <1>1 DEF IsList
    <3> QED  BY <1>1, <3>1 DEF IsList
  <2>2. tip >= BlocksPerRound => Cardinality({i \in DOMAIN list : list[i].active}) <= Active
    BY <1>1 DEF FewActive
  <2> QED  BY <1>1, <2>1, <2>2 DEF RoundsTypeOK, IsList
<1>3. ASSUME NEW r \in DOMAIN weights
      PROVE  LET standby == SubSeq(weights[r], Active + 1, Len(weights[r]))
             IN  Len(standby) > Standby => \A i \in DOMAIN standby : standby[i].weight > 0
  <2>1. PICK w \in Seq(Entry) : w = weights[r] /\ IsSnapshot(w)
    BY DEF RoundsKept, WeightsKept, IsSnapshot
  <2>2. PICK n \in Nat, a \in Nat, s \in Nat : n = Len(w) /\ a = Active /\ s = Standby
    BY <2>1, RoundsAssumption
  <2>3. PICK c : c = SubSeq(w, a + 1, n)
    OBVIOUS
  <2>4. CASE a <= n
    <3>1. a \in 0..n
      BY <2>4
    <3>2. /\ SubSeq(w, a + 1, n) \in Seq(Entry) /\ Len(SubSeq(w, a + 1, n)) = n - a
          /\ \A i \in 1..(n - a) : SubSeq(w, a + 1, n)[i] = w[a + i]
      BY <2>2, <3>1, Suffix
    <3>3. /\ c \in Seq(Entry) /\ Len(c) = n - a
          /\ \A i \in 1..(n - a) : c[i] = w[a + i]
      BY <2>3, <3>2
    <3>4. n - a > s => \A i \in 1..(n - a) : c[i].weight > 0
      <4> SUFFICES ASSUME n - a > s, NEW i \in 1..(n - a) PROVE c[i].weight > 0
        OBVIOUS
      <4>1. a + i \in (a + 1)..n /\ n > a + s
        BY <2>4
      <4> QED  BY <2>1, <2>2, <3>3, <4>1 DEF IsSnapshot
    <3>5. DOMAIN c = 1..(n - a)
      BY <3>3
    <3> QED  BY <2>1, <2>2, <2>3, <3>3, <3>4, <3>5
  <2>5. CASE ~(a <= n)
    <3>1. c = <<>>
      BY <2>1, <2>3, <2>5
    <3>2. ~(Len(c) > s)
      BY <3>1
    <3> QED  BY <2>1, <2>2, <2>3, <3>2
  <2> QED  BY <2>4, <2>5
<1> QED  BY <1>2, <1>3 DEF DrawingWorks

\* What a round needs, wherever in its slot a block is stamped.
ListsHold ==
  /\ [](RoundsTypeOK /\ DrawingWorks /\ WeightsAhead /\ BannedLeaves)
  /\ PunishedStandBack

\* For any delegates, votes, seeds and gaps, and wherever in its slot a block is
\* stamped: a round finds its weights and draws nobody twice, the banned leave and
\* the punished stand back.
THEOREM RoundsAreDrawn == RoundsSpec => ListsHold
<1>1. RoundsInit => RoundsKept
  BY RoundsStart
<1>2. RoundsKept /\ [RoundsNext]_roundsVars => RoundsKept'
  BY RoundsStep
<1>3. RoundsKept /\ [RoundsNext]_roundsVars => [StandBack]_roundsVars
  BY RoundsStep
<1>4. RoundsKept => RoundsTypeOK /\ DrawingWorks /\ WeightsAhead /\ BannedLeaves
  BY RoundsImplied DEF RoundsKept
<1>5. RoundsSpec => [](RoundsTypeOK /\ DrawingWorks /\ WeightsAhead /\ BannedLeaves)
  BY <1>1, <1>2, <1>4, PTL DEF RoundsSpec
<1>6. RoundsSpec => [][StandBack]_roundsVars
  BY <1>1, <1>2, <1>3, PTL DEF RoundsSpec
<1>7. [][StandBack]_roundsVars => PunishedStandBack
  BY PTL DEF StandBack, PunishedStandBack
<1> QED  BY <1>5, <1>6, <1>7 DEF ListsHold

\* Blocks stamped at the start of their slots, as a forger does: then every
\* delegate is also charged with its own slots and no other. (The slots between two
\* blocks are counted from their timestamps and rounded up: stamped elsewhere in
\* its slot, a block may charge one slot too many.)
THEOREM RoundsStayRight ==
  ASSUME Offsets \subseteq {0}
  PROVE  RoundsSpec => RoundsHold
<1>1. RoundsInit => RoundsKept /\ SlotsKept
  BY RoundsStart
<1>2. RoundsKept /\ SlotsKept /\ [RoundsNext]_roundsVars => RoundsKept' /\ SlotsKept'
  BY RoundsStep, SlotsStep
<1>3. SlotsKept => MissedOwnSlots
  BY DEF SlotsKept
<1>4. RoundsSpec => []MissedOwnSlots
  BY <1>1, <1>2, <1>3, PTL DEF RoundsSpec
<1>5. RoundsSpec => [](RoundsTypeOK /\ DrawingWorks /\ WeightsAhead /\ BannedLeaves) /\ PunishedStandBack
  BY RoundsAreDrawn DEF ListsHold
<1>6. RoundsSpec
        => [](RoundsTypeOK /\ DrawingWorks /\ WeightsAhead /\ BannedLeaves /\ MissedOwnSlots)
  BY <1>4, <1>5, PTL
<1> QED  BY <1>5, <1>6 DEF RoundsHold
=============================================================================
