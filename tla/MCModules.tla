----------------------------- MODULE MCModules ------------------------------
(***************************************************************************)
(* TLC instances of the models of the framework's modules. A behaviour     *)
(* runs one of them, named by part:                                        *)
(*   ledger      Ledger: a delegate, a voter and an empty account; two     *)
(*               pairs of contradicting headers; locking periods of a few  *)
(*               blocks that keep the order of the real ones;              *)
(*   delegates   Delegates: rounds of two active delegates and a standby   *)
(*               one, drawn from four;                                     *)
(*   signatures  Signatures: a plain account and one that the genesis      *)
(*               block registers with an optional key only.                *)
(***************************************************************************)
EXTENDS Ledger, Delegates, Signatures

VARIABLE part

-----------------------------------------------------------------------------
MCAccount == {"d", "e", "v"}
MCDelegates == {"d"}
MCGenesis == [a \in MCAccount |-> CASE a = "d" -> 2 [] a = "v" -> 4 [] OTHER -> 0]
MCHeaders == {[by |-> "d", h1 |-> 1, h2 |-> 1], [by |-> "d", h1 |-> 5, h2 |-> 5]}

MCDelegate == 1..4
MCVotes == {[self |-> 2, received |-> 4]}
MCInitVotes ==
  [d \in MCDelegate |-> IF d = 1 THEN [self |-> 0, received |-> 3]
                        ELSE [self |-> 1, received |-> d]]
MCInitDelegates == <<2, 1, 3>>
MCSeedPairs == {<<0, 1>>, <<3, 0>>}
MCShuffles == {<<2, 3, 1>>}

MCSender == {"a", "b"}
MCKeyOf == [a \in MCSender |-> IF a = "a" THEN 1 ELSE 2]
MCGenesisKeys ==
  [a \in MCSender |-> IF a = "a" THEN NoKeys ELSE [NoKeys EXCEPT !.optional = <<3>>]]

-----------------------------------------------------------------------------
OnLedger == part = "ledger" /\ UNCHANGED <<part, roundsVars, keysVars>>
OnRounds == part = "delegates" /\ UNCHANGED <<part, vars, keysVars>>
OnKeys == part = "signatures" /\ UNCHANGED <<part, vars, roundsVars>>

MCInit ==
  /\ part \in {"ledger", "delegates", "signatures"}
  /\ Init
  /\ RoundsInit
  /\ KeysInit

MCNext ==
  \/ \E s \in Account, fee \in Fees, r \in Account, n \in Amount :
       OnLedger /\ Transfer(s, fee, r, n)
  \/ \E s \in Account, fee \in Fees : OnLedger /\ Register(s, fee)
  \/ \E s \in Account, fee \in Fees, asset \in VoteAssets : OnLedger /\ Vote(s, fee, asset)
  \/ \E s \in Account, fee \in Fees : OnLedger /\ Unlock(s, fee)
  \/ \E s \in Account, fee \in Fees, pair \in Headers : OnLedger /\ Report(s, fee, pair)
  \/ \E g \in Account, reward \in {0, 1} : OnLedger /\ EndBlock(g, reward)
  \/ \E i \in 1..BlocksPerRound, gap \in Gaps, offset \in Offsets, fin \in {finalized, tip} :
       OnRounds /\ list # <<>> /\ Block(i, gap, offset, fin)
  \/ \E d \in Delegate, v \in Votes : OnRounds /\ ChangeVotes(d, v)
  \/ \E d \in Delegate : OnRounds /\ ReportDelegate(d)
  \/ \E a \in Sender, n \in 0..3, signatures \in Vectors :
       OnKeys /\ Send(a, n, signatures)
  \/ \E a \in Sender, n \in 0..3, group \in Groups :
       OnKeys /\ RegisterKeys(a, n, group)

MCSpec == MCInit /\ [][MCNext]_<<part, vars, roundsVars, keysVars>>

=============================================================================
