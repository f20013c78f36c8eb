-------------------------- MODULE MCTransactionPool -------------------------
(***************************************************************************)
(* TLC instance of TransactionPool: a sender with three nonces, one more   *)
(* than its list holds, and a replacement of the first, and two senders    *)
(* who fill the pool. These two have the same transaction but for the      *)
(* sender, so they may be exchanged.                                       *)
(***************************************************************************)
EXTENDS TransactionPool, TLC

CONSTANTS alice, bob, carol

MCTx(id, sender, nonce, fee, priority) ==
  [id |-> id, sender |-> sender, nonce |-> nonce, fee |-> fee, priority |-> priority]

MCTxs == {
  MCTx(1, alice, 0, 10, 1),
  MCTx(2, alice, 0, 30, 2),
  MCTx(3, alice, 1, 20, 2),
  MCTx(4, alice, 2, 10, 1),
  MCTx(5, bob, 0, 30, 3),
  MCTx(5, carol, 0, 30, 3)}

Symmetry == Permutations(Caller) \cup Permutations({bob, carol})
=============================================================================
