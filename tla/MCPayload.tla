------------------------------ MODULE MCPayload -----------------------------
(***************************************************************************)
(* TLC instances of the models of what a block carries: the transactions   *)
(* it takes from the pool, and the trees whose roots stand for a list of   *)
(* transactions and for a map. A behaviour runs one of them, named by      *)
(* part, and leaves the variables of the others alone:                     *)
(*   pool    TransactionPool with the transactions of MCTransactionPool;   *)
(*   merkle  MerkleTree: lists of up to six leaves and one append;         *)
(*   sparse  SparseMerkleTree and SparseMerkleQuery: every map over keys   *)
(*           of three bits, filled in their order, then two calls; the     *)
(*           proofs of the filled tree.                                    *)
(***************************************************************************)
EXTENDS MCTransactionPool, MerkleTree, SparseMerkleQuery

VARIABLE part

-----------------------------------------------------------------------------
OnPool == part = "pool" /\ UNCHANGED <<part, treeVars, sparseVars>>
OnMerkle == part = "merkle" /\ UNCHANGED <<part, vars, sparseVars>>
OnSparse == part = "sparse" /\ UNCHANGED <<part, vars, treeVars>>

MCInit ==
  /\ part \in {"pool", "merkle", "sparse"}
  /\ Init
  /\ IF part = "merkle" THEN TreeInit
     ELSE list = <<>> /\ tree = <<>> /\ appends = 0
  /\ SparseInit

\* A tree that has made its appends or calls may stop.
Done ==
  /\ \/ part = "merkle" /\ appends = MaxAppends
     \/ part = "sparse" /\ calls = MaxCalls
  /\ UNCHANGED <<part, vars, treeVars, sparseVars>>

MCNext ==
  \/ \E c \in Caller, tx \in Tx : OnPool /\ AddBegin(c, tx)
  \/ \E c \in Caller : OnPool /\ AddEnd(c)
  \/ \E s \in Sender : OnPool /\ ReorganizeBegin(s)
  \/ OnPool /\ ReorganizeEnd
  \/ \E old \in pool.txs : OnPool /\ Expire(old)
  \/ \E tx \in Tx : OnPool /\ NewBlock(tx)
  \/ OnPool /\ DeleteBlock
  \/ OnPool /\ OnNewBlock
  \/ OnPool /\ OnDeleteBlock
  \/ OnMerkle /\ Grow
  \/ \E k \in TreeKey, v \in LeafValue : OnSparse /\ Update(k, v)
  \/ \E k \in TreeKey : OnSparse /\ Remove(k)
  \/ Done

MCSpec == MCInit /\ [][MCNext]_<<part, vars, treeVars, sparseVars>>

-----------------------------------------------------------------------------
\* The regular tree has the root and the proofs its list has (merkle_tree.ts
\* append, generateProof); every proof of the sparse tree verifies, and none is
\* taken for a key it does not speak of (sparse_merkle_tree.ts
\* generateMultiProof, utils.ts verify).
TreesProve ==
  /\ part = "merkle" => MerkleSound
  /\ part = "sparse" => KeyProofsVerify /\ ProofsFit
=============================================================================
