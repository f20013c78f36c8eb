------------------------------ MODULE MCStores ------------------------------
(***************************************************************************)
(* TLC instances of the models of what a node stores: the state of the     *)
(* chain, and the record of its forger. A behaviour runs one of them,      *)
(* named by part, and leaves the variables of the other alone:             *)
(*   state   StateStore: one account and one entry of the chain or         *)
(*           consensus state, with the finalized height beside them; the   *)
(*           keys do not influence each other, one of a kind is enough;    *)
(*   forger  Forger: one delegate, chains of up to four blocks above the   *)
(*           genesis block, and three blocks forged without a crash, or    *)
(*           two with a crash or with a status update.                     *)
(***************************************************************************)
EXTENDS StateStore, Forger

VARIABLE part

Budget(f, r, u) == [forged |-> f, restarts |-> r, updates |-> u]
MCBudgets == {Budget(3, 0, 0), Budget(2, 1, 0), Budget(2, 0, 1)}
MCFirstPrevoted == <<0, 0>>
MCForgers == <<"fa">>

-----------------------------------------------------------------------------
OnState == part = "state" /\ UNCHANGED <<part, forgerVars>>
OnForger == part = "forger" /\ UNCHANGED <<part, vars>>

MCInit ==
  /\ part \in {"state", "forger"}
  /\ Init /\ (part # "state" => db = [k \in Key |-> None])
  /\ ForgerInit /\ (part # "forger" => enabled = {} /\ left = Budget(2, 1, 0))

MCNext ==
  \/ OnState /\ Begin
  \/ \E k \in Key : OnState /\ Get(k)
  \/ \E a \in Account : OnState /\ GetOrDefault(a)
  \/ \E a \in Account : OnState /\ Del(a)
  \/ \E k \in Key, v \in Value : OnState /\ Set(k, v)
  \/ OnState /\ CreateSnapshot
  \/ OnState /\ RestoreSnapshot
  \/ OnState /\ SaveBlock
  \/ OnState /\ Discard
  \/ OnState /\ DeleteBlock
  \/ \E d \in Delegate : OnForger /\ ForgeBegin(d)
  \/ \E d \in Delegate : OnForger /\ Disable(d)
  \/ OnForger /\ Create
  \/ OnForger /\ SaveRecord
  \/ OnForger /\ SaveOnion
  \/ OnForger /\ Broadcast
  \/ OnForger /\ DiscardBlock
  \/ OnForger /\ Adopt
  \/ OnForger /\ ApplyFails
  \/ OnForger /\ EnableEnd
  \/ OnForger /\ ReceiveBlock
  \/ OnForger /\ Finalize
  \/ OnForger /\ SyncBegin
  \/ OnForger /\ SyncDone
  \/ OnForger /\ SyncFails
  \/ \E d \in Delegate, overwrite \in BOOLEAN :
       OnForger /\ EnableBegin(d, overwrite)
  \/ \E force, renew \in BOOLEAN : OnForger /\ Restart(force, renew)

MCSpec == MCInit /\ [][MCNext]_<<part, vars, forgerVars>>

=============================================================================
