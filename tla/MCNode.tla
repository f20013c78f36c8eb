------------------------------- MODULE MCNode -------------------------------
(***************************************************************************)
(* TLC instances of the models of what a node does with blocks and with    *)
(* transactions. A behaviour runs one of them, named by part, and leaves   *)
(* the variables of the others alone:                                      *)
(*   processor  Processor: two branches that split above height 1, with    *)
(*              competing blocks of one height for the tie break, votes    *)
(*              that finalize height 1 and 2, slots of one second;         *)
(*   cache      BlockCache: three to five headers of chains twice as long, *)
(*              with two blocks for every height;                          *)
(*   relay      Relay: a peer that announces transactions and answers with *)
(*              any of them or with a malformed one first, a client that   *)
(*              posts, and a queue of which each release takes one.        *)
(***************************************************************************)
EXTENDS Processor, BlockCache, Relay

VARIABLE part

B(id, height, prev, mhp, gen, slot, precommitted) ==
  [id |-> id, height |-> height, prev |-> prev, mhp |-> mhp, gen |-> gen,
   timestamp |-> slot, precommitted |-> precommitted]

MCGenesisBlock == B("g", 0, "none", 0, "none", 0, 0)

MCBlock ==
  { B("a1", 1, "g", 0, "va", 1, 0),  B("b1", 1, "g", 0, "vb", 2, 0),
    B("a2", 2, "a1", 0, "vb", 2, 0), B("b2", 2, "a1", 0, "vc", 3, 1),
    B("a3", 3, "a2", 1, "vc", 3, 1), B("c3", 3, "b2", 1, "va", 4, 2) }

MCAnswers == {<<>>, <<"b">>, <<"a", "b">>, <<"bad", "a">>}

ASSUME BlockCacheAssumption

-----------------------------------------------------------------------------
OnProcessor == part = "processor" /\ UNCHANGED <<part, cacheVars, relayVars>>
OnCache == part = "cache" /\ UNCHANGED <<part, vars, relayVars>>
OnRelay == part = "relay" /\ UNCHANGED <<part, vars, cacheVars>>

MCInit ==
  /\ part \in {"processor", "cache", "relay"}
  /\ Init
  /\ CacheInit
  /\ RelayInit

MCNext ==
  \/ \E block \in Block, now \in Clock, stamp \in Stamps :
       OnProcessor /\ ProcessValidBlock(block, now, stamp)
  \/ \E block \in Block, now \in Clock, stamp \in Stamps :
       OnProcessor /\ ProcessTieBreak(block, now, stamp)
  \/ \E block \in Block, rm \in BOOLEAN : OnProcessor /\ ProcessValidated(block, rm)
  \/ \E save \in BOOLEAN : OnProcessor /\ DeleteLastBlock(save)
  \/ OnProcessor /\ ClearTempBlocks
  \/ OnProcessor /\ VerifyFails
  \/ OnProcessor /\ VerifyAndVote
  \/ OnProcessor /\ ExecuteFails
  \/ OnProcessor /\ WriteBlock
  \/ OnProcessor /\ CleanAndPublish
  \/ OnProcessor /\ DeleteFails
  \/ OnProcessor /\ DeleteBlock
  \/ OnProcessor /\ PublishDeletion
  \/ OnProcessor /\ Stop
  \/ OnProcessor /\ Restart
  \/ \E version \in Version : OnCache /\ SaveBlock(version)
  \/ OnCache /\ AddBlockHeader
  \/ OnCache /\ RemoveBlock
  \/ OnCache /\ RemoveBlockHeader
  \/ OnCache /\ Refill
  \/ OnCache /\ CacheRestart
  \/ \E p \in Announcer, ids \in SUBSET Tx : OnRelay /\ Announcement(p, ids)
  \/ \E p \in Announcer : OnRelay /\ Lookup(p)
  \/ \E p \in Announcer : OnRelay /\ NoAnswer(p)
  \/ \E p \in Announcer, txs \in Answers : OnRelay /\ Answer(p, txs)
  \/ \E t \in Tx : OnRelay /\ PostTransaction(t)
  \/ \E t \in Tx : OnRelay /\ Confirm(t)
  \/ \E t \in Tx : OnRelay /\ Unconfirm(t)
  \/ \E t \in Tx : OnRelay /\ Leave(t)
  \/ \E o \in Owner : OnRelay /\ Handle(o)
  \/ OnRelay /\ Release

allVars == <<part, vars, cacheVars, relayVars>>

\* The fairness is that of RelayFairSpec; the other two models have none.
MCSpec ==
  /\ MCInit /\ [][MCNext]_allVars
  /\ WF_relayVars(part = "relay" /\ Release)
  /\ \A o \in Owner : WF_relayVars(part = "relay" /\ Handle(o))
  /\ \A p \in Announcer : /\ WF_relayVars(part = "relay" /\ Lookup(p))
                           /\ WF_relayVars(part = "relay" /\ NoAnswer(p))
=============================================================================
