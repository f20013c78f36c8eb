---------------------------- MODULE MCSynchronizer --------------------------
(***************************************************************************)
(* TLC instances of the models of what follows a chain: the synchronizer,  *)
(* and two plugins. A behaviour runs one of them, named by part, and       *)
(* leaves the variables of the others alone:                               *)
(*   node    Synchronizer. The blocks of branch a carry votes that         *)
(*           finalize heights 1 and 2. Branch c leaves it above height 1;  *)
(*           its tip d4 claims the highest maxHeightPrevoted of all but    *)
(*           fails when it is executed, on a c3 that a2 outranks. A node   *)
(*           on c2 finds a better chain in a3, a node on a2 one that turns *)
(*           out to be worse, and c3 may ask for a run that a2 overtakes;  *)
(*   totals  ForgerPlugin: delegate d of the node and another, chains of   *)
(*           up to three blocks with votes that add up, go down or come    *)
(*           twice in a block, and two starts;                             *)
(*   reports MisbehaviorPlugin: three headers of one generator, of which   *)
(*           the second contradicts both others, and one that moves the    *)
(*           window past the first.                                        *)
(***************************************************************************)
EXTENDS Synchronizer, MisbehaviorPlugin, ForgerPlugin

VARIABLE part

B(id, height, prev, mhp, precommitted, applies) ==
  [id |-> id, height |-> height, prev |-> prev, mhp |-> mhp, gen |-> id,
   timestamp |-> height, precommitted |-> precommitted, applies |-> applies]

MCGenesisBlock == B("g", 0, "none", 0, 0, TRUE)

MCBlock ==
  { B("a1", 1, "g", 0, 0, TRUE),  B("a2", 2, "a1", 1, 1, TRUE),
    B("a3", 3, "a2", 1, 2, TRUE),
    B("c2", 2, "a1", 0, 0, TRUE), B("c3", 3, "c2", 0, 0, TRUE),
    B("d4", 4, "c3", 2, 0, FALSE) }

PlainBlock(gen, votes) ==
  [gen |-> gen, votes |-> [i \in DOMAIN votes |->
                             [from |-> "v", to |-> "d", amount |-> votes[i]]]]
MCContent == { PlainBlock("d", <<3>>), PlainBlock("e", <<-1>>), PlainBlock("d", <<1, 1>>) }

SignedHeader(id, gen, height, mhpf) ==
  [id |-> id, gen |-> gen, height |-> height, mhpf |-> mhpf, mhp |-> 0]
MCHeader == { SignedHeader("a", "v", 1, 0), SignedHeader("b", "v", 2, 0),
              SignedHeader("c", "v", 2, 1), SignedHeader("e", "w", 3, 0) }

pluginsVars == <<pluginVars, misbehaviorVars>>

-----------------------------------------------------------------------------
OnNode == part = "node" /\ UNCHANGED <<part, pluginsVars>>
OnTotals == part = "totals" /\ UNCHANGED <<part, vars, misbehaviorVars>>
OnReports == part = "reports" /\ UNCHANGED <<part, vars, pluginVars>>

MCInit ==
  /\ part \in {"node", "totals", "reports"}
  /\ Init /\ PluginInit /\ MisbehaviorInit

MCNext ==
  \/ \E block \in Block : OnNode /\ ReceiveBlock(block)
  \/ OnNode /\ ProcessorStep
  \/ OnNode /\ RunStep
  \/ OnNode /\ Stop
  \/ OnNode /\ Restart
  \/ \E block \in MCContent : OnTotals /\ NodeAdds(block)
  \/ OnTotals /\ NodeDeletes
  \/ OnTotals /\ Load
  \/ OnTotals /\ AskLastBlock
  \/ OnTotals /\ Compare
  \/ OnTotals /\ AskBlocks
  \/ OnTotals /\ CountBlock
  \/ OnTotals /\ RoundEnds
  \/ OnTotals /\ Unload
  \/ \E i \in DOMAIN handlers : OnTotals /\ ReadRecord(i)
  \/ \E i \in DOMAIN handlers : OnTotals /\ WriteRecord(i)
  \/ \E i \in DOMAIN handlers : OnTotals /\ Handled(i)
  \/ \E header \in MCHeader : OnReports /\ Receive(header)
  \/ \E i \in DOMAIN watches : OnReports /\ ReadList(i)
  \/ \E i \in DOMAIN watches : OnReports /\ WriteList(i)
  \/ \E i \in DOMAIN watches : OnReports /\ Scan(i)
  \/ \E i \in DOMAIN watches : OnReports /\ Report(i)
  \/ \E enable \in BOOLEAN : OnReports /\ Authorize(enable)
  \/ OnReports /\ CollectOld
  \/ OnReports /\ DeleteOld
  \/ OnReports /\ RestartPlugin

MCSpec ==
  /\ MCInit /\ [][MCNext]_<<part, vars, pluginsVars>>
  /\ WF_<<part, vars, pluginsVars>>(OnNode /\ RunStep)
  /\ WF_<<part, vars, pluginsVars>>(OnNode /\ ProcessorStep)

=============================================================================
