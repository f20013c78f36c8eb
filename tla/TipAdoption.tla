----------------------------- MODULE TipAdoption ----------------------------
(***************************************************************************)
(* The tip of one node under the fork choice rule alone: blocks arrive in  *)
(* any order, again and again, and each either replaces the tip or is      *)
(* dropped. Moving to a different chain is one step here; Synchronizer     *)
(* models how it is done and how it fails.                                 *)
(***************************************************************************)
EXTENDS ForkChoice

CONSTANTS
  Block,            \* the headers in circulation
  FirstTip,         \* the tip the node starts from
  MaxTime,          \* bound on the wall clock, in seconds
  StampTip          \* TRUE: the applied header keeps its receivedAt, as the
                    \* unit tests build it; FALSE: only the copy made inside
                    \* forkChoice carries it, as the node does

ASSUME AdoptionAssumption ==
  /\ FirstTip \in Block
  /\ \A block \in Block :
       block.height \in Nat /\ block.mhp \in Nat /\ block.timestamp \in Nat
  /\ MaxTime \in Nat /\ MaxTime >= GenesisTime
  /\ StampTip \in BOOLEAN

VARIABLES
  clock,            \* wall clock, in seconds
  tip,              \* chain.lastBlock.header
  tipReceivedAt,    \* its receivedAt property, 0 when missing
  tipArrival,       \* history: wall clock at which the tip arrived; its own
                    \* timestamp when it was synced
  dropped           \* history: former tips that another chain replaced

tipVars == <<clock, tip, tipReceivedAt, tipArrival, dropped>>

TipInit ==
  /\ clock = GenesisTime
  /\ tip = FirstTip
  /\ tipReceivedAt = 0
  /\ tipArrival = GenesisTime
  /\ dropped = {}

Tick ==
  /\ clock < MaxTime
  /\ clock' = clock + 1
  /\ UNCHANGED <<tip, tipReceivedAt, tipArrival, dropped>>

\* The header object becomes chain.lastBlock as it was handed over.
AdoptReceived(block) ==
  /\ tip' = block
  /\ tipReceivedAt' = IF StampTip THEN TimeSinceGenesis(clock) ELSE 0
  /\ tipArrival' = clock
  /\ UNCHANGED clock

\* A block on the tip. The voting ledger refuses a header whose
\* maxHeightPrevoted is below its parent's once it checks the field, which it
\* does after the first three rounds of headers (VotingChain checks that the
\* field then only grows); the model is of a chain past those rounds.
Extend(block) ==
  /\ ForkStatus(tip, tipReceivedAt, block, clock) = "VALID_BLOCK"
  /\ IsBlockSlotValid(block, tip, clock)
  /\ block.mhp >= tip.mhp
  /\ AdoptReceived(block)
  /\ UNCHANGED dropped

\* The tip is deleted and the block applied on the tip's parent, whose slot
\* the tip's own slot is past.
ReplaceTip(block) ==
  /\ ForkStatus(tip, tipReceivedAt, block, clock) = "TIE_BREAK"
  /\ SlotNumber(block.timestamp) <= SlotNumber(clock)
  /\ AdoptReceived(block)
  /\ dropped' = dropped \cup {tip}

\* The synchronizer moves the node to the block's chain. A synced tip has no
\* receivedAt and counts as received within its slot.
MoveToChainOf(block) ==
  /\ ForkStatus(tip, tipReceivedAt, block, clock) = "DIFFERENT_CHAIN"
  /\ SlotNumber(block.timestamp) <= SlotNumber(clock)
  /\ tip' = block
  /\ tipReceivedAt' = 0
  /\ tipArrival' = block.timestamp
  /\ dropped' = dropped \cup {tip}
  /\ UNCHANGED clock

TipNext ==
  \/ Tick
  \/ \E block \in Block : Extend(block) \/ ReplaceTip(block) \/ MoveToChainOf(block)

TipSpec == TipInit /\ [][TipNext]_tipVars

-----------------------------------------------------------------------------
\* The variables hold headers and times of the model.
TipTypeOK ==
  /\ clock \in GenesisTime..MaxTime
  /\ tip \in Block
  /\ tipReceivedAt \in 0..MaxTime
  /\ tipArrival \in GenesisTime..MaxTime
  /\ dropped \subseteq Block

\* Later in the lexicographic order of maxHeightPrevoted, height and slot.
Outranks(a, b) ==
  \/ a.mhp > b.mhp
  \/ a.mhp = b.mhp /\ a.height > b.height
  \/ /\ a.mhp = b.mhp
     /\ a.height = b.height
     /\ SlotNumber(a.timestamp) > SlotNumber(b.timestamp)

\* A tip the fork choice rule has replaced never becomes the tip again: the
\* rule cannot make a node swing between branches, whatever order blocks are
\* repeated in (forkChoice, fork_choice_rule.ts).
NeverReadopted == tip \notin dropped

\* Every replacement or extension moves to a tip of higher rank.
AdoptionRaisesRank == [][tip' # tip => Outranks(tip', tip)]_tipVars

\* The tie break as its unit test words it: of two duplicate blocks, the one
\* that came within its slot replaces a tip that was forged first and did not
\* come within its own slot (test/unit/fork_choice_rule.spec.ts, _isTieBreak).
LateTipLosesTie ==
  \A block \in Block :
    ( /\ IsDuplicateBlock(tip, block)
      /\ tip.gen # block.gen
      /\ SlotNumber(tip.timestamp) < SlotNumber(block.timestamp)
      /\ SlotNumber(tip.timestamp) # SlotNumber(tipArrival)
      /\ SlotNumber(block.timestamp) = SlotNumber(clock)
      /\ tip # FirstTip )
    => ForkStatus(tip, tipReceivedAt, block, clock) = "TIE_BREAK"
=============================================================================
