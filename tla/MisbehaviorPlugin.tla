-------------------------- MODULE MisbehaviorPlugin -------------------------
(***************************************************************************)
(* The plugin that reports misbehavior (framework-plugins/                 *)
(* lisk-framework-report-misbehavior-plugin): it keeps the header of every *)
(* block that peers send, in a database with one list for a generator and  *)
(* a height, looks for an earlier header that contradicts the new one, and *)
(* sends a transaction that shows both. Headers that are old are cleared   *)
(* on a timer.                                                             *)
(*                                                                         *)
(* Handlers of several blocks run at once: a list is read, and written     *)
(* back with the new header, in two steps. A handler that throws is logged *)
(* and over; the nonce and the fate of the transaction are left out.       *)
(***************************************************************************)
EXTENDS Integers, SequencesExt

CONSTANTS
  PeerHeader,        \* [id, gen, height, mhpf, mhp]
  Window,            \* heights that are kept below the highest (260000)
  MaxHandlers, MaxRestarts    \* bounds of the model

ASSUME MisbehaviorAssumption ==
  /\ \A h \in PeerHeader : {h.height, h.mhpf, h.mhp} \subseteq Nat
  /\ {Window, MaxHandlers, MaxRestarts} \subseteq Nat

VARIABLES
  saved,             \* the database: the headers in its lists
  current,           \* _state.currentHeight
  reporting,         \* whether a passphrase has been unlocked (authorize)
  watches,           \* the handlers in progress
  expired,           \* keys of a clearing in progress
  reports,           \* the generators that transactions have shown
  \* history variables
  handled, found, top, replaced, restarts

misbehaviorVars == <<saved, current, reporting, watches, expired, reports,
                     handled, found, top, replaced, restarts>>

Ledger == INSTANCE VotingLedger WITH
  Validator <- {h.gen : h \in PeerHeader}, Participant <- {h.gen : h \in PeerHeader},
  ActiveFrom <- [g \in {h.gen : h \in PeerHeader} |-> 1], Threshold <- 1

-----------------------------------------------------------------------------
KeyOf(header) == <<header.gen, header.height>>
ListAt(key) == {h \in saved : KeyOf(h) = key}
Higher(m, n) == IF m > n THEN m ELSE n

\* The handler of app:network:event, for a valid postBlock.
Receive(header) ==
  /\ Len(watches) < MaxHandlers
  /\ watches' = Append(watches, [pc |-> "read", header |-> header, list |-> {}])
  /\ UNCHANGED <<saved, current, reporting, expired, reports, handled, found, top, replaced, restarts>>

\* saveBlockHeaders: a header that is in the list ends the handler.
ReadList(i) ==
  /\ i \in DOMAIN watches /\ watches[i].pc = "read"
  /\ LET header == watches[i].header
         list == ListAt(KeyOf(header))
     IN  watches' = IF header \in list THEN RemoveAt(watches, i)
                    ELSE [watches EXCEPT ![i].pc = "write", ![i].list = list]
  /\ UNCHANGED <<saved, current, reporting, expired, reports,
                 handled, found, top, replaced, restarts>>

WriteList(i) ==
  /\ i \in DOMAIN watches /\ watches[i].pc = "write"
  /\ LET header == watches[i].header
         written == watches[i].list \cup {header}
     IN  /\ saved' = (saved \ ListAt(KeyOf(header))) \cup written
         /\ replaced' = replaced \cup (ListAt(KeyOf(header)) \ written)
  /\ watches' = [watches EXCEPT ![i].pc = "scan"]
  /\ UNCHANGED <<current, reporting, expired, reports, handled, found, top, restarts>>

\* (mutant) only the lists of other heights than the new header's and above
ContradictingAbove(header) ==
  {h \in saved : h.gen = header.gen /\ h.height >= header.height
                 /\ Ledger!Contradicting(header, h)}

\* getContradictingBlockHeader, over the lists of the generator.
ContradictingHeaders(header) ==
  {h \in saved : h.gen = header.gen /\ Ledger!Contradicting(header, h)}

Scan(i) ==
  /\ i \in DOMAIN watches /\ watches[i].pc = "scan"
  /\ LET header == watches[i].header
         others == ContradictingHeaders(header)
     IN  /\ current' = Higher(current, header.height)
         /\ top' = Higher(top, header.height)
         /\ handled' = handled \cup {header}
         /\ IF others = {}
            THEN watches' = RemoveAt(watches, i) /\ UNCHANGED found
            ELSE \E other \in others :
                   /\ found' = found \cup {header.gen}
                   /\ watches' = IF reporting
                                 THEN [watches EXCEPT ![i].pc = "report", ![i].list = {other}]
                                 ELSE RemoveAt(watches, i)
  /\ UNCHANGED <<saved, reporting, expired, reports, replaced, restarts>>

\* _createPoMTransaction and app:postTransaction
Report(i) ==
  /\ i \in DOMAIN watches /\ watches[i].pc = "report"
  /\ reports' = reports \cup {watches[i].header.gen}
  /\ watches' = RemoveAt(watches, i)
  /\ UNCHANGED <<saved, current, reporting, expired, handled, found, top, replaced, restarts>>

\* authorize, with the right password
Authorize(enable) ==
  /\ reporting # enable
  /\ reporting' = enable
  /\ UNCHANGED <<saved, current, watches, expired, reports,
                 handled, found, top, replaced, restarts>>

\* (mutant) the lowest height of the window goes too
CollectAtWindow ==
  /\ expired = {}
  /\ expired' = {KeyOf(h) : h \in {s \in saved : s.height <= current - Window}}
  /\ expired' # {}
  /\ UNCHANGED <<saved, current, reporting, watches, reports,
                 handled, found, top, replaced, restarts>>

\* clearBlockHeaders: the old keys are collected, ...
CollectOld ==
  /\ expired = {}
  /\ expired' = {KeyOf(h) : h \in {s \in saved : s.height < current - Window}}
  /\ expired' # {}
  /\ UNCHANGED <<saved, current, reporting, watches, reports,
                 handled, found, top, replaced, restarts>>

\* ... and deleted, with what has been added to them meanwhile.
DeleteOld ==
  /\ expired # {}
  /\ saved' = {h \in saved : KeyOf(h) \notin expired}
  /\ expired' = {}
  /\ UNCHANGED <<current, reporting, watches, reports,
                 handled, found, top, replaced, restarts>>

\* The process ends, at any point, and is started again: the height and the
\* passphrase are in memory only.
RestartPlugin ==
  /\ restarts < MaxRestarts
  /\ restarts' = restarts + 1
  /\ current' = 0 /\ reporting' = FALSE /\ watches' = <<>> /\ expired' = {}
  /\ UNCHANGED <<saved, reports, handled, found, top, replaced>>

-----------------------------------------------------------------------------
MisbehaviorInit ==
  /\ saved = {} /\ current = 0 /\ reporting = FALSE /\ watches = <<>>
  /\ expired = {} /\ reports = {}
  /\ handled = {} /\ found = {} /\ top = 0 /\ replaced = {} /\ restarts = 0

MisbehaviorNext ==
  \/ \E header \in PeerHeader : Receive(header)
  \/ \E i \in DOMAIN watches : ReadList(i) \/ WriteList(i) \/ Scan(i) \/ Report(i)
  \/ \E enable \in BOOLEAN : Authorize(enable)
  \/ CollectOld \/ DeleteOld \/ RestartPlugin

MisbehaviorSpec == MisbehaviorInit /\ [][MisbehaviorNext]_misbehaviorVars

-----------------------------------------------------------------------------
Contradict(a, b) ==
  Ledger!Contradicting(a, b) /\ {a.height, b.height} \subseteq top - Window .. top

(***************************************************************************)
(* In whatever order the handlers of two contradicting headers run, with   *)
(* clearings and restarts between: when both are through, and neither is   *)
(* below the window or has been overwritten, a contradiction of that       *)
(* generator has been found. (Handlers of two headers of one height can    *)
(* overwrite each other, and a header whose handler dies between its two   *)
(* steps is not looked at again when it is sent once more.)                *)
(***************************************************************************)
ContradictionsFound ==
  \A a, b \in handled \ replaced : Contradict(a, b) => a.gen \in found

\* Those of overwritten headers too. It does not hold.
NoneOverlooked ==
  \A a, b \in handled : Contradict(a, b) => a.gen \in found
=============================================================================
