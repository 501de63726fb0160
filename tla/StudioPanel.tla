------------------------------ MODULE StudioPanel ------------------------------
(***************************************************************************)
(* The export gate of the web studio (components/ExportPanel.tsx), its     *)
(* undo (PreviewStage.tsx) and the history of tracked operations           *)
(* (lib/trackedOperation.ts, stores/operationStore.ts): a download is      *)
(* offered while the last inspection's report is for the options shown and *)
(* for the scene revision the tab knows.                                   *)
(***************************************************************************)
EXTENDS StudioScene

CONSTANTS
    Option, Default, \* what optionsKey tells apart, and the first of them
    Inspection,      \* inspections that may overlap
    HistoryLimit     \* HISTORY_LIMIT

VARIABLES
    options,         \* the options shown
    report,          \* the report with its keys, or None; one whose status is
                     \* "invalid" is None too: neither offers a download
    busy,            \* inspectionBusy
    inspections,     \* [at, op, options, revision, measured]
    undos,           \* [at, op, changes]: undo and redo requests in flight
    operations,      \* operationStore: the newest first
    begun            \* operations begun: the last id

panelVars == <<options, report, busy, inspections, undos, operations, begun>>

ASSUME PanelAssumption == Default \in Option /\ HistoryLimit \in Nat \ {0}

Report == [options : Option, revision : Nat, measured : Nat]
Operation == [id : 1..begun, status : {"running", "success", "error"}]

PanelTypeOK ==
    /\ options \in Option
    /\ report \in Report \union {None}
    /\ busy \in BOOLEAN
    /\ inspections \in [Inspection -> [at : {"idle", "asked", "measured"}, op : 0..begun,
                                       options : Option, revision : Nat, measured : Nat]]
    /\ \A u \in undos : u.at \in {"asked", "done", "refused"} /\ u.op \in 1..begun
    /\ operations \in Seq(Operation) /\ Len(operations) <= HistoryLimit
    /\ begun \in Nat

NoInspection == [at |-> "idle", op |-> 0, options |-> Default, revision |-> 0, measured |-> 0]

PanelInit ==
    /\ options = Default
    /\ report = None /\ busy = FALSE
    /\ inspections = [i \in Inspection |-> NoInspection]
    /\ undos = {}
    /\ operations = <<>> /\ begun = 0

-----------------------------------------------------------------------------
(* operationStore *)

\* Mutant: no record ever falls out.
BeginUnbounded ==
    /\ begun' = begun + 1
    /\ operations' = <<[id |-> begun + 1, status |-> "running"]>> \o operations

\* begin: the oldest record falls out, even if its operation still runs.
Begin ==
    /\ begun' = begun + 1
    /\ operations' = LET all == <<[id |-> begun + 1, status |-> "running"]>> \o operations
                     IN  SubSeq(all, 1, IF Len(all) < HistoryLimit THEN Len(all) ELSE HistoryLimit)

\* Mutant: the newest operation is completed.
CompleteNewest(id, outcome) ==
    operations' = [n \in DOMAIN operations |->
        IF n = 1 THEN [operations[n] EXCEPT !.status = outcome] ELSE operations[n]]

\* complete: an evicted operation raises, in succeed and then in fail; runTracked
\* ends without onError, and the records stay.
Complete(id, outcome) ==
    operations' = [n \in DOMAIN operations |->
        IF operations[n].id = id THEN [operations[n] EXCEPT !.status = outcome] ELSE operations[n]]

ClearHistory ==
    /\ Gesture
    /\ operations # <<>> /\ operations' = <<>>
    /\ UNCHANGED <<sceneVars, options, report, busy, inspections, undos, begun>>

(* ExportPanel *)

SetOptions ==
    /\ Gesture
    /\ options' \in Option \ {options}
    /\ UNCHANGED <<sceneVars, report, busy, inspections, undos, operations, begun>>

\* runInspection keeps the options and the revision it was started with.
Inspect(i) ==
    /\ Gesture
    /\ inspections[i].at = "idle"
    /\ inspections' = [inspections EXCEPT ![i] =
           [at |-> "asked", op |-> begun + 1, options |-> options, revision |-> tick, measured |-> 0]]
    /\ busy' = TRUE
    /\ Begin
    /\ UNCHANGED <<sceneVars, options, report, undos>>

Measure(i) ==
    /\ inspections[i].at = "asked"
    /\ inspections' = [inspections EXCEPT ![i].at = "measured", ![i].measured = scene]
    /\ UNCHANGED <<sceneVars, gestures, options, report, busy, undos, operations, begun>>

\* Mutant: the report is kept under the revision it arrives at.
DeliverNow(i) ==
    /\ inspections[i].at = "measured"
    /\ report' \in {None, [options |-> inspections[i].options, revision |-> tick,
                          measured |-> inspections[i].measured]}
    /\ Complete(inspections[i].op, "success")
    /\ inspections' = [inspections EXCEPT ![i] = NoInspection]
    /\ busy' = FALSE
    /\ UNCHANGED <<sceneVars, gestures, options, undos, begun>>

\* The last report to arrive is shown, under its own keys; busy is one flag for all.
Deliver(i) ==
    /\ inspections[i].at = "measured"
    /\ report' \in {None, [options |-> inspections[i].options, revision |-> inspections[i].revision,
                          measured |-> inspections[i].measured]}
    /\ Complete(inspections[i].op, "success")
    /\ inspections' = [inspections EXCEPT ![i] = NoInspection]
    /\ busy' = FALSE
    /\ UNCHANGED <<sceneVars, gestures, options, undos, begun>>

InspectionFails(i) ==
    /\ inspections[i].at # "idle"
    /\ Complete(inspections[i].op, "error")
    /\ inspections' = [inspections EXCEPT ![i] = NoInspection]
    /\ busy' = FALSE
    /\ UNCHANGED <<sceneVars, gestures, options, report, undos, begun>>

Stale == report.options # options \/ report.revision # tick
DownloadEnabled == report # None /\ ~busy /\ ~Stale

(* runHistory *)

\* Nothing keeps one request from being sent while another is out.
AskUndo ==
    /\ Gesture
    /\ undos' = undos \union {[at |-> "asked", op |-> begun + 1, changes |-> {}]}
    /\ Begin
    /\ UNCHANGED <<sceneVars, options, report, busy, inspections>>

\* Blender undoes a change, or refuses; the answer may not say so.
Undone(u) ==
    /\ u.at = "asked"
    /\ \/ Change /\ \E at \in {"done", "refused"} :
              undos' = (undos \ {u}) \union {[u EXCEPT !.at = at, !.changes = {scene + 1}]}
       \/ /\ undos' = (undos \ {u}) \union {[u EXCEPT !.at = "refused"]}
          /\ UNCHANGED <<scene, shape>>
    /\ UNCHANGED <<tick, told, gestures, options, report, busy, inspections, operations, begun>>

UndoAnswered(u) ==
    /\ u.at \in {"done", "refused"}
    /\ undos' = undos \ {u}
    /\ Complete(u.op, IF u.at = "done" THEN "success" ELSE "error")
    /\ IF u.at = "done" THEN Announce(u.changes) ELSE UNCHANGED <<tick, told>>
    /\ UNCHANGED <<scene, shape, gestures, options, report, busy, inspections, begun>>

PanelNext ==
    \/ ClearHistory \/ SetOptions \/ AskUndo
    \/ \E u \in undos : Undone(u) \/ UndoAnswered(u)
    \/ \E i \in Inspection : Inspect(i) \/ Measure(i) \/ Deliver(i) \/ InspectionFails(i)

-----------------------------------------------------------------------------
(* Properties *)

\* A download is offered only for what was measured: the report is for the
\* options shown, and every change since it was measured is one the tab has not
\* been told of (ExportPanel.tsx:68, :155).  Inspections overlap, answers come
\* in any order, and the scene changes while one is on its way.
DownloadIsMeasured ==
    DownloadEnabled =>
        /\ report.options = options
        /\ \A change \in told : change <= report.measured

\* The history tells the truth about every operation it still holds: "running"
\* is the record of one that is in flight and of no other, also when records
\* fall out before they are completed (operationStore.ts:54).
HistoryIsTrue ==
    \A n \in DOMAIN operations :
        operations[n].status = "running" <=>
            \/ \E i \in Inspection : inspections[i].at # "idle" /\ inspections[i].op = operations[n].id
            \/ \E u \in undos : u.op = operations[n].id
=============================================================================
