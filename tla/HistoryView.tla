---------------------------- MODULE HistoryView ----------------------------
(***************************************************************************)
(* The history screen: a table of the inspections a search has found, the  *)
(* detail of the selected one, its deletion, and a VLM generation that     *)
(* describes it in a thread of its own while the user goes on              *)
(* (view/history_view.py, MainWindow.closeEvent).                          *)
(*                                                                         *)
(* What the screen shows are copies of rows.  The generation's thread      *)
(* changes its row in the database at any time, and its signals are events *)
(* that the main thread handles later, also in the nested event loop of a  *)
(* modal box.  Clicks need every box to be closed.  One application uses   *)
(* the database; each of its database calls may fail, MaxFaults times in   *)
(* all.                                                                    *)
(***************************************************************************)
EXTENDS Integers, Sequences

CONSTANTS
    Ids,        \* ids of inspections
    None,       \* no id, no detail
    MaxFaults   \* bound on failed database calls

ASSUME NoneIsNoId == None \notin Ids
ASSUME FaultsAreCounted == MaxFaults \in Nat

VARIABLES
    rows,       \* the table inspections: a function on the ids in it
    issued,     \* the ids AUTOINCREMENT has given out
    view,       \* what the screen shows
    thread,     \* the life of _vlm_thread
    worker,     \* the HistoryVlmWorker: its id and its place in run()
    queue,      \* the events posted to the main thread
    boxes,      \* the open modal boxes, the innermost first
    closed,     \* the main window has been closed
    faults,     \* failed database calls
    unread      \* one of them hid a result from the view

vars == <<rows, issued, view, thread, worker, queue, boxes, closed, faults, unread>>

Statuses == {"NOT_REQUESTED", "PROCESSING", "COMPLETED", "FAILED"}
Texts == {"none", "analysing", "done", "failed"}
Details == [id : Ids, text : Texts]
Rows == [ng : BOOLEAN, vlm : Statuses, desc : BOOLEAN]   \* desc: it has a description

ASSUME NoneIsNoDetail == None \notin Details

Live == DOMAIN rows

NewRow(ng) == [ng |-> ng, vlm |-> "NOT_REQUESTED", desc |-> FALSE]

\* Only NG rows are described; what was described once keeps its description.
SavedRows == {r \in Rows : /\ ~r.ng => r = NewRow(FALSE)
                           /\ r.vlm = "COMPLETED" => r.desc
                           /\ r.vlm = "NOT_REQUESTED" => ~r.desc}

\* _vlm_status_text and, but for the wording, _vlm_detail_text.
TextOf(row) ==
    IF row.vlm = "PROCESSING" THEN "analysing"
    ELSE IF row.vlm = "COMPLETED" \/ row.desc THEN "done"
    ELSE IF row.vlm = "FAILED" THEN "failed" ELSE "none"

Clickable == boxes = <<>> /\ ~closed

Fault == faults < MaxFaults /\ faults' = faults + 1

\* A message box, which holds nothing.
Message == [kind |-> "message", id |-> None]

\* reload() with a search that finds S in the table db.
Reloaded(db, S) ==
    [table |-> [i \in S |-> TextOf(db[i])], selected |-> None, detail |-> None,
     button |-> FALSE, records |-> DOMAIN db # {}]

NoWorker == [pc |-> "idle", id |-> None]

\* Rows of earlier runs of the application, one of which may have been left
\* PROCESSING by a crash; the constructor reloads with all filters open.
Init ==
    /\ issued \in SUBSET Ids
    /\ rows \in [issued -> SavedRows]
    /\ view = Reloaded(rows, issued)
    /\ thread = "None"
    /\ worker = NoWorker
    /\ queue = <<>>
    /\ boxes = <<>>
    /\ closed = FALSE
    /\ faults = 0
    /\ unread = FALSE

-----------------------------------------------------------------------------
(* HistoryVlmWorker.run, by the transactions of run_vlm_for_inspection     *)
(* that change or read its row.                                            *)

WorkerFrame == UNCHANGED <<issued, view, thread, boxes, closed, unread>>

\* Mutated form of Emit: a failure does not end the thread.
EmitAlone(type, row) ==
    /\ worker' = [worker EXCEPT !.pc = "idle"]
    /\ queue' = queue \o <<[type |-> type, id |-> worker.id, row |-> row]>>

\* run() emits one signal, which reaches the view's handler first and then
\* the thread's quit.
Emit(type, row) ==
    /\ worker' = [worker EXCEPT !.pc = "idle"]
    /\ queue' = queue \o <<[type |-> type, id |-> worker.id, row |-> row],
                           [type |-> "quit", id |-> None, row |-> None]>>

\* update_vlm_result, which has no effect on a row that is gone.
Update(status, desc) ==
    rows' = [i \in Live |-> IF i = worker.id
                            THEN [rows[i] EXCEPT !.vlm = status, !.desc = desc]
                            ELSE rows[i]]

\* The row is gone, is not NG or is PROCESSING already.
RunRefused ==
    /\ worker.pc = "find"
    /\ worker.id \in Live /\ rows[worker.id].ng => rows[worker.id].vlm = "PROCESSING"
    /\ Emit("failed", None)
    /\ WorkerFrame /\ UNCHANGED <<rows, faults>>

RunImageMissing ==
    /\ worker.pc = "find" /\ worker.id \in Live /\ rows[worker.id].ng
    /\ Update("FAILED", rows[worker.id].desc)
    /\ Emit("failed", None)
    /\ WorkerFrame /\ UNCHANGED faults

RunReserve ==
    /\ worker.pc = "find" /\ worker.id \in Live /\ rows[worker.id].ng
    /\ rows[worker.id].vlm # "PROCESSING"
    /\ Update("PROCESSING", rows[worker.id].desc)
    /\ worker' = [worker EXCEPT !.pc = "describe"]
    /\ WorkerFrame /\ UNCHANGED <<queue, faults>>

RunDescribed ==
    /\ worker.pc = "describe" /\ worker.id \in Live
    /\ Update("COMPLETED", TRUE)
    /\ worker' = [worker EXCEPT !.pc = "reread"]
    /\ WorkerFrame /\ UNCHANGED <<queue, faults>>

RunDescribeFails ==
    /\ worker.pc = "describe" /\ worker.id \in Live
    /\ Update("FAILED", rows[worker.id].desc)
    /\ Emit("failed", None)
    /\ WorkerFrame /\ UNCHANGED faults

\* The row was deleted meanwhile.
RunRowGone ==
    /\ worker.pc \in {"describe", "reread"} /\ worker.id \notin Live
    /\ Emit("failed", None)
    /\ WorkerFrame /\ UNCHANGED <<rows, faults>>

RunReread ==
    /\ worker.pc = "reread" /\ worker.id \in Live
    /\ Emit("finished", rows[worker.id])
    /\ WorkerFrame /\ UNCHANGED <<rows, faults>>

RunDbFails ==
    /\ worker.pc # "idle"
    /\ Emit("failed", None)
    /\ Fault
    /\ WorkerFrame /\ UNCHANGED rows

\* The thread's event loop returns; QThread.finished is posted.
ThreadEnds ==
    /\ thread = "Quitting"
    /\ thread' = "Ended"
    /\ queue' = Append(queue, [type |-> "cleanup", id |-> None, row |-> None])
    /\ UNCHANGED <<rows, issued, view, worker, boxes, closed, faults, unread>>

ThreadStep ==
    \/ RunRefused \/ RunImageMissing \/ RunReserve \/ RunDescribed
    \/ RunDescribeFails \/ RunRowGone \/ RunReread \/ RunDbFails \/ ThreadEnds

-----------------------------------------------------------------------------
(* What the view does with a row it has loaded.                            *)

\* Mutated form of CanGenerate: looks at the row alone.
CanGenerateRow(row, t) == row.ng /\ row.vlm # "PROCESSING"

\* _sync_vlm_button; t: the life of the thread.
CanGenerate(row, t) == row.ng /\ row.vlm # "PROCESSING" /\ t = "None"

\* _render_detail.
Rendered(v, i, row, t) ==
    [v EXCEPT !.detail = [id |-> i, text |-> TextOf(row)],
              !.button = CanGenerate(row, t)]

\* Mutated form of RowShows: the text of the selected row.
SelectedRowShows(v, i, text) ==
    [v EXCEPT !.table = [j \in DOMAIN @ |-> IF j = v.selected THEN text ELSE @[j]]]

\* _set_row_vlm_status: nothing if the table does not list the row.
RowShows(v, i, text) ==
    [v EXCEPT !.table = [j \in DOMAIN @ |-> IF j = i THEN text ELSE @[j]]]

ClearDetail(v) == [v EXCEPT !.detail = None, !.button = FALSE]

-----------------------------------------------------------------------------
(* The main thread: events.                                                *)

\* The result is shown where the table and the detail are about its row; the
\* thread object is still there.
ShowsResult(v, i, row) ==
    IF v.selected = i THEN Rendered(v, i, row, thread) ELSE v

OnVlmFinished(i, row) ==
    /\ view' = ShowsResult(RowShows(view, i, TextOf(row)), i, row)
    /\ UNCHANGED <<boxes, faults, unread>>

\* The row is loaded again.  If that fails the handler is left by its
\* exception.
OnVlmFailed(i) ==
    \/ /\ i \in Live
       /\ view' = ShowsResult(RowShows(view, i, TextOf(rows[i])), i, rows[i])
       /\ boxes' = <<Message>> \o boxes
       /\ UNCHANGED <<faults, unread>>
    \/ /\ i \notin Live
       /\ view' = IF view.selected = i
                  THEN [view EXCEPT !.detail = [id |-> i, text |-> "failed"],
                                    !.button = FALSE]
                  ELSE view
       /\ boxes' = <<Message>> \o boxes
       /\ UNCHANGED <<faults, unread>>
    \/ /\ Fault
       /\ unread' = TRUE
       /\ UNCHANGED <<view, boxes>>

\* _cleanup_vlm_thread: the detail of the selected row is loaded again.
CleanupVlmThread ==
    /\ thread' = "None" /\ worker' = NoWorker
    /\ \/ /\ view' = IF view.selected \in Live
                     THEN Rendered(view, view.selected, rows[view.selected], thread')
                     ELSE view
          /\ UNCHANGED <<faults, unread>>
       \/ /\ view.selected # None
          /\ Fault
          /\ unread' = TRUE
          /\ UNCHANGED view

HandleEvent ==
    /\ queue # <<>> /\ ~closed
    /\ queue' = Tail(queue)
    /\ LET e == Head(queue) IN
       \/ /\ e.type = "finished" /\ OnVlmFinished(e.id, e.row)
          /\ UNCHANGED <<thread, worker>>
       \/ /\ e.type = "failed" /\ OnVlmFailed(e.id)
          /\ UNCHANGED <<thread, worker>>
       \/ /\ e.type = "quit" /\ thread' = "Quitting"
          /\ UNCHANGED <<view, worker, boxes, faults, unread>>
       \/ /\ e.type = "cleanup" /\ CleanupVlmThread
          /\ UNCHANGED boxes
    /\ UNCHANGED <<rows, issued, closed>>

-----------------------------------------------------------------------------
(* The main thread: what the user does.                                    *)

UserFrame == UNCHANGED <<issued, queue, closed>>

\* reload() of S.
Reloads(db, S) == view' = Reloaded(db, S) /\ unread' = FALSE

\* reload() of S is left by an exception of one of its queries: of the defect
\* types or the search, or of the count once the table is filled.
ReloadRaises(db, S) ==
    /\ Fault
    /\ \/ UNCHANGED <<view, unread>>
       \/ /\ view' = [Reloaded(db, S) EXCEPT !.records = view.records]
          /\ unread' = FALSE

\* A search with any filters.
Reload(S) ==
    /\ Clickable
    /\ Reloads(rows, S)
    /\ UserFrame /\ UNCHANGED <<rows, thread, worker, boxes, faults>>

\* A first day after the last: a warning, and the screen stays as it is.
ReloadRefused ==
    /\ Clickable
    /\ boxes' = <<Message>>
    /\ UserFrame /\ UNCHANGED <<rows, view, thread, worker, faults, unread>>

ReloadFails(S) ==
    /\ Clickable
    /\ ReloadRaises(rows, S)
    /\ UserFrame /\ UNCHANGED <<rows, thread, worker, boxes>>

\* _show_selected_detail: clear, load, show.
Select(i) ==
    /\ Clickable /\ i \in DOMAIN view.table /\ view.selected # i
    /\ LET v == [ClearDetail(view) EXCEPT !.selected = i] IN
       \/ /\ i \in Live
          /\ view' = Rendered(v, i, rows[i], thread)
          /\ UNCHANGED <<boxes, faults>>
       \/ /\ i \notin Live
          /\ view' = v
          /\ boxes' = <<Message>>
          /\ UNCHANGED faults
       \/ /\ Fault
          /\ view' = v
          /\ boxes' = <<Message>>
    /\ UserFrame /\ UNCHANGED <<rows, thread, worker, unread>>

Deselect ==
    /\ Clickable /\ view.selected # None
    /\ view' = [ClearDetail(view) EXCEPT !.selected = None]
    /\ UserFrame /\ UNCHANGED <<rows, thread, worker, boxes, faults, unread>>

\* Its messages for no selection and for a thread that exists are not reached:
\* OfferIsFree.
StartVlmGeneration ==
    /\ Clickable /\ view.button
    /\ view.selected # None /\ thread = "None"
    /\ view' = [RowShows(view, view.selected, "analysing") EXCEPT
                    !.detail = [id |-> view.selected, text |-> "analysing"],
                    !.button = FALSE]
    /\ thread' = "Running"
    /\ worker' = [pc |-> "find", id |-> view.selected]
    /\ UserFrame /\ UNCHANGED <<rows, boxes, faults, unread>>

\* The row to delete is fixed before the question is asked; None: all rows.
AskToDelete(i) ==
    /\ Clickable
    /\ \/ i # None /\ view.selected = i
       \/ i = None /\ view.records
    /\ boxes' = <<[kind |-> "delete", id |-> i]>>
    /\ UserFrame /\ UNCHANGED <<rows, view, thread, worker, faults, unread>>

\* Yes: the rows are deleted (InspectionHistory tells how), the screen is
\* reloaded, unless the dates forbid it, and a message tells of success.  An
\* exception of the reload leaves the message out.
ConfirmDelete(S) ==
    /\ boxes # <<>> /\ boxes[1].kind = "delete"
    /\ LET i == boxes[1].id
           doomed == IF i = None THEN Live ELSE {i}
       IN  /\ i # None => i \in Live
           /\ rows' = [j \in Live \ doomed |-> rows[j]]
           /\ \/ /\ S \subseteq Live \ doomed
                 /\ Reloads(rows', S)
                 /\ boxes' = <<Message>> \o Tail(boxes)
                 /\ UNCHANGED faults
              \/ /\ boxes' = <<Message, Message>> \o Tail(boxes)
                 /\ UNCHANGED <<view, faults, unread>>
              \/ /\ S \subseteq Live \ doomed
                 /\ ReloadRaises(rows', S)
                 /\ boxes' = Tail(boxes)
    /\ UserFrame /\ UNCHANGED <<thread, worker>>

\* The row is gone, or a transaction fails: a message and no more.
DeleteFails ==
    /\ boxes # <<>> /\ boxes[1].kind = "delete"
    /\ \/ boxes[1].id \notin Live \cup {None} /\ UNCHANGED faults
       \/ Fault
    /\ boxes' = <<Message>> \o Tail(boxes)
    /\ UserFrame /\ UNCHANGED <<rows, view, thread, worker, unread>>

\* A message is read, or the question answered with no.
CloseBox ==
    /\ boxes # <<>>
    /\ boxes' = Tail(boxes)
    /\ UserFrame /\ UNCHANGED <<rows, view, thread, worker, faults, unread>>

\* Mutated form of IsVlmRunning: asks for the row that is looked at.
IsSelectedRunning == thread \in {"Running", "Quitting"} /\ worker.id = view.selected

\* is_vlm_running asks the thread, not whether the object exists.
IsVlmRunning == thread \in {"Running", "Quitting"}

\* closeEvent; an inspection or a status check may keep the window open too.
CloseWindow ==
    /\ Clickable
    /\ \/ boxes' = <<Message>> /\ UNCHANGED closed
       \/ ~IsVlmRunning /\ closed' = TRUE /\ UNCHANGED boxes
    /\ UNCHANGED <<rows, issued, view, thread, worker, queue, faults, unread>>

\* The inspection screen's thread saves a row.
InspectionSaves(i, ng) ==
    /\ i \in Ids \ issued /\ ~closed
    /\ issued' = issued \cup {i}
    /\ rows' = [j \in Live \cup {i} |-> IF j = i THEN NewRow(ng) ELSE rows[j]]
    /\ UNCHANGED <<view, thread, worker, queue, boxes, closed, faults, unread>>

UserStep ==
    \/ \E S \in SUBSET Live : Reload(S)
    \/ \E S \in SUBSET Live : ReloadFails(S)
    \/ ReloadRefused
    \/ \E i \in Ids : Select(i)
    \/ Deselect \/ StartVlmGeneration
    \/ \E i \in Ids \cup {None} : AskToDelete(i)
    \/ \E S \in SUBSET Live : ConfirmDelete(S)
    \/ DeleteFails \/ CloseBox \/ CloseWindow

Next == ThreadStep \/ HandleEvent \/ UserStep \/ \E i \in Ids, ng \in BOOLEAN : InspectionSaves(i, ng)

\* The generation's waits have time-outs; the main thread runs its event loop.
Fairness == WF_vars(ThreadStep) /\ WF_vars(HandleEvent)

Spec == Init /\ [][Next]_vars /\ Fairness

-----------------------------------------------------------------------------
(* Properties.                                                             *)

\* Every variable keeps its type.
ViewTypeOK ==
    /\ issued \subseteq Ids
    /\ Live \subseteq issued /\ rows \in [Live -> Rows]
    /\ DOMAIN view.table \subseteq issued
    /\ view.table \in [DOMAIN view.table -> Texts]
    /\ view.selected \in DOMAIN view.table \cup {None}
    /\ view.detail \in Details \cup {None}
    /\ view.button \in BOOLEAN /\ view.records \in BOOLEAN
    /\ thread \in {"None", "Running", "Quitting", "Ended"}
    /\ worker \in [pc : {"idle", "find", "describe", "reread"}, id : Ids \cup {None}]
    /\ queue \in Seq([type : {"finished", "failed", "quit", "cleanup"},
                      id : Ids \cup {None}, row : Rows \cup {None}])
    /\ boxes \in Seq([kind : {"message", "delete"}, id : Ids \cup {None}])
    /\ closed \in BOOLEAN /\ faults \in 0 .. MaxFaults /\ unread \in BOOLEAN

\* A late result never replaces the detail of another row: what the detail
\* shows is about the row that is selected (_on_vlm_finished, _on_vlm_failed).
DetailIsOfSelection == view.detail # None => view.detail.id = view.selected

\* A generation is offered only for a selected NG row and while no thread
\* object is left, whatever the user has selected, deleted or searched for
\* since one was started (_sync_vlm_button).
OfferIsFree ==
    view.button =>
        /\ thread = "None" /\ view.selected # None
        /\ view.selected \in Live => rows[view.selected].ng

Settled == thread = "None" /\ ~unread

\* Once a generation is over, the table tells of every row it lists what the
\* database says: neither a search nor a selection nor a failure in between
\* leaves it at "analysing" (_on_vlm_finished, _on_vlm_failed).
TableAgrees ==
    \A i \in DOMAIN view.table \cap Live :
        Settled => view.table[i] = TextOf(rows[i])

\* Once a generation is over, the detail tells the same as the database, and
\* the button offers another one for the row shown exactly when it can be made
\* (_cleanup_vlm_thread).
DetailAgrees ==
    Settled /\ view.detail # None /\ view.selected \in Live =>
        LET row == rows[view.selected] IN
        /\ view.detail.text = TextOf(row)
        /\ view.button = (row.ng /\ row.vlm # "PROCESSING")

\* The window closes only when no generation is under way and its result has
\* been shown (is_vlm_running, closeEvent).
ClosedAfterResult ==
    closed => /\ worker.pc = "idle"
              /\ \A k \in DOMAIN queue : queue[k].type = "cleanup"

\* A generation ends and its thread is given back, whatever fails.
GenerationSettles == thread # "None" ~> thread = "None" \/ closed

\* What the view shows is of the selected row and agrees with the database.
ViewAgrees == ViewTypeOK /\ DetailIsOfSelection /\ TableAgrees /\ DetailAgrees
=============================================================================
