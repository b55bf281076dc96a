--------------------------- MODULE InspectionRun ---------------------------
(***************************************************************************)
(* An automatic inspection run as the user sees it: the worker thread that *)
(* goes through the images, the Qt events it posts to the main thread, and *)
(* the view that the events and the clicks update                          *)
(* (viewmodel/inspection_viewmodel.py, view/inspection_view.py and         *)
(* MainWindow.closeEvent).                                                 *)
(*                                                                         *)
(* The worker runs concurrently with the main thread.  A signal it emits   *)
(* is an event appended to queue, which the main thread handles in order,  *)
(* also while a modal box is open (a box runs a nested event loop).  Clicks*)
(* reach the view only while no box is open and the button is enabled.     *)
(***************************************************************************)
EXTENDS Integers, Sequences

CONSTANTS
    Folders     \* how many images the folders hold that the user may choose

ASSUME FoldersAreCounts == Folders \subseteq Nat

VARIABLES
    images,     \* how many paths InspectionViewModel.image_paths holds
    thread,     \* the life of InspectionViewModel._thread
    worker,     \* the InspectionWorker: its place in run() and its flags
    queue,      \* the events posted to the main thread
    view,       \* what InspectionView remembers and shows
    boxes,      \* the open modal boxes, the innermost first
    closed,     \* the main window has been closed and shut down
    past        \* what happened in this run: for the properties only

vars == <<images, thread, worker, queue, view, boxes, closed, past>>

Statuses == {"Waiting", "Inspecting", "Paused", "Stopping", "Error", "Done"}
Controls == {"Idle", "Running", "Paused", "Stopping"}
Threads == {"None", "Starting", "Running", "Quitting", "Ended"}
Places == {"Test", "Announce", "Inspect", "Inspected", "Report", "Between",
           "Finally", "Returned"}

Event(type, n) == [type |-> type, n |-> n]

NewWorker(pc, total) ==
    [pc |-> pc, index |-> 0, total |-> total, pause |-> FALSE, stop |-> FALSE]

NothingPast(total) == [total |-> total, results |-> 0, raised |-> FALSE,
                       lateImages |-> 0, lateResults |-> 0,
                       closing |-> FALSE, chose |-> FALSE]

Init ==
    /\ images = 0
    /\ thread = "None"
    /\ worker = NewWorker("Returned", 0)
    /\ queue = <<>>
    /\ view = [paused |-> FALSE, stopRequested |-> FALSE, failed |-> FALSE,
               total |-> 0, current |-> 0, progress |-> 0,
               status |-> "Waiting", controls |-> "Idle"]
    /\ boxes = <<>>
    /\ closed = FALSE
    /\ past = NothingPast(0)

Running == thread # "None"
Clickable == boxes = <<>> /\ ~closed

StartEnabled == Clickable /\ view.controls \in {"Idle", "Paused"}

ShowError(v) == [v EXCEPT !.status = "Error"]

-----------------------------------------------------------------------------
(* The worker thread.                                                      *)

\* QThread.started calls run(), which announces the run.
RunBegins ==
    /\ thread = "Starting"
    /\ thread' = "Running"
    /\ worker' = [worker EXCEPT !.pc = "Test", !.index = 1]
    /\ queue' = Append(queue, Event("started", worker.total))
    /\ UNCHANGED <<images, view, boxes, closed, past>>

\* Mutated form of TestFlags: no look at the pause flag.
TestStopOnly ==
    /\ worker.pc = "Test"
    /\ worker' = [worker EXCEPT !.pc =
            IF worker.stop \/ worker.index > worker.total
            THEN "Finally" ELSE "Announce"]
    /\ UNCHANGED <<images, thread, queue, view, boxes, closed, past>>

\* The head of the loop: leave it, sleep on while paused, or go on.
TestFlags ==
    /\ worker.pc = "Test"
    /\ \/ /\ worker.stop \/ worker.index > worker.total
          /\ worker' = [worker EXCEPT !.pc = "Finally"]
       \/ /\ ~worker.stop /\ ~worker.pause /\ worker.index <= worker.total
          /\ worker' = [worker EXCEPT !.pc = "Announce"]
    /\ UNCHANGED <<images, thread, queue, view, boxes, closed, past>>

AnnounceImage ==
    /\ worker.pc = "Announce"
    /\ worker' = [worker EXCEPT !.pc = "Inspect"]
    /\ queue' = Append(queue, Event("image_started", worker.index))
    /\ past' = [past EXCEPT !.lateImages =
                    IF worker.stop \/ worker.pause THEN @ + 1 ELSE @]
    /\ UNCHANGED <<images, thread, view, boxes, closed>>

\* inspect_image returns a saved result, or raises.
InspectImage ==
    /\ worker.pc = "Inspect"
    /\ \/ /\ worker' = [worker EXCEPT !.pc = "Inspected"]
          /\ UNCHANGED <<queue, past>>
       \/ /\ worker' = [worker EXCEPT !.pc = "Finally"]
          /\ queue' = Append(queue, Event("error", 0))
          /\ past' = [past EXCEPT !.raised = TRUE]
    /\ UNCHANGED <<images, thread, view, boxes, closed>>

TestStop ==
    /\ worker.pc = "Inspected"
    /\ worker' = [worker EXCEPT !.pc = IF worker.stop THEN "Finally" ELSE "Report"]
    /\ UNCHANGED <<images, thread, queue, view, boxes, closed, past>>

ReportResult ==
    /\ worker.pc = "Report"
    /\ worker' = [worker EXCEPT !.pc = "Between"]
    /\ queue' = Append(queue, Event("result_ready", worker.index))
    /\ past' = [past EXCEPT !.results = @ + 1,
                            !.lateResults = IF worker.stop THEN @ + 1 ELSE @]
    /\ UNCHANGED <<images, thread, view, boxes, closed>>

\* Up to two seconds of sleep, cut short by a pause or a stop.
NextImage ==
    /\ worker.pc = "Between"
    /\ worker' = [worker EXCEPT !.pc = "Test", !.index = @ + 1]
    /\ UNCHANGED <<images, thread, queue, view, boxes, closed, past>>

\* finished reaches the thread's quit first, then the view.
RunReturns ==
    /\ worker.pc = "Finally"
    /\ worker' = [worker EXCEPT !.pc = "Returned"]
    /\ queue' = queue \o <<Event("quit", 0), Event("finished", 0)>>
    /\ UNCHANGED <<images, thread, view, boxes, closed, past>>

\* The thread's event loop returns; QThread.finished is posted.
ThreadEnds ==
    /\ thread = "Quitting"
    /\ thread' = "Ended"
    /\ queue' = Append(queue, Event("cleanup", 0))
    /\ UNCHANGED <<images, worker, view, boxes, closed, past>>

WorkerStep ==
    \/ RunBegins \/ TestFlags \/ AnnounceImage \/ InspectImage \/ TestStop
    \/ ReportResult \/ NextImage \/ RunReturns \/ ThreadEnds

-----------------------------------------------------------------------------
(* The main thread: events.                                                *)

OnStarted(n) ==
    view' = [view EXCEPT !.failed = FALSE, !.total = n, !.current = 0,
                         !.progress = 0, !.status = "Inspecting",
                         !.controls = "Running"]

OnImageStarted(n) ==
    view' = [view EXCEPT !.current = n, !.total = worker.total,
                         !.progress = n - 1, !.status = "Inspecting"]

OnResultReady ==
    view' = [view EXCEPT !.progress = view.current]

\* Mutated form of OnError: does not remember the failure.
OnErrorForgotten ==
    /\ view' = ShowError(view)
    /\ boxes' = <<"error">> \o boxes

OnError ==
    /\ view' = [ShowError(view) EXCEPT !.failed = TRUE]
    /\ boxes' = <<"error">> \o boxes

\* _cleanup_thread forgets the thread and the worker.
CleanupThread ==
    /\ thread' = "None"
    /\ worker' = NewWorker("Returned", 0)

\* Mutated form of OnFinished: remembers a pause.
OnFinishedPaused ==
    view' = [view EXCEPT !.stopRequested = FALSE, !.failed = FALSE,
                         !.controls = "Idle",
                         !.status = IF view.stopRequested THEN "Waiting"
                                    ELSE IF view.failed THEN "Error" ELSE "Done"]

OnFinished ==
    LET idle == [view EXCEPT !.paused = FALSE, !.stopRequested = FALSE,
                             !.failed = FALSE, !.controls = "Idle"]
    IN  view' =
          IF view.stopRequested
          THEN [idle EXCEPT !.current = 0, !.progress = 0, !.status = "Waiting"]
          ELSE IF view.failed
          THEN [idle EXCEPT !.status = "Error"]
          ELSE [idle EXCEPT !.progress = view.total, !.status = "Done"]

HandleEvent ==
    /\ queue # <<>> /\ ~closed
    /\ queue' = Tail(queue)
    /\ LET e == Head(queue) IN
       \/ /\ e.type = "started" /\ OnStarted(e.n)
          /\ UNCHANGED <<thread, worker, boxes>>
       \/ /\ e.type = "image_started" /\ OnImageStarted(e.n)
          /\ UNCHANGED <<thread, worker, boxes>>
       \/ /\ e.type = "result_ready" /\ OnResultReady
          /\ UNCHANGED <<thread, worker, boxes>>
       \/ /\ e.type = "error" /\ OnError
          /\ UNCHANGED <<thread, worker>>
       \/ /\ e.type = "quit" /\ thread' = "Quitting"
          /\ UNCHANGED <<worker, view, boxes>>
       \/ /\ e.type = "finished" /\ OnFinished
          /\ UNCHANGED <<thread, worker, boxes>>
       \/ /\ e.type = "cleanup" /\ CleanupThread
          /\ UNCHANGED <<view, boxes>>
    /\ UNCHANGED <<images, closed, past>>

-----------------------------------------------------------------------------
(* The main thread: what the user does.                                    *)

\* select_folder with n images; an empty folder is an error, as is a folder
\* that has gone, which leaves the paths alone.
ChooseFolder ==
    /\ Clickable /\ view.controls = "Idle"
    /\ boxes' = <<"folder">>
    /\ UNCHANGED <<images, thread, worker, queue, view, closed, past>>

FolderChosen(n) ==
    /\ boxes # <<>> /\ boxes[1] = "folder"
    /\ images' = n
    /\ IF n = 0
       THEN /\ view' = ShowError(view)
            /\ boxes' = <<"error">> \o Tail(boxes)
       ELSE /\ view' = [view EXCEPT !.total = n, !.current = 0, !.progress = 0,
                                    !.status = "Waiting", !.controls = "Idle"]
            /\ boxes' = Tail(boxes)
    /\ past' = [past EXCEPT !.chose = @ \/ Running]
    /\ UNCHANGED <<thread, worker, queue, closed>>

FolderIsGone ==
    /\ boxes # <<>> /\ boxes[1] = "folder"
    /\ view' = ShowError(view)
    /\ boxes' = <<"error">> \o Tail(boxes)
    /\ UNCHANGED <<images, thread, worker, queue, closed, past>>

\* The user closes the innermost box; a file dialog is cancelled.
CloseBox ==
    /\ boxes # <<>>
    /\ boxes' = Tail(boxes)
    /\ UNCHANGED <<images, thread, worker, queue, view, closed, past>>

\* Mutated form of Resume: the worker is not told.
ResumeViewOnly ==
    /\ StartEnabled /\ view.paused
    /\ view' = [view EXCEPT !.paused = FALSE, !.stopRequested = FALSE,
                            !.status = "Inspecting", !.controls = "Running"]
    /\ past' = [past EXCEPT !.lateImages = 0]
    /\ UNCHANGED <<images, thread, worker, queue, boxes, closed>>

Resume ==
    /\ StartEnabled /\ view.paused
    /\ worker' = IF Running THEN [worker EXCEPT !.pause = FALSE] ELSE worker
    /\ view' = [view EXCEPT !.paused = FALSE, !.stopRequested = FALSE,
                            !.status = "Inspecting", !.controls = "Running"]
    /\ past' = [past EXCEPT !.lateImages = 0]
    /\ UNCHANGED <<images, thread, queue, boxes, closed>>

Start ==
    /\ StartEnabled /\ ~view.paused
    /\ images > 0 /\ ~Running
    /\ thread' = "Starting"
    /\ worker' = NewWorker("Returned", images)
    /\ view' = [view EXCEPT !.stopRequested = FALSE]
    /\ past' = NothingPast(images)
    /\ UNCHANGED <<images, queue, boxes, closed>>

\* No folder chosen, a run that has not been cleaned up, or a detector that
\* the saved settings do not allow to create.
StartFails ==
    /\ StartEnabled /\ ~view.paused
    /\ view' = [ShowError(view) EXCEPT
                    !.stopRequested = IF images = 0 THEN @ ELSE FALSE]
    /\ boxes' = <<"error">>
    /\ UNCHANGED <<images, thread, worker, queue, closed, past>>

Pause ==
    /\ Clickable /\ view.controls = "Running" /\ Running
    /\ worker' = [worker EXCEPT !.pause = TRUE]
    /\ view' = [view EXCEPT !.paused = TRUE, !.status = "Paused",
                            !.controls = "Paused"]
    /\ UNCHANGED <<images, thread, queue, boxes, closed, past>>

StopWorker == [worker EXCEPT !.stop = TRUE, !.pause = FALSE]

\* Its branch for a view without a run is not reached: RestIsIdle.
Stop ==
    /\ Clickable /\ view.controls \in {"Running", "Paused"} /\ Running
    /\ worker' = StopWorker
    /\ view' = [view EXCEPT !.stopRequested = TRUE, !.paused = FALSE,
                            !.status = "Stopping", !.controls = "Stopping"]
    /\ UNCHANGED <<images, thread, queue, boxes, closed, past>>

\* MainWindow.closeEvent.  A VLM generation or a status check, which this
\* module leaves out, may keep the window open too.
CloseWindow ==
    /\ Clickable
    /\ \/ /\ Running
          /\ worker' = StopWorker
          /\ boxes' = <<"closing">>
          /\ past' = [past EXCEPT !.closing = TRUE]
          /\ UNCHANGED closed
       \/ /\ ~Running
          /\ boxes' = <<"closing">>
          /\ UNCHANGED <<worker, closed, past>>
       \/ /\ ~Running
          /\ closed' = TRUE
          /\ UNCHANGED <<worker, boxes, past>>
    /\ UNCHANGED <<images, thread, queue, view>>

UserStep ==
    \/ ChooseFolder \/ (\E n \in Folders : FolderChosen(n)) \/ FolderIsGone
    \/ CloseBox \/ Resume \/ Start \/ StartFails \/ Pause \/ Stop \/ CloseWindow

Next == WorkerStep \/ HandleEvent \/ UserStep

\* The worker thread is scheduled and inspect_image returns; the main thread
\* runs its event loop.  The user need not do anything.
Fairness == WF_vars(WorkerStep) /\ WF_vars(HandleEvent)

Spec == Init /\ [][Next]_vars /\ Fairness

-----------------------------------------------------------------------------
(* Properties.                                                             *)

\* Every variable keeps its type; the queue holds the five signals of the
\* worker and the two events that end its thread.
RunTypeOK ==
    /\ images \in Folders \cup {0}
    /\ thread \in Threads
    /\ worker \in [pc : Places, index : Nat, total : Folders \cup {0},
                   pause : BOOLEAN, stop : BOOLEAN]
    /\ queue \in Seq([type : {"started", "image_started", "result_ready", "error",
                              "quit", "finished", "cleanup"}, n : Nat])
    /\ view \in [paused : BOOLEAN, stopRequested : BOOLEAN, failed : BOOLEAN,
                 total : Folders \cup {0}, current : Nat, progress : Nat,
                 status : Statuses, controls : Controls]
    /\ view.progress <= view.total
    /\ boxes \in Seq({"error", "closing", "folder"})
    /\ closed \in BOOLEAN

\* A pause or a stop takes hold: at most the image whose turn it was starts,
\* and at most the result that was on its way is reported (run, lines 32-43).
HaltTakesHold == past.lateImages <= 1 /\ past.lateResults <= 1

\* The view says that the inspection is complete only after a run that
\* reported a result for every image and raised nothing, or that was stopped by
\* an attempt to close the window (_on_finished, closeEvent).
CompletedMeansAll ==
    [][view'.status = "Done" /\ view.status # "Done" =>
          past.closing \/ (~past.raised /\ past.results = past.total)]_vars

\* The progress bar never advances beyond the results that the worker has
\* reported, except at the end of a run (_on_image_started, _on_result_ready).
ProgressIsReal ==
    [][view'.progress > view.progress /\ view'.status # "Done" =>
          view'.progress <= past.results]_vars

\* When nothing is going on any more, the view is ready for the next run: its
\* start and folder buttons are enabled and no pause or stop is remembered.
RestIsIdle ==
    (thread = "None" /\ queue = <<>>) =>
        view.controls = "Idle" /\ ~view.paused /\ ~view.stopRequested

\* While the worker goes through its images and the main thread has caught
\* up, the user can stop it, or has stopped it, unless a folder was chosen in
\* the moment the run started, which puts the buttons back (_choose_folder).
RunCanBeStopped ==
    (thread = "Running" /\ queue = <<>>) =>
        view.controls # "Idle" \/ past.chose

\* The window closes, and the detector with it, only when no worker is left and
\* none of its events is under way (closeEvent, shutdown).
ClosedIsQuiet == closed => thread = "None" /\ queue = <<>>

\* A run that was asked to stop ends, paused or not; while it is not
\* paused, any run ends.
StoppedRunEnds == worker.stop /\ Running ~> ~Running
RunEnds == Running ~> ~Running \/ view.paused

\* What the view offers fits the run, and closing it is final.
ViewFitsRun == RunTypeOK /\ RestIsIdle /\ RunCanBeStopped /\ ClosedIsQuiet

\* What the view reports of a run is what the worker did.
OutcomesAreReal == CompletedMeansAll /\ ProgressIsReal

\* No run goes on for ever, unless it is paused and not stopped.
RunsEnd == StoppedRunEnds /\ RunEnds
=============================================================================
