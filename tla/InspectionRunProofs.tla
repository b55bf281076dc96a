------------------------ MODULE InspectionRunProofs ------------------------
(***************************************************************************)
(* An inspection run for every number of images in the folders, that is    *)
(* for runs and queues of any length: a halt takes hold, the view is ready *)
(* when a run has come to rest, closing is final, and what the view says   *)
(* of a run is what its worker did.                                        *)
(*                                                                         *)
(* The argument is the shape of the queue: what the worker posts comes     *)
(* first, then the quit of its thread, then finished, and the cleanup when *)
(* the thread has ended; and for what the view says, how far the worker    *)
(* was when it posted each of them.                                        *)
(***************************************************************************)
EXTENDS InspectionRun, TLAPS

Counts == Folders \cup {0}

Workers == [pc : Places, index : Nat, total : Counts, pause : BOOLEAN, stop : BOOLEAN]

Early == {"started", "image_started", "result_ready", "error"}

Events == [type : Early \cup {"quit", "finished", "cleanup"}, n : Nat]

Views == [paused : BOOLEAN, stopRequested : BOOLEAN, failed : BOOLEAN,
          total : Counts, current : Nat, progress : Nat,
          status : Statuses, controls : Controls]

Pasts == [total : Counts, results : Nat, raised : BOOLEAN, lateImages : Nat,
          lateResults : Nat, closing : BOOLEAN, chose : BOOLEAN]

Boxes == {"error", "closing", "folder"}

Types ==
    /\ images \in Counts /\ thread \in Threads /\ worker \in Workers
    /\ queue \in Seq(Events) /\ view \in Views /\ boxes \in Seq(Boxes)
    /\ closed \in BOOLEAN /\ past \in Pasts

\* The worker is at an image of its run, and so is every event it has posted.
Numbers ==
    /\ worker.pc # "Returned" => worker.index >= 1
    /\ worker.pc = "Announce" => worker.index <= worker.total
    /\ \A k \in 1 .. Len(queue) :
          /\ queue[k].type = "started" => queue[k].n \in Counts
          /\ queue[k].type = "image_started" => queue[k].n \in 1 .. worker.total
    /\ view.progress <= view.total /\ view.current <= view.total

\* Which events are on their way at each moment of the thread's life.
QueueShape ==
    /\ thread \in {"None", "Starting"} => Len(queue) = 0
    /\ thread # "Running" => worker.pc = "Returned"
    /\ thread = "Running" /\ worker.pc # "Returned" =>
          \A k \in 1 .. Len(queue) : queue[k].type \in Early
    /\ thread = "Running" /\ worker.pc = "Returned" =>
          /\ Len(queue) >= 2
          /\ \A k \in 1 .. Len(queue) - 2 : queue[k].type \in Early
          /\ queue[Len(queue) - 1].type = "quit" /\ queue[Len(queue)].type = "finished"
    /\ thread = "Quitting" =>
          Len(queue) = 0 \/ (Len(queue) = 1 /\ queue[1].type = "finished")
    /\ thread = "Ended" =>
          \/ Len(queue) = 1 /\ queue[1].type = "cleanup"
          \/ Len(queue) = 2 /\ queue[1].type = "finished" /\ queue[2].type = "cleanup"

\* The view still has to be told that the run has finished.
Unfinished ==
    \/ thread = "Running"
    \/ thread \in {"Quitting", "Ended"} /\ Len(queue) > 0 /\ queue[1].type = "finished"

\* Otherwise it is idle; and a running worker can be stopped, once its view has been
\* told that it started.
ViewIsTold ==
    /\ \/ Unfinished
       \/ view.controls = "Idle" /\ view.paused = FALSE /\ view.stopRequested = FALSE
    /\ thread = "Running" =>
          \/ view.controls # "Idle" \/ past.chose
          \/ Len(queue) > 0 /\ queue[1].type = "started"

Ended == worker.pc = "Returned" /\ thread # "Starting"

\* After an image or a result that was late, the worker is kept from the next one.
HaltHolds ==
    /\ \/ past.lateImages = 0
       \/ /\ past.lateImages = 1 /\ worker.pc # "Announce"
          /\ worker.stop = TRUE \/ worker.pause = TRUE \/ Ended
    /\ \/ past.lateResults = 0
       \/ /\ past.lateResults = 1 /\ worker.pc # "Report"
          /\ worker.stop = TRUE \/ Ended

ClosedForGood == closed = TRUE => thread = "None" /\ Len(boxes) = 0

RunInv == Types /\ Numbers /\ QueueShape /\ ViewIsTold /\ HaltHolds /\ ClosedForGood

-----------------------------------------------------------------------------
\* What posting and taking an event do to the queue.
LEMMA Posted ==
    ASSUME queue \in Seq(Events), NEW e \in Events, queue' = Append(queue, e)
    PROVE  /\ queue' \in Seq(Events) /\ Len(queue) \in Nat /\ Len(queue') = Len(queue) + 1
           /\ \A k \in 1 .. Len(queue) : queue'[k] = queue[k]
           /\ queue'[Len(queue) + 1] = e
    OBVIOUS

LEMMA PostedTwo ==
    ASSUME queue \in Seq(Events), NEW e \in Events, NEW f \in Events,
           queue' = queue \o <<e, f>>
    PROVE  /\ queue' \in Seq(Events) /\ Len(queue) \in Nat /\ Len(queue') = Len(queue) + 2
           /\ \A k \in 1 .. Len(queue) : queue'[k] = queue[k]
           /\ queue'[Len(queue) + 1] = e /\ queue'[Len(queue) + 2] = f
    <1>1. <<e, f>> \in Seq(Events) /\ Len(<<e, f>>) = 2 /\ <<e, f>>[1] = e /\ <<e, f>>[2] = f
        OBVIOUS
    <1>2. QED
        BY <1>1

LEMMA Taken ==
    ASSUME queue \in Seq(Events), queue # <<>>, queue' = Tail(queue)
    PROVE  /\ queue' \in Seq(Events) /\ Len(queue) \in Nat /\ Len(queue) >= 1
           /\ Len(queue') = Len(queue) - 1
           /\ \A k \in 1 .. Len(queue') : queue'[k] = queue[k + 1]
           /\ Head(queue) = queue[1] /\ queue[1] \in Events
    OBVIOUS

LEMMA EmptyQueue ==
    ASSUME queue \in Seq(Events)
    PROVE  Len(queue) = 0 <=> queue = <<>>
    OBVIOUS

LEMMA EmptyBoxes ==
    ASSUME boxes \in Seq(Boxes)
    PROVE  Len(boxes) = 0 <=> boxes = <<>>
    OBVIOUS

LEMMA CountsAreNumbers == Counts \subseteq Nat /\ 0 \in Counts
    BY FoldersAreCounts DEF Counts

LEMMA InitRun == Init => RunInv
    <1> SUFFICES ASSUME Init PROVE RunInv
        OBVIOUS
    <1>1. /\ images = 0 /\ thread = "None" /\ queue = <<>> /\ Len(queue) = 0
          /\ boxes = <<>> /\ Len(boxes) = 0 /\ closed = FALSE
          /\ worker = [pc |-> "Returned", index |-> 0, total |-> 0, pause |-> FALSE,
                       stop |-> FALSE]
          /\ view = [paused |-> FALSE, stopRequested |-> FALSE, failed |-> FALSE,
                     total |-> 0, current |-> 0, progress |-> 0,
                     status |-> "Waiting", controls |-> "Idle"]
          /\ past = [total |-> 0, results |-> 0, raised |-> FALSE, lateImages |-> 0,
                     lateResults |-> 0, closing |-> FALSE, chose |-> FALSE]
        BY DEF Init, NewWorker, NothingPast
    <1>2. queue \in Seq(Events) /\ boxes \in Seq(Boxes)
        BY <1>1
    <1>3. worker \in Workers /\ view \in Views /\ past \in Pasts
        BY <1>1, CountsAreNumbers DEF Workers, Views, Pasts, Places, Statuses, Controls
    <1>4. Types
        BY <1>1, <1>2, <1>3, CountsAreNumbers DEF Types, Threads
    <1>5. Numbers /\ QueueShape /\ ViewIsTold /\ HaltHolds /\ ClosedForGood
        BY <1>1 DEF Numbers, QueueShape, ViewIsTold, Unfinished, HaltHolds, ClosedForGood
    <1>6. QED
        BY <1>4, <1>5 DEF RunInv

-----------------------------------------------------------------------------
(* The worker thread.                                                      *)

\* The thread starts, and announces its run to the view.
LEMMA BeginsKeeps == RunInv /\ RunBegins => RunInv'
    <1> SUFFICES ASSUME RunInv, RunBegins PROVE RunInv'
        OBVIOUS
    <1> USE DEF RunInv
    <1> DEFINE e == Event("started", worker.total)
    <1>1. worker \in Workers /\ e \in Events /\ e.type = "started" /\ e.n = worker.total
        BY CountsAreNumbers DEF Types, Workers, Events, Early, Event
    <1>2. /\ thread = "Starting" /\ thread' = "Running" /\ queue' = Append(queue, e)
          /\ worker' = [worker EXCEPT !.pc = "Test", !.index = 1]
          /\ UNCHANGED <<images, view, boxes, closed, past>>
        BY DEF RunBegins
    <1>3. /\ worker' \in Workers /\ worker'.pc = "Test" /\ worker'.index = 1
          /\ worker'.total = worker.total /\ worker'.stop = worker.stop
          /\ worker'.pause = worker.pause
        BY <1>1, <1>2 DEF Workers, Places
    <1>4. /\ queue' \in Seq(Events) /\ Len(queue) = 0 /\ Len(queue') = 1 /\ queue'[1] = e
        BY <1>1, <1>2, Posted DEF Types, QueueShape
    <1>5. Types'
        BY <1>2, <1>3, <1>4 DEF Types, Threads
    <1>6. Numbers'
        BY <1>1, <1>2, <1>3, <1>4 DEF Numbers, Workers
    <1>7. QueueShape'
        BY <1>1, <1>2, <1>3, <1>4 DEF QueueShape, Early
    <1>8. ViewIsTold'
        BY <1>1, <1>2, <1>4 DEF ViewIsTold, Unfinished
    <1>9. HaltHolds'
        BY <1>2, <1>3 DEF HaltHolds, Ended
    <1>10. ClosedForGood'
        BY <1>2 DEF ClosedForGood
    <1>11. QED
        BY <1>5, <1>6, <1>7, <1>8, <1>9, <1>10

\* The steps of the worker that post nothing.
LEMMA QuietKeeps == RunInv /\ (TestFlags \/ TestStop \/ NextImage) => RunInv'
    <1> SUFFICES ASSUME RunInv, TestFlags \/ TestStop \/ NextImage PROVE RunInv'
        OBVIOUS
    <1> USE DEF RunInv
    <1>1. worker \in Workers /\ worker.index \in Nat /\ worker.total \in Nat
        BY CountsAreNumbers DEF Types, Workers
    <1>2. /\ UNCHANGED <<images, thread, queue, view, boxes, closed, past>>
          /\ worker.pc # "Returned" /\ worker.index >= 1
        BY DEF TestFlags, TestStop, NextImage, Numbers
    <1>3. /\ worker' \in Workers /\ worker'.pc # "Returned" /\ worker'.index >= 1
          /\ worker'.total = worker.total /\ worker'.stop = worker.stop
          /\ worker'.pause = worker.pause
          /\ worker'.pc = "Announce" =>
                worker'.index <= worker.total /\ worker.stop = FALSE /\ worker.pause = FALSE
          /\ worker'.pc = "Report" => worker.stop = FALSE
        <2>1. CASE TestFlags
            BY <1>1, <1>2, <2>1 DEF TestFlags, Workers, Places
        <2>2. CASE TestStop
            BY <1>1, <1>2, <2>2 DEF TestStop, Workers, Places
        <2>3. CASE NextImage
            <3>1. worker' = [worker EXCEPT !.pc = "Test", !.index = worker.index + 1]
                BY <2>3 DEF NextImage
            <3>2. worker.index + 1 \in Nat /\ worker.index + 1 >= 1
                BY <1>1, <1>2
            <3>3. /\ worker' \in Workers /\ worker'.pc = "Test"
                  /\ worker'.index = worker.index + 1
                  /\ worker'.total = worker.total /\ worker'.stop = worker.stop
                  /\ worker'.pause = worker.pause
                BY <1>1, <3>1, <3>2 DEF Workers, Places
            <3>4. QED
                BY <3>2, <3>3
        <2>4. QED
            BY <2>1, <2>2, <2>3
    <1>4. Types'
        BY <1>2, <1>3 DEF Types
    <1>5. Numbers'
        BY <1>2, <1>3 DEF Numbers
    <1>6. QueueShape'
        BY <1>2, <1>3 DEF QueueShape
    <1>7. ViewIsTold'
        BY <1>2 DEF ViewIsTold, Unfinished
    <1>8. HaltHolds'
        BY <1>2, <1>3 DEF HaltHolds, Ended
    <1>9. ClosedForGood'
        BY <1>2 DEF ClosedForGood
    <1>10. QED
        BY <1>4, <1>5, <1>6, <1>7, <1>8, <1>9

\* The worker posts one of its early events, and stays at its run.
LEMMA PostKeeps ==
    ASSUME RunInv, NEW e \in Events, e.type \in Early \ {"started"},
           e.type = "image_started" => e.n \in 1 .. worker.total,
           worker.pc # "Returned", worker'.pc # "Returned", queue' = Append(queue, e),
           UNCHANGED <<images, thread, view, boxes, closed>>,
           worker' \in Workers, past' \in Pasts, worker'.pc # "Announce",
           worker'.total = worker.total, worker'.index = worker.index,
           past'.chose = past.chose, HaltHolds'
    PROVE  RunInv'
    <1> USE DEF RunInv
    <1>1. /\ queue' \in Seq(Events) /\ Len(queue) \in Nat /\ Len(queue') = Len(queue) + 1
          /\ \A k \in 1 .. Len(queue) : queue'[k] = queue[k]
          /\ queue'[Len(queue) + 1] = e
        BY Posted DEF Types
    <1>2. thread = "Running"
        BY DEF QueueShape
    <1>3. Types'
        BY <1>1 DEF Types
    <1>4. Numbers'
        BY <1>1 DEF Numbers, Early
    <1>5. QueueShape'
        BY <1>1, <1>2 DEF QueueShape
    <1>6. ViewIsTold'
        BY <1>1, <1>2 DEF ViewIsTold, Unfinished
    <1>7. ClosedForGood'
        BY DEF ClosedForGood
    <1>8. QED
        BY <1>3, <1>4, <1>5, <1>6, <1>7

LEMMA AnnounceKeeps == RunInv /\ AnnounceImage => RunInv'
    <1> SUFFICES ASSUME RunInv, AnnounceImage PROVE RunInv'
        OBVIOUS
    <1> DEFINE e == Event("image_started", worker.index)
    <1>1. /\ worker \in Workers /\ past \in Pasts /\ worker.pc = "Announce"
          /\ worker.index \in 1 .. worker.total
        BY CountsAreNumbers DEF RunInv, Types, Numbers, Workers, AnnounceImage
    <1>2. e \in Events /\ e.type = "image_started" /\ e.n = worker.index
        BY <1>1 DEF Events, Early, Event, Workers
    <1>3. /\ worker' = [worker EXCEPT !.pc = "Inspect"] /\ queue' = Append(queue, e)
          /\ past' = [past EXCEPT !.lateImages = IF worker.stop \/ worker.pause
                                                THEN @ + 1 ELSE @]
          /\ UNCHANGED <<images, thread, view, boxes, closed>>
        BY DEF AnnounceImage
    <1>4. /\ worker' \in Workers /\ worker'.pc = "Inspect" /\ worker'.index = worker.index
          /\ worker'.total = worker.total /\ worker'.stop = worker.stop
          /\ worker'.pause = worker.pause
        BY <1>1, <1>3 DEF Workers, Places
    <1>5. past.lateImages = 0
        BY <1>1 DEF RunInv, HaltHolds
    <1>6. /\ past' \in Pasts /\ past'.chose = past.chose
          /\ past'.lateResults = past.lateResults
          /\ \/ past'.lateImages = 0
             \/ past'.lateImages = 1 /\ (worker.stop = TRUE \/ worker.pause = TRUE)
        <2>1. CASE worker.stop = TRUE \/ worker.pause = TRUE
            <3>1. past' = [past EXCEPT !.lateImages = 1]
                BY <1>3, <1>5, <2>1
            <3>2. QED
                BY <1>1, <2>1, <3>1 DEF Pasts
        <2>2. CASE worker.stop = FALSE /\ worker.pause = FALSE
            <3>1. past' = [past EXCEPT !.lateImages = 0]
                BY <1>3, <1>5, <2>2
            <3>2. QED
                BY <1>1, <1>5, <2>2, <3>1 DEF Pasts
        <2>3. QED
            BY <1>1, <2>1, <2>2 DEF Workers
    <1>7. HaltHolds'
        BY <1>1, <1>4, <1>6 DEF RunInv, HaltHolds, Ended
    <1>8. QED
        BY <1>1, <1>2, <1>3, <1>4, <1>6, <1>7, PostKeeps DEF Early

LEMMA InspectKeeps == RunInv /\ InspectImage => RunInv'
    <1> SUFFICES ASSUME RunInv, InspectImage PROVE RunInv'
        OBVIOUS
    <1> DEFINE e == Event("error", 0)
    <1>1. worker \in Workers /\ past \in Pasts /\ worker.pc = "Inspect"
        BY DEF RunInv, Types, InspectImage
    <1>2. e \in Events /\ e.type = "error"
        BY DEF Events, Early, Event
    <1>3. UNCHANGED <<images, thread, view, boxes, closed>>
        BY DEF InspectImage
    <1>4. CASE /\ worker' = [worker EXCEPT !.pc = "Inspected"]
               /\ UNCHANGED <<queue, past>>
        <2>1. /\ worker' \in Workers /\ worker'.pc = "Inspected"
              /\ worker'.index = worker.index
              /\ worker'.total = worker.total /\ worker'.stop = worker.stop
              /\ worker'.pause = worker.pause
            BY <1>1, <1>4 DEF Workers, Places
        <2>2. Types'
            BY <1>3, <1>4, <2>1 DEF RunInv, Types
        <2>3. Numbers'
            BY <1>1, <1>3, <1>4, <2>1 DEF RunInv, Numbers
        <2>4. QueueShape'
            BY <1>1, <1>3, <1>4, <2>1 DEF RunInv, QueueShape
        <2>5. ViewIsTold' /\ ClosedForGood'
            BY <1>3, <1>4 DEF RunInv, ViewIsTold, Unfinished, ClosedForGood
        <2>6. HaltHolds'
            BY <1>1, <1>3, <1>4, <2>1 DEF RunInv, HaltHolds, Ended
        <2>7. QED
            BY <2>2, <2>3, <2>4, <2>5, <2>6 DEF RunInv
    <1>5. CASE /\ worker' = [worker EXCEPT !.pc = "Finally"]
               /\ queue' = Append(queue, e) /\ past' = [past EXCEPT !.raised = TRUE]
        <2>1. /\ worker' \in Workers /\ worker'.pc = "Finally"
              /\ worker'.index = worker.index
              /\ worker'.total = worker.total /\ worker'.stop = worker.stop
              /\ worker'.pause = worker.pause
            BY <1>1, <1>5 DEF Workers, Places
        <2>2. /\ past' \in Pasts /\ past'.chose = past.chose
              /\ past'.lateImages = past.lateImages
              /\ past'.lateResults = past.lateResults
            BY <1>1, <1>5 DEF Pasts
        <2>3. HaltHolds'
            BY <1>1, <2>1, <2>2 DEF RunInv, HaltHolds, Ended
        <2>4. QED
            BY <1>1, <1>2, <1>3, <1>5, <2>1, <2>2, <2>3, PostKeeps DEF Early
    <1>6. QED
        BY <1>4, <1>5 DEF InspectImage

LEMMA ReportKeeps == RunInv /\ ReportResult => RunInv'
    <1> SUFFICES ASSUME RunInv, ReportResult PROVE RunInv'
        OBVIOUS
    <1> DEFINE e == Event("result_ready", worker.index)
    <1>1. worker \in Workers /\ past \in Pasts /\ worker.pc = "Report"
        BY DEF RunInv, Types, ReportResult
    <1>2. e \in Events /\ e.type = "result_ready"
        BY <1>1 DEF Events, Early, Event, Workers
    <1>3. /\ worker' = [worker EXCEPT !.pc = "Between"] /\ queue' = Append(queue, e)
          /\ past' = [past EXCEPT !.results = @ + 1,
                                  !.lateResults = IF worker.stop THEN @ + 1 ELSE @]
          /\ UNCHANGED <<images, thread, view, boxes, closed>>
        BY DEF ReportResult
    <1>4. /\ worker' \in Workers /\ worker'.pc = "Between" /\ worker'.index = worker.index
          /\ worker'.total = worker.total /\ worker'.stop = worker.stop
          /\ worker'.pause = worker.pause
        BY <1>1, <1>3 DEF Workers, Places
    <1>5. past.lateResults = 0
        BY <1>1 DEF RunInv, HaltHolds
    <1>6. /\ past' \in Pasts /\ past'.chose = past.chose
          /\ past'.lateImages = past.lateImages
          /\ \/ past'.lateResults = 0
             \/ past'.lateResults = 1 /\ worker.stop = TRUE
        <2> DEFINE r == past.results + 1
        <2>0. r \in Nat /\ past.lateResults + 1 = 1
            BY <1>1, <1>5 DEF Pasts
        <2>1. CASE worker.stop = TRUE
            <3>1. past' = [past EXCEPT !.results = r, !.lateResults = 1]
                BY <1>3, <2>0, <2>1
            <3>2. QED
                BY <1>1, <2>0, <2>1, <3>1 DEF Pasts
        <2>2. CASE worker.stop = FALSE
            <3>1. past' = [past EXCEPT !.results = r, !.lateResults = 0]
                BY <1>3, <1>5, <2>2
            <3>2. QED
                BY <1>1, <2>0, <3>1 DEF Pasts
        <2>3. QED
            BY <1>1, <2>1, <2>2 DEF Workers
    <1>7. HaltHolds'
        BY <1>1, <1>4, <1>6 DEF RunInv, HaltHolds, Ended
    <1>8. QED
        BY <1>1, <1>2, <1>3, <1>4, <1>6, <1>7, PostKeeps DEF Early

LEMMA ReturnKeeps == RunInv /\ RunReturns => RunInv'
    <1> SUFFICES ASSUME RunInv, RunReturns PROVE RunInv'
        OBVIOUS
    <1> USE DEF RunInv
    <1> DEFINE q == Event("quit", 0)
               f == Event("finished", 0)
    <1>1. worker \in Workers /\ worker.pc = "Finally" /\ thread = "Running"
        BY DEF Types, RunReturns, QueueShape
    <1>2. q \in Events /\ f \in Events /\ q.type = "quit" /\ f.type = "finished"
        BY DEF Events, Early, Event
    <1>3. /\ worker' = [worker EXCEPT !.pc = "Returned"] /\ queue' = queue \o <<q, f>>
          /\ UNCHANGED <<images, thread, view, boxes, closed, past>>
        BY DEF RunReturns
    <1>4. /\ queue' \in Seq(Events) /\ Len(queue) \in Nat /\ Len(queue') = Len(queue) + 2
          /\ \A k \in 1 .. Len(queue) : queue'[k] = queue[k]
          /\ queue'[Len(queue) + 1] = q /\ queue'[Len(queue) + 2] = f
        BY <1>2, <1>3, PostedTwo DEF Types
    <1>5. /\ worker' \in Workers /\ worker'.pc = "Returned" /\ worker'.index = worker.index
          /\ worker'.total = worker.total /\ worker'.stop = worker.stop
          /\ worker'.pause = worker.pause
        BY <1>1, <1>3 DEF Workers, Places
    <1>6. Types'
        BY <1>3, <1>4, <1>5 DEF Types
    <1>7. Numbers'
        <2>1. ASSUME NEW k \in 1 .. Len(queue')
              PROVE  \/ k \in 1 .. Len(queue) /\ queue'[k] = queue[k]
                     \/ queue'[k].type \in {"quit", "finished"}
            BY <1>2, <1>4
        <2>2. QED
            BY <1>3, <1>5, <2>1 DEF Numbers
    <1>8. QueueShape'
        <2>1. \A k \in 1 .. Len(queue) : queue[k].type \in Early
            BY <1>1 DEF QueueShape
        <2>2. QED
            BY <1>1, <1>2, <1>3, <1>4, <1>5, <2>1 DEF QueueShape
    <1>9. ViewIsTold'
        BY <1>1, <1>3, <1>4 DEF ViewIsTold, Unfinished
    <1>10. HaltHolds'
        BY <1>1, <1>3, <1>5 DEF HaltHolds, Ended
    <1>11. ClosedForGood'
        BY <1>3 DEF ClosedForGood
    <1>12. QED
        BY <1>6, <1>7, <1>8, <1>9, <1>10, <1>11

LEMMA EndsKeeps == RunInv /\ ThreadEnds => RunInv'
    <1> SUFFICES ASSUME RunInv, ThreadEnds PROVE RunInv'
        OBVIOUS
    <1> USE DEF RunInv
    <1> DEFINE e == Event("cleanup", 0)
    <1>1. e \in Events /\ e.type = "cleanup"
        BY DEF Events, Early, Event
    <1>2. /\ thread = "Quitting" /\ thread' = "Ended" /\ queue' = Append(queue, e)
          /\ UNCHANGED <<images, worker, view, boxes, closed, past>>
        BY DEF ThreadEnds
    <1>3. /\ queue' \in Seq(Events) /\ Len(queue) \in Nat /\ Len(queue') = Len(queue) + 1
          /\ \A k \in 1 .. Len(queue) : queue'[k] = queue[k]
          /\ queue'[Len(queue) + 1] = e
        BY <1>1, <1>2, Posted DEF Types
    <1>4. Len(queue) = 0 \/ (Len(queue) = 1 /\ queue[1].type = "finished")
        BY <1>2 DEF QueueShape
    <1>5. Types'
        BY <1>2, <1>3 DEF Types, Threads
    <1>6. Numbers'
        BY <1>1, <1>2, <1>3, <1>4 DEF Numbers
    <1>7. QueueShape'
        BY <1>1, <1>2, <1>3, <1>4 DEF QueueShape
    <1>8. ViewIsTold'
        BY <1>1, <1>2, <1>3, <1>4 DEF ViewIsTold, Unfinished
    <1>9. HaltHolds'
        BY <1>2 DEF HaltHolds, Ended
    <1>10. ClosedForGood'
        BY <1>2 DEF ClosedForGood
    <1>11. QED
        BY <1>5, <1>6, <1>7, <1>8, <1>9, <1>10

LEMMA WorkerKeeps == RunInv /\ WorkerStep => RunInv'
    BY BeginsKeeps, QuietKeeps, AnnounceKeeps, InspectKeeps, ReportKeeps, ReturnKeeps,
       EndsKeeps DEF WorkerStep

-----------------------------------------------------------------------------
(* The main thread: events.                                                *)

\* The events of a run reach the view while its thread runs.
LEMMA EarlyTaken ==
    ASSUME RunInv, queue # <<>>, queue[1].type \in Early, queue' = Tail(queue),
           UNCHANGED <<thread, worker>>
    PROVE  thread = "Running" /\ QueueShape' /\ queue' \in Seq(Events)
    <1>1. /\ queue' \in Seq(Events) /\ Len(queue) \in Nat /\ Len(queue) >= 1
          /\ Len(queue') = Len(queue) - 1
          /\ \A k \in 1 .. Len(queue') : queue'[k] = queue[k + 1]
        BY Taken DEF RunInv, Types
    <1>2. QueueShape /\ thread \in Threads
        BY DEF RunInv, Types
    <1>3. thread = "Running"
        BY <1>1, <1>2 DEF QueueShape, Threads, Early
    <1>4. CASE worker.pc # "Returned"
        <2>1. \A k \in 1 .. Len(queue') : queue'[k].type \in Early
            BY <1>1, <1>2, <1>3, <1>4 DEF QueueShape
        <2>2. QED
            BY <1>1, <1>3, <1>4, <2>1 DEF QueueShape
    <1>5. CASE worker.pc = "Returned"
        <2>1. /\ Len(queue) >= 2
              /\ \A k \in 1 .. Len(queue) - 2 : queue[k].type \in Early
              /\ queue[Len(queue) - 1].type = "quit" /\ queue[Len(queue)].type = "finished"
            BY <1>2, <1>3, <1>5 DEF QueueShape
        <2>2. Len(queue) # 2
            BY <2>1 DEF Early
        <2>3. Len(queue') >= 2 /\ Len(queue') = Len(queue) - 1 /\ Len(queue') \in Nat
            BY <1>1, <2>1, <2>2
        <2>4. ASSUME NEW k \in 1 .. Len(queue') - 2
              PROVE  queue'[k].type \in Early
            <3>1. k \in 1 .. Len(queue') /\ k + 1 \in 1 .. Len(queue) - 2
                BY <1>1, <2>3
            <3>2. QED
                BY <1>1, <2>1, <3>1
        <2>5. /\ queue'[Len(queue') - 1] = queue[Len(queue) - 1]
              /\ queue'[Len(queue')] = queue[Len(queue)]
            <3>1. /\ Len(queue') - 1 \in 1 .. Len(queue') /\ Len(queue') \in 1 .. Len(queue')
                  /\ Len(queue') - 1 + 1 = Len(queue) - 1 /\ Len(queue') + 1 = Len(queue)
                BY <1>1, <2>3
            <3>2. /\ queue'[Len(queue') - 1] = queue[Len(queue') - 1 + 1]
                  /\ queue'[Len(queue')] = queue[Len(queue') + 1]
                BY <1>1, <3>1
            <3>3. QED
                BY <1>1, <2>3, <3>1, <3>2
        <2>6. /\ Len(queue') >= 2
              /\ \A k \in 1 .. Len(queue') - 2 : queue'[k].type \in Early
              /\ queue'[Len(queue') - 1].type = "quit" /\ queue'[Len(queue')].type = "finished"
            BY <2>1, <2>3, <2>4, <2>5
        <2>7. thread' = "Running" /\ worker'.pc = "Returned"
            BY <1>3, <1>5
        <2>8. QED
            BY <1>1, <1>3, <2>6, <2>7 DEF QueueShape
    <1>6. QED
        BY <1>1, <1>3, <1>4, <1>5

\* What the events left in the queue say is still true.
LEMMA RestOfNumbers ==
    ASSUME RunInv, queue # <<>>, queue' = Tail(queue), UNCHANGED worker,
           view' \in Views, view'.progress <= view'.total, view'.current <= view'.total
    PROVE  Numbers'
    <1>1. /\ Len(queue) \in Nat /\ Len(queue) >= 1 /\ Len(queue') = Len(queue) - 1
          /\ \A k \in 1 .. Len(queue') : queue'[k] = queue[k + 1]
        BY Taken DEF RunInv, Types
    <1>2. \A k \in 1 .. Len(queue') : k + 1 \in 1 .. Len(queue)
        BY <1>1
    <1>3. QED
        BY <1>1, <1>2 DEF RunInv, Numbers

\* The view follows an event of the run; buttons and memory as the event says.
LEMMA EarlyKeeps ==
    ASSUME RunInv, queue # <<>>, queue[1].type \in Early, queue' = Tail(queue),
           UNCHANGED <<images, thread, worker, closed, past>>,
           closed = FALSE, boxes' \in Seq(Boxes), view' \in Views,
           view'.progress <= view'.total, view'.current <= view'.total,
           \/ view'.controls = "Running"
           \/ queue[1].type # "started" /\ view'.controls = view.controls
    PROVE  RunInv'
    <1>1. thread = "Running" /\ QueueShape' /\ queue' \in Seq(Events)
        BY EarlyTaken
    <1>2. Types'
        BY <1>1 DEF RunInv, Types
    <1>3. Numbers'
        BY RestOfNumbers
    <1>4. ViewIsTold'
        BY <1>1 DEF RunInv, ViewIsTold, Unfinished
    <1>5. HaltHolds'
        BY DEF RunInv, HaltHolds, Ended
    <1>6. ClosedForGood'
        BY DEF ClosedForGood
    <1>7. QED
        BY <1>1, <1>2, <1>3, <1>4, <1>5, <1>6 DEF RunInv

LEMMA StartedKeeps ==
    ASSUME RunInv, queue # <<>>, queue[1].type = "started", queue' = Tail(queue),
           OnStarted(queue[1].n), UNCHANGED <<images, thread, worker, boxes, closed, past>>,
           closed = FALSE
    PROVE  RunInv'
    <1>1. view \in Views /\ boxes \in Seq(Boxes) /\ Len(queue) \in Nat /\ Len(queue) >= 1
        BY Taken DEF RunInv, Types
    <1>2. queue[1].n \in Counts
        BY <1>1 DEF RunInv, Numbers
    <1>3. /\ view' \in Views /\ view'.progress = 0 /\ view'.current = 0
          /\ view'.total = queue[1].n /\ view'.controls = "Running"
        BY <1>1, <1>2 DEF OnStarted, Views, Statuses, Controls
    <1>4. view'.progress <= view'.total /\ view'.current <= view'.total
        <2>1. view'.total \in Nat
            BY <1>2, <1>3, CountsAreNumbers
        <2>2. QED
            BY <1>3, <2>1
    <1>5. QED
        BY <1>1, <1>3, <1>4, EarlyKeeps DEF Early

LEMMA ImageStartedKeeps ==
    ASSUME RunInv, queue # <<>>, queue[1].type = "image_started", queue' = Tail(queue),
           OnImageStarted(queue[1].n),
           UNCHANGED <<images, thread, worker, boxes, closed, past>>, closed = FALSE
    PROVE  RunInv'
    <1> DEFINE n == queue[1].n
               p == n - 1
    <1>1. /\ view \in Views /\ boxes \in Seq(Boxes) /\ worker.total \in Counts
          /\ Len(queue) \in Nat /\ Len(queue) >= 1
        BY Taken DEF RunInv, Types, Workers
    <1>2. n \in 1 .. worker.total
        BY <1>1 DEF RunInv, Numbers
    <1>3. n \in Nat /\ p \in Nat /\ p <= worker.total /\ n <= worker.total
        <2>1. worker.total \in Nat
            BY <1>1, CountsAreNumbers
        <2>2. QED
            BY <1>2, <2>1
    <1>4. view' = [view EXCEPT !.current = n, !.total = worker.total,
                               !.progress = p, !.status = "Inspecting"]
        BY DEF OnImageStarted
    <1> HIDE DEF n, p
    <1>5. /\ view' \in Views /\ view'.progress = p /\ view'.current = n
          /\ view'.total = worker.total /\ view'.controls = view.controls
        BY <1>1, <1>3, <1>4 DEF Views, Statuses
    <1>6. view'.progress <= view'.total /\ view'.current <= view'.total
        BY <1>3, <1>5
    <1>7. QED
        BY <1>1, <1>5, <1>6, EarlyKeeps DEF Early

LEMMA ResultReadyKeeps ==
    ASSUME RunInv, queue # <<>>, queue[1].type = "result_ready", queue' = Tail(queue),
           OnResultReady, UNCHANGED <<images, thread, worker, boxes, closed, past>>,
           closed = FALSE
    PROVE  RunInv'
    <1>1. /\ view \in Views /\ boxes \in Seq(Boxes) /\ view.current \in Nat
          /\ view.current <= view.total
        BY DEF RunInv, Types, Numbers, Views
    <1>2. /\ view' \in Views /\ view'.progress = view.current
          /\ view'.current = view.current /\ view'.total = view.total
          /\ view'.controls = view.controls
        BY <1>1 DEF OnResultReady, Views
    <1>3. QED
        BY <1>1, <1>2, EarlyKeeps DEF Early

\* A box that opens on others.
LEMMA BoxOpened ==
    ASSUME boxes \in Seq(Boxes), NEW b \in Boxes
    PROVE  <<b>> \o boxes \in Seq(Boxes) /\ <<b>> \in Seq(Boxes)
    <1>1. <<b>> \in Seq(Boxes)
        OBVIOUS
    <1>2. QED
        BY <1>1

LEMMA ErrorKeeps ==
    ASSUME RunInv, queue # <<>>, queue[1].type = "error", queue' = Tail(queue),
           OnError, UNCHANGED <<images, thread, worker, closed, past>>, closed = FALSE
    PROVE  RunInv'
    <1>1. /\ view \in Views /\ boxes' \in Seq(Boxes)
          /\ view.progress <= view.total /\ view.current <= view.total
        BY BoxOpened DEF RunInv, Types, Numbers, Boxes, OnError
    <1>2. view' = [view EXCEPT !.status = "Error", !.failed = TRUE]
        BY <1>1 DEF OnError, ShowError, Views
    <1>3. /\ view' \in Views /\ view'.progress = view.progress
          /\ view'.current = view.current /\ view'.total = view.total
          /\ view'.controls = view.controls
        BY <1>1, <1>2 DEF Views, Statuses
    <1>4. QED
        BY <1>1, <1>3, EarlyKeeps DEF Early

\* The quit of the thread comes when all it had to say of its run is said.
LEMMA QuitKeeps ==
    ASSUME RunInv, queue # <<>>, queue[1].type = "quit", queue' = Tail(queue),
           thread' = "Quitting", UNCHANGED <<images, worker, view, boxes, closed, past>>,
           closed = FALSE
    PROVE  RunInv'
    <1>1. /\ queue' \in Seq(Events) /\ Len(queue) \in Nat /\ Len(queue) >= 1
          /\ Len(queue') = Len(queue) - 1
          /\ \A k \in 1 .. Len(queue') : queue'[k] = queue[k + 1]
        BY Taken DEF RunInv, Types
    <1>2. QueueShape /\ thread \in Threads
        BY DEF RunInv, Types
    <1>3. thread = "Running" /\ worker.pc = "Returned"
        BY <1>1, <1>2 DEF QueueShape, Threads, Early
    <1>4. Len(queue) = 2 /\ queue[2].type = "finished"
        BY <1>1, <1>2, <1>3 DEF QueueShape, Early
    <1>5. Len(queue') = 1 /\ queue'[1].type = "finished"
        <2>1. Len(queue') = 1
            BY <1>1, <1>4
        <2>2. 1 \in 1 .. Len(queue') /\ 1 + 1 = 2
            BY <2>1
        <2>3. queue'[1] = queue[2]
            BY <1>1, <2>2
        <2>4. QED
            BY <1>4, <2>1, <2>3
    <1>6. Types'
        BY <1>1 DEF RunInv, Types, Threads
    <1>7. Numbers'
        BY RestOfNumbers DEF RunInv, Types, Numbers
    <1>8. QueueShape'
        BY <1>3, <1>5 DEF QueueShape
    <1>9. ViewIsTold'
        BY <1>5 DEF ViewIsTold, Unfinished
    <1>10. HaltHolds'
        BY <1>3 DEF RunInv, HaltHolds, Ended
    <1>11. ClosedForGood'
        BY DEF ClosedForGood
    <1>12. QED
        BY <1>6, <1>7, <1>8, <1>9, <1>10, <1>11 DEF RunInv

LEMMA FinishedView ==
    ASSUME view \in Views, OnFinished
    PROVE  /\ view' \in Views /\ view'.controls = "Idle" /\ view'.paused = FALSE
           /\ view'.stopRequested = FALSE /\ view'.total = view.total
           /\ view'.current \in {0, view.current}
           /\ view'.progress \in {0, view.progress, view.total}
    <1> DEFINE idle == [view EXCEPT !.paused = FALSE, !.stopRequested = FALSE,
                                    !.failed = FALSE, !.controls = "Idle"]
    <1>1. /\ idle \in Views /\ idle.controls = "Idle" /\ idle.paused = FALSE
          /\ idle.stopRequested = FALSE /\ idle.total = view.total
          /\ idle.current = view.current /\ idle.progress = view.progress
          /\ view.total \in Nat
        BY CountsAreNumbers DEF Views, Controls
    <1>2. \/ view' = [idle EXCEPT !.current = 0, !.progress = 0, !.status = "Waiting"]
          \/ view' = [idle EXCEPT !.status = "Error"]
          \/ view' = [idle EXCEPT !.progress = view.total, !.status = "Done"]
        BY DEF OnFinished
    <1> HIDE DEF idle
    <1>3. CASE view' = [idle EXCEPT !.current = 0, !.progress = 0, !.status = "Waiting"]
        BY <1>1, <1>3 DEF Views, Statuses
    <1>4. CASE view' = [idle EXCEPT !.status = "Error"]
        BY <1>1, <1>4 DEF Views, Statuses
    <1>5. CASE view' = [idle EXCEPT !.progress = view.total, !.status = "Done"]
        BY <1>1, <1>5 DEF Views, Statuses
    <1>6. QED
        BY <1>2, <1>3, <1>4, <1>5

LEMMA FinishedKeeps ==
    ASSUME RunInv, queue # <<>>, queue[1].type = "finished", queue' = Tail(queue),
           OnFinished, UNCHANGED <<images, thread, worker, boxes, closed, past>>,
           closed = FALSE
    PROVE  RunInv'
    <1>1. /\ queue' \in Seq(Events) /\ Len(queue) \in Nat /\ Len(queue) >= 1
          /\ Len(queue') = Len(queue) - 1
          /\ \A k \in 1 .. Len(queue') : queue'[k] = queue[k + 1]
        BY Taken DEF RunInv, Types
    <1>2. /\ view \in Views /\ QueueShape /\ thread \in Threads
          /\ view.total \in Nat /\ view.current <= view.total
          /\ view.progress <= view.total
        BY CountsAreNumbers DEF RunInv, Types, Numbers, Views
    <1>3. /\ view' \in Views /\ view'.controls = "Idle" /\ view'.paused = FALSE
          /\ view'.stopRequested = FALSE /\ view'.total = view.total
          /\ view'.current \in {0, view.current}
          /\ view'.progress \in {0, view.progress, view.total}
        BY <1>2, FinishedView
    <1>4. thread \in {"Quitting", "Ended"} /\ worker.pc = "Returned"
        BY <1>1, <1>2 DEF QueueShape, Threads, Early
    <1>5. /\ thread = "Quitting" => Len(queue') = 0
          /\ thread = "Ended" => Len(queue') = 1 /\ queue'[1].type = "cleanup"
        <2>1. /\ thread = "Quitting" => Len(queue) = 1
              /\ thread = "Ended" => Len(queue) = 2 /\ queue[2].type = "cleanup"
            BY <1>1, <1>2 DEF QueueShape
        <2>2. CASE thread = "Quitting"
            <3>1. Len(queue) = 1
                BY <2>1, <2>2
            <3>2. Len(queue') = 0
                BY <1>1, <3>1
            <3>3. QED
                BY <2>2, <3>2
        <2>3. CASE thread = "Ended"
            <3>0. Len(queue) = 2 /\ queue[2].type = "cleanup"
                BY <2>1, <2>3
            <3>1. Len(queue') = 1
                BY <1>1, <3>0
            <3>2. 1 \in 1 .. Len(queue') /\ 1 + 1 = 2
                BY <3>1
            <3>3. queue'[1] = queue[2]
                BY <1>1, <3>2
            <3>4. QED
                BY <2>3, <3>0, <3>1, <3>3
        <2>4. QED
            BY <1>4, <2>2, <2>3
    <1>6. Types'
        BY <1>1, <1>3 DEF RunInv, Types
    <1>7. Numbers'
        BY <1>2, <1>3, RestOfNumbers
    <1>8. QueueShape'
        BY <1>4, <1>5 DEF QueueShape
    <1>9. ViewIsTold'
        BY <1>3, <1>4 DEF ViewIsTold
    <1>10. HaltHolds'
        BY DEF RunInv, HaltHolds, Ended
    <1>11. ClosedForGood'
        BY DEF ClosedForGood
    <1>12. QED
        BY <1>6, <1>7, <1>8, <1>9, <1>10, <1>11 DEF RunInv

LEMMA NewWorkerIs ==
    ASSUME NEW m \in Counts
    PROVE  /\ NewWorker("Returned", m) \in Workers
           /\ NewWorker("Returned", m).pc = "Returned"
           /\ NewWorker("Returned", m).total = m
    BY DEF NewWorker, Workers, Places

LEMMA CleanupKeeps ==
    ASSUME RunInv, queue # <<>>, queue[1].type = "cleanup", queue' = Tail(queue),
           CleanupThread, UNCHANGED <<images, view, boxes, closed, past>>, closed = FALSE
    PROVE  RunInv'
    <1>1. /\ queue' \in Seq(Events) /\ Len(queue) \in Nat /\ Len(queue) >= 1
          /\ Len(queue') = Len(queue) - 1
        BY Taken DEF RunInv, Types
    <1>2. QueueShape /\ thread \in Threads
        BY DEF RunInv, Types
    <1>3. thread = "Ended" /\ Len(queue) = 1
        BY <1>1, <1>2 DEF QueueShape, Threads, Early
    <1>4. Len(queue') = 0
        BY <1>1, <1>3
    <1>5. thread' = "None" /\ worker' \in Workers /\ worker'.pc = "Returned"
        BY NewWorkerIs, CountsAreNumbers DEF CleanupThread
    <1>6. Types'
        BY <1>1, <1>5 DEF RunInv, Types, Threads
    <1>7. Numbers'
        <2>1. \A k \in 1 .. Len(queue') : FALSE
            <3>1. ASSUME NEW k \in 1 .. 0 PROVE FALSE
                OBVIOUS
            <3>2. QED
                BY <1>4, <3>1
        <2>2. view' = view /\ view.progress <= view.total /\ view.current <= view.total
            BY DEF RunInv, Numbers
        <2>3. worker'.pc # "Announce"
            BY <1>5
        <2>4. QED
            BY <1>5, <2>1, <2>2, <2>3 DEF Numbers
    <1>8. QueueShape'
        BY <1>4, <1>5 DEF QueueShape
    <1>9. ViewIsTold'
        BY <1>3, <1>5 DEF RunInv, ViewIsTold, Unfinished
    <1>10. HaltHolds'
        BY <1>5 DEF RunInv, HaltHolds, Ended
    <1>11. ClosedForGood'
        BY DEF ClosedForGood
    <1>12. QED
        BY <1>6, <1>7, <1>8, <1>9, <1>10, <1>11 DEF RunInv

LEMMA EventKeeps == RunInv /\ HandleEvent => RunInv'
    <1> SUFFICES ASSUME RunInv, HandleEvent PROVE RunInv'
        OBVIOUS
    <1>1. /\ queue # <<>> /\ queue' = Tail(queue) /\ closed = FALSE
          /\ UNCHANGED <<images, closed, past>> /\ Head(queue) = queue[1]
        BY Taken DEF RunInv, Types, HandleEvent
    <1>2. \/ /\ queue[1].type = "started" /\ OnStarted(queue[1].n)
             /\ UNCHANGED <<thread, worker, boxes>>
          \/ /\ queue[1].type = "image_started" /\ OnImageStarted(queue[1].n)
             /\ UNCHANGED <<thread, worker, boxes>>
          \/ /\ queue[1].type = "result_ready" /\ OnResultReady
             /\ UNCHANGED <<thread, worker, boxes>>
          \/ /\ queue[1].type = "error" /\ OnError
             /\ UNCHANGED <<thread, worker>>
          \/ /\ queue[1].type = "quit" /\ thread' = "Quitting"
             /\ UNCHANGED <<worker, view, boxes>>
          \/ /\ queue[1].type = "finished" /\ OnFinished
             /\ UNCHANGED <<thread, worker, boxes>>
          \/ /\ queue[1].type = "cleanup" /\ CleanupThread
             /\ UNCHANGED <<view, boxes>>
        BY <1>1, Zenon DEF HandleEvent
    <1>3. QED
        BY <1>1, <1>2, StartedKeeps, ImageStartedKeeps, ResultReadyKeeps, ErrorKeeps,
           QuitKeeps, FinishedKeeps, CleanupKeeps

-----------------------------------------------------------------------------
(* The main thread: what the user does.                                    *)

\* A click changes no event and moves neither the thread nor its worker.
LEMMA ClickKeeps ==
    ASSUME RunInv, UNCHANGED <<thread, queue>>, images' \in Counts, worker' \in Workers,
           view' \in Views, boxes' \in Seq(Boxes), past' \in Pasts, closed' = FALSE,
           worker'.pc = worker.pc, worker'.index = worker.index,
           worker'.total = worker.total,
           view'.progress <= view'.total, view'.current <= view'.total,
           ViewIsTold', HaltHolds'
    PROVE  RunInv'
    <1>1. Types'
        BY DEF RunInv, Types
    <1>2. Numbers'
        BY DEF RunInv, Numbers
    <1>3. QueueShape'
        BY DEF RunInv, QueueShape
    <1>4. ClosedForGood'
        BY DEF ClosedForGood
    <1>5. QED
        BY <1>1, <1>2, <1>3, <1>4 DEF RunInv

\* A click that only opens or closes boxes, or changes what the view shows.
LEMMA ShownKeeps ==
    ASSUME RunInv, UNCHANGED <<thread, queue, worker>>, images' \in Counts,
           view' \in Views, boxes' \in Seq(Boxes), past' \in Pasts, closed' = FALSE,
           past'.lateImages = past.lateImages, past'.lateResults = past.lateResults,
           past.chose = TRUE => past'.chose = TRUE,
           view'.progress <= view'.total, view'.current <= view'.total,
           view'.paused = view.paused,
           view'.stopRequested \in {view.stopRequested, FALSE},
           \/ view'.controls = view.controls
           \/ view'.controls = "Idle" /\ (thread = "Running" => past'.chose = TRUE)
    PROVE  RunInv'
    <1>1. worker \in Workers
        BY DEF RunInv, Types
    <1>2. ViewIsTold'
        BY DEF RunInv, ViewIsTold, Unfinished
    <1>3. HaltHolds'
        BY DEF RunInv, HaltHolds, Ended
    <1>4. QED
        BY <1>1, <1>2, <1>3, ClickKeeps

\* What an open window tells: nothing has been closed.
LEMMA OpenBoxes ==
    ASSUME RunInv, boxes # <<>>
    PROVE  closed = FALSE /\ Tail(boxes) \in Seq(Boxes)
    <1>1. boxes \in Seq(Boxes) /\ closed \in BOOLEAN
        BY DEF RunInv, Types
    <1>2. Len(boxes) # 0 /\ Tail(boxes) \in Seq(Boxes)
        BY <1>1, EmptyBoxes
    <1>3. QED
        BY <1>1, <1>2 DEF RunInv, ClosedForGood

LEMMA ViewFacts ==
    ASSUME RunInv
    PROVE  /\ view \in Views /\ worker \in Workers /\ past \in Pasts
           /\ boxes \in Seq(Boxes) /\ images \in Counts
           /\ view.progress <= view.total /\ view.current <= view.total
    BY DEF RunInv, Types, Numbers

LEMMA ShowErrorIs ==
    ASSUME view \in Views
    PROVE  /\ ShowError(view) \in Views /\ ShowError(view).paused = view.paused
           /\ ShowError(view).stopRequested = view.stopRequested
           /\ ShowError(view).controls = view.controls
           /\ ShowError(view).total = view.total /\ ShowError(view).current = view.current
           /\ ShowError(view).progress = view.progress
    BY DEF ShowError, Views, Statuses

LEMMA ChooseKeeps == RunInv /\ ChooseFolder => RunInv'
    <1> SUFFICES ASSUME RunInv, ChooseFolder PROVE RunInv'
        OBVIOUS
    <1>1. closed = FALSE /\ <<"folder">> \in Seq(Boxes)
        BY BoxOpened DEF ChooseFolder, Clickable, RunInv, Types, Boxes
    <1>2. QED
        BY <1>1, ViewFacts, ShownKeeps DEF ChooseFolder

LEMMA ChosenKeeps ==
    ASSUME RunInv, NEW n \in Folders, FolderChosen(n)
    PROVE  RunInv'
    <1>1. /\ boxes # <<>> /\ images' = n
          /\ past' = [past EXCEPT !.chose = @ \/ Running]
          /\ UNCHANGED <<thread, worker, queue, closed>>
        BY DEF FolderChosen
    <1>2. /\ closed = FALSE /\ Tail(boxes) \in Seq(Boxes) /\ n \in Counts /\ 0 <= n
          /\ <<"error">> \o Tail(boxes) \in Seq(Boxes)
        <2>1. closed = FALSE /\ Tail(boxes) \in Seq(Boxes)
            BY <1>1, OpenBoxes
        <2>2. <<"error">> \in Seq(Boxes)
            BY DEF Boxes
        <2>3. n \in Nat /\ n \in Counts
            BY FoldersAreCounts DEF Counts
        <2>4. QED
            BY <2>1, <2>2, <2>3
    <1>3. /\ past' \in Pasts /\ past'.lateImages = past.lateImages
          /\ past'.lateResults = past.lateResults
          /\ past.chose = TRUE => past'.chose = TRUE
          /\ thread = "Running" => past'.chose = TRUE
        <2>1. CASE Running \/ past.chose = TRUE
            <3>1. past' = [past EXCEPT !.chose = TRUE]
                BY <1>1, <2>1
            <3>2. QED
                BY <3>1, ViewFacts DEF Pasts
        <2>2. CASE ~Running /\ past.chose = FALSE
            <3>1. past' = [past EXCEPT !.chose = FALSE]
                BY <1>1, <2>2
            <3>2. QED
                BY <2>2, <3>1, ViewFacts DEF Pasts, Running
        <2>3. QED
            BY <2>1, <2>2, ViewFacts DEF Pasts
    <1>4. CASE n = 0
        <2>1. view' = ShowError(view) /\ boxes' = <<"error">> \o Tail(boxes)
            BY <1>4 DEF FolderChosen
        <2>2. QED
            BY <1>1, <1>2, <1>3, <2>1, ViewFacts, ShowErrorIs, ShownKeeps
    <1>5. CASE n # 0
        <2>1. /\ view' = [view EXCEPT !.total = n, !.current = 0, !.progress = 0,
                                      !.status = "Waiting", !.controls = "Idle"]
              /\ boxes' = Tail(boxes)
            BY <1>5 DEF FolderChosen
        <2>2. /\ view' \in Views /\ view'.progress = 0 /\ view'.current = 0
              /\ view'.total = n /\ view'.controls = "Idle"
              /\ view'.paused = view.paused /\ view'.stopRequested = view.stopRequested
            BY <1>2, <2>1, ViewFacts DEF Views, Statuses, Controls
        <2>3. QED
            BY <1>1, <1>2, <1>3, <2>1, <2>2, ShownKeeps
    <1>6. QED
        BY <1>4, <1>5

LEMMA GoneKeeps == RunInv /\ FolderIsGone => RunInv'
    <1> SUFFICES ASSUME RunInv, FolderIsGone PROVE RunInv'
        OBVIOUS
    <1>1. /\ boxes # <<>> /\ view' = ShowError(view)
          /\ boxes' = <<"error">> \o Tail(boxes)
          /\ UNCHANGED <<images, thread, worker, queue, closed, past>>
        BY DEF FolderIsGone
    <1>2. closed = FALSE /\ boxes' \in Seq(Boxes)
        <2>1. closed = FALSE /\ Tail(boxes) \in Seq(Boxes)
            BY <1>1, OpenBoxes
        <2>2. <<"error">> \in Seq(Boxes)
            BY DEF Boxes
        <2>3. QED
            BY <1>1, <2>1, <2>2
    <1>3. QED
        BY <1>1, <1>2, ViewFacts, ShowErrorIs, ShownKeeps

LEMMA CloseBoxKeeps == RunInv /\ CloseBox => RunInv'
    BY OpenBoxes, ViewFacts, ShownKeeps DEF CloseBox

LEMMA StartFailsKeeps == RunInv /\ StartFails => RunInv'
    <1> SUFFICES ASSUME RunInv, StartFails PROVE RunInv'
        OBVIOUS
    <1>1. /\ closed = FALSE /\ <<"error">> \in Seq(Boxes)
          /\ UNCHANGED <<images, thread, worker, queue, closed, past>>
          /\ boxes' = <<"error">>
        BY DEF StartFails, StartEnabled, Clickable, RunInv, Types, Boxes
    <1>2. /\ view' \in Views /\ view'.paused = view.paused
          /\ view'.stopRequested \in {view.stopRequested, FALSE}
          /\ view'.controls = view.controls /\ view'.total = view.total
          /\ view'.current = view.current /\ view'.progress = view.progress
        <2> DEFINE v == ShowError(view)
        <2>1. /\ v \in Views /\ v.paused = view.paused
              /\ v.stopRequested = view.stopRequested /\ v.controls = view.controls
              /\ v.total = view.total /\ v.current = view.current
              /\ v.progress = view.progress
            BY ViewFacts, ShowErrorIs
        <2>2. \/ view' = [v EXCEPT !.stopRequested = v.stopRequested]
              \/ view' = [v EXCEPT !.stopRequested = FALSE]
            BY DEF StartFails
        <2> HIDE DEF v
        <2>3. QED
            BY <2>1, <2>2 DEF Views
    <1>3. QED
        BY <1>1, <1>2, ViewFacts, ShownKeeps

\* While the view remembers a pause or shows a run, the run is not finished.
LEMMA ResumeKeeps == RunInv /\ Resume => RunInv'
    <1> SUFFICES ASSUME RunInv, Resume PROVE RunInv'
        OBVIOUS
    <1>1. /\ closed = FALSE /\ view.paused = TRUE
          /\ view' = [view EXCEPT !.paused = FALSE, !.stopRequested = FALSE,
                                  !.status = "Inspecting", !.controls = "Running"]
          /\ past' = [past EXCEPT !.lateImages = 0]
          /\ UNCHANGED <<images, thread, queue, boxes, closed>>
        BY DEF Resume, StartEnabled, Clickable, RunInv, Types, Views
    <1>2. /\ worker' \in Workers /\ worker'.pc = worker.pc
          /\ worker'.index = worker.index /\ worker'.total = worker.total
          /\ worker'.stop = worker.stop
        BY ViewFacts DEF Resume, Workers
    <1>3. /\ view' \in Views /\ view'.controls = "Running" /\ view'.total = view.total
          /\ view'.current = view.current /\ view'.progress = view.progress
        BY <1>1, ViewFacts DEF Views, Statuses, Controls
    <1>4. /\ past' \in Pasts /\ past'.lateImages = 0
          /\ past'.lateResults = past.lateResults
        BY <1>1, ViewFacts DEF Pasts
    <1>5. ViewIsTold'
        BY <1>1, <1>3 DEF RunInv, ViewIsTold, Unfinished
    <1>6. HaltHolds'
        BY <1>1, <1>2, <1>4 DEF RunInv, HaltHolds, Ended
    <1>7. QED
        BY <1>1, <1>2, <1>3, <1>4, <1>5, <1>6, ViewFacts, ClickKeeps

LEMMA StartKeeps == RunInv /\ Start => RunInv'
    <1> SUFFICES ASSUME RunInv, Start PROVE RunInv'
        OBVIOUS
    <1>1. /\ closed = FALSE /\ thread = "None" /\ thread' = "Starting"
          /\ worker' = NewWorker("Returned", images)
          /\ view' = [view EXCEPT !.stopRequested = FALSE]
          /\ past' = NothingPast(images) /\ UNCHANGED <<images, queue, boxes, closed>>
        BY DEF Start, StartEnabled, Clickable, Running, RunInv, Types
    <1>2. Len(queue) = 0
        BY <1>1 DEF RunInv, QueueShape
    <1>3. worker' \in Workers /\ worker'.pc = "Returned"
        BY <1>1, ViewFacts, NewWorkerIs
    <1>4. /\ view' \in Views /\ view'.controls = view.controls
          /\ view'.paused = view.paused /\ view'.stopRequested = FALSE
          /\ view'.total = view.total /\ view'.current = view.current
          /\ view'.progress = view.progress
        BY <1>1, ViewFacts DEF Views
    <1>5. past' \in Pasts /\ past'.lateImages = 0 /\ past'.lateResults = 0
        BY <1>1, ViewFacts DEF Pasts, NothingPast
    <1>6. Types'
        BY <1>1, <1>3, <1>4, <1>5 DEF RunInv, Types, Threads
    <1>7. Numbers'
        <2>1. ASSUME NEW k \in 1 .. 0 PROVE FALSE
            OBVIOUS
        <2>2. \A k \in 1 .. Len(queue') : FALSE
            BY <1>1, <1>2, <2>1
        <2>3. QED
            BY <1>3, <1>4, <2>2, ViewFacts DEF Numbers
    <1>8. QueueShape'
        BY <1>1, <1>2, <1>3 DEF QueueShape
    <1>9. ViewIsTold'
        BY <1>1, <1>4 DEF RunInv, ViewIsTold, Unfinished
    <1>10. HaltHolds' /\ ClosedForGood'
        BY <1>1, <1>5 DEF HaltHolds, ClosedForGood
    <1>11. QED
        BY <1>6, <1>7, <1>8, <1>9, <1>10 DEF RunInv

LEMMA PauseKeeps == RunInv /\ Pause => RunInv'
    <1> SUFFICES ASSUME RunInv, Pause PROVE RunInv'
        OBVIOUS
    <1>1. /\ closed = FALSE /\ view.controls = "Running"
          /\ worker' = [worker EXCEPT !.pause = TRUE]
          /\ view' = [view EXCEPT !.paused = TRUE, !.status = "Paused",
                                  !.controls = "Paused"]
          /\ UNCHANGED <<images, thread, queue, boxes, closed, past>>
        BY DEF Pause, Clickable, RunInv, Types
    <1>2. /\ worker' \in Workers /\ worker'.pc = worker.pc
          /\ worker'.index = worker.index /\ worker'.total = worker.total
          /\ worker'.stop = worker.stop /\ worker'.pause = TRUE
        BY <1>1, ViewFacts DEF Workers
    <1>3. /\ view' \in Views /\ view'.controls = "Paused" /\ view'.total = view.total
          /\ view'.current = view.current /\ view'.progress = view.progress
        BY <1>1, ViewFacts DEF Views, Statuses, Controls
    <1>4. ViewIsTold'
        BY <1>1, <1>3 DEF RunInv, ViewIsTold, Unfinished
    <1>5. HaltHolds'
        BY <1>1, <1>2 DEF RunInv, HaltHolds, Ended
    <1>6. QED
        BY <1>1, <1>2, <1>3, <1>4, <1>5, ViewFacts, ClickKeeps

LEMMA StopWorkerIs ==
    ASSUME worker \in Workers
    PROVE  /\ StopWorker \in Workers /\ StopWorker.pc = worker.pc
           /\ StopWorker.index = worker.index /\ StopWorker.total = worker.total
           /\ StopWorker.stop = TRUE
    BY DEF StopWorker, Workers

LEMMA StopKeeps == RunInv /\ Stop => RunInv'
    <1> SUFFICES ASSUME RunInv, Stop PROVE RunInv'
        OBVIOUS
    <1>1. /\ closed = FALSE /\ view.controls # "Idle" /\ worker' = StopWorker
          /\ view' = [view EXCEPT !.stopRequested = TRUE, !.paused = FALSE,
                                  !.status = "Stopping", !.controls = "Stopping"]
          /\ UNCHANGED <<images, thread, queue, boxes, closed, past>>
        BY DEF Stop, Clickable, RunInv, Types
    <1>2. /\ worker' \in Workers /\ worker'.pc = worker.pc
          /\ worker'.index = worker.index /\ worker'.total = worker.total
          /\ worker'.stop = TRUE
        BY <1>1, ViewFacts, StopWorkerIs
    <1>3. /\ view' \in Views /\ view'.controls = "Stopping" /\ view'.total = view.total
          /\ view'.current = view.current /\ view'.progress = view.progress
        BY <1>1, ViewFacts DEF Views, Statuses, Controls
    <1>4. ViewIsTold'
        BY <1>1, <1>3 DEF RunInv, ViewIsTold, Unfinished
    <1>5. HaltHolds'
        BY <1>1, <1>2 DEF RunInv, HaltHolds, Ended
    <1>6. QED
        BY <1>1, <1>2, <1>3, <1>4, <1>5, ViewFacts, ClickKeeps

LEMMA CloseWindowKeeps == RunInv /\ CloseWindow => RunInv'
    <1> SUFFICES ASSUME RunInv, CloseWindow PROVE RunInv'
        OBVIOUS
    <1>1. /\ closed = FALSE /\ boxes = <<>> /\ UNCHANGED <<images, thread, queue, view>>
          /\ <<"closing">> \in Seq(Boxes)
        BY DEF CloseWindow, Clickable, RunInv, Types, Boxes
    <1>2. CASE /\ worker' = StopWorker /\ boxes' = <<"closing">>
               /\ past' = [past EXCEPT !.closing = TRUE] /\ UNCHANGED closed
        <2>1. /\ worker' \in Workers /\ worker'.pc = worker.pc
              /\ worker'.index = worker.index /\ worker'.total = worker.total
              /\ worker'.stop = TRUE
            BY <1>2, ViewFacts, StopWorkerIs
        <2>2. /\ past' \in Pasts /\ past'.chose = past.chose
              /\ past'.lateImages = past.lateImages
              /\ past'.lateResults = past.lateResults
            BY <1>2, ViewFacts DEF Pasts
        <2>3. ViewIsTold'
            BY <1>1, <2>2 DEF RunInv, ViewIsTold, Unfinished
        <2>4. HaltHolds'
            BY <1>1, <2>1, <2>2 DEF RunInv, HaltHolds, Ended
        <2>5. QED
            BY <1>1, <1>2, <2>1, <2>2, <2>3, <2>4, ViewFacts, ClickKeeps
    <1>3. CASE boxes' = <<"closing">> /\ UNCHANGED <<worker, closed, past>>
        BY <1>1, <1>3, ViewFacts, ShownKeeps
    <1>4. CASE ~Running /\ closed' = TRUE /\ UNCHANGED <<worker, boxes, past>>
        <2>1. Len(boxes) = 0 /\ thread = "None"
            BY <1>1, <1>4, EmptyBoxes, ViewFacts DEF Running
        <2>2. Types' /\ Numbers'
            BY <1>1, <1>4 DEF RunInv, Types, Numbers
        <2>3. QueueShape' /\ ViewIsTold'
            BY <1>1, <1>4 DEF RunInv, QueueShape, ViewIsTold, Unfinished
        <2>4. HaltHolds' /\ ClosedForGood'
            BY <1>1, <1>4, <2>1 DEF RunInv, HaltHolds, Ended, ClosedForGood
        <2>5. QED
            BY <2>2, <2>3, <2>4 DEF RunInv
    <1>5. QED
        BY <1>2, <1>3, <1>4 DEF CloseWindow

LEMMA UserKeeps == RunInv /\ UserStep => RunInv'
    BY ChooseKeeps, ChosenKeeps, GoneKeeps, CloseBoxKeeps, ResumeKeeps, StartKeeps,
       StartFailsKeeps, PauseKeeps, StopKeeps, CloseWindowKeeps DEF UserStep

-----------------------------------------------------------------------------
\* The invariant holds at every moment of every run.
LEMMA RunAlways == Spec => []RunInv
    <1>1. RunInv /\ [Next]_vars => RunInv'
        <2>1. RunInv /\ Next => RunInv'
            BY WorkerKeeps, EventKeeps, UserKeeps DEF Next
        <2>2. RunInv /\ UNCHANGED vars => RunInv'
            BY DEF vars, RunInv, Types, Numbers, QueueShape, ViewIsTold, Unfinished,
               HaltHolds, Ended, ClosedForGood
        <2>3. QED
            BY <2>1, <2>2
    <1>2. QED
        BY InitRun, <1>1, PTL DEF Spec

\* However many images a run has: after a pause or a stop at most the image
\* whose turn it was is begun and at most the result on its way is reported.
THEOREM HaltsAtOnce == Spec => []HaltTakesHold
    <1>1. RunInv => HaltTakesHold
        BY DEF RunInv, HaltHolds, HaltTakesHold
    <1>2. QED
        BY RunAlways, <1>1, PTL

\* Whenever nothing is under way any more the view can start the next run, a
\* run that is under way can be stopped, and the window closes only after both.
THEOREM ViewAlwaysFits == Spec => []ViewFitsRun
    <1>1. RunInv => RunTypeOK
        BY DEF RunInv, Types, Numbers, RunTypeOK, Counts, Workers, Views, Boxes, Events,
               Early
    <1>2. RunInv => (queue = <<>> => Len(queue) = 0)
        BY EmptyQueue DEF RunInv, Types
    <1>3. RunInv => RestIsIdle
        BY <1>2 DEF RunInv, ViewIsTold, Unfinished, RestIsIdle
    <1>4. RunInv => RunCanBeStopped
        BY <1>2 DEF RunInv, ViewIsTold, RunCanBeStopped
    <1>5. RunInv => ClosedIsQuiet
        BY EmptyQueue DEF RunInv, Types, QueueShape, ClosedForGood, ClosedIsQuiet
    <1>6. RunInv => ViewFitsRun
        BY <1>1, <1>3, <1>4, <1>5 DEF ViewFitsRun
    <1>7. QED
        BY RunAlways, <1>6, PTL

-----------------------------------------------------------------------------
(* What the events tell, and what is true of the run by then.              *)

Busy == {"Test", "Announce", "Inspect", "Inspected", "Report", "Between"}

\* The results reported are those of the images before this one; a run that is
\* over was stopped, has raised, or has reported them all.
Accounts ==
    /\ thread \in {"Running", "Quitting", "Ended"} =>
          /\ past.total = worker.total
          /\ worker.pc \in Busy =>
                /\ past.raised = FALSE
                /\ worker.index <= worker.total + 1
                /\ worker.pc # "Test" => worker.index <= worker.total
                /\ past.results =
                       IF worker.pc = "Between" THEN worker.index ELSE worker.index - 1
          /\ worker.pc \notin Busy =>
                worker.stop = TRUE \/ past.raised = TRUE \/ past.results = past.total
    /\ thread = "Starting" =>
          past.total = worker.total /\ past.results = 0 /\ past.raised = FALSE

StartedIsDue == Len(queue) > 0 /\ queue[1].type = "started"

\* The first event of a run finds the view idle; no other "started" is under way.
StartedFirst ==
    /\ \A k \in 1 .. Len(queue) : queue[k].type = "started" => k = 1
    /\ StartedIsDue => view.controls = "Idle" /\ view.paused = FALSE

\* Images and results are announced in their order, and the view is at the image
\* announced last.
Announcements ==
    /\ \A k \in 1 .. Len(queue) :
          /\ queue[k].type = "image_started" => queue[k].n <= past.results + 1
          /\ queue[k].type = "result_ready" => queue[k].n <= past.results
    /\ \A j, k \in 1 .. Len(queue) :
          j < k /\ queue[j].type = "image_started" /\ queue[k].type = "result_ready" =>
              queue[j].n <= queue[k].n
    /\ thread = "Running" /\ ~StartedIsDue =>
          /\ view.current <= past.results + 1
          /\ \A k \in 1 .. Len(queue) :
                queue[k].type = "result_ready" => view.current <= queue[k].n

\* The view remembers the exception of a run, or is about to be told; outside of a
\* run it remembers none.
FailureTold ==
    /\ Unfinished /\ past.raised = TRUE =>
          \/ view.failed = TRUE
          \/ \E k \in 1 .. Len(queue) : queue[k].type = "error"
    /\ StartedIsDue \/ ~Unfinished => view.failed = FALSE

\* A worker is stopped by the stop button, which the view remembers until the run has
\* finished, or by closing the window.
StopTold ==
    /\ worker.stop = TRUE /\ thread = "Starting" => past.closing = TRUE
    /\ worker.stop = TRUE /\ Unfinished =>
          \/ past.closing = TRUE
          \/ /\ view.stopRequested = TRUE /\ view.controls = "Stopping"
             /\ view.paused = FALSE /\ ~StartedIsDue
    /\ view.controls = "Stopping" => \A k \in 1 .. Len(boxes) : boxes[k] # "folder"

TellInv == Accounts /\ StartedFirst /\ Announcements /\ FailureTold /\ StopTold

LEMMA TypesFacts ==
    ASSUME RunInv
    PROVE  /\ thread \in Threads /\ worker \in Workers /\ view \in Views /\ past \in Pasts
           /\ queue \in Seq(Events) /\ Len(queue) \in Nat
           /\ worker.index \in Nat /\ worker.total \in Nat /\ past.results \in Nat
           /\ view.current \in Nat /\ view.total \in Nat /\ view.progress \in Nat
           /\ \A k \in 1 .. Len(queue) : queue[k] \in Events /\ queue[k].n \in Nat
           /\ boxes \in Seq(Boxes)
    <1>1. /\ thread \in Threads /\ worker \in Workers /\ view \in Views /\ past \in Pasts
          /\ queue \in Seq(Events) /\ boxes \in Seq(Boxes)
        BY DEF RunInv, Types
    <1>2. Len(queue) \in Nat /\ \A k \in 1 .. Len(queue) : queue[k] \in Events
        BY <1>1
    <1>3. \A e \in Events : e.n \in Nat
        BY DEF Events
    <1>4. /\ worker.index \in Nat /\ worker.total \in Nat /\ past.results \in Nat
          /\ view.current \in Nat /\ view.total \in Nat /\ view.progress \in Nat
        BY <1>1, CountsAreNumbers DEF Workers, Views, Pasts
    <1>5. QED
        BY <1>1, <1>2, <1>3, <1>4

\* While the worker is in run() its thread runs.
LEMMA AtWork ==
    ASSUME RunInv, worker.pc # "Returned"
    PROVE  thread = "Running" /\ worker.index >= 1
    BY DEF RunInv, QueueShape, Numbers

LEMMA InitTell == Init => TellInv
    <1> SUFFICES ASSUME Init PROVE TellInv
        OBVIOUS
    <1>1. /\ thread = "None" /\ Len(queue) = 0 /\ view.controls = "Idle"
          /\ worker.stop = FALSE /\ Len(boxes) = 0 /\ view.failed = FALSE
        BY DEF Init, NewWorker
    <1>2. QED
        BY <1>1 DEF TellInv, Accounts, StartedFirst, StartedIsDue, Announcements,
                    FailureTold, Unfinished, StopTold

LEMMA BeginsTells == RunInv /\ TellInv /\ RunBegins => TellInv'
    <1> SUFFICES ASSUME RunInv, TellInv, RunBegins PROVE TellInv'
        OBVIOUS
    <1> DEFINE e == Event("started", worker.total)
    <1>1. /\ thread = "Starting" /\ thread' = "Running" /\ UNCHANGED <<view, boxes, past>>
          /\ worker' = [worker EXCEPT !.pc = "Test", !.index = 1]
          /\ queue' = Append(queue, e) /\ Len(queue) = 0 /\ worker.pc = "Returned"
        BY DEF RunBegins, RunInv, QueueShape
    <1>2. /\ worker'.pc = "Test" /\ worker'.index = 1 /\ worker'.total = worker.total
          /\ worker'.stop = worker.stop
        BY <1>1, TypesFacts DEF Workers, Places
    <1>3. e \in Events /\ e.type = "started"
        BY TypesFacts DEF Event, Events, Early
    <1>4. Len(queue') = 1 /\ queue'[1].type = "started"
        BY <1>1, <1>3, TypesFacts, Posted
    <1>5. /\ view.controls = "Idle" /\ view.paused = FALSE
        BY <1>1 DEF RunInv, ViewIsTold, Unfinished
    <1>6. past.raised = FALSE /\ past.results = 0 /\ past.total = worker.total
        BY <1>1 DEF TellInv, Accounts
    <1>7. Accounts' /\ StartedFirst'
        BY <1>1, <1>2, <1>4, <1>5, <1>6, TypesFacts DEF Accounts, Busy, StartedFirst, StartedIsDue
    <1>8. Announcements'
        BY <1>4 DEF Announcements, StartedIsDue
    <1>9. FailureTold'
        BY <1>1, <1>6 DEF TellInv, FailureTold, Unfinished
    <1>10. StopTold'
        BY <1>1, <1>2, <1>5 DEF StopTold, TellInv
    <1>11. QED
        BY <1>7, <1>8, <1>9, <1>10 DEF TellInv

\* A step of the worker that posts nothing.
LEMMA QuietTells ==
    ASSUME RunInv, TellInv, worker.pc \in Busy,
           UNCHANGED <<thread, queue, view, boxes, past>>,
           worker'.total = worker.total, worker'.stop = worker.stop, Accounts'
    PROVE  TellInv'
    <1>1. StartedFirst' /\ Announcements'
        BY DEF TellInv, StartedFirst, Announcements, StartedIsDue
    <1>2. FailureTold' /\ StopTold'
        BY DEF TellInv, FailureTold, StopTold, Unfinished, StartedIsDue
    <1>3. QED
        BY <1>1, <1>2 DEF TellInv

LEMMA TestTells == RunInv /\ TellInv /\ TestFlags => TellInv'
    <1> SUFFICES ASSUME RunInv, TellInv, TestFlags PROVE TellInv'
        OBVIOUS
    <1>1. worker.pc = "Test" /\ UNCHANGED <<thread, queue, view, boxes, past>>
        BY DEF TestFlags
    <1>2. /\ past.total = worker.total /\ past.raised = FALSE
          /\ worker.index <= worker.total + 1 /\ past.results = worker.index - 1
          /\ thread = "Running" /\ worker.index >= 1
        BY <1>1, AtWork DEF TellInv, Accounts, Busy
    <1>3. /\ worker'.index = worker.index /\ worker'.total = worker.total
          /\ worker'.stop = worker.stop
          /\ \/ worker'.pc = "Finally" /\ (worker.stop = TRUE \/ worker.index > worker.total)
             \/ worker'.pc = "Announce" /\ worker.index <= worker.total
        BY <1>1, TypesFacts DEF TestFlags, Workers, Places
    <1>4. Accounts'
        BY <1>1, <1>2, <1>3, TypesFacts DEF Accounts, Busy
    <1>5. QED
        BY <1>1, <1>3, <1>4, QuietTells DEF Busy

LEMMA TestStopTells == RunInv /\ TellInv /\ TestStop => TellInv'
    <1> SUFFICES ASSUME RunInv, TellInv, TestStop PROVE TellInv'
        OBVIOUS
    <1>1. worker.pc = "Inspected" /\ UNCHANGED <<thread, queue, view, boxes, past>>
        BY DEF TestStop
    <1>2. /\ worker'.index = worker.index /\ worker'.total = worker.total
          /\ worker'.stop = worker.stop
          /\ \/ worker'.pc = "Finally" /\ worker.stop = TRUE
             \/ worker'.pc = "Report"
        BY TypesFacts DEF TestStop, Workers, Places
    <1>3. Accounts'
        BY <1>1, <1>2, AtWork DEF TellInv, Accounts, Busy
    <1>4. QED
        BY <1>1, <1>2, <1>3, QuietTells DEF Busy

LEMMA NextImageTells == RunInv /\ TellInv /\ NextImage => TellInv'
    <1> SUFFICES ASSUME RunInv, TellInv, NextImage PROVE TellInv'
        OBVIOUS
    <1>1. worker.pc = "Between" /\ UNCHANGED <<thread, queue, view, boxes, past>>
        BY DEF NextImage
    <1>2. /\ worker'.pc = "Test" /\ worker'.index = worker.index + 1
          /\ worker'.total = worker.total /\ worker'.stop = worker.stop
        BY TypesFacts DEF NextImage, Workers, Places
    <1>3. /\ thread = "Running" /\ past.total = worker.total /\ past.raised = FALSE
          /\ worker.index <= worker.total /\ past.results = worker.index
        BY <1>1, AtWork DEF TellInv, Accounts, Busy
    <1>4. Accounts'
        BY <1>1, <1>2, <1>3, TypesFacts DEF Accounts, Busy
    <1>5. QED
        BY <1>1, <1>2, <1>4, QuietTells DEF Busy

\* A step of the worker that posts one event: the numbers of an image and of a result
\* go with what has been reported by then.
LEMMA PostTells ==
    ASSUME RunInv, TellInv, NEW e \in Events, worker.pc \in Busy, queue' = Append(queue, e),
           e.type \in {"image_started", "result_ready", "error"},
           e.type = "image_started" => e.n <= past'.results + 1,
           e.type = "result_ready" => e.n = past'.results /\ e.n = past.results + 1,
           past'.results \in Nat, past.results <= past'.results,
           past'.raised = TRUE => past.raised = TRUE \/ e.type = "error",
           past'.closing = past.closing,
           UNCHANGED <<thread, view, boxes>>,
           worker'.total = worker.total, worker'.stop = worker.stop, Accounts'
    PROVE  TellInv'
    <1>1. /\ queue' \in Seq(Events) /\ Len(queue) \in Nat /\ Len(queue') = Len(queue) + 1
          /\ \A k \in 1 .. Len(queue) : queue'[k] = queue[k]
          /\ queue'[Len(queue) + 1] = e
          /\ \A k \in 1 .. Len(queue') : k \in 1 .. Len(queue) \/ k = Len(queue) + 1
        BY Posted, TypesFacts
    <1>2. /\ thread = "Running" /\ e.n \in Nat
          /\ \A k \in 1 .. Len(queue) : queue[k].n \in Nat
        BY AtWork, TypesFacts DEF Busy, Events
    <1>3. StartedIsDue' <=> StartedIsDue
        BY <1>1 DEF StartedIsDue
    <1>4. StartedFirst'
        BY <1>1, <1>3 DEF TellInv, StartedFirst
    <1>5. \A k \in 1 .. Len(queue) :
             /\ queue[k].type = "image_started" => queue[k].n <= past.results + 1
             /\ queue[k].type = "result_ready" => queue[k].n <= past.results
        BY DEF TellInv, Announcements
    <1>6. \A k \in 1 .. Len(queue') :
             /\ queue'[k].type = "image_started" => queue'[k].n <= past'.results + 1
             /\ queue'[k].type = "result_ready" => queue'[k].n <= past'.results
        <2>1. past.results \in Nat /\ past'.results \in Nat
            BY TypesFacts
        <2>2. \A k \in 1 .. Len(queue) :
                 /\ queue[k].type = "image_started" => queue[k].n <= past'.results + 1
                 /\ queue[k].type = "result_ready" => queue[k].n <= past'.results
            BY <1>2, <1>5, <2>1
        <2>3. /\ e.type = "image_started" => e.n <= past'.results + 1
              /\ e.type = "result_ready" => e.n <= past'.results
            BY <1>2, <2>1
        <2>4. QED
            BY <1>1, <2>2, <2>3
    <1>7. ASSUME NEW j \in 1 .. Len(queue'), NEW k \in 1 .. Len(queue'),
                 j < k, queue'[j].type = "image_started", queue'[k].type = "result_ready"
          PROVE  queue'[j].n <= queue'[k].n
        <2>1. j \in 1 .. Len(queue)
            BY <1>1, <1>7
        <2>2. CASE k \in 1 .. Len(queue)
            BY <1>1, <1>7, <2>1, <2>2 DEF TellInv, Announcements
        <2>3. CASE k = Len(queue) + 1
            BY <1>1, <1>5, <1>7, <2>1, <2>3, TypesFacts
        <2>4. QED
            BY <1>1, <2>2, <2>3
    <1>8. thread' = "Running" /\ ~StartedIsDue' =>
              /\ view'.current <= past'.results + 1
              /\ \A k \in 1 .. Len(queue') :
                    queue'[k].type = "result_ready" => view'.current <= queue'[k].n
        <2>1. SUFFICES ASSUME ~StartedIsDue
                       PROVE  /\ view.current <= past'.results + 1
                              /\ \A k \in 1 .. Len(queue') :
                                    queue'[k].type = "result_ready" => view.current <= queue'[k].n
            BY <1>2, <1>3
        <2>2. /\ view.current <= past.results + 1
              /\ \A k \in 1 .. Len(queue) :
                    queue[k].type = "result_ready" => view.current <= queue[k].n
            BY <1>2, <2>1 DEF TellInv, Announcements
        <2>3. past.results \in Nat /\ past'.results \in Nat /\ view.current \in Nat
              /\ Len(queue) \in Nat
            BY TypesFacts
        <2>4. view.current <= past'.results + 1
            BY <1>2, <2>2, <2>3
        <2>5. ASSUME NEW k \in 1 .. Len(queue'), queue'[k].type = "result_ready"
              PROVE  view.current <= queue'[k].n
            <3>1. CASE k \in 1 .. Len(queue)
                BY <1>1, <2>2, <2>5, <3>1
            <3>2. CASE k = Len(queue) + 1
                BY <1>1, <1>2, <2>2, <2>3, <2>5, <3>2
            <3>3. QED
                BY <1>1, <3>1, <3>2
        <2>6. QED
            BY <2>4, <2>5
    <1>9. Announcements'
        BY <1>6, <1>7, <1>8 DEF Announcements
    <1>10. FailureTold'
        <2>1. (\E k \in 1 .. Len(queue) : queue[k].type = "error") \/ e.type = "error" =>
                  \E k \in 1 .. Len(queue') : queue'[k].type = "error"
            BY <1>1
        <2>2. QED
            BY <1>2, <1>3, <2>1 DEF TellInv, FailureTold, Unfinished
    <1>11. StopTold'
        BY <1>2, <1>3 DEF TellInv, StopTold, Unfinished
    <1>12. QED
        BY <1>4, <1>9, <1>10, <1>11 DEF TellInv

LEMMA AnnounceTells == RunInv /\ TellInv /\ AnnounceImage => TellInv'
    <1> SUFFICES ASSUME RunInv, TellInv, AnnounceImage PROVE TellInv'
        OBVIOUS
    <1> DEFINE e == Event("image_started", worker.index)
    <1>1. /\ worker.pc = "Announce" /\ UNCHANGED <<thread, view, boxes>>
          /\ queue' = Append(queue, e)
        BY DEF AnnounceImage
    <1>2. /\ worker'.pc = "Inspect" /\ worker'.index = worker.index
          /\ worker'.total = worker.total /\ worker'.stop = worker.stop
        BY TypesFacts DEF AnnounceImage, Workers, Places
    <1>3. /\ past'.total = past.total /\ past'.results = past.results
          /\ past'.raised = past.raised /\ past'.closing = past.closing
        BY TypesFacts DEF AnnounceImage, Pasts
    <1>4. /\ thread = "Running" /\ past.total = worker.total /\ past.raised = FALSE
          /\ worker.index <= worker.total /\ past.results = worker.index - 1
        BY <1>1, AtWork DEF TellInv, Accounts, Busy
    <1>5. Accounts'
        BY <1>1, <1>2, <1>3, <1>4, TypesFacts DEF Accounts, Busy
    <1>6. /\ e \in Events /\ e.type = "image_started" /\ e.n = worker.index
          /\ e.n <= past'.results + 1
        BY <1>3, <1>4, TypesFacts DEF Event, Events, Early
    <1> HIDE DEF e
    <1>7. /\ past'.results \in Nat /\ past.results <= past'.results
          /\ e.type \in {"image_started", "result_ready", "error"}
          /\ e.type # "result_ready" /\ past'.raised = FALSE
        BY <1>3, <1>4, <1>6, TypesFacts
    <1>8. QED
        BY <1>1, <1>2, <1>3, <1>5, <1>6, <1>7, PostTells DEF Busy

LEMMA InspectTells == RunInv /\ TellInv /\ InspectImage => TellInv'
    <1> SUFFICES ASSUME RunInv, TellInv, InspectImage PROVE TellInv'
        OBVIOUS
    <1>1. /\ worker.pc = "Inspect" /\ UNCHANGED <<thread, view, boxes>>
        BY DEF InspectImage
    <1>2. /\ thread = "Running" /\ past.total = worker.total /\ past.raised = FALSE
          /\ worker.index <= worker.total /\ past.results = worker.index - 1
        BY <1>1, AtWork DEF TellInv, Accounts, Busy
    <1>3. CASE worker' = [worker EXCEPT !.pc = "Inspected"] /\ UNCHANGED <<queue, past>>
        <2>1. /\ worker'.pc = "Inspected" /\ worker'.index = worker.index
              /\ worker'.total = worker.total /\ worker'.stop = worker.stop
            BY <1>3, TypesFacts DEF Workers, Places
        <2>2. Accounts'
            BY <1>1, <1>2, <1>3, <2>1, TypesFacts DEF Accounts, Busy
        <2>3. QED
            BY <1>1, <1>3, <2>1, <2>2, QuietTells DEF Busy
    <1>4. CASE /\ worker' = [worker EXCEPT !.pc = "Finally"]
               /\ queue' = Append(queue, Event("error", 0))
               /\ past' = [past EXCEPT !.raised = TRUE]
        <2> DEFINE e == Event("error", 0)
        <2>1. /\ worker'.pc = "Finally" /\ worker'.index = worker.index
              /\ worker'.total = worker.total /\ worker'.stop = worker.stop
            BY <1>4, TypesFacts DEF Workers, Places
        <2>2. /\ past'.total = past.total /\ past'.results = past.results
              /\ past'.raised = TRUE /\ past'.closing = past.closing
            BY <1>4, TypesFacts DEF Pasts
        <2>3. e \in Events /\ e.type = "error"
            BY DEF Event, Events, Early
        <2>4. Accounts'
            BY <1>1, <1>2, <2>1, <2>2 DEF Accounts, Busy
        <2>5. queue' = Append(queue, e)
            BY <1>4
        <2> HIDE DEF e
        <2>6. /\ past'.results \in Nat /\ past.results <= past'.results
              /\ e.type \in {"image_started", "result_ready", "error"}
              /\ e.type # "result_ready" /\ e.type # "image_started"
            BY <2>2, <2>3, TypesFacts
        <2>7. QED
            BY <1>1, <2>1, <2>2, <2>3, <2>4, <2>5, <2>6, PostTells DEF Busy
    <1>5. QED
        BY <1>3, <1>4 DEF InspectImage

LEMMA ReportTells == RunInv /\ TellInv /\ ReportResult => TellInv'
    <1> SUFFICES ASSUME RunInv, TellInv, ReportResult PROVE TellInv'
        OBVIOUS
    <1> DEFINE e == Event("result_ready", worker.index)
    <1>1. /\ worker.pc = "Report" /\ UNCHANGED <<thread, view, boxes>>
          /\ queue' = Append(queue, e)
        BY DEF ReportResult
    <1>2. /\ worker'.pc = "Between" /\ worker'.index = worker.index
          /\ worker'.total = worker.total /\ worker'.stop = worker.stop
        BY TypesFacts DEF ReportResult, Workers, Places
    <1>3. /\ past'.total = past.total /\ past'.results = past.results + 1
          /\ past'.raised = past.raised /\ past'.closing = past.closing
        BY TypesFacts DEF ReportResult, Pasts
    <1>4. /\ thread = "Running" /\ past.total = worker.total /\ past.raised = FALSE
          /\ worker.index <= worker.total /\ past.results = worker.index - 1
        BY <1>1, AtWork DEF TellInv, Accounts, Busy
    <1>5. past'.results = worker.index
        BY <1>3, <1>4, TypesFacts
    <1>6. Accounts'
        BY <1>1, <1>2, <1>3, <1>4, <1>5, TypesFacts DEF Accounts, Busy
    <1>7. e \in Events /\ e.type = "result_ready" /\ e.n = worker.index
        BY TypesFacts DEF Event, Events, Early
    <1> HIDE DEF e
    <1>8. /\ past'.results \in Nat /\ past.results <= past'.results
          /\ e.n = past'.results /\ e.n = past.results + 1
        BY <1>3, <1>5, <1>7, TypesFacts
    <1>9. QED
        BY <1>1, <1>2, <1>3, <1>6, <1>7, <1>8, PostTells DEF Busy

\* Events that end the thread are posted; they tell nothing of images.
LEMMA EndPosted ==
    ASSUME RunInv, TellInv, queue' \in Seq(Events), Len(queue) <= Len(queue'),
           \A k \in 1 .. Len(queue) : queue'[k] = queue[k],
           \A k \in 1 .. Len(queue') :
               k \in 1 .. Len(queue) \/ queue'[k].type \in {"quit", "finished", "cleanup"},
           thread' = "Running" => thread = "Running", thread' # "Starting",
           Unfinished' <=> Unfinished,
           UNCHANGED <<view, boxes, past>>, worker'.stop = worker.stop, Accounts'
    PROVE  TellInv'
    <1>1. Len(queue) \in Nat /\ Len(queue') \in Nat
        BY TypesFacts
    <1>2. 1 .. Len(queue) \subseteq 1 .. Len(queue')
        BY <1>1
    <1>3. StartedIsDue' <=> StartedIsDue
        BY <1>1, <1>2 DEF StartedIsDue
    <1>4. StartedFirst'
        BY <1>3 DEF TellInv, StartedFirst
    <1>5. Announcements'
        BY <1>3 DEF TellInv, Announcements
    <1>6. FailureTold'
        BY <1>2, <1>3 DEF TellInv, FailureTold
    <1>7. StopTold'
        BY <1>3 DEF TellInv, StopTold
    <1>8. QED
        BY <1>4, <1>5, <1>6, <1>7 DEF TellInv

LEMMA ReturnsTells == RunInv /\ TellInv /\ RunReturns => TellInv'
    <1> SUFFICES ASSUME RunInv, TellInv, RunReturns PROVE TellInv'
        OBVIOUS
    <1> DEFINE e == Event("quit", 0)
               f == Event("finished", 0)
    <1>1. /\ worker.pc = "Finally" /\ UNCHANGED <<thread, view, boxes, past>>
          /\ queue' = queue \o <<e, f>> /\ thread = "Running"
        BY AtWork DEF RunReturns
    <1>2. /\ worker'.pc = "Returned" /\ worker'.total = worker.total
          /\ worker'.stop = worker.stop
        BY TypesFacts DEF RunReturns, Workers, Places
    <1>3. e \in Events /\ f \in Events /\ e.type = "quit" /\ f.type = "finished"
        BY DEF Event, Events, Early
    <1> HIDE DEF e, f
    <1>4. /\ queue' \in Seq(Events) /\ Len(queue) <= Len(queue')
          /\ \A k \in 1 .. Len(queue) : queue'[k] = queue[k]
          /\ \A k \in 1 .. Len(queue') :
                k \in 1 .. Len(queue) \/ queue'[k].type \in {"quit", "finished", "cleanup"}
        <2>1. /\ queue' \in Seq(Events) /\ Len(queue) \in Nat /\ Len(queue') = Len(queue) + 2
              /\ \A k \in 1 .. Len(queue) : queue'[k] = queue[k]
              /\ queue'[Len(queue) + 1] = e /\ queue'[Len(queue) + 2] = f
            BY <1>1, <1>3, TypesFacts, PostedTwo
        <2>2. \A k \in 1 .. Len(queue') :
                  k \in 1 .. Len(queue) \/ k = Len(queue) + 1 \/ k = Len(queue) + 2
            BY <2>1
        <2>3. QED
            BY <1>3, <2>1, <2>2
    <1>5. Accounts'
        BY <1>1, <1>2 DEF TellInv, Accounts, Busy
    <1>6. QED
        BY <1>1, <1>2, <1>4, <1>5, EndPosted DEF Unfinished

LEMMA EndsTells == RunInv /\ TellInv /\ ThreadEnds => TellInv'
    <1> SUFFICES ASSUME RunInv, TellInv, ThreadEnds PROVE TellInv'
        OBVIOUS
    <1> DEFINE e == Event("cleanup", 0)
    <1>1. /\ thread = "Quitting" /\ thread' = "Ended" /\ UNCHANGED <<worker, view, boxes, past>>
          /\ queue' = Append(queue, e)
        BY DEF ThreadEnds
    <1>2. e \in Events /\ e.type = "cleanup"
        BY DEF Event, Events, Early
    <1> HIDE DEF e
    <1>3. /\ queue' \in Seq(Events) /\ Len(queue) \in Nat /\ Len(queue') = Len(queue) + 1
          /\ \A k \in 1 .. Len(queue) : queue'[k] = queue[k]
          /\ queue'[Len(queue) + 1] = e
          /\ \A k \in 1 .. Len(queue') : k \in 1 .. Len(queue) \/ k = Len(queue) + 1
        BY <1>1, <1>2, Posted, TypesFacts
    <1>4. Unfinished' <=> Unfinished
        BY <1>1, <1>2, <1>3 DEF RunInv, QueueShape, Unfinished
    <1>5. Accounts'
        BY <1>1 DEF TellInv, Accounts
    <1>6. QED
        BY <1>1, <1>2, <1>3, <1>4, <1>5, EndPosted

LEMMA WorkerTells == RunInv /\ TellInv /\ WorkerStep => TellInv'
    BY BeginsTells, TestTells, AnnounceTells, InspectTells, TestStopTells, ReportTells,
       NextImageTells, ReturnsTells, EndsTells DEF WorkerStep

-----------------------------------------------------------------------------
(* Events, once more: what the view makes of them.                         *)

\* Taking an event other than "started" keeps what is said of the queue alone.
LEMMA TakenTells ==
    ASSUME RunInv, TellInv, queue # <<>>, queue' = Tail(queue), UNCHANGED past
    PROVE  /\ queue' \in Seq(Events) /\ Len(queue) \in Nat /\ Len(queue) >= 1
           /\ Len(queue') = Len(queue) - 1 /\ queue[1] \in Events
           /\ \A k \in 1 .. Len(queue') : queue'[k] = queue[k + 1]
           /\ Head(queue) = queue[1] /\ ~StartedIsDue' /\ StartedFirst'
           /\ \A k \in 1 .. Len(queue') :
                 /\ queue'[k].type = "image_started" => queue'[k].n <= past.results + 1
                 /\ queue'[k].type = "result_ready" => queue'[k].n <= past.results
           /\ \A j, k \in 1 .. Len(queue') :
                 j < k /\ queue'[j].type = "image_started" /\ queue'[k].type = "result_ready" =>
                     queue'[j].n <= queue'[k].n
           /\ (\E k \in 1 .. Len(queue) : queue[k].type = "error") /\ queue[1].type # "error" =>
                 \E k \in 1 .. Len(queue') : queue'[k].type = "error"
    <1>1. /\ queue' \in Seq(Events) /\ Len(queue) \in Nat /\ Len(queue) >= 1
          /\ Len(queue') = Len(queue) - 1 /\ queue[1] \in Events
          /\ \A k \in 1 .. Len(queue') : queue'[k] = queue[k + 1]
          /\ Head(queue) = queue[1]
        BY Taken, TypesFacts
    <1>2. /\ Len(queue') \in Nat
          /\ \A k \in 1 .. Len(queue') : k + 1 \in 1 .. Len(queue) /\ k + 1 # 1
          /\ \A k \in 1 .. Len(queue) : k = 1 \/ (k - 1 \in 1 .. Len(queue') /\ (k - 1) + 1 = k)
          /\ \A j, k \in 1 .. Len(queue') : j < k => j + 1 < k + 1
        BY <1>1
    <1>3. \A k \in 1 .. Len(queue') : queue'[k].type # "started"
        BY <1>1, <1>2 DEF TellInv, StartedFirst
    <1>4. Len(queue') > 0 => 1 \in 1 .. Len(queue')
        BY <1>2
    <1>5. ~StartedIsDue' /\ StartedFirst'
        BY <1>3, <1>4 DEF StartedIsDue, StartedFirst
    <1>6. \A k \in 1 .. Len(queue') :
             /\ queue'[k].type = "image_started" => queue'[k].n <= past.results + 1
             /\ queue'[k].type = "result_ready" => queue'[k].n <= past.results
        BY <1>1, <1>2 DEF TellInv, Announcements
    <1>7. \A j, k \in 1 .. Len(queue') :
             j < k /\ queue'[j].type = "image_started" /\ queue'[k].type = "result_ready" =>
                 queue'[j].n <= queue'[k].n
        BY <1>1, <1>2 DEF TellInv, Announcements
    <1>8. (\E k \in 1 .. Len(queue) : queue[k].type = "error") /\ queue[1].type # "error" =>
              \E k \in 1 .. Len(queue') : queue'[k].type = "error"
        <2>1. SUFFICES ASSUME NEW k \in 1 .. Len(queue), queue[k].type = "error",
                              queue[1].type # "error"
                       PROVE  \E j \in 1 .. Len(queue') : queue'[j].type = "error"
            OBVIOUS
        <2>2. k - 1 \in 1 .. Len(queue') /\ (k - 1) + 1 = k
            BY <1>2, <2>1
        <2>3. queue'[k - 1].type = "error"
            BY <1>1, <2>1, <2>2
        <2>4. QED
            BY <2>2, <2>3
    <1>9. QED
        BY <1>1, <1>5, <1>6, <1>7, <1>8

\* An event of the running worker is taken and the view is told.
LEMMA ToldTells ==
    ASSUME RunInv, TellInv, queue # <<>>, queue' = Tail(queue), thread = "Running",
           UNCHANGED <<past, thread, worker>>,
           view'.current <= past.results + 1,
           \A k \in 1 .. Len(queue') :
              queue'[k].type = "result_ready" => view'.current <= queue'[k].n,
           view.failed = TRUE => view'.failed = TRUE \/ StartedIsDue,
           queue[1].type = "error" => view'.failed = TRUE,
           view'.stopRequested = view.stopRequested, view'.paused = view.paused,
           view'.controls = view.controls \/ (view'.controls = "Running" /\ StartedIsDue),
           \A k \in 1 .. Len(boxes') : boxes'[k] = "folder" =>
               \E j \in 1 .. Len(boxes) : boxes[j] = "folder"
    PROVE  TellInv'
    <1>1. Accounts'
        BY DEF TellInv, Accounts
    <1>2. StartedFirst'
        BY TakenTells
    <1>3. Announcements'
        BY TakenTells DEF Announcements
    <1>4. FailureTold'
        <2>1. ~StartedIsDue' /\ Unfinished'
            BY TakenTells DEF Unfinished
        <2>2. SUFFICES ASSUME past.raised = TRUE
                       PROVE  \/ view'.failed = TRUE
                              \/ \E k \in 1 .. Len(queue') : queue'[k].type = "error"
            BY <2>1 DEF FailureTold
        <2>3. /\ \/ view.failed = TRUE
                 \/ \E k \in 1 .. Len(queue) : queue[k].type = "error"
              /\ StartedIsDue => view.failed = FALSE
            BY <2>2 DEF TellInv, FailureTold, Unfinished
        <2>4. view.failed = TRUE => view'.failed = TRUE
            BY <2>3
        <2>5. QED
            BY <2>3, <2>4, TakenTells
    <1>5. StopTold'
        <2>1. ~StartedIsDue'
            BY TakenTells
        <2>2. worker.stop = TRUE =>
                 \/ past.closing = TRUE
                 \/ /\ view.stopRequested = TRUE /\ view.controls = "Stopping"
                    /\ view.paused = FALSE /\ ~StartedIsDue
            BY DEF TellInv, StopTold, Unfinished
        <2>3. worker'.stop = TRUE =>
                 \/ past'.closing = TRUE
                 \/ /\ view'.stopRequested = TRUE /\ view'.controls = "Stopping"
                    /\ view'.paused = FALSE /\ ~StartedIsDue'
            BY <2>1, <2>2
        <2>4. view'.controls = "Stopping" => \A k \in 1 .. Len(boxes') : boxes'[k] # "folder"
            <3>1. view'.controls = "Stopping" => view.controls = "Stopping"
                OBVIOUS
            <3>2. QED
                BY <3>1 DEF TellInv, StopTold
        <2>5. QED
            BY <2>3, <2>4 DEF StopTold
    <1>6. QED
        BY <1>1, <1>2, <1>3, <1>4, <1>5 DEF TellInv

\* The head of the queue tells where the thread is.
LEMMA HeadTells ==
    ASSUME RunInv, queue # <<>>
    PROVE  /\ queue[1].type \in Early => thread = "Running"
           /\ queue[1].type = "quit" => thread = "Running" /\ worker.pc = "Returned"
           /\ queue[1].type = "finished" =>
                 /\ thread \in {"Quitting", "Ended"} /\ worker.pc = "Returned" /\ Unfinished
                 /\ \A k \in 1 .. Len(queue) : queue[k].type # "error"
           /\ queue[1].type = "cleanup" => thread = "Ended" /\ ~Unfinished /\ Len(queue) = 1
    <1>1. /\ QueueShape /\ thread \in Threads /\ Len(queue) \in Nat /\ Len(queue) >= 1
        BY EmptyQueue, TypesFacts DEF RunInv, Types
    <1>2. queue[1].type \in Early => thread = "Running"
        BY <1>1 DEF QueueShape, Threads, Early
    <1>3. queue[1].type = "quit" => thread = "Running" /\ worker.pc = "Returned"
        BY <1>1 DEF QueueShape, Threads, Early
    <1>4. queue[1].type = "cleanup" => thread = "Ended" /\ Len(queue) = 1
        BY <1>1 DEF QueueShape, Threads, Early
    <1>5. queue[1].type = "finished" => thread \in {"Quitting", "Ended"} /\ worker.pc = "Returned"
        BY <1>1 DEF QueueShape, Threads, Early
    <1>6. ASSUME queue[1].type = "finished", NEW k \in 1 .. Len(queue)
          PROVE  queue[k].type # "error"
        BY <1>1, <1>5, <1>6 DEF QueueShape
    <1>7. queue[1].type = "finished" => Unfinished
        BY <1>1, <1>5 DEF Unfinished
    <1>8. queue[1].type = "cleanup" => ~Unfinished
        BY <1>4 DEF Unfinished
    <1>9. QED
        BY <1>2, <1>3, <1>4, <1>5, <1>6, <1>7, <1>8

LEMMA StartedTells ==
    ASSUME RunInv, TellInv, queue # <<>>, queue[1].type = "started", queue' = Tail(queue),
           OnStarted(queue[1].n), UNCHANGED <<thread, worker, boxes, past>>
    PROVE  TellInv'
    <1>1. /\ view'.current = 0 /\ view'.controls = "Running"
          /\ view'.stopRequested = view.stopRequested /\ view'.paused = view.paused
        BY TypesFacts DEF OnStarted, Views
    <1>2. thread = "Running" /\ StartedIsDue
        BY HeadTells, TakenTells DEF Early, StartedIsDue
    <1>3. /\ 0 <= past.results + 1
          /\ \A k \in 1 .. Len(queue') :
                queue'[k].type = "result_ready" => view'.current <= queue'[k].n
        <2>1. \A e \in Events : e.n \in Nat /\ 0 <= e.n
            BY DEF Events
        <2>2. \A k \in 1 .. Len(queue') : queue'[k] \in Events
            BY TakenTells
        <2>3. QED
            BY <1>1, <2>1, <2>2, TypesFacts
    <1>4. QED
        BY <1>1, <1>2, <1>3, ToldTells

LEMMA ImageStartedTells ==
    ASSUME RunInv, TellInv, queue # <<>>, queue[1].type = "image_started",
           queue' = Tail(queue), OnImageStarted(queue[1].n),
           UNCHANGED <<thread, worker, boxes, past>>
    PROVE  TellInv' /\ view'.progress <= past.results
    <1>1. /\ view'.current = queue[1].n /\ view'.controls = view.controls
          /\ view'.stopRequested = view.stopRequested /\ view'.paused = view.paused
          /\ view'.failed = view.failed /\ view'.progress = queue[1].n - 1
        BY TypesFacts DEF OnImageStarted, Views
    <1>2. thread = "Running" /\ 1 \in 1 .. Len(queue)
        BY HeadTells, TakenTells DEF Early
    <1>3. queue[1].n <= past.results + 1
        BY <1>2 DEF TellInv, Announcements
    <1>4. \A k \in 1 .. Len(queue') :
             queue'[k].type = "result_ready" => view'.current <= queue'[k].n
        <2>1. \A k \in 1 .. Len(queue') : k + 1 \in 1 .. Len(queue) /\ 1 < k + 1
            BY TakenTells
        <2>2. \A k \in 1 .. Len(queue) :
                 1 < k /\ queue[k].type = "result_ready" => queue[1].n <= queue[k].n
            BY <1>2 DEF TellInv, Announcements
        <2>3. QED
            BY <1>1, <2>1, <2>2, TakenTells
    <1>5. TellInv'
        BY <1>1, <1>2, <1>3, <1>4, ToldTells
    <1>6. queue[1].n - 1 <= past.results
        BY <1>2, <1>3, TypesFacts
    <1>7. QED
        BY <1>1, <1>5, <1>6

LEMMA ViewStays ==
    ASSUME RunInv, TellInv, queue # <<>>, queue[1].type \in {"result_ready", "error"},
           queue' = Tail(queue), view'.current = view.current
    PROVE  /\ thread = "Running" /\ ~StartedIsDue /\ view'.current <= past.results + 1
           /\ \A k \in 1 .. Len(queue') :
                 queue'[k].type = "result_ready" => view'.current <= queue'[k].n
           /\ queue[1].type = "result_ready" => view.current <= past.results
    <1>1. /\ thread = "Running" /\ 1 \in 1 .. Len(queue) /\ ~StartedIsDue
          /\ Len(queue) \in Nat /\ Len(queue') = Len(queue) - 1
          /\ \A k \in 1 .. Len(queue') : queue'[k] = queue[k + 1]
        BY HeadTells, Taken, TypesFacts DEF Early, StartedIsDue
    <1>2. \A k \in 1 .. Len(queue') : k + 1 \in 1 .. Len(queue)
        BY <1>1
    <1>3. /\ view.current <= past.results + 1
          /\ \A k \in 1 .. Len(queue) :
                queue[k].type = "result_ready" => view.current <= queue[k].n
          /\ queue[1].type = "result_ready" => queue[1].n <= past.results
        BY <1>1 DEF TellInv, Announcements
    <1>4. queue[1].type = "result_ready" => view.current <= past.results
        <2>1. queue[1].type = "result_ready" => view.current <= queue[1].n
            BY <1>1, <1>3
        <2>2. QED
            BY <1>1, <1>3, <2>1, TypesFacts
    <1>5. QED
        BY <1>1, <1>2, <1>3, <1>4

LEMMA ResultReadyTells ==
    ASSUME RunInv, TellInv, queue # <<>>, queue[1].type = "result_ready",
           queue' = Tail(queue), OnResultReady, UNCHANGED <<thread, worker, boxes, past>>
    PROVE  TellInv' /\ view'.progress <= past.results
    <1>1. /\ view'.current = view.current /\ view'.controls = view.controls
          /\ view'.stopRequested = view.stopRequested /\ view'.paused = view.paused
          /\ view'.failed = view.failed /\ view'.progress = view.current
        BY TypesFacts DEF OnResultReady, Views
    <1>2. TellInv'
        BY <1>1, ViewStays, ToldTells
    <1>3. QED
        BY <1>1, <1>2, ViewStays

LEMMA ErrorTells ==
    ASSUME RunInv, TellInv, queue # <<>>, queue[1].type = "error", queue' = Tail(queue),
           OnError, UNCHANGED <<thread, worker, past>>
    PROVE  TellInv' /\ view'.progress = view.progress /\ view'.status = "Error"
    <1>1. /\ ShowError(view) \in Views /\ ShowError(view).current = view.current
          /\ ShowError(view).controls = view.controls
          /\ ShowError(view).stopRequested = view.stopRequested
          /\ ShowError(view).paused = view.paused /\ ShowError(view).status = "Error"
          /\ ShowError(view).progress = view.progress
        BY TypesFacts, ShowErrorIs DEF ShowError, Views
    <1>2. /\ view'.current = view.current /\ view'.controls = view.controls
          /\ view'.stopRequested = view.stopRequested /\ view'.paused = view.paused
          /\ view'.failed = TRUE /\ view'.progress = view.progress /\ view'.status = "Error"
        BY <1>1 DEF OnError, Views
    <1>3. ASSUME NEW k \in 1 .. Len(boxes'), boxes'[k] = "folder"
          PROVE  \E j \in 1 .. Len(boxes) : boxes[j] = "folder"
        <2>1. /\ <<"error">> \in Seq(Boxes) /\ boxes \in Seq(Boxes)
              /\ boxes' = <<"error">> \o boxes
            BY TypesFacts DEF OnError, Boxes
        <2>2. /\ Len(boxes) \in Nat /\ Len(boxes') = Len(boxes) + 1 /\ boxes'[1] = "error"
              /\ \A j \in 1 .. Len(boxes) : boxes'[j + 1] = boxes[j]
            BY <2>1
        <2>3. k # 1
            BY <1>3, <2>2
        <2>4. k - 1 \in 1 .. Len(boxes) /\ (k - 1) + 1 = k
            BY <2>2, <2>3
        <2>5. QED
            BY <1>3, <2>2, <2>4
    <1>4. TellInv'
        BY <1>2, <1>3, ViewStays, ToldTells
    <1>5. QED
        BY <1>2, <1>4

LEMMA QuitTells ==
    ASSUME RunInv, TellInv, queue # <<>>, queue[1].type = "quit", queue' = Tail(queue),
           thread' = "Quitting", UNCHANGED <<worker, view, boxes, past>>
    PROVE  TellInv'
    <1>1. thread = "Running" /\ worker.pc = "Returned"
        BY HeadTells
    <1>2. Unfinished'
        <2>1. /\ Len(queue) \in Nat /\ Len(queue) >= 2 /\ Len(queue') = Len(queue) - 1
              /\ \A k \in 1 .. Len(queue) - 2 : queue[k].type \in Early
              /\ queue[Len(queue)].type = "finished"
            BY <1>1, TakenTells DEF RunInv, QueueShape
        <2>2. Len(queue) = 2 /\ queue[2].type = "finished" /\ Len(queue') = 1
            BY <2>1 DEF Early
        <2>3. 1 \in 1 .. Len(queue') /\ 1 + 1 = 2
            BY <2>2
        <2>4. queue'[1] = queue[2]
            BY <2>3, TakenTells
        <2>5. QED
            BY <2>2, <2>4 DEF Unfinished
    <1>3. Accounts'
        BY <1>1 DEF TellInv, Accounts
    <1>4. StartedFirst' /\ ~StartedIsDue'
        BY TakenTells
    <1>5. Announcements'
        BY TakenTells DEF Announcements
    <1>6. FailureTold'
        BY <1>1, <1>2, <1>4, TakenTells DEF TellInv, FailureTold, Unfinished
    <1>7. StopTold'
        BY <1>1, <1>4 DEF TellInv, StopTold, Unfinished
    <1>8. QED
        BY <1>3, <1>4, <1>5, <1>6, <1>7 DEF TellInv

\* When the run is over the view shows what it remembers of it.
LEMMA FinishedShows ==
    ASSUME view \in Views, OnFinished
    PROVE  /\ view'.controls = "Idle" /\ view'.failed = FALSE /\ view'.current \in {0, view.current}
           /\ \/ view'.status # "Done" /\ view'.progress \in {0, view.progress}
              \/ /\ view'.status = "Done"
                 /\ view.stopRequested = FALSE /\ view.failed = FALSE
    <1> DEFINE idle == [view EXCEPT !.paused = FALSE, !.stopRequested = FALSE,
                                    !.failed = FALSE, !.controls = "Idle"]
    <1>1. /\ idle \in Views /\ idle.controls = "Idle" /\ idle.failed = FALSE
          /\ idle.current = view.current /\ idle.progress = view.progress
        BY DEF Views, Controls
    <1>2. /\ view.stopRequested \in BOOLEAN /\ view.failed \in BOOLEAN
          /\ \/ view' = [idle EXCEPT !.current = 0, !.progress = 0, !.status = "Waiting"]
             \/ view' = [idle EXCEPT !.status = "Error"]
             \/ /\ view' = [idle EXCEPT !.progress = view.total, !.status = "Done"]
                /\ ~view.stopRequested /\ ~view.failed
        BY DEF OnFinished, Views
    <1> HIDE DEF idle
    <1>3. CASE view' = [idle EXCEPT !.current = 0, !.progress = 0, !.status = "Waiting"]
        BY <1>1, <1>3 DEF Views
    <1>4. CASE view' = [idle EXCEPT !.status = "Error"]
        BY <1>1, <1>4 DEF Views
    <1>5. CASE /\ view' = [idle EXCEPT !.progress = view.total, !.status = "Done"]
               /\ ~view.stopRequested /\ ~view.failed
        BY <1>1, <1>2, <1>5 DEF Views
    <1>6. QED
        BY <1>2, <1>3, <1>4, <1>5

LEMMA FinishedTells ==
    ASSUME RunInv, TellInv, queue # <<>>, queue[1].type = "finished", queue' = Tail(queue),
           OnFinished, UNCHANGED <<thread, worker, boxes, past>>
    PROVE  /\ TellInv'
           /\ \/ view'.status # "Done" /\ view'.progress \in {0, view.progress}
              \/ /\ view'.status = "Done"
                 /\ past.closing = TRUE
                    \/ (past.raised # TRUE /\ past.results = past.total)
    <1>1. /\ thread \in {"Quitting", "Ended"} /\ worker.pc = "Returned" /\ Unfinished
          /\ \A k \in 1 .. Len(queue) : queue[k].type # "error"
        BY HeadTells
    <1>2. /\ view'.controls = "Idle" /\ view'.failed = FALSE
          /\ \/ view'.status # "Done" /\ view'.progress \in {0, view.progress}
             \/ /\ view'.status = "Done"
                /\ view.stopRequested = FALSE /\ view.failed = FALSE
        BY FinishedShows, TypesFacts
    <1>3. Accounts'
        BY DEF TellInv, Accounts
    <1>4. StartedFirst'
        BY TakenTells
    <1>5. Announcements'
        BY <1>1, TakenTells DEF Announcements
    <1>6. ~Unfinished'
        <2>1. ASSUME Len(queue') > 0 PROVE queue'[1].type # "finished"
            <3>1. Len(queue) = 2 /\ queue[2].type = "cleanup"
                BY <1>1, <2>1, TakenTells DEF RunInv, QueueShape
            <3>2. Len(queue') = Len(queue) - 1
                BY TakenTells
            <3>3. 1 \in 1 .. Len(queue') /\ 1 + 1 = 2
                <4>1. Len(queue') = 1
                    BY <3>1, <3>2
                <4>2. \A n \in Nat : n = 1 => 1 \in 1 .. n /\ 1 + 1 = 2
                    OBVIOUS
                <4>3. Len(queue') \in Nat
                    BY <4>1
                <4>4. QED
                    BY <4>1, <4>2, <4>3, Zenon
            <3>4. queue'[1] = queue[2]
                <4>1. queue \in Seq(Events)
                    BY TypesFacts
                <4>2. \A k \in 1 .. Len(queue') : queue'[k] = queue[k + 1]
                    BY <4>1, Taken, Zenon
                <4>3. QED
                    BY <3>3, <4>2, Zenon
            <3>5. QED
                BY <3>1, <3>4
        <2>2. QED
            BY <1>1, <2>1 DEF Unfinished
    <1>7. FailureTold'
        BY <1>2, <1>6 DEF FailureTold
    <1>8. StopTold'
        BY <1>1, <1>2, <1>6 DEF StopTold
    <1>9. ASSUME view.stopRequested = FALSE, view.failed = FALSE
          PROVE  past.closing = TRUE \/ (past.raised # TRUE /\ past.results = past.total)
        <2>1. past.raised # TRUE
            BY <1>1, <1>9 DEF TellInv, FailureTold
        <2>2. worker.stop = TRUE => past.closing = TRUE
            BY <1>1, <1>9 DEF TellInv, StopTold
        <2>3. worker.stop = TRUE \/ past.raised = TRUE \/ past.results = past.total
            BY <1>1 DEF TellInv, Accounts, Busy
        <2>4. QED
            BY <2>1, <2>2, <2>3
    <1>10. QED
        BY <1>2, <1>3, <1>4, <1>5, <1>7, <1>8, <1>9 DEF TellInv

LEMMA CleanupTells ==
    ASSUME RunInv, TellInv, queue # <<>>, queue[1].type = "cleanup", queue' = Tail(queue),
           CleanupThread, UNCHANGED <<view, boxes, past>>
    PROVE  TellInv'
    <1>1. Len(queue) = 1 /\ ~Unfinished
        BY HeadTells
    <1>2. thread' = "None" /\ worker'.stop = FALSE
        BY DEF CleanupThread, NewWorker
    <1>3. Accounts' /\ ~Unfinished'
        BY <1>2 DEF Accounts, Unfinished
    <1>4. StartedFirst'
        BY TakenTells
    <1>5. Announcements'
        BY <1>2, TakenTells DEF Announcements
    <1>6. FailureTold'
        BY <1>1, <1>3 DEF TellInv, FailureTold
    <1>7. StopTold'
        BY <1>2 DEF TellInv, StopTold
    <1>8. QED
        BY <1>3, <1>4, <1>5, <1>6, <1>7 DEF TellInv

-----------------------------------------------------------------------------
(* Clicks, once more.                                                      *)

LEMMA ClickTells ==
    ASSUME RunInv, TellInv, UNCHANGED <<thread, queue>>,
           worker'.pc = worker.pc, worker'.index = worker.index,
           worker'.total = worker.total,
           past'.total = past.total, past'.results = past.results,
           past'.raised = past.raised,
           worker.stop = TRUE => worker'.stop = TRUE,
           view'.current \in {0, view.current}, view'.failed = view.failed,
           StartedFirst', StopTold'
    PROVE  TellInv'
    <1>1. Accounts'
        BY DEF TellInv, Accounts
    <1>2. Announcements'
        <2>1. /\ view.current \in Nat /\ past.results \in Nat
              /\ \A k \in 1 .. Len(queue) : queue[k].n \in Nat
            BY TypesFacts
        <2>2. 0 <= past.results + 1 /\ \A k \in 1 .. Len(queue) : 0 <= queue[k].n
            BY <2>1
        <2>3. CASE view'.current = view.current
            BY <2>3 DEF TellInv, Announcements, StartedIsDue
        <2>4. CASE view'.current = 0
            BY <2>2, <2>4 DEF TellInv, Announcements, StartedIsDue
        <2>5. QED
            BY <2>3, <2>4
    <1>3. FailureTold'
        BY DEF TellInv, FailureTold, Unfinished, StartedIsDue
    <1>4. QED
        BY <1>1, <1>2, <1>3 DEF TellInv

\* A click that changes no button and opens no folder dialog over a stopping run.
LEMMA BoxTells ==
    ASSUME RunInv, TellInv, UNCHANGED <<thread, queue, worker>>,
           past'.total = past.total, past'.results = past.results,
           past'.raised = past.raised, past'.closing = past.closing,
           view'.current \in {0, view.current}, view'.failed = view.failed,
           view'.paused = view.paused,
           \/ view'.controls = "Idle" /\ view.controls # "Stopping"
           \/ view'.controls = view.controls,
           \/ view.controls # "Stopping"
           \/ /\ \A k \in 1 .. Len(boxes') : boxes'[k] # "folder"
              /\ view'.stopRequested = view.stopRequested
    PROVE  TellInv'
    <1>1. StartedFirst'
        BY DEF TellInv, StartedFirst, StartedIsDue
    <1>2. StopTold'
        BY DEF TellInv, StopTold, Unfinished, StartedIsDue
    <1>3. QED
        BY <1>1, <1>2, ClickTells

LEMMA ChooseTells == RunInv /\ TellInv /\ ChooseFolder => TellInv'
    BY BoxTells DEF ChooseFolder

\* While a run is stopping no folder dialog is open.
LEMMA NoFolderBox ==
    ASSUME RunInv, TellInv, boxes # <<>>, boxes[1] = "folder"
    PROVE  view.controls # "Stopping"
    <1>1. Len(boxes) \in Nat /\ Len(boxes) # 0
        BY EmptyBoxes, TypesFacts
    <1>2. 1 \in 1 .. Len(boxes)
        BY <1>1
    <1>3. QED
        BY <1>2 DEF TellInv, StopTold

LEMMA ChosenTells ==
    ASSUME RunInv, TellInv, NEW n \in Folders, FolderChosen(n)
    PROVE  TellInv' /\ view'.progress \in {0, view.progress} /\ view'.status # "Done"
    <1>1. /\ view.controls # "Stopping" /\ UNCHANGED <<thread, worker, queue>>
          /\ past' = [past EXCEPT !.chose = @ \/ Running]
        BY NoFolderBox DEF FolderChosen
    <1>2. /\ past'.total = past.total /\ past'.results = past.results
          /\ past'.raised = past.raised /\ past'.closing = past.closing
        BY <1>1, TypesFacts DEF Pasts
    <1>3. CASE n = 0
        <2>1. /\ view'.current = view.current /\ view'.failed = view.failed
              /\ view'.paused = view.paused /\ view'.controls = view.controls
              /\ view'.progress = view.progress /\ view'.status = "Error"
            BY <1>3, TypesFacts DEF FolderChosen, ShowError, Views
        <2>2. QED
            BY <1>1, <1>2, <2>1, BoxTells
    <1>4. CASE n # 0
        <2>1. view' = [view EXCEPT !.total = n, !.current = 0, !.progress = 0,
                                   !.status = "Waiting", !.controls = "Idle"]
            BY <1>4 DEF FolderChosen
        <2>2. /\ view'.current = 0 /\ view'.failed = view.failed
              /\ view'.paused = view.paused /\ view'.controls = "Idle"
              /\ view'.progress = 0 /\ view'.status = "Waiting"
            BY <2>1, TypesFacts DEF Views
        <2>3. QED
            BY <1>1, <1>2, <2>2, BoxTells
    <1>5. QED
        BY <1>3, <1>4

LEMMA GoneTells ==
    RunInv /\ TellInv /\ FolderIsGone =>
        TellInv' /\ view'.progress = view.progress /\ view'.status = "Error"
    <1> SUFFICES ASSUME RunInv, TellInv, FolderIsGone
                 PROVE  TellInv' /\ view'.progress = view.progress /\ view'.status = "Error"
        OBVIOUS
    <1>1. /\ view.controls # "Stopping" /\ UNCHANGED <<thread, worker, queue, past>>
        BY NoFolderBox DEF FolderIsGone
    <1>2. /\ view'.current = view.current /\ view'.failed = view.failed
          /\ view'.paused = view.paused /\ view'.controls = view.controls
          /\ view'.progress = view.progress /\ view'.status = "Error"
        BY TypesFacts DEF FolderIsGone, ShowError, Views
    <1>3. QED
        BY <1>1, <1>2, BoxTells

LEMMA CloseBoxTells == RunInv /\ TellInv /\ CloseBox => TellInv'
    <1> SUFFICES ASSUME RunInv, TellInv, CloseBox PROVE TellInv'
        OBVIOUS
    <1>1. /\ boxes # <<>> /\ boxes' = Tail(boxes) /\ boxes \in Seq(Boxes)
          /\ UNCHANGED <<thread, worker, queue, view, past>>
        BY TypesFacts DEF CloseBox
    <1>2. /\ Len(boxes) \in Nat /\ Len(boxes') = Len(boxes) - 1
          /\ \A k \in 1 .. Len(boxes') : boxes'[k] = boxes[k + 1]
        BY <1>1
    <1>3. \A k \in 1 .. Len(boxes') : k + 1 \in 1 .. Len(boxes)
        BY <1>2
    <1>4. view.controls # "Stopping" \/ \A k \in 1 .. Len(boxes') : boxes'[k] # "folder"
        BY <1>2, <1>3 DEF TellInv, StopTold
    <1>5. QED
        BY <1>1, <1>4, BoxTells

LEMMA StartFailsTells ==
    RunInv /\ TellInv /\ StartFails =>
        TellInv' /\ view'.progress = view.progress /\ view'.status = "Error"
    <1> SUFFICES ASSUME RunInv, TellInv, StartFails
                 PROVE  TellInv' /\ view'.progress = view.progress /\ view'.status = "Error"
        OBVIOUS
    <1>1. /\ view.controls # "Stopping" /\ UNCHANGED <<thread, worker, queue, past>>
        BY DEF StartFails, StartEnabled
    <1>2. /\ view'.current = view.current /\ view'.failed = view.failed
          /\ view'.paused = view.paused /\ view'.controls = view.controls
          /\ view'.progress = view.progress /\ view'.status = "Error"
        <2> DEFINE v == ShowError(view)
        <2>1. /\ v \in Views /\ v.current = view.current /\ v.failed = view.failed
              /\ v.paused = view.paused /\ v.controls = view.controls
              /\ v.progress = view.progress /\ v.status = "Error"
            BY TypesFacts, ShowErrorIs DEF ShowError, Views
        <2>2. \/ view' = [v EXCEPT !.stopRequested = v.stopRequested]
              \/ view' = [v EXCEPT !.stopRequested = FALSE]
            BY DEF StartFails
        <2> HIDE DEF v
        <2>3. QED
            BY <2>1, <2>2 DEF Views
    <1>3. QED
        BY <1>1, <1>2, BoxTells

LEMMA ResumeTells ==
    RunInv /\ TellInv /\ Resume =>
        TellInv' /\ view'.progress = view.progress /\ view'.status = "Inspecting"
    <1> SUFFICES ASSUME RunInv, TellInv, Resume
                 PROVE  TellInv' /\ view'.progress = view.progress /\ view'.status = "Inspecting"
        OBVIOUS
    <1>1. view.paused = TRUE /\ UNCHANGED <<thread, queue, boxes>>
        BY TypesFacts DEF Resume, Views
    <1>2. /\ view'.current = view.current /\ view'.failed = view.failed
          /\ view'.controls = "Running" /\ view'.progress = view.progress
          /\ view'.status = "Inspecting"
        BY TypesFacts DEF Resume, Views
    <1>3. /\ worker'.pc = worker.pc /\ worker'.index = worker.index
          /\ worker'.total = worker.total /\ worker'.stop = worker.stop
        BY TypesFacts DEF Resume, Workers
    <1>4. /\ past'.total = past.total /\ past'.results = past.results
          /\ past'.raised = past.raised /\ past'.closing = past.closing
        BY TypesFacts DEF Resume, Pasts
    <1>5. StartedFirst'
        BY <1>1 DEF TellInv, StartedFirst, StartedIsDue
    <1>6. StopTold'
        BY <1>1, <1>2, <1>3, <1>4 DEF TellInv, StopTold, Unfinished
    <1>7. QED
        BY <1>1, <1>2, <1>3, <1>4, <1>5, <1>6, ClickTells

LEMMA StartTells ==
    RunInv /\ TellInv /\ Start =>
        TellInv' /\ view'.progress = view.progress /\ view'.status = view.status
    <1> SUFFICES ASSUME RunInv, TellInv, Start
                 PROVE  TellInv' /\ view'.progress = view.progress /\ view'.status = view.status
        OBVIOUS
    <1>1. /\ thread = "None" /\ thread' = "Starting" /\ queue' = queue
          /\ worker' = NewWorker("Returned", images) /\ past' = NothingPast(images)
        BY DEF Start, Running
    <1>2. /\ view'.progress = view.progress /\ view'.status = view.status
          /\ view'.controls = view.controls /\ view'.failed = view.failed
        BY TypesFacts DEF Start, Views
    <1>3. Len(queue) = 0 /\ ~Unfinished /\ ~Unfinished' /\ view.controls = "Idle"
        BY <1>1 DEF RunInv, QueueShape, ViewIsTold, Unfinished
    <1>4. /\ worker'.stop = FALSE /\ worker'.total = images
          /\ past'.total = images /\ past'.results = 0 /\ past'.raised = FALSE
        BY <1>1 DEF NewWorker, NothingPast
    <1>5. Accounts'
        BY <1>1, <1>4 DEF Accounts
    <1>6. StartedFirst' /\ Announcements'
        <2>1. \A k \in 1 .. Len(queue') : FALSE
            <3>1. ASSUME NEW k \in 1 .. 0 PROVE FALSE
                OBVIOUS
            <3>2. QED
                BY <1>1, <1>3, <3>1
        <2>2. ~StartedIsDue'
            BY <1>1, <1>3 DEF StartedIsDue
        <2>3. QED
            BY <1>1, <2>1, <2>2 DEF StartedFirst, Announcements
    <1>7. FailureTold'
        BY <1>2, <1>3 DEF TellInv, FailureTold
    <1>8. StopTold'
        BY <1>2, <1>3, <1>4 DEF StopTold
    <1>9. QED
        BY <1>2, <1>5, <1>6, <1>7, <1>8 DEF TellInv

LEMMA PauseTells ==
    RunInv /\ TellInv /\ Pause =>
        TellInv' /\ view'.progress = view.progress /\ view'.status = "Paused"
    <1> SUFFICES ASSUME RunInv, TellInv, Pause
                 PROVE  TellInv' /\ view'.progress = view.progress /\ view'.status = "Paused"
        OBVIOUS
    <1>1. view.controls = "Running" /\ UNCHANGED <<thread, queue, boxes, past>>
        BY DEF Pause
    <1>2. /\ view'.current = view.current /\ view'.failed = view.failed
          /\ view'.controls = "Paused" /\ view'.progress = view.progress
          /\ view'.status = "Paused"
        BY TypesFacts DEF Pause, Views
    <1>3. /\ worker'.pc = worker.pc /\ worker'.index = worker.index
          /\ worker'.total = worker.total /\ worker'.stop = worker.stop
        BY TypesFacts DEF Pause, Workers
    <1>4. StartedFirst'
        BY <1>1 DEF TellInv, StartedFirst, StartedIsDue
    <1>5. StopTold'
        BY <1>1, <1>2, <1>3 DEF TellInv, StopTold, Unfinished
    <1>6. QED
        BY <1>1, <1>2, <1>3, <1>4, <1>5, ClickTells

LEMMA StopTells ==
    RunInv /\ TellInv /\ Stop =>
        TellInv' /\ view'.progress = view.progress /\ view'.status = "Stopping"
    <1> SUFFICES ASSUME RunInv, TellInv, Stop
                 PROVE  TellInv' /\ view'.progress = view.progress /\ view'.status = "Stopping"
        OBVIOUS
    <1>1. /\ view.controls \in {"Running", "Paused"} /\ UNCHANGED <<thread, queue, boxes, past>>
          /\ worker' = StopWorker /\ Len(boxes) = 0
        BY EmptyBoxes, TypesFacts DEF Stop, Clickable
    <1>2. /\ view'.current = view.current /\ view'.failed = view.failed
          /\ view'.controls = "Stopping" /\ view'.progress = view.progress
          /\ view'.status = "Stopping" /\ view'.stopRequested = TRUE /\ view'.paused = FALSE
        BY TypesFacts DEF Stop, Views
    <1>3. /\ worker'.pc = worker.pc /\ worker'.index = worker.index
          /\ worker'.total = worker.total /\ worker'.stop = TRUE
        BY <1>1, StopWorkerIs, TypesFacts
    <1>4. ~StartedIsDue /\ ~StartedIsDue' /\ thread # "Starting"
        BY <1>1 DEF TellInv, StartedFirst, StartedIsDue, RunInv, ViewIsTold, Unfinished
    <1>5. StartedFirst'
        BY <1>1, <1>4 DEF TellInv, StartedFirst
    <1>6. StopTold'
        <2>1. \A k \in 1 .. Len(boxes') : FALSE
            <3>1. ASSUME NEW k \in 1 .. 0 PROVE FALSE
                OBVIOUS
            <3>2. QED
                BY <1>1, <3>1
        <2>2. QED
            BY <1>1, <1>2, <1>4, <2>1 DEF StopTold
    <1>7. QED
        BY <1>1, <1>2, <1>3, <1>5, <1>6, ClickTells

LEMMA CloseWindowTells == RunInv /\ TellInv /\ CloseWindow => TellInv' /\ UNCHANGED view
    <1> SUFFICES ASSUME RunInv, TellInv, CloseWindow PROVE TellInv' /\ UNCHANGED view
        OBVIOUS
    <1>1. UNCHANGED <<thread, queue, view>> /\ boxes = <<>>
        BY DEF CloseWindow, Clickable
    <1>2. ASSUME boxes' \in {<<"closing">>, boxes}
          PROVE  \A k \in 1 .. Len(boxes') : boxes'[k] # "folder"
        BY <1>1, <1>2
    <1>3. StartedFirst'
        BY <1>1 DEF TellInv, StartedFirst, StartedIsDue
    <1>4. CASE /\ worker' = StopWorker /\ boxes' = <<"closing">>
               /\ past' = [past EXCEPT !.closing = TRUE]
        <2>1. /\ worker'.pc = worker.pc /\ worker'.index = worker.index
              /\ worker'.total = worker.total /\ worker'.stop = TRUE
            BY <1>4, StopWorkerIs, TypesFacts
        <2>2. /\ past'.total = past.total /\ past'.results = past.results
              /\ past'.raised = past.raised /\ past'.closing = TRUE
            BY <1>4, TypesFacts DEF Pasts
        <2>3. StopTold'
            BY <1>2, <1>4, <2>2 DEF StopTold
        <2>4. QED
            BY <1>1, <1>3, <2>1, <2>2, <2>3, ClickTells
    <1>5. CASE boxes' \in {<<"closing">>, boxes} /\ UNCHANGED <<worker, past>>
        BY <1>1, <1>2, <1>5, BoxTells
    <1>6. QED
        BY <1>4, <1>5 DEF CloseWindow

-----------------------------------------------------------------------------
(* What the view may newly say in one step.                                *)

NewlyDone == view'.status = "Done" /\ view.status # "Done"

Advances == view'.progress > view.progress /\ view'.status # "Done"

Told ==
    /\ NewlyDone => past.closing = TRUE \/ (past.raised # TRUE /\ past.results = past.total)
    /\ Advances => view'.progress <= past.results

\* A step after which the view shows no more than before.
LEMMA NoMore ==
    ASSUME RunInv, view'.progress \in {0, view.progress},
           view'.status # "Done" \/ view'.status = view.status
    PROVE  Told
    <1>1. view.progress \in Nat
        BY TypesFacts
    <1>2. ~Advances
        BY <1>1 DEF Advances
    <1>3. ~NewlyDone
        BY DEF NewlyDone
    <1>4. QED
        BY <1>2, <1>3 DEF Told

LEMMA EventTells == RunInv /\ TellInv /\ HandleEvent => TellInv' /\ Told
    <1> SUFFICES ASSUME RunInv, TellInv, HandleEvent PROVE TellInv' /\ Told
        OBVIOUS
    <1>1. /\ queue # <<>> /\ queue' = Tail(queue) /\ UNCHANGED past
          /\ Head(queue) = queue[1]
        BY Taken, TypesFacts DEF HandleEvent
    <1>2. \/ /\ queue[1].type = "started" /\ OnStarted(queue[1].n)
             /\ UNCHANGED <<thread, worker, boxes>>
          \/ /\ queue[1].type = "image_started" /\ OnImageStarted(queue[1].n)
             /\ UNCHANGED <<thread, worker, boxes>>
          \/ /\ queue[1].type = "result_ready" /\ OnResultReady
             /\ UNCHANGED <<thread, worker, boxes>>
          \/ /\ queue[1].type = "error" /\ OnError
             /\ UNCHANGED <<thread, worker>>
          \/ /\ queue[1].type = "quit" /\ thread' = "Quitting"
             /\ UNCHANGED <<worker, view, boxes>>
          \/ /\ queue[1].type = "finished" /\ OnFinished
             /\ UNCHANGED <<thread, worker, boxes>>
          \/ /\ queue[1].type = "cleanup" /\ CleanupThread
             /\ UNCHANGED <<view, boxes>>
        BY <1>1, Zenon DEF HandleEvent
    <1>3. CASE queue[1].type = "started" /\ OnStarted(queue[1].n)
               /\ UNCHANGED <<thread, worker, boxes>>
        <2>1. TellInv'
            BY <1>1, <1>3, StartedTells
        <2>2. view'.progress = 0 /\ view'.status = "Inspecting"
            BY <1>3, TypesFacts DEF OnStarted, Views
        <2>3. QED
            BY <2>1, <2>2, NoMore
    <1>4. CASE queue[1].type = "image_started" /\ OnImageStarted(queue[1].n)
               /\ UNCHANGED <<thread, worker, boxes>>
        <2>1. TellInv' /\ view'.progress <= past.results
            BY <1>1, <1>4, ImageStartedTells
        <2>2. view'.status = "Inspecting"
            BY <1>4, TypesFacts DEF OnImageStarted, Views
        <2>3. QED
            BY <2>1, <2>2 DEF Told, NewlyDone, Advances
    <1>5. CASE queue[1].type = "result_ready" /\ OnResultReady
               /\ UNCHANGED <<thread, worker, boxes>>
        <2>1. TellInv' /\ view'.progress <= past.results
            BY <1>1, <1>5, ResultReadyTells
        <2>2. view'.status = view.status
            BY <1>5, TypesFacts DEF OnResultReady, Views
        <2>3. QED
            BY <2>1, <2>2 DEF Told, NewlyDone, Advances
    <1>6. CASE queue[1].type = "error" /\ OnError /\ UNCHANGED <<thread, worker>>
        <2>1. TellInv' /\ view'.progress = view.progress /\ view'.status = "Error"
            BY <1>1, <1>6, ErrorTells
        <2>2. QED
            BY <2>1, NoMore
    <1>7. CASE queue[1].type = "quit" /\ thread' = "Quitting"
               /\ UNCHANGED <<worker, view, boxes>>
        <2>1. TellInv'
            BY <1>1, <1>7, QuitTells
        <2>2. QED
            BY <1>7, <2>1, NoMore
    <1>8. CASE queue[1].type = "finished" /\ OnFinished
               /\ UNCHANGED <<thread, worker, boxes>>
        <2>1. /\ TellInv'
              /\ \/ view'.status # "Done" /\ view'.progress \in {0, view.progress}
                 \/ /\ view'.status = "Done"
                    /\ past.closing = TRUE
                       \/ (past.raised # TRUE /\ past.results = past.total)
            BY <1>1, <1>8, FinishedTells
        <2>2. CASE view'.status # "Done" /\ view'.progress \in {0, view.progress}
            BY <2>1, <2>2, NoMore
        <2>3. CASE view'.status = "Done"
            BY <2>1, <2>3 DEF Told, NewlyDone, Advances
        <2>4. QED
            BY <2>1, <2>2, <2>3
    <1>9. CASE queue[1].type = "cleanup" /\ CleanupThread /\ UNCHANGED <<view, boxes>>
        <2>1. TellInv'
            BY <1>1, <1>9, CleanupTells
        <2>2. QED
            BY <1>9, <2>1, NoMore
    <1>10. QED
        BY <1>2, <1>3, <1>4, <1>5, <1>6, <1>7, <1>8, <1>9

LEMMA UserTells == RunInv /\ TellInv /\ UserStep => TellInv' /\ Told
    <1> SUFFICES ASSUME RunInv, TellInv, UserStep PROVE TellInv' /\ Told
        OBVIOUS
    <1>1. CASE ChooseFolder
        BY <1>1, ChooseTells, NoMore DEF ChooseFolder
    <1>2. CASE \E n \in Folders : FolderChosen(n)
        BY <1>2, ChosenTells, NoMore
    <1>3. CASE FolderIsGone
        BY <1>3, GoneTells, NoMore
    <1>4. CASE CloseBox
        BY <1>4, CloseBoxTells, NoMore DEF CloseBox
    <1>5. CASE Resume
        BY <1>5, ResumeTells, NoMore
    <1>6. CASE Start
        BY <1>6, StartTells, NoMore
    <1>7. CASE StartFails
        BY <1>7, StartFailsTells, NoMore
    <1>8. CASE Pause
        BY <1>8, PauseTells, NoMore
    <1>9. CASE Stop
        BY <1>9, StopTells, NoMore
    <1>10. CASE CloseWindow
        BY <1>10, CloseWindowTells, NoMore
    <1>11. QED
        BY <1>1, <1>2, <1>3, <1>4, <1>5, <1>6, <1>7, <1>8, <1>9, <1>10 DEF UserStep

LEMMA WorkerShowsNothing == WorkerStep => UNCHANGED view
    BY DEF WorkerStep, RunBegins, TestFlags, AnnounceImage, InspectImage, TestStop,
           ReportResult, NextImage, RunReturns, ThreadEnds

LEMMA StepTells == RunInv /\ TellInv /\ [Next]_vars => TellInv' /\ Told
    <1> SUFFICES ASSUME RunInv, TellInv, [Next]_vars PROVE TellInv' /\ Told
        OBVIOUS
    <1>1. CASE WorkerStep
        BY <1>1, WorkerTells, WorkerShowsNothing, NoMore
    <1>2. CASE HandleEvent
        BY <1>2, EventTells
    <1>3. CASE UserStep
        BY <1>3, UserTells
    <1>4. CASE UNCHANGED vars
        <2>1. TellInv'
            BY <1>4 DEF vars, TellInv, Accounts, StartedFirst, StartedIsDue, Announcements,
               FailureTold, Unfinished, StopTold
        <2>2. UNCHANGED view
            BY <1>4 DEF vars
        <2>3. QED
            BY <2>1, <2>2, NoMore
    <1>5. QED
        BY <1>1, <1>2, <1>3, <1>4 DEF Next

\* The two action properties, of one step.
CompletedStep ==
    view'.status = "Done" /\ view.status # "Done" =>
        past.closing \/ (~past.raised /\ past.results = past.total)

ProgressStep ==
    view'.progress > view.progress /\ view'.status # "Done" => view'.progress <= past.results

\* However many images a run has, and whatever is clicked while its events are on their
\* way: the view says that the inspection is complete only when the worker has
\* reported every image and has raised nothing, or was stopped by an attempt to close
\* the window; and its progress bar never runs ahead of the results.
THEOREM OutcomesAlwaysReal == Spec => OutcomesAreReal
    <1>1. TellInv /\ RunInv /\ [Next]_vars => TellInv'
        BY StepTells
    <1>2. RunInv /\ TellInv /\ [Next]_vars => CompletedStep
        <2>1. SUFFICES ASSUME RunInv, TellInv, [Next]_vars, NewlyDone
                       PROVE  past.closing \/ (~past.raised /\ past.results = past.total)
            BY DEF NewlyDone, CompletedStep
        <2>2. past.closing = TRUE \/ (past.raised # TRUE /\ past.results = past.total)
            BY <2>1, StepTells DEF Told
        <2>3. past.raised \in BOOLEAN
            BY <2>1, TypesFacts DEF Pasts
        <2>4. QED
            BY <2>2, <2>3, Zenon
    <1>3. RunInv /\ TellInv /\ [Next]_vars => ProgressStep
        BY StepTells DEF Told, Advances, ProgressStep
    <1>4. Spec => [](RunInv /\ TellInv)
        BY InitTell, RunAlways, <1>1, PTL DEF Spec
    <1>5. Spec => CompletedMeansAll
        <2>1. CompletedStep => [view'.status = "Done" /\ view.status # "Done" =>
                  past.closing \/ (~past.raised /\ past.results = past.total)]_vars
            BY DEF CompletedStep
        <2>2. QED
            BY <1>2, <1>4, <2>1, PTL DEF Spec, CompletedMeansAll
    <1>6. Spec => ProgressIsReal
        <2>1. ProgressStep => [view'.progress > view.progress /\ view'.status # "Done" =>
                  view'.progress <= past.results]_vars
            BY DEF ProgressStep
        <2>2. QED
            BY <1>3, <1>4, <2>1, PTL DEF Spec, ProgressIsReal
    <1>7. QED
        BY <1>5, <1>6 DEF OutcomesAreReal
=============================================================================
