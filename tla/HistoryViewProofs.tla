------------------------- MODULE HistoryViewProofs -------------------------
(***************************************************************************)
(* The history screen for every set of inspections: what it shows is about *)
(* the selected row and agrees with the database once a generation is      *)
(* over, a generation is offered only when one can be made, and the window *)
(* closes after the result.                                                *)
(*                                                                         *)
(* While the worker runs, and until its result is handled, the row it      *)
(* describes is the only one that the table may be wrong about; the queue  *)
(* tells when that is.                                                     *)
(***************************************************************************)
EXTENDS HistoryView, TLAPS

Threads == {"None", "Running", "Quitting", "Ended"}

Workers == [pc : {"idle", "find", "describe", "reread"}, id : Ids \cup {None}]

Events == [type : {"finished", "failed", "quit", "cleanup"},
           id : Ids \cup {None}, row : Rows \cup {None}]

Boxes == [kind : {"message", "delete"}, id : Ids \cup {None}]

Screen(table, selected, detail, button, records) ==
    [table |-> table, selected |-> selected, detail |-> detail, button |-> button,
     records |-> records]

\* A screen that lists ids of S, its detail about the selected one.
ScreenOf(v, S) ==
    /\ v = Screen(v.table, v.selected, v.detail, v.button, v.records)
    /\ DOMAIN v.table \subseteq S
    /\ v.table \in [DOMAIN v.table -> Texts]
    /\ v.selected \in DOMAIN v.table \cup {None}
    /\ v.detail \in Details \cup {None}
    /\ v.button \in BOOLEAN /\ v.records \in BOOLEAN
    /\ v.detail # None => v.detail.id = v.selected

\* The button of v can be used.
Offers(v, db, t) ==
    v.button => /\ t = "None" /\ v.selected # None
                /\ v.selected \in DOMAIN db => db[v.selected].ng

\* The table of v tells what db says, of the row p perhaps not.
TableTells(v, db, p) ==
    \A i \in DOMAIN v.table : i \in DOMAIN db /\ i # p => v.table[i] = TextOf(db[i])

DetailTells(v, db) ==
    v.detail # None /\ v.selected \in DOMAIN db =>
        /\ v.detail.text = TextOf(db[v.selected])
        /\ v.button => db[v.selected].ng /\ db[v.selected].vlm # "PROCESSING"
        /\ db[v.selected].ng /\ db[v.selected].vlm # "PROCESSING" => v.button

Types ==
    /\ issued \subseteq Ids
    /\ Live \subseteq issued /\ rows \in [Live -> Rows]
    /\ thread \in Threads /\ worker \in Workers
    /\ queue \in Seq(Events) /\ boxes \in Seq(Boxes)
    /\ closed \in BOOLEAN /\ faults \in 0 .. MaxFaults /\ unread \in BOOLEAN

QuitEvent == [type |-> "quit", id |-> None, row |-> None]
CleanupEvent == [type |-> "cleanup", id |-> None, row |-> None]

\* A result of the worker that is still true of its row.
ResultOf(e, w, db) ==
    /\ e \in Events /\ e.id = w.id
    /\ \/ e.type = "failed"
       \/ e.type = "finished" /\ e.row \in Rows /\ (w.id \in DOMAIN db => e.row = db[w.id])

\* Which events are on their way at each moment of the thread's life.
QueueShape ==
    /\ thread # "Running" => worker.pc = "idle"
    /\ thread = "None" => queue = <<>>
    /\ thread # "None" => worker.id \in issued
    /\ thread = "Running" /\ worker.pc # "idle" => queue = <<>>
    /\ thread = "Running" /\ worker.pc = "idle" =>
          \/ queue = <<QuitEvent>>
          \/ \E e \in Events : ResultOf(e, worker, rows) /\ queue = <<e, QuitEvent>>
    /\ thread = "Quitting" => queue = <<>>
    /\ thread = "Ended" => queue = <<CleanupEvent>>

\* The row whose result the view has not been given.
Awaited ==
    IF thread = "Running" /\ queue # <<QuitEvent>> THEN worker.id ELSE None

ScreenIsTrue ==
    /\ ScreenOf(view, issued)
    /\ Offers(view, rows, thread)
    /\ unread = FALSE => TableTells(view, rows, Awaited)
    /\ unread = FALSE /\ thread = "None" => DetailTells(view, rows)

ClosedIdle == closed => thread \in {"None", "Ended"}

HistoryInv == Types /\ QueueShape /\ ScreenIsTrue /\ ClosedIdle

-----------------------------------------------------------------------------
\* What the operators on a screen do to it.
LEMMA TextOfIsText ==
    ASSUME NEW row \in Rows
    PROVE  TextOf(row) \in Texts
    BY DEF TextOf, Texts, Rows

LEMMA DetailAndButton ==
    ASSUME NEW S, NEW v, ScreenOf(v, S), NEW d, NEW b
    PROVE  [v EXCEPT !.detail = d, !.button = b] =
               Screen(v.table, v.selected, d, b, v.records)
    <1>1. v = Screen(v.table, v.selected, v.detail, v.button, v.records)
        BY DEF ScreenOf
    <1>2. [v EXCEPT !.detail = d] = Screen(v.table, v.selected, d, v.button, v.records)
        BY <1>1 DEF Screen
    <1>3. [Screen(v.table, v.selected, d, v.button, v.records) EXCEPT !.button = b] =
              Screen(v.table, v.selected, d, b, v.records)
        BY DEF Screen
    <1>4. [v EXCEPT !.detail = d, !.button = b] = [[v EXCEPT !.detail = d] EXCEPT !.button = b]
        OBVIOUS
    <1>5. QED
        BY <1>2, <1>3, <1>4

\* w is v with the detail of the row of its selected id.
Shows(w, v, row, t) ==
    /\ w.table = v.table /\ w.selected = v.selected
    /\ w.detail # None /\ w.detail.text = TextOf(row)
    /\ w.button => row.ng /\ row.vlm # "PROCESSING" /\ t = "None"
    /\ row.ng /\ row.vlm # "PROCESSING" /\ t = "None" => w.button

LEMMA RenderedScreen ==
    ASSUME NEW S, NEW v, ScreenOf(v, S), NEW i \in Ids, v.selected = i,
           NEW row \in Rows, NEW t,
           NEW w, w = Rendered(v, i, row, t)
    PROVE  ScreenOf(w, S) /\ Shows(w, v, row, t)
    <1> DEFINE d == [id |-> i, text |-> TextOf(row)]
    <1>1. d \in Details /\ d.id = i /\ d.text = TextOf(row)
        BY TextOfIsText DEF Details
    <1>2. d # None
        BY <1>1, NoneIsNoDetail
    <1>3. PICK b : b = CanGenerate(row, t)
        OBVIOUS
    <1>4. /\ b \in BOOLEAN
          /\ b => row.ng /\ row.vlm # "PROCESSING" /\ t = "None"
          /\ row.ng /\ row.vlm # "PROCESSING" /\ t = "None" => b
        BY <1>3 DEF CanGenerate, Rows
    <1>5. w = Screen(v.table, v.selected, d, b, v.records)
        BY <1>3, DetailAndButton DEF Rendered
    <1> HIDE DEF d
    <1>6. /\ w.table = v.table /\ w.selected = v.selected /\ w.detail = d
          /\ w.button = b /\ w.records = v.records
        BY <1>5 DEF Screen
    <1>7. QED
        BY <1>1, <1>2, <1>4, <1>5, <1>6 DEF ScreenOf, Shows

LEMMA NewDetail ==
    ASSUME NEW S, NEW v, ScreenOf(v, S), NEW d \in Details \cup {None},
           d # None => d.id = v.selected,
           NEW b \in BOOLEAN,
           NEW w, w = Screen(v.table, v.selected, d, b, v.records)
    PROVE  /\ ScreenOf(w, S)
           /\ w.table = v.table /\ w.selected = v.selected /\ w.detail = d /\ w.button = b
    <1>1. /\ w.table = v.table /\ w.selected = v.selected /\ w.detail = d
          /\ w.button = b /\ w.records = v.records
        BY DEF Screen
    <1>2. QED
        BY <1>1 DEF ScreenOf

LEMMA ShownScreen ==
    ASSUME NEW S, NEW v, ScreenOf(v, S), NEW i, NEW text \in Texts,
           NEW w, w = RowShows(v, i, text)
    PROVE  /\ ScreenOf(w, S)
           /\ w.selected = v.selected /\ w.detail = v.detail /\ w.button = v.button
           /\ DOMAIN w.table = DOMAIN v.table
           /\ \A j \in DOMAIN v.table :
                 w.table[j] = IF j = i THEN text ELSE v.table[j]
    <1> DEFINE t == [j \in DOMAIN v.table |-> IF j = i THEN text ELSE v.table[j]]
    <1>1. t \in [DOMAIN v.table -> Texts] /\ DOMAIN t = DOMAIN v.table
        BY DEF ScreenOf
    <1>2. w = Screen(t, v.selected, v.detail, v.button, v.records)
        <2>1. v = Screen(v.table, v.selected, v.detail, v.button, v.records)
            BY DEF ScreenOf
        <2>2. [v EXCEPT !.table = t] = Screen(t, v.selected, v.detail, v.button, v.records)
            BY <2>1 DEF Screen
        <2>3. QED
            BY <2>2 DEF RowShows
    <1>3. /\ w.table = t /\ w.selected = v.selected /\ w.detail = v.detail
          /\ w.button = v.button /\ w.records = v.records
        BY <1>2 DEF Screen
    <1>4. QED
        BY <1>1, <1>2, <1>3 DEF ScreenOf

\* Another row is selected, or none.
Chosen(v, i) == [ClearDetail(v) EXCEPT !.selected = i]

LEMMA ClearedScreen ==
    ASSUME NEW S, NEW v, ScreenOf(v, S), NEW i \in DOMAIN v.table \cup {None},
           NEW w, w = Chosen(v, i)
    PROVE  /\ ScreenOf(w, S)
           /\ w.table = v.table /\ w.selected = i /\ w.detail = None /\ ~w.button
    <1>1. PICK u, no : u = ClearDetail(v) /\ no = FALSE
        OBVIOUS
    <1>2. w = Screen(v.table, i, None, no, v.records)
        <2>1. u = Screen(v.table, v.selected, None, no, v.records)
            BY <1>1, DetailAndButton DEF ClearDetail
        <2>2. [u EXCEPT !.selected = i] = Screen(v.table, i, None, no, v.records)
            BY <2>1 DEF Screen
        <2>3. QED
            BY <1>1, <2>2 DEF Chosen
    <1>3. /\ w.table = v.table /\ w.selected = i /\ w.detail = None
          /\ w.button = no /\ w.records = v.records
        BY <1>2 DEF Screen
    <1>4. QED
        BY <1>1, <1>2, <1>3 DEF ScreenOf

\* A search tells what is found, and selects nothing.
LEMMA ReloadedScreen ==
    ASSUME NEW S, NEW db, db \in [DOMAIN db -> Rows], NEW T, T \subseteq S,
           T \subseteq DOMAIN db, NEW known \in BOOLEAN, NEW w,
           w = Reloaded(db, T) \/ w = [Reloaded(db, T) EXCEPT !.records = known]
    PROVE  /\ ScreenOf(w, S)
           /\ \A t : Offers(w, db, t)
           /\ \A p : TableTells(w, db, p)
           /\ DetailTells(w, db)
    <1> DEFINE t == [i \in T |-> TextOf(db[i])]
    <1>1. t \in [T -> Texts] /\ DOMAIN t = T
        BY TextOfIsText
    <1>2. PICK u, no, some : u = Reloaded(db, T) /\ no = FALSE /\ some = (DOMAIN db # {})
        OBVIOUS
    <1>3. PICK found \in {some, known} : w = Screen(t, None, None, no, found)
        <2>1. u = Screen(t, None, None, no, some)
            BY <1>2 DEF Reloaded, Screen
        <2>2. [u EXCEPT !.records = known] = Screen(t, None, None, no, known)
            BY <2>1 DEF Screen
        <2>3. QED
            BY <1>2, <2>1, <2>2
    <1> HIDE DEF t
    <1>4. /\ w.table = t /\ w.selected = None /\ w.detail = None
          /\ w.button = no /\ w.records = found
        BY <1>3 DEF Screen
    <1> USE DEF t
    <1>5. ScreenOf(w, S)
        BY <1>1, <1>2, <1>3, <1>4 DEF ScreenOf
    <1>6. TableTells(w, db, None) /\ \A p : TableTells(w, db, p)
        BY <1>1, <1>4 DEF TableTells
    <1>7. QED
        BY <1>2, <1>4, <1>5, <1>6 DEF Offers, DetailTells

LEMMA InitHistory == Init => HistoryInv
    <1> SUFFICES ASSUME Init PROVE HistoryInv
        OBVIOUS
    <1>1. /\ issued \subseteq Ids /\ DOMAIN rows = issued /\ rows \in [Live -> Rows]
          /\ view = Reloaded(rows, issued) /\ thread = "None" /\ queue = <<>> /\ boxes = <<>>
          /\ closed = FALSE /\ faults = 0 /\ unread = FALSE
        BY DEF Init, SavedRows, Live
    <1>2. worker \in Workers /\ worker.pc = "idle"
        BY DEF Init, NoWorker, Workers
    <1>3. Types
        <2>1. queue \in Seq(Events) /\ boxes \in Seq(Boxes)
            BY <1>1
        <2>2. faults \in 0 .. MaxFaults
            BY <1>1, FaultsAreCounted
        <2>3. issued \subseteq Ids /\ Live \subseteq issued /\ rows \in [Live -> Rows]
            BY <1>1 DEF Live
        <2>4. QED
            BY <1>1, <1>2, <2>1, <2>2, <2>3 DEF Types, Threads
    <1>4. QueueShape
        BY <1>1, <1>2 DEF QueueShape
    <1>5. ScreenIsTrue
        <2>1. /\ ScreenOf(view, issued) /\ Offers(view, rows, thread)
              /\ TableTells(view, rows, Awaited) /\ DetailTells(view, rows)
            BY <1>1, ReloadedScreen DEF Live
        <2>2. QED
            BY <2>1 DEF ScreenIsTrue
    <1>6. QED
        BY <1>1, <1>3, <1>4, <1>5 DEF HistoryInv, ClosedIdle

-----------------------------------------------------------------------------
\* The worker's steps change its own row alone, and that is the row awaited.
LEMMA WorkerMoves ==
    ASSUME HistoryInv, worker.pc # "idle", WorkerFrame,
           faults' \in 0 .. MaxFaults, worker' \in Workers, worker'.id = worker.id,
           DOMAIN rows' = Live, rows' \in [Live -> Rows],
           \A i \in Live : /\ rows'[i].ng = rows[i].ng
                           /\ i # worker.id => rows'[i] = rows[i],
           \/ worker'.pc # "idle" /\ queue' = <<>>
           \/ /\ worker'.pc = "idle"
              /\ \E e \in Events : ResultOf(e, worker', rows') /\ queue' = <<e, QuitEvent>>
    PROVE  HistoryInv'
    <1> USE DEF WorkerFrame
    <1>1. thread = "Running" /\ queue = <<>>
        BY DEF HistoryInv, Types, QueueShape
    <1>2. QuitEvent \in Events
        BY DEF QuitEvent, Events
    <1>3. Types'
        <2>1. queue' \in Seq(Events)
            <3>1. <<>> \in Seq(Events) /\ \A e \in Events : <<e, QuitEvent>> \in Seq(Events)
                BY <1>2
            <3>2. QED
                BY <3>1
        <2>2. QED
            BY <2>1 DEF HistoryInv, Types, Live
    <1>4. QueueShape'
        BY <1>1 DEF HistoryInv, QueueShape
    <1>5. Awaited = worker.id /\ Awaited' = worker.id
        <2>1. <<>> # <<QuitEvent>> /\ \A e : <<e, QuitEvent>> # <<QuitEvent>>
            OBVIOUS
        <2>2. QED
            BY <1>1, <2>1 DEF Awaited
    <1>6. ScreenIsTrue'
        <2>1. ScreenOf(view', issued')
            BY DEF HistoryInv, ScreenIsTrue
        <2>2. Offers(view', rows', thread')
            BY DEF HistoryInv, ScreenIsTrue, Offers, Live
        <2>3. unread' = FALSE => TableTells(view', rows', Awaited')
            BY <1>5 DEF HistoryInv, ScreenIsTrue, TableTells, Live
        <2>4. QED
            BY <1>1, <2>1, <2>2, <2>3 DEF ScreenIsTrue
    <1>7. QED
        BY <1>1, <1>3, <1>4, <1>6 DEF HistoryInv, ClosedIdle

LEMMA EmitPosts ==
    ASSUME HistoryInv, worker.pc # "idle", NEW type \in {"finished", "failed"},
           NEW row \in Rows \cup {None}, Emit(type, row),
           type = "finished" =>
               row \in Rows /\ (worker.id \in DOMAIN rows' => row = rows'[worker.id])
    PROVE  /\ worker' \in Workers /\ worker'.id = worker.id /\ worker'.pc = "idle"
           /\ \E e \in Events : ResultOf(e, worker', rows') /\ queue' = <<e, QuitEvent>>
    <1> DEFINE e == [type |-> type, id |-> worker.id, row |-> row]
    <1>1. queue = <<>> /\ worker \in Workers
        BY DEF HistoryInv, Types, QueueShape
    <1>2. worker' \in Workers /\ worker'.id = worker.id /\ worker'.pc = "idle"
        BY <1>1 DEF Emit, Workers
    <1>3. e \in Events /\ ResultOf(e, worker', rows')
        BY <1>1, <1>2 DEF Events, Workers, ResultOf
    <1>4. queue' = <<e, QuitEvent>>
        BY <1>1 DEF Emit, QuitEvent
    <1>5. QED
        BY <1>2, <1>3, <1>4

LEMMA UpdateOfRow ==
    ASSUME Types, NEW status \in Statuses, NEW desc \in BOOLEAN, Update(status, desc)
    PROVE  /\ DOMAIN rows' = Live /\ rows' \in [Live -> Rows]
           /\ \A i \in Live : /\ rows'[i].ng = rows[i].ng
                              /\ i # worker.id => rows'[i] = rows[i]
    BY DEF Types, Update, Rows, Live

LEMMA WorkerKeeps ==
    ASSUME HistoryInv, UNCHANGED rows
    PROVE  /\ DOMAIN rows' = Live /\ rows' \in [Live -> Rows]
           /\ \A i \in Live : /\ rows'[i].ng = rows[i].ng
                              /\ i # worker.id => rows'[i] = rows[i]
    BY DEF HistoryInv, Types, Live

LEMMA ThreadHistory ==
    ASSUME HistoryInv, ThreadStep
    PROVE  HistoryInv'
    <1>1. faults \in 0 .. MaxFaults /\ (UNCHANGED faults \/ Fault => faults' \in 0 .. MaxFaults)
        BY FaultsAreCounted DEF HistoryInv, Types, Fault
    <1>2. /\ worker \in Workers /\ Live \subseteq issued
          /\ \A i \in Live : rows[i] \in Rows /\ rows[i].desc \in BOOLEAN
        BY DEF HistoryInv, Types, Rows
    <1>3. None \in Rows \cup {None} /\ {"PROCESSING", "COMPLETED", "FAILED"} \subseteq Statuses
        BY DEF Statuses
    <1>4. CASE RunRefused
        <2>1. /\ worker.pc # "idle" /\ WorkerFrame /\ UNCHANGED <<rows, faults>>
              /\ Emit("failed", None)
            BY <1>4 DEF RunRefused
        <2>2. QED
            BY <1>1, <2>1, WorkerKeeps, EmitPosts, WorkerMoves
    <1>5. CASE RunImageMissing
        <2>1. /\ worker.pc # "idle" /\ WorkerFrame /\ UNCHANGED faults /\ Emit("failed", None)
              /\ worker.id \in Live /\ Update("FAILED", rows[worker.id].desc)
            BY <1>5 DEF RunImageMissing
        <2>2. /\ DOMAIN rows' = Live /\ rows' \in [Live -> Rows]
              /\ \A i \in Live : /\ rows'[i].ng = rows[i].ng
                                 /\ i # worker.id => rows'[i] = rows[i]
            BY <1>2, <1>3, <2>1, UpdateOfRow DEF HistoryInv
        <2>3. QED
            BY <1>1, <2>1, <2>2, EmitPosts, WorkerMoves
    <1>6. CASE RunReserve
        <2>1. /\ worker.pc # "idle" /\ WorkerFrame /\ UNCHANGED <<queue, faults>>
              /\ worker.id \in Live /\ Update("PROCESSING", rows[worker.id].desc)
              /\ worker' = [worker EXCEPT !.pc = "describe"]
            BY <1>6 DEF RunReserve
        <2>2. /\ DOMAIN rows' = Live /\ rows' \in [Live -> Rows]
              /\ \A i \in Live : /\ rows'[i].ng = rows[i].ng
                                 /\ i # worker.id => rows'[i] = rows[i]
            BY <1>2, <1>3, <2>1, UpdateOfRow DEF HistoryInv
        <2>3. worker' \in Workers /\ worker'.id = worker.id /\ worker'.pc # "idle"
            BY <1>2, <2>1 DEF Workers
        <2>4. queue' = <<>>
            BY <2>1 DEF HistoryInv, Types, QueueShape
        <2>5. QED
            BY <1>1, <2>1, <2>2, <2>3, <2>4, WorkerMoves
    <1>7. CASE RunDescribed
        <2>1. /\ worker.pc # "idle" /\ WorkerFrame /\ UNCHANGED <<queue, faults>>
              /\ worker.id \in Live /\ Update("COMPLETED", TRUE)
              /\ worker' = [worker EXCEPT !.pc = "reread"]
            BY <1>7 DEF RunDescribed
        <2>2. /\ DOMAIN rows' = Live /\ rows' \in [Live -> Rows]
              /\ \A i \in Live : /\ rows'[i].ng = rows[i].ng
                                 /\ i # worker.id => rows'[i] = rows[i]
            BY <1>2, <1>3, <2>1, UpdateOfRow DEF HistoryInv
        <2>3. worker' \in Workers /\ worker'.id = worker.id /\ worker'.pc # "idle"
            BY <1>2, <2>1 DEF Workers
        <2>4. queue' = <<>>
            BY <2>1 DEF HistoryInv, Types, QueueShape
        <2>5. QED
            BY <1>1, <2>1, <2>2, <2>3, <2>4, WorkerMoves
    <1>8. CASE RunDescribeFails
        <2>1. /\ worker.pc # "idle" /\ WorkerFrame /\ UNCHANGED faults /\ Emit("failed", None)
              /\ worker.id \in Live /\ Update("FAILED", rows[worker.id].desc)
            BY <1>8 DEF RunDescribeFails
        <2>2. /\ DOMAIN rows' = Live /\ rows' \in [Live -> Rows]
              /\ \A i \in Live : /\ rows'[i].ng = rows[i].ng
                                 /\ i # worker.id => rows'[i] = rows[i]
            BY <1>2, <1>3, <2>1, UpdateOfRow DEF HistoryInv
        <2>3. QED
            BY <1>1, <2>1, <2>2, EmitPosts, WorkerMoves
    <1>9. CASE RunRowGone
        <2>1. /\ worker.pc # "idle" /\ WorkerFrame /\ UNCHANGED <<rows, faults>>
              /\ Emit("failed", None)
            BY <1>9 DEF RunRowGone
        <2>2. QED
            BY <1>1, <2>1, WorkerKeeps, EmitPosts, WorkerMoves
    <1>10. CASE RunReread
        <2>1. /\ worker.pc # "idle" /\ WorkerFrame /\ UNCHANGED <<rows, faults>>
              /\ worker.id \in Live /\ Emit("finished", rows[worker.id])
            BY <1>10 DEF RunReread
        <2>2. rows[worker.id] \in Rows /\ rows[worker.id] = rows'[worker.id]
            BY <1>2, <2>1
        <2>3. /\ worker' \in Workers /\ worker'.id = worker.id /\ worker'.pc = "idle"
              /\ \E e \in Events : ResultOf(e, worker', rows') /\ queue' = <<e, QuitEvent>>
            BY <2>1, <2>2, EmitPosts
        <2>4. QED
            BY <1>1, <2>1, <2>3, WorkerKeeps, WorkerMoves
    <1>11. CASE RunDbFails
        <2>1. worker.pc # "idle" /\ WorkerFrame /\ UNCHANGED rows /\ Emit("failed", None) /\ Fault
            BY <1>11 DEF RunDbFails
        <2>2. QED
            BY <1>1, <2>1, WorkerKeeps, EmitPosts, WorkerMoves
    <1>12. CASE ThreadEnds
        <2>1. /\ thread = "Quitting" /\ thread' = "Ended" /\ queue = <<>> /\ worker.pc = "idle"
              /\ queue' = Append(queue, CleanupEvent)
              /\ UNCHANGED <<rows, issued, view, worker, boxes, closed, faults, unread>>
            BY <1>12 DEF ThreadEnds, CleanupEvent, HistoryInv, QueueShape
        <2>2. CleanupEvent \in Events /\ queue' = <<CleanupEvent>> /\ queue' \in Seq(Events)
            BY <2>1 DEF CleanupEvent, Events
        <2>3. Types'
            BY <2>1, <2>2 DEF HistoryInv, Types, Threads, Live
        <2>4. QueueShape'
            BY <2>1, <2>2 DEF HistoryInv, QueueShape
        <2>5. ScreenIsTrue'
            BY <2>1 DEF HistoryInv, ScreenIsTrue, Offers, Awaited
        <2>6. QED
            BY <2>1, <2>3, <2>4, <2>5 DEF HistoryInv, ClosedIdle
    <1>13. QED
        BY <1>4, <1>5, <1>6, <1>7, <1>8, <1>9, <1>10, <1>11, <1>12 DEF ThreadStep

-----------------------------------------------------------------------------
\* The events of a generation come in this order.
LEMMA NextEvent ==
    ASSUME HistoryInv, queue # <<>>
    PROVE  /\ worker.pc = "idle" /\ Tail(queue) \in Seq(Events) /\ Head(queue) \in Events
           /\ \/ /\ thread = "Running" /\ Tail(queue) = <<QuitEvent>>
                 /\ queue # <<QuitEvent>> /\ ResultOf(Head(queue), worker, rows)
              \/ /\ thread = "Running" /\ Tail(queue) = <<>>
                 /\ queue = <<QuitEvent>> /\ Head(queue).type = "quit"
              \/ thread = "Ended" /\ Tail(queue) = <<>> /\ Head(queue).type = "cleanup"
    <1>1. /\ thread \in {"Running", "Ended"} /\ worker.pc = "idle" /\ queue \in Seq(Events)
          /\ thread = "Running" =>
                \/ queue = <<QuitEvent>>
                \/ \E e \in Events : ResultOf(e, worker, rows) /\ queue = <<e, QuitEvent>>
          /\ thread = "Ended" => queue = <<CleanupEvent>>
        BY DEF HistoryInv, Types, Threads, QueueShape
    <1>2. QuitEvent.type = "quit" /\ CleanupEvent.type = "cleanup"
        BY DEF QuitEvent, CleanupEvent
    <1>3. Tail(queue) \in Seq(Events) /\ Head(queue) \in Events
        BY <1>1
    <1>4. CASE queue = <<QuitEvent>> \/ queue = <<CleanupEvent>>
        BY <1>1, <1>2, <1>3, <1>4
    <1>5. CASE \E e \in Events : ResultOf(e, worker, rows) /\ queue = <<e, QuitEvent>>
        <2>1. PICK e \in Events : ResultOf(e, worker, rows) /\ queue = <<e, QuitEvent>>
            BY <1>5
        <2>2. Head(queue) = e /\ Tail(queue) = <<QuitEvent>> /\ queue # <<QuitEvent>>
            BY <2>1
        <2>3. thread = "Running"
            <3>1. queue # <<CleanupEvent>>
                BY <2>1
            <3>2. QED
                BY <1>1, <3>1
        <2>4. QED
            BY <1>1, <1>3, <2>1, <2>2, <2>3
    <1>6. QED
        BY <1>1, <1>4, <1>5

\* A result has been shown, wherever its row is still listed.
LEMMA ResultShown ==
    ASSUME HistoryInv, queue # <<>>, thread = "Running", Head(queue).type # "quit",
           UNCHANGED <<rows, issued, thread, worker, closed>>, queue' = Tail(queue),
           boxes' \in Seq(Boxes), faults' \in 0 .. MaxFaults, unread' \in BOOLEAN,
           ScreenOf(view', issued), Offers(view', rows, thread),
           unread' = FALSE => TableTells(view', rows, None)
    PROVE  HistoryInv'
    <1>1. /\ worker.pc = "idle" /\ queue' \in Seq(Events) /\ queue' = <<QuitEvent>>
        BY NextEvent
    <1>2. Types'
        BY <1>1 DEF HistoryInv, Types, Live
    <1>3. QueueShape'
        BY <1>1 DEF HistoryInv, QueueShape
    <1>4. Awaited' = None
        BY <1>1 DEF Awaited
    <1>5. ScreenIsTrue'
        BY <1>4 DEF ScreenIsTrue
    <1>6. QED
        BY <1>2, <1>3, <1>5 DEF HistoryInv, ClosedIdle

LEMMA ResultOnScreen ==
    ASSUME HistoryInv, thread = "Running", queue # <<>>, Head(queue).type # "quit",
           NEW row \in Rows, worker.id \in Live => row = rows[worker.id],
           NEW v, v = ShowsResult(RowShows(view, worker.id, TextOf(row)), worker.id, row)
    PROVE  /\ ScreenOf(v, issued) /\ Offers(v, rows, thread)
           /\ unread = FALSE => TableTells(v, rows, None)
    <1>1. PICK text, w : text = TextOf(row) /\ w = RowShows(view, worker.id, text)
        OBVIOUS
    <1>2. worker.id \in Ids /\ text \in Texts /\ ScreenOf(view, issued) /\ view.button = FALSE
        BY <1>1, TextOfIsText DEF HistoryInv, Types, QueueShape, ScreenIsTrue, Offers, ScreenOf
    <1>3. Awaited = worker.id
        BY NextEvent DEF Awaited
    <1>4. /\ ScreenOf(w, issued) /\ w.selected = view.selected /\ w.button = FALSE
          /\ DOMAIN w.table = DOMAIN view.table
          /\ \A j \in DOMAIN view.table :
                w.table[j] = IF j = worker.id THEN text ELSE view.table[j]
        BY <1>1, <1>2, ShownScreen
    <1>5. unread = FALSE => TableTells(w, rows, None)
        BY <1>1, <1>3, <1>4 DEF HistoryInv, ScreenIsTrue, TableTells, Live
    <1>6. CASE view.selected = worker.id
        <2>1. v = Rendered(w, worker.id, row, thread)
            BY <1>1, <1>4, <1>6 DEF ShowsResult
        <2>2. ScreenOf(v, issued) /\ v.table = w.table /\ v.button = FALSE
            <3>1. w.selected = worker.id
                BY <1>4, <1>6
            <3>2. ScreenOf(v, issued) /\ Shows(v, w, row, thread)
                BY <1>2, <1>4, <2>1, <3>1, RenderedScreen
            <3>3. QED
                BY <3>2 DEF ScreenOf, Shows
        <2>3. QED
            BY <1>5, <2>2 DEF Offers, TableTells
    <1>7. CASE view.selected # worker.id
        <2>1. v = w
            BY <1>1, <1>4, <1>7 DEF ShowsResult
        <2>2. QED
            BY <1>4, <1>5, <2>1 DEF Offers
    <1>8. QED
        BY <1>6, <1>7

LEMMA MessageOpens ==
    ASSUME Types
    PROVE  /\ <<Message>> \in Seq(Boxes) /\ <<Message>> \o boxes \in Seq(Boxes)
           /\ \A i \in Ids \cup {None} : <<[kind |-> "delete", id |-> i]>> \in Seq(Boxes)
           /\ boxes # <<>> =>
                /\ Tail(boxes) \in Seq(Boxes) /\ <<Message>> \o Tail(boxes) \in Seq(Boxes)
                /\ <<Message, Message>> \o Tail(boxes) \in Seq(Boxes)
                /\ boxes[1] \in Boxes
    <1>1. Message \in Boxes /\ \A i \in Ids \cup {None} : [kind |-> "delete", id |-> i] \in Boxes
        BY DEF Message, Boxes
    <1>2. boxes \in Seq(Boxes)
        BY DEF Types
    <1>3. <<Message>> \in Seq(Boxes) /\ <<Message, Message>> \in Seq(Boxes)
        BY <1>1
    <1>4. boxes # <<>> => Tail(boxes) \in Seq(Boxes) /\ boxes[1] \in Boxes
        BY <1>2
    <1>5. QED
        BY <1>1, <1>2, <1>3, <1>4

LEMMA EventHistory ==
    ASSUME HistoryInv, HandleEvent
    PROVE  HistoryInv'
    <1>1. PICK e : e = Head(queue)
        OBVIOUS
    <1>2. /\ queue # <<>> /\ queue' = Tail(queue) /\ UNCHANGED <<rows, issued, closed>>
          /\ \/ e.type = "finished" /\ OnVlmFinished(e.id, e.row) /\ UNCHANGED <<thread, worker>>
             \/ e.type = "failed" /\ OnVlmFailed(e.id) /\ UNCHANGED <<thread, worker>>
             \/ /\ e.type = "quit" /\ thread' = "Quitting"
                /\ UNCHANGED <<view, worker, boxes, faults, unread>>
             \/ e.type = "cleanup" /\ CleanupVlmThread /\ UNCHANGED boxes
        BY <1>1 DEF HandleEvent
    <1>3. /\ worker.pc = "idle" /\ Tail(queue) \in Seq(Events) /\ e \in Events
          /\ \/ /\ thread = "Running" /\ Tail(queue) = <<QuitEvent>>
                /\ queue # <<QuitEvent>> /\ ResultOf(e, worker, rows)
             \/ /\ thread = "Running" /\ Tail(queue) = <<>>
                /\ queue = <<QuitEvent>> /\ e.type = "quit"
             \/ thread = "Ended" /\ Tail(queue) = <<>> /\ e.type = "cleanup"
        BY <1>1, <1>2, NextEvent
    <1>4. faults \in 0 .. MaxFaults /\ (Fault => faults' \in 0 .. MaxFaults)
        BY FaultsAreCounted DEF HistoryInv, Types, Fault
    <1>5. /\ boxes \in Seq(Boxes) /\ <<Message>> \o boxes \in Seq(Boxes) /\ unread \in BOOLEAN
          /\ Types /\ Live \subseteq Ids /\ \A i \in Live : rows[i] \in Rows
        BY MessageOpens DEF HistoryInv, Types
    <1>6. ScreenOf(view, issued) /\ Offers(view, rows, thread)
        BY DEF HistoryInv, ScreenIsTrue
    <1>7. CASE e.type \in {"finished", "failed"}
        <2>1. thread = "Running" /\ ResultOf(e, worker, rows) /\ Head(queue).type # "quit"
            BY <1>1, <1>3, <1>7
        <2>2. e.id = worker.id
            BY <2>1 DEF ResultOf
        <2>3. CASE OnVlmFinished(e.id, e.row) /\ e.type = "finished"
            <3>1. e.row \in Rows /\ (worker.id \in Live => e.row = rows[worker.id])
                BY <2>1, <2>3 DEF ResultOf, Live
            <3>2. /\ view' = ShowsResult(RowShows(view, worker.id, TextOf(e.row)), worker.id, e.row)
                  /\ UNCHANGED <<boxes, faults, unread>>
                BY <2>2, <2>3 DEF OnVlmFinished
            <3>3. /\ ScreenOf(view', issued) /\ Offers(view', rows, thread)
                  /\ unread = FALSE => TableTells(view', rows, None)
                BY <1>2, <2>1, <3>1, <3>2, ResultOnScreen
            <3>4. QED
                BY <1>2, <1>4, <1>5, <1>7, <2>1, <2>3, <3>2, <3>3, ResultShown
        <2>4. CASE OnVlmFailed(e.id)
            <3>1. CASE /\ e.id \in Live
                       /\ view' = ShowsResult(RowShows(view, e.id, TextOf(rows[e.id])),
                                              e.id, rows[e.id])
                       /\ boxes' = <<Message>> \o boxes /\ UNCHANGED <<faults, unread>>
                <4>1. rows[worker.id] \in Rows
                    BY <1>5, <2>2, <3>1
                <4>2. /\ ScreenOf(view', issued) /\ Offers(view', rows, thread)
                      /\ unread = FALSE => TableTells(view', rows, None)
                    BY <1>2, <2>1, <2>2, <3>1, <4>1, ResultOnScreen
                <4>3. QED
                    BY <1>2, <1>4, <1>5, <1>7, <2>1, <3>1, <4>2, ResultShown
            <3>2. CASE /\ e.id \notin Live
                       /\ view' = IF view.selected = e.id
                                  THEN [view EXCEPT !.detail = [id |-> e.id, text |-> "failed"],
                                                    !.button = FALSE]
                                  ELSE view
                       /\ boxes' = <<Message>> \o boxes /\ UNCHANGED <<faults, unread>>
                <4>1. /\ ScreenOf(view', issued) /\ view'.table = view.table
                      /\ Offers(view', rows, thread)
                    <5>1. CASE view.selected = e.id
                        <6>1. PICK d : d = [id |-> e.id, text |-> "failed"]
                            OBVIOUS
                        <6>2. e.id \in Ids /\ "failed" \in Texts
                            BY <2>1, <2>2 DEF HistoryInv, Types, QueueShape, Texts
                        <6>3. d \in Details /\ d.id = view.selected
                            BY <5>1, <6>1, <6>2 DEF Details
                        <6>4. PICK no : no = FALSE
                            OBVIOUS
                        <6>5. view' = [view EXCEPT !.detail = d, !.button = no]
                            BY <3>2, <5>1, <6>1, <6>4, Zenon
                        <6>6. no \in BOOLEAN
                            BY <6>4
                        <6>7. /\ ScreenOf(view', issued) /\ view'.table = view.table
                              /\ view'.button = no
                            <7>1. view' = Screen(view.table, view.selected, d, no, view.records)
                                BY <1>6, <6>5, DetailAndButton, Zenon
                            <7>2. QED
                                BY <1>6, <6>3, <6>6, <7>1, NewDetail
                        <6>8. ~view'.button
                            BY <6>4, <6>7
                        <6>9. QED
                            BY <6>7, <6>8 DEF Offers
                    <5>2. QED
                        BY <1>6, <3>2, <5>1
                <4>2. Awaited \in {None, worker.id}
                    BY DEF Awaited
                <4>3. unread = FALSE => TableTells(view', rows, None)
                    BY <2>2, <3>2, <4>1, <4>2 DEF HistoryInv, ScreenIsTrue, TableTells, Live
                <4>4. QED
                    BY <1>2, <1>4, <1>5, <1>7, <2>1, <2>4, <3>2, <4>1, <4>3, ResultShown
            <3>3. CASE Fault /\ unread' = TRUE /\ UNCHANGED <<view, boxes>>
                BY <1>2, <1>4, <1>5, <1>6, <1>7, <2>1, <2>4, <3>3, ResultShown
            <3>4. QED
                BY <2>4, <3>1, <3>2, <3>3 DEF OnVlmFailed
        <2>5. QED
            BY <1>2, <1>7, <2>3, <2>4
    <1>8. CASE e.type = "quit"
        <2>1. /\ thread = "Running" /\ thread' = "Quitting"
              /\ queue = <<QuitEvent>> /\ queue' = <<>>
              /\ UNCHANGED <<view, worker, boxes, faults, unread>>
            BY <1>2, <1>3, <1>8 DEF ResultOf
        <2>2. Types'
            BY <1>2, <1>3, <2>1 DEF HistoryInv, Types, Threads, Live
        <2>3. QueueShape'
            BY <1>2, <1>3, <2>1 DEF HistoryInv, QueueShape
        <2>4. ScreenIsTrue'
            BY <1>2, <2>1 DEF HistoryInv, ScreenIsTrue, Offers, Awaited
        <2>5. closed' => FALSE
            BY <1>2, <2>1 DEF HistoryInv, ClosedIdle
        <2>6. QED
            BY <2>2, <2>3, <2>4, <2>5 DEF HistoryInv, ClosedIdle
    <1>9. CASE e.type = "cleanup"
        <2>1. /\ thread = "Ended" /\ thread' = "None" /\ worker' = NoWorker /\ queue' = <<>>
              /\ UNCHANGED boxes /\ CleanupVlmThread
            BY <1>2, <1>3, <1>9 DEF ResultOf, CleanupVlmThread
        <2>2. worker' \in Workers /\ worker'.pc = "idle"
            BY <2>1 DEF NoWorker, Workers
        <2>3. Awaited = None /\ Awaited' = None
            BY <2>1 DEF Awaited
        <2>4. QueueShape'
            BY <2>1, <2>2 DEF QueueShape
        <2>5. ~view.button
            BY <1>6, <2>1 DEF Offers
        <2>6. CASE UNCHANGED view /\ Fault /\ unread' = TRUE
            <3>1. Types'
                BY <1>2, <1>4, <2>1, <2>2, <2>6 DEF HistoryInv, Types, Threads, Live
            <3>2. ScreenIsTrue'
                BY <1>2, <1>6, <2>1, <2>5, <2>6 DEF ScreenIsTrue, Offers
            <3>3. QED
                BY <2>1, <2>4, <3>1, <3>2 DEF HistoryInv, ClosedIdle
        <2>7. CASE /\ view' = IF view.selected \in Live
                              THEN Rendered(view, view.selected, rows[view.selected], thread')
                              ELSE view
                   /\ UNCHANGED <<faults, unread>>
            <3>1. Types'
                BY <1>2, <1>4, <2>1, <2>2, <2>7 DEF HistoryInv, Types, Threads, Live
            <3>2. /\ ScreenOf(view', issued) /\ view'.table = view.table
                  /\ Offers(view', rows, "None") /\ DetailTells(view', rows)
                <4>1. CASE view.selected \in Live
                    <5>1. PICK i, row, t : i = view.selected /\ row = rows[view.selected] /\ t = thread'
                        OBVIOUS
                    <5>2. i \in Ids /\ i # None /\ row \in Rows
                        BY <1>5, <4>1, <5>1, NoneIsNoId
                    <5>3. view' = Rendered(view, i, row, t)
                        BY <2>7, <4>1, <5>1
                    <5>4. ScreenOf(view', issued) /\ Shows(view', view, row, t)
                        <6>1. view.selected = i
                            BY <5>1
                        <6>2. QED
                            BY <1>6, <5>2, <5>3, <6>1, RenderedScreen
                    <5>5. QED
                        BY <2>1, <5>1, <5>2, <5>4 DEF Offers, DetailTells, Shows
                <4>2. CASE view.selected \notin Live
                    BY <1>6, <2>5, <2>7, <4>2 DEF Offers, DetailTells, Live
                <4>3. QED
                    BY <4>1, <4>2
            <3>3. unread = FALSE => TableTells(view', rows, None)
                BY <2>3, <3>2 DEF HistoryInv, ScreenIsTrue, TableTells
            <3>4. ScreenIsTrue'
                BY <1>2, <2>1, <2>3, <2>7, <3>2, <3>3 DEF ScreenIsTrue
            <3>5. QED
                BY <2>1, <2>4, <3>1, <3>4 DEF HistoryInv, ClosedIdle
        <2>8. QED
            BY <2>1, <2>6, <2>7 DEF CleanupVlmThread
    <1>10. QED
        BY <1>2, <1>7, <1>8, <1>9

-----------------------------------------------------------------------------
\* No step of the user or of the inspection screen changes a row that stays, and an
\* id is given out once.
RowsStay ==
    /\ issued \subseteq issued' /\ issued' \subseteq Ids
    /\ Live' \subseteq issued' /\ rows' \in [Live' -> Rows]
    /\ \A i \in issued : i \in Live' => i \in Live /\ rows'[i] = rows[i]

LEMMA ScreenMoves ==
    ASSUME HistoryInv, RowsStay, UNCHANGED <<thread, worker, queue>>,
           boxes' \in Seq(Boxes), faults' \in 0 .. MaxFaults, unread' \in BOOLEAN,
           closed' \in BOOLEAN, closed' => thread \in {"None", "Ended"},
           ScreenOf(view', issued'), Offers(view', rows', thread),
           unread' = FALSE => TableTells(view', rows', Awaited),
           unread' = FALSE /\ thread = "None" => DetailTells(view', rows')
    PROVE  HistoryInv'
    <1>1. Types'
        BY DEF HistoryInv, Types, RowsStay
    <1>2. QueueShape'
        <2>1. ASSUME NEW e \in Events, ResultOf(e, worker, rows), worker.id \in issued
              PROVE  ResultOf(e, worker, rows')
            BY <2>1 DEF ResultOf, RowsStay, Live
        <2>2. thread # "None" => worker.id \in issued /\ worker.id \in issued'
            BY DEF HistoryInv, QueueShape, RowsStay
        <2>3. thread = "Running" /\ worker.pc = "idle" =>
                  \/ queue = <<QuitEvent>>
                  \/ \E e \in Events : ResultOf(e, worker, rows') /\ queue = <<e, QuitEvent>>
            BY <2>1, <2>2 DEF HistoryInv, QueueShape
        <2>4. QED
            BY <2>2, <2>3 DEF HistoryInv, QueueShape
    <1>3. Awaited' = Awaited
        BY DEF Awaited
    <1>4. ScreenIsTrue'
        BY <1>3 DEF ScreenIsTrue
    <1>5. QED
        BY <1>1, <1>2, <1>4 DEF HistoryInv, ClosedIdle

LEMMA ScreenStays ==
    ASSUME HistoryInv, RowsStay, UNCHANGED <<view, thread, worker, queue>>,
           boxes' \in Seq(Boxes), faults' \in 0 .. MaxFaults, unread' = unread,
           closed' \in BOOLEAN, closed' => thread \in {"None", "Ended"}
    PROVE  HistoryInv'
    <1>1. /\ ScreenOf(view, issued) /\ ScreenOf(view, issued')
          /\ Offers(view, rows, thread) /\ unread \in BOOLEAN
        BY DEF HistoryInv, Types, ScreenIsTrue, ScreenOf, RowsStay
    <1>2. DOMAIN view.table \subseteq issued /\ view.selected \in issued \cup {None}
        BY <1>1 DEF ScreenOf
    <1>3. None \notin issued'
        BY NoneIsNoId DEF RowsStay
    <1>4. Offers(view, rows', thread)
        BY <1>1, <1>2, <1>3 DEF Offers, RowsStay, Live
    <1>5. unread = FALSE => TableTells(view, rows', Awaited)
        BY <1>2 DEF HistoryInv, ScreenIsTrue, TableTells, RowsStay, Live
    <1>6. unread = FALSE /\ thread = "None" => DetailTells(view, rows')
        <2>1. SUFFICES ASSUME DetailTells(view, rows), view.selected \in Live'
                       PROVE  view.selected \in Live /\ rows'[view.selected] = rows[view.selected]
            BY DEF HistoryInv, ScreenIsTrue, DetailTells, Live
        <2>2. view.selected \in issued
            BY <1>2, <1>3, <2>1 DEF RowsStay
        <2>3. QED
            BY <2>1, <2>2 DEF RowsStay
    <1>7. QED
        BY <1>1, <1>4, <1>5, <1>6, ScreenMoves

\* A reload that was complete, or but for the count of the records.
LEMMA ScreenReloads ==
    ASSUME HistoryInv, RowsStay, UNCHANGED <<thread, worker, queue, issued>>,
           boxes' \in Seq(Boxes), faults' \in 0 .. MaxFaults, unread' = FALSE,
           closed' \in BOOLEAN, closed' => thread \in {"None", "Ended"},
           NEW T, T \subseteq Live', NEW known \in BOOLEAN,
           \/ view' = Reloaded(rows', T)
           \/ view' = [Reloaded(rows', T) EXCEPT !.records = known]
    PROVE  HistoryInv'
    <1>1. PICK db : db = rows'
        OBVIOUS
    <1>2. db \in [DOMAIN db -> Rows] /\ T \subseteq DOMAIN db /\ T \subseteq issued
        BY <1>1 DEF RowsStay, Live
    <1>3. /\ ScreenOf(view', issued) /\ Offers(view', db, thread)
          /\ TableTells(view', db, Awaited) /\ DetailTells(view', db)
        BY <1>1, <1>2, ReloadedScreen
    <1>4. QED
        BY <1>1, <1>3, ScreenMoves

\* What every step of the user starts from.
LEMMA UserFacts ==
    ASSUME HistoryInv
    PROVE  /\ UNCHANGED <<rows, issued>> => RowsStay
           /\ boxes \in Seq(Boxes) /\ closed \in BOOLEAN /\ unread \in BOOLEAN
           /\ faults \in 0 .. MaxFaults /\ (Fault => faults' \in 0 .. MaxFaults)
           /\ closed => thread \in {"None", "Ended"}
           /\ Types /\ view.records \in BOOLEAN
    BY FaultsAreCounted DEF HistoryInv, Types, RowsStay, Live, Fault, ClosedIdle,
                            ScreenIsTrue, ScreenOf

LEMMA ReloadHistory ==
    ASSUME HistoryInv, NEW S \in SUBSET Live, Reload(S) \/ ReloadFails(S)
    PROVE  HistoryInv'
    <1>1. /\ RowsStay /\ UNCHANGED <<rows, issued, thread, worker, queue, boxes, closed>>
          /\ S \subseteq Live'
        BY UserFacts DEF Reload, ReloadFails, UserFrame, Live
    <1>2. CASE Reload(S)
        <2>1. view' = Reloaded(rows', S) /\ unread' = FALSE /\ UNCHANGED faults
            BY <1>1, <1>2 DEF Reload, Reloads
        <2>2. QED
            BY <1>1, <2>1, UserFacts, ScreenReloads
    <1>3. CASE ReloadFails(S)
        <2>1. Fault /\ \/ UNCHANGED <<view, unread>>
                       \/ /\ view' = [Reloaded(rows', S) EXCEPT !.records = view.records]
                          /\ unread' = FALSE
            BY <1>1, <1>3 DEF ReloadFails, ReloadRaises
        <2>2. CASE UNCHANGED <<view, unread>>
            BY <1>1, <2>1, <2>2, UserFacts, ScreenStays
        <2>3. CASE /\ view' = [Reloaded(rows', S) EXCEPT !.records = view.records]
                   /\ unread' = FALSE
            BY <1>1, <2>1, <2>3, UserFacts, ScreenReloads
        <2>4. QED
            BY <2>1, <2>2, <2>3
    <1>4. QED
        BY <1>2, <1>3

LEMMA SelectHistory ==
    ASSUME HistoryInv, NEW i \in Ids, Select(i)
    PROVE  HistoryInv'
    <1>1. /\ RowsStay /\ UNCHANGED <<rows, issued, thread, worker, queue, closed, unread>>
          /\ i \in DOMAIN view.table /\ i # None
        BY UserFacts, NoneIsNoId DEF Select, UserFrame
    <1>2. PICK v : v = Chosen(view, i)
        OBVIOUS
    <1>3. \/ /\ i \in Live /\ view' = Rendered(v, i, rows[i], thread)
             /\ UNCHANGED <<boxes, faults>>
          \/ i \notin Live /\ view' = v /\ boxes' = <<Message>> /\ UNCHANGED faults
          \/ Fault /\ view' = v /\ boxes' = <<Message>>
        BY <1>2 DEF Select, Chosen
    <1>4. /\ ScreenOf(v, issued) /\ v.table = view.table
          /\ v.selected = i /\ v.detail = None /\ ~v.button
        <2>1. ScreenOf(view, issued)
            BY DEF HistoryInv, ScreenIsTrue
        <2>2. QED
            BY <1>1, <1>2, <2>1, ClearedScreen
    <1>5. unread = FALSE => TableTells(v, rows, Awaited)
        BY <1>4 DEF HistoryInv, ScreenIsTrue, TableTells
    <1>6. boxes' \in Seq(Boxes) /\ faults' \in 0 .. MaxFaults
        BY <1>3, UserFacts, MessageOpens
    <1>7. CASE view' = v
        <2>1. Offers(v, rows, thread) /\ DetailTells(v, rows)
            BY <1>4 DEF Offers, DetailTells
        <2>2. QED
            BY <1>1, <1>4, <1>5, <1>6, <1>7, <2>1, UserFacts, ScreenMoves
    <1>8. CASE i \in Live /\ view' = Rendered(v, i, rows[i], thread)
        <2>1. PICK row, w : row = rows[i] /\ w = view'
            OBVIOUS
        <2>2. row \in Rows
            BY <1>8, <2>1 DEF HistoryInv, Types
        <2>3. w = Rendered(v, i, row, thread)
            BY <1>8, <2>1
        <2>4. ScreenOf(w, issued) /\ Shows(w, v, row, thread)
            BY <1>4, <2>2, <2>3, RenderedScreen
        <2>5. Offers(w, rows, thread)
            BY <1>1, <1>4, <2>1, <2>4 DEF Offers, Shows
        <2>6. thread = "None" => DetailTells(w, rows)
            BY <1>4, <2>1, <2>4 DEF DetailTells, Shows
        <2>7. unread = FALSE => TableTells(w, rows, Awaited)
            BY <1>5, <2>4 DEF TableTells, Shows
        <2>8. QED
            BY <1>1, <1>6, <2>1, <2>4, <2>5, <2>6, <2>7, UserFacts, ScreenMoves
    <1>9. QED
        BY <1>3, <1>7, <1>8

LEMMA DeselectHistory ==
    ASSUME HistoryInv, Deselect
    PROVE  HistoryInv'
    <1>1. /\ RowsStay
          /\ UNCHANGED <<rows, issued, thread, worker, queue, boxes, closed, faults, unread>>
          /\ view' = Chosen(view, None)
        BY UserFacts DEF Deselect, UserFrame, Chosen
    <1>2. /\ ScreenOf(view', issued) /\ view'.table = view.table
          /\ view'.detail = None /\ ~view'.button
        <2>1. ScreenOf(view, issued)
            BY DEF HistoryInv, ScreenIsTrue
        <2>2. QED
            BY <1>1, <2>1, ClearedScreen
    <1>3. /\ Offers(view', rows, thread) /\ DetailTells(view', rows)
          /\ unread = FALSE => TableTells(view', rows, Awaited)
        BY <1>2 DEF HistoryInv, ScreenIsTrue, Offers, DetailTells, TableTells
    <1>4. QED
        BY <1>1, <1>2, <1>3, UserFacts, ScreenMoves

\* The generation's row is the one awaited from the start.
LEMMA StartHistory ==
    ASSUME HistoryInv, StartVlmGeneration
    PROVE  HistoryInv'
    <1>1. /\ UNCHANGED <<rows, issued, queue, boxes, closed, faults, unread>> /\ ~closed
          /\ view.selected # None /\ thread = "None" /\ thread' = "Running"
          /\ worker' = [pc |-> "find", id |-> view.selected]
        BY DEF StartVlmGeneration, UserFrame, Clickable
    <1>2. PICK i, v, text : i = view.selected /\ text = "analysing" /\ v = RowShows(view, i, text)
        OBVIOUS
    <1>3. ScreenOf(view, issued) /\ i \in issued /\ i \in Ids /\ text \in Texts
        BY <1>1, <1>2 DEF HistoryInv, Types, ScreenIsTrue, ScreenOf, Texts
    <1>4. /\ ScreenOf(v, issued) /\ v.selected = i /\ DOMAIN v.table = DOMAIN view.table
          /\ \A j \in DOMAIN view.table : v.table[j] = IF j = i THEN text ELSE view.table[j]
        BY <1>2, <1>3, ShownScreen
    <1>5. /\ ScreenOf(view', issued) /\ view'.table = v.table /\ ~view'.button
        <2>1. PICK d, no : d = [id |-> i, text |-> text] /\ no = FALSE
            OBVIOUS
        <2>2. d \in Details /\ d.id = i /\ no \in BOOLEAN
            BY <1>3, <2>1 DEF Details
        <2>3. view' = [v EXCEPT !.detail = d, !.button = no]
            BY <1>2, <2>1, Zenon DEF StartVlmGeneration
        <2>4. view' = Screen(v.table, v.selected, d, no, v.records)
            BY <1>4, <2>3, DetailAndButton, Zenon
        <2>5. ScreenOf(view', issued) /\ view'.table = v.table /\ view'.button = no
            BY <1>4, <2>2, <2>4, NewDetail
        <2>6. QED
            BY <2>1, <2>5
    <1>6. queue = <<>> /\ queue # <<QuitEvent>>
        BY <1>1 DEF HistoryInv, QueueShape
    <1>7. Awaited = None /\ Awaited' = i
        BY <1>1, <1>2, <1>6 DEF Awaited
    <1>8. Types'
        BY <1>1, <1>2, <1>3 DEF HistoryInv, Types, Threads, Workers, Live
    <1>9. QueueShape'
        BY <1>1, <1>2, <1>3, <1>6 DEF QueueShape
    <1>10. ScreenIsTrue'
        <2>1. unread = FALSE => TableTells(view', rows, i)
            BY <1>4, <1>5, <1>7, NoneIsNoId DEF HistoryInv, Types, ScreenIsTrue, TableTells
        <2>2. QED
            BY <1>1, <1>5, <1>7, <2>1 DEF ScreenIsTrue, Offers
    <1>11. QED
        BY <1>1, <1>8, <1>9, <1>10 DEF HistoryInv, ClosedIdle

LEMMA BoxHistory ==
    ASSUME HistoryInv,
           \/ ReloadRefused \/ DeleteFails \/ CloseBox \/ CloseWindow
           \/ \E i \in Ids \cup {None} : AskToDelete(i)
    PROVE  HistoryInv'
    <1>1. /\ RowsStay /\ UNCHANGED <<rows, issued, view, thread, worker, queue, unread>>
          /\ faults' = faults \/ Fault
        BY UserFacts DEF ReloadRefused, DeleteFails, CloseBox, CloseWindow, AskToDelete, UserFrame
    <1>2. boxes' \in Seq(Boxes)
        <2>1. \/ boxes' = boxes \/ boxes' = <<Message>>
              \/ boxes # <<>> /\ boxes' \in {Tail(boxes), <<Message>> \o Tail(boxes)}
              \/ \E i \in Ids \cup {None} : boxes' = <<[kind |-> "delete", id |-> i]>>
            BY DEF ReloadRefused, DeleteFails, CloseBox, CloseWindow, AskToDelete, UserFrame
        <2>2. Types /\ boxes \in Seq(Boxes)
            BY UserFacts
        <2>3. QED
            BY <2>1, <2>2, MessageOpens
    <1>3. closed' \in BOOLEAN /\ (closed' => thread \in {"None", "Ended"})
        <2>1. CASE closed' = closed
            BY <2>1, UserFacts
        <2>2. CASE closed' = TRUE /\ ~IsVlmRunning
            <3>1. thread \in {"None", "Ended"}
                BY <2>2, UserFacts DEF IsVlmRunning, Types, Threads
            <3>2. QED
                BY <2>2, <3>1
        <2>3. QED
            BY <2>1, <2>2 DEF ReloadRefused, DeleteFails, CloseBox, CloseWindow, AskToDelete,
                              UserFrame
    <1>4. QED
        BY <1>1, <1>2, <1>3, UserFacts, ScreenStays

LEMMA DeleteHistory ==
    ASSUME HistoryInv, NEW S \in SUBSET Live, ConfirmDelete(S)
    PROVE  HistoryInv'
    <1>1. PICK gone : rows' = [j \in Live \ gone |-> rows[j]] /\ Live' = Live \ gone
        BY DEF ConfirmDelete, Live
    <1>2. /\ boxes # <<>> /\ UNCHANGED <<issued, queue, closed, thread, worker>>
          /\ \/ /\ S \subseteq Live' /\ Reloads(rows', S)
                /\ boxes' = <<Message>> \o Tail(boxes) /\ UNCHANGED faults
             \/ /\ boxes' = <<Message, Message>> \o Tail(boxes)
                /\ UNCHANGED <<view, faults, unread>>
             \/ S \subseteq Live' /\ ReloadRaises(rows', S) /\ boxes' = Tail(boxes)
        BY DEF ConfirmDelete, UserFrame, Live
    <1>3. RowsStay
        BY <1>1, <1>2 DEF HistoryInv, Types, RowsStay, Live
    <1>4. boxes' \in Seq(Boxes)
        BY <1>2, UserFacts, MessageOpens
    <1>5. faults' \in 0 .. MaxFaults
        BY <1>2, UserFacts DEF ReloadRaises
    <1>6. CASE S \subseteq Live' /\ Reloads(rows', S)
        <2>1. view' = Reloaded(rows', S) /\ unread' = FALSE
            BY <1>6 DEF Reloads
        <2>2. QED
            BY <1>2, <1>3, <1>4, <1>5, <1>6, <2>1, UserFacts, ScreenReloads
    <1>7. CASE UNCHANGED <<view, unread>>
        BY <1>2, <1>3, <1>4, <1>5, <1>7, UserFacts, ScreenStays
    <1>8. CASE S \subseteq Live' /\ ReloadRaises(rows', S)
        <2>1. CASE UNCHANGED <<view, unread>>
            BY <1>7, <2>1
        <2>2. CASE /\ view' = [Reloaded(rows', S) EXCEPT !.records = view.records]
                   /\ unread' = FALSE
            BY <1>2, <1>3, <1>4, <1>5, <1>8, <2>2, UserFacts, ScreenReloads
        <2>3. QED
            BY <1>8, <2>1, <2>2 DEF ReloadRaises
    <1>9. QED
        BY <1>2, <1>6, <1>7, <1>8

LEMMA SaveHistory ==
    ASSUME HistoryInv, NEW i \in Ids, NEW ng \in BOOLEAN, InspectionSaves(i, ng)
    PROVE  HistoryInv'
    <1>1. /\ i \notin issued /\ issued' = issued \cup {i}
          /\ rows' = [j \in Live \cup {i} |-> IF j = i THEN NewRow(ng) ELSE rows[j]]
          /\ UNCHANGED <<view, thread, worker, queue, boxes, closed, faults, unread>>
        BY DEF InspectionSaves
    <1>2. NewRow(ng) \in Rows
        BY DEF NewRow, Rows, Statuses
    <1>3. RowsStay
        BY <1>1, <1>2 DEF HistoryInv, Types, RowsStay, Live
    <1>4. QED
        BY <1>1, <1>3, UserFacts, ScreenStays

LEMMA NextHistory ==
    ASSUME HistoryInv, [Next]_vars
    PROVE  HistoryInv'
    <1>1. CASE ThreadStep
        BY <1>1, ThreadHistory
    <1>2. CASE HandleEvent
        BY <1>2, EventHistory
    <1>3. CASE UserStep
        BY <1>3, ReloadHistory, SelectHistory, DeselectHistory, StartHistory, BoxHistory,
           DeleteHistory DEF UserStep
    <1>4. CASE \E i \in Ids, ng \in BOOLEAN : InspectionSaves(i, ng)
        BY <1>4, SaveHistory
    <1>5. CASE UNCHANGED vars
        <2>1. UNCHANGED <<rows, issued, view, thread, worker, queue, boxes, closed, faults, unread>>
            BY <1>5 DEF vars
        <2>2. QED
            BY <2>1, UserFacts, ScreenStays
    <1>6. QED
        BY <1>1, <1>2, <1>3, <1>4, <1>5 DEF Next

LEMMA HistoryInvHolds == Spec => []HistoryInv
    <1>1. Init => HistoryInv
        BY InitHistory
    <1>2. HistoryInv /\ [Next]_vars => HistoryInv'
        BY NextHistory
    <1>3. QED
        BY <1>1, <1>2, PTL DEF Spec

-----------------------------------------------------------------------------
\* Whatever is deleted, searched for or saved meanwhile, and whatever query fails:
\* what the screen shows is about the selected row, and once a generation is over
\* and every result was read, table, detail and button tell what the database says
\* (_on_vlm_finished, _on_vlm_failed, _cleanup_vlm_thread).
THEOREM ScreenAgrees == Spec => []ViewAgrees
    <1>1. HistoryInv => ViewAgrees
        <2> SUFFICES ASSUME HistoryInv PROVE ViewAgrees
            OBVIOUS
        <2>1. ViewTypeOK
            BY DEF HistoryInv, Types, ScreenIsTrue, ScreenOf, ViewTypeOK, Threads, Workers,
                   Events, Boxes, Live
        <2>2. DetailIsOfSelection
            BY DEF HistoryInv, ScreenIsTrue, ScreenOf, DetailIsOfSelection
        <2>3. Settled => /\ Awaited = None /\ TableTells(view, rows, None)
                         /\ DetailTells(view, rows)
            BY DEF HistoryInv, Types, ScreenIsTrue, Settled, Awaited
        <2>4. TableAgrees
            BY <2>3, NoneIsNoId DEF HistoryInv, Types, TableAgrees, TableTells, Live
        <2>5. DetailAgrees
            BY <2>3 DEF HistoryInv, Types, ScreenIsTrue, ScreenOf, DetailAgrees, DetailTells,
                        Live, Rows
        <2>6. QED
            BY <2>1, <2>2, <2>4, <2>5 DEF ViewAgrees
    <1>2. QED
        BY <1>1, HistoryInvHolds, PTL

\* A generation is offered only when it can be made: StartVlmGeneration never finds
\* a thread or no selection (_sync_vlm_button, start_vlm_generation).
THEOREM OfferCanBeTaken == Spec => []OfferIsFree
    <1>1. HistoryInv => OfferIsFree
        BY DEF HistoryInv, ScreenIsTrue, Offers, OfferIsFree, Live
    <1>2. QED
        BY <1>1, HistoryInvHolds, PTL

\* The window closes after the result of a generation has been handled (closeEvent).
THEOREM ClosesAfterResult == Spec => []ClosedAfterResult
    <1>1. HistoryInv => ClosedAfterResult
        <2> SUFFICES ASSUME HistoryInv, closed PROVE ClosedAfterResult
            BY DEF ClosedAfterResult
        <2>1. worker.pc = "idle" /\ (queue = <<>> \/ queue = <<CleanupEvent>>)
            BY DEF HistoryInv, ClosedIdle, QueueShape
        <2>2. CleanupEvent.type = "cleanup"
            BY DEF CleanupEvent
        <2>3. \A k \in DOMAIN queue : queue[k].type = "cleanup"
            BY <2>1, <2>2
        <2>4. QED
            BY <2>1, <2>3 DEF ClosedAfterResult
    <1>2. QED
        BY <1>1, HistoryInvHolds, PTL
=============================================================================
