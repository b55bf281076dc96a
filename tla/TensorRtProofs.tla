--------------------------- MODULE TensorRtProofs ---------------------------
(***************************************************************************)
(* Safety of the persistent worker and of the adapter on top of it, for    *)
(* every set of threads, images, ids and processes.                        *)
(*                                                                         *)
(* The worker alone: its processes, its queue, its answers and its         *)
(* failures.  The adapter: its calls keep the promise of a detector, its   *)
(* close is clean, and with one inspection thread its fallback runs alone. *)
(* A close may leave a process that survived its kill, so that the worker  *)
(* of the next call need not be the only process, as the theorems on       *)
(* TensorRtWorker say.  What those prove of types and answers holds all    *)
(* the same; of the processes, Attended takes the place of SingleProcess.  *)
(***************************************************************************)
EXTENDS TensorRtAdapter, TLAPS

\* The elements of an empty queue.
LEMMA RangeEmpty == Range(<<>>) = {}
  BY DEF Range

\* What is left of a queue, and its head, were in it.
LEMMA RangeTail ==
  ASSUME NEW S, NEW s \in Seq(S), s # <<>>
  PROVE  /\ Tail(s) \in Seq(S)
         /\ Head(s) \in S
         /\ Head(s) \in Range(s)
         /\ Range(Tail(s)) \subseteq Range(s)
  <1>1. Len(s) \in Nat /\ Len(s) > 0 /\ DOMAIN s = 1 .. Len(s)
    OBVIOUS
  <1>2. Tail(s) \in Seq(S) /\ Head(s) \in S
    OBVIOUS
  <1>3. Head(s) = s[1] /\ 1 \in DOMAIN s
    BY <1>1
  <1>4. ASSUME NEW k \in DOMAIN Tail(s)
        PROVE  k + 1 \in DOMAIN s /\ Tail(s)[k] = s[k + 1]
    BY <1>1, <1>2
  <1>5. QED
    BY <1>2, <1>3, <1>4 DEF Range

\* Appending adds exactly the new element.
LEMMA RangeAppend ==
  ASSUME NEW S, NEW s \in Seq(S), NEW e \in S
  PROVE  Append(s, e) \in Seq(S) /\ Range(Append(s, e)) = Range(s) \cup {e}
  <1>1. Append(s, e) \in Seq(S) /\ DOMAIN Append(s, e) = 1 .. Len(s) + 1
    OBVIOUS
  <1>2. \A k \in DOMAIN s : k \in DOMAIN Append(s, e) /\ Append(s, e)[k] = s[k]
    OBVIOUS
  <1>3. Append(s, e)[Len(s) + 1] = e /\ Len(s) + 1 \in DOMAIN Append(s, e)
    OBVIOUS
  <1>4. \A k \in DOMAIN Append(s, e) : k \in DOMAIN s \/ k = Len(s) + 1
    OBVIOUS
  <1>5. Range(Append(s, e)) \subseteq Range(s) \cup {e}
    BY <1>2, <1>3, <1>4 DEF Range
  <1>6. Range(s) \cup {e} \subseteq Range(Append(s, e))
    BY <1>2, <1>3, <1>4 DEF Range
  <1>7. QED
    BY <1>1, <1>5, <1>6

-----------------------------------------------------------------------------
(* Type correctness.                                                       *)

TypeInv == TypeOK /\ LockShape

\* The ways a step of the holder ends keep the types of what they change.
LEMMA ReturnType ==
  ASSUME TypeInv, holder # None, NEW k, NEW m \in Images \cup {None},
         k \in Errors \cup {"none", "answer", "remote", "expired", "stopped", "started"},
         Return(k, m)
  PROVE  /\ op' \in [Callers -> Operations \cup {"none"}]
         /\ arg' \in [Callers -> Images \cup {None}]
         /\ out' \in [Callers -> Outcomes]
         /\ holder' = None /\ pc' = "free" /\ reqId' = None /\ err' = "none"
  BY NoneIsNoValue DEF TypeInv, TypeOK, LockShape, Return, Outcomes

\* Forgetting the process keeps the types.
LEMMA ClearType ==
  ASSUME TypeInv, ClearProcessState
  PROVE  /\ handle' = None
         /\ queue' \in Seq(Lines)
         /\ reader' \in [Pids -> {"none", "attached", "detached"}]
  BY DEF TypeInv, TypeOK, ClearProcessState, Detached

\* What follows a stop, a return or a new start, keeps the types.
LEMMA AfterStopType ==
  ASSUME TypeInv, holder # None, ClearProcessState, AfterStop, UNCHANGED processVars
  PROVE  TypeInv'
  <1>1. CASE op[holder] = "restart"
    BY <1>1, ClearType DEF AfterStop, TypeInv, TypeOK, LockShape, callVars, processVars
  <1>2. CASE op[holder] # "restart"
    <2>1. Return("stopped", None)
      BY <1>2 DEF AfterStop
    <2>2. QED
      BY <2>1, ReturnType, ClearType DEF TypeInv, TypeOK, LockShape, processVars
  <1>3. QED
    BY <1>1, <1>2

\* The lines that a process writes by itself are lines.
LEMMA EofIsLine ==
  ASSUME NEW p \in Pids
  PROVE  /\ Line("eof", None, None, p) \in Lines
         /\ Line("ready", None, None, p) \in Lines
         /\ Line("fatal", None, None, p) \in Lines
         /\ Line("noise", None, None, p) \in Lines
         /\ \A i \in Ids, m \in Images \cup {None} :
              Line("ok", i, m, p) \in Lines
         /\ \A i \in Ids : Line("error", i, None, p) \in Lines
                           /\ Line("bye", i, None, p) \in Lines
  BY DEF Line, Lines

\* The fields of a line are what it was made of.
LEMMA LineFields ==
  ASSUME NEW k, NEW i, NEW m, NEW p
  PROVE  /\ Line(k, i, m, p).kind = k /\ Line(k, i, m, p).id = i
         /\ Line(k, i, m, p).image = m /\ Line(k, i, m, p).pid = p
  BY DEF Line

\* The request a process serves next.
LEMMA HeadOfStdin ==
  ASSUME TypeInv, NEW p \in Pids, Serve(p)
  PROVE  /\ Head(stdin[p]) \in Requests /\ Head(stdin[p]) \in Range(stdin[p])
         /\ Head(stdin[p]).id \in Ids /\ Head(stdin[p]).image \in Images \cup {None}
  <1>1. Head(stdin[p]) \in Requests /\ Head(stdin[p]) \in Range(stdin[p])
    BY RangeTail DEF Serve, TypeInv, TypeOK
  <1>2. QED
    BY <1>1 DEF Requests

\* The initial state is typed.
LEMMA InitTypeInv == Init => TypeInv
  BY NoneIsNoValue DEF Init, TypeInv, TypeOK, LockShape, Outcomes

USE NoneIsNoValue

\* Calls keep the types.
LEMMA EnvironmentTypeInv == TypeInv /\ Environment => TypeInv'
  <1>1. ASSUME TypeInv, NEW c \in Callers, NEW o \in Operations,
               NEW m \in Images \cup {None}, Call(c, o, m)
        PROVE  TypeInv'
    <2>1. TypeOK'
      BY <1>1 DEF TypeInv, TypeOK, Call, Operations, Outcomes, lockVars, workerVars, processVars
    <2>2. LockShape'
      BY <1>1 DEF TypeInv, TypeOK, LockShape, Call, Operations, lockVars, workerVars, processVars
    <2>3. QED
      BY <2>1, <2>2 DEF TypeInv
  <1>2. QED
    BY <1>1 DEF Environment, Operations

\* So does taking the lock.
LEMMA AcquireTypeInv ==
  ASSUME TypeInv, NEW c \in Callers, Acquire(c)
  PROVE  TypeInv'
  BY DEF TypeInv, TypeOK, LockShape, Acquire, callVars, workerVars, processVars

\* The steps of start keep the types and the shape of the lock.
LEMMA StartTypeInv ==
  ASSUME TypeInv, StartRunning \/ PopenFails \/ (\E p \in Pids : Popen(p))
  PROVE  TypeInv'
  <1>1. CASE StartRunning
    BY <1>1, ReturnType DEF StartRunning, AfterStart, Goto, Alive, TypeInv, TypeOK, LockShape, 
       Return, callVars, workerVars, processVars, Operations, Outcomes
  <1>2. CASE PopenFails
    BY <1>2, ReturnType, ClearType DEF PopenFails, TypeInv, TypeOK, LockShape, processVars, Errors
  <1>3. CASE \E p \in Pids : Popen(p)
    BY <1>3 DEF Popen, Detached, Goto, TypeInv, TypeOK, LockShape, callVars
  <1>4. QED
    BY <1>1, <1>2, <1>3

\* The steps of infer do.
LEMMA InferTypeInv ==
  ASSUME TypeInv, ReadReady \/ WriteRequest \/ WriteFails \/ ReadReply
  PROVE  TypeInv'
  <1>1. CASE ReadReady
    <2>1. /\ queue' \in Seq(Lines) /\ holder # None
          /\ UNCHANGED <<handle, reader, processVars>>
      BY <1>1, RangeTail DEF ReadReady, TypeInv, TypeOK, LockShape
    <2>2. CASE Goto("write") /\ op[holder] = "infer"
      BY <1>1, <2>1, <2>2 DEF ReadReady, Goto, TypeInv, TypeOK, LockShape, callVars, processVars
    <2>3. CASE Return("started", None)
      BY <2>1, <2>3, ReturnType DEF TypeInv, TypeOK, LockShape, processVars
    <2>4. CASE Fail("startup") \/ Fail("protocol")
      BY <1>1, <2>1, <2>4 DEF ReadReady, Fail, TypeInv, TypeOK, LockShape, callVars,
         processVars, Errors
    <2>5. QED
      BY <1>1, <2>2, <2>3, <2>4 DEF ReadReady, AfterStart
  <1>2. CASE WriteRequest
    <2>1. PICK i \in Ids : Send("infer", i, arg[holder])
      BY <1>2 DEF WriteRequest
    <2>2. [kind |-> "infer", id |-> i, image |-> arg[holder]] \in Requests
      BY <1>2 DEF WriteRequest, TypeInv, TypeOK, LockShape, Requests
    <2>3. stdin' \in [Pids -> Seq(Requests)]
      BY <1>2, <2>1, <2>2, RangeAppend DEF WriteRequest, Send, Alive, TypeInv, TypeOK, LockShape
    <2>4. QED
      BY <1>2, <2>1, <2>3 DEF WriteRequest, Send, Alive, TypeInv, TypeOK, LockShape,
         callVars, workerVars
  <1>3. CASE WriteFails
    BY <1>3 DEF WriteFails, Fail, TypeInv, TypeOK, LockShape, callVars, workerVars,
       processVars, Errors
  <1>4. CASE ReadReply
    <2>1. Head(queue) \in Lines /\ Tail(queue) \in Seq(Lines)
      BY <1>4, RangeTail DEF ReadReply, TypeInv, TypeOK
    <2>2. Head(queue).image \in Images \cup {None}
      BY <2>1 DEF Lines
    <2>3. holder # None /\ UNCHANGED <<handle, reader, processVars>> /\ queue' = Tail(queue)
      BY <1>4 DEF ReadReply, TypeInv, LockShape
    <2>4. CASE Return("answer", Head(queue).image) \/ Return("remote", None)
      BY <2>1, <2>2, <2>3, <2>4, ReturnType DEF TypeInv, TypeOK, LockShape, processVars
    <2>5. CASE Fail("protocol")
      BY <1>4, <2>1, <2>3, <2>5 DEF ReadReply, Fail, TypeInv, TypeOK, LockShape, callVars,
         processVars, Errors
    <2>6. QED
      BY <1>4, <2>4, <2>5 DEF ReadReply
  <1>5. QED
    BY <1>1, <1>2, <1>3, <1>4

\* The steps of stop do.
LEMMA StopTypeInv ==
  ASSUME TypeInv,
         StopWithoutProcess \/ WriteShutdown \/ ReadBye \/ ByeWait \/ ByeWaitTimeout
  PROVE  TypeInv'
  <1>1. CASE StopWithoutProcess \/ ByeWait
    BY <1>1, AfterStopType, ClearType DEF StopWithoutProcess, ByeWait, TypeInv, TypeOK, LockShape
  <1>2. CASE WriteShutdown
    <2>1. PICK i \in Ids : Send("shutdown", i, None)
      BY <1>2 DEF WriteShutdown
    <2>2. [kind |-> "shutdown", id |-> i, image |-> None] \in Requests
      BY DEF Requests
    <2>3. stdin' \in [Pids -> Seq(Requests)]
      BY <1>2, <2>1, <2>2, RangeAppend DEF WriteShutdown, Send, Alive, TypeInv, TypeOK, LockShape
    <2>4. QED
      BY <1>2, <2>1, <2>3 DEF WriteShutdown, Send, Alive, TypeInv, TypeOK, LockShape,
         callVars, workerVars
  <1>3. CASE ReadBye
    BY <1>3, RangeTail DEF ReadBye, Goto, Fail, TypeInv, TypeOK,
       LockShape, callVars, processVars, Errors
  <1>4. CASE ByeWaitTimeout
    BY <1>4 DEF ByeWaitTimeout, Fail, TypeInv, TypeOK, LockShape, callVars, workerVars,
       processVars
  <1>5. QED
    BY <1>1, <1>2, <1>3, <1>4

\* The steps that terminate a process do.
LEMMA KillTypeInv ==
  ASSUME TypeInv,
         ReadTimeout \/ Terminate \/ Terminated \/ TerminateTimeout \/ KillTimeout
  PROVE  TypeInv'
  <1>1. CASE ReadTimeout
    BY <1>1 DEF ReadTimeout, Fail, TypeInv, TypeOK, LockShape, callVars, workerVars,
       processVars, Errors
  <1>2. CASE Terminate
    BY <1>2 DEF Terminate, Goto, Alive, TypeInv, TypeOK, LockShape, callVars, workerVars
  <1>3. CASE Terminated
    <2>1. ClearProcessState /\ UNCHANGED processVars /\ holder # None
      BY <1>3 DEF Terminated, TypeInv, LockShape
    <2>2. CASE AfterStop
      BY <2>1, <2>2, AfterStopType
    <2>3. CASE err # "none" /\ Return(err, None)
      BY <2>1, <2>3, ReturnType, ClearType DEF TypeInv, TypeOK, LockShape, processVars
    <2>4. QED
      BY <1>3, <2>2, <2>3 DEF Terminated, AfterTerminate
  <1>4. CASE TerminateTimeout
    BY <1>4 DEF TerminateTimeout, Goto, TypeInv, TypeOK, LockShape, callVars, workerVars,
       processVars
  <1>5. CASE KillTimeout
    BY <1>5 DEF KillTimeout, Return, TypeInv, TypeOK, LockShape, workerVars, processVars,
       Outcomes, Errors
  <1>6. QED
    BY <1>1, <1>2, <1>3, <1>4, <1>5

\* The steps of a process and of its reader do.
LEMMA ProcessTypeInv ==
  ASSUME TypeInv, NEW p \in Pids, ProcessStep(p)
  PROVE  TypeInv'
  <1> USE EofIsLine DEF TypeInv, TypeOK, LockShape, Emit, callVars, lockVars, workerVars
  <1>1. CASE LoadEngine(p)
    <2>1. PICK l \in Lines : stdout' = [stdout EXCEPT ![p] = Append(@, l)]
      BY <1>1 DEF LoadEngine
    <2>2. stdout' \in [Pids -> Seq(Lines)]
      BY <2>1, RangeAppend
    <2>3. QED
      BY <1>1, <2>2 DEF LoadEngine
  <1>2. CASE Serve(p)
    <2>1. Head(stdin[p]) \in Requests /\ Tail(stdin[p]) \in Seq(Requests)
      BY <1>2, RangeTail DEF Serve
    <2>2. Head(stdin[p]).id \in Ids /\ Head(stdin[p]).image \in Images \cup {None}
      BY <2>1 DEF Requests
    <2>3. PICK l \in Lines : stdout' = [stdout EXCEPT ![p] = Append(@, l)]
      BY <1>2, <2>2 DEF Serve
    <2>4. stdout' \in [Pids -> Seq(Lines)]
      BY <2>3, RangeAppend
    <2>5. QED
      BY <1>2, <2>1, <2>4 DEF Serve
  <1>3. CASE Noise(p)
    <2>1. stdout' \in [Pids -> Seq(Lines)]
      BY <1>3, RangeAppend DEF Noise
    <2>2. QED
      BY <1>3, <2>1 DEF Noise
  <1>4. CASE Exit(p)
    BY <1>4 DEF Exit
  <1>5. CASE ReadStdout(p)
    <2>1. Head(stdout[p]) \in Lines /\ Tail(stdout[p]) \in Seq(Lines)
      BY <1>5, RangeTail DEF ReadStdout
    <2>2. queue' \in Seq(Lines)
      BY <1>5, <2>1, RangeAppend DEF ReadStdout
    <2>3. QED
      BY <1>5, <2>1, <2>2 DEF ReadStdout
  <1>6. CASE ReaderEof(p)
    <2>1. queue' \in Seq(Lines)
      BY <1>6, RangeAppend DEF ReaderEof
    <2>2. QED
      BY <1>6, <2>1 DEF ReaderEof
  <1>7. QED
    BY <1>1, <1>2, <1>3, <1>4, <1>5, <1>6 DEF ProcessStep

\* Every step does.
LEMMA StepTypeInv == TypeInv /\ [Next]_vars => TypeInv'
  <1> SUFFICES ASSUME TypeInv, [Next]_vars PROVE TypeInv'
    OBVIOUS
  <1>1. CASE UNCHANGED vars
    BY <1>1 DEF vars, callVars, lockVars, workerVars, processVars, TypeInv, TypeOK, LockShape
  <1>2. CASE Environment
    BY <1>2, EnvironmentTypeInv
  <1>3. CASE WorkerNext
    BY <1>3, AcquireTypeInv, StartTypeInv, InferTypeInv, StopTypeInv, KillTypeInv,
       ProcessTypeInv DEF WorkerNext, HolderStep
  <1>4. QED
    BY <1>1, <1>2, <1>3 DEF Next

\* Every variable keeps its type, for every instance.
THEOREM TypeCorrect == Spec => []TypeOK
  <1>1. TypeInv => TypeOK
    BY DEF TypeInv
  <1>2. QED
    BY InitTypeInv, StepTypeInv, <1>1, PTL DEF Spec

-----------------------------------------------------------------------------
(* Ownership: one process, and only its lines in the queue.                *)

Owned == SingleProcess /\ LinesTraced /\ QueueIsOfHandle

\* Clearing the state of a process that has exited keeps ownership.
LEMMA ClearOwned ==
  ASSUME TypeInv, Owned, ~Alive(handle), ClearProcessState, UNCHANGED processVars
  PROVE  Owned'
  BY RangeEmpty DEF TypeInv, TypeOK, Owned, SingleProcess, LinesTraced, QueueIsOfHandle,
     Alive, ClearProcessState, Detached, processVars

\* Taking a line from the queue keeps ownership.
LEMMA TakeOwned ==
  ASSUME TypeInv, Owned, queue # <<>>, queue' = Tail(queue),
         UNCHANGED <<handle, reader, processVars>>
  PROVE  Owned'
  BY RangeTail DEF TypeInv, TypeOK, Owned, SingleProcess, LinesTraced, QueueIsOfHandle,
     processVars

\* Steps that leave processes' output and the object alone keep ownership.
LEMMA QuietOwned ==
  ASSUME TypeInv, Owned, UNCHANGED <<workerVars, stdout>>,
         \A p \in Pids : phase'[p] # "exited" => phase[p] # "exited"
  PROVE  Owned'
  BY DEF Owned, SingleProcess, LinesTraced, QueueIsOfHandle, workerVars

\* The thread inside the lock only ever owns one process and its queue.
LEMMA HolderOwned ==
  ASSUME TypeInv, Owned, HolderStep
  PROVE  Owned'
  <1>1. CASE PopenFails \/ StopWithoutProcess \/ ByeWait \/ Terminated
    BY <1>1, ClearOwned DEF PopenFails, StopWithoutProcess, ByeWait, Terminated
  <1>2. CASE ReadReady \/ ReadReply \/ ReadBye
    BY <1>2, TakeOwned DEF ReadReady, ReadReply, ReadBye
  <1>3. CASE StartRunning \/ WriteFails \/ ByeWaitTimeout \/ ReadTimeout
             \/ TerminateTimeout \/ KillTimeout
    BY <1>3, QuietOwned DEF StartRunning, WriteFails, ByeWaitTimeout, ReadTimeout,
       TerminateTimeout, KillTimeout, processVars
  <1>4. CASE WriteRequest \/ WriteShutdown
    BY <1>4, QuietOwned DEF WriteRequest, WriteShutdown
  <1>5. CASE Terminate
    <2>1. \A p \in Pids : phase'[p] # "exited" => phase[p] # "exited"
      BY <1>5 DEF Terminate, Alive, TypeInv, TypeOK
    <2>2. QED
      BY <1>5, <2>1, QuietOwned DEF Terminate
  <1>6. CASE \E p \in Pids : Popen(p)
    <2>1. PICK p \in Pids : Popen(p)
      BY <1>6
    <2>2. \A q \in Pids : phase[q] = "exited"
      BY <2>1 DEF Popen, Alive, Owned, SingleProcess
    <2>3. SingleProcess'
      BY <2>1, <2>2 DEF Popen, SingleProcess, TypeInv, TypeOK
    <2>4. \A q \in Pids : reader'[q] = "attached" => q = handle'
      BY <2>1 DEF Popen, Detached, TypeInv, TypeOK
    <2>5. \A q \in Pids : \A l \in Range(stdout'[q]) : l.pid = q
      BY <2>1, RangeEmpty DEF Popen, TypeInv, TypeOK, Owned, LinesTraced
    <2>6. QueueIsOfHandle'
      BY <2>1, RangeEmpty DEF Popen, QueueIsOfHandle
    <2>7. QED
      BY <2>3, <2>4, <2>5, <2>6 DEF Owned, LinesTraced
  <1>7. QED
    BY <1>1, <1>2, <1>3, <1>4, <1>5, <1>6 DEF HolderStep

\* Processes and readers put lines where they belong.
LEMMA ProcessOwned ==
  ASSUME TypeInv, Owned, NEW p \in Pids, ProcessStep(p)
  PROVE  Owned'
  <1> USE DEF TypeInv, TypeOK, Owned, SingleProcess, LinesTraced, QueueIsOfHandle
  <1>1. ASSUME NEW l \in Lines, l.pid = p, stdout' = [stdout EXCEPT ![p] = Append(@, l)],
               UNCHANGED workerVars,
               \A q \in Pids : phase'[q] # "exited" => phase[q] # "exited"
        PROVE  Owned'
    <2>1. Range(stdout'[p]) = Range(stdout[p]) \cup {l}
      BY <1>1, RangeAppend
    <2>2. QED
      BY <1>1, <2>1 DEF workerVars
  <1>2. CASE LoadEngine(p)
    <2>1. PICK l \in Lines : /\ l.pid = p
                             /\ stdout' = [stdout EXCEPT ![p] = Append(@, l)]
      BY <1>2, EofIsLine, LineFields DEF LoadEngine, Emit
    <2>2. QED
      BY <1>1, <1>2, <2>1 DEF LoadEngine, workerVars
  <1>3. CASE Serve(p)
    <2>1. Head(stdin[p]).id \in Ids /\ Head(stdin[p]).image \in Images \cup {None}
      BY <1>3, HeadOfStdin
    <2>2. PICK l \in Lines : /\ l.pid = p
                             /\ stdout' = [stdout EXCEPT ![p] = Append(@, l)]
      BY <1>3, <2>1, EofIsLine, LineFields DEF Serve, Emit
    <2>3. QED
      BY <1>1, <1>3, <2>2 DEF Serve, workerVars
  <1>4. CASE Noise(p)
    BY <1>1, <1>4, EofIsLine DEF Noise, Emit, Line, workerVars
  <1>5. CASE Exit(p)
    BY <1>5 DEF Exit, workerVars
  <1>6. CASE ReadStdout(p)
    <2>1. /\ Head(stdout[p]) \in Lines /\ Head(stdout[p]).pid = p
          /\ Range(stdout'[p]) \subseteq Range(stdout[p])
      BY <1>6, RangeTail DEF ReadStdout
    <2>2. \A l \in Range(queue') : l \in Range(queue) \/ (reader[p] = "attached" /\ l.pid = p)
      BY <1>6, <2>1, RangeAppend DEF ReadStdout
    <2>3. QED
      BY <1>6, <2>1, <2>2 DEF ReadStdout
  <1>7. CASE ReaderEof(p)
    <2>1. Line("eof", None, None, p) \in Lines /\ Line("eof", None, None, p).pid = p
      BY EofIsLine DEF Line
    <2>2. \A l \in Range(queue') : l \in Range(queue) \/ (reader[p] = "attached" /\ l.pid = p)
      BY <1>7, <2>1, RangeAppend DEF ReaderEof
    <2>3. QED
      BY <1>7, <2>2, RangeEmpty DEF ReaderEof
  <1>8. QED
    BY <1>2, <1>3, <1>4, <1>5, <1>6, <1>7 DEF ProcessStep

\* No step breaks the ownership of processes and queues.
LEMMA StepOwned == TypeInv /\ Owned /\ [Next]_vars => Owned'
  <1> SUFFICES ASSUME TypeInv, Owned, [Next]_vars PROVE Owned'
    OBVIOUS
  <1>1. CASE UNCHANGED vars
    BY <1>1 DEF vars, workerVars, processVars, Owned, SingleProcess, LinesTraced, QueueIsOfHandle
  <1>2. CASE Environment \/ \E c \in Callers : Acquire(c)
    BY <1>2 DEF Environment, Call, Acquire, workerVars, processVars, Owned, SingleProcess,
       LinesTraced, QueueIsOfHandle
  <1>3. CASE HolderStep \/ \E p \in Pids : ProcessStep(p)
    BY <1>3, HolderOwned, ProcessOwned
  <1>4. QED
    BY <1>1, <1>2, <1>3 DEF Next, WorkerNext

\* At most one worker process exists, and the queue never holds a line of
\* another one.
THEOREM OneProcessOneQueue == Spec => [](SingleProcess /\ QueueIsOfHandle)
  <1>1. Init => Owned
    BY RangeEmpty DEF Init, Owned, SingleProcess, LinesTraced, QueueIsOfHandle
  <1>2. Owned => SingleProcess /\ QueueIsOfHandle
    BY DEF Owned
  <1>3. QED
    BY InitTypeInv, StepTypeInv, <1>1, StepOwned, <1>2, PTL DEF Spec

-----------------------------------------------------------------------------
(* The handshake: nothing is written to a process that is still loading.   *)

\* A step after which only processes that loaded before are loading, with no more
\* in their pipes than before, and that leaves pc alone or sends it to "kill".
LEMMA StillLoading ==
  ASSUME LoadingUnanswered,
         \A p \in Pids : phase'[p] = "loading" =>
           /\ phase[p] = "loading"
           /\ stdin'[p] = stdin[p]
           /\ Range(stdout'[p]) \cup Range(queue') \subseteq Range(stdout[p]) \cup Range(queue)
           /\ pc' = pc \/ pc' = "kill"
  PROVE  LoadingUnanswered'
  BY DEF LoadingUnanswered

\* A step after which no process is loading.
LEMMA NoneLoading ==
  ASSUME \A p \in Pids : phase'[p] # "loading"
  PROVE  LoadingUnanswered'
  BY DEF LoadingUnanswered

\* The thread inside the lock does not write to a loading process.
LEMMA HolderLoading ==
  ASSUME TypeInv, Owned, LoadingUnanswered, HolderStep
  PROVE  LoadingUnanswered'
  <1>1. CASE StartRunning \/ WriteRequest \/ WriteFails \/ ReadReply \/ WriteShutdown \/ ReadBye
             \/ ByeWaitTimeout \/ TerminateTimeout \/ KillTimeout
    <2>1. \A p \in Pids : phase[p] # "loading"
      BY <1>1 DEF StartRunning, WriteRequest, WriteFails, ReadReply, WriteShutdown, ReadBye,
         ByeWaitTimeout, TerminateTimeout, KillTimeout, LoadingUnanswered
    <2>2. phase' = phase
      BY <1>1 DEF StartRunning, WriteRequest, WriteFails, ReadReply, WriteShutdown, ReadBye,
         ByeWaitTimeout, TerminateTimeout, KillTimeout, processVars
    <2>3. QED
      BY <2>1, <2>2, NoneLoading
  <1>2. CASE PopenFails \/ StopWithoutProcess \/ ByeWait \/ Terminated
    <2>1. ~Alive(handle) /\ phase' = phase
      BY <1>2 DEF PopenFails, StopWithoutProcess, ByeWait, Terminated, processVars
    <2>2. \A p \in Pids : phase'[p] # "loading"
      BY <2>1 DEF Alive, Owned, SingleProcess
    <2>3. QED
      BY <2>2, NoneLoading
  <1>3. CASE Terminate
    <2>1. \A p \in Pids : phase'[p] # "loading"
      BY <1>3 DEF Terminate, TypeInv, TypeOK, Owned, SingleProcess
    <2>2. QED
      BY <2>1, NoneLoading
  <1>4. CASE ReadTimeout
    BY <1>4, StillLoading DEF ReadTimeout, Fail, workerVars, processVars
  <1>5. CASE ReadReady
    <2>1. Head(queue) \in Range(queue) /\ Range(queue') \subseteq Range(queue)
      BY <1>5, RangeTail DEF ReadReady, TypeInv, TypeOK
    <2>2. CASE Head(queue).kind = "ready"
      <3>1. \A p \in Pids : phase[p] # "loading"
        BY <2>1, <2>2 DEF LoadingUnanswered
      <3>2. QED
        BY <1>5, <3>1, NoneLoading DEF ReadReady, processVars
    <2>3. CASE Fail("startup") \/ Fail("protocol")
      BY <1>5, <2>1, <2>3, StillLoading DEF ReadReady, Fail, processVars
    <2>4. QED
      BY <1>5, <2>2, <2>3 DEF ReadReady
  <1>6. CASE \E p \in Pids : Popen(p)
    <2>1. PICK p \in Pids : Popen(p)
      BY <1>6
    <2>2. \A q \in Pids : q # p => phase'[q] # "loading"
      BY <2>1 DEF Popen, Alive, Owned, SingleProcess, TypeInv, TypeOK
    <2>3. stdin'[p] = <<>> /\ stdout'[p] = <<>> /\ queue' = <<>> /\ pc' = "ready"
      BY <2>1 DEF Popen, Goto, TypeInv, TypeOK
    <2>4. QED
      BY <2>2, <2>3, RangeEmpty DEF LoadingUnanswered
  <1>7. QED
    BY <1>1, <1>2, <1>3, <1>4, <1>5, <1>6 DEF HolderStep

\* A loading process stops being one when it says ready.
LEMMA ProcessLoading ==
  ASSUME TypeInv, Owned, LoadingUnanswered, NEW p \in Pids, ProcessStep(p)
  PROVE  LoadingUnanswered'
  <1>1. CASE LoadEngine(p)
    <2>1. phase[p] = "loading" /\ phase'[p] # "loading"
          /\ \A q \in Pids : q # p => phase'[q] = phase[q]
      BY <1>1 DEF LoadEngine, TypeInv, TypeOK
    <2>2. \A q \in Pids : phase'[q] # "loading"
      BY <2>1 DEF Owned, SingleProcess
    <2>3. QED
      BY <2>2, NoneLoading
  <1>2. CASE Serve(p)
    <2>1. \A q \in Pids : phase[q] # "loading"
      BY <1>2 DEF Serve, Owned, SingleProcess
    <2>2. \A q \in Pids : phase'[q] # "loading"
      BY <1>2, <2>1 DEF Serve, TypeInv, TypeOK
    <2>3. QED
      BY <2>2, NoneLoading
  <1>3. CASE Noise(p)
    <2>1. Line("noise", None, None, p) \in Lines /\ Line("noise", None, None, p).kind = "noise"
      BY EofIsLine, LineFields
    <2>2. Range(stdout'[p]) = Range(stdout[p]) \cup {Line("noise", None, None, p)}
      BY <1>3, <2>1, RangeAppend DEF Noise, Emit, TypeInv, TypeOK
    <2>3. /\ \A q \in Pids : q # p => stdout'[q] = stdout[q]
          /\ phase' = phase /\ stdin' = stdin /\ queue' = queue /\ pc' = pc
      BY <1>3 DEF Noise, Emit, TypeInv, TypeOK, workerVars, lockVars
    <2>4. QED
      BY <2>1, <2>2, <2>3 DEF LoadingUnanswered
  <1>4. CASE Exit(p)
    BY <1>4, StillLoading DEF Exit, TypeInv, TypeOK, lockVars, workerVars
  <1>5. CASE ReadStdout(p)
    <2>1. /\ Head(stdout[p]) \in Lines /\ Head(stdout[p]) \in Range(stdout[p])
          /\ Range(stdout'[p]) \subseteq Range(stdout[p])
      BY <1>5, RangeTail DEF ReadStdout, TypeInv, TypeOK
    <2>2. \A l \in Range(queue') : l \in Range(queue) \/ (reader[p] = "attached" /\ l \in Range(stdout[p]))
      BY <1>5, <2>1, RangeAppend DEF ReadStdout, TypeInv, TypeOK
    <2>3. \A q \in Pids : phase[q] = "loading" /\ reader[p] = "attached" => q = p
      BY DEF Owned, SingleProcess, LinesTraced
    <2>4. \A q \in Pids : q # p => stdout'[q] = stdout[q]
      BY <1>5 DEF ReadStdout, TypeInv, TypeOK
    <2>5. phase' = phase /\ stdin' = stdin /\ pc' = pc
      BY <1>5 DEF ReadStdout, lockVars
    <2>6. QED
      BY <2>1, <2>2, <2>3, <2>4, <2>5 DEF LoadingUnanswered
  <1>6. CASE ReaderEof(p)
    <2>1. /\ Line("eof", None, None, p) \in Lines
          /\ Line("eof", None, None, p).kind # "ready"
      BY EofIsLine, LineFields
    <2>2. \A l \in Range(queue') : l \in Range(queue) \/ l.kind # "ready"
      BY <1>6, <2>1, RangeAppend DEF ReaderEof, TypeInv, TypeOK
    <2>3. \A q \in Pids : Range(stdout'[q]) \subseteq Range(stdout[q])
      BY <1>6, RangeEmpty DEF ReaderEof, TypeInv, TypeOK
    <2>4. phase' = phase /\ stdin' = stdin /\ pc' = pc
      BY <1>6 DEF ReaderEof, lockVars
    <2>5. QED
      BY <2>2, <2>3, <2>4 DEF LoadingUnanswered
  <1>7. QED
    BY <1>1, <1>2, <1>3, <1>4, <1>5, <1>6 DEF ProcessStep

\* No step breaks the handshake.
LEMMA StepLoading == TypeInv /\ Owned /\ LoadingUnanswered /\ [Next]_vars => LoadingUnanswered'
  <1> SUFFICES ASSUME TypeInv, Owned, LoadingUnanswered, [Next]_vars
               PROVE  LoadingUnanswered'
    OBVIOUS
  <1>1. CASE UNCHANGED vars
    BY <1>1, StillLoading DEF vars, lockVars, workerVars, processVars
  <1>2. CASE Environment
    BY <1>2, StillLoading DEF Environment, Call, lockVars, workerVars, processVars
  <1>3. CASE \E c \in Callers : Acquire(c)
    <2>1. pc = "free"
      BY <1>3 DEF Acquire, TypeInv, LockShape
    <2>2. \A p \in Pids : phase'[p] # "loading"
      BY <1>3, <2>1 DEF Acquire, LoadingUnanswered, processVars
    <2>3. QED
      BY <2>2, NoneLoading
  <1>4. CASE HolderStep \/ \E p \in Pids : ProcessStep(p)
    BY <1>4, HolderLoading, ProcessLoading
  <1>5. QED
    BY <1>1, <1>2, <1>3, <1>4 DEF Next, WorkerNext

\* No request reaches a process before its ready line was read.
THEOREM HandshakeBeforeRequests == Spec => []HandshakeFirst
  <1>1. Init => Owned /\ LoadingUnanswered
    BY RangeEmpty DEF Init, Owned, SingleProcess, LinesTraced, QueueIsOfHandle, LoadingUnanswered
  <1>2. LoadingUnanswered => HandshakeFirst
    BY DEF LoadingUnanswered, HandshakeFirst
  <1>3. QED
    BY InitTypeInv, StepTypeInv, <1>1, StepOwned, StepLoading, <1>2, PTL DEF Spec

-----------------------------------------------------------------------------
(* The answer: late lines never stand in for the answer that is waited for. *)

Answers == ReplyPending /\ AnswerMatchesRequest

\* No reply is waited for after the step, and no outcome but the holder's, which is
\* no answer, has changed.
LEMMA NoReplyAnswers ==
  ASSUME TypeInv, Answers, holder # None, pc' # "reply",
         \/ UNCHANGED callVars
         \/ \E k, m : Return(k, m) /\ (k = "answer" => m = arg[holder])
  PROVE  Answers'
  <1>1. ReplyPending'
    BY DEF ReplyPending
  <1>2. CASE UNCHANGED callVars
    BY <1>1, <1>2 DEF Answers, AnswerMatchesRequest, callVars
  <1>3. ASSUME NEW k, NEW m, Return(k, m), k = "answer" => m = arg[holder]
        PROVE  AnswerMatchesRequest'
    BY <1>3 DEF Return, TypeInv, TypeOK, Answers, AnswerMatchesRequest
  <1>4. QED
    BY <1>1, <1>2, <1>3 DEF Answers

\* The thread inside the lock takes only the answer to its own request.
LEMMA HolderAnswers ==
  ASSUME TypeInv, Answers, HolderStep
  PROVE  Answers'
  <1>0. holder # None
    BY DEF TypeInv, LockShape, HolderStep, StartRunning, PopenFails, Popen, ReadReady,
       WriteRequest, WriteFails, ReadReply, StopWithoutProcess, WriteShutdown, ReadBye,
       ByeWait, ByeWaitTimeout, ReadTimeout, Terminate, Terminated, TerminateTimeout,
       KillTimeout
  <1>1. CASE StartRunning \/ ReadReady
    <2>1. Goto("write") \/ Return("started", None) \/ Fail("startup") \/ Fail("protocol")
      BY <1>1 DEF StartRunning, ReadReady, AfterStart
    <2>2. QED
      BY <1>0, <2>1, NoReplyAnswers DEF Goto, Fail, Return
  <1>2. CASE PopenFails \/ KillTimeout
    <2>1. Return("startup", None) \/ Return("expired", None)
      BY <1>2 DEF PopenFails, KillTimeout
    <2>2. QED
      BY <1>0, <2>1, NoReplyAnswers DEF Return
  <1>3. CASE StopWithoutProcess \/ ByeWait \/ Terminated
    <2>1. AfterStop \/ (err \in Errors /\ Return(err, None))
      BY <1>3 DEF StopWithoutProcess, ByeWait, Terminated, AfterTerminate, TypeInv, TypeOK
    <2>2. CASE Return("stopped", None) \/ (err \in Errors /\ Return(err, None))
      <3>1. "answer" \notin Errors
        BY DEF Errors
      <3>2. QED
        BY <1>0, <2>2, <3>1, NoReplyAnswers DEF Return
    <2>3. CASE pc' = "start" /\ UNCHANGED callVars
      BY <1>0, <2>3, NoReplyAnswers
    <2>4. QED
      BY <2>1, <2>2, <2>3 DEF AfterStop
  <1>4. CASE (\E p \in Pids : Popen(p)) \/ WriteFails \/ WriteShutdown \/ ReadBye
             \/ ByeWaitTimeout \/ ReadTimeout \/ Terminate \/ TerminateTimeout
    <2>1. pc' # "reply" /\ UNCHANGED callVars
      BY <1>4 DEF Popen, WriteFails, WriteShutdown, ReadBye, ByeWaitTimeout, ReadTimeout,
         Terminate, TerminateTimeout, Goto, Fail
    <2>2. QED
      BY <1>0, <2>1, NoReplyAnswers
  <1>5. CASE ReadReply
    <2>1. Head(queue) \in Range(queue)
      BY <1>5, RangeTail DEF ReadReply, TypeInv, TypeOK
    <2>2. CASE /\ Head(queue).id = reqId /\ Head(queue).kind = "ok"
               /\ Return("answer", Head(queue).image)
      <3>1. Head(queue).image = arg[holder]
        BY <1>5, <2>1, <2>2 DEF ReadReply, Answers, ReplyPending
      <3>2. QED
        BY <1>0, <2>2, <3>1, NoReplyAnswers DEF Return
    <2>3. CASE Return("remote", None) \/ Fail("protocol")
      BY <1>0, <2>3, NoReplyAnswers DEF Return, Fail
    <2>4. QED
      BY <1>5, <2>2, <2>3 DEF ReadReply
  <1>6. CASE WriteRequest
    <2>1. PICK i \in Ids : Fresh(i) /\ Send("infer", i, arg[holder])
      BY <1>6 DEF WriteRequest
    <2>2. /\ reqId' = i /\ arg' = arg /\ holder' = holder /\ out' = out /\ op' = op
          /\ queue' = queue /\ stdout' = stdout
      BY <1>6, <2>1 DEF WriteRequest, Send, callVars, workerVars
    <2>3. handle \in Pids
      BY <1>6 DEF WriteRequest, Alive, TypeInv, TypeOK
    <2>4. DEFINE new == [kind |-> "infer", id |-> i, image |-> arg[holder]]
    <2>5. new \in Requests
      BY <1>0 DEF Requests, TypeInv, TypeOK
    <2>6. \A p \in Pids : \A r \in Range(stdin'[p]) : r \in Range(stdin[p]) \/ r = new
      BY <2>1, <2>3, <2>5, RangeAppend DEF Send, TypeInv, TypeOK
    <2>7. \A p \in Pids : \A r \in Range(stdin'[p]) : r.id = i => r.image = arg[holder]
      BY <2>1, <2>6 DEF Fresh
    <2>8. ReplyPending'
      BY <2>1, <2>2, <2>7 DEF Fresh, ReplyPending
    <2>9. QED
      BY <2>2, <2>8 DEF Answers, AnswerMatchesRequest
  <1>7. QED
    BY <1>1, <1>2, <1>3, <1>4, <1>5, <1>6 DEF HolderStep

\* A process answers a request with the id and the image it came with.
LEMMA ProcessAnswers ==
  ASSUME TypeInv, Answers, NEW p \in Pids, ProcessStep(p)
  PROVE  Answers'
  <1>1. UNCHANGED <<callVars, lockVars>>
    BY DEF ProcessStep, LoadEngine, Serve, Noise, Exit, ReadStdout, ReaderEof
  <1>2. ASSUME \A q \in Pids : Range(stdin'[q]) \subseteq Range(stdin[q]),
               pc = "reply" => \A q \in Pids : \A l \in Range(stdout'[q]) :
                 l \notin Range(stdout[q]) /\ l.id = reqId /\ l.kind = "ok" => l.image = arg[holder],
               \A l \in Range(queue') : l.kind = "ok" => l \in Range(queue) \cup Range(stdout[p])
        PROVE  Answers'
    <2>1. /\ pc' = pc /\ reqId' = reqId /\ arg' = arg /\ holder' = holder /\ out' = out
      BY <1>1 DEF callVars, lockVars
    <2>2. AnswerMatchesRequest'
      BY <2>1 DEF Answers, AnswerMatchesRequest
    <2>3. SUFFICES ASSUME pc = "reply" PROVE ReplyPending'
      BY <2>1, <2>2 DEF Answers, ReplyPending
    <2>4. \A q \in Pids : \A r \in Range(stdin'[q]) : r.id = reqId => r.image = arg[holder]
      BY <1>2, <2>3 DEF Answers, ReplyPending
    <2>5. \A q \in Pids : \A l \in Range(stdout'[q]) :
            l.id = reqId /\ l.kind = "ok" => l.image = arg[holder]
      BY <1>2, <2>3 DEF Answers, ReplyPending
    <2>6. \A l \in Range(queue') : l.id = reqId /\ l.kind = "ok" => l.image = arg[holder]
      <3>1. \A l \in Range(queue) \cup Range(stdout[p]) :
              l.id = reqId /\ l.kind = "ok" => l.image = arg[holder]
        BY <2>3 DEF Answers, ReplyPending
      <3>2. QED
        BY <1>2, <2>3, <3>1
    <2>7. QED
      BY <2>1, <2>4, <2>5, <2>6 DEF ReplyPending
  <1>3. CASE LoadEngine(p)
    <2>1. PICK l \in Lines : /\ l.kind # "ok"
                             /\ stdout' = [stdout EXCEPT ![p] = Append(@, l)]
      BY <1>3, EofIsLine, LineFields DEF LoadEngine, Emit
    <2>2. Range(stdout'[p]) = Range(stdout[p]) \cup {l}
      BY <2>1, RangeAppend DEF TypeInv, TypeOK
    <2>3. \A q \in Pids : q # p => stdout'[q] = stdout[q]
      BY <2>1 DEF TypeInv, TypeOK
    <2>4. stdin' = stdin /\ queue' = queue
      BY <1>3 DEF LoadEngine, workerVars
    <2>5. QED
      BY <1>2, <2>1, <2>2, <2>3, <2>4
  <1>4. CASE Serve(p)
    <2>1. PICK l \in Lines :
            /\ stdout' = [stdout EXCEPT ![p] = Append(@, l)]
            /\ l.kind = "ok" => l.id = Head(stdin[p]).id /\ l.image = Head(stdin[p]).image
      <3> DEFINE r == Head(stdin[p])
      <3>1. r.id \in Ids /\ r.image \in Images \cup {None}
        BY <1>4, HeadOfStdin
      <3>2. PICK l \in {Line("ok", r.id, r.image, p), Line("error", r.id, None, p),
                        Line("bye", r.id, None, p)} :
               stdout' = [stdout EXCEPT ![p] = Append(@, l)]
        BY <1>4 DEF Serve, Emit
      <3>3. l \in Lines
        BY <3>1, <3>2, EofIsLine
      <3>4. l.kind = "ok" => l.id = r.id /\ l.image = r.image
        BY <3>2, LineFields
      <3>5. QED
        BY <3>2, <3>3, <3>4
    <2>2. Range(stdout'[p]) = Range(stdout[p]) \cup {l}
      BY <2>1, RangeAppend DEF TypeInv, TypeOK
    <2>3. \A q \in Pids : q # p => stdout'[q] = stdout[q]
      BY <2>1 DEF TypeInv, TypeOK
    <2>4. \A q \in Pids : Range(stdin'[q]) \subseteq Range(stdin[q])
      BY <1>4, RangeTail DEF Serve, TypeInv, TypeOK
    <2>5. pc = "reply" => (l.id = reqId /\ l.kind = "ok" => l.image = arg[holder])
      BY <1>4, <2>1, HeadOfStdin DEF Answers, ReplyPending
    <2>6. queue' = queue
      BY <1>4 DEF Serve, workerVars
    <2>7. QED
      BY <1>2, <2>2, <2>3, <2>4, <2>5, <2>6
  <1>5. CASE Noise(p)
    <2>1. Line("noise", None, None, p) \in Lines /\ Line("noise", None, None, p).kind # "ok"
      BY EofIsLine, LineFields
    <2>2. Range(stdout'[p]) = Range(stdout[p]) \cup {Line("noise", None, None, p)}
      BY <1>5, <2>1, RangeAppend DEF Noise, Emit, TypeInv, TypeOK
    <2>3. \A q \in Pids : q # p => stdout'[q] = stdout[q]
      BY <1>5 DEF Noise, Emit, TypeInv, TypeOK
    <2>4. stdin' = stdin /\ queue' = queue
      BY <1>5 DEF Noise, workerVars
    <2>5. QED
      BY <1>2, <2>1, <2>2, <2>3, <2>4
  <1>6. CASE Exit(p)
    <2>1. \A q \in Pids : Range(stdin'[q]) \subseteq Range(stdin[q])
      BY <1>6, RangeEmpty DEF Exit, TypeInv, TypeOK
    <2>2. stdout' = stdout /\ queue' = queue
      BY <1>6 DEF Exit, workerVars
    <2>3. QED
      BY <1>2, <2>1, <2>2
  <1>7. CASE ReadStdout(p)
    <2>1. /\ Head(stdout[p]) \in Lines /\ Head(stdout[p]) \in Range(stdout[p])
          /\ \A q \in Pids : Range(stdout'[q]) \subseteq Range(stdout[q])
      BY <1>7, RangeTail DEF ReadStdout, TypeInv, TypeOK
    <2>2. Range(queue') \subseteq Range(queue) \cup Range(stdout[p])
      BY <1>7, <2>1, RangeAppend DEF ReadStdout, TypeInv, TypeOK
    <2>3. stdin' = stdin
      BY <1>7 DEF ReadStdout
    <2>4. QED
      BY <1>2, <2>1, <2>2, <2>3
  <1>8. CASE ReaderEof(p)
    <2>1. /\ Line("eof", None, None, p) \in Lines
          /\ Line("eof", None, None, p).kind # "ok"
      BY EofIsLine, LineFields
    <2>2. \A l \in Range(queue') : l \in Range(queue) \/ l.kind # "ok"
      BY <1>8, <2>1, RangeAppend DEF ReaderEof, TypeInv, TypeOK
    <2>3. \A q \in Pids : Range(stdout'[q]) \subseteq Range(stdout[q])
      BY <1>8, RangeEmpty DEF ReaderEof, TypeInv, TypeOK
    <2>4. stdin' = stdin
      BY <1>8 DEF ReaderEof
    <2>5. QED
      BY <1>2, <2>2, <2>3, <2>4
  <1>9. QED
    BY <1>3, <1>4, <1>5, <1>6, <1>7, <1>8 DEF ProcessStep

\* No step mixes up answers.
LEMMA StepAnswers == TypeInv /\ Answers /\ [Next]_vars => Answers'
  <1> SUFFICES ASSUME TypeInv, Answers, [Next]_vars PROVE Answers'
    OBVIOUS
  <1>1. CASE UNCHANGED vars
    BY <1>1 DEF vars, callVars, lockVars, workerVars, processVars, Answers, ReplyPending,
       AnswerMatchesRequest
  <1>2. ASSUME NEW c \in Callers, NEW o, NEW m, Call(c, o, m)
        PROVE  Answers'
    <2>1. holder # None => holder # c
      BY <1>2 DEF Call, TypeInv, LockShape
    <2>2. ReplyPending'
      <3>1. pc = "reply" => holder \in Callers
        BY DEF TypeInv, TypeOK, LockShape
      <3>2. QED
        BY <1>2, <2>1, <3>1 DEF Call, TypeInv, TypeOK, LockShape, Answers, ReplyPending,
           lockVars, workerVars, processVars
    <2>3. AnswerMatchesRequest'
      BY <1>2 DEF Call, TypeInv, TypeOK, Answers, AnswerMatchesRequest
    <2>4. QED
      BY <2>2, <2>3 DEF Answers
  <1>3. ASSUME NEW c \in Callers, Acquire(c)
        PROVE  Answers'
    <2>1. pc' # "reply" /\ UNCHANGED callVars
      BY <1>3 DEF Acquire
    <2>2. QED
      BY <2>1 DEF Answers, ReplyPending, AnswerMatchesRequest, callVars
  <1>4. CASE HolderStep \/ \E p \in Pids : ProcessStep(p)
    BY <1>4, HolderAnswers, ProcessAnswers
  <1>5. QED
    BY <1>1, <1>2, <1>3, <1>4 DEF Next, Environment, WorkerNext

\* Every answer infer returns is the one computed for its own image.
THEOREM AnswersMatch == Spec => []AnswerMatchesRequest
  <1>1. Init => Answers
    BY DEF Init, Answers, ReplyPending, AnswerMatchesRequest
  <1>2. Answers => AnswerMatchesRequest
    BY DEF Answers
  <1>3. QED
    BY InitTypeInv, StepTypeInv, <1>1, StepAnswers, <1>2, PTL DEF Spec

\* All of it at once: whatever threads, time-outs, crashes and late lines do, there
\* is one session, it began with the handshake, and its answers are to its
\* requests.
THEOREM SafetyHolds == Spec => []SafetyInv
  <1>1. Init => Owned /\ LoadingUnanswered /\ Answers
    BY RangeEmpty DEF Init, Owned, SingleProcess, LinesTraced, QueueIsOfHandle,
                      LoadingUnanswered, Answers, ReplyPending, AnswerMatchesRequest
  <1>2. TypeInv /\ Owned /\ LoadingUnanswered /\ Answers => SafetyInv
    BY DEF TypeInv, Owned, Answers, SafetyInv
  <1>3. QED
    BY InitTypeInv, StepTypeInv, <1>1, StepOwned, StepLoading, StepAnswers, <1>2,
       PTL DEF Spec

-----------------------------------------------------------------------------
(* Failed calls.                                                           *)

\* Without a living process of its own the object has left none behind.
LEMMA NotAliveMeansNone ==
  ASSUME TypeInv, Owned, ~Alive(handle), UNCHANGED phase
  PROVE  \A p \in Pids : phase'[p] = "exited"
  BY DEF TypeInv, TypeOK, Owned, SingleProcess, Alive

\* A call ends with an error only where the process is known to be gone: Popen
\* failed, or the termination succeeded.
LEMMA ErrorsEndQuietly ==
  ASSUME TypeInv, Owned, Next, NEW c \in Callers,
         op[c] # "none", op'[c] = "none", out'[c].kind \in Errors
  PROVE  \A p \in Pids : phase'[p] = "exited"
  <1>1. ASSUME NEW k, NEW m, Return(k, m) PROVE k \in Errors
    BY <1>1 DEF Return, TypeInv, TypeOK
  <1>2. ~ UNCHANGED op
    OBVIOUS
  <1>3. ASSUME NEW d \in Callers, NEW o \in Operations, NEW m, Call(d, o, m) PROVE FALSE
    BY <1>3 DEF Call, TypeInv, TypeOK, Operations
  <1>4. CASE HolderStep
    <2>1. CASE PopenFails \/ Terminated
      BY <2>1, NotAliveMeansNone DEF PopenFails, Terminated, processVars
    <2>2. CASE StartRunning \/ ReadReady \/ StopWithoutProcess \/ ByeWait \/ KillTimeout
               \/ ReadReply
      <3>1. PICK k \in {"started", "stopped", "expired", "answer", "remote"} :
                \E m : Return(k, m)
        BY <1>2, <2>2 DEF StartRunning, ReadReady, StopWithoutProcess, ByeWait, KillTimeout,
           ReadReply, AfterStart, AfterStop, Goto, Fail, callVars
      <3>. QED
        BY <1>1, <3>1 DEF Errors
    <2>3. CASE (\E p \in Pids : Popen(p)) \/ WriteRequest \/ WriteFails \/ WriteShutdown
               \/ ReadBye \/ ByeWaitTimeout \/ ReadTimeout \/ Terminate \/ TerminateTimeout
      BY <1>2, <2>3 DEF Popen, WriteRequest, WriteFails, WriteShutdown, ReadBye,
         ByeWaitTimeout, ReadTimeout, Terminate, TerminateTimeout, Goto, Fail, callVars
    <2>. QED
      BY <1>4, <2>1, <2>2, <2>3 DEF HolderStep
  <1>5. CASE \E d \in Callers : Acquire(d)
    BY <1>2, <1>5 DEF Acquire, callVars
  <1>6. CASE \E p \in Pids : ProcessStep(p)
    BY <1>2, <1>6 DEF ProcessStep, LoadEngine, Serve, Noise, Exit, ReadStdout, ReaderEof, callVars
  <1>. QED
    BY <1>3, <1>4, <1>5, <1>6 DEF Next, Environment, WorkerNext, Operations

\* Whichever thread calls and however the process fails: a call that raised a
\* worker error has left no process behind, so that the next call starts afresh
\* (start's failures, infer's except clause and _terminate_process).
THEOREM FailedCallsLeaveNothing == Spec => FailureLeavesNoProcess
  <1>1. TypeInv /\ Owned /\ [Next]_vars =>
            [\A c \in Callers :
               op[c] # "none" /\ op'[c] = "none" /\ out'[c].kind \in Errors
                 => \A p \in Pids : phase'[p] = "exited"]_vars
    BY ErrorsEndQuietly
  <1>2. Init => Owned
    BY RangeEmpty DEF Init, Owned, SingleProcess, LinesTraced, QueueIsOfHandle
  <1>. QED
    BY <1>1, <1>2, InitTypeInv, StepTypeInv, StepOwned, PTL DEF Spec, FailureLeavesNoProcess

-----------------------------------------------------------------------------
(* The adapter on top of the worker.                                      *)

USE NoneIsNoValue

Staged(c) == stage[c] \in {"resolve", "persistent", "oneshot"}

AdapterTypes ==
  /\ stage \in [Callers -> {"idle", "resolve", "persistent", "oneshot", "closing"}]
  /\ image \in [Callers -> Images \cup {None}]
  /\ result \in [Callers -> [kind : {"none", "raised", "result"}, image : Images \cup {None}]]
  /\ orphans \subseteq Pids

\* A call of the worker is one of the adapter's, for the image of that call, and
\* nobody calls anything while the adapter closes.
Linked ==
  /\ \A c \in Callers : Staged(c) => image[c] \in Images
  /\ \A c \in Callers : stage[c] = "persistent" => arg[c] = image[c]
  /\ \A c \in Callers : op[c] = "infer" => stage[c] = "persistent"
  /\ \A c \in Callers : op[c] = "stop" => stage[c] = "closing"
  /\ \A c \in Callers : op[c] # "restart"
  /\ \A c, d \in Callers : stage[c] = "closing" /\ d # c => stage[d] = "idle"

\* Every process that runs is the one of the worker, or an orphan.
Attended == \A p \in Pids \ orphans : phase[p] # "exited" => p = handle

Quiet == \A p \in Pids \ orphans : phase[p] = "exited"

\* A stop that returned left no process.
StoppedIsQuiet ==
  \A c \in Callers :
    stage[c] = "closing" /\ op[c] = "none" /\ out[c].kind = "stopped" => Quiet

\* The thread's worker has failed, or its one-shot process runs already.
WorkerGone(c) ==
  \/ stage[c] = "oneshot"
  \/ stage[c] = "persistent" /\ op[c] = "none" /\ out[c].kind \in Errors

\* What holds besides when one thread inspects.
FallbackInv ==
  /\ \A c \in Callers : WorkerGone(c) => Quiet
  /\ \A c \in Callers : stage[c] = "persistent" => UsePersistent
  /\ ~UsePersistent => \A p \in Pids : phase[p] = "exited"
  /\ pc = "start" => op[holder] # "stop"

BaseInv == TypeInv /\ Answers /\ AdapterTypes /\ Linked

-----------------------------------------------------------------------------
(* What a step of the worker may change.                                   *)

\* A step of the thread in the lock goes on in its call or returns from it.
LEMMA HolderReturns ==
  ASSUME TypeInv, HolderStep
  PROVE  /\ holder \in Callers /\ op[holder] # "none"
         /\ arg' = arg
         /\ \/ UNCHANGED callVars
            \/ \E k, m : /\ Return(k, m)
                         /\ op' = [op EXCEPT ![holder] = "none"]
                         /\ out' = [out EXCEPT ![holder] = [kind |-> k, image |-> m]]
  <1>1. holder # None
    BY DEF TypeInv, LockShape, HolderStep, StartRunning, PopenFails, Popen, ReadReady,
       WriteRequest, WriteFails, ReadReply, StopWithoutProcess, WriteShutdown, ReadBye,
       ByeWait, ByeWaitTimeout, ReadTimeout, Terminate, Terminated, TerminateTimeout,
       KillTimeout
  <1>2. holder \in Callers /\ op[holder] # "none"
    BY <1>1 DEF TypeInv, TypeOK, LockShape
  <1>3. ASSUME NEW k, NEW m, Return(k, m)
        PROVE  /\ arg' = arg
               /\ op' = [op EXCEPT ![holder] = "none"]
               /\ out' = [out EXCEPT ![holder] = [kind |-> k, image |-> m]]
    BY <1>3 DEF Return
  <1>4. UNCHANGED callVars \/ \E k, m : Return(k, m)
    BY DEF HolderStep, StartRunning, PopenFails, Popen, ReadReady, WriteRequest, WriteFails,
       ReadReply, StopWithoutProcess, WriteShutdown, ReadBye, ByeWait, ByeWaitTimeout,
       ReadTimeout, Terminate, Terminated, TerminateTimeout, KillTimeout, AfterStart,
       AfterStop, AfterTerminate, Goto, Fail, callVars
  <1>5. CASE UNCHANGED callVars
    BY <1>2, <1>5 DEF callVars
  <1>6. CASE \E k, m : Return(k, m)
    <2>1. PICK k, m : Return(k, m)
      BY <1>6
    <2>2. QED
      BY <1>2, <1>3, <2>1
  <1>7. QED
    BY <1>4, <1>5, <1>6

\* A step of the thread in the lock keeps the processes attended, and a call that
\* failed or stopped the worker returns when they are gone.
LEMMA HolderAttended ==
  ASSUME TypeInv, Attended, HolderStep, UNCHANGED orphans
  PROVE  /\ Attended'
         /\ \A k, m : k \in Errors \cup {"stopped"} /\ Return(k, m) => Quiet'
  <1>1. CASE PopenFails \/ StopWithoutProcess \/ ByeWait \/ Terminated
    <2>1. ~Alive(handle) /\ handle' = None /\ phase' = phase
      BY <1>1 DEF PopenFails, StopWithoutProcess, ByeWait, Terminated, ClearProcessState,
                  processVars
    <2>2. Quiet'
      BY <2>1 DEF Attended, Quiet, Alive
    <2>3. QED
      BY <2>2 DEF Attended, Quiet
  <1>2. CASE \E p \in Pids : Popen(p)
    <2>1. PICK p \in Pids : Popen(p)
      BY <1>2
    <2>2. ~Alive(handle) /\ handle' = p /\ \A q \in Pids : q # p => phase'[q] = phase[q]
      BY <2>1 DEF Popen, TypeInv, TypeOK
    <2>3. Attended'
      BY <2>2 DEF Attended, Alive
    <2>4. pc' = "ready" /\ \A k, m : ~Return(k, m)
      BY <2>1 DEF Popen, Goto, Return
    <2>5. QED
      BY <2>3, <2>4
  <1>3. CASE StartRunning \/ ReadReady \/ WriteRequest \/ WriteFails \/ ReadReply
             \/ WriteShutdown \/ ReadBye \/ ByeWaitTimeout \/ ReadTimeout \/ Terminate
             \/ TerminateTimeout \/ KillTimeout
    <2>1. handle' = handle /\ \A p \in Pids : phase'[p] # "exited" => phase[p] # "exited"
      BY <1>3 DEF StartRunning, ReadReady, WriteRequest, WriteFails, ReadReply, WriteShutdown,
         ReadBye, ByeWaitTimeout, ReadTimeout, Terminate, TerminateTimeout, KillTimeout,
         workerVars, processVars, TypeInv, TypeOK, Alive
    <2>2. Attended'
      BY <2>1 DEF Attended
    <2>3. holder # None
      BY HolderReturns
    <2>4. \A k, m : k \in Errors \cup {"stopped"} => ~Return(k, m)
      <3>1. \/ UNCHANGED holder
            \/ Return("started", None) \/ Return("remote", None) \/ Return("expired", None)
            \/ \E m : Return("answer", m)
        BY <1>3 DEF StartRunning, ReadReady, WriteRequest, WriteFails, ReadReply, WriteShutdown,
           ReadBye, ByeWaitTimeout, ReadTimeout, Terminate, TerminateTimeout, KillTimeout,
           AfterStart, Goto, Fail, callVars
      <3>2. UNCHANGED holder => \A k, m : ~Return(k, m)
        BY <2>3 DEF Return
      <3>3. \A k, l, m, n : Return(k, m) /\ Return(l, n) => k = l
        <4>1. holder \in Callers /\ out \in [Callers -> Outcomes]
          BY <2>3 DEF TypeInv, TypeOK
        <4>2. \A k, m : Return(k, m) => out'[holder].kind = k
          BY <4>1 DEF Return
        <4>3. QED
          BY <4>2
      <3>4. QED
        BY <3>1, <3>2, <3>3 DEF Errors
    <2>5. QED
      BY <2>2, <2>4
  <1>4. QED
    BY <1>1, <1>2, <1>3 DEF HolderStep

\* A step of a process, of its reader or a call revives no process and moves
\* neither the worker's object nor the lock.
LEMMA ProcessRevivesNone ==
  ASSUME TypeInv, NEW p \in Pids, ProcessStep(p)
  PROVE  /\ UNCHANGED <<callVars, lockVars, handle>>
         /\ \A q \in Pids : phase'[q] # "exited" => phase[q] # "exited"
  BY DEF ProcessStep, LoadEngine, Serve, Noise, Exit, ReadStdout, ReaderEof, workerVars, Emit,
         TypeInv, TypeOK

-----------------------------------------------------------------------------
(* Types, answers and calls.                                               *)

\* When the adapter closes the worker has no call, and nobody has the lock.
LEMMA ClosedIsFree ==
  ASSUME BaseInv, NEW c \in Callers, stage[c] = "closing", op[c] = "none"
  PROVE  holder = None /\ pc = "free" /\ \A d \in Callers : op[d] = "none"
  <1>1. \A d \in Callers : op[d] \in {"infer", "stop", "restart", "none"}
    BY DEF BaseInv, TypeInv, TypeOK, Operations
  <1>2. \A d \in Callers : op[d] = "none"
    BY <1>1 DEF BaseInv, Linked
  <1>3. QED
    BY <1>2 DEF BaseInv, TypeInv, TypeOK, LockShape

\* Dropping the worker's object keeps the worker's invariants.
LEMMA ClosedBase ==
  ASSUME BaseInv, NEW c \in Callers, Closed(c)
  PROVE  TypeInv' /\ Answers'
  <1>1. holder = None /\ pc = "free"
    BY ClosedIsFree DEF Closed
  <1>2. UNCHANGED <<callVars, lockVars, processVars>> /\ ClearProcessState
    BY DEF Closed
  <1>3. TypeInv'
    BY <1>1, <1>2, ClearType DEF BaseInv, TypeInv, TypeOK, LockShape, callVars, lockVars, processVars
  <1>4. Answers'
    BY <1>1, <1>2 DEF BaseInv, Answers, ReplyPending, AnswerMatchesRequest, callVars, lockVars
  <1>5. QED
    BY <1>3, <1>4

\* The steps of the adapter, seen from the worker: nothing, a call, or the end of
\* its object.
LEMMA AdapterCalls ==
  ASSUME BaseInv, AdapterNext
  PROVE  \/ WorkerNext /\ UNCHANGED adapterVars
         \/ UNCHANGED vars
         \/ \E c \in Callers : Call(c, "infer", image[c]) /\ image[c] \in Images
         \/ \E c \in Callers : Call(c, "stop", None)
         \/ \E c \in Callers : Closed(c)
  <1>1. ASSUME NEW c \in Callers, TryWorker(c)
        PROVE  UNCHANGED vars \/ (Call(c, "infer", image[c]) /\ image[c] \in Images)
    BY <1>1 DEF TryWorker, BaseInv, Linked, Staged
  <1>2. QED
    BY <1>1 DEF AdapterNext, AdapterStep, Detect, ImageMissing, WorkerAnswers, WorkerRejects,
       WorkerFails, OneshotEnds, Close

\* Every step keeps what the worker's theorems say of types and answers.
LEMMA StepWorker == BaseInv /\ [AdapterNext]_allVars => TypeInv' /\ Answers'
  <1> SUFFICES ASSUME BaseInv, [AdapterNext]_allVars PROVE TypeInv' /\ Answers'
    OBVIOUS
  <1>1. \/ [Next]_vars
        \/ \E c \in Callers : Closed(c)
    <2>1. CASE UNCHANGED allVars
      BY <2>1 DEF allVars
    <2>2. CASE AdapterNext
      BY <2>2, AdapterCalls DEF Next, Environment
    <2>3. QED
      BY <2>1, <2>2
  <1>2. QED
    BY <1>1, StepTypeInv, StepAnswers, ClosedBase DEF BaseInv

\* A step of the worker keeps its calls linked to the adapter's.
LEMMA WorkerLinked ==
  ASSUME BaseInv, WorkerNext, UNCHANGED adapterVars
  PROVE  Linked'
  <1>1. arg' = arg /\ \A c \in Callers : op'[c] \in {op[c], "none"}
    <2>1. CASE UNCHANGED callVars
      BY <2>1 DEF callVars
    <2>2. CASE HolderStep
      BY <2>2, HolderReturns DEF BaseInv, TypeInv, TypeOK, callVars
    <2>3. CASE (\E c \in Callers : Acquire(c)) \/ (\E p \in Pids : ProcessStep(p))
      BY <2>3, ProcessRevivesNone DEF Acquire, BaseInv, callVars
    <2>4. QED
      BY <2>1, <2>2, <2>3 DEF WorkerNext
  <1>2. QED
    BY <1>1 DEF BaseInv, Linked, Staged, adapterVars

\* A step of the adapter keeps its types and the links.
LEMMA AdapterLinked ==
  ASSUME BaseInv, NEW c \in Callers, (\E m \in Images : Detect(c, m)) \/ AdapterStep(c) \/ Close(c)
  PROVE  AdapterTypes' /\ Linked'
  <1> USE DEF BaseInv, AdapterTypes, Linked, Staged
  <1>1. CASE \E m \in Images : Detect(c, m)
    BY <1>1 DEF Detect, NoResult, vars, callVars
  <1>2. CASE TryWorker(c)
    <2>1. CASE UsePersistent
      <3>1. /\ stage' = [stage EXCEPT ![c] = "persistent"]
            /\ op' = [op EXCEPT ![c] = "infer"] /\ arg' = [arg EXCEPT ![c] = image[c]]
            /\ UNCHANGED <<image, result, orphans>> /\ stage[c] = "resolve"
        BY <1>2, <2>1 DEF TryWorker, Stage, Call
      <3>2. op \in [Callers -> {"infer", "stop", "restart", "none"}]
             /\ arg \in [Callers -> Images \cup {None}]
        BY DEF TypeInv, TypeOK, Operations
      <3>3. AdapterTypes'
        BY <3>1
      <3>4. /\ \A d \in Callers : Staged(d)' => image'[d] \in Images
            /\ \A d \in Callers : stage'[d] = "persistent" => arg'[d] = image'[d]
        BY <3>1, <3>2
      <3>5. /\ \A d \in Callers : op'[d] = "infer" => stage'[d] = "persistent"
            /\ \A d \in Callers : op'[d] = "stop" => stage'[d] = "closing"
            /\ \A d \in Callers : op'[d] # "restart"
        BY <3>1, <3>2
      <3>6. \A d, e \in Callers : stage'[d] = "closing" /\ e # d => stage'[e] = "idle"
        BY <3>1
      <3>7. QED
        BY <3>3, <3>4, <3>5, <3>6
    <2>2. CASE ~UsePersistent
      <3>1. /\ stage' = [stage EXCEPT ![c] = "oneshot"]
            /\ UNCHANGED <<image, result, orphans, op, arg>> /\ stage[c] = "resolve"
        BY <1>2, <2>2 DEF TryWorker, Stage, vars, callVars
      <3>2. QED
        BY <3>1
    <2>3. QED
      BY <2>1, <2>2
  <1>6. CASE Close(c)
    <2>1. /\ stage' = [stage EXCEPT ![c] = "closing"]
          /\ op' = [op EXCEPT ![c] = "stop"] /\ arg' = [arg EXCEPT ![c] = None]
          /\ UNCHANGED <<image, result, orphans>> /\ \A d \in Callers : stage[d] = "idle"
      BY <1>6 DEF Close, Stage, Call
    <2>2. op \in [Callers -> {"infer", "stop", "restart", "none"}]
           /\ arg \in [Callers -> Images \cup {None}]
      BY DEF TypeInv, TypeOK, Operations
    <2>3. QED
      BY <2>1, <2>2
  <1>3. ASSUME ImageMissing(c) \/ WorkerAnswers(c) \/ WorkerRejects(c) \/ WorkerFails(c)
                 \/ OneshotEnds(c)
        PROVE  AdapterTypes' /\ Linked'
    <2>1. UNCHANGED <<op, arg>> /\ op[c] = "none"
      BY <1>3 DEF ImageMissing, WorkerAnswers, WorkerRejects, WorkerFails, OneshotEnds, vars,
                  callVars, TypeInv, TypeOK, Operations
    <2>2. out[c].image \in Images \cup {None}
      BY DEF TypeInv, TypeOK, Outcomes
    <2>3. stage[c] # "idle" /\ stage[c] # "closing"
      BY <1>3 DEF ImageMissing, WorkerAnswers, WorkerRejects, WorkerFails, OneshotEnds
    <2>4. Stage(c, "oneshot")
            \/ \E r \in [kind : {"none", "raised", "result"}, image : Images \cup {None}] : End(c, r)
      BY <1>3, <2>2 DEF ImageMissing, WorkerAnswers, WorkerRejects, WorkerFails, OneshotEnds,
                        Raised, Detections
    <2>5. QED
      BY <2>1, <2>3, <2>4 DEF Stage, End
  <1>4. CASE Closed(c)
    BY <1>4 DEF Closed, callVars
  <1>5. QED
    BY <1>1, <1>2, <1>3, <1>4, <1>6 DEF AdapterStep

\* The base of all that follows is inductive.
LEMMA StepBase == BaseInv /\ [AdapterNext]_allVars => BaseInv'
  <1> SUFFICES ASSUME BaseInv, [AdapterNext]_allVars PROVE BaseInv'
    OBVIOUS
  <1>1. AdapterTypes' /\ Linked'
    <2>1. CASE UNCHANGED adapterVars /\ (WorkerNext \/ UNCHANGED vars)
      BY <2>1, WorkerLinked DEF BaseInv, AdapterTypes, Linked, Staged, adapterVars, vars, callVars
    <2>2. CASE ~(UNCHANGED adapterVars /\ (WorkerNext \/ UNCHANGED vars))
      BY <2>2, AdapterLinked DEF AdapterNext, allVars
    <2>3. QED
      BY <2>1, <2>2
  <1>2. QED
    BY <1>1, StepWorker DEF BaseInv

LEMMA InitBase == AdapterInit => BaseInv
  <1> SUFFICES ASSUME AdapterInit PROVE BaseInv
    OBVIOUS
  <1>1. TypeInv
    BY InitTypeInv DEF AdapterInit
  <1>2. Answers
    BY DEF AdapterInit, Init, Answers, ReplyPending, AnswerMatchesRequest
  <1>3. AdapterTypes /\ Linked
    BY DEF AdapterInit, Init, AdapterTypes, Linked, Staged, NoResult
  <1>4. QED
    BY <1>1, <1>2, <1>3 DEF BaseInv

-----------------------------------------------------------------------------
(* The promise: a call ends with its own image's result or an exception.    *)

Pending == [c \in Callers |-> IF Staged(c) THEN image[c] ELSE None]

\* The steps that no caller sees.
LEMMA HiddenSteps ==
  ASSUME BaseInv, NEW c \in Callers, Close(c) \/ Closed(c) \/ (\E s : Stage(c, s)
           /\ stage[c] \in {"resolve", "persistent"} /\ s \in {"persistent", "oneshot"})
  PROVE  UNCHANGED <<Pending, result>>
  BY DEF BaseInv, AdapterTypes, Pending, Staged, Close, Closed, Stage

\* A call that ends with r is no longer pending.
LEMMA EndReplies ==
  ASSUME BaseInv, NEW c \in Callers, Staged(c), NEW r, End(c, r)
  PROVE  /\ Pending[c] = image[c] /\ Pending[c] # None
         /\ Pending' = [Pending EXCEPT ![c] = None]
         /\ result' = [result EXCEPT ![c] = r]
  BY DEF BaseInv, AdapterTypes, Linked, Pending, Staged, End

\* Every step of the adapter is one of the promised ones, or hidden.
LEMMA StepKeepsPromise == BaseInv /\ [AdapterNext]_allVars => [Promise!Next]_(Promise!vars)
  <1> SUFFICES ASSUME BaseInv, [AdapterNext]_allVars
               PROVE  Promise!Next \/ UNCHANGED <<Pending, result>>
    BY DEF Promise!vars, Pending, Staged
  <1>1. ASSUME NEW c \in Callers, NEW m \in Images, Detect(c, m)
        PROVE  Promise!Next
    <2>1. /\ Pending[c] = None /\ Pending' = [Pending EXCEPT ![c] = m]
          /\ result' = [result EXCEPT ![c] = NoResult]
      BY <1>1 DEF Detect, BaseInv, AdapterTypes, Pending, Staged
    <2>2. Promise!Detect(c, m)
      BY <2>1 DEF Promise!Detect, Promise!NoReply, NoResult, Pending, Staged
    <2>3. QED
      BY <2>2 DEF Promise!Next
  <1>2. ASSUME NEW c \in Callers, Staged(c), End(c, Raised) \/ End(c, Detections(image[c]))
        PROVE  Promise!Next
    <2>1. CASE End(c, Raised)
      BY <2>1, <1>2, EndReplies
         DEF Promise!Next, Promise!Raise, Promise!Raised, Raised, Pending, Staged
    <2>2. CASE End(c, Detections(image[c]))
      BY <2>2, <1>2, EndReplies
         DEF Promise!Next, Promise!Reply, Promise!Result, Detections, Pending, Staged
    <2>3. QED
      BY <1>2, <2>1, <2>2
  <1>3. ASSUME NEW c \in Callers, AdapterStep(c) \/ Close(c)
        PROVE  Promise!Next \/ UNCHANGED <<Pending, result>>
    <2>1. CASE ImageMissing(c) \/ WorkerRejects(c) \/ OneshotEnds(c)
      BY <2>1, <1>2 DEF ImageMissing, WorkerRejects, OneshotEnds, Staged
    <2>2. CASE WorkerAnswers(c)
      <3>1. out[c].image = image[c]
        BY <2>2 DEF WorkerAnswers, BaseInv, Linked, Answers, AnswerMatchesRequest
      <3>2. QED
        BY <2>2, <3>1, <1>2 DEF WorkerAnswers, Staged
    <2>3. CASE WorkerFails(c)
      BY <2>3, <1>2, HiddenSteps DEF WorkerFails, Staged
    <2>4. CASE TryWorker(c) \/ Close(c) \/ Closed(c)
      BY <2>4, HiddenSteps DEF TryWorker
    <2>5. QED
      BY <1>3, <2>1, <2>2, <2>3, <2>4 DEF AdapterStep
  <1>4. CASE UNCHANGED adapterVars
    BY <1>4 DEF adapterVars, Pending, Staged
  <1>5. QED
    BY <1>1, <1>3, <1>4 DEF AdapterNext, allVars

\* For every set of threads, images, ids and processes: through time-outs, restarts,
\* late lines, fallbacks and closes, a detect call of the adapter ends with the result
\* of its own image or an exception, and nothing but a call or its end is visible.
\* (That it does end is liveness, which the run checks.)
THEOREM KeepsPromiseSafely ==
  AdapterSpec => Promise!Init /\ [][Promise!Next]_(Promise!vars)
  <1>1. AdapterInit => Promise!Init
    BY DEF AdapterInit, Promise!Init, Promise!NoReply, NoResult
  <1>2. QED
    BY <1>1, InitBase, StepBase, StepKeepsPromise, PTL DEF AdapterSpec

-----------------------------------------------------------------------------
(* Processes, closes and fallbacks.                                        *)

\* The step is one of the worker's, or the processes and the lock are left alone;
\* only a close makes orphans.
LEMMA StepShape ==
  ASSUME BaseInv, [AdapterNext]_allVars
  PROVE  \/ HolderStep /\ UNCHANGED adapterVars
         \/ (\E c \in Callers : Acquire(c)) /\ UNCHANGED adapterVars
         \/ (\E p \in Pids : ProcessStep(p)) /\ UNCHANGED adapterVars
         \/ UNCHANGED <<lockVars, workerVars, processVars, orphans>>
         \/ \E c \in Callers : Closed(c)
  <1>1. CASE UNCHANGED allVars
    BY <1>1 DEF allVars, adapterVars, vars
  <1>2. CASE WorkerNext /\ UNCHANGED adapterVars
    BY <1>2 DEF WorkerNext
  <1>3. ASSUME NEW c \in Callers, (\E m \in Images : Detect(c, m)) \/ AdapterStep(c) \/ Close(c)
        PROVE  UNCHANGED <<lockVars, workerVars, processVars, orphans>> \/ Closed(c)
    BY <1>3 DEF Detect, AdapterStep, ImageMissing, TryWorker, WorkerAnswers, WorkerRejects,
       WorkerFails, OneshotEnds, Close, Stage, End, Call, vars
  <1>4. QED
    BY <1>1, <1>2, <1>3 DEF AdapterNext

\* No process runs that is neither the worker's nor an orphan.
LEMMA StepAttended == BaseInv /\ Attended /\ [AdapterNext]_allVars => Attended'
  <1> SUFFICES ASSUME BaseInv, Attended, [AdapterNext]_allVars PROVE Attended'
    OBVIOUS
  <1>1. CASE HolderStep /\ UNCHANGED adapterVars
    BY <1>1, HolderAttended DEF BaseInv, adapterVars
  <1>2. CASE (\E c \in Callers : Acquire(c)) /\ UNCHANGED adapterVars
    BY <1>2 DEF Acquire, adapterVars, workerVars, processVars, Attended
  <1>3. CASE (\E p \in Pids : ProcessStep(p)) /\ UNCHANGED adapterVars
    BY <1>3, ProcessRevivesNone DEF BaseInv, adapterVars, Attended
  <1>4. CASE UNCHANGED <<lockVars, workerVars, processVars, orphans>>
    BY <1>4 DEF workerVars, processVars, Attended
  <1>5. ASSUME NEW c \in Callers, Closed(c) PROVE Attended'
    BY <1>5 DEF Closed, processVars, ClearProcessState, Attended, Alive
  <1>6. QED
    BY <1>1, <1>2, <1>3, <1>4, <1>5, StepShape

\* While a thread closes and its stop has returned, the worker stands still.
LEMMA StoppedStands ==
  ASSUME BaseInv, NEW c \in Callers, stage[c] = "closing", op[c] = "none", WorkerNext
  PROVE  \E p \in Pids : ProcessStep(p)
  <1>1. holder = None /\ \A d \in Callers : op[d] = "none"
    BY ClosedIsFree
  <1>2. ~HolderStep
    BY <1>1, HolderReturns DEF BaseInv
  <1>3. QED
    BY <1>1, <1>2 DEF WorkerNext, Acquire

\* A step of the adapter during a close can only be its end.
LEMMA OnlyClosed ==
  ASSUME BaseInv, NEW c \in Callers, stage[c] = "closing",
         NEW d \in Callers, (\E m \in Images : Detect(d, m)) \/ AdapterStep(d) \/ Close(d)
  PROVE  d = c /\ Closed(c)
  <1>1. \A e \in Callers : e # c => stage[e] = "idle"
    BY DEF BaseInv, Linked
  <1>2. AdapterStep(d)
    BY DEF Detect, Close
  <1>3. stage[d] # "idle"
    BY <1>2 DEF AdapterStep, ImageMissing, TryWorker, WorkerAnswers, WorkerRejects,
       WorkerFails, OneshotEnds, Closed
  <1>4. d = c
    BY <1>1, <1>3
  <1>5. QED
    BY <1>2, <1>4 DEF AdapterStep, ImageMissing, TryWorker, WorkerAnswers, WorkerRejects,
       WorkerFails, OneshotEnds

LEMMA StepStoppedIsQuiet ==
  BaseInv /\ Attended /\ StoppedIsQuiet /\ [AdapterNext]_allVars => StoppedIsQuiet'
  <1> SUFFICES ASSUME BaseInv, Attended, StoppedIsQuiet, [AdapterNext]_allVars,
                      NEW c \in Callers, stage'[c] = "closing", op'[c] = "none",
                      out'[c].kind = "stopped"
               PROVE  Quiet'
    BY DEF StoppedIsQuiet
  <1>1. CASE UNCHANGED allVars
    BY <1>1 DEF allVars, adapterVars, vars, callVars, processVars, StoppedIsQuiet, Quiet
  <1>2. CASE HolderStep /\ UNCHANGED adapterVars
    <2>1. stage[c] = "closing" /\ op[c] # "none"
      BY <1>2, ClosedIsFree, HolderReturns DEF BaseInv, adapterVars
    <2>2. PICK k, m : /\ Return(k, m) /\ op' = [op EXCEPT ![holder] = "none"]
                      /\ out' = [out EXCEPT ![holder] = [kind |-> k, image |-> m]]
      BY <1>2, <2>1, HolderReturns DEF BaseInv, callVars
    <2>3. c = holder
      BY <2>1, <2>2 DEF BaseInv, TypeInv, TypeOK
    <2>4. k = "stopped"
      BY <2>2, <2>3 DEF BaseInv, TypeInv, TypeOK
    <2>5. QED
      BY <1>2, <2>2, <2>4, HolderAttended DEF BaseInv, adapterVars
  <1>3. CASE (\E d \in Callers : Acquire(d)) /\ UNCHANGED adapterVars
    BY <1>3 DEF Acquire, adapterVars, callVars, processVars, StoppedIsQuiet, Quiet
  <1>4. CASE (\E p \in Pids : ProcessStep(p)) /\ UNCHANGED adapterVars
    BY <1>4, ProcessRevivesNone DEF BaseInv, adapterVars, callVars, StoppedIsQuiet, Quiet
  <1>5. ASSUME NEW d \in Callers, (\E m \in Images : Detect(d, m)) \/ AdapterStep(d) \/ Close(d)
        PROVE  FALSE
    <2>1. CASE stage[c] = "closing"
      BY <1>5, <2>1, OnlyClosed DEF Closed, BaseInv, AdapterTypes
    <2>2. CASE stage[c] # "closing"
      <3>1. d = c /\ Close(c)
        BY <1>5, <2>2 DEF Detect, AdapterStep, ImageMissing, TryWorker, WorkerAnswers,
           WorkerRejects, WorkerFails, OneshotEnds, Closed, Close, Stage, End, BaseInv,
           AdapterTypes
      <3>2. op'[c] = "stop"
        BY <3>1 DEF Close, Call, BaseInv, TypeInv, TypeOK
      <3>3. QED
        BY <3>2
    <2>3. QED
      BY <2>1, <2>2
  <1>6. QED
    BY <1>1, <1>2, <1>3, <1>4, <1>5 DEF AdapterNext, WorkerNext

\* For every set of threads: a close() whose stop returned leaves no worker process
\* behind, but those that survived the kill of an earlier close.
THEOREM CloseIsClean == AdapterSpec => CloseLeavesNoProcess
  <1> DEFINE Inv == BaseInv /\ Attended /\ StoppedIsQuiet
  <1>1. AdapterInit => Inv
    BY InitBase DEF AdapterInit, Init, Attended, StoppedIsQuiet
  <1>2. Inv /\ [AdapterNext]_allVars => Inv'
    BY StepBase, StepAttended, StepStoppedIsQuiet
  <1>3. ASSUME Inv, [AdapterNext]_allVars, NEW c \in Callers, stage[c] = "closing",
               stage'[c] = "idle", out[c].kind = "stopped"
        PROVE  \A p \in Pids \ orphans : phase[p] = "exited"
    <2>1. AdapterNext /\ ~UNCHANGED adapterVars
      BY <1>3 DEF allVars, adapterVars
    <2>2. Closed(c)
      BY <1>3, <2>1, OnlyClosed DEF AdapterNext
    <2>3. QED
      BY <1>3, <2>2 DEF Closed, StoppedIsQuiet, Quiet
  <1>4. Inv /\ [AdapterNext]_allVars =>
          [\A c \in Callers :
             stage[c] = "closing" /\ stage'[c] = "idle" /\ out[c].kind = "stopped"
               => \A p \in Pids \ orphans : phase[p] = "exited"]_allVars
    BY <1>3
  <1>5. QED
    BY <1>1, <1>2, <1>4, PTL DEF AdapterSpec, CloseLeavesNoProcess

-----------------------------------------------------------------------------
(* One inspection thread: its fallback has the GPU for itself.             *)

OneCallerOnly == \A c, d \in Callers : c = d

\* The thread inside the lock infers for its own call; it never starts a process to
\* stop it, and starts none unless the persistent worker is in use.
LEMMA HolderKind ==
  ASSUME BaseInv, FallbackInv, HolderStep
  PROVE  /\ holder \in Callers /\ op[holder] # "none"
         /\ stage[holder] \in {"persistent", "closing"}
         /\ pc = "start" => UsePersistent
         /\ pc' # "start"
  <1>1. holder \in Callers /\ op[holder] \in {"infer", "stop"}
    BY HolderReturns DEF BaseInv, Linked, TypeInv, TypeOK, Operations
  <1>2. stage[holder] \in {"persistent", "closing"}
    BY <1>1 DEF BaseInv, Linked
  <1>3. pc = "start" => UsePersistent
    BY <1>1 DEF FallbackInv, BaseInv, Linked
  <1>4. pc' # "start"
    BY <1>1 DEF HolderStep, StartRunning, PopenFails, Popen, ReadReady, WriteRequest,
       WriteFails, ReadReply, StopWithoutProcess, WriteShutdown, ReadBye, ByeWait,
       ByeWaitTimeout, ReadTimeout, Terminate, Terminated, TerminateTimeout, KillTimeout,
       AfterStart, AfterStop, AfterTerminate, Goto, Fail, Return
  <1>5. QED
    BY <1>1, <1>2, <1>3, <1>4

\* Without the persistent worker the thread in the lock revives no process either.
LEMMA HolderRevives ==
  ASSUME BaseInv, FallbackInv, HolderStep, ~UsePersistent
  PROVE  \A p \in Pids : phase'[p] = "exited"
  <1>1. \A p \in Pids : phase[p] = "exited"
    BY DEF FallbackInv
  <1>2. pc # "start"
    BY HolderKind
  <1>3. \A p \in Pids : phase'[p] # "exited" => phase[p] # "exited"
    BY <1>2 DEF HolderStep, StartRunning, PopenFails, Popen, ReadReady, WriteRequest,
       WriteFails, ReadReply, StopWithoutProcess, WriteShutdown, ReadBye, ByeWait,
       ByeWaitTimeout, ReadTimeout, Terminate, Terminated, TerminateTimeout, KillTimeout,
       processVars, Alive, BaseInv, TypeInv, TypeOK
  <1>4. QED
    BY <1>1, <1>3

\* When the only thread's call of the worker is over, nobody has the lock.
LEMMA AloneIsFree ==
  ASSUME BaseInv, OneCallerOnly, NEW c \in Callers, op[c] = "none"
  PROVE  holder = None
  BY DEF BaseInv, OneCallerOnly, TypeInv, TypeOK, LockShape

LEMMA StepFallback ==
  ASSUME BaseInv, Attended, FallbackInv, OneCallerOnly, [AdapterNext]_allVars
  PROVE  FallbackInv'
  <1>1. CASE UNCHANGED allVars
    BY <1>1 DEF allVars, adapterVars, vars, callVars, lockVars, processVars, FallbackInv, WorkerGone, Quiet
  <1>2. CASE HolderStep /\ UNCHANGED adapterVars
    <2>1. ASSUME NEW c \in Callers, WorkerGone(c)'
          PROVE  Quiet'
      <3>1. c = holder /\ stage[c] # "oneshot" /\ op[c] # "none"
        BY <1>2, HolderKind DEF OneCallerOnly
      <3>2. op'[c] = "none" /\ out'[c].kind \in Errors
        BY <1>2, <2>1, <3>1 DEF adapterVars, WorkerGone, Errors
      <3>3. PICK k, m : /\ Return(k, m)
                        /\ out' = [out EXCEPT ![holder] = [kind |-> k, image |-> m]]
        BY <1>2, <3>1, <3>2, HolderReturns DEF BaseInv, callVars
      <3>4. k \in Errors
        BY <3>1, <3>2, <3>3 DEF BaseInv, TypeInv, TypeOK
      <3>5. QED
        BY <1>2, <3>3, <3>4, HolderAttended DEF BaseInv, adapterVars
    <2>2. ~UsePersistent => \A p \in Pids : phase'[p] = "exited"
      BY <1>2, HolderRevives
    <2>3. pc' # "start"
      BY <1>2, HolderKind
    <2>4. \A c \in Callers : stage'[c] = "persistent" => UsePersistent
      BY <1>2 DEF adapterVars, FallbackInv
    <2>5. QED
      BY <2>1, <2>2, <2>3, <2>4 DEF FallbackInv
  <1>3. CASE (\E c \in Callers : Acquire(c)) /\ UNCHANGED adapterVars
    <2>1. UNCHANGED <<op, out, phase, stage, orphans>>
      BY <1>3 DEF Acquire, adapterVars, callVars, processVars
    <2>2. pc' = "start" => op'[holder'] # "stop"
      BY <1>3 DEF Acquire, callVars
    <2>3. QED
      BY <2>1, <2>2 DEF FallbackInv, WorkerGone, Quiet
  <1>4. CASE (\E p \in Pids : ProcessStep(p)) /\ UNCHANGED adapterVars
    <2>1. UNCHANGED <<op, out, pc, holder, stage, orphans>>
      BY <1>4, ProcessRevivesNone DEF BaseInv, adapterVars, callVars, lockVars
    <2>2. \A q \in Pids : phase'[q] # "exited" => phase[q] # "exited"
      BY <1>4, ProcessRevivesNone DEF BaseInv
    <2>3. QED
      BY <2>1, <2>2 DEF FallbackInv, WorkerGone, Quiet
  <1>5. ASSUME NEW c \in Callers, (\E m \in Images : Detect(c, m)) \/ AdapterStep(c) \/ Close(c)
        PROVE  FallbackInv'
    <2>1. \A d \in Callers : d = c
      BY DEF OneCallerOnly
    <2>2. op[c] = "none"
      BY <1>5 DEF Detect, AdapterStep, ImageMissing, TryWorker, WorkerAnswers, WorkerRejects,
         WorkerFails, OneshotEnds, Closed, Close, Call, BaseInv, Linked, TypeInv, TypeOK, Operations
    <2>3. holder = None /\ pc = "free"
      BY <2>2, AloneIsFree DEF BaseInv, TypeInv, LockShape
    <2>4. UNCHANGED <<pc, phase>> /\ (orphans' = orphans \/ stage'[c] = "idle")
      BY <1>5 DEF Detect, AdapterStep, ImageMissing, TryWorker, WorkerAnswers, WorkerRejects,
         WorkerFails, OneshotEnds, Closed, Close, Call, Stage, End, vars, lockVars, processVars,
         BaseInv, AdapterTypes
    <2>5. stage'[c] = "persistent" => UsePersistent /\ op'[c] = "infer"
      BY <1>5 DEF Detect, AdapterStep, ImageMissing, TryWorker, WorkerAnswers, WorkerRejects,
         WorkerFails, OneshotEnds, Closed, Close, Call, Stage, End, BaseInv, AdapterTypes,
         TypeInv, TypeOK
    <2>6. stage'[c] = "oneshot" => Quiet /\ orphans' = orphans
      <3>1. stage'[c] = "oneshot" =>
              \/ stage[c] = "resolve" /\ ~UsePersistent /\ orphans' = orphans
              \/ WorkerFails(c) /\ orphans' = orphans
        BY <1>5 DEF Detect, AdapterStep, ImageMissing, TryWorker, WorkerAnswers, WorkerRejects,
           OneshotEnds, Closed, Close, Stage, End, BaseInv, AdapterTypes, WorkerFails
      <3>2. QED
        BY <3>1 DEF FallbackInv, WorkerGone, Quiet, WorkerFails
    <2>7. QED
      BY <2>1, <2>3, <2>4, <2>5, <2>6 DEF FallbackInv, WorkerGone, Quiet
  <1>6. QED
    BY <1>1, <1>2, <1>3, <1>4, <1>5 DEF AdapterNext, WorkerNext

\* With one inspection thread, as the view model has it, and for every set of images,
\* ids and processes and every setting: the adapter is well typed, and its one-shot
\* process never runs beside a process of the worker.
THEOREM FallbackRunsAlone ==
  ASSUME OneCallerOnly
  PROVE  AdapterSpec => []AdapterInv
  <1> DEFINE Inv == BaseInv /\ Attended /\ FallbackInv
  <1>1. AdapterInit => Inv
    BY InitBase DEF AdapterInit, Init, Attended, FallbackInv, WorkerGone, Quiet
  <1>2. Inv /\ [AdapterNext]_allVars => Inv'
    BY StepBase, StepAttended, StepFallback
  <1>3. Inv => AdapterInv
    BY DEF BaseInv, TypeInv, AdapterTypes, FallbackInv, WorkerGone, Quiet, AdapterInv, AdapterTypeOK,
           OneshotRunsAlone
  <1>4. QED
    BY <1>1, <1>2, <1>3, PTL DEF AdapterSpec
=============================================================================
