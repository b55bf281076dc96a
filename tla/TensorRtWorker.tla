--------------------------- MODULE TensorRtWorker ---------------------------
(***************************************************************************)
(* The persistent TensorRT worker: the Python object that owns one worker  *)
(* process and serialises requests (service/tensorrt_persistent_worker.py) *)
(* together with the C++ request loop it talks to                          *)
(* (cpp_inference/src/tensorrt_worker.cpp).                                *)
(*                                                                         *)
(* Threads call infer, stop or restart; a call runs under one RLock.  The  *)
(* object keeps a process handle and a response queue that a daemon reader *)
(* thread fills from the process's stdout.  A new process gets a new queue *)
(* and a new reader; the reader of an old process keeps the old queue.     *)
(* Every wait has a timeout, and a timeout may fire at any moment at which *)
(* what it waits for has not arrived.  A process may be slow, print a line *)
(* that is not the protocol's, crash, or not die when it is killed.        *)
(***************************************************************************)
EXTENDS Naturals, Sequences, Functions

CONSTANTS
  Callers,   \* threads that call the object
  Images,    \* input images
  Ids,       \* request ids (uuid4)
  Pids,      \* operating-system processes
  None,      \* absence of a value
  MaxNoise   \* bound on the lines on their way when a process prints noise

ASSUME NoneIsNoValue == None \notin Callers \cup Images \cup Ids \cup Pids

VARIABLES
  op,        \* op[c]: the operation thread c is executing, or "none"
  arg,       \* arg[c]: the image of c's latest infer call
  out,       \* out[c]: the outcome of c's latest call
  holder,    \* the thread that holds _lock
  pc,        \* what that thread does next
  reqId,     \* the request id it waits for
  err,       \* the exception it will raise once the process is gone
  handle,    \* _process
  queue,     \* _stdout_queue
  reader,    \* reader[p]: the stdout reader thread of process p
  phase,     \* phase[p]: where process p is
  stdin,     \* stdin[p]: requests written to p and not yet served
  stdout     \* stdout[p]: lines p wrote that its reader has not taken

callVars == <<op, arg, out>>
lockVars == <<holder, pc, reqId, err>>
workerVars == <<handle, queue, reader>>
processVars == <<phase, stdin, stdout>>
vars == <<callVars, lockVars, workerVars, processVars>>

Operations == {"infer", "stop", "restart"}

Errors == {"startup", "protocol", "timeout"}

Outcomes ==
  [kind : Errors \cup {"none", "answer", "remote", "expired", "stopped", "started"},
   image : Images \cup {None}]

Requests ==
  [kind : {"infer", "shutdown"}, id : Ids, image : Images \cup {None}]

Lines ==
  [kind : {"ready", "fatal", "ok", "error", "bye", "noise", "eof"},
   id : Ids \cup {None}, image : Images \cup {None}, pid : Pids]

Line(k, i, m, p) == [kind |-> k, id |-> i, image |-> m, pid |-> p]

TypeOK ==
  /\ op \in [Callers -> Operations \cup {"none"}]
  /\ arg \in [Callers -> Images \cup {None}]
  /\ out \in [Callers -> Outcomes]
  /\ holder \in Callers \cup {None}
  /\ pc \in {"free", "start", "ready", "write", "reply", "stop", "byeReply",
             "byeWait", "kill", "termWait", "killWait"}
  /\ reqId \in Ids \cup {None}
  /\ err \in Errors \cup {"none"}
  /\ handle \in Pids \cup {None}
  /\ queue \in Seq(Lines)
  /\ reader \in [Pids -> {"none", "attached", "detached"}]
  /\ phase \in [Pids -> {"loading", "idle", "leaving", "dying", "exited"}]
  /\ stdin \in [Pids -> Seq(Requests)]
  /\ stdout \in [Pids -> Seq(Lines)]

Init ==
  /\ op = [c \in Callers |-> "none"]
  /\ arg = [c \in Callers |-> None]
  /\ out = [c \in Callers |-> [kind |-> "none", image |-> None]]
  /\ holder = None
  /\ pc = "free"
  /\ reqId = None
  /\ err = "none"
  /\ handle = None
  /\ queue = <<>>
  /\ reader = [p \in Pids |-> "none"]
  /\ phase = [p \in Pids |-> "exited"]
  /\ stdin = [p \in Pids |-> <<>>]
  /\ stdout = [p \in Pids |-> <<>>]

-----------------------------------------------------------------------------
(* Threads and the lock.                                                   *)

Call(c, o, m) ==
  /\ op[c] = "none"
  /\ op' = [op EXCEPT ![c] = o]
  /\ arg' = [arg EXCEPT ![c] = m]
  /\ out' = [out EXCEPT ![c] = [kind |-> "none", image |-> None]]
  /\ UNCHANGED <<lockVars, workerVars, processVars>>

Acquire(c) ==
  /\ op[c] # "none"
  /\ holder = None
  /\ holder' = c
  /\ pc' = IF op[c] = "infer" THEN "start" ELSE "stop"
  /\ UNCHANGED <<reqId, err, callVars, workerVars, processVars>>

\* The holder's call ends with outcome k and the lock is released.
Return(k, m) ==
  /\ op' = [op EXCEPT ![holder] = "none"]
  /\ out' = [out EXCEPT ![holder] = [kind |-> k, image |-> m]]
  /\ holder' = None
  /\ pc' = "free"
  /\ reqId' = None
  /\ err' = "none"
  /\ arg' = arg

Goto(l) == pc' = l /\ UNCHANGED <<callVars, holder, reqId, err>>

\* An exception e that first terminates the process; stop swallows it ("none").
Fail(e) == pc' = "kill" /\ err' = e /\ UNCHANGED <<callVars, holder, reqId>>

-----------------------------------------------------------------------------
(* The object's process state.                                             *)

Alive(p) == p # None /\ phase[p] # "exited"

Detached ==
  [p \in Pids |-> IF reader[p] = "attached" THEN "detached" ELSE reader[p]]

\* Mutated form: the queue and its reader survive the process.
ClearKeepingQueue == handle' = None /\ UNCHANGED <<queue, reader>>

ClearProcessState == handle' = None /\ queue' = <<>> /\ reader' = Detached

\* start() has a process to offer: infer goes on, restart is done.
AfterStart ==
  IF op[holder] = "infer" THEN Goto("write") ELSE Return("started", None)

\* stop() is over: restart goes on to start().
AfterStop ==
  IF op[holder] = "restart"
  THEN pc' = "start" /\ reqId' = None /\ err' = "none" /\ UNCHANGED <<callVars, holder>>
  ELSE Return("stopped", None)

AfterTerminate == IF err = "none" THEN AfterStop ELSE Return(err, None)

-----------------------------------------------------------------------------
(* start()                                                                 *)

StartRunning ==
  /\ pc = "start"
  /\ Alive(handle)
  /\ AfterStart
  /\ UNCHANGED <<workerVars, processVars>>

PopenFails ==
  /\ pc = "start"
  /\ ~Alive(handle)
  /\ ClearProcessState
  /\ Return("startup", None)
  /\ UNCHANGED processVars

Popen(p) ==
  /\ pc = "start"
  /\ ~Alive(handle)
  /\ phase[p] = "exited" /\ reader[p] = "none"
  /\ handle' = p
  /\ queue' = <<>>
  /\ reader' = [Detached EXCEPT ![p] = "attached"]
  /\ phase' = [phase EXCEPT ![p] = "loading"]
  /\ stdin' = [stdin EXCEPT ![p] = <<>>]
  /\ stdout' = [stdout EXCEPT ![p] = <<>>]
  /\ Goto("ready")

ReadReady ==
  /\ pc = "ready"
  /\ queue # <<>>
  /\ queue' = Tail(queue)
  /\ \/ Head(queue).kind = "ready" /\ AfterStart
     \/ Head(queue).kind = "fatal" /\ Fail("startup")
     \/ Head(queue).kind \notin {"ready", "fatal"} /\ Fail("protocol")
  /\ UNCHANGED <<handle, reader, processVars>>

-----------------------------------------------------------------------------
(* infer()                                                                 *)

\* uuid4: an id that no request or line on its way carries.
Fresh(i) ==
  /\ \A p \in Pids : \A l \in Range(stdin[p]) \cup Range(stdout[p]) : l.id # i
  /\ \A l \in Range(queue) : l.id # i

\* A process that is being killed reads nothing any more.
Send(k, i, m) ==
  /\ reqId' = i
  /\ stdin' = IF phase[handle] = "dying" THEN stdin
              ELSE [stdin EXCEPT ![handle] =
                      Append(@, [kind |-> k, id |-> i, image |-> m])]

WriteRequest ==
  /\ pc = "write"
  /\ Alive(handle)
  /\ \E i \in Ids : Fresh(i) /\ Send("infer", i, arg[holder])
  /\ pc' = "reply"
  /\ UNCHANGED <<callVars, holder, err, workerVars, phase, stdout>>

WriteFails ==
  /\ pc = "write"
  /\ ~Alive(handle)
  /\ Fail("protocol")
  /\ UNCHANGED <<workerVars, processVars>>

\* Mutated form: the response is not compared with the request.
ReadAnyReply ==
  /\ pc = "reply"
  /\ queue # <<>>
  /\ queue' = Tail(queue)
  /\ LET line == Head(queue) IN
       \/ line.kind = "ok" /\ Return("answer", line.image)
       \/ line.kind = "error" /\ Return("remote", None)
       \/ line.kind \notin {"ok", "error"} /\ Fail("protocol")
  /\ UNCHANGED <<handle, reader, processVars>>

ReadReply ==
  /\ pc = "reply"
  /\ queue # <<>>
  /\ queue' = Tail(queue)
  /\ LET line == Head(queue) IN
       \/ line.id = reqId /\ line.kind = "ok" /\ Return("answer", line.image)
       \/ line.id = reqId /\ line.kind = "error" /\ Return("remote", None)
       \/ (line.id # reqId \/ line.kind \notin {"ok", "error"}) /\ Fail("protocol")
  /\ UNCHANGED <<handle, reader, processVars>>

-----------------------------------------------------------------------------
(* stop()                                                                  *)

StopWithoutProcess ==
  /\ pc = "stop"
  /\ ~Alive(handle)
  /\ ClearProcessState
  /\ AfterStop
  /\ UNCHANGED processVars

WriteShutdown ==
  /\ pc = "stop"
  /\ Alive(handle)
  /\ \E i \in Ids : Fresh(i) /\ Send("shutdown", i, None)
  /\ pc' = "byeReply"
  /\ UNCHANGED <<callVars, holder, err, workerVars, phase, stdout>>

ReadBye ==
  /\ pc = "byeReply"
  /\ queue # <<>>
  /\ queue' = Tail(queue)
  /\ IF Head(queue).id = reqId /\ Head(queue).kind = "bye"
     THEN Goto("byeWait")
     ELSE Fail("none")
  /\ UNCHANGED <<handle, reader, processVars>>

\* Mutated form: the exit of the process is not awaited.
ByeWithoutWait ==
  /\ pc = "byeWait"
  /\ ClearProcessState
  /\ AfterStop
  /\ UNCHANGED processVars

ByeWait ==
  /\ pc = "byeWait"
  /\ ~Alive(handle)
  /\ ClearProcessState
  /\ AfterStop
  /\ UNCHANGED processVars

ByeWaitTimeout ==
  /\ pc = "byeWait"
  /\ Alive(handle)
  /\ Fail("none")
  /\ UNCHANGED <<workerVars, processVars>>

-----------------------------------------------------------------------------
(* Timeouts of a read, and _terminate_process().                           *)

\* Mutated form: a response is awaited without a timeout.
ReadTimeoutAtStartupOnly ==
  /\ pc = "ready"
  /\ queue = <<>>
  /\ Fail("timeout")
  /\ UNCHANGED <<workerVars, processVars>>

ReadTimeout ==
  /\ pc \in {"ready", "reply", "byeReply"}
  /\ queue = <<>>
  /\ Fail(IF pc = "byeReply" THEN "none" ELSE "timeout")
  /\ UNCHANGED <<workerVars, processVars>>

Terminate ==
  /\ pc = "kill"
  /\ Alive(handle)
  /\ phase' = [phase EXCEPT ![handle] = "dying"]
  /\ stdin' = [stdin EXCEPT ![handle] = <<>>]
  /\ Goto("termWait")
  /\ UNCHANGED <<workerVars, stdout>>

\* Mutated form: the process state is cleared without waiting for the exit.
TerminatedAtOnce ==
  /\ pc \in {"kill", "termWait", "killWait"}
  /\ ClearProcessState
  /\ AfterTerminate
  /\ UNCHANGED processVars

Terminated ==
  /\ pc \in {"kill", "termWait", "killWait"}
  /\ ~Alive(handle)
  /\ ClearProcessState
  /\ AfterTerminate
  /\ UNCHANGED processVars

TerminateTimeout ==
  /\ pc = "termWait"
  /\ Alive(handle)
  /\ Goto("killWait")
  /\ UNCHANGED <<workerVars, processVars>>

\* subprocess.TimeoutExpired of the wait after kill() escapes, state uncleared.
KillTimeout ==
  /\ pc = "killWait"
  /\ Alive(handle)
  /\ Return("expired", None)
  /\ UNCHANGED <<workerVars, processVars>>

HolderStep ==
  \/ StartRunning \/ PopenFails \/ (\E p \in Pids : Popen(p)) \/ ReadReady
  \/ WriteRequest \/ WriteFails \/ ReadReply
  \/ StopWithoutProcess \/ WriteShutdown \/ ReadBye \/ ByeWait \/ ByeWaitTimeout
  \/ ReadTimeout \/ Terminate \/ Terminated \/ TerminateTimeout \/ KillTimeout

-----------------------------------------------------------------------------
(* The C++ worker process and the reader thread of its stdout.             *)

Emit(p, line) == stdout' = [stdout EXCEPT ![p] = Append(@, line)]

LoadEngine(p) ==
  /\ phase[p] = "loading"
  /\ \/ /\ Emit(p, Line("ready", None, None, p))
        /\ phase' = [phase EXCEPT ![p] = "idle"]
     \/ /\ Emit(p, Line("fatal", None, None, p))
        /\ phase' = [phase EXCEPT ![p] = "leaving"]
  /\ UNCHANGED <<stdin, callVars, lockVars, workerVars>>

Serve(p) ==
  /\ phase[p] = "idle"
  /\ stdin[p] # <<>>
  /\ stdin' = [stdin EXCEPT ![p] = Tail(@)]
  /\ LET r == Head(stdin[p]) IN
       \/ /\ r.kind = "infer"
          /\ \/ Emit(p, Line("ok", r.id, r.image, p))
             \/ Emit(p, Line("error", r.id, None, p))
          /\ phase' = phase
       \/ /\ r.kind = "shutdown"
          /\ Emit(p, Line("bye", r.id, None, p))
          /\ phase' = [phase EXCEPT ![p] = "leaving"]
  /\ UNCHANGED <<callVars, lockVars, workerVars>>

\* A library the process uses prints to the protocol's stream.
Noise(p) ==
  /\ phase[p] \in {"loading", "idle"}
  /\ Len(stdout[p]) + Len(queue) < MaxNoise
  /\ Emit(p, Line("noise", None, None, p))
  /\ UNCHANGED <<phase, stdin, callVars, lockVars, workerVars>>

\* The process returns, crashes, or dies of terminate() or kill().
Exit(p) ==
  /\ phase[p] # "exited"
  /\ phase' = [phase EXCEPT ![p] = "exited"]
  /\ stdin' = [stdin EXCEPT ![p] = <<>>]
  /\ UNCHANGED <<stdout, callVars, lockVars, workerVars>>

ReadStdout(p) ==
  /\ reader[p] # "none"
  /\ stdout[p] # <<>>
  /\ stdout' = [stdout EXCEPT ![p] = Tail(@)]
  /\ queue' = IF reader[p] = "attached" THEN Append(queue, Head(stdout[p])) ELSE queue
  /\ UNCHANGED <<handle, reader, phase, stdin, callVars, lockVars>>

\* End of stream, or the stream was closed under the reader.
ReaderEof(p) ==
  /\ \/ reader[p] = "attached" /\ phase[p] = "exited" /\ stdout[p] = <<>>
     \/ reader[p] = "detached"
  /\ reader' = [reader EXCEPT ![p] = "none"]
  /\ stdout' = [stdout EXCEPT ![p] = <<>>]
  /\ queue' = IF reader[p] = "attached"
              THEN Append(queue, Line("eof", None, None, p)) ELSE queue
  /\ UNCHANGED <<handle, phase, stdin, callVars, lockVars>>

ProcessStep(p) ==
  LoadEngine(p) \/ Serve(p) \/ Noise(p) \/ Exit(p) \/ ReadStdout(p) \/ ReaderEof(p)

-----------------------------------------------------------------------------
Environment ==
  \/ \E c \in Callers, m \in Images : Call(c, "infer", m)
  \/ \E c \in Callers, o \in {"stop", "restart"} : Call(c, o, None)

WorkerNext ==
  \/ \E c \in Callers : Acquire(c)
  \/ HolderStep
  \/ \E p \in Pids : ProcessStep(p)

Next == Environment \/ WorkerNext

\* The thread inside the lock keeps running; nothing is assumed of processes.
Spec == Init /\ [][Next]_vars /\ WF_vars(HolderStep)

-----------------------------------------------------------------------------
(* Properties.                                                             *)

\* An answer that infer returns was computed for the image of that very call,
\* also when late lines of a timed-out request are still on their way.
AnswerMatchesRequest ==
  \A c \in Callers : out[c].kind = "answer" => out[c].image = arg[c]

\* The response queue only holds lines of the process the object handles: what
\* a dead process left in its pipe never reaches the session of the next one.
QueueIsOfHandle ==
  \A l \in Range(queue) : l.pid = handle

\* At most one worker process exists: the one the object handles.
SingleProcess ==
  \A p \in Pids : phase[p] # "exited" => p = handle

\* No request is in the pipe of a process that has not announced "ready".
HandshakeFirst ==
  \A p \in Pids : phase[p] = "loading" => stdin[p] = <<>>

\* A call that failed by timeout, protocol or startup leaves no process behind:
\* the next call starts from scratch.
FailureLeavesNoProcess ==
  [][\A c \in Callers :
       op[c] # "none" /\ op'[c] = "none" /\ out'[c].kind \in Errors
         => \A p \in Pids : phase'[p] = "exited"]_vars

-----------------------------------------------------------------------------
(* The inductive invariant behind the safety properties.                   *)

\* Who holds the lock, for which operation, and that it then has a process.
LockShape ==
  /\ holder = None <=> pc = "free"
  /\ holder # None => op[holder] # "none"
  /\ pc \in {"write", "reply"} => op[holder] = "infer"
  /\ pc \in {"ready", "write", "reply", "byeReply", "byeWait", "kill",
             "termWait", "killWait"} => handle # None

\* A line is traced to the process that wrote it; only the handle's reader feeds
\* the queue.
LinesTraced ==
  /\ \A p \in Pids : reader[p] = "attached" => p = handle
  /\ \A p \in Pids : \A l \in Range(stdout[p]) : l.pid = p

\* While a process loads, nobody has written to it and it has not said "ready".
LoadingUnanswered ==
  \A p \in Pids : phase[p] = "loading" =>
    /\ stdin[p] = <<>>
    /\ pc \in {"ready", "kill"}
    /\ \A l \in Range(stdout[p]) \cup Range(queue) : l.kind # "ready"

\* Whatever carries the id that is waited for belongs to the waiting call.
ReplyPending ==
  pc = "reply" =>
    /\ \A p \in Pids : \A r \in Range(stdin[p]) :
         r.id = reqId => r.image = arg[holder]
    /\ \A p \in Pids : \A l \in Range(stdout[p]) :
         l.id = reqId /\ l.kind = "ok" => l.image = arg[holder]
    /\ \A l \in Range(queue) :
         l.id = reqId /\ l.kind = "ok" => l.image = arg[holder]

SafetyInv ==
  /\ TypeOK /\ LockShape
  /\ SingleProcess /\ LinesTraced /\ QueueIsOfHandle
  /\ LoadingUnanswered
  /\ ReplyPending /\ AnswerMatchesRequest
=============================================================================
