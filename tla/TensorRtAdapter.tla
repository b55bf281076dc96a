-------------------------- MODULE TensorRtAdapter --------------------------
(***************************************************************************)
(* TensorRtDetectorAdapter (service/tensorrt_detector_adapter.py) on top   *)
(* of the persistent worker: one detect call tries the worker, then, when  *)
(* the worker failed, one process per request.  The adapter also closes    *)
(* the worker; InspectionViewModel does so only while no inspection runs,  *)
(* which is the guard of Close.  Temporary output directories are local to *)
(* a call and always removed; they are left out.                           *)
(***************************************************************************)
EXTENDS TensorRtWorker

CONSTANTS
  UsePersistent,      \* use_persistent_worker
  FallbackToOneshot   \* fallback_to_oneshot

ASSUME FlagsAreBoolean == UsePersistent \in BOOLEAN /\ FallbackToOneshot \in BOOLEAN

VARIABLES
  stage,     \* stage[c]: where the adapter call of thread c is
  image,     \* image[c]: the image of that detect call
  result,    \* result[c]: how the latest detect call ended
  orphans    \* processes that were alive when close() dropped their object

adapterVars == <<stage, image, result, orphans>>
allVars == <<vars, adapterVars>>

NoResult == [kind |-> "none", image |-> None]
Raised == [kind |-> "raised", image |-> None]
Detections(m) == [kind |-> "result", image |-> m]

AdapterTypeOK ==
  /\ TypeOK
  /\ stage \in [Callers -> {"idle", "resolve", "persistent", "oneshot", "closing"}]
  /\ image \in [Callers -> Images \cup {None}]
  /\ result \in [Callers -> [kind : {"none", "raised", "result"}, image : Images \cup {None}]]
  /\ orphans \subseteq Pids

AdapterInit ==
  /\ Init
  /\ stage = [c \in Callers |-> "idle"]
  /\ image = [c \in Callers |-> None]
  /\ result = [c \in Callers |-> NoResult]
  /\ orphans = {}

End(c, r) ==
  /\ stage' = [stage EXCEPT ![c] = "idle"]
  /\ result' = [result EXCEPT ![c] = r]
  /\ UNCHANGED <<image, orphans>>

Stage(c, s) ==
  /\ stage' = [stage EXCEPT ![c] = s]
  /\ UNCHANGED <<image, result, orphans>>

Detect(c, m) ==
  /\ stage[c] = "idle"
  /\ \A d \in Callers : stage[d] # "closing"
  /\ stage' = [stage EXCEPT ![c] = "resolve"]
  /\ image' = [image EXCEPT ![c] = m]
  /\ result' = [result EXCEPT ![c] = NoResult]
  /\ UNCHANGED <<orphans, vars>>

ImageMissing(c) ==
  /\ stage[c] = "resolve"
  /\ End(c, Raised)
  /\ UNCHANGED vars

TryWorker(c) ==
  /\ stage[c] = "resolve"
  /\ IF UsePersistent
     THEN Stage(c, "persistent") /\ Call(c, "infer", image[c])
     ELSE Stage(c, "oneshot") /\ UNCHANGED vars

WorkerAnswers(c) ==
  /\ stage[c] = "persistent" /\ op[c] = "none"
  /\ out[c].kind = "answer"
  /\ \/ End(c, Detections(out[c].image))
     \/ End(c, Raised)                        \* TensorRtResultParseError
  /\ UNCHANGED vars

\* A request error is the caller's; TimeoutExpired is not a worker error.
WorkerRejects(c) ==
  /\ stage[c] = "persistent" /\ op[c] = "none"
  /\ out[c].kind \in {"remote", "expired"}
  /\ End(c, Raised)
  /\ UNCHANGED vars

WorkerFails(c) ==
  /\ stage[c] = "persistent" /\ op[c] = "none"
  /\ out[c].kind \in Errors
  /\ IF FallbackToOneshot THEN Stage(c, "oneshot") ELSE End(c, Raised)
  /\ UNCHANGED vars

\* subprocess.run ends, by itself or at its timeout.
OneshotEnds(c) ==
  /\ stage[c] = "oneshot"
  /\ End(c, Detections(image[c])) \/ End(c, Raised)
  /\ UNCHANGED vars

Close(c) ==
  /\ \A d \in Callers : stage[d] = "idle"
  /\ Stage(c, "closing")
  /\ Call(c, "stop", None)

\* The object is dropped whether or not stop() raised.
Closed(c) ==
  /\ stage[c] = "closing" /\ op[c] = "none"
  /\ orphans' = orphans \cup {p \in Pids : p = handle /\ Alive(p)}
  /\ ClearProcessState
  /\ stage' = [stage EXCEPT ![c] = "idle"]
  /\ UNCHANGED <<image, result, callVars, lockVars, processVars>>

AdapterStep(c) ==
  \/ ImageMissing(c) \/ TryWorker(c) \/ WorkerAnswers(c) \/ WorkerRejects(c)
  \/ WorkerFails(c) \/ OneshotEnds(c) \/ Closed(c)

AdapterNext ==
  \/ \E c \in Callers : (\E m \in Images : Detect(c, m)) \/ AdapterStep(c) \/ Close(c)
  \/ WorkerNext /\ UNCHANGED adapterVars

AdapterSpec ==
  /\ AdapterInit
  /\ [][AdapterNext]_allVars
  /\ WF_allVars(HolderStep /\ UNCHANGED adapterVars)
  /\ \A c \in Callers :
       /\ WF_allVars(AdapterStep(c))
       /\ SF_allVars(Acquire(c) /\ UNCHANGED adapterVars)

-----------------------------------------------------------------------------
(* Properties.                                                             *)

Promise ==
  INSTANCE DetectorCalls WITH
    pending <- [c \in Callers |->
                  IF stage[c] \in {"resolve", "persistent", "oneshot"}
                  THEN image[c] ELSE None],
    reply <- result

\* Through time-outs, restarts, late lines and fallbacks, every detect call ends
\* with the result of its own image or an exception.
KeepsPromise == Promise!Spec

\* A one-shot process never competes with a worker process for the GPU: when the
\* fallback runs, the failed worker is gone (orphans of a failed close excepted).
OneshotRunsAlone ==
  \A c \in Callers :
    stage[c] = "oneshot" => \A p \in Pids \ orphans : phase[p] = "exited"

\* The adapter's types, and the exclusion of its two ways to infer.
AdapterInv == AdapterTypeOK /\ OneshotRunsAlone

\* A close() that returns normally leaves no worker process behind.
CloseLeavesNoProcess ==
  [][\A c \in Callers :
       stage[c] = "closing" /\ stage'[c] = "idle" /\ out[c].kind = "stopped"
         => \A p \in Pids \ orphans : phase[p] = "exited"]_allVars

=============================================================================
