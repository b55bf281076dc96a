----------------------------- MODULE StatusCheck -----------------------------
(***************************************************************************)
(* The system status view: reload() checks Ollama in a thread of its own,  *)
(* whose signals are queued to the main thread.  Closing the window waits  *)
(* a while for the check.                                                  *)
(*                                                                         *)
(* A worker lives in its thread, so that `started` calls its run directly, *)
(* before the thread's event loop; the quit and the clean-up are queued.   *)
(***************************************************************************)
EXTENDS Naturals, Sequences, SequencesExt, FiniteSets

CONSTANTS
    MaxChecks   \* bound: the threads ever made

ASSUME ChecksAreCounted == MaxChecks \in Nat \ {0}

Checks == 1 .. MaxChecks

VARIABLES
    phase,     \* of each thread
    worker,    \* the threads whose worker object exists
    told,      \* the threads that were told to quit
    ref,       \* _vlm_thread and _vlm_worker, 0 for None
    events,    \* the queue of the main thread
    card,      \* what the VLM card shows
    window,    \* "open", "waiting" in stop_vlm_status_check, or "closed"
    orphans    \* the threads that lost their reference before they ended

statusVars == <<phase, worker, told, ref, events, card, window, orphans>>

\* What the server does with GET /api/tags, as far as the check tells it apart.
Answers == {"http error", "timeout", "unreachable", "socket error", "broken",
            "not 2xx", "no JSON", "no models", "other models", "installed"}

States == {"connected", "response error", "no model", "no connection"}

StatusInit ==
    /\ phase = [t \in Checks |-> "unused"]
    /\ worker = {} /\ told = {} /\ ref = 0
    /\ events = <<>>
    /\ card = "checking" /\ window = "open"
    /\ orphans = {}

IsRunning(t) == phase[t] \in {"starting", "running", "looping"}

-----------------------------------------------------------------------------
(* The thread of a check. *)

\* check_status and the handler of the worker: "broken", an exception that the
\* service does not expect, is caught there.
CheckStatus(answer) ==
    CASE answer \in {"http error", "not 2xx", "no JSON", "no models"} -> "response error"
      [] answer \in {"timeout", "unreachable", "socket error", "broken"} -> "no connection"
      [] answer = "other models" -> "no model"
      [] OTHER -> "connected"

\* `started`: it reaches the worker if there still is one.
Started(t) ==
    /\ phase[t] = "starting"
    /\ phase' = [phase EXCEPT ![t] = IF t \in worker THEN "running" ELSE "looping"]
    /\ UNCHANGED <<worker, told, ref, events, card, window, orphans>>

\* What `finished` of the worker queues.
Emitted(t, answer) ==
    <<[kind |-> "status", of |-> t, state |-> CheckStatus(answer)],
      [kind |-> "quit", of |-> t, state |-> ""]>>

\* `finished` is connected to the worker's deleteLater.
WorkerGone(t) == worker \ {t}

\* run returns.
RunEnds(t) ==
    /\ phase[t] = "running"
    /\ \E answer \in Answers : events' = events \o Emitted(t, answer)
    /\ phase' = [phase EXCEPT ![t] = "looping"]
    /\ worker' = WorkerGone(t)
    /\ UNCHANGED <<told, ref, card, window, orphans>>

\* The event loop of the thread is left, or not entered.
ThreadEnds(t) ==
    /\ phase[t] = "looping" /\ t \in told
    /\ phase' = [phase EXCEPT ![t] = "ended"]
    /\ events' = Append(events, [kind |-> "clear", of |-> t, state |-> ""])
    /\ UNCHANGED <<worker, told, ref, card, window, orphans>>

-----------------------------------------------------------------------------
(* The main thread. *)

\* Mutated form of CheckRunning: a check that was told to quit is over.
CheckRunningUntold == ref # 0 /\ IsRunning(ref) /\ ref \notin told

CheckRunning == ref # 0 /\ IsRunning(ref)

\* reload: the card says that a check is under way; if one is running, it is left
\* to answer.
Reload ==
    /\ window = "open"
    /\ card' = "checking"
    /\ IF CheckRunning
       THEN UNCHANGED <<phase, worker, ref>>
       ELSE \E t \in Checks :
                /\ phase[t] = "unused" /\ \A s \in 1 .. t - 1 : phase[s] # "unused"
                /\ phase' = [phase EXCEPT ![t] = "starting"]
                /\ worker' = worker \cup {t}
                /\ ref' = t
    /\ UNCHANGED <<told, events, window, orphans>>

\* _clear_vlm_worker_refs, whichever thread ended: a worker that has not begun
\* to run is destroyed with its reference.
ClearRefs ==
    /\ worker' = IF ref # 0 /\ phase[ref] = "starting" THEN worker \ {ref} ELSE worker
    /\ orphans' = IF CheckRunning THEN orphans \cup {ref} ELSE orphans
    /\ ref' = 0

\* _on_vlm_status_finished
OnStatus(event) == card' = event.state

\* Mutated form of Quit: only the thread that the view knows is told to quit.
QuitRef(t) == told' = IF t = ref THEN told \cup {t} ELSE told

Quit(t) == told' = told \cup {t}

\* The next event of the queue: none while the window waits, and what is queued
\* when it is closed does not matter.
HandleEvent ==
    /\ window = "open" /\ events # <<>>
    /\ LET event == Head(events)
       IN  \/ event.kind = "status" /\ OnStatus(event)
              /\ UNCHANGED <<told, worker, ref, orphans>>
           \/ event.kind = "quit" /\ Quit(event.of)
              /\ UNCHANGED <<card, worker, ref, orphans>>
           \/ event.kind = "clear" /\ ClearRefs
              /\ UNCHANGED <<card, told>>
    /\ events' = Tail(events)
    /\ UNCHANGED <<phase, window>>

\* stop_vlm_status_check: quit, then wait(3000).
StopAsked == IF CheckRunning THEN window' = "waiting" /\ told' = told \cup {ref}
                             ELSE window' = "closed" /\ UNCHANGED told

\* MainWindow.closeEvent, when no inspection or description runs.
CloseWindow ==
    /\ window = "open"
    /\ StopAsked
    /\ UNCHANGED <<phase, worker, ref, events, card, orphans>>

\* wait returns since the thread has ended; the rest of its signals is queued.
WaitSucceeds ==
    /\ window = "waiting" /\ ~CheckRunning
    /\ window' = "closed"
    /\ UNCHANGED <<phase, worker, told, ref, events, card, orphans>>

\* Mutated form of AfterTimeout: the window closes although the wait timed out.
AfterTimeoutClosed == "closed"

\* A message, and the window stays.
AfterTimeout == "open"

WaitTimeout ==
    /\ window = "waiting" /\ CheckRunning
    /\ window' = AfterTimeout
    /\ UNCHANGED <<phase, worker, told, ref, events, card, orphans>>

Thread(t) == Started(t) \/ RunEnds(t) \/ ThreadEnds(t)

StatusNext ==
    \/ \E t \in Checks : Thread(t)
    \/ Reload \/ HandleEvent \/ CloseWindow \/ WaitSucceeds \/ WaitTimeout

\* The system runs every thread, a request ends by its own time-out, and the
\* main thread goes on with its queue and returns from wait.
Fairness ==
    /\ \A t \in Checks : WF_statusVars(Thread(t))
    /\ WF_statusVars(HandleEvent)
    /\ WF_statusVars(WaitSucceeds \/ WaitTimeout)

StatusSpec == StatusInit /\ [][StatusNext]_statusVars /\ Fairness

-----------------------------------------------------------------------------
(* Properties *)

Events == [kind : {"status"}, of : Checks, state : States]
          \cup [kind : {"quit", "clear"}, of : Checks, state : {""}]

\* The view's state has its types; a worker is a check that has not reported.
StatusTypeOK ==
    /\ phase \in [Checks -> {"unused", "starting", "running", "looping", "ended"}]
    /\ worker \subseteq {t \in Checks : phase[t] \in {"starting", "running"}}
    /\ told \subseteq Checks /\ orphans \subseteq Checks
    /\ ref \in {0} \cup Checks
    /\ events \in Seq(Events)
    /\ card \in States \cup {"checking"}
    /\ window \in {"open", "waiting", "closed"}

Underway == {t \in Checks : IsRunning(t)}

\* Every thread that runs is the one that the view knows, or was forgotten.
KnownOrForgotten == Underway \subseteq orphans \cup {ref}

\* However often the view is reloaded and closed, one check runs at a time, save
\* for checks that the clean-up of an earlier one made the view forget.
OneCheckAtATime == Cardinality(Underway \ orphans) <= 1

\* closeEvent: the window is closed only when no thread of the view runs any
\* more, save for those that it forgot.
ClosedIsQuiet == window = "closed" => Underway \subseteq orphans

\* A check that has not been shown is shown: the card stops saying "checking",
\* also after a refused close, unless the window was closed or the check was
\* destroyed unstarted.  (A reload that meets a thread on its way out, its result
\* already shown, says "checking" until the next reload.)
CardSettles ==
    (/\ card = "checking"
     /\ worker # {} \/ \E k \in DOMAIN events : events[k].kind = "status") ~>
        \/ card # "checking"
        \/ window = "closed"
        \/ \E t \in orphans : phase[t] = "looping"

\* The thread of every check that has run ends by the quit of its own worker or
\* of a close, also when the view has forgotten it: a refused close may be tried
\* again.
EveryCheckEnds ==
    \A t \in Checks : phase[t] = "running" ~> phase[t] = "ended" \/ window = "closed"

\* The checks belong to the view, one at a time.
ChecksAreOwned == StatusTypeOK /\ OneCheckAtATime

\* Every check is shown, and ends.
ChecksSettle == CardSettles /\ EveryCheckEnds
=============================================================================
