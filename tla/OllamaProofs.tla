---------------------------- MODULE OllamaProofs ----------------------------
(***************************************************************************)
(* The two components that speak to the Ollama server: the status check of *)
(* the status view, and the calls of VlmService.describe_defects.          *)
(*                                                                         *)
(* For any number of checks, no two run at once and the window closes over *)
(* none.  For every set of texts, every number of detections and every     *)
(* number of retries, no call leaves the model loaded, the record left by  *)
(* a call tells of that call, and a text is accepted exactly if it         *)
(* conforms.                                                               *)
(***************************************************************************)
EXTENDS StatusCheck, VlmGeneration, FiniteSetTheorems, WellFoundedInduction, TLAPS

\* The status check: the invariant says who knows of the threads that run; with it
\* closing the window, which asks for one thread only, is seen to be enough.
CheckInv == StatusTypeOK /\ KnownOrForgotten /\ ClosedIsQuiet

LEMMA EventsGrow ==
  ASSUME NEW S, NEW s \in Seq(S), NEW e \in S
  PROVE  Append(s, e) \in Seq(S)
  OBVIOUS

LEMMA PairsAreSequences ==
  ASSUME NEW S, NEW a \in S, NEW b \in S
  PROVE  <<a, b>> \in Seq(S)
  OBVIOUS

\* Whatever the server does, the card has something to show.
LEMMA AnswersHaveStates ==
  ASSUME NEW answer \in Answers
  PROVE  CheckStatus(answer) \in States
  BY DEF Answers, States, CheckStatus

LEMMA EmittedAreEvents ==
  ASSUME NEW t \in Checks, NEW answer \in Answers
  PROVE  Emitted(t, answer) \in Seq(Events)
  <1>1. /\ [kind |-> "status", of |-> t, state |-> CheckStatus(answer)] \in Events
        /\ [kind |-> "quit", of |-> t, state |-> ""] \in Events
    BY AnswersHaveStates DEF Events
  <1>. QED
    BY <1>1, PairsAreSequences, Zenon DEF Emitted

\* The steps of a thread start none and leave the view alone.
LEMMA ThreadKeepsInv ==
  ASSUME CheckInv, NEW t \in Checks, Thread(t)
  PROVE  CheckInv'
  <1>. USE DEF CheckInv, StatusTypeOK, KnownOrForgotten, ClosedIsQuiet, Underway, IsRunning
  <1>1. CASE Started(t)
    BY <1>1 DEF Started
  <1>2. CASE RunEnds(t)
    <2>1. events' \in Seq(Events)
      BY <1>2, EmittedAreEvents DEF RunEnds
    <2>. QED
      BY <1>2, <2>1 DEF RunEnds, WorkerGone
  <1>3. CASE ThreadEnds(t)
    <2>1. [kind |-> "clear", of |-> t, state |-> ""] \in Events
      BY DEF Events
    <2>2. events' \in Seq(Events)
      BY <1>3, <2>1, EventsGrow, Zenon DEF ThreadEnds
    <2>. QED
      BY <1>3, <2>2 DEF ThreadEnds
  <1>. QED
    BY <1>1, <1>2, <1>3 DEF Thread

\* A reload starts a check only if the one that the view knows has ended.
LEMMA ReloadKeepsInv ==
  ASSUME CheckInv, Reload
  PROVE  CheckInv'
  <1>. USE DEF CheckInv, StatusTypeOK, KnownOrForgotten, ClosedIsQuiet, Underway, IsRunning
  <1>1. CASE CheckRunning
    BY <1>1 DEF Reload
  <1>2. CASE ~CheckRunning
    <2>1. PICK t \in Checks :
              /\ phase[t] = "unused" /\ ref' = t
              /\ phase' = [phase EXCEPT ![t] = "starting"]
              /\ worker' = worker \cup {t}
      BY <1>2 DEF Reload
    <2>2. Underway \subseteq orphans
      BY <1>2, ChecksAreCounted DEF CheckRunning, Checks
    <2>. QED
      BY <2>1, <2>2 DEF Reload
  <1>. QED
    BY <1>1, <1>2

\* The clean-up forgets a thread that runs, and never without a trace.
LEMMA EventKeepsInv ==
  ASSUME CheckInv, HandleEvent
  PROVE  CheckInv'
  <1>. USE DEF CheckInv, StatusTypeOK, KnownOrForgotten, ClosedIsQuiet, Underway, IsRunning
  <1>. DEFINE event == Head(events)
  <1>1. event \in Events /\ events' \in Seq(Events) /\ phase' = phase /\ window' = "open"
    BY DEF HandleEvent
  <1>2. CASE event.kind = "status" /\ OnStatus(event) /\ UNCHANGED <<told, worker, ref, orphans>>
    <2>1. event.state \in States
      BY <1>1, <1>2 DEF Events
    <2>. QED
      BY <1>1, <1>2, <2>1 DEF OnStatus
  <1>3. CASE event.kind = "quit" /\ Quit(event.of) /\ UNCHANGED <<card, worker, ref, orphans>>
    <2>1. event.of \in Checks
      BY <1>1 DEF Events
    <2>. QED
      BY <1>1, <1>3, <2>1 DEF Quit
  <1>4. CASE event.kind = "clear" /\ ClearRefs /\ UNCHANGED <<card, told>>
    BY <1>1, <1>4 DEF ClearRefs, CheckRunning
  <1>. QED
    BY <1>2, <1>3, <1>4 DEF HandleEvent

\* The window closes only when the thread that the view knows does not run.
LEMMA CloseKeepsInv ==
  ASSUME CheckInv, CloseWindow \/ WaitSucceeds \/ WaitTimeout
  PROVE  CheckInv'
  <1>. USE DEF CheckInv, StatusTypeOK, KnownOrForgotten, ClosedIsQuiet, Underway, IsRunning
  <1>1. ~CheckRunning => Underway \subseteq orphans
    BY ChecksAreCounted DEF CheckRunning, Checks
  <1>2. CASE CloseWindow
    BY <1>1, <1>2 DEF CloseWindow, StopAsked, CheckRunning
  <1>3. CASE WaitSucceeds
    BY <1>1, <1>3 DEF WaitSucceeds
  <1>4. CASE WaitTimeout
    BY <1>4 DEF WaitTimeout, AfterTimeout
  <1>. QED
    BY <1>2, <1>3, <1>4

THEOREM CheckInvariant == StatusSpec => []CheckInv
  <1>1. StatusInit => CheckInv
    BY DEF StatusInit, CheckInv, StatusTypeOK, KnownOrForgotten, ClosedIsQuiet, Underway, IsRunning,
           Events
  <1>2. CheckInv /\ [StatusNext]_statusVars => CheckInv'
    <2>. SUFFICES ASSUME CheckInv, [StatusNext]_statusVars PROVE CheckInv'
      OBVIOUS
    <2>1. CASE UNCHANGED statusVars
      BY <2>1 DEF statusVars, CheckInv, StatusTypeOK, KnownOrForgotten, ClosedIsQuiet, Underway,
                  IsRunning
    <2>. QED
      BY <2>1, ThreadKeepsInv, ReloadKeepsInv, EventKeepsInv, CloseKeepsInv DEF StatusNext
  <1>. QED
    BY <1>1, <1>2, PTL DEF StatusSpec

\* However often the view is reloaded, closed in vain and reloaded again, no two
\* checks run at once, except for those that a late clean-up made it forget.
THEOREM OneCheckRuns == StatusSpec => []ChecksAreOwned
  <1>1. CheckInv => ChecksAreOwned
    <2>. SUFFICES ASSUME CheckInv PROVE ChecksAreOwned
      OBVIOUS
    <2>1. Underway \ orphans \subseteq {ref}
      BY DEF CheckInv, KnownOrForgotten
    <2>2. IsFiniteSet({ref}) /\ Cardinality({ref}) = 1
      BY FS_Singleton
    <2>3. /\ IsFiniteSet(Underway \ orphans)
          /\ Cardinality(Underway \ orphans) <= Cardinality({ref})
      BY <2>1, <2>2, FS_Subset
    <2>. QED
      BY <2>2, <2>3 DEF CheckInv, ChecksAreOwned, OneCheckAtATime
  <1>. QED
    BY <1>1, CheckInvariant, PTL

\* When the window is closed no thread of the view runs but those it forgot
\* (closeEvent, stop_vlm_status_check).
THEOREM CloseIsFinal == StatusSpec => []ClosedIsQuiet
  <1>1. CheckInv => ClosedIsQuiet
    BY DEF CheckInv
  <1>. QED
    BY <1>1, CheckInvariant, PTL

-----------------------------------------------------------------------------
\* The calls of describe_defects.
Working == pc \in {"request", "recover", "rebuild"}

\* While a call works, every request but the one of this attempt has failed and
\* has its reason; no text has been accepted.
AttemptsCounted ==
    /\ Working =>
          /\ last.success = FALSE
          /\ last.raw \in 0 .. Len(requests)
          /\ Len(last.reasons) = Len(requests)
          /\ last.retries = attempt
    /\ pc = "request" => Len(requests) = attempt
    /\ pc \in {"recover", "rebuild"} => Len(requests) = attempt + 1 /\ attempt < MaxRetries

\* How a call may be over, unloading apart: with the model's own text, with the
\* fallback text, or with no text.
OwnTextTold ==
    /\ result.kind = "text" /\ result.own = TRUE /\ result.from = Len(requests)
    /\ last.success = TRUE /\ last.fallback = FALSE /\ last.parse = "success"
    /\ last.raw = Len(requests) /\ last.raw # 0
    /\ Len(last.reasons) = Len(requests) - 1 /\ last.retries = Len(requests) - 1

FallbackTold ==
    /\ result.kind = "text" /\ result.own = FALSE
    /\ last.success = FALSE /\ last.fallback = TRUE
    /\ \/ last.raw = 0 /\ last.parse = "not_attempted"
       \/ last.raw = Len(requests) /\ last.raw # 0 /\ last.parse = "failed"
    /\ Len(last.reasons) = Len(requests) /\ last.retries = Len(requests) - 1

NoTextTold ==
    /\ result.kind # "text" /\ result.own = FALSE
    /\ last.success = FALSE /\ last.raw \in 0 .. Len(requests)

Over == OwnTextTold \/ FallbackTold \/ NoTextTold

InfoOf(size) ==
    IF size = "small" THEN [size |-> "small", recovery |-> TRUE]
                      ELSE [size |-> "normal", recovery |-> FALSE]

\* The images at hand are the ones the info describes and the last ones sent.
ImagesTold ==
    pc # "idle" =>
        /\ prep = InfoOf(images)
        /\ pc = "rebuild" => images = "normal"
        /\ \A k \in DOMAIN requests : requests[k] = "small" => images = "small"
        /\ \A j, k \in DOMAIN requests :
              j < k /\ requests[j] = "small" => requests[k] = "small"
        /\ pc # "request" => requests # <<>> /\ requests[Len(requests)] = images

GenerationInv ==
    /\ GenerationTypeOK
    /\ UnloadedAtRest
    /\ AttemptsCounted
    /\ pc \in {"finally", "idle"} => Over
    /\ ImagesTold

-----------------------------------------------------------------------------
\* What Append does to a sequence.
LEMMA AppendFacts ==
    ASSUME NEW S, NEW s \in Seq(S), NEW e \in S
    PROVE  /\ Append(s, e) \in Seq(S)
           /\ Len(Append(s, e)) = Len(s) + 1
           /\ DOMAIN Append(s, e) = 1 .. Len(s) + 1
           /\ Append(s, e)[Len(s) + 1] = e
           /\ \A k \in DOMAIN s : Append(s, e)[k] = s[k]
           /\ DOMAIN s = 1 .. Len(s) /\ Len(s) \in Nat
    OBVIOUS

\* A request is counted, is of the images at hand, and is not the smaller ones'
\* unless those are at hand.
LEMMA SendCounts ==
    ASSUME GenerationInv, pc = "request", Send, images' = images
    PROVE  /\ requests' \in Seq(Sizes) /\ Len(requests') = attempt + 1
           /\ attempt \in 0 .. MaxRetries
           /\ requests' # <<>> /\ requests'[Len(requests')] = images
           /\ \A k \in DOMAIN requests' : requests'[k] = "small" => images = "small"
           /\ \A j, k \in DOMAIN requests' :
                 j < k /\ requests'[j] = "small" => requests'[k] = "small"
    <1>1. images \in Sizes /\ requests \in Seq(Sizes) /\ Len(requests) = attempt
          /\ requests' = Append(requests, images) /\ attempt \in 0 .. MaxRetries
        BY DEF GenerationInv, GenerationTypeOK, AttemptsCounted, Send
    <1>2. /\ requests' \in Seq(Sizes) /\ Len(requests') = attempt + 1
          /\ DOMAIN requests' = 1 .. attempt + 1 /\ DOMAIN requests = 1 .. attempt
          /\ requests'[attempt + 1] = images
          /\ \A k \in DOMAIN requests : requests'[k] = requests[k]
        BY <1>1, AppendFacts
    <1>3. /\ \A k \in DOMAIN requests : requests[k] = "small" => images = "small"
          /\ \A j, k \in DOMAIN requests :
                j < k /\ requests[j] = "small" => requests[k] = "small"
        BY DEF GenerationInv, ImagesTold
    <1>4. attempt \in Nat
        BY <1>1, RetriesAreCounted
    <1>5. \A k \in DOMAIN requests' : k = attempt + 1 \/ k \in DOMAIN requests
        BY <1>2, <1>4
    <1>6. \A j, k \in DOMAIN requests' : j < k => j \in DOMAIN requests
        BY <1>2, <1>4
    <1>7. requests' # <<>>
        BY <1>2, <1>4
    <1>8. QED
        BY <1>1, <1>2, <1>3, <1>5, <1>6, <1>7

\* With the images sent, the info still tells of them.
LEMMA SendKeepsImages ==
    ASSUME GenerationInv, pc = "request", Send, UNCHANGED <<images, prep>>,
           pc' \in {"request", "recover", "finally"}
    PROVE  ImagesTold'
    BY SendCounts DEF GenerationInv, ImagesTold

LEMMA NotRunIsRecord == NotRun \in Records
    BY RetriesAreCounted DEF NotRun, Records

LEMMA InitInv == Init => GenerationInv
    <1> SUFFICES ASSUME Init PROVE GenerationInv
        OBVIOUS
    <1>1. last \in Records /\ last.success = FALSE /\ last.raw = 0
        BY NotRunIsRecord DEF Init, NotRun
    <1>2. requests = <<>> /\ requests \in Seq(Sizes) /\ Len(requests) = 0
        BY DEF Init
    <1>3. result = [kind |-> "nothing", own |-> FALSE, from |-> 0]
        BY DEF Init, Nothing
    <1>4. GenerationTypeOK
        <2>1. requests \in Seq(Sizes) /\ Len(requests) <= MaxRetries + 1 /\ last \in Records
            BY <1>1, <1>2, RetriesAreCounted
        <2>2. /\ pc = "idle" /\ attempt = 0 /\ images = "normal" /\ used = FALSE
              /\ prep = None
            BY DEF Init
        <2>3. attempt \in 0 .. MaxRetries
            BY <2>2, RetriesAreCounted
        <2>4. result \in [kind : {"text", "nothing", "images", "parser"}, own : BOOLEAN, from : Nat]
            BY <1>3
        <2>5. QED
            BY <2>1, <2>2, <2>3, <2>4 DEF GenerationTypeOK, Places, Sizes
    <1>5. Over
        BY <1>1, <1>2, <1>3 DEF Over, NoTextTold
    <1>6. QED
        BY <1>4, <1>5
        DEF Init, GenerationInv, UnloadedAtRest, AttemptsCounted, Working, ImagesTold

\* A call begins with nothing sent and nothing recorded, or is over at once.
LEMMA CallKeeps == GenerationInv /\ Call => GenerationInv'
    <1> SUFFICES ASSUME GenerationInv, Call PROVE GenerationInv'
        OBVIOUS
    <1>1. /\ last' \in Records /\ last'.success = FALSE /\ last'.raw = 0
          /\ last'.retries = 0 /\ last'.reasons = <<>>
        BY NotRunIsRecord DEF Call, NotRun
    <1>2. requests' = <<>> /\ requests' \in Seq(Sizes) /\ Len(requests') = 0
        BY DEF Call
    <1>3. /\ pc = "idle" /\ attempt' = 0 /\ images' = "normal" /\ used' = used
          /\ \/ /\ result' \in {[kind |-> "nothing", own |-> FALSE, from |-> 0],
                                [kind |-> "images", own |-> FALSE, from |-> 0]}
                /\ prep' = None /\ pc' = "idle"
             \/ /\ prep' = [size |-> "normal", recovery |-> FALSE] /\ pc' = "request"
                /\ result' = result
        BY DEF Call, Nothing, Raised
    <1>4. GenerationTypeOK'
        <2>1. /\ requests' \in Seq(Sizes) /\ Len(requests') <= MaxRetries + 1
              /\ last' \in Records
            BY <1>1, <1>2, RetriesAreCounted
        <2>2. /\ used \in BOOLEAN /\ result \in [kind : {"text", "nothing", "images", "parser"},
                                               own : BOOLEAN, from : Nat]
            BY DEF GenerationInv, GenerationTypeOK
        <2>3. attempt' \in 0 .. MaxRetries
            BY <1>3, RetriesAreCounted
        <2>4. result' \in [kind : {"text", "nothing", "images", "parser"}, own : BOOLEAN, from : Nat]
            <3>1. CASE result' = result
                BY <2>2, <3>1
            <3>2. CASE result' = [kind |-> "nothing", own |-> FALSE, from |-> 0]
                BY <3>2
            <3>3. CASE result' = [kind |-> "images", own |-> FALSE, from |-> 0]
                BY <3>3
            <3>4. QED
                BY <1>3, <3>1, <3>2, <3>3
        <2>5. prep' \in [size : Sizes, recovery : BOOLEAN] \cup {None}
            <3>1. CASE prep' = [size |-> "normal", recovery |-> FALSE]
                BY <3>1 DEF Sizes
            <3>2. QED
                BY <1>3, <3>1
        <2>6. QED
            BY <1>3, <2>1, <2>2, <2>3, <2>4, <2>5 DEF GenerationTypeOK, Places, Sizes
    <1>5. pc' = "idle" => Over'
        BY <1>1, <1>2, <1>3 DEF Over, NoTextTold
    <1>6. ImagesTold'
        <2>1. DOMAIN requests' = {}
            BY <1>2
        <2>2. QED
            BY <1>3, <2>1 DEF ImagesTold, InfoOf
    <1>7. AttemptsCounted' /\ UnloadedAtRest'
        BY <1>1, <1>2, <1>3 DEF GenerationInv, AttemptsCounted, Working, UnloadedAtRest
    <1>8. QED
        BY <1>3, <1>4, <1>5, <1>6, <1>7 DEF GenerationInv

\* A round that ends without a text or an exception begins the next one.
LEMMA NextAttemptKeeps ==
    ASSUME NEW record \in Records, attempt \in 0 .. MaxRetries, RetriesLeft,
           NextAttempt(record)
    PROVE  /\ attempt' = attempt + 1 /\ attempt' \in 0 .. MaxRetries
           /\ last' \in Records /\ last'.retries = attempt'
           /\ last'.success = record.success /\ last'.raw = record.raw
           /\ last'.reasons = record.reasons
    <1>1. attempt' = attempt + 1 /\ attempt' \in 0 .. MaxRetries
        BY RetriesAreCounted DEF NextAttempt, RetriesLeft
    <1>2. last' = [record EXCEPT !.status = "retrying", !.retries = attempt']
        BY <1>1 DEF NextAttempt
    <1>3. last' \in Records
        BY <1>1, <1>2 DEF Records
    <1>4. QED
        BY <1>1, <1>2, <1>3 DEF Records

\* The record of a failed request has one reason more.
LEMMA FailedRecord ==
    ASSUME last \in Records, NEW failure \in Failures
    PROVE  LET record == [last EXCEPT !.status = failure, !.error = TRUE,
                                      !.reasons = Append(@, failure)]
           IN  /\ record \in Records
               /\ record.success = last.success /\ record.raw = last.raw
               /\ record.retries = last.retries
               /\ Len(record.reasons) = Len(last.reasons) + 1
    <1>1. last.reasons \in Seq(Failures \cup {"parse"})
        BY DEF Records
    <1>2. /\ Append(last.reasons, failure) \in Seq(Failures \cup {"parse"})
          /\ Len(Append(last.reasons, failure)) = Len(last.reasons) + 1
        BY <1>1, AppendFacts
    <1>3. QED
        BY <1>2 DEF Records

LEMMA RequestFailsKeeps ==
    ASSUME GenerationInv, NEW failure \in Failures, RequestFails(failure)
    PROVE  GenerationInv'
    <1> DEFINE record == [last EXCEPT !.status = failure, !.error = TRUE,
                                      !.reasons = Append(@, failure)]
    <1>1. /\ pc = "request" /\ Send /\ UNCHANGED <<images, prep>>
          /\ \/ /\ RetriesLeft /\ last' = record /\ pc' = "recover" /\ UNCHANGED <<attempt, result>>
             \/ /\ RetriesLeft /\ NextAttempt(record) /\ UNCHANGED <<pc, result>>
             \/ /\ RecordFallback(record) /\ pc' = "finally" /\ UNCHANGED attempt
        BY DEF RequestFails
    <1>2. /\ last \in Records /\ attempt \in 0 .. MaxRetries /\ Len(requests) = attempt
          /\ last.success = FALSE /\ last.raw \in 0 .. attempt /\ Len(last.reasons) = attempt
          /\ last.retries = attempt
        BY <1>1 DEF GenerationInv, GenerationTypeOK, AttemptsCounted, Working
    <1>3. /\ record \in Records /\ record.success = FALSE /\ record.raw \in 0 .. attempt
          /\ record.retries = attempt /\ Len(record.reasons) = attempt + 1
        BY <1>2, FailedRecord
    <1>4. requests' \in Seq(Sizes) /\ Len(requests') = attempt + 1
        BY <1>1, SendCounts
    <1>5. pc' \in {"request", "recover", "finally"}
        BY <1>1
    <1>6. ImagesTold' /\ UnloadedAtRest'
        BY <1>1, <1>5, SendKeepsImages DEF UnloadedAtRest
    <1> HIDE DEF record
    <1>7. CASE RetriesLeft /\ last' = record /\ pc' = "recover" /\ UNCHANGED <<attempt, result>>
        BY <1>1, <1>2, <1>3, <1>4, <1>6, <1>7, RetriesAreCounted
        DEF GenerationInv, GenerationTypeOK, AttemptsCounted, Working, Places, Send, RetriesLeft
    <1>8. CASE RetriesLeft /\ NextAttempt(record) /\ UNCHANGED <<pc, result>>
        <2>1. /\ attempt' = attempt + 1 /\ attempt' \in 0 .. MaxRetries
              /\ last' \in Records /\ last'.retries = attempt'
              /\ last'.success = FALSE /\ last'.raw = record.raw
              /\ last'.reasons = record.reasons
            BY <1>2, <1>3, <1>8, NextAttemptKeeps
        <2>2. QED
            BY <1>1, <1>2, <1>3, <1>4, <1>6, <1>8, <2>1, RetriesAreCounted
            DEF GenerationInv, GenerationTypeOK, AttemptsCounted, Working, Places, Send
    <1>9. CASE RecordFallback(record) /\ pc' = "finally" /\ UNCHANGED attempt
        <2>1. /\ last' \in Records /\ last'.raw = 0 /\ last'.parse = "not_attempted"
              /\ last'.success = FALSE /\ last'.fallback = TRUE
              /\ last'.reasons = record.reasons /\ last'.retries = attempt
              /\ result' = [kind |-> "text", own |-> FALSE, from |-> attempt + 1]
            BY <1>3, <1>4, <1>9 DEF RecordFallback, Text, Records
        <2>2. Over'
            BY <1>2, <1>3, <1>4, <2>1, RetriesAreCounted DEF Over, FallbackTold
        <2>3. QED
            BY <1>1, <1>2, <1>3, <1>4, <1>6, <1>9, <2>1, <2>2, RetriesAreCounted
            DEF GenerationInv, GenerationTypeOK, AttemptsCounted, Working, Places, Send
    <1>10. QED
        BY <1>1, <1>7, <1>8, <1>9

\* The record after request n was answered with text r, and what the parser makes of
\* it.
Answered(n, r) == [last EXCEPT !.raw = n, !.text = r]

Failed(n, r) == [Answered(n, r) EXCEPT !.parse = "failed", !.success = FALSE,
                                       !.fallback = TRUE, !.error = TRUE,
                                       !.reasons = Append(@, "parse")]

Accepted(n, r, s) == [Answered(n, r) EXCEPT !.parse = "success", !.success = TRUE,
                                            !.fallback = FALSE, !.error = FALSE,
                                            !.status = s]

\* A text is no success before the parser has accepted it, and counts as a failure
\* when the parser has not.
LEMMA AnsweredRecord ==
    ASSUME last \in Records, last.success = FALSE, NEW r \in Replies, NEW n \in Nat
    PROVE  /\ Answered(n, r) \in Records /\ Answered(n, r).success = FALSE
           /\ Answered(n, r).raw = n
           /\ Failed(n, r) \in Records /\ Failed(n, r).raw = n
           /\ Failed(n, r).parse = "failed"
           /\ Failed(n, r).success = FALSE /\ Failed(n, r).fallback = TRUE
           /\ Len(Failed(n, r).reasons) = Len(last.reasons) + 1
           /\ Failed(n, r).retries = last.retries
    <1> DEFINE record == Answered(n, r)
               failed == Failed(n, r)
    <1>1. /\ record \in Records /\ record.success = FALSE
          /\ record.raw = n /\ record.reasons = last.reasons
          /\ record.retries = last.retries
        BY DEF Records, Answered
    <1>2. /\ Append(record.reasons, "parse") \in Seq(Failures \cup {"parse"})
          /\ Len(Append(record.reasons, "parse")) = Len(last.reasons) + 1
        <2>1. last.reasons \in Seq(Failures \cup {"parse"})
            BY DEF Records
        <2>2. QED
            BY <1>1, <2>1, AppendFacts
    <1>3. /\ failed \in Records /\ failed.raw = n /\ failed.parse = "failed"
          /\ failed.success = FALSE /\ failed.fallback = TRUE
          /\ Len(failed.reasons) = Len(last.reasons) + 1
          /\ failed.retries = last.retries
        <2>1. failed.reasons = Append(record.reasons, "parse")
            BY <1>1 DEF Records, Failed
        <2>2. failed \in Records
            BY <1>1, <1>2 DEF Records, Failed
        <2>3. QED
            BY <1>1, <1>2, <2>1, <2>2 DEF Records, Failed
    <1>4. QED
        BY <1>1, <1>3

LEMMA AcceptedRecord ==
    ASSUME last \in Records, NEW r \in Replies, NEW n \in Nat,
           NEW s \in {"success", "retry_success"}
    PROVE  /\ Accepted(n, r, s) \in Records /\ Accepted(n, r, s).raw = n
           /\ Accepted(n, r, s).parse = "success" /\ Accepted(n, r, s).success = TRUE
           /\ Accepted(n, r, s).fallback = FALSE
           /\ Accepted(n, r, s).reasons = last.reasons
           /\ Accepted(n, r, s).retries = last.retries
    <1>1. /\ Answered(n, r) \in Records /\ Answered(n, r).raw = n
          /\ Answered(n, r).reasons = last.reasons /\ Answered(n, r).retries = last.retries
        BY DEF Records, Answered
    <1>2. Accepted(n, r, s) \in Records
        BY <1>1 DEF Records, Accepted
    <1>3. QED
        BY <1>1, <1>2 DEF Records, Accepted

LEMMA RequestAnsweredKeeps ==
    ASSUME GenerationInv, NEW r \in Replies, RequestAnswered(r)
    PROVE  GenerationInv'
    <1>2. /\ last \in Records /\ attempt \in 0 .. MaxRetries /\ Len(requests) = attempt
          /\ last.success = FALSE /\ last.raw \in 0 .. attempt /\ Len(last.reasons) = attempt
          /\ last.retries = attempt
        BY DEF RequestAnswered, GenerationInv, GenerationTypeOK, AttemptsCounted, Working
    <1>3. requests' \in Seq(Sizes) /\ Len(requests') = attempt + 1
        BY SendCounts DEF RequestAnswered
    <1>14. PICK n \in Nat : n = Len(requests')
        BY <1>2, <1>3, RetriesAreCounted
    <1> DEFINE record == Answered(n, r)
               failed == Failed(n, r)
               accepted(s) == Accepted(n, r, s)
               status == IF attempt > 0 THEN "retry_success" ELSE "success"
    <1>1. /\ pc = "request" /\ Send /\ UNCHANGED <<images, prep>>
          /\ \/ /\ last' = accepted(status)
                /\ result' = Text(TRUE) /\ pc' = "finally" /\ UNCHANGED attempt
             \/ RetriesLeft /\ NextAttempt(failed) /\ UNCHANGED <<pc, result>>
             \/ /\ last' = [failed EXCEPT !.status = "success"]
                /\ result' = Text(FALSE) /\ pc' = "finally" /\ UNCHANGED attempt
             \/ /\ last' = record
                /\ result' = Raised("parser") /\ pc' = "finally" /\ UNCHANGED attempt
        <2>1. pc = "request" /\ Send /\ UNCHANGED <<images, prep>>
            BY DEF RequestAnswered
        <2>2. \/ /\ last' = accepted(status)
                 /\ result' = Text(TRUE) /\ pc' = "finally" /\ UNCHANGED attempt
              \/ RetriesLeft /\ NextAttempt(failed) /\ UNCHANGED <<pc, result>>
              \/ /\ last' = [failed EXCEPT !.status = "success"]
                 /\ result' = Text(FALSE) /\ pc' = "finally" /\ UNCHANGED attempt
              \/ /\ last' = record
                 /\ result' = Raised("parser") /\ pc' = "finally" /\ UNCHANGED attempt
            BY <1>14, Zenon DEF RequestAnswered, Answered, Failed, Accepted
        <2>3. QED
            BY <2>1, <2>2
    <1>4. /\ record \in Records /\ record.success = FALSE /\ record.raw = n
          /\ failed \in Records /\ failed.raw = n /\ failed.parse = "failed"
          /\ failed.success = FALSE /\ failed.fallback = TRUE
          /\ Len(failed.reasons) = attempt + 1 /\ failed.retries = attempt
          /\ \A s \in {"success", "retry_success"} :
                /\ accepted(s) \in Records /\ accepted(s).raw = n
                /\ accepted(s).parse = "success" /\ accepted(s).success = TRUE
                /\ accepted(s).fallback = FALSE /\ Len(accepted(s).reasons) = attempt
                /\ accepted(s).retries = attempt
        <2>1. last \in Records /\ last.success = FALSE
            BY <1>2
        <2>2. /\ record \in Records /\ record.success = FALSE /\ record.raw = n
              /\ failed \in Records /\ failed.raw = n /\ failed.parse = "failed"
              /\ failed.success = FALSE /\ failed.fallback = TRUE
            BY <2>1, AnsweredRecord
        <2>3. Len(failed.reasons) = Len(last.reasons) + 1 /\ failed.retries = last.retries
            BY <2>1, AnsweredRecord
        <2>4. ASSUME NEW s \in {"success", "retry_success"}
              PROVE  /\ accepted(s) \in Records /\ accepted(s).raw = n
                     /\ accepted(s).parse = "success" /\ accepted(s).success = TRUE
                     /\ accepted(s).fallback = FALSE /\ accepted(s).reasons = last.reasons
                     /\ accepted(s).retries = last.retries
            BY <2>1, <2>4, AcceptedRecord, Zenon
        <2> HIDE DEF record, failed, accepted
        <2>5. Len(last.reasons) = attempt /\ last.retries = attempt
            BY <1>2
        <2>6. Len(failed.reasons) = attempt + 1 /\ failed.retries = attempt
            BY <2>3, <2>5
        <2>7. QED
            BY <2>2, <2>4, <2>5, <2>6
    <1>5. ImagesTold' /\ UnloadedAtRest'
        BY <1>1, SendKeepsImages DEF UnloadedAtRest
    <1>6. used' = TRUE
        BY <1>1 DEF Send
    <1>13. status \in {"success", "retry_success"}
        OBVIOUS
    <1> HIDE DEF record, failed, accepted, status
    <1>7. CASE RetriesLeft /\ NextAttempt(failed) /\ UNCHANGED <<pc, result>>
        <2>1. /\ attempt' = attempt + 1 /\ attempt' \in 0 .. MaxRetries
              /\ last' \in Records /\ last'.retries = attempt'
              /\ last'.success = FALSE /\ last'.raw = n
              /\ Len(last'.reasons) = attempt + 1
            BY <1>2, <1>4, <1>7, NextAttemptKeeps
        <2>2. QED
            BY <1>1, <1>2, <1>3, <1>14, <1>5, <1>6, <1>7, <2>1, RetriesAreCounted
            DEF GenerationInv, GenerationTypeOK, AttemptsCounted, Working, Places
    <1>8. ASSUME last' \in Records, pc' = "finally", UNCHANGED attempt, Over',
                 result' \in [kind : {"text", "nothing", "images", "parser"},
                              own : BOOLEAN, from : Nat]
          PROVE  GenerationInv'
        BY <1>1, <1>2, <1>3, <1>14, <1>5, <1>6, <1>8, RetriesAreCounted
        DEF GenerationInv, GenerationTypeOK, AttemptsCounted, Working, Places
    <1>9. CASE /\ last' = accepted(status)
               /\ result' = Text(TRUE) /\ pc' = "finally" /\ UNCHANGED attempt
        <2>1. result' = [kind |-> "text", own |-> TRUE, from |-> n]
            BY <1>9, <1>14 DEF Text
        <2>2. result' \in [kind : {"text", "nothing", "images", "parser"}, own : BOOLEAN, from : Nat]
            BY <1>3, <1>14, <2>1
        <2>3. /\ last' \in Records /\ last'.raw = n /\ last'.parse = "success"
              /\ last'.success = TRUE /\ last'.fallback = FALSE
              /\ Len(last'.reasons) = attempt /\ last'.retries = attempt
            BY <1>4, <1>9, <1>13
        <2>4. n - 1 = attempt /\ n # 0 /\ n = Len(requests')
            BY <1>2, <1>3, <1>14, RetriesAreCounted
        <2>5. OwnTextTold'
            BY <2>1, <2>3, <2>4 DEF OwnTextTold
        <2>6. QED
            BY <1>8, <1>9, <2>2, <2>3, <2>5 DEF Over
    <1>10. CASE /\ last' = [failed EXCEPT !.status = "success"]
                /\ result' = Text(FALSE) /\ pc' = "finally" /\ UNCHANGED attempt
        <2>1. result' = [kind |-> "text", own |-> FALSE, from |-> n]
            BY <1>10, <1>14 DEF Text
        <2>2. /\ last' \in Records /\ last'.raw = n /\ last'.parse = "failed"
              /\ last'.success = FALSE /\ last'.fallback = TRUE
              /\ last'.reasons = failed.reasons /\ last'.retries = failed.retries
            BY <1>4, <1>10 DEF Records
        <2>3. result' \in [kind : {"text", "nothing", "images", "parser"}, own : BOOLEAN, from : Nat]
            BY <1>3, <1>14, <2>1
        <2>4. n - 1 = attempt /\ n # 0 /\ n = Len(requests')
            BY <1>2, <1>3, <1>14, RetriesAreCounted
        <2>5. FallbackTold'
            BY <1>3, <1>14, <1>4, <2>1, <2>2, <2>4 DEF FallbackTold
        <2>6. QED
            BY <1>8, <1>10, <2>2, <2>3, <2>5 DEF Over
    <1>11. CASE /\ last' = record
                /\ result' = Raised("parser") /\ pc' = "finally" /\ UNCHANGED attempt
        <2>1. result' = [kind |-> "parser", own |-> FALSE, from |-> 0]
            BY <1>11 DEF Raised
        <2>2. result' \in [kind : {"text", "nothing", "images", "parser"}, own : BOOLEAN, from : Nat]
            BY <2>1
        <2>3. NoTextTold'
            BY <1>3, <1>14, <1>4, <1>11, <2>1 DEF NoTextTold
        <2>4. QED
            BY <1>4, <1>8, <1>11, <2>2, <2>3 DEF Over
    <1>12. QED
        BY <1>1, <1>7, <1>9, <1>10, <1>11

-----------------------------------------------------------------------------
\* The recovery begins the next round, or makes the images smaller first.
LEMMA RecoverKeeps == GenerationInv /\ Recover => GenerationInv'
    <1> SUFFICES ASSUME GenerationInv, Recover PROVE GenerationInv'
        OBVIOUS
    <1>1. /\ last \in Records /\ attempt \in 0 .. MaxRetries /\ Len(requests) = attempt + 1
          /\ last.success = FALSE /\ last.raw \in 0 .. Len(requests)
          /\ Len(last.reasons) = Len(requests) /\ last.retries = attempt
          /\ attempt < MaxRetries /\ pc = "recover" /\ used' = FALSE
          /\ UNCHANGED <<images, requests, prep, result>>
        BY DEF Recover, GenerationInv, GenerationTypeOK, AttemptsCounted, Working
    <1>2. CASE prep.recovery
        <2>1. pc' = "request" /\ NextAttempt(last)
            BY <1>2 DEF Recover
        <2>2. /\ attempt' = attempt + 1 /\ attempt' \in 0 .. MaxRetries
              /\ last' \in Records /\ last'.retries = attempt'
              /\ last'.success = FALSE /\ last'.raw = last.raw
              /\ last'.reasons = last.reasons
            BY <1>1, <2>1, NextAttemptKeeps DEF RetriesLeft
        <2>3. ImagesTold'
            BY <1>1, <2>1 DEF GenerationInv, ImagesTold
        <2>4. GenerationTypeOK'
            BY <1>1, <2>1, <2>2 DEF GenerationInv, GenerationTypeOK, Places
        <2>5. QED
            BY <1>1, <2>1, <2>2, <2>3, <2>4
            DEF GenerationInv, AttemptsCounted, Working, UnloadedAtRest
    <1>3. CASE ~prep.recovery
        <2>1. pc' = "rebuild" /\ UNCHANGED <<attempt, last>>
            BY <1>3 DEF Recover
        <2>2. ImagesTold'
            BY <1>1, <1>3, <2>1 DEF GenerationInv, GenerationTypeOK, ImagesTold, InfoOf, Sizes
        <2>3. GenerationTypeOK'
            BY <1>1, <2>1 DEF GenerationInv, GenerationTypeOK, Places
        <2>4. QED
            BY <1>1, <2>1, <2>2, <2>3 DEF GenerationInv, AttemptsCounted, Working, UnloadedAtRest
    <1>4. QED
        BY <1>2, <1>3

\* The images are smaller from now on, or cannot be made smaller.
LEMMA RebuildKeeps == GenerationInv /\ Rebuild => GenerationInv'
    <1> SUFFICES ASSUME GenerationInv, Rebuild PROVE GenerationInv'
        OBVIOUS
    <1>1. /\ last \in Records /\ attempt \in 0 .. MaxRetries /\ Len(requests) = attempt + 1
          /\ last.success = FALSE /\ last.raw \in 0 .. Len(requests)
          /\ Len(last.reasons) = Len(requests) /\ last.retries = attempt
          /\ attempt < MaxRetries /\ pc = "rebuild"
          /\ UNCHANGED <<requests, used>>
        BY DEF Rebuild, GenerationInv, GenerationTypeOK, AttemptsCounted, Working
    <1>2. CASE /\ images' = "small" /\ prep' = [size |-> "small", recovery |-> TRUE]
               /\ pc' = "request" /\ NextAttempt(last) /\ UNCHANGED result
        <2>1. /\ attempt' = attempt + 1 /\ attempt' \in 0 .. MaxRetries
              /\ last' \in Records /\ last'.retries = attempt'
              /\ last'.success = FALSE /\ last'.raw = last.raw
              /\ last'.reasons = last.reasons
            BY <1>1, <1>2, NextAttemptKeeps DEF RetriesLeft
        <2>2. ImagesTold'
            BY <1>1, <1>2 DEF GenerationInv, ImagesTold, InfoOf
        <2>3. prep' \in [size : Sizes, recovery : BOOLEAN] /\ images' \in Sizes
            BY <1>2 DEF Sizes
        <2>4. GenerationTypeOK'
            BY <1>1, <1>2, <2>1, <2>3 DEF GenerationInv, GenerationTypeOK, Places
        <2>5. QED
            BY <1>1, <1>2, <2>1, <2>2, <2>4
            DEF GenerationInv, AttemptsCounted, Working, UnloadedAtRest
    <1>3. CASE /\ result' = Raised("images") /\ pc' = "finally"
               /\ UNCHANGED <<images, prep, attempt, last>>
        <2>1. result' = [kind |-> "images", own |-> FALSE, from |-> 0]
            BY <1>3 DEF Raised
        <2>2. result' \in [kind : {"text", "nothing", "images", "parser"}, own : BOOLEAN, from : Nat]
            BY <2>1
        <2>3. NoTextTold'
            BY <1>1, <1>3, <2>1 DEF NoTextTold
        <2>4. ImagesTold'
            BY <1>1, <1>3 DEF GenerationInv, ImagesTold
        <2>5. GenerationTypeOK'
            BY <1>1, <1>3, <2>2 DEF GenerationInv, GenerationTypeOK, Places
        <2>6. QED
            BY <1>1, <1>3, <2>3, <2>4, <2>5
            DEF GenerationInv, AttemptsCounted, Working, UnloadedAtRest, Over
    <1>4. QED
        BY <1>2, <1>3 DEF Rebuild

\* Every way out of the loop comes by here.
LEMMA FinallyKeeps == GenerationInv /\ Finally => GenerationInv'
    BY DEF Finally, GenerationInv, GenerationTypeOK, UnloadedAtRest, AttemptsCounted, Working,
           Over, OwnTextTold, FallbackTold, NoTextTold, ImagesTold, Places

LEMMA StepInv == GenerationInv /\ [Next]_vars => GenerationInv'
    <1> SUFFICES ASSUME GenerationInv, [Next]_vars PROVE GenerationInv'
        OBVIOUS
    <1>1. CASE UNCHANGED vars
        BY <1>1 DEF vars, GenerationInv, GenerationTypeOK, UnloadedAtRest, AttemptsCounted,
           Working, Over, OwnTextTold, FallbackTold, NoTextTold, ImagesTold
    <1>2. CASE Next
        BY <1>2, CallKeeps, RequestFailsKeeps, RequestAnsweredKeeps, RecoverKeeps,
           RebuildKeeps, FinallyKeeps DEF Next, CallStep
    <1>3. QED
        BY <1>1, <1>2

LEMMA GenerationInvariant == Spec => []GenerationInv
    BY InitInv, StepInv, PTL DEF Spec

\* For every set of texts and number of retries: no call, however it ends, leaves the
\* model loaded by its requests (the finally of describe_defects).
THEOREM EveryCallUnloads == Spec => []UnloadedAtRest
    <1>1. GenerationInv => UnloadedAtRest
        BY DEF GenerationInv
    <1>2. QED
        BY <1>1, GenerationInvariant, PTL

\* What the invariant says of a call that is over is what its record tells.
LEMMA OverTells == GenerationTypeOK /\ Over => RecordTellsCall
    <1> SUFFICES ASSUME GenerationTypeOK, Over PROVE RecordTellsCall
        OBVIOUS
    <1>1. Len(requests) \in Nat /\ Len(last.reasons) \in Nat
        BY DEF GenerationTypeOK, Records
    <1>2. CASE OwnTextTold
        <2>1. last.success = result.own /\ last.fallback = ~result.own
            BY <1>2 DEF OwnTextTold
        <2>2. (IF result.own THEN 1 ELSE 0) = 1
            BY <1>2 DEF OwnTextTold
        <2>3. /\ Len(last.reasons) + 1 = Len(requests)
              /\ last.retries = Len(requests) - 1
              /\ last.raw \in {0, Len(requests)} /\ last.raw \in 0 .. Len(requests)
            BY <1>1, <1>2 DEF OwnTextTold
        <2>4. /\ last.raw = 0 => last.parse = "not_attempted"
              /\ last.raw # 0 => last.parse # "not_attempted"
              /\ result.own => last.raw = result.from
            BY <1>1, <1>2 DEF OwnTextTold
        <2>5. QED
            BY <2>1, <2>2, <2>3, <2>4, Zenon DEF RecordTellsCall
    <1>3. CASE FallbackTold
        <2>1. last.success = result.own /\ last.fallback = ~result.own
            BY <1>3 DEF FallbackTold
        <2>2. (IF result.own THEN 1 ELSE 0) = 0
            BY <1>3 DEF FallbackTold
        <2>3. /\ Len(last.reasons) + 0 = Len(requests)
              /\ last.retries = Len(requests) - 1
              /\ last.raw \in {0, Len(requests)} /\ last.raw \in 0 .. Len(requests)
            BY <1>1, <1>3 DEF FallbackTold
        <2>4. /\ last.raw = 0 => last.parse = "not_attempted"
              /\ last.raw # 0 => last.parse # "not_attempted"
              /\ result.own => last.raw = result.from
            BY <1>1, <1>3 DEF FallbackTold
        <2>5. QED
            BY <2>1, <2>2, <2>3, <2>4, Zenon DEF RecordTellsCall
    <1>4. CASE NoTextTold
        BY <1>1, <1>4 DEF NoTextTold, RecordTellsCall
    <1>5. QED
        BY <1>2, <1>3, <1>4 DEF Over

LEMMA ImagesTell == GenerationTypeOK /\ ImagesTold => InfoTellsRequests
    <1> SUFFICES ASSUME GenerationTypeOK, ImagesTold, pc = "finally"
                 PROVE  /\ requests # <<>> /\ prep.size = requests[Len(requests)]
                        /\ prep.recovery = (\E k \in DOMAIN requests : requests[k] = "small")
                        /\ \A j, k \in DOMAIN requests :
                              j < k /\ requests[j] = "small" => requests[k] = "small"
        BY DEF InfoTellsRequests
    <1>1. /\ requests # <<>> /\ requests[Len(requests)] = images /\ prep = InfoOf(images)
          /\ images \in Sizes /\ requests \in Seq(Sizes)
          /\ \A k \in DOMAIN requests : requests[k] = "small" => images = "small"
          /\ \A j, k \in DOMAIN requests :
                j < k /\ requests[j] = "small" => requests[k] = "small"
        BY DEF GenerationTypeOK, ImagesTold
    <1>2. Len(requests) \in DOMAIN requests
        BY <1>1
    <1>3. CASE images = "small"
        <2>1. prep.size = "small" /\ prep.recovery = TRUE
            BY <1>1, <1>3 DEF InfoOf
        <2>2. \E k \in DOMAIN requests : requests[k] = "small"
            BY <1>1, <1>2, <1>3
        <2>3. prep.recovery = (\E k \in DOMAIN requests : requests[k] = "small")
            BY <2>1, <2>2
        <2>4. QED
            BY <1>1, <1>3, <2>1, <2>3
    <1>4. CASE images = "normal"
        <2>1. prep.size = "normal" /\ prep.recovery = FALSE
            BY <1>1, <1>4 DEF InfoOf
        <2>2. ~\E k \in DOMAIN requests : requests[k] = "small"
            BY <1>1, <1>4
        <2>3. prep.recovery = (\E k \in DOMAIN requests : requests[k] = "small")
            BY <2>1, <2>2
        <2>4. QED
            BY <1>1, <1>4, <2>1, <2>3
    <1>5. QED
        BY <1>1, <1>3, <1>4 DEF Sizes

\* For every set of texts and number of retries: the preparation info tells of the
\* images that were sent, and the record of a call of that call alone.
THEOREM RecordsAreTrue == Spec => []RecordsTellCall
    <1>1. GenerationInv => RecordsTellCall
        BY OverTells, ImagesTell DEF GenerationInv, RecordsTellCall, RecordTellsCall
    <1>2. QED
        BY <1>1, GenerationInvariant, PTL

-----------------------------------------------------------------------------
(* The parser.                                                             *)

\* Numbers have a least one among them.
LEMMA LeastIsOne ==
    ASSUME NEW T, T \subseteq Nat, T # {}
    PROVE  Min(T) \in T /\ \A y \in T : Min(T) <= y
  <1>. DEFINE R == OpToRel(<, Nat)
  <1>1. IsWellFoundedOn(R, Nat)
    BY NatLessThanWellFounded
  <1>2. \A x, y \in Nat : x < y => <<x, y>> \in R
    BY DEF OpToRel
  <1>. HIDE DEF R
  <1>3. PICK x \in T : \A y \in T : ~(<<y, x>> \in R)
    BY <1>1, WFMin
  <1>4. \A y \in T : ~(y < x)
    BY <1>2, <1>3, Zenon
  <1>5. \A y \in T : x <= y
    BY <1>4
  <1>. QED
    BY <1>3, <1>5 DEF Min

\* The first check that raises does, if there is one.
LEMMA RaisedOrAccepted ==
    ASSUME NEW s, DOMAIN s \subseteq Nat
    PROVE  (FirstRaised(s) = "accepted") <=> \A k \in DOMAIN s : s[k] = "accepted"
  <1>. DEFINE raised == {k \in DOMAIN s : s[k] # "accepted"}
  <1>1. CASE raised = {}
    BY <1>1 DEF FirstRaised
  <1>2. CASE raised # {}
    <2>1. Min(raised) \in raised
      BY <1>2, LeastIsOne
    <2>2. FirstRaised(s) = s[Min(raised)]
      BY <1>2 DEF FirstRaised
    <2>. QED
      BY <2>1, <2>2
  <1>. QED
    BY <1>1, <1>2

\* An item is accepted if it passes every check, in whichever order they are made.
LEMMA ItemAccepted ==
    ASSUME NEW d \in Items
    PROVE  (ItemOutcome(d) = "accepted") <=>
             /\ d.object /\ ~d.extra /\ ~d.missing
             /\ d.id # 0 /\ d.feature = "text"
             /\ d.visibility \in {"clear", "unclear"}
             /\ d.review = "bool"
  <1>. DEFINE s == <<
        Check(d.object, "invalid"),
        Check(~d.extra, "invalid"),
        Check(~d.missing, "invalid"),
        Check(d.id # 0, "invalid"),
        Check(d.feature = "text", "invalid"),
        Lookup(d.visibility, {"clear", "unclear"}),
        Check(d.review = "bool", "invalid") >>
  <1>1. (ItemOutcome(d) = "accepted") <=> \A k \in DOMAIN s : s[k] = "accepted"
    BY RaisedOrAccepted DEF ItemOutcome
  <1>2. DOMAIN s = 1 .. 7
    OBVIOUS
  <1>3. (\A k \in 1 .. 7 : s[k] = "accepted") <=>
            /\ s[1] = "accepted" /\ s[2] = "accepted" /\ s[3] = "accepted" /\ s[4] = "accepted"
            /\ s[5] = "accepted" /\ s[6] = "accepted" /\ s[7] = "accepted"
    OBVIOUS
  <1>4. /\ (s[1] = "accepted") <=> d.object
        /\ (s[2] = "accepted") <=> ~d.extra
        /\ (s[3] = "accepted") <=> ~d.missing
        /\ (s[4] = "accepted") <=> d.id # 0
        /\ (s[5] = "accepted") <=> d.feature = "text"
        /\ (s[6] = "accepted") <=> d.visibility \in {"clear", "unclear"}
        /\ (s[7] = "accepted") <=> d.review = "bool"
    BY DEF Check, Lookup
  <1>. QED
    BY <1>1, <1>2, <1>3, <1>4

Outcomes == {"accepted", "invalid", "invalid_json", "TypeError"}

Passed(s) == \A k \in DOMAIN s : s[k] = "accepted"

\* All of two sequences are passed if all of each are.
LEMMA AllOfBoth ==
    ASSUME NEW a \in Seq(Outcomes), NEW b \in Seq(Outcomes)
    PROVE  Passed(a \o b) <=> Passed(a) /\ Passed(b)
  <1>. DEFINE m == Len(a)  n == Len(b)
  <1>1. /\ m \in Nat /\ n \in Nat
        /\ DOMAIN a = 1 .. m /\ DOMAIN b = 1 .. n /\ DOMAIN (a \o b) = 1 .. m + n
    OBVIOUS
  <1>2. /\ \A k \in 1 .. m : (a \o b)[k] = a[k]
        /\ \A k \in 1 .. n : (a \o b)[k + m] = b[k]
    OBVIOUS
  <1>. HIDE DEF m, n
  <1>3. /\ \A k \in 1 .. m : k \in 1 .. m + n
        /\ \A k \in 1 .. n : k + m \in 1 .. m + n
        /\ \A k \in 1 .. m + n : k \in 1 .. m \/ (k - m \in 1 .. n /\ (k - m) + m = k)
    BY <1>1
  <1>4. ASSUME \A k \in 1 .. m + n : (a \o b)[k] = "accepted"
        PROVE  (\A k \in 1 .. m : a[k] = "accepted") /\ (\A k \in 1 .. n : b[k] = "accepted")
    BY <1>2, <1>3, <1>4
  <1>5. ASSUME \A k \in 1 .. m : a[k] = "accepted", \A k \in 1 .. n : b[k] = "accepted"
        PROVE  \A k \in 1 .. m + n : (a \o b)[k] = "accepted"
    BY <1>2, <1>3, <1>5
  <1>. QED
    BY <1>1, <1>4, <1>5 DEF Passed

\* The checks end in one of these outcomes.
LEMMA OutcomesKnown ==
    ASSUME NEW s, DOMAIN s \subseteq Nat, \A k \in DOMAIN s : s[k] \in Outcomes
    PROVE  FirstRaised(s) \in Outcomes
  <1>. DEFINE raised == {k \in DOMAIN s : s[k] # "accepted"}
  <1>1. CASE raised = {}
    BY <1>1 DEF FirstRaised, Outcomes
  <1>2. CASE raised # {}
    <2>1. Min(raised) \in raised
      BY <1>2, LeastIsOne
    <2>. QED
      BY <1>2, <2>1 DEF FirstRaised
  <1>. QED
    BY <1>1, <1>2

\* The checks that parse_vlm_response makes of the root, and in the end.
RootChecks(r, n) ==
    << Check(~r.empty, "invalid"), Check(r.json, "invalid_json"), Check(r.object, "invalid"),
       Check(~r.extra, "invalid"), Lookup(r.judgment, {"OK", "NG"}),
       Check(r.judgment = "NG", "invalid"), Check(r.isList, "invalid"),
       Check(Len(r.items) = n, "invalid") >>
ItemChecks(r) == [k \in DOMAIN r.items |-> ItemOutcome(r.items[k])]
LastChecks(r) ==
    << Check(IdsInOrder(r.items), "invalid"), Check(r.summary = "text", "invalid") >>

\* The checks of the root are passed if each is.
LEMMA RootAccepted ==
    ASSUME NEW r, NEW n
    PROVE  /\ RootChecks(r, n) \in Seq(Outcomes)
           /\ (\A k \in DOMAIN RootChecks(r, n) : RootChecks(r, n)[k] = "accepted") <=>
                /\ ~r.empty /\ r.json /\ r.object /\ ~r.extra
                /\ r.judgment = "NG" /\ r.isList /\ Len(r.items) = n
  <1>. DEFINE s == RootChecks(r, n)
  <1>1. DOMAIN s = 1 .. 8 /\ Len(s) = 8
    BY DEF RootChecks
  <1>2. (\A k \in 1 .. 8 : s[k] = "accepted") <=>
            /\ s[1] = "accepted" /\ s[2] = "accepted" /\ s[3] = "accepted" /\ s[4] = "accepted"
            /\ s[5] = "accepted" /\ s[6] = "accepted" /\ s[7] = "accepted" /\ s[8] = "accepted"
    <2>1. \A k \in 1 .. 8 : \/ k = 1 \/ k = 2 \/ k = 3 \/ k = 4 \/ k = 5 \/ k = 6 \/ k = 7 \/ k = 8
      OBVIOUS
    <2>2. {1, 2, 3, 4, 5, 6, 7, 8} \subseteq 1 .. 8
      OBVIOUS
    <2>. HIDE DEF s
    <2>. QED
      BY <2>1, <2>2
  <1>3. /\ (s[1] = "accepted") <=> ~r.empty
        /\ (s[2] = "accepted") <=> r.json
        /\ (s[3] = "accepted") <=> r.object
        /\ (s[4] = "accepted") <=> ~r.extra
        /\ (s[5] = "accepted") <=> r.judgment \in {"OK", "NG"}
        /\ (s[6] = "accepted") <=> r.judgment = "NG"
        /\ (s[7] = "accepted") <=> r.isList
        /\ (s[8] = "accepted") <=> Len(r.items) = n
    BY DEF RootChecks, Check, Lookup
  <1>4. s \in Seq(Outcomes)
    BY DEF RootChecks, Check, Lookup, Outcomes
  <1>. QED
    BY <1>1, <1>2, <1>3, <1>4

\* So are the last two.
LEMMA LastAccepted ==
    ASSUME NEW r
    PROVE  /\ LastChecks(r) \in Seq(Outcomes)
           /\ (\A k \in DOMAIN LastChecks(r) : LastChecks(r)[k] = "accepted") <=>
                IdsInOrder(r.items) /\ r.summary = "text"
  BY DEF LastChecks, Check, Outcomes

\* Every item, conforming or not, has an outcome.
LEMMA ItemsAccepted ==
    ASSUME NEW r, r.items \in Seq(Items)
    PROVE  ItemChecks(r) \in Seq(Outcomes)
  <1>1. ASSUME NEW d PROVE ItemOutcome(d) \in Outcomes
    <2>. DEFINE s == <<
          Check(d.object, "invalid"), Check(~d.extra, "invalid"), Check(~d.missing, "invalid"),
          Check(d.id # 0, "invalid"), Check(d.feature = "text", "invalid"),
          Lookup(d.visibility, {"clear", "unclear"}), Check(d.review = "bool", "invalid") >>
    <2>1. s \in Seq(Outcomes)
      BY DEF Check, Lookup, Outcomes
    <2>. HIDE DEF s
    <2>2. DOMAIN s \subseteq Nat /\ \A k \in DOMAIN s : s[k] \in Outcomes
      BY <2>1
    <2>3. FirstRaised(s) \in Outcomes
      BY <2>2, OutcomesKnown
    <2>. QED
      BY <2>3 DEF ItemOutcome, s
  <1>2. DOMAIN r.items = 1 .. Len(r.items) /\ Len(r.items) \in Nat
    OBVIOUS
  <1>. QED
    BY <1>1, <1>2 DEF ItemChecks

\* What parse_vlm_response accepts conforms to the schema and to the detections, and
\* what conforms is accepted; else an error or a TypeError ends it.
LEMMA ParserIsExact ==
    ASSUME NEW r \in ResponseTexts, NEW n \in Nat \ {0}
    PROVE  /\ (ParseVlmResponse(r, n) = "accepted") <=> Conforms(r, n)
           /\ ParseVlmResponse(r, n) \in Outcomes
  <1>. DEFINE a == RootChecks(r, n)  b == ItemChecks(r)  c == LastChecks(r)
  <1>1. a \in Seq(Outcomes) /\ b \in Seq(Outcomes) /\ c \in Seq(Outcomes)
    BY RootAccepted, ItemsAccepted, LastAccepted DEF ResponseTexts
  <1>2. r.items \in Seq(Items)
    BY DEF ResponseTexts
  <1>3. /\ Passed(a) <=>
             /\ ~r.empty /\ r.json /\ r.object /\ ~r.extra
             /\ r.judgment = "NG" /\ r.isList /\ Len(r.items) = n
        /\ Passed(c) <=> IdsInOrder(r.items) /\ r.summary = "text"
    BY RootAccepted, LastAccepted DEF Passed
  <1>4. Passed(b) <=> \A k \in DOMAIN r.items : ItemOutcome(r.items[k]) = "accepted"
    BY <1>2 DEF ItemChecks, Passed
  <1>5. ParseVlmResponse(r, n) = FirstRaised(a \o b \o c)
    BY DEF ParseVlmResponse, RootChecks, ItemChecks, LastChecks
  <1>. HIDE DEF a, b, c
  <1>6. a \o b \in Seq(Outcomes) /\ (a \o b) \o c \in Seq(Outcomes)
    BY <1>1
  <1>7. (Passed(a \o b) <=> Passed(a) /\ Passed(b)) /\ (Passed((a \o b) \o c) <=> Passed(a \o b) /\ Passed(c))
    <2>1. Passed(a \o b) <=> Passed(a) /\ Passed(b)
      BY <1>1, AllOfBoth
    <2>. DEFINE ab == a \o b
    <2>2. ab \in Seq(Outcomes)
      BY <1>6
    <2>. HIDE DEF ab
    <2>3. Passed(ab \o c) <=> Passed(ab) /\ Passed(c)
      BY <1>1, <2>2, AllOfBoth
    <2>. QED
      BY <2>1, <2>3 DEF ab
  <1>8. DOMAIN ((a \o b) \o c) \subseteq Nat /\ \A k \in DOMAIN ((a \o b) \o c) : ((a \o b) \o c)[k] \in Outcomes
    BY <1>6
  <1>9. (ParseVlmResponse(r, n) = "accepted") <=> Passed((a \o b) \o c)
    BY <1>5, <1>8, RaisedOrAccepted DEF Passed
  <1>10. ParseVlmResponse(r, n) \in Outcomes
    BY <1>5, <1>8, OutcomesKnown
  <1>11. (ParseVlmResponse(r, n) = "accepted") <=>
            /\ ~r.empty /\ r.json /\ r.object /\ ~r.extra
            /\ r.judgment = "NG" /\ r.isList /\ Len(r.items) = n
            /\ \A k \in DOMAIN r.items : ItemOutcome(r.items[k]) = "accepted"
            /\ IdsInOrder(r.items) /\ r.summary = "text"
    BY <1>3, <1>4, <1>7, <1>9
  <1>12. /\ DOMAIN r.items = 1 .. Len(r.items) /\ Len(r.items) \in Nat
         /\ Len(r.items) = n <=> DOMAIN r.items = 1 .. n
         /\ \A k \in DOMAIN r.items : r.items[k] \in Items /\ k # 0
    BY <1>2
  <1>13. (\A k \in DOMAIN r.items : ItemOutcome(r.items[k]) = "accepted") /\ IdsInOrder(r.items)
            <=> \A k \in DOMAIN r.items :
                   /\ r.items[k].object /\ ~r.items[k].extra /\ ~r.items[k].missing
                   /\ r.items[k].id = k /\ r.items[k].feature = "text"
                   /\ r.items[k].visibility \in {"clear", "unclear"}
                   /\ r.items[k].review = "bool"
    BY <1>12, ItemAccepted DEF IdsInOrder
  <1>. QED
    BY <1>10, <1>11, <1>12, <1>13 DEF Conforms

------------------------------------------------------------------------------
\* What is accepted.

\* No text has been accepted while a call works.
AcceptInv ==
    /\ AcceptsExactly
    /\ Working => last.parse # "success"

\* A record that keeps the text and the verdict.
SameText == last'.text = last.text /\ last'.parse = last.parse
NoText == last'.text = None /\ last'.parse # "success"

\* The next attempt counts a retry and keeps the text of the last one.
LEMMA NextAttemptText ==
    ASSUME NEW record \in Records, NextAttempt(record)
    PROVE  last'.text = record.text /\ last'.parse = record.parse
    BY DEF NextAttempt, Records

\* A step that neither writes a text nor accepts one breaks nothing.
LEMMA SameTextKeeps ==
    ASSUME AcceptInv, SameText \/ NoText, last.parse # "success"
    PROVE  AcceptInv'
  <1>1. CASE NoText
    BY <1>1 DEF AcceptInv, AcceptsExactly, NoText
  <1>2. CASE SameText
    BY <1>2 DEF AcceptInv, AcceptsExactly, SameText
  <1>. QED
    BY <1>1, <1>2

\* Only RequestAnswered accepts a text, and the parser has just accepted that one.
LEMMA StepAccept == GenerationInv /\ AcceptInv /\ [Next]_vars => AcceptInv'
  <1>. SUFFICES ASSUME GenerationInv, AcceptInv, [Next]_vars PROVE AcceptInv'
    OBVIOUS
  <1>0. last \in Records
    BY DEF GenerationInv, GenerationTypeOK
  <1>1. CASE Call
    BY <1>1 DEF Call, NotRun, AcceptInv, AcceptsExactly
  <1>2. ASSUME NEW f \in Failures, RequestFails(f) PROVE AcceptInv'
    <2>. DEFINE record == [last EXCEPT !.status = f, !.error = TRUE,
                                       !.reasons = Append(@, f)]
    <2>1. last.parse # "success"
      BY <1>2 DEF RequestFails, AcceptInv, Working
    <2>2. record.text = last.text /\ record.parse = last.parse
      BY <1>0 DEF Records
    <2>3. last' = record \/ NextAttempt(record) \/ RecordFallback(record)
      BY <1>2 DEF RequestFails
    <2>4. /\ NextAttempt(record) => SameText
          /\ RecordFallback(record) => NoText
      BY <1>0, <2>2 DEF NextAttempt, RecordFallback, Records, SameText, NoText
    <2>. QED
      BY <2>1, <2>2, <2>3, <2>4, SameTextKeeps DEF SameText
  <1>3. ASSUME NEW r \in Replies, RequestAnswered(r) PROVE AcceptInv'
    <2>. DEFINE outcome == ParseResponse(r, Described)
                record == [last EXCEPT !.raw = Len(requests'), !.text = r]
                failed == [record EXCEPT !.parse = "failed", !.success = FALSE,
                                         !.fallback = TRUE, !.error = TRUE,
                                         !.reasons = Append(@, "parse")]
    <2>1. last.parse # "success" /\ pc = "request"
      BY <1>3 DEF RequestAnswered, AcceptInv, Working
    <2>2. /\ outcome = "success" <=> Conforms(r, Described)
          /\ outcome \in {"success", "raises", "fallback"}
      <3>1. r \in ResponseTexts
        BY RepliesAreTexts
      <3>2. /\ (ParseVlmResponse(r, Described) = "accepted") <=> Conforms(r, Described)
            /\ ParseVlmResponse(r, Described) \in Outcomes
        BY <3>1, ParserIsExact, SomeDescribed
      <3>. QED
        BY <3>2 DEF ParseResponse, Outcomes
    <2>3. record.text = r /\ record.parse = last.parse
      BY <1>0 DEF Records
    <2>4. failed.text = r /\ failed.parse = "failed"
      BY <1>0 DEF Records
    <2>5. CASE outcome = "success"
      <3>1. /\ pc' = "finally"
            /\ last' = [record EXCEPT
                          !.parse = "success", !.success = TRUE,
                          !.fallback = FALSE, !.error = FALSE,
                          !.status = IF attempt > 0 THEN "retry_success" ELSE "success"]
        BY <1>3, <2>5 DEF RequestAnswered
      <3>2. last'.text = r /\ last'.parse = "success"
        BY <1>0, <3>1 DEF Records
      <3>. QED
        BY <2>2, <2>5, <3>1, <3>2 DEF AcceptInv, AcceptsExactly, Working
    <2>6. CASE outcome = "fallback"
      <3>1. NextAttempt(failed) \/ last' = [failed EXCEPT !.status = "success"]
        BY <1>3, <2>6 DEF RequestAnswered
      <3>2. last'.text = r /\ last'.parse = "failed"
        BY <1>0, <2>4, <3>1 DEF NextAttempt, Records
      <3>. QED
        BY <2>2, <2>6, <3>2 DEF AcceptInv, AcceptsExactly
    <2>7. CASE outcome = "raises"
      <3>1. last' = record
        BY <1>3, <2>7 DEF RequestAnswered
      <3>. QED
        BY <2>1, <2>2, <2>3, <2>7, <3>1 DEF AcceptInv, AcceptsExactly
    <2>. QED
      BY <2>2, <2>5, <2>6, <2>7
  <1>4. CASE Recover \/ Rebuild
    <2>1. last.parse # "success"
      BY <1>4 DEF Recover, Rebuild, AcceptInv, Working
    <2>2. NextAttempt(last) \/ last' = last
      BY <1>4 DEF Recover, Rebuild
    <2>. QED
      BY <1>0, <2>1, <2>2, NextAttemptText, SameTextKeeps DEF SameText
  <1>5. CASE Finally \/ UNCHANGED vars
    <2>1. last' = last /\ (Working' => Working)
      BY <1>5 DEF Finally, vars, Working
    <2>. QED
      BY <2>1 DEF AcceptInv, AcceptsExactly
  <1>. QED
    BY <1>1, <1>2, <1>3, <1>4, <1>5 DEF Next, CallStep

\* For every set of texts and every number of detections: a text is taken for the
\* model's own exactly if it conforms to the schema and to the detections, by checks that
\* raise one after the other, some of them in the parser of a list.
THEOREM AcceptsExactlyAlways == Spec => []AcceptsExactly
  <1>1. Init => AcceptInv
    BY DEF Init, NotRun, AcceptInv, AcceptsExactly, Working
  <1>2. AcceptInv => AcceptsExactly
    BY DEF AcceptInv
  <1>. QED
    BY <1>1, <1>2, StepAccept, GenerationInvariant, PTL DEF Spec
=============================================================================
