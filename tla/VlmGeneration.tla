--------------------------- MODULE VlmGeneration ---------------------------
(***************************************************************************)
(* VlmService.describe_defects: requests to Ollama with retries, the       *)
(* recovery from a response without a single token, the fallback text, and *)
(* the unloading of the model (service/vlm_service.py, vlm/vlm_client.py). *)
(*                                                                         *)
(* A service object makes one call after the other and keeps the record of *)
(* the last one.  Whatever Ollama does with a request is a choice.         *)
(***************************************************************************)
EXTENDS ResponseParser

CONSTANTS
    Replies,    \* texts the model may write
    Described,  \* how many detections the prompt asks for
    MaxRetries, \* VlmService.max_retries
    None        \* no text, no preparation info

ASSUME RepliesAreTexts == Replies \subseteq ResponseTexts
ASSUME RetriesAreCounted == MaxRetries \in Nat
ASSUME SomeDescribed == Described \in Nat \ {0}

VARIABLES
    pc,         \* where the call is
    attempt,    \* attempt_index
    images,     \* the size of current_image_bytes_list
    requests,   \* the sizes of the images of the requests of this call
    used,       \* a request was sent after the last attempt to unload
    last,       \* the attributes last_*
    prep,       \* last_preparation_info
    result      \* what the last call has returned or raised

vars == <<pc, attempt, images, requests, used, last, prep, result>>

Places == {"idle", "request", "recover", "rebuild", "finally"}
Sizes == {"normal", "small"}
Failures == {"zero_value", "empty_content", "value_error", "runtime_error"}

\* text: last_raw_response; raw: the request it answers, 0 for none.
NotRun == [status |-> "not_run", parse |-> "not_attempted", raw |-> 0, text |-> None,
           success |-> FALSE, fallback |-> FALSE, retries |-> 0, reasons |-> <<>>,
           error |-> FALSE]

Text(own) == [kind |-> "text", own |-> own, from |-> Len(requests')]
Nothing == [kind |-> "nothing", own |-> FALSE, from |-> 0]
Raised(what) == [kind |-> what, own |-> FALSE, from |-> 0]

Init ==
    /\ pc = "idle"
    /\ attempt = 0
    /\ images = "normal"
    /\ requests = <<>>
    /\ used = FALSE
    /\ last = NotRun
    /\ prep = None
    /\ result = Nothing

\* A call resets the record.  It gives nothing if there is no detection, and
\* an exception if the images cannot be prepared; neither has an info.
Call ==
    /\ pc = "idle"
    /\ last' = NotRun
    /\ attempt' = 0 /\ images' = "normal" /\ requests' = <<>>
    /\ \/ /\ result' \in {Nothing, Raised("images")}
          /\ prep' = None
          /\ UNCHANGED pc
       \/ /\ prep' = [size |-> "normal", recovery |-> FALSE]
          /\ pc' = "request"
          /\ UNCHANGED result
    /\ UNCHANGED used

Send == requests' = Append(requests, images) /\ used' = TRUE

\* The loop is left by a return: the fallback after its end is never reached.
RetriesLeft == attempt < MaxRetries

\* The next round of the loop.
NextAttempt(record) ==
    /\ attempt' = attempt + 1
    /\ last' = [record EXCEPT !.status = "retrying", !.retries = attempt + 1]

RecordFallback(record) ==
    /\ last' = [record EXCEPT !.raw = 0, !.text = None,
                              !.parse = "not_attempted", !.success = FALSE, !.fallback = TRUE]
    /\ result' = Text(FALSE)

\* The request ends in an OllamaContentError, a ValueError or a RuntimeError.
RequestFails(failure) ==
    /\ pc = "request"
    /\ Send
    /\ LET record == [last EXCEPT !.status = failure, !.error = TRUE,
                                  !.reasons = Append(@, failure)]
       IN  \/ /\ RetriesLeft /\ failure = "zero_value"
              /\ last' = record
              /\ pc' = "recover"
              /\ UNCHANGED <<attempt, result>>
           \/ /\ RetriesLeft /\ failure # "zero_value"
              /\ NextAttempt(record)
              /\ UNCHANGED <<pc, result>>
           \/ /\ ~RetriesLeft
              /\ RecordFallback(record)
              /\ pc' = "finally"
              /\ UNCHANGED attempt
    /\ UNCHANGED <<images, prep>>

\* The model is unloaded, or is not; only the first time the images are made
\* smaller.
Recover ==
    /\ pc = "recover"
    /\ used' = FALSE
    /\ IF prep.recovery
       THEN pc' = "request" /\ NextAttempt(last)
       ELSE pc' = "rebuild" /\ UNCHANGED <<attempt, last>>
    /\ UNCHANGED <<images, requests, prep, result>>

\* Mutated form of Rebuild: the requests go on with the images they had.
RebuildUnused ==
    /\ pc = "rebuild"
    /\ prep' = [size |-> "small", recovery |-> TRUE]
    /\ pc' = "request" /\ NextAttempt(last)
    /\ UNCHANGED <<images, requests, used, result>>

\* Smaller images, or an exception of their preparation.
Rebuild ==
    /\ pc = "rebuild"
    /\ \/ /\ images' = "small"
          /\ prep' = [size |-> "small", recovery |-> TRUE]
          /\ pc' = "request" /\ NextAttempt(last)
          /\ UNCHANGED result
       \/ /\ result' = Raised("images")
          /\ pc' = "finally"
          /\ UNCHANGED <<images, prep, attempt, last>>
    /\ UNCHANGED <<requests, used>>

\* The request is answered with a text, which is parsed.
RequestAnswered(r) ==
    /\ pc = "request"
    /\ Send
    /\ LET outcome == ParseResponse(r, Described)
           record == [last EXCEPT !.raw = Len(requests'), !.text = r]
           failed == [record EXCEPT !.parse = "failed", !.success = FALSE,
                                    !.fallback = TRUE, !.error = TRUE,
                                    !.reasons = Append(@, "parse")]
       IN  \/ /\ outcome = "success"
              /\ last' = [record EXCEPT
                            !.parse = "success", !.success = TRUE,
                            !.fallback = FALSE, !.error = FALSE,
                            !.status = IF attempt > 0 THEN "retry_success" ELSE "success"]
              /\ result' = Text(TRUE)
              /\ pc' = "finally"
              /\ UNCHANGED attempt
           \/ /\ outcome = "fallback" /\ RetriesLeft
              /\ NextAttempt(failed)
              /\ UNCHANGED <<pc, result>>
           \/ /\ outcome = "fallback" /\ ~RetriesLeft
              /\ last' = [failed EXCEPT !.status = "success"]
              /\ result' = Text(FALSE)
              /\ pc' = "finally"
              /\ UNCHANGED attempt
           \/ /\ outcome = "raises"
              /\ last' = record
              /\ result' = Raised("parser")
              /\ pc' = "finally"
              /\ UNCHANGED attempt
    /\ UNCHANGED <<images, prep>>

\* Mutated form of Finally: an exception passes by the unloading.
FinallyOfResults ==
    /\ pc = "finally"
    /\ used' = (used /\ result.kind # "text")
    /\ pc' = "idle"
    /\ UNCHANGED <<attempt, images, requests, last, prep, result>>

\* However the loop is left, the model is unloaded, or Ollama declines.
Finally ==
    /\ pc = "finally"
    /\ used' = FALSE
    /\ pc' = "idle"
    /\ UNCHANGED <<attempt, images, requests, last, prep, result>>

CallStep ==
    \/ \E f \in Failures : RequestFails(f)
    \/ \E r \in Replies : RequestAnswered(r)
    \/ Recover \/ Rebuild \/ Finally

Next == Call \/ CallStep

Spec == Init /\ [][Next]_vars

-----------------------------------------------------------------------------
(* Properties.                                                             *)

Records ==
    [status : {"not_run", "retrying", "success", "retry_success"} \cup Failures,
     parse : {"not_attempted", "success", "failed"}, raw : Nat,
     text : Replies \cup {None},
     success : BOOLEAN, fallback : BOOLEAN, retries : 0 .. MaxRetries,
     reasons : Seq(Failures \cup {"parse"}), error : BOOLEAN]

\* Every variable keeps its type.
GenerationTypeOK ==
    /\ pc \in Places /\ attempt \in 0 .. MaxRetries /\ images \in Sizes
    /\ requests \in Seq(Sizes) /\ Len(requests) <= MaxRetries + 1
    /\ used \in BOOLEAN
    /\ last \in Records
    /\ prep \in [size : Sizes, recovery : BOOLEAN] \cup {None}
    /\ result \in [kind : {"text", "nothing", "images", "parser"}, own : BOOLEAN, from : Nat]

\* No call, whether it returns or raises, leaves the model as a request has left
\* it: the last thing Ollama is asked for is to unload it (the finally of
\* describe_defects).
UnloadedAtRest == pc = "idle" => ~used

\* The preparation info tells of the images that were last sent, the smaller
\* ones of a recovery included, and a recovery is for the rest of the call.
InfoTellsRequests ==
    (pc = "finally" /\ prep # None) =>
        /\ requests # <<>> /\ prep.size = requests[Len(requests)]
        /\ prep.recovery = (\E k \in DOMAIN requests : requests[k] = "small")
        /\ \A j, k \in DOMAIN requests :
              j < k /\ requests[j] = "small" => requests[k] = "small"

\* The record a caller reads after a call tells of that call and of no earlier
\* attempt or call: a call that returns leaves the text of its last request or
\* none, a text of the model's own is exactly a success, and every failed attempt
\* has a reason (describe_defects, _record_fallback).
RecordTellsCall ==
    pc = "idle" =>
        /\ last.raw \in 0 .. Len(requests)
        /\ last.success = result.own
        /\ result.own => last.raw = result.from
        /\ result.kind = "text" =>
              /\ last.raw \in {0, Len(requests)}
              /\ last.fallback = ~result.own
              /\ last.raw = 0 => last.parse = "not_attempted"
              /\ last.raw # 0 => last.parse # "not_attempted"
              /\ Len(last.reasons) + (IF result.own THEN 1 ELSE 0) = Len(requests)
              /\ last.retries = Len(requests) - 1

\* A text is taken for the model's description exactly if it conforms to the
\* schema and to the detections: the right number of them with ids in order,
\* whatever else is wrong with it (parse_vlm_response).
AcceptsExactly ==
    last.text # None =>
        (last.parse = "success" <=> Conforms(last.text, Described))

\* The records of a call tell what was asked and answered in it.
RecordsTellCall == GenerationTypeOK /\ InfoTellsRequests /\ RecordTellsCall
=============================================================================
