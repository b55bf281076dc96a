--------------------------- MODULE DetectorCalls ---------------------------
(***************************************************************************)
(* What a detector backend promises the inspection service                 *)
(* (YoloDetector protocol, yolo/detector.py): every detect(image) ends,    *)
(* either with the detections of that very image or with an exception.     *)
(* How the detections are computed, by which process and after how many    *)
(* failed attempts, is not visible.                                        *)
(***************************************************************************)
CONSTANTS Callers, Images, None

VARIABLES
  pending,   \* pending[c]: the image c waits for, or None
  reply      \* reply[c]: how c's latest detect call ended

vars == <<pending, reply>>

NoReply == [kind |-> "none", image |-> None]
Raised == [kind |-> "raised", image |-> None]
Result(m) == [kind |-> "result", image |-> m]

Init ==
  /\ pending = [c \in Callers |-> None]
  /\ reply = [c \in Callers |-> NoReply]

Detect(c, m) ==
  /\ pending[c] = None
  /\ pending' = [pending EXCEPT ![c] = m]
  /\ reply' = [reply EXCEPT ![c] = NoReply]

Reply(c) ==
  /\ pending[c] # None
  /\ pending' = [pending EXCEPT ![c] = None]
  /\ reply' = [reply EXCEPT ![c] = Result(pending[c])]

Raise(c) ==
  /\ pending[c] # None
  /\ pending' = [pending EXCEPT ![c] = None]
  /\ reply' = [reply EXCEPT ![c] = Raised]

Next ==
  \E c \in Callers : (\E m \in Images : Detect(c, m)) \/ Reply(c) \/ Raise(c)

Spec == Init /\ [][Next]_vars /\ \A c \in Callers : WF_vars(Reply(c) \/ Raise(c))
=============================================================================
