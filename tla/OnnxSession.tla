----------------------------- MODULE OnnxSession -----------------------------
(***************************************************************************)
(* service/onnx_detector.py, OnnxDetector: the session is created by the   *)
(* first call of detect that gets so far, and kept whatever that call made *)
(* of it.                                                                  *)
(*                                                                         *)
(* ONNX Runtime and PyTorch are modelled by what they answer.  ORT refuses *)
(* to run a session without the names of its one input and one output, on  *)
(* an input of another type, or of another size than a fixed one.          *)
(***************************************************************************)
EXTENDS Naturals, FiniteSets

CONSTANTS
    Models,     \* the kinds of model that the file may hold
    NoSession

ASSUME ModelsAreDescribed ==
    Models \subseteq [tensors : {"one", "two"},       \* inputs and outputs
                      type : {"float", "double"},
                      input : {"fixed", "dynamic", "partly", "other"},
                      channels : {"fixed", "dynamic"}, \* as declared
                      classes : BOOLEAN]    \* as many as the class names

VARIABLES
    file,       \* the model in the file, or NoSession for no file
    wanted,     \* requested_provider is CUDA's, and require_cuda
    session,    \* the session kept: its model, and whether it has CUDA
    named,      \* _input_name and _output_name are set
    validated,  \* the load of the session returned
    answer      \* what the last call of detect did, and whether it loaded

sessionVars == <<file, wanted, session, named, validated, answer>>

SessionInit ==
    /\ file \in Models \cup {NoSession}
    /\ wanted \in [cuda : BOOLEAN, required : BOOLEAN]
    /\ session = NoSession /\ named = FALSE /\ validated = FALSE
    /\ answer = [outcome |-> "none", loads |-> FALSE]

\* The model file is replaced or removed while the program runs.
ReplaceFile ==
    /\ file' \in Models \cup {NoSession}
    /\ UNCHANGED <<wanted, session, named, validated, answer>>

\* The types and shapes that are checked.  A declared size is compared as a
\* whole, so that a partly dynamic one is refused.
ValidateShapes(model) ==
    /\ model.type = "float"
    /\ model.input \in {"fixed", "dynamic"}
    /\ model.channels = "fixed" => model.classes

\* session.run and postprocess_output go through with a model.
RunAccepts(model) ==
    /\ model.type = "float" /\ model.input # "other"
    /\ model.classes

Answer(ok, loads) ==
    answer' = [outcome |-> IF ok THEN "ok" ELSE "raised", loads |-> loads]

\* The file is looked for although the session is kept.
DetectWithoutFile ==
    /\ file = NoSession
    /\ Answer(FALSE, FALSE)
    /\ UNCHANGED <<file, wanted, session, named, validated>>

\* The session is kept: nothing of it is checked again.
DetectAgain ==
    /\ file # NoSession /\ session # NoSession
    /\ Answer(named /\ RunAccepts(session.model), FALSE)
    /\ UNCHANGED <<file, wanted, session, named, validated>>

\* Before there is a session a call may fail: in the preload of CUDA, if it is
\* required, in the import of ORT, or in the creation of the session and, if
\* CUDA is not required, of another one on the CPU.
LoadFails ==
    /\ file # NoSession /\ session = NoSession
    /\ Answer(FALSE, TRUE)
    /\ UNCHANGED <<file, wanted, session, named, validated>>

\* The session of a model may be on the CPU although CUDA was asked for: the
\* provider is not there, its session could not be created and CUDA is not
\* required, or ORT left it out.
Sessions(model) ==
    {[model |-> model, cuda |-> c] : c \in IF wanted.cuda THEN BOOLEAN ELSE {FALSE}}

\* Mutated form of Passes: the provider is not looked at.
PassesOnCpu(made) == made.model.tensors = "one" /\ ValidateShapes(made.model)

\* The checks of the session, when it is kept already.
Passes(made) ==
    /\ wanted.required => made.cuda
    /\ made.model.tensors = "one" /\ ValidateShapes(made.model)

\* The names are set before the types and the shapes are checked.
Named(made) == (wanted.required => made.cuda) /\ made.model.tensors = "one"

DetectLoads ==
    /\ file # NoSession /\ session = NoSession
    /\ session' \in Sessions(file)
    /\ named' = Named(session')
    /\ validated' = Passes(session')
    /\ Answer(validated' /\ RunAccepts(file), TRUE)
    /\ UNCHANGED <<file, wanted>>

\* detect_timed; an image that cannot be read changes nothing.
DetectTimed == DetectWithoutFile \/ DetectAgain \/ LoadFails \/ DetectLoads

SessionNext == ReplaceFile \/ DetectTimed

-----------------------------------------------------------------------------
\* Detections only come of a model with one input and one output of floats and
\* as many channels as there are classes, also from a session that was refused
\* and kept.
AnswersAreUsable ==
    answer.outcome = "ok" =>
        /\ session.model.tensors = "one" /\ session.model.type = "float"
        /\ session.model.classes /\ session.model.input # "other"

\* A session that answers passed every check, CUDA included if it is required,
\* unless the call that made it raised and a later call uses it all the same.
UncheckedOnlyAfterRefusal ==
    answer.outcome = "ok" =>
        \/ /\ wanted.required => session.cuda
           /\ session.model.input \in {"fixed", "dynamic"}
        \/ ~validated /\ ~answer.loads

\* What may be relied on when a call returns detections.
AnswersAreChecked == AnswersAreUsable /\ UncheckedOnlyAfterRefusal
=============================================================================
