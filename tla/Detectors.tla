------------------------------ MODULE Detectors ------------------------------
(***************************************************************************)
(* The Python ONNX detector's session, the decoding that it shares with    *)
(* the C++ detectors, and the exchange of detectors by the settings: each  *)
(* runs alone, the variables of the others stay as they are.               *)
(***************************************************************************)
EXTENDS OnnxSession, OnnxDecoding, DetectorExchange

VARIABLE part

vars == <<part, sessionVars, decodingVars, exchangeVars>>

Init ==
    /\ part \in {"session", "decoding", "exchange"}
    /\ SessionInit /\ (part # "session" => file = NoSession /\ ~wanted.cuda /\ ~wanted.required)
    /\ DecodingInit
    /\ ExchangeInit
    /\ part # "exchange" =>
           files = {} /\ known.backend = "pytorch" /\ store = CHOOSE s \in Settings : TRUE

Next ==
    \/ /\ part = "session" /\ SessionNext
       /\ UNCHANGED <<part, decodingVars, exchangeVars>>
    \/ /\ part = "decoding" /\ DecodingNext
       /\ UNCHANGED <<part, sessionVars, exchangeVars>>
    \/ /\ part = "exchange" /\ ExchangeNext
       /\ UNCHANGED <<part, sessionVars, decodingVars>>

Spec == Init /\ [][Next]_vars
=============================================================================
