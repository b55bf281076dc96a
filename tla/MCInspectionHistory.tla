------------------------ MODULE MCInspectionHistory ------------------------
(* Instances of InspectionHistory for TLC.                                 *)
EXTENDS InspectionHistory

CONSTANTS a1, a2, s1

OneApp == {a1}
TwoApps == {a1, a2}
OneSource == {s1}
NoSource == {}
=============================================================================
