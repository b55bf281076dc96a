-------------------------- MODULE MCInspectionRun --------------------------
\* Instances of InspectionRun for TLC: folders of none to three images.
EXTENDS InspectionRun

MCFolders == {0, 1, 3}
=============================================================================
