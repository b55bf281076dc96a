--------------------------- MODULE MCHistoryView ---------------------------
\* An instance of HistoryView for TLC.
EXTENDS HistoryView

CONSTANTS r1, r2

MCIds == {r1, r2}
=============================================================================
