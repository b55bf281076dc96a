---------------------------- MODULE MCStatusCheck ----------------------------
(***************************************************************************)
(* An instance of StatusCheck for TLC.                                     *)
(***************************************************************************)
EXTENDS StatusCheck
=============================================================================
