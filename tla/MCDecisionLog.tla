--------------------------- MODULE MCDecisionLog ---------------------------
(***************************************************************************)
(* Bounds for DecisionLog.  The entries of MCDecisionLog.cfg fill two      *)
(* segments and leave one to the live file, with a crash, a failing system *)
(* call and a reader anywhere between their steps.                         *)
(***************************************************************************)
EXTENDS DecisionLog
=============================================================================
