--------------------------- MODULE MCInstallation ---------------------------
(* Two ports, so that a second install can replace the daemon but not the  *)
(* rules.  Every field is finite: nothing needs a bound.                   *)
EXTENDS Installation
=============================================================================
