---------------------------- MODULE MCPersistence ----------------------------
(***************************************************************************)
(* Bounds for Persistence: a shell, a cron and a tool that the crontab and *)
(* an rc file start, on two process numbers that are used again.           *)
(***************************************************************************)
EXTENDS Persistence

MCCrontabLine == [n \in Name |-> IF n = "tool" THEN "line" ELSE None]
MCHook        == [n \in Name |-> IF n = "tool" THEN {".zshrc"} ELSE {}]
=============================================================================
