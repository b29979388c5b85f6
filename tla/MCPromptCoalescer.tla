------------------------- MODULE MCPromptCoalescer -------------------------
(***************************************************************************)
(* Bounds for PromptCoalescer: three calls of one process, two of them to  *)
(* hosts of the same registered domain.                                    *)
(***************************************************************************)
EXTENDS PromptCoalescer

CONSTANTS c1, c2, c3, p1

MCHosts   == {"a.s3", "b.s3", "git"}
MCDomains == {"s3", "git"}
MCRegDom  == [h \in MCHosts |-> IF h = "git" THEN "git" ELSE "s3"]
MCProc    == [c \in Calls |-> p1]
MCHost    == [c \in Calls |-> CASE c = c2 -> "git" [] c = c3 -> "b.s3" [] OTHER -> "a.s3"]
=============================================================================
