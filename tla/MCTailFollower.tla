--------------------------- MODULE MCTailFollower ---------------------------
(* Three files, so that the log is rotated while the last rotation is not  *)
(* yet noticed, and two lines each, so that one can be missed before one   *)
(* that is printed.                                                        *)
EXTENDS TailFollower
=============================================================================
