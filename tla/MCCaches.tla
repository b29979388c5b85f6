------------------------------ MODULE MCCaches ------------------------------
(* Two readers of two subjects and room for one entry: what one reader     *)
(* stores is evicted or replaced while the other is between its look and   *)
(* its store.                                                              *)
EXTENDS Caches

CONSTANTS r1, r2, s1, s2
=============================================================================
