---------------------------- MODULE MCUserStores ----------------------------
(***************************************************************************)
(* Bounds for UserStores: two goroutines of the daemon and two commands,   *)
(* which meet on any store; a key with two hosts, so that an item gains a  *)
(* host while it is being approved.                                        *)
(***************************************************************************)
EXTENDS UserStores, TLC

CONSTANTS g1, g2, c1, c2, curl, api, cdn

MCFound == {<<curl, api>>, <<curl, cdn>>}

MCSymmetry == Permutations({g1, g2}) \cup Permutations({c1, c2}) \cup Permutations({api, cdn})
=============================================================================
