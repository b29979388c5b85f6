--------------------------- MODULE MCCatalogSupply ---------------------------
(***************************************************************************)
(* Bounds for CatalogSupply: a fact that is shipped and one that is        *)
(* reported, approved and published later, and two fetches.  The queue has *)
(* room for a report, evidence for it and one approval, after any number   *)
(* of torn writes that a later one has ended.                              *)
(***************************************************************************)
EXTENDS CatalogSupply, TLC

CONSTANTS base, reported, f1, f2

Fetches == Permutations({f1, f2})
=============================================================================
