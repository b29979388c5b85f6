----------------------------- MODULE MCBaseline -----------------------------
(* Two processes at one cache, and connections of two pairs.               *)
EXTENDS Baseline, TLC

CONSTANTS c1, c2, p1, p2
MCConn == {c1, c2}
MCPair == {p1, p2}
MCHistory == << [kind |-> "decision", conn |-> None, pair |-> p1, at |-> 1, deny |-> FALSE,
                 length |-> 0] >>
MCSymmetry == Permutations(MCConn)
=============================================================================
