----------------------------- MODULE DurableLog -----------------------------
(***************************************************************************)
(* What a decision log without a retention limit promises its readers,     *)
(* whatever files it is spread over: what has been written whole is kept,  *)
(* and grows by one entry at a time, each younger than all before it.      *)
(***************************************************************************)
EXTENDS Naturals

CONSTANTS Entry        \* the entries, numbered in the order of their Writes

VARIABLES log          \* the entries that stand whole in the files

Init == log = {}

Append(e) ==
    /\ \A x \in log : x < e
    /\ log' = log \cup {e}

Next == \E e \in Entry : Append(e)

Spec == Init /\ [][Next]_log
=============================================================================
