---------------------------- MODULE AtomicStores ----------------------------
(***************************************************************************)
(* What the user's stores promise their callers: an operation happens at   *)
(* once, at most once, between its call and its return; one that returns   *)
(* an error has not happened; nothing else ever changes a file.            *)
(*                                                                         *)
(* That holds of an operation that meets no other process on its store.    *)
(* One that does may put back what it saw at its call, so that an update   *)
(* in between is lost, but never a part of a file; and on the stores in    *)
(* Fixed nothing is promised until those who met have returned.            *)
(***************************************************************************)
CONSTANTS Actor, Store, Op, Content, None,
          Daemon,     \* the actors that are in one process
          Fixed       \* the stores whose users also share a temporary file

VARIABLES file,    \* the content of each store
          call,    \* the operation each actor is in, or None
          done,    \* the actors whose operation has happened
          plan,    \* what each actor's operation would make of what it saw at its call
          met      \* the actors whose operation met another process on its store

vars == <<file, call, done, plan, met>>

SameProcess(a, b) == a = b \/ {a, b} \subseteq Daemon

(* What an operation makes of the content c of its store. *)
After(o, c) ==
    IF o.kind = "add" THEN c \cup ({o.key} \X o.hosts) ELSE c \ ({o.key} \X o.hosts)

Init ==
    /\ file = [s \in Store |-> {}]
    /\ call = [a \in Actor |-> None]
    /\ done = {}
    /\ plan = [a \in Actor |-> {}]
    /\ met = {}

Invoke(a, o) ==
    /\ call[a] = None
    /\ call' = [call EXCEPT ![a] = o]
    /\ LET bs == {b \in Actor : call[b] # None /\ call[b].store = o.store /\ ~SameProcess(a, b)}
       IN met' = met \cup bs \cup (IF bs = {} THEN {} ELSE {a})
    /\ plan' = [plan EXCEPT ![a] = After(o, file[o.store])]
    /\ UNCHANGED <<file, done>>

TakeEffect(a) ==
    /\ call[a] # None /\ a \notin done
    /\ LET s == call[a].store IN
       \E c \in Content :
           /\ a \notin met => c = After(call[a], file[s])
           /\ a \in met /\ s \notin Fixed => c = plan[a]
           /\ file' = [file EXCEPT ![s] = c]
    /\ done' = done \cup {a}
    /\ UNCHANGED <<call, plan, met>>

(* What was renamed is written to, or is the other's unfinished file. *)
Spoil(a) ==
    /\ a \in met /\ call[a] # None /\ call[a].store \in Fixed
    /\ \E c \in Content : file' = [file EXCEPT ![call[a].store] = c]
    /\ UNCHANGED <<call, done, plan, met>>

Return(a) ==
    /\ a \in done
    /\ call' = [call EXCEPT ![a] = None]
    /\ plan' = [plan EXCEPT ![a] = {}]
    /\ done' = done \ {a} /\ met' = met \ {a}
    /\ UNCHANGED file

GiveUp(a) ==
    /\ call[a] # None /\ a \notin done
    /\ call' = [call EXCEPT ![a] = None]
    /\ plan' = [plan EXCEPT ![a] = {}] /\ met' = met \ {a}
    /\ UNCHANGED <<file, done>>

(* A process dies: its operations have happened or have not. *)
Die(dead) ==
    /\ call' = [a \in Actor |-> IF a \in dead THEN None ELSE call[a]]
    /\ plan' = [a \in Actor |-> IF a \in dead THEN {} ELSE plan[a]]
    /\ done' = done \ dead /\ met' = met \ dead
    /\ UNCHANGED file

Next ==
    \/ \E a \in Actor : TakeEffect(a) \/ Spoil(a) \/ Return(a) \/ GiveUp(a)
    \/ \E a \in Actor, o \in Op : Invoke(a, o)
    \/ \E dead \in SUBSET Actor : Die(dead)

Spec == Init /\ [][Next]_vars
=============================================================================
