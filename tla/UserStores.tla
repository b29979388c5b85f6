----------------------------- MODULE UserStores -----------------------------
(***************************************************************************)
(* The files a user's decisions are kept in: the review queue of changed   *)
(* binaries (internal/pending), the user catalog (cli/ratifywriter.go),    *)
(* the allowlist (cli/alwayswriter.go, cli/allow.go), the exempt list      *)
(* (cli/exempt.go) and the rejected pairs (internal/rejected).             *)
(*                                                                         *)
(* All work alike: read the whole file, change it, write a temporary file  *)
(* and rename it over the old one.  The goroutines of the daemon share a   *)
(* mutex per store; every command is a process of its own, no lock spans   *)
(* processes, and on the queue, the catalog and the allowlist they write   *)
(* to one temporary name.  The history met tells who is in an operation    *)
(* during which another process was in one on the same store.              *)
(***************************************************************************)
EXTENDS Naturals, FiniteSets

CONSTANTS Goroutine,     \* the goroutines of the daemon that write to a store
          Command,       \* commands, each a process
          Key, Host,     \* a binary, rule or list, and what is kept under it
          Found,         \* what enroll finds: a set of pairs of key and host
          MaxJobs,       \* bound: goroutine and command calls
          None

Store     == {"queue", "catalog", "allowlist", "exempt", "rejected"}
SharedTmp == {"queue", "catalog", "allowlist"}     \* path + ".tmp", the others CreateTemp
Live      == {"catalog", "allowlist"}              \* also kept in the daemon's memory
Actor     == Goroutine \cup Command
Elem      == Key \X Host
Torn      == {<<None, None>>}       \* what two writers have left, and nobody can read
Content   == (SUBSET Elem) \cup {Torn}
Op        == [store : Store, kind : {"add", "drop"}, key : Key, hosts : SUBSET Host]

ASSUME StoresAssumption ==
    /\ Found \subseteq Elem /\ MaxJobs \in Nat
    /\ Goroutine \cap Command = {} /\ None \notin Op /\ <<None, None>> \notin Elem
    /\ \A c \in Content : None # c

VARIABLES
    file,      \* the installed content of each store
    tmp,       \* the temporary file of each store with a fixed name: its content, or None
    live,      \* the daemon's memory of the stores in Live
    up,        \* the daemon is running
    todo,      \* the operations each actor still has to do
    listed,    \* the binaries an approval has read from the queue and not yet resolved
    op, pc,    \* the one it is in, and how far
    new,       \* what it read and will write
    handle,    \* where its open temporary file is: "closed", "tmp", "file" or "gone"
    jobs,      \* counter bounded by MaxJobs
    met,       \* history: who met another process on the store of its operation
    exposed,   \* history: of the stores in SharedTmp, what was kept or being added when two
               \* processes met, and has not been added by an undisturbed operation since
    recorded,  \* history: what Record has put in the queue
    answered   \* history: ... what a review has dismissed, or what came while an approval
               \* of the same binary was under way

local   == <<todo, listed, op, pc, new, handle>>
reviews == <<recorded, answered>>
history == <<met, exposed, reviews>>
vars    == <<file, tmp, live, up, local, jobs, history>>

Add(s, k, hs)  == [store |-> s, kind |-> "add",  key |-> k, hosts |-> hs]
Drop(s, k, hs) == [store |-> s, kind |-> "drop", key |-> k, hosts |-> hs]
Resolve(k)     == Drop("queue", k, Host)

\* What an operation adds.
Elems(o) == IF o.kind = "add" THEN {o.key} \X o.hosts ELSE {}

Atomic == INSTANCE AtomicStores
              WITH call <- [a \in Actor |-> IF pc[a] = "idle" THEN None ELSE op[a]],
                   done <- {a \in Actor : pc[a] = "installed"},
                   plan <- new, Daemon <- Goroutine, Fixed <- SharedTmp

Init ==
    /\ file = [s \in Store |-> {}] /\ tmp = [s \in SharedTmp |-> None]
    /\ live = [s \in Live |-> {}] /\ up = TRUE
    /\ todo = [a \in Actor |-> {}] /\ listed = [a \in Actor |-> {}]
    /\ op = [a \in Actor |-> None]
    /\ pc = [a \in Actor |-> "idle"] /\ new = [a \in Actor |-> {}]
    /\ handle = [a \in Actor |-> "closed"]
    /\ jobs = 0 /\ recorded = {} /\ answered = {}
    /\ met = {} /\ exposed = [s \in SharedTmp |-> {}]

-----------------------------------------------------------------------------
(* The calls: which operations each consists of.                           *)

Record == {{Add("queue", e[1], {e[2]})} : e \in Elem}
Ratify == {{Add("catalog", e[1], {e[2]})} : e \in Elem}
Always == {{Add("allowlist", e[1], {e[2]})} : e \in Elem}
Allow  == {{Add("allowlist", k, hs)} : k \in Key, hs \in (SUBSET Host) \ {{}}}
Exempt == {{Add("exempt", e[1], {e[2]})} : e \in Elem}
Unexempt == {{Drop("exempt", k, Host)} : k \in Key}
Enroll == {{Add("catalog", e[1], {e[2]}) : e \in Found}}

\* A torn queue lists nothing: review ends with an error before it does anything.
Queued  == file["queue"] \cap Elem
Listed  == {e[1] : e \in Queued}
Dismiss == {{Resolve(k)} : k \in Listed}
Approve == {Add("catalog", e[1], {e[2]}) : e \in Queued} \cup {Resolve(k) : k \in Listed}
Reject  == {{Add("rejected", e[1], {e[2]})} : e \in Elem}
Restore == {{Drop("rejected", e[1], {e[2]})} : e \in file["rejected"]}
Review  == IF file["queue"] = Torn THEN {} ELSE Dismiss \cup Reject \cup Restore

DaemonCalls  == Record \cup Ratify \cup Always
CommandCalls == Review \cup Allow \cup Exempt \cup Unexempt \cup Enroll

Idle(a) == pc[a] = "idle" /\ todo[a] = {}

Call(a, os) ==
    /\ Idle(a) /\ jobs < MaxJobs
    /\ todo' = [todo EXCEPT ![a] = os]
    /\ jobs' = jobs + 1
    /\ UNCHANGED <<file, tmp, live, up, op, pc, new, handle, history>>

DaemonCall(a)  == up /\ \E os \in DaemonCalls : Call(a, os) /\ UNCHANGED listed
RunCommand(a)  == \E os \in CommandCalls : Call(a, os) /\ UNCHANGED listed
RunApproval(a) == Call(a, Approve) /\ listed' = [listed EXCEPT ![a] = Listed]

-----------------------------------------------------------------------------
(* One operation: load, open the temporary file, write, rename, publish.   *)

SameProcess(a, b) == a = b \/ {a, b} \subseteq Goroutine

Using(s) == {b \in Actor : pc[b] # "idle" /\ op[b].store = s}

\* The mutex of a store inside the daemon.
Free(a, s) == \A b \in Using(s) \ {a} : ~SameProcess(a, b)

\* History: who meets whom, and what they may lose of each other's.
Meets(a, s) == {b \in Using(s) : ~SameProcess(a, b)}

Meeting(a, o) ==
    LET bs == Meets(a, o.store)  s == o.store IN
    /\ met' = met \cup bs \cup (IF bs = {} THEN {} ELSE {a})
    /\ exposed' =
          IF bs = {} \/ s \notin SharedTmp THEN exposed
          ELSE [exposed EXCEPT ![s] = @ \cup (file[s] \cap Elem) \cup Elems(o)
                                        \cup UNION {Elems(op[b]) : b \in bs}]

\* mutant: the queue may be cleared first
ReadyAtOnce(a, o) == TRUE

\* approveAll pins every host of a binary before it takes the binary off the queue; the
\* order of the binaries is the queue's, here any.
Ready(a, o) ==
    o.kind = "drop" => ~\E p \in todo[a] : p.kind = "add" /\ p.key = o.key

Satisfied(o) == o.store = "catalog" /\ Atomic!After(o, file["catalog"]) = file["catalog"]
Absent(o)    == o.store = "exempt" /\ o.kind = "drop" /\ ~\E e \in file["exempt"] : e[1] = o.key

\* mutant: the daemon believes its own operation before the file has it
LoadEarly(a, o) ==
    /\ pc[a] = "idle" /\ Ready(a, o) /\ Free(a, o.store)
    /\ op' = [op EXCEPT ![a] = o]
    /\ todo' = [todo EXCEPT ![a] = @ \ {o}]
    /\ new' = [new EXCEPT ![a] = Atomic!After(o, file[o.store])]
    /\ pc' = [pc EXCEPT ![a] = "loaded"]
    /\ live' = IF a \in Goroutine /\ o.store \in Live
               THEN [live EXCEPT ![o.store] = Atomic!After(o, @)] ELSE live
    /\ Meeting(a, o)
    /\ UNCHANGED <<file, tmp, up, listed, handle, jobs, reviews>>

Load(a, o) ==
    /\ pc[a] = "idle" /\ Ready(a, o) /\ Free(a, o.store) /\ Meeting(a, o)
    /\ op' = [op EXCEPT ![a] = o]
    /\ todo' = [todo EXCEPT ![a] = @ \ {o}]
    /\ new' = [new EXCEPT ![a] = Atomic!After(o, file[o.store])]
    /\ pc' = [pc EXCEPT ![a] = IF file[o.store] = Torn \/ Absent(o) THEN "failed"
                               ELSE IF Satisfied(o) THEN "present" ELSE "loaded"]
    /\ UNCHANGED <<file, tmp, live, up, listed, handle, jobs, reviews>>

\* Ratify adds to the file only what it lacks.
Skip(a) ==
    /\ pc[a] = "present"
    /\ pc' = [pc EXCEPT ![a] = "installed"]
    /\ UNCHANGED <<file, tmp, live, up, todo, listed, op, new, handle, jobs, history>>

Fixed(a) == op[a].store \in SharedTmp

\* mutant: the store is opened for writing itself
OpenInPlace(a) ==
    /\ pc[a] = "loaded"
    /\ pc' = [pc EXCEPT ![a] = "opened"]
    /\ handle' = [handle EXCEPT ![a] = "file"]
    /\ file' = [file EXCEPT ![op[a].store] = {}]
    /\ UNCHANGED <<tmp, live, up, todo, listed, op, new, jobs, history>>

Open(a) ==
    /\ pc[a] = "loaded"
    /\ pc' = [pc EXCEPT ![a] = "opened"]
    /\ handle' = [handle EXCEPT ![a] = "tmp"]
    /\ tmp' = IF Fixed(a) THEN [tmp EXCEPT ![op[a].store] = {}] ELSE tmp
    /\ UNCHANGED <<file, live, up, todo, listed, op, new, jobs, history>>

\* What is written from the start of a file that has the content c: it covers c, or leaves
\* its end, in which items may still be whole.
Over(c, d) == IF c = {} THEN {d} ELSE {Torn} \cup {d \cup t : t \in SUBSET (c \cap Elem)}

Write(a) ==
    /\ pc[a] = "opened"
    /\ pc' = [pc EXCEPT ![a] = "written"]
    /\ LET s == op[a].store IN
       /\ IF Fixed(a) /\ handle[a] = "tmp"
          THEN \E c \in Over(tmp[s], new[a]) : tmp' = [tmp EXCEPT ![s] = c]
          ELSE tmp' = tmp
       /\ IF handle[a] = "file"
          THEN \E c \in Over(file[s], new[a]) : file' = [file EXCEPT ![s] = c]
          ELSE file' = file
    /\ UNCHANGED <<live, up, todo, listed, op, new, handle, jobs, history>>

\* Renaming takes whatever is under the temporary name, which need not be what was opened;
\* a file still open under it goes with it.
Moved(b, s) ==
    IF pc[b] = "idle" THEN handle[b]
    ELSE IF op[b].store # s THEN handle[b]
    ELSE IF handle[b] = "tmp" THEN "file" ELSE "gone"

Rename(a) ==
    /\ pc[a] = "written" /\ (Fixed(a) => tmp[op[a].store] # None)
    /\ LET s == op[a].store IN
       /\ pc' = [pc EXCEPT ![a] = "installed"]
       /\ file' = [file EXCEPT ![s] = IF Fixed(a) THEN tmp[s] ELSE new[a]]
       /\ tmp' = IF Fixed(a) THEN [tmp EXCEPT ![s] = None] ELSE tmp
       /\ handle' = [b \in Actor |->
                        IF b = a \/ ~Fixed(a) THEN handle[b] ELSE Moved(b, s)]
       /\ answered' = answered \cup
             {e \in Queued : op[a] = Resolve(e[1]) /\ e[1] \notin listed[a]}
    /\ UNCHANGED <<live, up, todo, listed, op, new, jobs, met, exposed, recorded>>

InReview(k) == \E a \in Command : k \in listed[a]

Settle(a) ==
    /\ pc' = [pc EXCEPT ![a] = "idle"] /\ op' = [op EXCEPT ![a] = None]
    /\ handle' = [handle EXCEPT ![a] = "closed"] /\ new' = [new EXCEPT ![a] = {}]
    /\ met' = met \ {a}

\* The operation returns; that of the daemon has first told the daemon's memory.
Publish(a) ==
    /\ pc[a] = "installed"
    /\ LET o == op[a]  es == Elems(o) IN
       /\ live' = IF a \in Goroutine /\ o.store \in Live
                  THEN [live EXCEPT ![o.store] = @ \cup es] ELSE live
       /\ listed' = IF o = Resolve(o.key) THEN [listed EXCEPT ![a] = @ \ {o.key}] ELSE listed
       /\ exposed' = IF Fixed(a) /\ a \notin met THEN [exposed EXCEPT ![o.store] = @ \ es]
                     ELSE exposed
       /\ IF o.store = "queue"
          THEN /\ recorded' = recorded \cup es
               /\ answered' = IF InReview(o.key) THEN answered \cup es ELSE answered \ es
          ELSE UNCHANGED <<recorded, answered>>
    /\ Settle(a)
    /\ UNCHANGED <<file, tmp, up, todo, jobs>>

\* Reading, opening, writing or renaming fails: the rest of the call is abandoned.
Fail(a) ==
    /\ pc[a] \in {"loaded", "opened", "written", "failed"}
    /\ todo' = [todo EXCEPT ![a] = {}] /\ listed' = [listed EXCEPT ![a] = {}]
    /\ Settle(a)
    /\ UNCHANGED <<file, tmp, live, up, jobs, exposed, reviews>>

-----------------------------------------------------------------------------
(* A process may die at any point; the daemon starts from the files.       *)

Die(dead) ==
    /\ todo' = [a \in Actor |-> IF a \in dead THEN {} ELSE todo[a]]
    /\ listed' = [a \in Actor |-> IF a \in dead THEN {} ELSE listed[a]]
    /\ op' = [a \in Actor |-> IF a \in dead THEN None ELSE op[a]]
    /\ pc' = [a \in Actor |-> IF a \in dead THEN "idle" ELSE pc[a]]
    /\ new' = [a \in Actor |-> IF a \in dead THEN {} ELSE new[a]]
    /\ handle' = [a \in Actor |-> IF a \in dead THEN "closed" ELSE handle[a]]
    /\ met' = met \ dead
    /\ UNCHANGED <<file, tmp, jobs, exposed, reviews>>

KillCommand(a) == ~Idle(a) /\ Die({a}) /\ UNCHANGED <<live, up>>
KillDaemon     == up /\ up' = FALSE /\ Die(Goroutine) /\ UNCHANGED live

\* A file that cannot be parsed keeps the daemon from starting.
Start ==
    /\ ~up /\ up' = TRUE
    /\ \A s \in SharedTmp : file[s] # Torn
    /\ live' = [s \in Live |-> file[s]]
    /\ UNCHANGED <<file, tmp, local, jobs, history>>

Step(a) == \/ \E o \in todo[a] : Load(a, o)
           \/ Skip(a) \/ Open(a) \/ Write(a) \/ Rename(a) \/ Publish(a) \/ Fail(a)

Next ==
    \/ \E a \in Goroutine : DaemonCall(a)
    \/ \E a \in Command : RunCommand(a) \/ RunApproval(a) \/ KillCommand(a)
    \/ \E a \in Actor : Step(a)
    \/ KillDaemon
    \/ Start

Spec == Init /\ [][Next]_vars

-----------------------------------------------------------------------------
(* Properties.                                                             *)

(* Whatever crashes, every operation of every store happens at once        *)
(* between its call and its return, or fails and has not happened: the     *)
(* read, the temporary file and the rename of a writer are never seen      *)
(* apart, as long as no other process is in an operation on the store.     *)
(* One that is may undo what was done since it read; it leaves no file     *)
(* that no one wrote as a whole where temporary names are private (exempt, *)
(* rejected), and anything where they are shared (queue, catalog,          *)
(* allowlist), for as long as the two are there                            *)
(* (flushLocked, writeCatalogAtomic, writeTomlAtomic, Reject).             *)
AtomicStores == Atomic!Spec

(* The daemon's memory holds no pin and no rule that its file does not, so *)
(* that what a connection was allowed by is there after a restart (Ratify  *)
(* and alwaysWriter.add write the file first), save for what a command and *)
(* the daemon put at risk when they met on that file: nothing keeps enroll,*)
(* review --approve-all or allow from renaming an older content, or half a *)
(* file, over a ratification.                                              *)
LiveIsDurable == \A s \in Live : up => live[s] \subseteq file[s] \cup exposed[s]

(* What Record has put in the review queue is on the queue, pinned in the  *)
(* user catalog, or was dismissed, through approvals that stop or die half *)
(* way; unless it came while an approval of its binary was under way       *)
(* (approveAll resolves the binary, with hosts it has not listed), or was  *)
(* at risk when two processes met on the queue or on the catalog.          *)
ReviewKeepsHosts ==
    recorded \subseteq file["queue"] \cup file["catalog"] \cup answered
                        \cup exposed["queue"] \cup exposed["catalog"]
=============================================================================
