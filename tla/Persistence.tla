----------------------------- MODULE Persistence -----------------------------
(***************************************************************************)
(* internal/persist, and attributePersistence of internal/daemon: what     *)
(* launched the process behind a connection (a launchd job, cron, a hook   *)
(* in a shell's rc file, a session), and when that source was first seen.  *)
(*                                                                         *)
(* A connection's goroutine looks at the machine several times, through    *)
(* one command after the other, while processes come and go and their      *)
(* numbers are used again.  The times of the sources are kept in a ledger  *)
(* file, the answers in memory by process.                                 *)
(***************************************************************************)
EXTENDS Naturals, Sequences

CONSTANTS Reader,        \* the goroutines that attribute
          Pid,           \* the numbers of processes, above 1, which is launchd
          Name,          \* the names of programs
          Shell,         \* knownShells, among them
          Cron,          \* "cron" and "crond", among them
          Job,           \* the labels of launchd jobs
          CrontabLine,   \* the line of the crontab that runs a program, or None
          Hook,          \* the rc files' lines that start a program in the background
          MaxAncestors,  \* maxAncestorDepth
          MaxBirths, MaxCalls, MaxTime,     \* bounds
          None

ASSUME PersistenceAssumption ==
    /\ Pid \subseteq Nat \ {0, 1} /\ Shell \cup Cron \subseteq Name
    /\ DOMAIN CrontabLine = Name /\ DOMAIN Hook = Name
    /\ {MaxAncestors, MaxBirths, MaxCalls, MaxTime} \subseteq Nat

VARIABLES
    process,   \* the process of each number, or None: [ppid, name, job]
    births,    \* counter bounded by MaxBirths
    now,       \* the clock, bounded by MaxTime
    ledger,    \* the file: the time each source was first seen
    cache,     \* persistenceCache, by process: what was answered, "nil" after an error
    reader,    \* each goroutine: its pc, the process it was asked about and what it has found
    calls,     \* counter bounded by MaxCalls
    told       \* history: the first sights that calls were told, each with whose process it was

machine == <<process, births, now>>
vars    == <<machine, ledger, cache, reader, calls, told>>

Idle == [pc |-> "idle", key |-> None, call |-> 0, chain |-> <<>>, found |-> None,
         seen |-> <<>>, first |-> 0]

Init ==
    /\ process = [p \in Pid |-> None] /\ births = 0 /\ now = 1
    /\ ledger = [s \in {} |-> 0] /\ cache = [k \in {} |-> None]
    /\ reader = [r \in Reader |-> Idle] /\ calls = 0 /\ told = {}

Tick == now < MaxTime /\ now' = now + 1
        /\ UNCHANGED <<process, births, ledger, cache, reader, calls, told>>

-----------------------------------------------------------------------------
(* The machine.                                                            *)

Alive == {p \in Pid : process[p] # None}

\* launchd's own children may be jobs.
Spawn(p) ==
    /\ p \notin Alive /\ births < MaxBirths /\ births' = births + 1
    /\ \E parent \in Alive \cup {1}, n \in Name, j \in Job \cup {None} :
          /\ j # None => parent = 1
          /\ process' = [process EXCEPT ![p] = [ppid |-> parent, name |-> n, job |-> j]]
    /\ UNCHANGED <<now, ledger, cache, reader, calls, told>>

\* What a process leaves behind becomes launchd's.
Exit(p) ==
    /\ p \in Alive
    /\ process' = [q \in Pid |-> IF q = p THEN None
                                 ELSE IF q \in Alive /\ process[q].ppid = p
                                      THEN [process[q] EXCEPT !.ppid = 1] ELSE process[q]]
    /\ UNCHANGED <<births, now, ledger, cache, reader, calls, told>>

-----------------------------------------------------------------------------
(* attributePersistence.                                                   *)

KeyOf(p) == [pid |-> p, ppid |-> process[p].ppid, name |-> process[p].name]

To(r, s) == reader' = [reader EXCEPT ![r] = s]

\* What a call is told, of sources that have a first sight.
Telling(answer, key, call) ==
    IF answer = None \/ answer.first = 0 THEN {}
    ELSE {[source |-> answer.source, first |-> answer.first, new |-> answer.new,
           key |-> key, call |-> call]}

\* A connection of a process, looked up a moment ago, asks; the cache may answer at once,
\* and a source that was new when it was cached is then told as new again.
Ask(r, p) ==
    /\ reader[r].pc = "idle" /\ p \in Alive /\ calls < MaxCalls /\ calls' = calls + 1
    /\ IF KeyOf(p) \in DOMAIN cache
       THEN told' = told \cup Telling(cache[KeyOf(p)], KeyOf(p), calls') /\ UNCHANGED reader
       ELSE /\ To(r, [Idle EXCEPT !.pc = "asked", !.key = KeyOf(p), !.call = calls'])
            /\ UNCHANGED told
    /\ UNCHANGED <<machine, ledger, cache>>

\* What is answered is remembered, an error (None) too, whatever another goroutine has put
\* there meanwhile.
Answered(r, answer) ==
    /\ cache' = [k \in DOMAIN cache \cup {reader[r].key} |->
                    IF k = reader[r].key THEN answer ELSE cache[k]]
    /\ told' = told \cup Telling(answer, reader[r].key, reader[r].call)
    /\ To(r, Idle)

Error(r) == Answered(r, None) /\ UNCHANGED <<machine, ledger, calls>>

\* A source that is not persistent has no first sight.
Classified(r, kind) ==
    /\ Answered(r, [source |-> <<kind, None>>, first |-> 0, new |-> "known"])
    /\ UNCHANGED <<machine, ledger, calls>>

Persistent(r, kind, label) ==
    /\ To(r, [reader[r] EXCEPT !.pc = "found", !.found = <<kind, label>>,
                                        !.chain = <<>>])
    /\ UNCHANGED <<machine, ledger, cache, calls, told>>

-----------------------------------------------------------------------------
(* classify.                                                               *)

InTable(p) == p \in Alive
Row(p)     == [pid |-> p, name |-> process[p].name]

\* ancestorChain: from the process, or if it is gone from its parent as it was, upwards.
Chain(key) ==
    LET up[n \in 0..MaxAncestors] ==
            IF n = 0
            THEN IF InTable(key.pid) THEN [rows |-> <<Row(key.pid)>>,
                                           at   |-> process[key.pid].ppid]
                 ELSE [rows |-> <<>>, at |-> key.ppid]
            ELSE LET below == up[n - 1] IN
                 IF below.at = 1 \/ ~InTable(below.at) THEN below
                 ELSE [rows |-> Append(below.rows, Row(below.at)),
                       at   |-> process[below.at].ppid]
    IN  up[MaxAncestors].rows

Rows(r)  == DOMAIN reader[r].chain
At(r, i) == reader[r].chain[i]
Least(S) == CHOOSE i \in S : \A j \in S : i <= j

\* The process table, in one snapshot.
ListProcesses(r) ==
    /\ reader[r].pc = "asked"
    /\ To(r, [reader[r] EXCEPT !.pc = "chain", !.chain = Chain(reader[r].key)])
    /\ UNCHANGED <<machine, ledger, cache, calls, told>>

ListFails(r) == reader[r].pc = "asked" /\ Error(r)

Crons(r)  == {i \in Rows(r) : At(r, i).name \in Cron}
Shells(r) == {i \in Rows(r) : At(r, i).name \in Shell}

\* What the chain is, if no ancestor is among the jobs: a failing launchctl has none.
WithoutJobs(r) ==
    CASE Crons(r) # {} -> /\ To(r, [reader[r] EXCEPT !.pc = "cron"])
                          /\ UNCHANGED <<machine, ledger, cache, calls, told>>
      [] Crons(r) = {} /\ Shells(r) # {} ->
                          /\ To(r, [reader[r] EXCEPT !.pc = "shell"])
                          /\ UNCHANGED <<machine, ledger, cache, calls, told>>
      [] OTHER         -> Classified(r, "unknown")

Jobs(r) == {i \in Rows(r) : LET p == At(r, i).pid
                            IN  p \in Alive /\ process[p].job # None}

ListJobs(r) ==
    /\ reader[r].pc = "chain"
    /\ IF Jobs(r) = {} THEN WithoutJobs(r)
       ELSE Persistent(r, "launchd", process[At(r, Least(Jobs(r))).pid].job)

JobsFail(r) == reader[r].pc = "chain" /\ WithoutJobs(r)

\* cronLabelFor: what the child of the first cron runs now, or its line in the crontab if
\* that can be read; where it cannot be told what it runs, the same of the next cron.
CronLabels(r) ==
    LET Label(p) == {process[p].name, CrontabLine[process[p].name]} \ {None}
        children == {At(r, i - 1).pid : i \in Crons(r) \ {1}} \cap Alive
    IN  {"unmatched"} \cup (IF 1 \in Crons(r) THEN {} ELSE UNION {Label(p) : p \in children})

LabelCron(r) ==
    /\ reader[r].pc = "cron"
    /\ \E label \in CronLabels(r) : Persistent(r, "cron", label)

\* matchRCHook: the first of the chain that has a line in some file.
Hooked(r) == {i \in Rows(r) : Hook[At(r, i).name] # {}}

MatchHook(r) ==
    /\ reader[r].pc = "shell"
    /\ IF Hooked(r) = {} THEN Classified(r, "session")
       ELSE \E line \in Hook[At(r, Least(Hooked(r))).name] : Persistent(r, "rc_hook", line)

\* The home directory, or some of the files in it, cannot be read.
HookFails(r) ==
    /\ reader[r].pc = "shell"
    /\ \/ Classified(r, "session")
       \/ \E i \in Hooked(r) : \E line \in Hook[At(r, i).name] : Persistent(r, "rc_hook", line)

-----------------------------------------------------------------------------
(* recordFirstSeen: load, add and save, under storeMu.                     *)

\* "stuck" is where KeepsLock below would leave a goroutine.
Holds(r) == reader[r].pc \in {"loaded", "stuck"}

\* mutant: the mutex is taken for the writing only
LoadUnlocked(r) ==
    /\ reader[r].pc = "found"
    /\ To(r, [reader[r] EXCEPT !.pc = "loaded", !.seen = ledger])
    /\ UNCHANGED <<machine, ledger, cache, calls, told>>

Load(r) ==
    /\ reader[r].pc = "found" /\ \A q \in Reader : ~Holds(q)
    /\ To(r, [reader[r] EXCEPT !.pc = "loaded", !.seen = ledger])
    /\ UNCHANGED <<machine, ledger, cache, calls, told>>

Attributed(r, first, new) ==
    Answered(r, [source |-> reader[r].found, first |-> first, new |-> new])

Known(r) ==
    /\ reader[r].pc = "loaded" /\ reader[r].found \in DOMAIN reader[r].seen
    /\ Attributed(r, reader[r].seen[reader[r].found], "known")
    /\ UNCHANGED <<machine, ledger, calls>>

\* Written to a temporary file and renamed; no other process writes this file.
Save(r) ==
    /\ reader[r].pc = "loaded" /\ reader[r].found \notin DOMAIN reader[r].seen
    /\ ledger' = [s \in DOMAIN reader[r].seen \cup {reader[r].found} |->
                     IF s = reader[r].found THEN now ELSE reader[r].seen[s]]
    /\ To(r, [reader[r] EXCEPT !.pc = "saved", !.seen = <<>>, !.first = now])
    /\ UNCHANGED <<machine, cache, calls, told>>

Saved(r) ==
    /\ reader[r].pc = "saved"
    /\ Attributed(r, reader[r].first, "new")
    /\ UNCHANGED <<machine, ledger, calls>>

\* mutant: an error leaves with the mutex
KeepsLock(r) ==
    /\ reader[r].pc = "loaded"
    /\ To(r, [reader[r] EXCEPT !.pc = "stuck"])
    /\ UNCHANGED <<machine, ledger, cache, calls, told>>

\* Reading or writing fails.
LedgerFails(r) == reader[r].pc = "loaded" /\ Error(r)

-----------------------------------------------------------------------------
KillDaemon ==
    /\ reader' = [r \in Reader |-> Idle] /\ cache' = [k \in {} |-> None]
    /\ UNCHANGED <<machine, ledger, calls, told>>

Step(r) ==
    \/ ListProcesses(r) \/ ListFails(r) \/ ListJobs(r) \/ JobsFail(r)
    \/ LabelCron(r) \/ MatchHook(r) \/ HookFails(r)
    \/ Load(r) \/ Known(r) \/ Save(r) \/ Saved(r) \/ LedgerFails(r)

Next ==
    \/ Tick \/ KillDaemon
    \/ \E p \in Pid : Spawn(p) \/ Exit(p)
    \/ \E r \in Reader, p \in Pid : Ask(r, p)
    \/ \E r \in Reader : Step(r)

Spec == Init /\ [][Next]_vars

\* Every command that is run has a deadline (shelloutTimeout), at which it is killed; what
\* it may have started itself is assumed not to hold its output open after that.
Fairness == \A r \in Reader : WF_vars(Step(r))
FairSpec == Spec /\ Fairness

-----------------------------------------------------------------------------
(* Properties.                                                             *)

(* A source has one first sight: whoever asks, before or after a restart   *)
(* of the daemon, is told the same time, and only connections of one       *)
(* process, as the cache knows processes, are told that it is new: that of *)
(* the call that recorded it, and each one that is answered from the cache *)
(* since (recordFirstSeen, attributePersistence).                          *)
FirstSightIsUnique ==
    \A a, b \in told : a.source = b.source =>
        /\ a.first = b.first
        /\ a.new = "new" /\ b.new = "new" => a.key = b.key

(* Whatever fails, and whoever is writing the ledger, a connection gets    *)
(* its answer and can be logged (attributePersistence).                    *)
AttributionReturns ==
    \A r \in Reader : reader[r].pc # "idle" ~> reader[r].pc = "idle"
=============================================================================
