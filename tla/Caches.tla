------------------------------- MODULE Caches -------------------------------
(***************************************************************************)
(* What the daemon remembers of the outside while it decides: the hash of  *)
(* an executable (procid/exehash.go), its signature (signature/cache.go),  *)
(* the addresses of a host (dnsbind/dnsbind.go), and whether somebody is   *)
(* at the keyboard (idle/idle.go).                                         *)
(*                                                                         *)
(* The first three work alike: look under a lock, ask without it, store    *)
(* under it again; what they are asked about changes meanwhile.  They      *)
(* share nothing, so kind, which never changes, says which one is used.    *)
(* Time is kept as ages, which stop counting where they stop to matter.    *)
(***************************************************************************)
EXTENDS Integers, Sequences, FiniteSets, SequencesExt

CONSTANTS Reader,        \* goroutines that handle connections
          Subject,       \* executables, or hosts
          MaxEntries,    \* CachingVerifier.max
          TTL, Timeout,  \* Binder.ttl and timeout
          ProbeTTL, MaxAge, ProbeTimeout,   \* of the idle probe
          BackoffSteps,  \* how many failures double the delay (5)
          MaxChanges,    \* bound: changes of all subjects
          Unset

ASSUME CachesAssumption ==
    /\ MaxEntries \in Nat \ {0} /\ TTL \in Nat \ {0} /\ Timeout \in Nat
    /\ ProbeTTL \in Nat \ {0} /\ MaxAge \in Nat /\ ProbeTimeout \in Nat
    /\ BackoffSteps \in Nat /\ MaxChanges \in Nat

Kinds == {"hash", "signature", "dns", "idle"}
Error == -1   \* no version

VARIABLES
    kind,
    version,   \* what is at a path now
    mtime,     \* the modification time of each version, by the first version that had it
    entry,     \* the cache
    lru,       \* CachingVerifier.lru, the most recent first
    reader,    \* the call each goroutine is in
    current,   \* history: the versions a reader's subject had during its call
    idle,      \* idle.Cached
    probe,     \* the refresh under way
    working    \* the idle probe can be read

lookups    == <<version, mtime, entry, lru, reader, current>>
cachesVars == <<kind, lookups, idle, probe, working>>

NoCall  == [pc |-> "idle", subject |-> Unset, key |-> Unset, val |-> Error, age |-> 0, clock |-> 0]
NoProbe == [pc |-> "none", age |-> 0, clock |-> 0]

CachesInit ==
    /\ kind \in Kinds /\ version = [s \in Subject |-> 0]
    /\ mtime = [s \in Subject |-> [v \in {0} |-> 0]]
    /\ entry = [k \in {} |-> Unset] /\ lru = <<>>
    /\ reader = [r \in Reader |-> NoCall] /\ current = [r \in Reader |-> {}]
    /\ idle = [since |-> Unset, age |-> 0, wait |-> 0, failures |-> 0]
    /\ probe = NoProbe /\ working \in BOOLEAN

\* An executable is replaced or written to.  Its modification time is a new one, or one
\* that the path has had before: copies and archives keep times, utimes sets them.  Of
\* addresses only the age matters.
Change(s) ==
    /\ kind \in {"hash", "signature"} /\ MapThenSumSet(LAMBDA t : version[t], Subject) < MaxChanges
    /\ version' = [version EXCEPT ![s] = @ + 1]
    /\ LET new == version[s] + 1 IN
       \E t \in {mtime[s][v] : v \in 0..version[s]} \cup {new} :
          mtime' = [mtime EXCEPT ![s] = [v \in 0..new |-> IF v = new THEN t ELSE mtime[s][v]]]
    /\ current' = [r \in Reader |-> IF reader[r].subject = s
                                    THEN current[r] \cup {version[s] + 1} ELSE current[r]]
    /\ UNCHANGED <<kind, entry, lru, reader, idle, probe, working>>

-----------------------------------------------------------------------------
(* ExeHasher.Hash, CachingVerifier.Verify, Binder.DestMatches.             *)

To(r, call) == reader' = [reader EXCEPT ![r] = call]
elsewhere   == <<kind, version, mtime, idle, probe, working>>

\* mutant: the path alone is the key
PathOnly(s) == s

\* Device, inode, size and both times of a file change with its content, for nobody sets
\* its ctime; of a signature the key is path and modification time alone.
KeyOf(s) == CASE kind = "hash"      -> <<s, version[s]>>
              [] kind = "signature" -> <<s, mtime[s][version[s]]>>
              [] OTHER              -> s

Ask(r, s) ==
    /\ kind # "idle" /\ reader[r].pc = "idle"
    /\ To(r, [NoCall EXCEPT !.pc = "keyed", !.subject = s, !.key = KeyOf(s)])
    /\ current' = [current EXCEPT ![r] = {version[s]}]
    /\ UNCHANGED <<elsewhere, entry, lru>>

ToFront(k) == <<k>> \o Remove(lru, k)

\* An answer to be used: only addresses grow old.
Fresh(k) == k \in DOMAIN entry /\ (kind = "dns" => entry[k].since < TTL)

Hit(r) ==
    /\ reader[r].pc = "keyed" /\ Fresh(reader[r].key)
    /\ LET k == reader[r].key IN
       /\ To(r, [reader[r] EXCEPT !.pc = "done", !.val = entry[k].val, !.age = entry[k].age])
       /\ lru' = IF kind = "signature" THEN ToFront(k) ELSE lru
    /\ UNCHANGED <<elsewhere, entry, current>>

\* Where the file cannot be looked at, the verifier is asked without the cache.
Bypass(r) ==
    /\ kind = "signature" /\ reader[r].pc = "keyed"
    /\ \E val \in {version[reader[r].subject], Error} :
          To(r, [reader[r] EXCEPT !.pc = "done", !.val = val])
    /\ UNCHANGED <<elsewhere, entry, lru, current>>

Miss(r) ==
    /\ reader[r].pc = "keyed" /\ ~Fresh(reader[r].key)
    /\ To(r, [reader[r] EXCEPT !.pc = "missed"])
    /\ UNCHANGED <<elsewhere, entry, lru, current>>

\* The file is read, or the resolver answers.
Compute(r) ==
    /\ reader[r].pc = "missed"
    /\ To(r, [reader[r] EXCEPT !.pc = "computed", !.val = version[reader[r].subject]])
    /\ UNCHANGED <<elsewhere, entry, lru, current>>

\* Of the three, only the signature cache remembers that it failed.
ComputeFails(r) ==
    /\ reader[r].pc = "missed"
    /\ To(r, [reader[r] EXCEPT !.pc = IF kind = "signature" THEN "computed" ELSE "done",
                               !.val = Error])
    /\ UNCHANGED <<elsewhere, entry, lru, current>>

\* LookupIP is given up.
TimesOut(r) ==
    /\ kind = "dns" /\ reader[r].pc \in {"missed", "computed"} /\ reader[r].clock = Timeout
    /\ To(r, [reader[r] EXCEPT !.pc = "done", !.val = Error, !.age = 0])
    /\ UNCHANGED <<elsewhere, entry, lru, current>>

With(k, e) == [j \in DOMAIN entry \cup {k} |-> IF j = k THEN e ELSE entry[j]]

\* What the last to arrive says stays.
Store(r) ==
    /\ kind \in {"hash", "dns"} /\ reader[r].pc = "computed"
    /\ entry' = With(reader[r].key, [val |-> reader[r].val, age |-> reader[r].age, since |-> 0])
    /\ To(r, [reader[r] EXCEPT !.pc = "done"])
    /\ UNCHANGED <<elsewhere, lru, current>>

\* What the first to arrive said stays.
FoundStored(r) ==
    /\ kind = "signature" /\ reader[r].pc = "computed" /\ reader[r].key \in DOMAIN entry
    /\ lru' = ToFront(reader[r].key)
    /\ To(r, [reader[r] EXCEPT !.pc = "done", !.val = entry[reader[r].key].val])
    /\ UNCHANGED <<elsewhere, entry, current>>

PushFront(r) ==
    /\ kind = "signature" /\ reader[r].pc = "computed" /\ reader[r].key \notin DOMAIN entry
    /\ LET k    == reader[r].key
           all  == With(k, [val |-> reader[r].val, age |-> 0, since |-> 0])
           long == <<k>> \o lru
       IN  IF Len(long) > MaxEntries
           THEN /\ entry' = [j \in DOMAIN all \ {Last(long)} |-> all[j]]
                /\ lru' = SubSeq(long, 1, Len(long) - 1)
           ELSE entry' = all /\ lru' = long
    /\ To(r, [reader[r] EXCEPT !.pc = "done"])
    /\ UNCHANGED <<elsewhere, current>>

Return(r) ==
    /\ reader[r].pc = "done" /\ To(r, NoCall)
    /\ current' = [current EXCEPT ![r] = {}]
    /\ UNCHANGED <<elsewhere, entry, lru>>

-----------------------------------------------------------------------------
(* idle.Cached: Active and its refresh.                                    *)

\* The oldest a sample may be, counted from the moment the probe read the input.
Oldest == MaxAge + ProbeTimeout

Usable == idle.since # Unset /\ idle.since <= MaxAge

\* Active starts a refresh when one is due; it never waits for it.
Active ==
    /\ kind = "idle" /\ probe.pc = "none" /\ idle.wait = 0
    /\ probe' = [NoProbe EXCEPT !.pc = "started"]
    /\ UNCHANGED <<kind, lookups, idle, working>>

Measure ==
    /\ probe.pc = "started" /\ working
    /\ probe' = [probe EXCEPT !.pc = "measured"]
    /\ UNCHANGED <<kind, lookups, idle, working>>

Refreshed ==
    /\ probe.pc = "measured" /\ probe' = NoProbe
    /\ idle' = [since |-> 0, age |-> probe.age, wait |-> ProbeTTL, failures |-> 0]
    /\ UNCHANGED <<kind, lookups, working>>

\* ioreg fails, or is killed when its time is over.
GivesUp == \/ probe.pc = "started" /\ ~working
           \/ probe.pc \in {"started", "measured"} /\ probe.clock = ProbeTimeout

\* mutant: a failure leaves the probe in flight
StaysInFlight ==
    /\ GivesUp
    /\ probe' = [probe EXCEPT !.pc = "stuck"]
    /\ UNCHANGED <<kind, lookups, idle, working>>

Backoff(n) == ProbeTTL * 2 ^ (n - 1)

\* The last sample stays.
ProbeFails ==
    /\ GivesUp
    /\ probe' = NoProbe
    /\ LET n == IF idle.failures < BackoffSteps + 1 THEN idle.failures + 1 ELSE idle.failures
       IN  idle' = [idle EXCEPT !.failures = n, !.wait = Backoff(n)]
    /\ UNCHANGED <<kind, lookups, working>>

Toggle ==
    /\ kind = "idle" /\ working' = ~working
    /\ UNCHANGED <<kind, lookups, idle, probe>>

-----------------------------------------------------------------------------
(* A second passes.                                                        *)

UpTo(n, x) == IF n < x THEN n + 1 ELSE x

Overdue(r) == reader[r].pc \in {"missed", "computed"} /\ reader[r].clock = Timeout

\* mutant: an entry that is used counts as new
TickUsed ==
    /\ kind = "dns" /\ \A r \in Reader : ~Overdue(r)
    /\ entry' = [k \in DOMAIN entry |->
          [entry[k] EXCEPT !.since = IF \E r \in Reader : reader[r].pc = "done" THEN 0
                                     ELSE UpTo(@, TTL),
                           !.age = UpTo(@, TTL + Timeout)]]
    /\ UNCHANGED <<kind, version, mtime, lru, current, reader, idle, probe, working>>

TickDns ==
    /\ kind = "dns" /\ \A r \in Reader : ~Overdue(r)
    /\ entry' = [k \in DOMAIN entry |->
          [entry[k] EXCEPT !.since = UpTo(@, TTL), !.age = UpTo(@, TTL + Timeout)]]
    /\ reader' = [r \in Reader |->
          CASE reader[r].pc = "missed"   -> [reader[r] EXCEPT !.clock = @ + 1]
            [] reader[r].pc = "computed" -> [reader[r] EXCEPT !.clock = @ + 1, !.age = @ + 1]
            [] OTHER -> reader[r]]
    /\ UNCHANGED <<kind, version, mtime, lru, current, idle, probe, working>>

TickIdle ==
    /\ kind = "idle" /\ (probe.pc \in {"started", "measured"} => probe.clock < ProbeTimeout)
    /\ idle' = [idle EXCEPT !.since = IF @ = Unset THEN Unset ELSE UpTo(@, MaxAge + 1),
                            !.age = UpTo(@, Oldest + 1),
                            !.wait = IF @ = 0 THEN 0 ELSE @ - 1]
    /\ probe' = CASE probe.pc = "started"  -> [probe EXCEPT !.clock = @ + 1]
                  [] probe.pc = "measured" -> [probe EXCEPT !.clock = @ + 1, !.age = @ + 1]
                  [] OTHER                 -> probe
    /\ UNCHANGED <<kind, lookups, working>>

Call(r) == \/ Hit(r) \/ Bypass(r) \/ Miss(r) \/ Compute(r) \/ ComputeFails(r) \/ TimesOut(r)
           \/ Store(r) \/ FoundStored(r) \/ PushFront(r) \/ Return(r)

CachesNext ==
    \/ \E s \in Subject : Change(s)
    \/ \E r \in Reader, s \in Subject : Ask(r, s)
    \/ \E r \in Reader : Call(r)
    \/ Active \/ Measure \/ Refreshed \/ ProbeFails \/ Toggle
    \/ TickDns \/ TickIdle

\* Connections go on asking, a probe ends by its timeout at the latest, and one that can
\* be read is sometimes read in time.
CachesSpec == CachesInit /\ [][CachesNext]_cachesVars
        /\ WF_cachesVars(TickIdle) /\ WF_cachesVars(Active) /\ WF_cachesVars(ProbeFails)
        /\ SF_cachesVars(Measure) /\ SF_cachesVars(Refreshed)

-----------------------------------------------------------------------------
(* Properties.                                                             *)

\* Two versions of a path have had one modification time.
Restamped(s) == \E v \in 0..version[s] : mtime[s][v] # v

\* No two versions have one key.
Distinguished(s) == kind \in {"hash", "signature"} /\ (kind = "signature" => ~Restamped(s))

(* A hash that is returned is that of what was at the path at some moment  *)
(* of the call, though looking at the file and reading it are two steps,   *)
(* an entry made from another moment may be found or overwrite one's own,  *)
(* and files are replaced at any time.  So is a signature, of a path whose *)
(* contents each had a modification time of their own: where two had the   *)
(* same, the later may be given the signature of the earlier, and so for   *)
(* as long as it is cached (ExeHasher.Hash, CachingVerifier.Verify).       *)
AnswersWereCurrent ==
    \A r \in Reader : reader[r].pc = "done" /\ Distinguished(reader[r].subject)
        => reader[r].val \in current[r] \cup {Error}

(* Addresses are matched against no later than the lifetime of an entry    *)
(* and one lookup after they were given, whichever of several lookups was  *)
(* stored last; and a sample that is used tells of the keyboard as it was  *)
(* within maxAge and one probe.                                            *)
AnswersAreFresh ==
    /\ \A r \in Reader : kind = "dns" /\ reader[r].pc = "done"
           => reader[r].age < TTL + Timeout
    /\ kind = "idle" /\ Usable => idle.age <= Oldest

(* Once the probe can be read again, samples are again and again usable,   *)
(* however often it failed or hung before: no failure stops the probing.   *)
SamplesComeBack == kind = "idle" /\ <>[]working => []<>Usable
=============================================================================
