------------------------------ MODULE Baseline ------------------------------
(***************************************************************************)
(* The drift baseline: what internal/drift learns from the decision log,   *)
(* the cache it is kept in, the refresh of the one the daemon serves       *)
(* (cli/daemon.go), the review that rejects pairs from it                  *)
(* (cli/review_baseline.go), and the daemon's live record of when a pair   *)
(* was last seen (daemon/lastseen.go), which every refresh reseeds.        *)
(*                                                                         *)
(* The daemon and the review command load, build and save the baseline as  *)
(* two processes, through one temporary file.  Connections write what they *)
(* decided some time after they stamped it, and their flow when they end.  *)
(* The log is in several files, which the daemon rotates, compresses and   *)
(* prunes while either process reads them without a lock.                  *)
(***************************************************************************)
EXTENDS Integers, Sequences, FiniteSets, SequencesExt

CONSTANTS Conn, Pair,     \* connections; pairs of an identity and a host
          MaxLive,        \* maxLiveLastSeenPairs
          MaxPoints,      \* maxCloudPoints
          SecondsPerDay,
          History,        \* the decision log from before
          MaxSegments,    \* rotated segments that are kept; 0 for all
          MaxTime,        \* bound: the clock, in seconds
          MaxLog,         \* bound: entries of the log
          MaxRotations,   \* bound: rotations of it
          MaxLoads,       \* bound: loads of the baseline
          None, Torn      \* no file or baseline, and a file that does not parse

ASSUME BaselineAssumption ==
    /\ MaxLive \in Nat \ {0} /\ MaxPoints \in Nat /\ SecondsPerDay \in Nat \ {0}
    /\ MaxTime \in Nat /\ MaxLoads \in Nat /\ MaxSegments \in Nat
    /\ MaxLog \in Nat /\ MaxRotations \in Nat

\* An entry of the log; pair and at are those of its connection.
Logged == [kind : {"decision", "flow"}, conn : Conn \cup {None}, pair : Pair \cup {None},
           at : Nat, deny : BOOLEAN, length : Int]

ASSUME HistoryAssumption == History \in Seq(Logged)

Process == {"daemon", "review"}
Time    == 1..MaxTime           \* 0 is the zero time.Time

VARIABLES
    now, phase,     \* the clock; the daemon is "down", "starting" or "up"
    conn,           \* the connections being handled
    log,            \* the decision log: all that was written to it
    cuts,           \* where rotations have cut it: segment j ends where j + 1 begins,
                    \* and the live file begins at the last
    segs,           \* the segments that are there, by number and form
    rejected,       \* the rejected pairs
    cache, tmp,     \* baseline.json and its temporary file
    load,           \* the load each process is in
    served,         \* the baseline that connections are classified against
    when,           \* lastSeen.when: pairs and the time they were last seen
    loads,          \* counter bounded by MaxLoads
    latest          \* history: the latest time the daemon has been told of, per pair

live  == <<when, latest>>
logs  == <<log, cuts, segs>>
files == <<logs, rejected, cache, tmp>>
vars  == <<now, phase, conn, files, load, served, live, loads>>

NoConn == [pc |-> "none", pair |-> None, at |-> 0]
NoLoad == [pc |-> "idle", rej |-> {}, listed |-> {}, read |-> <<>>, got |-> None,
           handle |-> "closed", seeds |-> {}]

Init ==
    /\ now = 1 /\ phase = "up" /\ conn = [c \in Conn |-> NoConn]
    /\ log = History /\ cuts = <<0>> /\ segs = {} /\ rejected = {} /\ cache = None /\ tmp = None
    /\ load = [a \in Process |-> NoLoad]
    /\ served = None /\ loads = 0
    /\ when = [p \in {} |-> 0] /\ latest = [p \in Pair |-> 0]

Tick == now < MaxTime /\ now' = now + 1
        /\ UNCHANGED <<phase, conn, files, load, served, live, loads>>

-----------------------------------------------------------------------------
(* The files of the log, and what ReadHistory can get of them.             *)

Segment(j, f) == [of |-> j, form |-> f]

Rotate ==
    /\ phase # "down" /\ cuts[Len(cuts)] < Len(log) /\ Len(cuts) <= MaxRotations
    /\ cuts' = Append(cuts, Len(log))
    /\ segs' = segs \cup {Segment(Len(cuts), "plain")}
    /\ UNCHANGED <<now, phase, conn, log, rejected, cache, tmp, load, served, live, loads>>

Retained(ss) ==
    {s \in ss : MaxSegments = 0 \/ Cardinality({r \in ss : r.of > s.of}) < MaxSegments}

\* A rotated segment gets another name when it is compressed; then the oldest go, unless
\* that fails or it is the sweep of Open that compresses.
Compress(s) ==
    /\ phase # "down" /\ s.form = "plain"
    /\ LET ss == (segs \ {s}) \cup {Segment(s.of, "gz")} IN segs' \in {ss, Retained(ss)}
    /\ UNCHANGED <<now, phase, conn, log, cuts, rejected, cache, tmp, load, served, live, loads>>

\* An entry that was not read, in its place: it counts for nothing in Build.
Missed == [kind |-> "missed", conn |-> None, pair |-> None, at |-> 0, deny |-> FALSE,
           length |-> 0]

\* The segments js, and of the live file that begins at cut i what there is up to m.
Part(js, i, m) ==
    [n \in 1..m |-> IF n > cuts[i] \/ \E j \in js : n \in cuts[j] + 1 .. cuts[j + 1]
                    THEN log[n] ELSE Missed]

\* All that a reader can have got: whole segments, and the live file after them.
Readings == UNION {{Part(js, i, m) : js \in SUBSET (1 .. i - 1), m \in cuts[i]..Len(log)} :
                      i \in 1..Len(cuts)}

-----------------------------------------------------------------------------
(* Build: the fold over the log.                                           *)

Folds(e) == e.kind = "decision" /\ ~e.deny

\* Join: the flow record of a decision is the last one with its connection.
Flows(es, i)  == {f \in i + 1..Len(es) : es[f].kind = "flow" /\ es[f].conn = es[i].conn}
Length(es, i) == IF Flows(es, i) = {} THEN 0
                 ELSE es[CHOOSE f \in Flows(es, i) : \A g \in Flows(es, i) : g <= f].length

\* ConcurrencyIndex.At: how many other connections were in flight at a time; one without
\* a flow counts in its own second only.
ConcurrencyAt(es, t, c) ==
    LET others == {i \in 1..Len(es) : es[i].kind = "decision" /\ es[i].conn # c}
    IN  Cardinality({i \in others : es[i].at <= t /\ t < es[i].at + Length(es, i)})
            + Cardinality({i \in others : es[i].at = t /\ Length(es, i) = 0})

\* The accepted entries of a pair, in log order.
Entries(es, p) ==
    SelectSeq([i \in 1..Len(es) |-> i], LAMBDA i : Folds(es[i]) /\ es[i].pair = p)

Stamps(es, p) == {es[i].at : i \in ToSet(Entries(es, p))}
Days(es, p)   == {t \div SecondsPerDay : t \in Stamps(es, p)}
Stable(es, p) == Cardinality(Days(es, p)) >= 2
LastOf(es, p) == LET is == Entries(es, p)
                 IN  IF is = <<>> THEN 0 ELSE es[is[Len(is)]].at

\* PointFrom: the gap to the entry before it in the log, unknown (0) unless it is later.
PointAt(es, is, k) ==
    LET prev == IF k = 1 THEN 0 ELSE es[is[k - 1]].at
        at   == es[is[k]].at
    IN  [gap  |-> IF prev # 0 /\ at > prev THEN at - prev ELSE 0,
         conc |-> ConcurrencyAt(es, at, es[is[k]].conn)]

Points(es, p) ==
    LET is   == Entries(es, p)
        full == SelectSeq([k \in 1..Len(is) |-> k], LAMBDA k : Flows(es, is[k]) # {})
    IN  [k \in 1..(IF Len(full) < MaxPoints THEN Len(full) ELSE MaxPoints) |->
            PointAt(es, is, full[Len(full) - (IF Len(full) < MaxPoints THEN Len(full)
                                              ELSE MaxPoints) + k])]

Learned(es, p) ==
    [first |-> CHOOSE t \in Stamps(es, p) : \A u \in Stamps(es, p) : t <= u,
     last  |-> CHOOSE t \in Stamps(es, p) : \A u \in Stamps(es, p) : u <= t,
     count |-> Len(Entries(es, p))]

BuiltThrough(es) ==
    CHOOSE t \in 0..MaxTime :
        /\ \A i \in 1..Len(es) : Folds(es[i]) => es[i].at <= t
        /\ t = 0 \/ \E i \in 1..Len(es) : Folds(es[i]) /\ es[i].at = t

\* BuildBaselineWithRejections.
Build(es, rej) ==
    LET known == {p \in Pair \ rej : Entries(es, p) # <<>>}
    IN  [digest  |-> rej,
         through |-> BuiltThrough(es),
         pairs   |-> {p \in known : Stable(es, p)},
         last    |-> [p \in known |-> LastOf(es, p)],
         points  |-> [p \in known |-> Points(es, p)],
         learned |-> [p \in known |-> Learned(es, p)]]

IsStale(b, es) == \E i \in 1..Len(es) : Folds(es[i]) /\ es[i].at > b.through

-----------------------------------------------------------------------------
(* lastSeen.                                                               *)

MaxOf(s, t) == IF s > t THEN s ELSE t

\* mutant: the pair just told of makes room
EvictAny(w) ==
    {[p \in DOMAIN w \ {q} |-> w[p]] : q \in DOMAIN w}

\* evictLocked runs after every insertion, so at most one pair is too many.
Evict(w) ==
    {[p \in DOMAIN w \ {q} |-> w[p]] :
        q \in {o \in DOMAIN w : \A p \in DOMAIN w : w[o] <= w[p]}}

Set(p, t) == [q \in DOMAIN when \cup {p} |-> IF q = p THEN t ELSE when[q]]

Advance(p, t) ==
    /\ latest' = [latest EXCEPT ![p] = MaxOf(@, t)]
    /\ IF p \in DOMAIN when /\ t <= when[p] THEN UNCHANGED when
       ELSE IF Cardinality(DOMAIN when \cup {p}) > MaxLive THEN when' \in Evict(Set(p, t))
       ELSE when' = Set(p, t)

-----------------------------------------------------------------------------
(* Connections.                                                            *)

Handle(c, k) ==
    /\ conn' = [conn EXCEPT ![c] = k]
    /\ UNCHANGED <<now, phase, cuts, segs, rejected, cache, tmp, load, served, loads>>

\* The entry is stamped when it is made, before a prompt or a dial.
Decide(c, p, verdict) ==
    /\ phase = "up" /\ conn[c].pc = "none"
    /\ Handle(c, [pc |-> verdict, pair |-> p, at |-> now])
    /\ UNCHANGED <<log, live>>

Admit(c) ==
    /\ conn[c].pc = "allowed"
    /\ Advance(conn[c].pair, conn[c].at)
    /\ Handle(c, [conn[c] EXCEPT !.pc = "admitted"])
    /\ UNCHANGED log

Entry(c, kind, len) ==
    [kind |-> kind, conn |-> c, pair |-> conn[c].pair, at |-> conn[c].at,
     deny |-> conn[c].pc = "denied", length |-> len]

LogDecision(c) ==
    /\ conn[c].pc \in {"admitted", "denied"} /\ Len(log) < MaxLog
    /\ log' = Append(log, Entry(c, "decision", 0))
    /\ Handle(c, [conn[c] EXCEPT !.pc = IF @ = "denied" THEN "closed" ELSE "open"])
    /\ UNCHANGED live

LogFlow(c) ==
    /\ conn[c].pc = "open" /\ Len(log) < MaxLog
    /\ log' = Append(log, Entry(c, "flow", now - conn[c].at))
    /\ Handle(c, [conn[c] EXCEPT !.pc = "closed"])
    /\ UNCHANGED live

-----------------------------------------------------------------------------
(* loadOrBuildBaseline.                                                    *)

To(a, l) == load' = [load EXCEPT ![a] = l]
calm     == <<now, phase, conn, logs, rejected, live>>

\* rejections.Refresh, and rejected.Open of the command.
Begin(a) ==
    /\ load[a].pc = "idle" /\ loads < MaxLoads /\ loads' = loads + 1
    /\ To(a, [NoLoad EXCEPT !.pc = "begun", !.rej = rejected])
    /\ UNCHANGED <<calm, cache, tmp, served>>

ListSegments(a) ==
    /\ load[a].pc = "begun"
    /\ To(a, [load[a] EXCEPT !.pc = "listed", !.listed = segs])
    /\ UNCHANGED <<calm, cache, tmp, served, loads>>

\* A segment that cannot be read is skipped, such as one that is no longer under the name it
\* was listed by; one that was rotated since is not in the list, nor in the live file.
ReadLog(a) ==
    /\ load[a].pc = "listed"
    /\ \E skipped \in SUBSET load[a].listed :
          To(a, [load[a] EXCEPT !.pc = "read", !.listed = {},
                    !.read = Part({s.of : s \in load[a].listed \ skipped},
                                  Len(cuts), Len(log))])
    /\ UNCHANGED <<calm, cache, tmp, served, loads>>

\* mutant: rejections do not make a cache stale
NotStale(b, es, rej) == ~IsStale(b, es)

Usable(b, es, rej) == ~IsStale(b, es) /\ b.digest = rej

\* mutant: what the cache has is kept, and only what is newer is folded in
Extend(es, rej) ==
    IF cache \in {None, Torn} THEN Build(es, rej)
    ELSE LET b == Build(es, rej)
         IN  [b EXCEPT !.last = [p \in DOMAIN b.last |->
                 IF p \in DOMAIN cache.last THEN cache.last[p] ELSE b.last[p]]]

\* What is built when the cache will not do.
Rebuild(es, rej) == Build(es, rej)

ReadCache(a) ==
    /\ load[a].pc = "read"
    /\ LET es == load[a].read IN
       IF cache \notin {None, Torn} /\ Usable(cache, es, load[a].rej)
       THEN To(a, [load[a] EXCEPT !.pc = "loaded", !.read = <<>>, !.got = cache])
       ELSE To(a, [load[a] EXCEPT !.pc = "built", !.read = <<>>,
                                  !.got = Rebuild(es, load[a].rej)])
    /\ UNCHANGED <<calm, cache, tmp, served, loads>>

OpenTmp(a) ==
    /\ load[a].pc = "built"
    /\ To(a, [load[a] EXCEPT !.pc = "opened", !.handle = "tmp"])
    /\ tmp' = Torn
    /\ UNCHANGED <<calm, cache, served, loads>>

\* Over an empty file; over what the other process wrote, unless that was longer.
Written(old, b) == IF old = Torn THEN {b} ELSE {b, Torn}

WriteTmp(a) ==
    /\ load[a].pc = "opened"
    /\ To(a, [load[a] EXCEPT !.pc = "written"])
    /\ IF load[a].handle = "tmp"
       THEN tmp' \in Written(tmp, load[a].got) /\ UNCHANGED cache
       ELSE cache' \in Written(cache, load[a].got) /\ UNCHANGED tmp
    /\ UNCHANGED <<calm, served, loads>>

\* A file the other process still has open under the temporary name goes with it.
RenameTmp(a) ==
    /\ load[a].pc = "written" /\ tmp # None
    /\ cache' = tmp /\ tmp' = None
    /\ load' = [b \in Process |->
                   IF b = a THEN [load[b] EXCEPT !.pc = "loaded", !.handle = "closed"]
                   ELSE IF load[b].handle = "tmp" THEN [load[b] EXCEPT !.handle = "cache"]
                   ELSE load[b]]
    /\ UNCHANGED <<calm, served, loads>>

\* A read, write or rename fails: the last good baseline stays; a starting daemon goes on
\* without one.
LoadFails(a) ==
    /\ load[a].pc \notin {"idle", "loaded", "seeding"}
    /\ To(a, NoLoad)
    /\ phase' = IF a = "daemon" THEN "up" ELSE phase
    /\ UNCHANGED <<now, conn, files, served, live, loads>>

-----------------------------------------------------------------------------
(* SetBaseline, and the review.                                            *)

Seeds(b) == {p \in Pair : p \in DOMAIN b.last /\ b.last[p] \in Time}

StartSeeding ==
    /\ load["daemon"].pc = "loaded"
    /\ To("daemon", [load["daemon"] EXCEPT !.pc = "seeding",
                                           !.seeds = Seeds(load["daemon"].got)])
    /\ UNCHANGED <<calm, cache, tmp, served, loads>>

\* One pair at a time, in any order, among the connections.
Seed(p) ==
    /\ load["daemon"].pc = "seeding" /\ p \in load["daemon"].seeds
    /\ Advance(p, load["daemon"].got.last[p])
    /\ To("daemon", [load["daemon"] EXCEPT !.seeds = @ \ {p}])
    /\ UNCHANGED <<now, phase, conn, files, served, loads>>

SetBaseline ==
    /\ load["daemon"].pc = "seeding" /\ load["daemon"].seeds = {}
    /\ served' = load["daemon"].got /\ To("daemon", NoLoad) /\ phase' = "up"
    /\ UNCHANGED <<now, conn, files, live, loads>>

Reject(p) ==
    /\ load["review"].pc = "loaded" /\ p \in DOMAIN load["review"].got.learned
    /\ rejected' = rejected \cup {p} /\ To("review", NoLoad)
    /\ UNCHANGED <<now, phase, conn, logs, cache, tmp, served, live, loads>>

Restore(p) ==
    /\ p \in rejected /\ rejected' = rejected \ {p}
    /\ UNCHANGED <<now, phase, conn, logs, cache, tmp, load, served, live, loads>>

CloseReview ==
    /\ load["review"].pc # "idle" /\ To("review", NoLoad)
    /\ UNCHANGED <<calm, cache, tmp, served, loads>>

KillDaemon ==
    /\ phase # "down" /\ phase' = "down" /\ served' = None
    /\ conn' = [c \in Conn |-> IF conn[c].pc \in {"none", "closed"} THEN conn[c]
                               ELSE [NoConn EXCEPT !.pc = "closed"]]
    /\ To("daemon", NoLoad)
    /\ when' = [p \in {} |-> 0] /\ latest' = [p \in Pair |-> 0]
    /\ UNCHANGED <<now, files, loads>>

StartDaemon ==
    /\ phase = "down" /\ phase' = "starting"
    /\ loads < MaxLoads /\ loads' = loads + 1
    /\ To("daemon", [NoLoad EXCEPT !.pc = "begun", !.rej = rejected])
    /\ UNCHANGED <<now, conn, files, served, live>>

Refresh == phase = "up" /\ Begin("daemon")

Next ==
    \/ Tick \/ Refresh \/ Begin("review")
    \/ \E c \in Conn : Admit(c) \/ LogDecision(c) \/ LogFlow(c)
    \/ \E c \in Conn, p \in Pair, v \in {"allowed", "denied"} : Decide(c, p, v)
    \/ Rotate \/ \E s \in segs : Compress(s)
    \/ \E a \in Process : \/ ListSegments(a) \/ ReadLog(a) \/ ReadCache(a) \/ OpenTmp(a) \/ WriteTmp(a)
                          \/ RenameTmp(a) \/ LoadFails(a)
    \/ \E p \in Pair : Seed(p) \/ Reject(p) \/ Restore(p)
    \/ StartSeeding \/ SetBaseline
    \/ CloseReview \/ KillDaemon \/ StartDaemon

Spec == Init /\ [][Next]_vars

-----------------------------------------------------------------------------
(* Properties.                                                             *)

(* The baseline that is served is the fold of one reading of the log, with *)
(* the rejections it says it was made with: through two processes that     *)
(* save over one temporary file, a file cut short, a crash and a cache     *)
(* that is used instead of a build, no other baseline is ever served.      *)
(* ReadHistory takes no lock, so a reading need not be the whole log: a    *)
(* segment that is renamed or pruned beside it, or the one just rotated,   *)
(* may be missing, and is until a later entry makes the cache stale.  No   *)
(* entry is missing otherwise, none counts twice or out of order.          *)
ServedIsABuild ==
    served # None => \E es \in Readings : served = Build(es, served.digest)

(* A pair that was rejected when a refresh began is not in what it serves, *)
(* and the refresh begun last has the rejections as they then were: a      *)
(* cache made before, by either process, is not used.                      *)
RejectionsTakeEffect ==
    [][served' # served /\ served' # None
           => /\ served'.digest = load["daemon"].rej
              /\ DOMAIN served'.points \cap load["daemon"].rej = {}]_vars

(* What lastSeen says of a pair is the latest time it was told of, though  *)
(* connections complete out of order, pairs are evicted at the limit, and  *)
(* refreshes tell it again of times that it has since evicted.             *)
LastSeenIsLatest ==
    /\ Cardinality(DOMAIN when) <= MaxLive
    /\ \A p \in DOMAIN when : when[p] = latest[p]
=============================================================================
