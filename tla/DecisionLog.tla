---------------------------- MODULE DecisionLog ----------------------------
(***************************************************************************)
(* internal/decisionlog: the append-only log every connection is recorded  *)
(* in, its rotation into segments, their compression and pruning in the    *)
(* background, the repair of crash leftovers at Open, and a concurrent     *)
(* ReadHistory.                                                            *)
(*                                                                         *)
(* The file system is the shared state: the live file, and for each        *)
(* segment name a plain file, a .gz and a .gz.tmp.  Writer.mu makes a      *)
(* Write one at a time; a rotation is several system calls, between which  *)
(* the process may crash and a reader, which takes no lock, may look.      *)
(* Entries are numbered in the order they are written and a file is a      *)
(* sequence of lines, so that a size is a number of lines.                 *)
(***************************************************************************)
EXTENDS Integers, Sequences, FiniteSets

CONSTANTS MaxEntries,    \* bound: entries written in one behaviour
          MaxClock,      \* bound: seconds the clock may advance
          MaxSeq,        \* bound: segments rotated in one second, less one
          MaxBytes,      \* Options.MaxBytes, in lines
          Retentions,    \* the values of Options.MaxSegments; 0 keeps every segment
          MaxCrashes,    \* bound: process crashes
          MaxFaults,     \* bound: failing system calls
          MaxReads,      \* bound: calls of ReadHistory
          Bursts         \* bound: whether a Writer with retention may rotate twice in
                         \* one second

ASSUME LogAssumption ==
    /\ MaxEntries \in Nat /\ MaxClock \in Nat /\ MaxSeq \in Nat
    /\ MaxBytes \in Nat \ {0} /\ Retentions \subseteq Nat
    /\ MaxCrashes \in Nat /\ MaxFaults \in Nat /\ MaxReads \in Nat
    /\ Bursts \in BOOLEAN

VARIABLES
    live,      \* the lines of the live file
    exists,    \* whether the live file's name is there
    plain, gz, \* the segment files: lines by name, for the names that exist
    tmp,       \* the names that have a .gz.tmp
    wpc,       \* where the writer process is
    fd,        \* Writer.f: "open", "closed" (not nil, but closed) or "nil"
    size,      \* Writer.size
    MaxSegments, \* Options.MaxSegments, fixed at the start
    seg,       \* the segment name rotateLocked chose
    jobs,      \* the compressions under way, by the entry that caused them
    todo,      \* the segments sweepUncompressed has still to compress
    now,       \* Options.Now, in seconds
    next,      \* the number of the next entry
    written,   \* history: the entries the live file has been given
    crashes, faults, reads,   \* what the bounds count
    rpc,       \* where ReadHistory is
    rlist,     \* the segment files it listed and has not read yet
    rgot,      \* the entries it has collected
    rwant,     \* history: the entries written when it was called
    rquiet     \* history: no file was renamed or removed since it was called

files  == <<live, exists, plain, gz, tmp>>
writer == <<wpc, fd, size, MaxSegments, seg, next, written>>
bounds == <<now, crashes, faults, reads>>
reader == <<rpc, rlist, rgot, rwant>>
vars == <<files, writer, jobs, todo, bounds, reader, rquiet>>

-----------------------------------------------------------------------------
(* Lines and files. *)

Torn == 0     \* an unterminated fragment, always the last line of its file
Bad  == -1    \* a terminated line that does not parse
Entry == 1..MaxEntries

Names == (0..MaxClock) \X (0..MaxSeq)     \* <<second, sequence number>>

\* The order of the fixed-width names.
Before(m, n) == m[1] < n[1] \/ (m[1] = n[1] /\ m[2] < n[2])

\* O_APPEND: what is written after a fragment becomes part of its line.
AppendLine(lines, e) ==
    IF lines # <<>> /\ lines[Len(lines)] = Torn
    THEN [lines EXCEPT ![Len(lines)] = Bad]
    ELSE Append(lines, e)

AppendTorn(lines) ==
    IF lines # <<>> /\ lines[Len(lines)] = Torn THEN lines ELSE Append(lines, Torn)

\* parseEntries: a bad last line is dropped, any other is an error.
Corrupt(lines) == \E i \in 1..(Len(lines) - 1) : lines[i] = Bad
\* Mutant: the last line of a file is never trusted.
ParsedButLast(lines) == IF lines # <<>> THEN SubSeq(lines, 1, Len(lines) - 1) ELSE lines

Parsed(lines)  == IF lines # <<>> /\ lines[Len(lines)] \in {Torn, Bad}
                  THEN SubSeq(lines, 1, Len(lines) - 1)
                  ELSE lines
EntriesIn(lines) == IF Corrupt(lines) THEN {}
                    ELSE {lines[i] : i \in 1..Len(lines)} \ {Torn, Bad}

With(file, n, lines) == [m \in DOMAIN file \cup {n} |-> IF m = n THEN lines ELSE file[m]]
Without(file, N)     == [m \in DOMAIN file \ N |-> file[m]]

\* Mutant: a free name is one that has no uncompressed segment.
OccupiedPlain(n) == n \in DOMAIN plain

\* segmentExists and nextSegmentName: the first free name of the second.
Occupied(n) == n \in DOMAIN plain \cup DOMAIN gz \cup tmp
\* Mutant: the sequence number is taken at random.
FreeAny(n) == n \in Names /\ n[1] = now /\ ~Occupied(n)

Free(n) == /\ n \in Names /\ n[1] = now /\ ~Occupied(n)
           /\ \A k \in 0..(n[2] - 1) : Occupied(<<now, k>>)

\* A compression of segment n: how far it is, the lines it has read, and the files it
\* goes on to prune.
Job(at, n, lines, doomed) == [at |-> at, seg |-> n, lines |-> lines, doomed |-> doomed]
NewJob(n) == Job("start", n, <<>>, {})
Sweep == 0     \* the key of the sweep's compression
Keys  == {Sweep} \cup Entry

\* findSegments: one file for each name, the .gz where there is one.
Segments == DOMAIN plain \cup DOMAIN gz
Kind(n)    == IF n \in DOMAIN gz THEN "gz" ELSE "plain"
Content(n) == IF n \in DOMAIN gz THEN gz[n] ELSE plain[n]

\* What ReadHistory would return if nothing moved while it ran.
Visible == (UNION {EntriesIn(Content(n)) : n \in Segments}) \cup EntriesIn(live)

-----------------------------------------------------------------------------
Init ==
    /\ live = <<>> /\ exists = FALSE
    /\ plain = <<>> /\ gz = <<>> /\ tmp = {}
    /\ wpc = "down" /\ fd = "nil" /\ size = 0 /\ seg = <<0, 0>>
    /\ MaxSegments \in Retentions
    /\ jobs = <<>> /\ todo = {}
    /\ now = 0 /\ next = 1 /\ written = {}
    /\ crashes = 0 /\ faults = 0 /\ reads = 0
    /\ rpc = "idle" /\ rlist = {} /\ rgot = <<>> /\ rwant = {} /\ rquiet = TRUE

Fault == faults < MaxFaults /\ faults' = faults + 1

-----------------------------------------------------------------------------
(* OpenWithOptions: the size is seeded from the file, then the segments a    *)
(* crash left uncompressed are compressed, oldest first, before it returns.  *)

\* Mutant: open does not look for leftovers.
OpenWithoutSweep ==
    /\ wpc = "down" /\ next <= MaxEntries
    /\ wpc' = "opening" /\ fd' = "open"
    /\ exists' = TRUE /\ live' = IF exists THEN live ELSE <<>>
    /\ size' = Len(live')
    /\ UNCHANGED <<plain, gz, tmp, MaxSegments, seg, next, written, jobs, todo, bounds, reader, rquiet>>

Open ==
    /\ wpc = "down" /\ next <= MaxEntries
    /\ wpc' = "opening" /\ fd' = "open"
    /\ exists' = TRUE /\ live' = IF exists THEN live ELSE <<>>
    /\ size' = Len(live')
    /\ todo' = DOMAIN plain \ DOMAIN gz
    /\ UNCHANGED <<plain, gz, tmp, MaxSegments, seg, next, written, jobs, bounds, reader, rquiet>>

SweepNext(n) ==
    /\ wpc = "opening" /\ jobs = <<>>
    /\ n \in todo /\ \A m \in todo \ {n} : Before(n, m)
    /\ jobs' = With(jobs, Sweep, NewJob(n))
    /\ todo' = todo \ {n}
    /\ UNCHANGED <<files, writer, bounds, reader, rquiet>>

Opened ==
    /\ wpc = "opening" /\ todo = {} /\ jobs = <<>>
    /\ wpc' = "ready"
    /\ UNCHANGED <<files, fd, size, MaxSegments, seg, next, written, jobs, todo, bounds, reader, rquiet>>

-----------------------------------------------------------------------------
(* Write, under Writer.mu. *)

MustRotate == size > 0 /\ size + 1 > MaxBytes

\* An entry whose Write returns an error is not in the log and is not retried.
Drop == next' = next + 1 /\ wpc' = "ready"

\* The entry fits: one write system call.
WriteFits ==
    /\ wpc = "ready" /\ next <= MaxEntries /\ ~MustRotate
    /\ wpc' = "append"
    /\ UNCHANGED <<files, fd, size, MaxSegments, seg, next, written, jobs, todo, bounds, reader, rquiet>>

\* rotateLocked chooses a free name and closes the file.
BeginRotate ==
    /\ wpc = "ready" /\ next <= MaxEntries /\ MustRotate /\ fd = "open"
    /\ \E n \in Names : /\ Free(n) /\ seg' = n
                        /\ MaxSegments > 0 /\ ~Bursts => n[2] = 0
    /\ fd' = "closed" /\ wpc' = "rename"
    /\ UNCHANGED <<files, size, MaxSegments, next, written, jobs, todo, bounds, reader, rquiet>>

\* After a failed reopen or close the file is closed for good: closing it again
\* fails, and with it every later Write.
RotateStuck ==
    /\ wpc = "ready" /\ next <= MaxEntries /\ MustRotate /\ fd = "closed"
    /\ Drop
    /\ UNCHANGED <<files, fd, size, MaxSegments, seg, written, jobs, todo, bounds, reader, rquiet>>

\* No name can be chosen and the file stays open, or closing it fails, and it is
\* closed all the same.
RotateFails ==
    /\ wpc = "ready" /\ next <= MaxEntries /\ MustRotate /\ fd = "open" /\ Fault
    /\ fd' \in {"open", "closed"}
    /\ Drop
    /\ UNCHANGED <<files, size, MaxSegments, seg, written, jobs, todo, now, crashes, reads, reader, rquiet>>

RenameLive ==
    /\ wpc = "rename"
    /\ plain' = With(plain, seg, live)
    /\ live' = <<>> /\ exists' = FALSE
    /\ wpc' = "reopen"
    /\ rquiet' = FALSE
    /\ UNCHANGED <<gz, tmp, fd, size, MaxSegments, seg, next, written, jobs, todo, bounds, reader>>

\* The rename fails; the file is reopened, unless that fails too.
RenameFails ==
    /\ wpc = "rename" /\ Fault
    /\ fd' \in {"open", "closed"}
    /\ Drop
    /\ UNCHANGED <<files, size, MaxSegments, seg, written, jobs, todo, now, crashes, reads, reader, rquiet>>

\* A fresh live file; the compression of the segment goes to the background.
Reopen ==
    /\ wpc = "reopen"
    /\ exists' = TRUE /\ fd' = "open" /\ size' = 0
    /\ jobs' = With(jobs, next, NewJob(seg))
    /\ wpc' = "append"
    /\ UNCHANGED <<live, plain, gz, tmp, MaxSegments, seg, next, written, todo, bounds, reader, rquiet>>

ReopenFails ==
    /\ wpc = "reopen" /\ Fault
    /\ Drop
    /\ UNCHANGED <<files, fd, size, MaxSegments, seg, written, jobs, todo, now, crashes, reads, reader, rquiet>>

WriteLine ==
    /\ wpc = "append" /\ fd = "open"
    /\ live' = AppendLine(live, next)
    /\ size' = Len(live')
    /\ written' = written \cup {next}
    /\ Drop
    /\ UNCHANGED <<exists, plain, gz, tmp, fd, MaxSegments, seg, jobs, todo, bounds, reader, rquiet>>

\* The write fails, at once or after part of the line (a full disk).
WriteFails ==
    /\ wpc = "append" /\ fd = "open" /\ Fault
    /\ \/ UNCHANGED live
       \/ live' = AppendTorn(live)
    /\ size' = Len(live')
    /\ Drop
    /\ UNCHANGED <<exists, plain, gz, tmp, fd, MaxSegments, seg, written, jobs, todo, now, crashes, reads,
                   reader, rquiet>>

-----------------------------------------------------------------------------
(* compressSegment, in the goroutine of a rotation or in the sweep, and then *)
(* pruneSegments.  A job holds the lines of its segment from the moment it   *)
(* has opened it.                                                            *)

JobAt(k, at) == k \in DOMAIN jobs /\ jobs[k].at = at

\* Open the segment and create its .gz.tmp.
StartGzip(k) ==
    /\ JobAt(k, "start")
    /\ LET n == jobs[k].seg IN
         /\ n \in DOMAIN plain
         /\ tmp' = tmp \cup {n}
         /\ jobs' = [jobs EXCEPT ![k] = Job("rename", n, plain[n], {})]
    /\ UNCHANGED <<live, exists, plain, gz, writer, todo, bounds, reader, rquiet>>

\* Mutant: the archive appears under its final name before it has its content.
RenameGzEmpty(k) ==
    /\ JobAt(k, "rename")
    /\ LET n == jobs[k].seg IN
         /\ gz' = With(gz, n, <<>>)
         /\ tmp' = tmp \ {n}
         /\ jobs' = [jobs EXCEPT ![k] = Job("remove", n, jobs[k].lines, {})]
    /\ rquiet' = FALSE
    /\ UNCHANGED <<live, exists, plain, writer, todo, bounds, reader>>

\* The archive is complete and takes its final name.
RenameGz(k) ==
    /\ JobAt(k, "rename")
    /\ LET n == jobs[k].seg IN
         /\ gz' = With(gz, n, jobs[k].lines)
         /\ tmp' = tmp \ {n}
         /\ jobs' = [jobs EXCEPT ![k] = Job("remove", n, <<>>, {})]
    /\ rquiet' = FALSE
    /\ UNCHANGED <<live, exists, plain, writer, todo, bounds, reader>>

\* The sweep does not prune.
RemovePlain(k) ==
    /\ JobAt(k, "remove")
    /\ LET n == jobs[k].seg IN
         /\ n \in DOMAIN plain
         /\ plain' = Without(plain, {n})
         /\ jobs' = IF k = Sweep THEN Without(jobs, {k})
                    ELSE [jobs EXCEPT ![k] = Job("prune", n, <<>>, {})]
    /\ rquiet' = FALSE
    /\ UNCHANGED <<live, exists, gz, tmp, writer, todo, bounds, reader>>

\* An error ends the job without pruning, and with it a sweep.  The segment's file may
\* be gone because another job has pruned it.
CompressFails(k) ==
    /\ k \in DOMAIN jobs
    /\ \/ jobs[k].at \in {"start", "rename", "remove"} /\ Fault
       \/ /\ jobs[k].at \in {"start", "remove"} /\ jobs[k].seg \notin DOMAIN plain
          /\ UNCHANGED faults
    /\ tmp' = IF jobs[k].at = "rename" THEN tmp \ {jobs[k].seg} ELSE tmp
    /\ jobs' = Without(jobs, {k})
    /\ todo' = {}
    /\ UNCHANGED <<live, exists, plain, gz, writer, now, crashes, reads, reader, rquiet>>

\* Mutant: the youngest segments are pruned.
OutnumberedByOlder(n) == Cardinality({m \in Segments : Before(m, n)}) >= MaxSegments

\* Of each name that at least MaxSegments younger ones outnumber, the file that
\* findSegments shows is to be removed.
Outnumbered(n) == Cardinality({m \in Segments : Before(n, m)}) >= MaxSegments

Doomed == {<<n, Kind(n)>> : n \in {m \in Segments : MaxSegments > 0 /\ Outnumbered(m)}}

PruneList(k) ==
    /\ JobAt(k, "prune")
    /\ jobs' = IF Doomed = {} THEN Without(jobs, {k})
               ELSE [jobs EXCEPT ![k].at = "unlink", ![k].doomed = Doomed]
    /\ UNCHANGED <<files, writer, todo, bounds, reader, rquiet>>

\* The next of them, oldest first; that it is already gone is no error.
PruneRemove(k) ==
    /\ JobAt(k, "unlink")
    /\ \E f \in jobs[k].doomed :
          /\ \A g \in jobs[k].doomed \ {f} : Before(f[1], g[1])
          /\ gz' = IF f[2] = "gz" THEN Without(gz, {f[1]}) ELSE gz
          /\ plain' = IF f[2] = "plain" THEN Without(plain, {f[1]}) ELSE plain
          /\ jobs' = IF jobs[k].doomed = {f} THEN Without(jobs, {k})
                     ELSE [jobs EXCEPT ![k].doomed = @ \ {f}]
    /\ rquiet' = FALSE
    /\ UNCHANGED <<live, exists, tmp, writer, todo, bounds, reader>>

PruneFails(k) ==
    /\ JobAt(k, "unlink") /\ Fault
    /\ jobs' = Without(jobs, {k})
    /\ UNCHANGED <<files, writer, todo, now, crashes, reads, reader, rquiet>>

-----------------------------------------------------------------------------
(* The end of a process, and time. *)

\* Writer.Close: no more writes, and the compressions are waited for.
Close ==
    /\ wpc = "ready"
    /\ wpc' = "closing" /\ fd' = "nil"
    /\ UNCHANGED <<files, size, MaxSegments, seg, next, written, jobs, todo, bounds, reader, rquiet>>

Closed ==
    /\ wpc = "closing" /\ jobs = <<>>
    /\ wpc' = "down"
    /\ UNCHANGED <<files, fd, size, MaxSegments, seg, next, written, jobs, todo, bounds, reader, rquiet>>

\* The process dies between two system calls; the files stay as they are.  The entry
\* of a Write that has not returned may be in the live file.
Crash ==
    /\ wpc # "down" /\ crashes < MaxCrashes
    /\ crashes' = crashes + 1
    /\ \/ UNCHANGED <<live, written>>
       \/ /\ wpc = "append" /\ fd = "open"
          /\ live' = AppendLine(live, next) /\ written' = written \cup {next}
    /\ wpc' = "down" /\ fd' = "nil" /\ jobs' = <<>> /\ todo' = {}
    /\ next' = IF wpc \in {"rename", "reopen", "append"} THEN next + 1 ELSE next
    /\ UNCHANGED <<exists, plain, gz, tmp, size, MaxSegments, seg, now, faults, reads, reader, rquiet>>

Tick ==
    /\ now < MaxClock
    /\ now' = now + 1
    /\ UNCHANGED <<files, writer, jobs, todo, crashes, faults, reads, reader, rquiet>>

-----------------------------------------------------------------------------
(* ReadHistory, in any process, without a lock. *)

\* findSegments: the names, each with the file that stands for it.
ReadList ==
    /\ rpc \in {"idle", "done", "failed"} /\ reads < MaxReads
    /\ reads' = reads + 1
    /\ rpc' = IF Segments = {} THEN "live" ELSE "segments"
    /\ rlist' = {<<n, Kind(n)>> : n \in Segments}
    /\ rgot' = <<>> /\ rwant' = written /\ rquiet' = TRUE
    /\ UNCHANGED <<files, writer, jobs, todo, now, crashes, faults>>

\* Mutant: the segments are read youngest first.
ReadYoungest(s) ==
    /\ rpc = "segments" /\ s \in rlist
    /\ \A t \in rlist \ {s} : Before(t[1], s[1])
    /\ LET file == IF s[2] = "gz" THEN gz ELSE plain
           n == s[1]
       IN rgot' = IF n \in DOMAIN file THEN rgot \o Parsed(file[n]) ELSE rgot
    /\ rlist' = rlist \ {s}
    /\ UNCHANGED <<files, writer, jobs, todo, bounds, rpc, rwant, rquiet>>

\* The next segment, oldest first; one that cannot be read is skipped.
ReadSegment(s) ==
    /\ rpc = "segments" /\ s \in rlist
    /\ \A t \in rlist \ {s} : Before(s[1], t[1])
    /\ LET file == IF s[2] = "gz" THEN gz ELSE plain
           n == s[1]
       IN rgot' = IF n \in DOMAIN file /\ ~Corrupt(file[n]) THEN rgot \o Parsed(file[n])
                  ELSE rgot
    /\ rlist' = rlist \ {s}
    /\ UNCHANGED <<files, writer, jobs, todo, bounds, rpc, rwant, rquiet>>

\* The live file last.  It is not there between a rotation's rename and reopen, an
\* error only if no segment was listed.
ReadLive ==
    /\ rpc \in {"segments", "live"} /\ rlist = {}
    /\ rpc' = IF Corrupt(live) \/ (rpc = "live" /\ ~exists) THEN "failed" ELSE "done"
    /\ rgot' = rgot \o Parsed(live)
    /\ UNCHANGED <<files, writer, jobs, todo, bounds, rlist, rwant, rquiet>>

-----------------------------------------------------------------------------
\* Every entry of the behaviour is written and nothing is under way.
Finished ==
    /\ next > MaxEntries /\ wpc = "down" /\ now = MaxClock
    /\ rpc \in {"idle", "done", "failed"} /\ reads = MaxReads
    /\ UNCHANGED vars

Next ==
    \/ Open \/ Opened \/ Close \/ Closed \/ Crash \/ Tick \/ Finished
    \/ WriteFits \/ WriteLine \/ WriteFails
    \/ BeginRotate \/ RotateFails \/ RotateStuck \/ RenameLive \/ RenameFails \/ Reopen \/ ReopenFails
    \/ \E n \in todo : SweepNext(n)
    \/ \E k \in Keys : \/ StartGzip(k) \/ RenameGz(k) \/ RemovePlain(k) \/ CompressFails(k)
                       \/ PruneList(k) \/ PruneRemove(k) \/ PruneFails(k)
    \/ ReadList \/ ReadLive \/ \E s \in rlist : ReadSegment(s)

Spec == Init /\ [][Next]_vars

-----------------------------------------------------------------------------
\* The entry written after a torn line completes it, and is lost with it; as long as
\* none is, no file has a line that does not parse.
Files   == {live} \cup {plain[n] : n \in DOMAIN plain} \cup {gz[n] : n \in DOMAIN gz}
Spoiled == \E lines \in Files : \E i \in 1..Len(lines) : lines[i] = Bad

\* Without retention no written entry is ever out of the readers' sight: not between
\* the steps of a rotation or of a compression, not after a crash among them, not
\* after a failed one, and not by a write that ended within its line
\* (rotateLocked, compressSegment, sweepUncompressed, parseEntries).
HistoryComplete == MaxSegments = 0 /\ ~Spoiled => written \subseteq Visible

\* The order of the segment names, then the live file, is the order of writing, and no
\* entry is in two files that findSegments would both show.
Increasing(lines) == \A j \in 1..Len(lines) : \A i \in 1..(j - 1) :
                         lines[i] \in Entry /\ lines[j] \in Entry => lines[i] < lines[j]
Precedes(a, b) == \A x \in EntriesIn(a), y \in EntriesIn(b) : x < y
HistoryOrdered ==
    /\ \A n \in Segments : Increasing(Content(n)) /\ Precedes(Content(n), live)
    /\ \A m, n \in Segments : Before(m, n) => Precedes(Content(m), Content(n))
    /\ Increasing(live)

\* A segment is missing only when MaxSegments younger ones are kept, whatever prunes
\* overlap with rotations and with each other (pruneSegments).
KeptSegments(e) == {n \in Segments : \A x \in EntriesIn(Content(n)) : x > e}
PrunedWhenOutnumbered ==
    ~Spoiled => \A e \in written \ Visible : Cardinality(KeptSegments(e)) >= MaxSegments

\* Where no system call has failed, Open returns with every segment archived, whichever
\* steps of rotations and compressions earlier processes died between
\* (sweepUncompressed).
SweepRepairs ==
    [][wpc = "opening" /\ wpc' = "ready" /\ faults = 0 => DOMAIN plain \subseteq DOMAIN gz]_vars

\* What a reader collects is in the order of writing and without repetition, although
\* segments are renamed, compressed and removed under it (ReadHistory).
ReadOrdered == Increasing(rgot)

\* A reader that no rename or removal overlapped has every entry written before it.
GotBy(reading) == {reading[i] : i \in 1..Len(reading)}
QuietReadComplete ==
    rquiet /\ rpc = "done" /\ MaxSegments = 0 /\ ~Spoiled => rwant \subseteq GotBy(rgot)

\* Without retention the files implement the abstract log, torn lines and all: no step
\* but a write changes which complete lines there are.
Kept == (UNION {{lines[i] : i \in 1..Len(lines)} : lines \in Files}) \cap Entry
Durable == INSTANCE DurableLog WITH log <- IF MaxSegments = 0 THEN Kept ELSE {}
DurableSpec == Durable!Spec
=============================================================================
