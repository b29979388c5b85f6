---------------------------- MODULE TailFollower ----------------------------
(***************************************************************************)
(* egress-guard tail: Follow (tail/follow.go) prints what is appended to   *)
(* the decision log while the log is rotated under it.  It is told of      *)
(* changes by a watch of the directory, whose events come late and may be  *)
(* lost, and looks for itself every 100 ms.                                *)
(*                                                                         *)
(* A file is the number of its inode, and holds lines 1..len[file].  The   *)
(* steps of one handler are one step here: a file that is renamed or grows *)
(* between its stat, its open and its reads gives what one of the two      *)
(* orders of the steps gives.                                              *)
(***************************************************************************)
EXTENDS Integers, Sequences

CONSTANTS MaxFiles, MaxLines, MaxEvents, NoFile

File == 1..MaxFiles
Line == File \X (1..MaxLines)

ASSUME TailAssumption ==
    /\ MaxFiles \in Nat \ {0} /\ MaxLines \in Nat /\ MaxEvents \in Nat
    /\ NoFile \notin Nat /\ NoFile \notin [file : File, off : Nat]

VARIABLES
    current,  \* the file at Path, or NoFile
    files,    \* how many there have been
    len,      \* their lengths
    pc,       \* off, looked, watching, following
    exists,   \* initiallyExists
    fp,       \* the open file and the offset in it, or NoFile
    events,   \* of the watch, not yet handled
    printed,  \* history: the lines written to Out
    skipped,  \* history: the lines before the end that was sought
    old       \* history: the lines there were when Follow was called

log    == <<current, files, len>>
reader == <<pc, exists, fp, printed, skipped, old>>
tailVars == <<log, reader, events>>

TailInit ==
    /\ files \in 0..1 /\ current = (IF files = 0 THEN NoFile ELSE 1)
    /\ len \in [File -> 0..MaxLines] /\ \A f \in File : f > files => len[f] = 0
    /\ pc = "off" /\ exists = FALSE /\ fp = NoFile /\ events = <<>>
    /\ printed = {} /\ skipped = {} /\ old = {}

Lines(f, from) == {<<f, i>> : i \in from + 1 .. len[f]}

-----------------------------------------------------------------------------
(* The writer of the log (decisionlog).                                    *)

\* An event may be lost, or taken together with the one before it.
Notify(e) ==
    events' \in {events} \cup (IF pc \in {"watching", "following"} /\ Len(events) < MaxEvents
                               THEN {Append(events, e)} ELSE {})

AppendLine ==
    /\ current # NoFile /\ len[current] < MaxLines
    /\ len' = [len EXCEPT ![current] = @ + 1] /\ Notify("write")
    /\ UNCHANGED <<current, files, reader>>

RenameAway ==
    /\ current # NoFile /\ files < MaxFiles
    /\ current' = NoFile /\ Notify("rename")
    /\ UNCHANGED <<files, len, reader>>

CreateFile ==
    /\ current = NoFile /\ files < MaxFiles
    /\ files' = files + 1 /\ current' = files + 1 /\ Notify("create")
    /\ UNCHANGED <<len, reader>>

-----------------------------------------------------------------------------
(* Follow.                                                                 *)

\* fileExists
Follow ==
    /\ pc = "off" /\ pc' = "looked" /\ exists' = (current # NoFile)
    /\ fp' = NoFile /\ printed' = {} /\ skipped' = {}
    /\ old' = UNION {Lines(f, 0) : f \in File}
    /\ UNCHANGED <<log, events>>

Watch ==
    /\ pc = "looked" /\ pc' = "watching"
    /\ UNCHANGED <<log, exists, fp, printed, skipped, old, events>>

\* What a read leaves open and prints.
Nothing == [fp |-> NoFile, out |-> {}]

drain(h) == [fp |-> [h EXCEPT !.off = len[h.file]], out |-> Lines(h.file, h.off)]

\* mutant: it goes on at the end of the file that is there
openAtEnd == IF current = NoFile \/ len[current] = 0 THEN Nothing
             ELSE [fp |-> [file |-> current, off |-> len[current]], out |-> {}]

\* An empty file is not kept open.
openAndDrain == IF current = NoFile \/ len[current] = 0 THEN Nothing
                ELSE drain([file |-> current, off |-> 0])

\* mutant: the open file is never compared with the one at Path
drainOpen == IF fp = NoFile THEN openAndDrain ELSE drain(fp)

syncPath ==
    CASE fp = NoFile          -> openAndDrain
      [] current = NoFile     -> Nothing
      [] fp.file # current  -> openAndDrain
      [] OTHER              -> drain(fp)

Does(r) == fp' = r.fp /\ printed' = printed \cup r.out

\* What was there at the start is not echoed; a file that appeared since is.
Start ==
    /\ pc = "watching" /\ pc' = "following"
    /\ IF exists /\ current # NoFile
       THEN /\ fp' = [file |-> current, off |-> len[current]]
            /\ skipped' = Lines(current, 0) /\ UNCHANGED printed
       ELSE Does(openAndDrain) /\ UNCHANGED skipped
    /\ UNCHANGED <<log, exists, old, events>>

Tick ==
    /\ pc = "following" /\ Does(syncPath)
    /\ UNCHANGED <<log, pc, exists, skipped, old, events>>

OnRename ==
    /\ pc = "following" /\ events # <<>> /\ Head(events) = "rename"
    /\ fp' = NoFile /\ events' = Tail(events)
    /\ UNCHANGED <<log, pc, exists, printed, skipped, old>>

OnCreate ==
    /\ pc = "following" /\ events # <<>> /\ Head(events) = "create"
    /\ Does(syncPath) /\ events' = Tail(events)
    /\ UNCHANGED <<log, pc, exists, skipped, old>>

OnWrite ==
    /\ pc = "following" /\ events # <<>> /\ Head(events) = "write"
    /\ Does(IF fp = NoFile THEN openAndDrain ELSE drain(fp)) /\ events' = Tail(events)
    /\ UNCHANGED <<log, pc, exists, skipped, old>>

\* The user interrupts it, or a read, a write or the watch fails.
Stop ==
    /\ pc # "off" /\ pc' = "off" /\ events' = <<>>
    /\ UNCHANGED <<log, exists, fp, printed, skipped, old>>

TailNext ==
    \/ AppendLine \/ RenameAway \/ CreateFile
    \/ Follow \/ Watch \/ Start \/ Tick \/ OnRename \/ OnCreate \/ OnWrite \/ Stop

\* The ticker goes on, and select chooses among what is ready at random.
TailSpec == TailInit /\ [][TailNext]_tailVars /\ WF_tailVars(Tick)

-----------------------------------------------------------------------------
(* Properties.                                                             *)

(* No line is missed within a file, whatever events were lost or came late:*)
(* before a line that was printed, every line of its file was printed too, *)
(* or passed over when the end was sought; and what was there when Follow  *)
(* was called is not echoed, though files are reopened from their start.   *)
NoGaps ==
    /\ \A l \in printed : \A i \in 1..l[2] : <<l[1], i>> \in printed \cup skipped
    /\ printed \cap old = {}

(* A line in the log is printed in the end, unless it was there at the     *)
(* start, the log is rotated away from it, or the user stops: no lost      *)
(* event leaves the follower with a file that is no longer the log.        *)
LinesArePrinted ==
    \A l \in Line :
        (pc = "following" /\ current = l[1] /\ len[l[1]] >= l[2])
            ~> (l \in printed \cup skipped \/ current # l[1] \/ pc # "following")
=============================================================================
