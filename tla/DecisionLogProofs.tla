-------------------------- MODULE DecisionLogProofs --------------------------
(***************************************************************************)
(* Proofs about DecisionLog, for any fault budget, retention and number of *)
(* writes, through crashes and restarts: types, what Open repairs, that no *)
(* entry is lost but with a segment pruned for its age, the order of what  *)
(* the files hold and a reader collects, and the refinement of DurableLog. *)
(*                                                                         *)
(* The inductive invariant says of every file and every unfinished job     *)
(* what it holds (JobsInv: what a compression renames is what it read),    *)
(* which names a rotation can no longer choose (NamesInv, SegInv), that    *)
(* the contents lie in the order of the names and below the live file      *)
(* (OrderInv), where each written entry is (PlacedInv), and what a reader  *)
(* under way has left to find (ReaderInv, QuietInv).                       *)
(***************************************************************************)
EXTENDS DecisionLog, FiniteSetTheorems, SequenceTheorems, TLAPS

Line == Entry \cup {Torn, Bad}

\* The entries among some lines, and whether one of the lines does not parse.
Raw(lines)    == {lines[i] : i \in 1..Len(lines)} \cap Entry
HasBad(lines) == \E i \in 1..Len(lines) : lines[i] = Bad
Less(a, b)    == \A x \in Raw(a), y \in Raw(b) : x < y

\* A name that may be pruned, and the names a rotation can no longer choose.
Gone(n)  == MaxSegments > 0 /\ Outnumbered(n)
Known(n) == Occupied(n) \/ Gone(n)

\* With retention a name may be free again within its second, and be taken twice.
Reuses == MaxSegments > 0 /\ Bursts

Working == {"start", "rename", "remove"}

\* What stands, or is about to stand, under the name of a segment.
Chunks == {<<n, plain[n]>> : n \in DOMAIN plain} \cup {<<n, gz[n]>> : n \in DOMAIN gz}
          \cup {<<jobs[k].seg, jobs[k].lines>> : k \in {j \in DOMAIN jobs : jobs[j].at = "rename"}}

FilesType ==
    /\ live \in Seq(Line) /\ exists \in BOOLEAN
    /\ DOMAIN plain \subseteq Names /\ \A n \in DOMAIN plain : plain[n] \in Seq(Line)
    /\ DOMAIN gz \subseteq Names /\ \A n \in DOMAIN gz : gz[n] \in Seq(Line)
    /\ tmp \subseteq Names

WriterType ==
    /\ wpc \in {"down", "opening", "ready", "append", "rename", "reopen", "closing"}
    /\ MaxSegments \in Nat /\ seg \in Names /\ now \in Nat /\ faults \in Nat
    /\ next \in Nat \ {0} /\ (wpc \in {"append", "rename", "reopen"} => next \in Entry)
    /\ \A e \in written : e \in Entry /\ e < next
    /\ fd = "open" \/ wpc = "rename" => exists
    /\ wpc \in {"rename", "reopen"} => fd = "closed"
    /\ ~exists => live = <<>>

JobSet == [at : Working \cup {"prune", "unlink"}, seg : Names, lines : Seq(Line),
           doomed : SUBSET (Names \X {"plain", "gz"})]

JobsType ==
    /\ DOMAIN jobs \subseteq Keys /\ todo \subseteq Names
    /\ \A k \in DOMAIN jobs :
          /\ k =< next /\ (wpc # "append" => k < next)
          /\ jobs[k] \in JobSet

ReaderType ==
    /\ rpc \in {"idle", "segments", "live", "done", "failed"}
    /\ rlist \subseteq Names \X {"plain", "gz"} /\ rgot \in Seq(Line) /\ rwant \subseteq Entry

TypeInv == FilesType /\ WriterType /\ JobsType /\ ReaderType

\* Open works on one segment at a time, and what it has not come to yet waits in todo;
\* while no call has failed nothing is missing from the two.
SweepInv ==
    /\ wpc = "down" => jobs = <<>>
    /\ wpc = "opening" =>
          /\ \A k \in DOMAIN jobs :
                /\ k = Sweep /\ jobs[k].at \in Working
                /\ jobs[k].seg \in DOMAIN plain /\ jobs[k].seg \notin todo
                /\ jobs[k].at = "remove" => jobs[k].seg \in DOMAIN gz
          /\ todo \subseteq DOMAIN plain \ DOMAIN gz
          /\ faults = 0 => \A n \in DOMAIN plain \ DOMAIN gz :
                               n \in todo \/ \E k \in DOMAIN jobs : jobs[k].seg = n
    /\ wpc # "opening" => todo = {} /\ Sweep \notin DOMAIN jobs

\* The names in use are of the past, and number their second from 0 without a gap.
NamesInv ==
    \A n \in Names : Occupied(n) =>
        /\ n[1] <= now
        /\ MaxSegments > 0 => n[2] = 0
        /\ \A k \in 0..(n[2] - 1) : Occupied(<<n[1], k>>)

\* A job finds its segment as it needs it, unless the segment may be pruned; what it has
\* chosen to prune may be pruned still; no two compress the same segment.
JobsInv ==
    /\ \A k \in DOMAIN jobs : LET n == jobs[k].seg IN
          /\ jobs[k].at \in {"start", "rename"} => (n \in DOMAIN plain \/ Gone(n)) /\ n \notin DOMAIN gz
          /\ jobs[k].at = "rename" => n \in tmp
          /\ jobs[k].at = "remove" => n \in DOMAIN gz \/ Gone(n)
          /\ \A f \in jobs[k].doomed : Gone(f[1])
    /\ \A j, k \in DOMAIN jobs :
          jobs[j].at \in Working /\ jobs[k].at \in Working /\ jobs[j].seg = jobs[k].seg => j = k

\* A rotation renames to a name that is later than all in use, and then owns it.
SegInv ==
    /\ wpc = "rename" =>
          /\ \A n \in Names : Occupied(n) => Before(n, seg)
          /\ seg[1] <= now /\ (MaxSegments > 0 => seg[2] = 0)
          /\ \A k \in 0..(seg[2] - 1) : Occupied(<<seg[1], k>>)
    /\ wpc = "reopen" => (seg \in DOMAIN plain \/ Gone(seg)) /\ seg \notin DOMAIN gz
    /\ wpc \in {"rename", "reopen"} =>
          \A k \in DOMAIN jobs : jobs[k].at \in Working => jobs[k].seg # seg

\* What stands under a name is the same in each of its files; the names are in the order
\* of the entries, and the live file after them all.
OrderInv ==
    /\ \A c, d \in Chunks : c[1] = d[1] => c[2] = d[2]
    /\ \A c, d \in Chunks : Before(c[1], d[1]) => Less(c[2], d[2])
    /\ \A c \in Chunks : Increasing(c[2]) /\ Less(c[2], live)
    /\ Increasing(live)
    /\ \A e \in Raw(live) : e < next
    /\ \A c \in Chunks : \A e \in Raw(c[2]) : e < next

\* Every entry in the live file, or in a segment after p, is later than e.
After(p, e) ==
    /\ \A x \in Raw(live) : e < x
    /\ \A c \in Chunks : Before(p, c[1]) => \A x \in Raw(c[2]) : e < x

\* An entry is in the live file, or in a segment or in one that may be pruned, and what
\* comes after it there is later; or a line that swallowed it does not parse.
Placed(e) ==
    \/ e \in Raw(live) \/ HasBad(live)
    \/ \E p \in Names : /\ After(p, e)
                        /\ \/ Gone(p)
                           \/ p \in Segments /\ \E c \in Chunks :
                                c[1] = p /\ (e \in Raw(c[2]) \/ HasBad(c[2]))

PlacedInv == \A e \in written : Placed(e)

\* A reader has an ordered prefix of what it will find in the segments of its list and
\* in the live file.
ReaderInv ==
    /\ Increasing(rgot)
    /\ rpc \in {"segments", "live"} =>
          /\ \A s \in rlist : Known(s[1])
          /\ \A e \in Raw(rgot) : e < next
          /\ Less(rgot, live)
          /\ \A s \in rlist : \A c \in Chunks : c[1] = s[1] => Less(rgot, c[2])

\* The reader will find e where its list says.
Listed(s, e) == IF s[2] = "gz" THEN s[1] \in DOMAIN gz /\ e \in Raw(gz[s[1]])
                               ELSE s[1] \in DOMAIN plain /\ e \in Raw(plain[s[1]])

\* Beside no rotation, a reader has or will find what it wanted.
QuietInv ==
    rquiet /\ MaxSegments = 0 /\ ~Spoiled =>
       /\ rpc \in {"segments", "live"} =>
             \A e \in rwant : e \in Raw(rgot) \/ e \in Raw(live) \/ \E s \in rlist : Listed(s, e)
       /\ rpc = "done" => rwant \subseteq Raw(rgot)

LogInv == NamesInv /\ JobsInv /\ SegInv /\ OrderInv /\ PlacedInv /\ ReaderInv /\ QuietInv
Inv    == TypeInv /\ SweepInv /\ LogInv

\* No segment is taken away but one that is outnumbered.
SegmentsKept == \/ Segments \subseteq Segments'
                \/ \E m \in Names : Gone(m) /\ Segments \ {m} \subseteq Segments'

\* The steps of the process that touch neither the files nor the reader, and those of
\* the reader.
Aside ==
    \/ Opened \/ Close \/ Closed \/ Tick \/ WriteFits \/ BeginRotate \/ RotateStuck \/ RotateFails
    \/ RenameFails \/ ReopenFails \/ UNCHANGED vars
    \/ \E n \in todo : SweepNext(n)
    \/ \E k \in Keys : PruneList(k) \/ PruneFails(k)
Reading == ReadList \/ ReadLive \/ \E s \in rlist : ReadSegment(s)

-----------------------------------------------------------------------------
(* The names of segments are ordered. *)
LEMMA BeforeIsOrder ==
    ASSUME NEW l \in Names, NEW m \in Names, NEW n \in Names
    PROVE  /\ Before(l, m) /\ Before(m, n) => Before(l, n)
           /\ ~Before(n, n)
           /\ m # n => Before(m, n) \/ Before(n, m)
<1>1. /\ l[1] \in Int /\ l[2] \in Int /\ m[1] \in Int /\ m[2] \in Int
      /\ n[1] \in Int /\ n[2] \in Int
      /\ m = <<m[1], m[2]>> /\ n = <<n[1], n[2]>>
  BY LogAssumption DEF Names
<1>2. Before(l, m) /\ Before(m, n) => Before(l, n)
  BY <1>1 DEF Before
<1>3. ~Before(n, n)
  BY <1>1 DEF Before
<1>4. ASSUME m # n PROVE Before(m, n) \/ Before(n, m)
  <2>1. m[1] # n[1] \/ m[2] # n[2]
    BY <1>1, <1>4
  <2> QED
    BY <1>1, <2>1 DEF Before
<1> QED
  BY <1>2, <1>3, <1>4

(* There are finitely many. *)
LEMMA NamesFinite == IsFiniteSet(Names)
<1>1. IsFiniteSet(0..MaxClock) /\ IsFiniteSet(0..MaxSeq)
  BY LogAssumption, FS_Interval
<1> QED
  BY <1>1, FS_Product DEF Names

(* What a write makes of the lines of a file. *)
LEMMA AppendedLine ==
    ASSUME NEW lines \in Seq(Line), NEW e \in Entry
    PROVE  /\ AppendLine(lines, e) \in Seq(Line)
           /\ Raw(AppendLine(lines, e)) \subseteq Raw(lines) \cup {e}
           /\ Raw(lines) \subseteq Raw(AppendLine(lines, e))
           /\ HasBad(lines) => HasBad(AppendLine(lines, e))
           /\ e \in Raw(AppendLine(lines, e)) \/ HasBad(AppendLine(lines, e))
           /\ Increasing(lines) /\ (\A x \in Raw(lines) : x < e)
                  => Increasing(AppendLine(lines, e))
<1>1. CASE lines # <<>> /\ lines[Len(lines)] = Torn
  <2>1. AppendLine(lines, e) = [lines EXCEPT ![Len(lines)] = Bad]
    BY <1>1 DEF AppendLine
  <2>2. /\ Len(lines) \in 1..Len(lines) /\ AppendLine(lines, e) \in Seq(Line)
        /\ Len(AppendLine(lines, e)) = Len(lines)
        /\ AppendLine(lines, e)[Len(lines)] = Bad
        /\ \A i \in 1..Len(lines) : i # Len(lines) => AppendLine(lines, e)[i] = lines[i]
    BY <1>1, <2>1, EmptySeq, LenProperties, ExceptSeq DEF Line
  <2>3. Torn \notin Entry /\ Bad \notin Entry
    BY LogAssumption DEF Torn, Bad, Entry
  <2> HIDE <1>1
  <2> QED
    BY <1>1, <2>2, <2>3 DEF Raw, HasBad, Increasing
<1>2. CASE ~(lines # <<>> /\ lines[Len(lines)] = Torn)
  <2>1. AppendLine(lines, e) = Append(lines, e)
    BY <1>2 DEF AppendLine
  <2>2. /\ AppendLine(lines, e) \in Seq(Line) /\ Len(AppendLine(lines, e)) = Len(lines) + 1
        /\ AppendLine(lines, e)[Len(lines) + 1] = e
        /\ \A i \in 1..Len(lines) : AppendLine(lines, e)[i] = lines[i]
        /\ Len(lines) \in Nat
    BY <2>1, AppendProperties DEF Line
  <2> QED
    BY <2>2 DEF Raw, HasBad, Increasing
<1> QED
  BY <1>1, <1>2

LEMMA AppendedTorn ==
    ASSUME NEW lines \in Seq(Line)
    PROVE  /\ AppendTorn(lines) \in Seq(Line)
           /\ Raw(AppendTorn(lines)) = Raw(lines)
           /\ HasBad(AppendTorn(lines)) <=> HasBad(lines)
           /\ Increasing(lines) => Increasing(AppendTorn(lines))
<1>1. CASE AppendTorn(lines) = lines
  BY <1>1
<1>2. CASE AppendTorn(lines) = Append(lines, Torn)
  <2>1. /\ AppendTorn(lines) \in Seq(Line) /\ Len(AppendTorn(lines)) = Len(lines) + 1
        /\ AppendTorn(lines)[Len(lines) + 1] = Torn
        /\ \A i \in 1..Len(lines) : AppendTorn(lines)[i] = lines[i]
        /\ Len(lines) \in Nat
    BY <1>2, AppendProperties DEF Line
  <2>2. Torn \notin Entry /\ Torn # Bad
    BY LogAssumption DEF Torn, Bad, Entry
  <2> HIDE <1>2
  <2> QED
    BY <2>1, <2>2 DEF Raw, HasBad, Increasing
<1> QED
  BY <1>1, <1>2 DEF AppendTorn

(* What a reader takes of a file. *)
LEMMA ParsedLines ==
    ASSUME NEW lines \in Seq(Line)
    PROVE  /\ Parsed(lines) \in Seq(Line)
           /\ Raw(Parsed(lines)) = Raw(lines)
           /\ Increasing(lines) => Increasing(Parsed(lines))
<1>1. CASE Parsed(lines) = lines
  BY <1>1
<1>2. CASE /\ Parsed(lines) = SubSeq(lines, 1, Len(lines) - 1)
           /\ lines # <<>> /\ lines[Len(lines)] \in {Torn, Bad}
  <2>1. /\ Parsed(lines) \in Seq(Line) /\ Len(Parsed(lines)) = Len(lines) - 1
        /\ \A i \in 1..(Len(lines) - 1) : Parsed(lines)[i] = lines[i]
        /\ Len(lines) \in Nat \ {0}
    <3>1. Len(lines) \in Nat \ {0}
      BY <1>2, EmptySeq, LenProperties
    <3>2. /\ 1 \in Int /\ Len(lines) - 1 \in Int
          /\ \A i \in 1..(Len(lines) - 1) : lines[i] \in Line
      BY <3>1, ElementOfSeq
    <3>3. /\ SubSeq(lines, 1, Len(lines) - 1) \in Seq(Line)
          /\ Len(SubSeq(lines, 1, Len(lines) - 1))
                = IF 1 <= Len(lines) - 1 THEN (Len(lines) - 1) - 1 + 1 ELSE 0
          /\ \A i \in 1..((Len(lines) - 1) - 1 + 1) :
                SubSeq(lines, 1, Len(lines) - 1)[i] = lines[1 + i - 1]
      BY <3>2, SubSeqProperties
    <3>4. (Len(lines) - 1) - 1 + 1 = Len(lines) - 1 /\ \A i \in 1..(Len(lines) - 1) : 1 + i - 1 = i
      BY <3>1
    <3> QED
      BY <1>2, <3>1, <3>3, <3>4
  <2>2. lines[Len(lines)] \notin Entry
    BY <1>2, LogAssumption DEF Torn, Bad, Entry
  <2> QED
    BY <2>1, <2>2 DEF Raw, Increasing
<1> QED
  BY <1>1, <1>2 DEF Parsed

(* Reading on. *)
LEMMA ReadOn ==
    ASSUME NEW a \in Seq(Line), NEW b \in Seq(Line)
    PROVE  /\ a \o b \in Seq(Line)
           /\ Raw(a \o b) = Raw(a) \cup Raw(b)
           /\ Increasing(a) /\ Increasing(b) /\ Less(a, b) => Increasing(a \o b)
<1>1. /\ a \o b \in Seq(Line) /\ Len(a \o b) = Len(a) + Len(b)
      /\ Len(a) \in Nat /\ Len(b) \in Nat
      /\ \A i \in 1..Len(a) : (a \o b)[i] = a[i]
      /\ \A i \in 1..Len(b) : (a \o b)[Len(a) + i] = b[i]
  BY ConcatProperties, LenProperties
<1> DEFINE c == a \o b
<1>2. Raw(c) = Raw(a) \cup Raw(b)
  BY <1>1 DEF Raw
<1>3. ASSUME Increasing(a), Increasing(b), Less(a, b) PROVE Increasing(c)
  <2>1. ASSUME NEW j \in 1..Len(c), NEW i \in 1..(j - 1), c[i] \in Entry, c[j] \in Entry
        PROVE  c[i] < c[j]
    <3>1. CASE j <= Len(a)
      BY <1>1, <1>3, <2>1, <3>1 DEF Increasing
    <3>2. CASE i > Len(a)
      <4>1. /\ j - Len(a) \in 1..Len(b) /\ i - Len(a) \in 1..((j - Len(a)) - 1)
            /\ c[j] = b[j - Len(a)] /\ c[i] = b[i - Len(a)]
        BY <1>1, <2>1, <3>2
      <4> QED
        BY <1>3, <2>1, <4>1 DEF Increasing
    <3>3. CASE i <= Len(a) /\ j > Len(a)
      <4>1. j - Len(a) \in 1..Len(b) /\ c[j] = b[j - Len(a)] /\ i \in 1..Len(a) /\ c[i] = a[i]
        BY <1>1, <2>1, <3>3
      <4> QED
        BY <1>3, <2>1, <4>1 DEF Less, Raw
    <3> QED
      BY <1>1, <2>1, <3>1, <3>2, <3>3
  <2> QED
    BY <2>1 DEF Increasing
<1> QED
  BY <1>1, <1>2, <1>3
-----------------------------------------------------------------------------
(* What each kind of step leaves alone. *)
LEMMA Steps ==
    ASSUME [Next]_vars
    PROVE  \/ Open \/ Crash \/ WriteLine \/ WriteFails \/ RenameLive \/ Reopen
           \/ \E k \in Keys : \/ StartGzip(k) \/ RenameGz(k) \/ RemovePlain(k)
                              \/ CompressFails(k) \/ PruneRemove(k)
           \/ Aside \/ Reading
<1>1. Finished => UNCHANGED vars
  BY DEF Finished
<1> QED
  BY <1>1 DEF Next, Aside, Reading

LEMMA AsideKeeps ==
    ASSUME Aside
    PROVE  UNCHANGED <<files, reader, rquiet, MaxSegments, written>>
  BY DEF Aside, Opened, Close, Closed, Tick, WriteFits, BeginRotate, RotateStuck, RotateFails, RenameFails,
         ReopenFails, SweepNext, PruneList, PruneFails, files, writer, bounds, reader, vars

LEMMA ReadingKeeps ==
    ASSUME Reading
    PROVE  UNCHANGED <<files, writer, jobs, todo, now, crashes, faults>>
  BY DEF Reading, ReadList, ReadLive, ReadSegment, bounds

LEMMA ReaderKept ==
    ASSUME [Next]_vars, ~Reading
    PROVE  /\ UNCHANGED reader
           /\ rquiet' => rquiet /\ UNCHANGED <<plain, gz>> /\ ~RenameLive
<1>1. CASE Open \/ Crash \/ WriteLine \/ WriteFails \/ RenameLive \/ Reopen
  BY <1>1 DEF Open, Crash, WriteLine, WriteFails, RenameLive, Reopen, reader
<1>2. ASSUME NEW k \in Keys,
             \/ StartGzip(k) \/ RenameGz(k) \/ RemovePlain(k) \/ CompressFails(k) \/ PruneRemove(k)
      PROVE  UNCHANGED reader /\ (rquiet' => rquiet /\ UNCHANGED <<plain, gz>> /\ ~RenameLive)
  <2>1. UNCHANGED reader /\ (rquiet' => rquiet /\ UNCHANGED <<plain, gz>>)
    BY <1>2 DEF StartGzip, RenameGz, RemovePlain, CompressFails, PruneRemove, reader
  <2>2. RenameLive => ~rquiet'
    BY DEF RenameLive
  <2> QED
    BY <2>1, <2>2
<1>3. CASE Aside
  <2>1. RenameLive => ~rquiet'
    BY DEF RenameLive
  <2> QED
    BY <1>3, <2>1, AsideKeeps DEF files
<1> QED
  BY <1>1, <1>2, <1>3, Steps

-----------------------------------------------------------------------------
(* The types. *)
LEMMA JobIsJob ==
    ASSUME NEW at \in Working \cup {"prune", "unlink"}, NEW n \in Names, NEW lines \in Seq(Line),
           NEW doomed \in SUBSET (Names \X {"plain", "gz"})
    PROVE  Job(at, n, lines, doomed) \in JobSet
  BY DEF Job, JobSet

LEMMA NoLines == <<>> \in Seq(Line) /\ DOMAIN <<>> = {} /\ Raw(<<>>) = {} /\ ~HasBad(<<>>)
                 /\ Increasing(<<>>)
<1>1. <<>> \in Seq(Line) /\ DOMAIN <<>> = {} /\ Len(<<>>) = 0
  BY EmptySeq
<1> QED
  BY <1>1 DEF Raw, HasBad, Increasing

LEMMA FilesStep == TypeInv /\ [Next]_vars => FilesType'
<1> SUFFICES ASSUME TypeInv, [Next]_vars
             PROVE  FilesType'
  OBVIOUS
<1>0. /\ FilesType /\ WriterType /\ JobsType
      /\ \A k \in DOMAIN jobs : jobs[k].seg \in Names /\ jobs[k].lines \in Seq(Line)
  BY DEF TypeInv, JobsType, JobSet
<1>1. CASE Open
  BY <1>0, <1>1, NoLines DEF Open, FilesType
<1>2. CASE Crash
  <2>1. live' \in Seq(Line)
    BY <1>0, <1>2, AppendedLine DEF Crash, FilesType, WriterType
  <2> QED
    BY <1>0, <1>2, <2>1 DEF Crash, FilesType
<1>3. CASE WriteLine
  <2>1. live' \in Seq(Line)
    BY <1>0, <1>3, AppendedLine DEF WriteLine, FilesType, WriterType
  <2> QED
    BY <1>0, <1>3, <2>1 DEF WriteLine, FilesType
<1>4. CASE WriteFails
  <2>1. live' \in Seq(Line)
    BY <1>0, <1>4, AppendedTorn DEF WriteFails, FilesType, WriterType
  <2> QED
    BY <1>0, <1>4, <2>1 DEF WriteFails, FilesType
<1>5. CASE RenameLive
  <2>1. DOMAIN plain' \subseteq Names /\ \A n \in DOMAIN plain' : plain'[n] \in Seq(Line)
    BY <1>0, <1>5 DEF With, RenameLive, FilesType, WriterType
  <2> QED
    BY <1>0, <1>5, <2>1, NoLines DEF RenameLive, FilesType
<1>6. CASE Reopen
  BY <1>0, <1>6 DEF Reopen, FilesType
<1>7. ASSUME NEW k \in Keys, StartGzip(k) PROVE FilesType'
  BY <1>0, <1>7 DEF StartGzip, JobAt, FilesType
<1>8. ASSUME NEW k \in Keys, RenameGz(k) PROVE FilesType'
  <2>1. DOMAIN gz' \subseteq Names /\ \A n \in DOMAIN gz' : gz'[n] \in Seq(Line)
    BY <1>0, <1>8 DEF With, RenameGz, JobAt, FilesType
  <2> QED
    BY <1>0, <1>8, <2>1 DEF RenameGz, JobAt, FilesType
<1>9. ASSUME NEW k \in Keys, RemovePlain(k) PROVE FilesType'
  <2>1. DOMAIN plain' \subseteq Names /\ \A n \in DOMAIN plain' : plain'[n] \in Seq(Line)
    BY <1>0, <1>9 DEF Without, RemovePlain, JobAt, FilesType
  <2> QED
    BY <1>0, <1>9, <2>1 DEF RemovePlain, FilesType
<1>10. ASSUME NEW k \in Keys, CompressFails(k) PROVE FilesType'
  BY <1>0, <1>10 DEF CompressFails, FilesType
<1>11. ASSUME NEW k \in Keys, PruneRemove(k) PROVE FilesType'
  <2>1. DOMAIN plain' \subseteq Names /\ \A n \in DOMAIN plain' : plain'[n] \in Seq(Line)
    BY <1>0, <1>11 DEF Without, PruneRemove, FilesType
  <2>2. DOMAIN gz' \subseteq Names /\ \A n \in DOMAIN gz' : gz'[n] \in Seq(Line)
    BY <1>0, <1>11 DEF Without, PruneRemove, FilesType
  <2> QED
    BY <1>0, <1>11, <2>1, <2>2 DEF PruneRemove, FilesType
<1>12. CASE UNCHANGED files
  BY <1>0, <1>12 DEF files, FilesType
<1> QED
  BY <1>1, <1>2, <1>3, <1>4, <1>5, <1>6, <1>7, <1>8, <1>9, <1>10, <1>11, <1>12, Steps, AsideKeeps,
     ReadingKeeps

LEMMA WriterStep == TypeInv /\ [Next]_vars => WriterType'
<1> SUFFICES ASSUME TypeInv, [Next]_vars
             PROVE  WriterType'
  OBVIOUS
<1>0. FilesType /\ WriterType /\ \A e \in Entry : e \in Nat
  BY LogAssumption DEF TypeInv, Entry
<1>1. CASE Open
  BY <1>0, <1>1 DEF Open, bounds, WriterType
<1>2. CASE Crash
  <2>1. \A e \in written' : e \in Entry /\ e < next'
    BY <1>0, <1>2 DEF Crash, WriterType
  <2>2. wpc' = "down" /\ fd' = "nil" /\ next' \in Nat \ {0}
    BY <1>0, <1>2 DEF Crash, WriterType
  <2>3. ~exists' => live' = <<>>
    BY <1>0, <1>2 DEF Crash, WriterType
  <2> QED
    BY <1>0, <1>2, <2>1, <2>2, <2>3 DEF Crash, WriterType
<1>3. CASE WriteLine
  <2>1. \A e \in written' : e \in Entry /\ e < next'
    BY <1>0, <1>3 DEF WriteLine, Drop, WriterType
  <2> QED
    BY <1>0, <1>3, <2>1 DEF WriteLine, Drop, bounds, WriterType
<1>4. CASE WriteFails
  <2>1. \A e \in written' : e \in Entry /\ e < next'
    BY <1>0, <1>4 DEF WriteFails, Drop, WriterType
  <2> QED
    BY <1>0, <1>4, <2>1 DEF WriteFails, Drop, Fault, WriterType
<1>5. CASE RenameLive
  BY <1>0, <1>5 DEF RenameLive, bounds, WriterType
<1>6. CASE Reopen
  BY <1>0, <1>6 DEF Reopen, bounds, WriterType
<1>7. CASE \E k \in Keys : StartGzip(k) \/ RenameGz(k) \/ RemovePlain(k) \/ PruneRemove(k)
  BY <1>0, <1>7 DEF StartGzip, RenameGz, RemovePlain, PruneRemove, writer, bounds, WriterType
<1>8. ASSUME NEW k \in Keys, CompressFails(k) PROVE WriterType'
  <2>1. faults' \in Nat
    BY <1>0, <1>8 DEF CompressFails, Fault, WriterType
  <2> QED
    BY <1>0, <1>8, <2>1 DEF CompressFails, writer, WriterType
<1>9. CASE Opened \/ Close \/ Closed \/ UNCHANGED vars
  BY <1>0, <1>9 DEF Opened, Close, Closed, vars, files, writer, bounds, WriterType
<1>10. CASE Tick
  BY <1>0, <1>10 DEF Tick, files, writer, WriterType
<1>11. CASE WriteFits
  BY <1>0, <1>11 DEF WriteFits, files, bounds, WriterType, Entry
<1>12. CASE BeginRotate
  BY <1>0, <1>12 DEF BeginRotate, files, bounds, WriterType, Entry
<1>13. CASE RotateStuck \/ RotateFails \/ RenameFails \/ ReopenFails
  <2>1. \A e \in written' : e \in Entry /\ e < next'
    BY <1>0, <1>13 DEF RotateStuck, RotateFails, RenameFails, ReopenFails, Drop, WriterType
  <2>2. faults' \in Nat /\ next' \in Nat \ {0} /\ wpc' = "ready" /\ UNCHANGED <<live, exists>>
    BY <1>0, <1>13 DEF RotateStuck, RotateFails, RenameFails, ReopenFails, Drop, Fault, files, bounds, WriterType
  <2>3. fd' = "open" => exists'
    BY <1>0, <1>13, <2>2 DEF RotateStuck, RotateFails, RenameFails, ReopenFails, WriterType
  <2> QED
    BY <1>0, <1>13, <2>1, <2>2, <2>3 DEF RotateStuck, RotateFails, RenameFails, ReopenFails, bounds, WriterType
<1>14. CASE \E n \in todo : SweepNext(n)
  BY <1>0, <1>14 DEF SweepNext, files, writer, bounds, WriterType
<1>15. CASE \E k \in Keys : PruneList(k) \/ PruneFails(k)
  BY <1>0, <1>15 DEF PruneList, PruneFails, Fault, files, writer, bounds, WriterType
<1>16. CASE Reading
  <2>1. UNCHANGED <<files, writer, now, faults>>
    BY <1>16, ReadingKeeps
  <2> QED
    BY <1>0, <2>1 DEF files, writer, WriterType
<1> QED
  BY <1>1, <1>2, <1>3, <1>4, <1>5, <1>6, <1>7, <1>8, <1>9, <1>10, <1>11, <1>12, <1>13, <1>14, <1>15,
     <1>16, Steps DEF Aside

LEMMA JobsStep == TypeInv /\ [Next]_vars => JobsType'
<1> SUFFICES ASSUME TypeInv, [Next]_vars
             PROVE  JobsType'
  OBVIOUS
<1>0. /\ FilesType /\ WriterType /\ JobsType
      /\ \A k \in DOMAIN jobs : jobs[k].seg \in Names /\ jobs[k].lines \in Seq(Line)
      /\ \A k \in Keys : k \in Nat
  BY LogAssumption DEF TypeInv, JobsType, JobSet, Keys, Sweep, Entry
<1>1. ASSUME NEW k \in Keys, k =< next, wpc # "append" => k < next, NEW j \in JobSet,
             \/ jobs' = With(jobs, k, j)
             \/ jobs' = [jobs EXCEPT ![k] = j]
             \/ jobs' = Without(jobs, {k})
             \/ UNCHANGED jobs,
             next' = next, wpc' = wpc, todo' \subseteq todo
      PROVE  JobsType'
  <2>1. DOMAIN jobs' \subseteq DOMAIN jobs \cup {k}
    BY <1>1 DEF With, Without
  <2>2. \A i \in DOMAIN jobs' : jobs'[i] = j \/ (i \in DOMAIN jobs /\ jobs'[i] = jobs[i])
    BY <1>1 DEF With, Without
  <2> QED
    BY <1>0, <1>1, <2>1, <2>2 DEF JobsType
<1>2. ASSUME UNCHANGED jobs, todo' \subseteq Names, next' \in Nat, next =< next',
             next' = next => (wpc' = "append" <=> wpc = "append"),
             next' # next => wpc' # "append"
      PROVE  JobsType'
  <2>1. \A k \in DOMAIN jobs : k \in Nat /\ k =< next' /\ (wpc' # "append" => k < next')
    BY <1>0, <1>2 DEF JobsType, WriterType
  <2> QED
    BY <1>0, <1>2, <2>1 DEF JobsType
<1>3. CASE Open \/ Opened \/ Close \/ Closed \/ Tick \/ UNCHANGED vars
  <2>1. /\ UNCHANGED <<jobs, next>> /\ (wpc' = "append" <=> wpc = "append")
    BY <1>3 DEF Open, Opened, Close, Closed, Tick, vars, writer
  <2>2. todo' \subseteq Names
    BY <1>0, <1>3 DEF Open, Opened, Close, Closed, Tick, vars, JobsType, FilesType
  <2> QED
    BY <1>0, <1>2, <2>1, <2>2 DEF WriterType
<1>4. CASE Crash
  BY <1>4, NoLines DEF Crash, JobsType, Names
<1>5. CASE WriteLine \/ WriteFails \/ RotateStuck \/ RotateFails \/ RenameFails \/ ReopenFails
  <2>1. UNCHANGED <<jobs, todo>> /\ next' = next + 1 /\ wpc' = "ready"
    BY <1>5 DEF WriteLine, WriteFails, RotateStuck, RotateFails, RenameFails, ReopenFails, Drop
  <2> QED
    BY <1>0, <1>2, <2>1 DEF JobsType, WriterType
<1>6. CASE WriteFits \/ BeginRotate \/ RenameLive
  <2>1. wpc # "append" /\ UNCHANGED <<jobs, todo, next>>
    BY <1>6 DEF WriteFits, BeginRotate, RenameLive
  <2> QED
    BY <1>0, <2>1 DEF JobsType, WriterType
<1>7. CASE Reopen
  <2>1. NewJob(seg) \in JobSet
    BY <1>0, JobIsJob, NoLines DEF NewJob, WriterType, Working
  <2>2. wpc # "append" /\ jobs' = With(jobs, next, NewJob(seg)) /\ next' = next /\ wpc' = "append"
        /\ next \in Keys /\ UNCHANGED todo
    BY <1>0, <1>7 DEF Reopen, WriterType, Keys
  <2>3. DOMAIN jobs' = DOMAIN jobs \cup {next}
    BY <2>2 DEF With
  <2>4. \A i \in DOMAIN jobs' : jobs'[i] = NewJob(seg) \/ (i \in DOMAIN jobs /\ jobs'[i] = jobs[i])
    BY <2>2 DEF With
  <2> QED
    BY <1>0, <2>1, <2>2, <2>3, <2>4 DEF JobsType
<1>8. ASSUME NEW n \in todo, SweepNext(n)
      PROVE  JobsType'
  <2>1. n \in Names
    BY <1>0, <1>8 DEF JobsType
  <2>2. NewJob(n) \in JobSet /\ Sweep \in Keys /\ Sweep < next
    <3>1. NewJob(n) \in JobSet
      BY <2>1, JobIsJob, NoLines DEF NewJob, Working
    <3> QED
      BY <1>0, <3>1 DEF WriterType, Keys, Sweep
  <2>3. jobs' = With(jobs, Sweep, NewJob(n)) /\ UNCHANGED <<next, wpc>> /\ todo' \subseteq todo
    BY <1>8 DEF SweepNext, writer
  <2>4. Sweep =< next
    BY <1>0, <2>2 DEF WriterType, Sweep
  <2> QED
    BY <1>1, <2>2, <2>3, <2>4
<1>9. ASSUME NEW k \in Keys,
             \/ StartGzip(k) \/ RenameGz(k) \/ RemovePlain(k) \/ CompressFails(k)
             \/ PruneList(k) \/ PruneRemove(k) \/ PruneFails(k)
      PROVE  JobsType'
  <2>1. /\ k \in DOMAIN jobs /\ jobs[k] \in JobSet /\ UNCHANGED <<next, wpc>> /\ todo' \subseteq todo
        /\ jobs[k].seg \in Names /\ jobs[k].lines \in Seq(Line)
    BY <1>0, <1>9 DEF StartGzip, RenameGz, RemovePlain, CompressFails, PruneList, PruneRemove,
       PruneFails, JobAt, writer, JobsType
  <2>2. k =< next /\ (wpc # "append" => k < next)
    BY <1>0, <2>1 DEF JobsType
  <2>3. ASSUME NEW j \in JobSet, jobs' = [jobs EXCEPT ![k] = j]
        PROVE  JobsType'
    BY <1>1, <2>1, <2>2, <2>3
  <2>4. ASSUME jobs' = Without(jobs, {k})
        PROVE  JobsType'
    BY <1>1, <2>1, <2>2, <2>4
  <2>5. CASE StartGzip(k)
    <3>1. Job("rename", jobs[k].seg, plain[jobs[k].seg], {}) \in JobSet
      BY <1>0, <2>1, <2>5, JobIsJob DEF StartGzip, FilesType, Working
    <3> QED
      BY <2>3, <2>5, <3>1 DEF StartGzip
  <2>6. CASE RenameGz(k)
    <3>1. Job("remove", jobs[k].seg, <<>>, {}) \in JobSet
      BY <2>1, NoLines, JobIsJob DEF Working
    <3> QED
      BY <2>3, <2>6, <3>1 DEF RenameGz
  <2>7. CASE RemovePlain(k)
    <3>1. Job("prune", jobs[k].seg, <<>>, {}) \in JobSet
      BY <2>1, NoLines, JobIsJob
    <3> QED
      BY <2>3, <2>4, <2>7, <3>1 DEF RemovePlain
  <2>8. CASE CompressFails(k) \/ PruneFails(k)
    BY <2>4, <2>8 DEF CompressFails, PruneFails
  <2>9. CASE PruneList(k)
    <3>1. Doomed \subseteq Names \X {"plain", "gz"}
      BY <1>0 DEF Doomed, Segments, Kind, FilesType
    <3>2. [jobs[k] EXCEPT !.at = "unlink", !.doomed = Doomed] \in JobSet
      BY <2>1, <3>1 DEF JobSet
    <3>3. \/ jobs' = Without(jobs, {k})
          \/ jobs' = [jobs EXCEPT ![k] = [jobs[k] EXCEPT !.at = "unlink", !.doomed = Doomed]]
      BY <2>9 DEF PruneList
    <3> QED
      BY <2>3, <2>4, <3>2, <3>3
  <2>10. CASE PruneRemove(k)
    <3>1. PICK f \in jobs[k].doomed :
            \/ jobs' = Without(jobs, {k})
            \/ jobs' = [jobs EXCEPT ![k].doomed = @ \ {f}]
      BY <2>10 DEF PruneRemove
    <3>2. [jobs[k] EXCEPT !.doomed = @ \ {f}] \in JobSet
      BY <2>1 DEF JobSet
    <3> QED
      BY <2>3, <2>4, <3>1, <3>2
  <2> QED
    BY <1>9, <2>5, <2>6, <2>7, <2>8, <2>9, <2>10
<1>10. CASE Reading
  <2>1. UNCHANGED <<jobs, todo, next, wpc>>
    BY <1>10, ReadingKeeps DEF writer
  <2> QED
    BY <1>0, <1>2, <2>1 DEF JobsType, WriterType
<1> QED
  BY <1>3, <1>4, <1>5, <1>6, <1>7, <1>8, <1>9, <1>10, Steps DEF Aside

LEMMA ReaderStep == TypeInv /\ [Next]_vars => ReaderType'
<1> SUFFICES ASSUME TypeInv, [Next]_vars
             PROVE  ReaderType'
  OBVIOUS
<1>0. FilesType /\ WriterType /\ ReaderType
  BY DEF TypeInv
<1>1. CASE UNCHANGED reader
  BY <1>0, <1>1 DEF reader, ReaderType
<1>2. CASE ReadList
  <2>1. rlist' \subseteq Names \X {"plain", "gz"}
    BY <1>0, <1>2 DEF ReadList, Segments, Kind, FilesType
  <2>2. rwant' \subseteq Entry
    BY <1>0, <1>2 DEF ReadList, WriterType
  <2> QED
    BY <1>2, <2>1, <2>2, NoLines DEF ReadList, ReaderType
<1>3. CASE ReadLive
  <2>1. rgot' \in Seq(Line)
    BY <1>0, <1>3, ParsedLines, ReadOn DEF ReadLive, FilesType, ReaderType
  <2> QED
    BY <1>0, <1>3, <2>1 DEF ReadLive, ReaderType
<1>4. ASSUME NEW s \in rlist, ReadSegment(s)
      PROVE  ReaderType'
  <2>1. rgot' = rgot \/ \E lines \in Seq(Line) : rgot' = rgot \o Parsed(lines)
    BY <1>0, <1>4 DEF ReadSegment, FilesType
  <2>2. rgot' \in Seq(Line)
    BY <1>0, <2>1, ParsedLines, ReadOn DEF ReaderType
  <2> QED
    BY <1>0, <1>4, <2>2 DEF ReadSegment, ReaderType
<1> QED
  BY <1>1, <1>2, <1>3, <1>4, ReaderKept DEF Reading

(* Every variable stays within its type: a line is an entry, a torn fragment or one   *)
(* that does not parse, an entry that was written is older than the next one, and a   *)
(* job works on a segment's name (Writer.Write, compressSegment, ReadHistory).        *)
THEOREM TypeCorrect == Spec => []TypeInv
<1>1. Init => TypeInv
  <2> SUFFICES ASSUME Init PROVE TypeInv
    OBVIOUS
  <2>1. <<0, 0>> \in Names /\ MaxSegments \in Nat
    BY LogAssumption DEF Init, Names
  <2>2. FilesType /\ ReaderType
    BY NoLines DEF Init, FilesType, ReaderType
  <2>3. WriterType
    BY <2>1 DEF Init, WriterType
  <2>4. JobsType
    BY NoLines DEF Init, JobsType
  <2> QED
    BY <2>2, <2>3, <2>4 DEF TypeInv
<1>2. TypeInv /\ [Next]_vars => TypeInv'
  BY FilesStep, WriterStep, JobsStep, ReaderStep DEF TypeInv
<1> QED
  BY <1>1, <1>2, PTL DEF Spec

-----------------------------------------------------------------------------
(* The sweep at Open. *)
LEMMA SweepStep == TypeInv /\ SweepInv /\ [Next]_vars => SweepInv'
<1> SUFFICES ASSUME TypeInv, SweepInv, [Next]_vars
             PROVE  SweepInv'
  OBVIOUS
<1>0. /\ next \in Nat \ {0} /\ DOMAIN <<>> = {} /\ Sweep = 0
      /\ \A k \in DOMAIN jobs : jobs[k] \in JobSet
  BY NoLines DEF TypeInv, JobsType, WriterType, Sweep
<1>1. CASE Open
  <2>1. wpc = "down" /\ wpc' = "opening" /\ jobs' = <<>> /\ UNCHANGED <<plain, gz>>
        /\ todo' = DOMAIN plain \ DOMAIN gz
    BY <1>1 DEF Open, SweepInv
  <2> QED
    BY <1>0, <2>1 DEF SweepInv
<1>2. CASE Crash
  <2>1. wpc' = "down" /\ jobs' = <<>> /\ todo' = {}
    BY <1>2 DEF Crash
  <2> QED
    BY <1>0, <2>1 DEF SweepInv
<1>3. CASE Opened \/ Closed
  <2>1. wpc' \in {"ready", "down"} /\ jobs' = <<>> /\ todo' = {}
    BY <1>3 DEF Opened, Closed, SweepInv
  <2> QED
    BY <1>0, <2>1 DEF SweepInv
<1>4. CASE Reopen
  <2>1. /\ wpc = "reopen" /\ wpc' = "append" /\ UNCHANGED todo
        /\ DOMAIN jobs' = DOMAIN jobs \cup {next}
    BY <1>4 DEF Reopen, With
  <2> QED
    BY <1>0, <2>1 DEF SweepInv
<1>5. CASE \/ WriteLine \/ WriteFails \/ RenameLive \/ Close \/ WriteFits \/ BeginRotate \/ RotateStuck \/ RotateFails
           \/ RenameFails \/ ReopenFails
  <2>1. wpc \notin {"down", "opening"} /\ wpc' \notin {"down", "opening"} /\ UNCHANGED <<jobs, todo>>
    BY <1>5 DEF WriteLine, WriteFails, RenameLive, Close, WriteFits, BeginRotate, RotateStuck, RotateFails,
       RenameFails, ReopenFails, Drop
  <2> QED
    BY <2>1 DEF SweepInv
<1>6. CASE Tick \/ Reading \/ UNCHANGED vars
  <2>1. UNCHANGED <<wpc, jobs, todo, plain, gz, faults>>
    BY <1>6, ReadingKeeps DEF Tick, vars, files, writer, bounds
  <2> QED
    BY <2>1 DEF SweepInv
<1>7. ASSUME NEW n \in todo, SweepNext(n)
      PROVE  SweepInv'
  <2>1. /\ wpc = "opening" /\ wpc' = "opening" /\ UNCHANGED <<plain, gz, faults>>
        /\ jobs = <<>> /\ todo' = todo \ {n} /\ jobs' = With(<<>>, Sweep, NewJob(n))
    BY <1>7 DEF SweepNext, files, writer, bounds
  <2>2. DOMAIN jobs' = {Sweep} /\ jobs'[Sweep] = NewJob(n)
    BY <1>0, <2>1 DEF With
  <2>3. NewJob(n).at = "start" /\ NewJob(n).seg = n
    BY DEF NewJob, Job
  <2> QED
    BY <1>0, <2>1, <2>2, <2>3 DEF SweepInv, Working
<1>8. ASSUME NEW k \in Keys,
             \/ StartGzip(k) \/ RenameGz(k) \/ RemovePlain(k) \/ CompressFails(k)
             \/ PruneList(k) \/ PruneRemove(k) \/ PruneFails(k)
      PROVE  SweepInv'
  <2>1. /\ k \in DOMAIN jobs /\ wpc # "down" /\ wpc' = wpc /\ DOMAIN jobs' \subseteq DOMAIN jobs
        /\ todo' \subseteq todo
    <3>1. k \in DOMAIN jobs /\ wpc' = wpc /\ todo' \subseteq todo
      BY <1>8 DEF StartGzip, RenameGz, RemovePlain, CompressFails, PruneList, PruneRemove,
         PruneFails, JobAt, writer
    <3>2. DOMAIN jobs' \subseteq DOMAIN jobs
      BY <1>8 DEF StartGzip, RenameGz, RemovePlain, CompressFails, PruneList, PruneRemove,
         PruneFails, Without
    <3> QED
      BY <1>0, <3>1, <3>2 DEF SweepInv
  <2>2. CASE wpc # "opening"
    BY <2>1, <2>2 DEF SweepInv
  <2>3. CASE wpc = "opening"
    <3>1. /\ k = Sweep /\ DOMAIN jobs = {Sweep} /\ jobs[k].at \in Working
          /\ jobs[k].seg \in DOMAIN plain /\ jobs[k].seg \notin todo
          /\ jobs[k].at = "remove" => jobs[k].seg \in DOMAIN gz
      BY <2>1, <2>3 DEF SweepInv
    <3>2. CASE StartGzip(k)
      <4>1. /\ UNCHANGED <<plain, gz, faults, todo, wpc>>
            /\ DOMAIN jobs' = {Sweep} /\ jobs'[Sweep] = Job("rename", jobs[k].seg, plain[jobs[k].seg], {})
        BY <3>1, <3>2 DEF StartGzip, writer, bounds
      <4>2. jobs'[Sweep].at = "rename" /\ jobs'[Sweep].seg = jobs[k].seg
        BY <4>1 DEF Job
      <4> QED
        BY <2>3, <3>1, <4>1, <4>2 DEF SweepInv, Working
    <3>3. CASE RenameGz(k)
      <4>1. /\ UNCHANGED <<plain, faults, todo, wpc>> /\ DOMAIN gz' = DOMAIN gz \cup {jobs[k].seg}
            /\ DOMAIN jobs' = {Sweep} /\ jobs'[Sweep] = Job("remove", jobs[k].seg, <<>>, {})
        BY <3>1, <3>3 DEF RenameGz, writer, bounds, With
      <4>2. jobs'[Sweep].at = "remove" /\ jobs'[Sweep].seg = jobs[k].seg
        BY <4>1 DEF Job
      <4> QED
        BY <2>3, <3>1, <4>1, <4>2 DEF SweepInv, Working
    <3>4. CASE RemovePlain(k)
      <4>1. /\ UNCHANGED <<gz, faults, todo, wpc>> /\ DOMAIN plain' = DOMAIN plain \ {jobs[k].seg}
            /\ DOMAIN jobs' = {} /\ jobs[k].seg \in DOMAIN gz
        BY <3>1, <3>4 DEF RemovePlain, JobAt, writer, bounds, Without
      <4> QED
        BY <2>3, <3>1, <4>1 DEF SweepInv
    <3>5. CASE CompressFails(k)
      <4>1. /\ UNCHANGED <<plain, gz, wpc>> /\ todo' = {} /\ DOMAIN jobs' = {} /\ faults' = faults + 1
        BY <3>1, <3>5 DEF CompressFails, Fault, writer, Without
      <4>2. faults' # 0
        BY <4>1 DEF TypeInv, WriterType
      <4> QED
        BY <2>3, <4>1, <4>2 DEF SweepInv
    <3> QED
      BY <1>8, <3>1, <3>2, <3>3, <3>4, <3>5 DEF PruneList, PruneRemove, PruneFails, JobAt, Working
  <2> QED
    BY <2>2, <2>3
<1> QED
  BY <1>1, <1>2, <1>3, <1>4, <1>5, <1>6, <1>7, <1>8, Steps DEF Aside

(* The sweep works on segments that have no archive yet, one at a time, and while no  *)
(* system call has failed it has every such segment before it                         *)
(* (sweepUncompressed).                                                               *)
THEOREM SweepCorrect == Spec => []SweepInv
<1>1. Init => SweepInv
  BY NoLines DEF Init, SweepInv
<1> QED
  BY <1>1, SweepStep, TypeCorrect, PTL DEF Spec

(* Where no system call has failed, Open returns with every segment archived,         *)
(* whichever steps of rotations and compressions earlier processes died between.      *)
THEOREM OpenRepairs == Spec => SweepRepairs
<1>1. ASSUME TypeInv, SweepInv, [Next]_vars, wpc = "opening", wpc' = "ready", faults = 0
      PROVE  DOMAIN plain \subseteq DOMAIN gz
  <2>1. CASE Opened
    BY <1>1, <2>1, NoLines DEF Opened, SweepInv
  <2>2. ~(Open \/ Crash \/ WriteLine \/ WriteFails \/ RenameLive \/ Reopen)
    BY <1>1 DEF Open, Crash, WriteLine, WriteFails, RenameLive, Reopen
  <2>3. ASSUME NEW k \in Keys
        PROVE  ~(StartGzip(k) \/ RenameGz(k) \/ RemovePlain(k) \/ CompressFails(k) \/ PruneRemove(k))
    BY <1>1 DEF StartGzip, RenameGz, RemovePlain, CompressFails, PruneRemove, writer
  <2>4. CASE Aside /\ ~Opened
    BY <1>1, <2>4 DEF Aside, Close, Closed, Tick, WriteFits, BeginRotate, RotateStuck, RotateFails,
       RenameFails, ReopenFails, SweepNext, PruneList, PruneFails, writer, vars
  <2>5. CASE Reading
    BY <1>1, <2>5, ReadingKeeps DEF writer
  <2> QED
    BY <1>1, <2>1, <2>2, <2>3, <2>4, <2>5, Steps
<1> QED
  BY <1>1, TypeCorrect, SweepCorrect, PTL DEF Spec, SweepRepairs

-----------------------------------------------------------------------------
(* Segments and the names that outnumber them. *)
LEMMA SegmentsFinite ==
    ASSUME TypeInv
    PROVE  /\ Segments \subseteq Names /\ MaxSegments \in Nat
           /\ \A S \in SUBSET Segments : IsFiniteSet(S) /\ Cardinality(S) \in Nat
<1>1. Segments \subseteq Names /\ MaxSegments \in Nat
  BY DEF TypeInv, FilesType, WriterType, Segments
<1>2. ASSUME NEW S \in SUBSET Segments
      PROVE  IsFiniteSet(S) /\ Cardinality(S) \in Nat
  BY <1>1, NamesFinite, FS_Subset, FS_CardinalityType
<1> QED
  BY <1>1, <1>2

(* Taking a segment away leaves outnumbered what is outnumbered, as long as that      *)
(* segment is outnumbered too.                                                        *)
LEMMA OutnumberedStays ==
    ASSUME NEW S \in SUBSET Names, NEW T \in SUBSET Names, NEW m \in Names, NEW n \in Names,
           NEW N \in Nat, S \ {m} \subseteq T,
           S \subseteq T \/ Cardinality({l \in S : Before(m, l)}) >= N,
           Cardinality({l \in S : Before(n, l)}) >= N
    PROVE  Cardinality({l \in T : Before(n, l)}) >= N
<1> DEFINE Tn == {l \in T : Before(n, l)}
<1>1. IsFiniteSet(Tn)
  BY NamesFinite, FS_Subset
<1>2. ASSUME NEW U \in SUBSET Tn, Cardinality(U) >= N
      PROVE  Cardinality(Tn) >= N
  <2>1. Cardinality(U) =< Cardinality(Tn) /\ Cardinality(U) \in Nat /\ Cardinality(Tn) \in Nat
    BY <1>1, FS_Subset, FS_CardinalityType
  <2> QED
    BY <1>2, <2>1
<1>3. CASE {l \in S : Before(n, l)} \subseteq Tn
  BY <1>2, <1>3
<1>4. ASSUME ~({l \in S : Before(n, l)} \subseteq Tn)
      PROVE  Cardinality(Tn) >= N
  <2>1. Before(n, m) /\ ~(S \subseteq T)
    BY <1>4
  <2>2. ASSUME NEW l \in S, Before(m, l)
        PROVE  l \in Tn
    <3>1. Before(n, l) /\ l # m
      BY <2>1, <2>2, BeforeIsOrder
    <3> QED
      BY <2>2, <3>1
  <2>3. {l \in S : Before(m, l)} \in SUBSET Tn
    BY <2>2
  <2>4. Cardinality({l \in S : Before(m, l)}) >= N
    BY <2>1
  <2> HIDE DEF Tn
  <2> QED
    BY <1>2, <2>3, <2>4
<1> QED
  BY <1>3, <1>4

LEMMA GoneIsBefore ==
    ASSUME TypeInv, NEW n \in Names, Gone(n)
    PROVE  \E m \in Segments : Before(n, m)
<1> DEFINE S == {m \in Segments : Before(n, m)}
<1>1. Cardinality(S) # 0
  <2>1. Cardinality(S) >= MaxSegments /\ MaxSegments > 0
    BY DEF Gone, Outnumbered
  <2>2. S \in SUBSET Segments
    OBVIOUS
  <2>3. Cardinality(S) \in Nat /\ MaxSegments \in Nat
    BY <2>2, SegmentsFinite
  <2> HIDE DEF S
  <2> QED
    BY <2>1, <2>3
<1>2. S # {}
  <2> HIDE DEF S
  <2> QED
    BY <1>1, FS_EmptySet
<1> QED
  BY <1>2

LEMMA GoneStays ==
    ASSUME TypeInv, TypeInv', UNCHANGED MaxSegments, SegmentsKept, NEW n \in Names, Gone(n)
    PROVE  Gone(n)'
<1>1. /\ Segments \in SUBSET Names /\ Segments' \in SUBSET Names /\ MaxSegments \in Nat
      /\ MaxSegments > 0 /\ Cardinality({l \in Segments : Before(n, l)}) >= MaxSegments
  BY SegmentsFinite DEF Gone, Outnumbered, TypeInv, FilesType, Segments
<1>2. PICK m \in Names : /\ Segments \ {m} \subseteq Segments'
                         /\ Segments \subseteq Segments' \/ Gone(m)
  BY DEF SegmentsKept
<1>3. Segments \subseteq Segments' \/ Cardinality({l \in Segments : Before(m, l)}) >= MaxSegments
  BY <1>2 DEF Gone, Outnumbered
<1>4. Cardinality({l \in Segments' : Before(n, l)}) >= MaxSegments
  BY <1>1, <1>2, <1>3, OutnumberedStays
<1> QED
  BY <1>1, <1>4 DEF Gone, Outnumbered, Before

(* What stands under a name that may be pruned or that exists. *)
LEMMA ChunkIsKnown ==
    ASSUME TypeInv, JobsInv, NEW c \in Chunks
    PROVE  c \in Names \X Seq(Line) /\ Known(c[1])
<1>1. CASE \E n \in DOMAIN plain : c = <<n, plain[n]>>
  BY <1>1 DEF TypeInv, FilesType, Known, Occupied
<1>2. CASE \E n \in DOMAIN gz : c = <<n, gz[n]>>
  BY <1>2 DEF TypeInv, FilesType, Known, Occupied
<1>3. ASSUME NEW k \in DOMAIN jobs, jobs[k].at = "rename", c = <<jobs[k].seg, jobs[k].lines>>
      PROVE  c \in Names \X Seq(Line) /\ Known(c[1])
  <2>1. jobs[k].seg \in Names /\ jobs[k].lines \in Seq(Line)
    BY DEF TypeInv, JobsType, JobSet
  <2>2. Known(jobs[k].seg)
    BY <1>3 DEF JobsInv, Known, Occupied
  <2> QED
    BY <1>3, <2>1, <2>2
<1> QED
  BY <1>1, <1>2, <1>3 DEF Chunks

LEMMA ContentIsChunk ==
    ASSUME NEW n \in Segments
    PROVE  <<n, Content(n)>> \in Chunks
  BY DEF Segments, Content, Chunks

LEMMA SegmentHasChunk ==
    ASSUME NEW n \in Segments'
    PROVE  \E c \in Chunks' : c[1] = n
<1>1. CASE n \in DOMAIN plain'
  <2>1. <<n, plain'[n]>> \in Chunks'
    BY <1>1 DEF Chunks
  <2> QED
    BY <2>1
<1>2. CASE n \in DOMAIN gz'
  <2>1. <<n, gz'[n]>> \in Chunks'
    BY <1>2 DEF Chunks
  <2> QED
    BY <2>1
<1> QED
  BY <1>1, <1>2 DEF Segments

-----------------------------------------------------------------------------
(* What a step may do to a job and to the files of a name. *)
LEMMA JobsChange ==
    ASSUME TypeInv, [Next]_vars, NEW i \in DOMAIN jobs'
    PROVE  \/ i \in DOMAIN jobs /\ jobs'[i] = jobs[i]
           \/ Reopen /\ i = next /\ jobs'[i] = NewJob(seg)
           \/ \E n \in todo : SweepNext(n) /\ i = Sweep /\ jobs'[i] = NewJob(n)
           \/ /\ StartGzip(i) /\ i \in DOMAIN jobs
              /\ jobs'[i] = Job("rename", jobs[i].seg, plain[jobs[i].seg], {})
           \/ RenameGz(i) /\ i \in DOMAIN jobs /\ jobs'[i] = Job("remove", jobs[i].seg, <<>>, {})
           \/ RemovePlain(i) /\ i \in DOMAIN jobs /\ jobs'[i] = Job("prune", jobs[i].seg, <<>>, {})
           \/ PruneList(i) /\ i \in DOMAIN jobs /\ jobs'[i].at = "unlink" /\ jobs'[i].doomed = Doomed
           \/ /\ PruneRemove(i) /\ i \in DOMAIN jobs /\ jobs'[i].at = "unlink"
              /\ jobs'[i].doomed \subseteq jobs[i].doomed
<1>0. \A k \in DOMAIN jobs : jobs[k] \in JobSet
  BY DEF TypeInv, JobsType
<1>1. CASE UNCHANGED jobs
  BY <1>1
<1>2. CASE Crash
  BY <1>2, NoLines DEF Crash
<1>3. CASE Reopen
  BY <1>3 DEF Reopen, With
<1>4. ASSUME NEW n \in todo, SweepNext(n), i # Sweep
      PROVE  i \in DOMAIN jobs /\ jobs'[i] = jobs[i]
  BY <1>4 DEF SweepNext, With
<1>5. ASSUME NEW n \in todo, SweepNext(n), i = Sweep
      PROVE  jobs'[i] = NewJob(n)
  BY <1>5 DEF SweepNext, With
<1>6. ASSUME NEW k \in Keys, k # i,
             \/ StartGzip(k) \/ RenameGz(k) \/ RemovePlain(k) \/ CompressFails(k)
             \/ PruneList(k) \/ PruneRemove(k) \/ PruneFails(k)
      PROVE  i \in DOMAIN jobs /\ jobs'[i] = jobs[i]
  BY <1>6 DEF StartGzip, RenameGz, RemovePlain, CompressFails, PruneList, PruneRemove,
     PruneFails, Without
<1>7. CASE StartGzip(i)
  BY <1>7 DEF StartGzip, JobAt
<1>8. CASE RenameGz(i)
  BY <1>8 DEF RenameGz, JobAt
<1>9. CASE RemovePlain(i)
  BY <1>9 DEF RemovePlain, JobAt, Without
<1>10. CASE CompressFails(i) \/ PruneFails(i)
  BY <1>10 DEF CompressFails, PruneFails, Without
<1>11. CASE PruneList(i)
  <2>1. i \in DOMAIN jobs /\ jobs' = [jobs EXCEPT ![i].at = "unlink", ![i].doomed = Doomed]
    BY <1>11 DEF PruneList, JobAt, Without
  <2>2. jobs'[i] = [jobs[i] EXCEPT !.at = "unlink", !.doomed = Doomed]
    BY <2>1
  <2>3. jobs'[i].at = "unlink" /\ jobs'[i].doomed = Doomed
    BY <1>0, <2>1, <2>2 DEF JobSet
  <2> QED
    BY <1>11, <2>1, <2>3
<1>12. CASE PruneRemove(i)
  <2>1. PICK f \in jobs[i].doomed : i \in DOMAIN jobs /\ jobs' = [jobs EXCEPT ![i].doomed = @ \ {f}]
    BY <1>12 DEF PruneRemove, JobAt, Without
  <2>2. jobs'[i] = [jobs[i] EXCEPT !.doomed = @ \ {f}]
    BY <2>1
  <2>3. jobs[i].at = "unlink"
    BY <1>12 DEF PruneRemove, JobAt
  <2>4. jobs'[i].at = "unlink" /\ jobs'[i].doomed \subseteq jobs[i].doomed
    BY <1>0, <2>1, <2>2, <2>3 DEF JobSet
  <2> QED
    BY <1>12, <2>1, <2>4
<1>13. CASE \/ Open \/ Opened \/ Close \/ Closed \/ Tick \/ WriteFits \/ BeginRotate \/ RotateStuck \/ RotateFails
            \/ RenameFails \/ ReopenFails \/ UNCHANGED vars \/ WriteLine \/ WriteFails \/ RenameLive
  BY <1>1, <1>13 DEF Open, Opened, Close, Closed, Tick, WriteFits, BeginRotate, RotateStuck, RotateFails,
     RenameFails, ReopenFails, vars, WriteLine, WriteFails, RenameLive
<1>14. CASE Reading
  BY <1>1, <1>14, ReadingKeeps
<1>15. CASE \E n \in todo : SweepNext(n)
  BY <1>4, <1>5, <1>15
<1>16. CASE \E k \in Keys : \/ StartGzip(k) \/ RenameGz(k) \/ RemovePlain(k) \/ CompressFails(k)
                            \/ PruneList(k) \/ PruneRemove(k) \/ PruneFails(k)
  BY <1>6, <1>7, <1>8, <1>9, <1>10, <1>11, <1>12, <1>16
<1> QED
  BY <1>2, <1>3, <1>13, <1>14, <1>15, <1>16, Steps DEF Aside

(* The jobs that touch the files of their segment do not stay as they are. *)
LEMMA JobMoves ==
    ASSUME NEW i \in DOMAIN jobs, i \in DOMAIN jobs', jobs'[i] = jobs[i]
    PROVE  ~RenameGz(i) /\ ~RemovePlain(i) /\ ~CompressFails(i)
<1>1. ASSUME RenameGz(i) PROVE FALSE
  <2>1. jobs[i].at = "rename" /\ jobs'[i] = Job("remove", jobs[i].seg, <<>>, {})
    BY <1>1 DEF RenameGz, JobAt
  <2> QED
    BY <2>1 DEF Job
<1>2. ASSUME RemovePlain(i) PROVE FALSE
  <2>1. jobs[i].at = "remove" /\ jobs'[i] = Job("prune", jobs[i].seg, <<>>, {})
    BY <1>2 DEF RemovePlain, JobAt, Without
  <2> QED
    BY <2>1 DEF Job
<1>3. ASSUME CompressFails(i) PROVE FALSE
  BY <1>3 DEF CompressFails, Without
<1> QED
  BY <1>1, <1>2, <1>3

LEMMA RemovePlainTakes ==
    ASSUME JobsInv, NEW k \in Keys, RemovePlain(k)
    PROVE  /\ UNCHANGED <<gz, tmp>> /\ DOMAIN plain' = DOMAIN plain \ {jobs[k].seg}
           /\ \A m \in DOMAIN plain' : plain'[m] = plain[m]
           /\ jobs[k].seg \in DOMAIN gz \/ Gone(jobs[k].seg)
<1>1. jobs[k].seg \in DOMAIN gz \/ Gone(jobs[k].seg)
  BY DEF RemovePlain, JobAt, JobsInv
<1> QED
  BY <1>1 DEF RemovePlain, Without

LEMMA PruneRemoveTakes ==
    ASSUME JobsInv, NEW k \in Keys, PruneRemove(k)
    PROVE  \E f \in jobs[k].doomed :
              /\ Gone(f[1]) /\ UNCHANGED tmp
              /\ DOMAIN plain' \subseteq DOMAIN plain /\ DOMAIN plain \subseteq DOMAIN plain' \cup {f[1]}
              /\ DOMAIN gz' \subseteq DOMAIN gz /\ DOMAIN gz \subseteq DOMAIN gz' \cup {f[1]}
              /\ \A m \in DOMAIN plain' : plain'[m] = plain[m]
              /\ \A m \in DOMAIN gz' : gz'[m] = gz[m]
<1>1. PICK f \in jobs[k].doomed :
          /\ gz' = (IF f[2] = "gz" THEN Without(gz, {f[1]}) ELSE gz)
          /\ plain' = (IF f[2] = "plain" THEN Without(plain, {f[1]}) ELSE plain)
  BY DEF PruneRemove
<1>2. Gone(f[1]) /\ UNCHANGED tmp
  BY DEF PruneRemove, JobAt, JobsInv
<1>3. /\ DOMAIN plain' \subseteq DOMAIN plain /\ DOMAIN plain \subseteq DOMAIN plain' \cup {f[1]}
      /\ \A m \in DOMAIN plain' : plain'[m] = plain[m]
  BY <1>1 DEF Without
<1>4. /\ DOMAIN gz' \subseteq DOMAIN gz /\ DOMAIN gz \subseteq DOMAIN gz' \cup {f[1]}
      /\ \A m \in DOMAIN gz' : gz'[m] = gz[m]
  BY <1>1 DEF Without
<1> QED
  BY <1>2, <1>3, <1>4

LEMMA NamesChange ==
    ASSUME TypeInv, JobsInv, [Next]_vars, NEW n \in Names
    PROVE  /\ n \in DOMAIN plain /\ n \notin DOMAIN plain'
                => Gone(n) \/ (n \in DOMAIN gz' /\ \E k \in Keys : RemovePlain(k) /\ jobs[k].seg = n)
           /\ n \in DOMAIN gz /\ n \notin DOMAIN gz' => Gone(n)
           /\ n \in tmp /\ n \notin tmp'
                => \E k \in Keys : (RenameGz(k) \/ CompressFails(k)) /\ JobAt(k, "rename") /\ jobs[k].seg = n
           /\ n \in DOMAIN plain' /\ n \notin DOMAIN plain => RenameLive /\ n = seg /\ plain'[n] = live
           /\ n \in DOMAIN gz' /\ n \notin DOMAIN gz
                => \E k \in Keys : /\ RenameGz(k) /\ JobAt(k, "rename") /\ jobs[k].seg = n
                                   /\ gz'[n] = jobs[k].lines
           /\ n \in tmp' /\ n \notin tmp => n \in DOMAIN plain
           /\ n \in DOMAIN plain /\ n \in DOMAIN plain'
                => plain'[n] = plain[n] \/ (RenameLive /\ n = seg /\ plain'[n] = live)
           /\ n \in DOMAIN gz /\ n \in DOMAIN gz' => gz'[n] = gz[n]
<1>1. CASE UNCHANGED <<plain, gz, tmp>>
  BY <1>1
<1>2. CASE RenameLive
  <2>1. /\ UNCHANGED <<gz, tmp>> /\ DOMAIN plain' = DOMAIN plain \cup {seg} /\ plain'[seg] = live
        /\ \A m \in DOMAIN plain : m # seg => plain'[m] = plain[m]
    BY <1>2 DEF RenameLive, With
  <2> QED
    BY <1>2, <2>1
<1>3. ASSUME NEW k \in Keys, StartGzip(k)
      PROVE  /\ UNCHANGED <<plain, gz>> /\ tmp \subseteq tmp' /\ tmp' \subseteq tmp \cup DOMAIN plain
  BY <1>3 DEF StartGzip
<1>4. ASSUME NEW k \in Keys, RenameGz(k)
      PROVE  /\ JobAt(k, "rename") /\ UNCHANGED plain /\ tmp' = tmp \ {jobs[k].seg}
             /\ DOMAIN gz' = DOMAIN gz \cup {jobs[k].seg} /\ gz'[jobs[k].seg] = jobs[k].lines
             /\ \A m \in DOMAIN gz : gz'[m] = gz[m]
  <2>1. JobAt(k, "rename") /\ jobs[k].seg \notin DOMAIN gz
    BY <1>4 DEF RenameGz, JobAt, JobsInv
  <2> QED
    BY <1>4, <2>1 DEF RenameGz, With
<1>6. ASSUME NEW k \in Keys, CompressFails(k)
      PROVE  /\ UNCHANGED <<plain, gz>> /\ tmp' \subseteq tmp
             /\ tmp' # tmp => JobAt(k, "rename") /\ tmp' = tmp \ {jobs[k].seg}
  BY <1>6 DEF CompressFails, JobAt
<1>8. ASSUME NEW k \in Keys, PruneRemove(k)
      PROVE  /\ UNCHANGED tmp
             /\ DOMAIN plain' \subseteq DOMAIN plain /\ DOMAIN gz' \subseteq DOMAIN gz
             /\ n \in DOMAIN plain /\ n \notin DOMAIN plain' => Gone(n)
             /\ n \in DOMAIN gz /\ n \notin DOMAIN gz' => Gone(n)
             /\ n \in DOMAIN plain' => plain'[n] = plain[n]
             /\ n \in DOMAIN gz' => gz'[n] = gz[n]
  BY <1>8, PruneRemoveTakes
<1>9. CASE Open \/ Crash \/ WriteLine \/ WriteFails \/ Reopen \/ Aside \/ Reading
  BY <1>1, <1>9, AsideKeeps, ReadingKeeps DEF Open, Crash, WriteLine, WriteFails, Reopen, files
<1>10. CASE \E k \in Keys : StartGzip(k)
  BY <1>3, <1>10
<1>11. CASE \E k \in Keys : RenameGz(k)
  <2>1. PICK k \in Keys : RenameGz(k)
    BY <1>11
  <2>2. /\ JobAt(k, "rename") /\ UNCHANGED plain /\ tmp' = tmp \ {jobs[k].seg}
        /\ DOMAIN gz' = DOMAIN gz \cup {jobs[k].seg} /\ gz'[jobs[k].seg] = jobs[k].lines
        /\ \A m \in DOMAIN gz : gz'[m] = gz[m]
    BY <1>4, <2>1
  <2> QED
    BY <2>1, <2>2
<1>12. CASE \E k \in Keys : RemovePlain(k)
  <2>1. PICK k \in Keys : RemovePlain(k)
    BY <1>12
  <2>2. /\ UNCHANGED <<gz, tmp>> /\ DOMAIN plain' = DOMAIN plain \ {jobs[k].seg}
        /\ \A m \in DOMAIN plain' : plain'[m] = plain[m]
        /\ jobs[k].seg \in DOMAIN gz \/ Gone(jobs[k].seg)
    BY <2>1, RemovePlainTakes
  <2> QED
    BY <2>1, <2>2
<1>13. CASE \E k \in Keys : CompressFails(k)
  BY <1>6, <1>13
<1>14. CASE \E k \in Keys : PruneRemove(k)
  BY <1>8, <1>14
<1> QED
  BY <1>2, <1>9, <1>10, <1>11, <1>12, <1>13, <1>14, Steps

LEMMA RetentionFixed == [Next]_vars => UNCHANGED MaxSegments
<1> SUFFICES ASSUME [Next]_vars PROVE UNCHANGED MaxSegments
  OBVIOUS
<1>1. CASE Open \/ Crash \/ WriteLine \/ WriteFails \/ RenameLive \/ Reopen
  BY <1>1 DEF Open, Crash, WriteLine, WriteFails, RenameLive, Reopen
<1>2. ASSUME NEW k \in Keys,
             \/ StartGzip(k) \/ RenameGz(k) \/ RemovePlain(k) \/ CompressFails(k) \/ PruneRemove(k)
      PROVE  UNCHANGED MaxSegments
  BY <1>2 DEF StartGzip, RenameGz, RemovePlain, CompressFails, PruneRemove, writer
<1> QED
  BY <1>1, <1>2, Steps, AsideKeeps, ReadingKeeps DEF writer

LEMMA SegmentsStep == TypeInv /\ JobsInv /\ [Next]_vars => SegmentsKept
<1> SUFFICES ASSUME TypeInv, JobsInv, [Next]_vars
             PROVE  SegmentsKept
  OBVIOUS
<1>1. ASSUME NEW k \in Keys, RemovePlain(k)
      PROVE  SegmentsKept
  <2>1. k \in DOMAIN jobs /\ jobs[k].seg \in Names
    BY <1>1 DEF RemovePlain, JobAt, TypeInv, JobsType, JobSet
  <2>2. /\ DOMAIN gz' = DOMAIN gz /\ DOMAIN plain' = DOMAIN plain \ {jobs[k].seg}
        /\ jobs[k].seg \in DOMAIN gz \/ Gone(jobs[k].seg)
    BY <1>1, RemovePlainTakes
  <2> QED
    BY <2>1, <2>2 DEF SegmentsKept, Segments
<1>2. ASSUME NEW k \in Keys, PruneRemove(k)
      PROVE  SegmentsKept
  <2>1. PICK f \in jobs[k].doomed :
          /\ Gone(f[1]) /\ DOMAIN plain \subseteq DOMAIN plain' \cup {f[1]}
          /\ DOMAIN gz \subseteq DOMAIN gz' \cup {f[1]}
    BY <1>2, PruneRemoveTakes
  <2>2. f[1] \in Names
    <3>1. k \in DOMAIN jobs /\ jobs[k] \in JobSet
      BY <1>2 DEF PruneRemove, JobAt, TypeInv, JobsType
    <3>2. jobs[k].doomed \subseteq Names \X {"plain", "gz"}
      BY <3>1 DEF JobSet
    <3> QED
      BY <3>2
  <2> QED
    BY <2>1, <2>2 DEF SegmentsKept, Segments
<1>3. CASE ~\E k \in Keys : RemovePlain(k) \/ PruneRemove(k)
  <2>1. CASE RenameLive
    BY <2>1 DEF RenameLive, With, SegmentsKept, Segments
  <2>2. ASSUME NEW k \in Keys, RenameGz(k)
        PROVE  SegmentsKept
    BY <2>2 DEF RenameGz, With, SegmentsKept, Segments
  <2>3. CASE UNCHANGED <<plain, gz>>
    BY <2>3 DEF SegmentsKept, Segments
  <2>4. CASE Open \/ Crash \/ WriteLine \/ WriteFails \/ Reopen \/ Aside \/ Reading
    BY <2>3, <2>4, AsideKeeps, ReadingKeeps DEF Open, Crash, WriteLine, WriteFails, Reopen, files
  <2>5. CASE \E k \in Keys : StartGzip(k) \/ CompressFails(k)
    BY <2>3, <2>5 DEF StartGzip, CompressFails
  <2> QED
    BY <1>3, <2>1, <2>2, <2>4, <2>5, Steps
<1> QED
  BY <1>1, <1>2, <1>3

(* Nothing that was outnumbered becomes free for the readers' history again, and a    *)
(* name no longer to be chosen stays so.                                              *)
LEMMA GoneForever ==
    ASSUME TypeInv, TypeInv', JobsInv, [Next]_vars, NEW n \in Names
    PROVE  /\ Gone(n) => Gone(n)'
           /\ Occupied(n) /\ ~Gone(n) => Occupied(n)'
           /\ Occupied(n)' => Occupied(n) \/ (RenameLive /\ n = seg)
<1>1. Gone(n) => Gone(n)'
  BY RetentionFixed, SegmentsStep, GoneStays
<1>2. ASSUME Occupied(n), ~Gone(n)
      PROVE  Occupied(n)'
  <2>1. CASE n \in DOMAIN plain
    BY <1>2, <2>1, NamesChange DEF Occupied
  <2>2. CASE n \in DOMAIN gz
    BY <1>2, <2>2, NamesChange DEF Occupied
  <2>3. CASE n \in tmp /\ n \notin tmp' /\ n \notin DOMAIN plain
    <3>1. PICK k \in Keys : (RenameGz(k) \/ CompressFails(k)) /\ JobAt(k, "rename") /\ jobs[k].seg = n
      BY <2>3, NamesChange
    <3> QED
      BY <1>2, <2>3, <3>1 DEF JobsInv, JobAt
  <2> QED
    BY <1>2, <2>1, <2>2, <2>3 DEF Occupied
<1>3. ASSUME Occupied(n)', ~Occupied(n)
      PROVE  RenameLive /\ n = seg
  <2>1. CASE n \in DOMAIN plain'
    BY <1>3, <2>1, NamesChange DEF Occupied
  <2>2. CASE n \in DOMAIN gz'
    <3>1. PICK k \in Keys : JobAt(k, "rename") /\ jobs[k].seg = n
      BY <1>3, <2>2, NamesChange DEF Occupied
    <3> QED
      BY <1>3, <3>1 DEF JobsInv, JobAt, Occupied
  <2>3. CASE n \in tmp'
    BY <1>3, <2>3, NamesChange DEF Occupied
  <2> QED
    BY <1>3, <2>1, <2>2, <2>3 DEF Occupied
<1> QED
  BY <1>1, <1>2, <1>3

LEMMA ClockStep == TypeInv /\ [Next]_vars => now \in Nat /\ now' \in Nat /\ now <= now'
<1> SUFFICES ASSUME TypeInv, [Next]_vars
             PROVE  now' = now \/ now' = now + 1
  BY DEF TypeInv, WriterType
<1>1. ASSUME NEW k \in Keys,
             \/ StartGzip(k) \/ RenameGz(k) \/ RemovePlain(k) \/ CompressFails(k)
             \/ PruneList(k) \/ PruneRemove(k) \/ PruneFails(k)
      PROVE  UNCHANGED now
  BY <1>1 DEF StartGzip, RenameGz, RemovePlain, CompressFails, PruneList, PruneRemove,
     PruneFails, bounds
<1>2. CASE Open \/ Crash \/ WriteLine \/ WriteFails \/ RenameLive \/ Reopen
  BY <1>2 DEF Open, Crash, WriteLine, WriteFails, RenameLive, Reopen, bounds
<1>3. CASE Aside
  BY <1>1, <1>3 DEF Aside, Opened, Close, Closed, Tick, WriteFits, BeginRotate, RotateStuck, RotateFails,
     RenameFails, ReopenFails, SweepNext, vars, bounds
<1> QED
  BY <1>1, <1>2, <1>3, Steps, ReadingKeeps

(* The place of a name among those of its second stays filled below it.               *)
LEMMA PlaceStays ==
    ASSUME TypeInv, TypeInv', JobsInv, [Next]_vars, NEW n \in Names, n[1] <= now,
           MaxSegments > 0 => n[2] = 0, \A k \in 0..(n[2] - 1) : Occupied(<<n[1], k>>)
    PROVE  /\ n[1] <= now'
           /\ MaxSegments' > 0 => n[2] = 0
           /\ \A k \in 0..(n[2] - 1) : Occupied(<<n[1], k>>)'
<1>1. UNCHANGED MaxSegments /\ MaxSegments \in Nat /\ now \in Nat /\ now' \in Nat /\ now <= now'
  BY RetentionFixed, ClockStep DEF TypeInv, WriterType
<1>2. n[1] \in 0..MaxClock /\ n[2] \in 0..MaxSeq /\ n[1] \in Nat /\ n[2] \in Nat
  BY LogAssumption DEF Names
<1>3. ASSUME NEW k \in 0..(n[2] - 1)
      PROVE  Occupied(<<n[1], k>>)'
  <2>1. MaxSegments = 0
    BY <1>1, <1>2, <1>3
  <2>2. <<n[1], k>> \in Names
    BY <1>2, <1>3, LogAssumption DEF Names
  <2>3. ~Gone(<<n[1], k>>)
    BY <2>1 DEF Gone
  <2> QED
    BY <1>3, <2>2, <2>3, GoneForever
<1> QED
  BY <1>1, <1>2, <1>3

LEMMA NamesStep == Inv /\ TypeInv' /\ [Next]_vars => NamesInv'
<1> SUFFICES ASSUME Inv, TypeInv', [Next]_vars, NEW n \in Names, Occupied(n)'
             PROVE  /\ n[1] <= now'
                    /\ MaxSegments' > 0 => n[2] = 0
                    /\ \A k \in 0..(n[2] - 1) : Occupied(<<n[1], k>>)'
  BY DEF NamesInv
<1>0. TypeInv /\ JobsInv /\ NamesInv /\ SegInv
  BY DEF Inv, LogInv
<1>1. /\ n[1] <= now /\ (MaxSegments > 0 => n[2] = 0)
      /\ \A k \in 0..(n[2] - 1) : Occupied(<<n[1], k>>)
  <2>1. CASE Occupied(n)
    BY <1>0, <2>1 DEF NamesInv
  <2>2. CASE RenameLive /\ n = seg
    BY <1>0, <2>2 DEF RenameLive, SegInv
  <2> QED
    BY <1>0, <2>1, <2>2, GoneForever
<1> QED
  BY <1>0, <1>1, PlaceStays

\* What a job knows of the files it is working on.
Fits(k) ==
    LET n == jobs[k].seg IN
       /\ jobs[k].at \in {"start", "rename"} => (n \in DOMAIN plain \/ Gone(n)) /\ n \notin DOMAIN gz
       /\ jobs[k].at = "rename" => n \in tmp
       /\ jobs[k].at = "remove" => n \in DOMAIN gz \/ Gone(n)
       /\ \A f \in jobs[k].doomed : Gone(f[1])

(* A job that does not move still fits the files the others have left.                *)
LEMMA IdleJobFits ==
    ASSUME Inv, TypeInv', [Next]_vars, NEW i \in DOMAIN jobs', i \in DOMAIN jobs, jobs'[i] = jobs[i]
    PROVE  Fits(i)'
<1>0. TypeInv /\ JobsInv
  BY DEF Inv, LogInv
<1> DEFINE n == jobs[i].seg
<1>1. i \in Keys /\ n \in Names /\ jobs[i].doomed \subseteq Names \X {"plain", "gz"}
  BY <1>0 DEF TypeInv, JobsType, JobSet
<1>2. Fits(i)
  BY <1>0 DEF JobsInv, Fits
<1>3. ASSUME NEW k \in Keys,
             RenameGz(k) \/ RemovePlain(k) \/ (CompressFails(k) /\ JobAt(k, "rename")),
             jobs[i].at \in Working
      PROVE  jobs[k].seg # n
  <2>1. k # i
    BY <1>3, JobMoves
  <2>2. k \in DOMAIN jobs /\ jobs[k].at \in Working
    BY <1>3 DEF RenameGz, RemovePlain, JobAt, Working
  <2> QED
    BY <1>0, <1>3, <2>1, <2>2 DEF JobsInv
<1>4. Gone(n) => Gone(n)'
  BY <1>0, <1>1, GoneForever
<1>5. ASSUME jobs[i].at \in {"start", "rename"}
      PROVE  (n \in DOMAIN plain' \/ Gone(n)') /\ n \notin DOMAIN gz'
  <2>1. (n \in DOMAIN plain \/ Gone(n)) /\ n \notin DOMAIN gz /\ jobs[i].at \in Working
    BY <1>2, <1>5 DEF Fits, Working
  <2>2. n \notin DOMAIN gz'
    BY <1>0, <1>1, <1>3, <2>1, NamesChange
  <2>3. n \in DOMAIN plain => n \in DOMAIN plain' \/ Gone(n)
    BY <1>0, <1>1, <2>2, NamesChange
  <2> QED
    BY <1>4, <2>1, <2>2, <2>3
<1>6. ASSUME jobs[i].at = "rename"
      PROVE  n \in tmp'
  <2>1. n \in tmp /\ jobs[i].at \in Working
    BY <1>2, <1>6 DEF Fits, Working
  <2> QED
    BY <1>0, <1>1, <1>3, <2>1, NamesChange
<1>7. ASSUME jobs[i].at = "remove"
      PROVE  n \in DOMAIN gz' \/ Gone(n)'
  <2>1. n \in DOMAIN gz \/ Gone(n)
    BY <1>2, <1>7 DEF Fits
  <2> QED
    BY <1>0, <1>1, <1>4, <2>1, NamesChange
<1>8. \A f \in jobs[i].doomed : Gone(f[1])'
  <2>1. ASSUME NEW f \in jobs[i].doomed
        PROVE  Gone(f[1])'
    <3>1. f[1] \in Names /\ Gone(f[1])
      BY <1>1, <1>2 DEF Fits
    <3> QED
      BY <1>0, <3>1, GoneForever
  <2> QED
    BY <2>1
<1> QED
  BY <1>5, <1>6, <1>7, <1>8 DEF Fits

LEMMA MovedJobFits ==
    ASSUME Inv, TypeInv', [Next]_vars, NEW i \in DOMAIN jobs'
    PROVE  Fits(i)'
<1>0. /\ TypeInv /\ JobsInv /\ SegInv /\ SweepInv
      /\ \A k \in DOMAIN jobs : k \in Keys /\ Fits(k) /\ jobs[k].seg \in Names
                                /\ jobs[k].doomed \subseteq Names \X {"plain", "gz"}
  BY DEF Inv, LogInv, TypeInv, JobsType, JobSet, JobsInv, Fits
<1>1. CASE i \in DOMAIN jobs /\ jobs'[i] = jobs[i]
  BY <1>1, IdleJobFits
<1>2. CASE Reopen /\ i = next /\ jobs'[i] = NewJob(seg)
  <2>1. (seg \in DOMAIN plain \/ Gone(seg)) /\ seg \notin DOMAIN gz /\ seg \in Names
    BY <1>0, <1>2 DEF Reopen, SegInv, TypeInv, WriterType
  <2>2. (seg \in DOMAIN plain' \/ Gone(seg)') /\ seg \notin DOMAIN gz' /\ UNCHANGED seg
    <3>1. PICK n \in Names : n = seg
      BY <2>1
    <3>2. Gone(n) => Gone(n)'
      BY <1>0, GoneForever
    <3>3. UNCHANGED <<plain, gz, seg>>
      BY <1>2 DEF Reopen
    <3>4. Gone(n)' <=> Gone(seg)'
      BY <3>1, <3>3
    <3> QED
      BY <2>1, <3>1, <3>2, <3>3, <3>4
  <2>3. jobs'[i].at = "start" /\ jobs'[i].seg = seg /\ jobs'[i].doomed = {}
    BY <1>2 DEF NewJob, Job
  <2> QED
    BY <2>2, <2>3 DEF Fits
<1>3. ASSUME NEW n \in todo, SweepNext(n), i = Sweep, jobs'[i] = NewJob(n)
      PROVE  Fits(i)'
  <2>1. n \in DOMAIN plain /\ n \notin DOMAIN gz /\ UNCHANGED <<plain, gz>>
    BY <1>0, <1>3 DEF SweepNext, SweepInv, files
  <2>2. jobs'[i].at = "start" /\ jobs'[i].seg = n /\ jobs'[i].doomed = {}
    BY <1>3 DEF NewJob, Job
  <2> QED
    BY <2>1, <2>2 DEF Fits
<1>4. CASE StartGzip(i) /\ i \in DOMAIN jobs
           /\ jobs'[i] = Job("rename", jobs[i].seg, plain[jobs[i].seg], {})
  <2>1. /\ jobs[i].seg \in DOMAIN plain /\ jobs[i].seg \notin DOMAIN gz /\ jobs[i].seg \in tmp'
        /\ UNCHANGED <<plain, gz>>
    BY <1>0, <1>4 DEF StartGzip, JobAt, Fits
  <2>2. jobs'[i].at = "rename" /\ jobs'[i].seg = jobs[i].seg /\ jobs'[i].doomed = {}
    BY <1>4 DEF Job
  <2> QED
    BY <2>1, <2>2 DEF Fits
<1>5. CASE RenameGz(i) /\ i \in DOMAIN jobs /\ jobs'[i] = Job("remove", jobs[i].seg, <<>>, {})
  <2>1. jobs[i].seg \in DOMAIN gz'
    BY <1>5 DEF RenameGz, With
  <2>2. jobs'[i].at = "remove" /\ jobs'[i].seg = jobs[i].seg /\ jobs'[i].doomed = {}
    BY <1>5 DEF Job
  <2> QED
    BY <2>1, <2>2 DEF Fits
<1>6. CASE RemovePlain(i) /\ i \in DOMAIN jobs /\ jobs'[i] = Job("prune", jobs[i].seg, <<>>, {})
  <2>1. jobs'[i].at = "prune" /\ jobs'[i].doomed = {}
    BY <1>6 DEF Job
  <2> QED
    BY <2>1 DEF Fits
<1>7. CASE \/ PruneList(i) /\ i \in DOMAIN jobs /\ jobs'[i].at = "unlink" /\ jobs'[i].doomed = Doomed
           \/ PruneRemove(i) /\ i \in DOMAIN jobs /\ jobs'[i].at = "unlink"
              /\ jobs'[i].doomed \subseteq jobs[i].doomed
  <2>1. ASSUME NEW f \in jobs'[i].doomed
        PROVE  f[1] \in Names /\ Gone(f[1])
    <3>1. CASE jobs'[i].doomed = Doomed
      BY <1>0, <2>1, <3>1, SegmentsFinite DEF Doomed, Gone
    <3>2. CASE i \in DOMAIN jobs /\ jobs'[i].doomed \subseteq jobs[i].doomed
      BY <1>0, <2>1, <3>2 DEF Fits
    <3> QED
      BY <1>7, <3>1, <3>2
  <2>2. \A f \in jobs'[i].doomed : Gone(f[1])'
    BY <1>0, <2>1, GoneForever
  <2> QED
    BY <1>7, <2>2 DEF Fits
<1> QED
  BY <1>0, <1>1, <1>2, <1>3, <1>4, <1>5, <1>6, <1>7, JobsChange

(* A job at work on a segment has been at work on it before, or has just been given   *)
(* it.                                                                                *)
LEMMA WorkingJobs ==
    ASSUME Inv, [Next]_vars, NEW i \in DOMAIN jobs', jobs'[i].at \in Working
    PROVE  \/ i \in DOMAIN jobs /\ jobs[i].at \in Working /\ jobs'[i].seg = jobs[i].seg
           \/ Reopen /\ i = next /\ jobs'[i].seg = seg
           \/ wpc = "opening" /\ wpc' = "opening" /\ jobs = <<>> /\ i = Sweep
<1>0. TypeInv
  BY DEF Inv
<1>1. CASE Reopen /\ i = next /\ jobs'[i] = NewJob(seg)
  BY <1>1 DEF NewJob, Job
<1>2. CASE StartGzip(i) /\ i \in DOMAIN jobs
           /\ jobs'[i] = Job("rename", jobs[i].seg, plain[jobs[i].seg], {})
  BY <1>2 DEF StartGzip, JobAt, Job, Working
<1>3. CASE RenameGz(i) /\ i \in DOMAIN jobs /\ jobs'[i] = Job("remove", jobs[i].seg, <<>>, {})
  BY <1>3 DEF RenameGz, JobAt, Job, Working
<1>4. jobs'[i].at \notin {"prune", "unlink"}
  BY DEF Working
<1>5. CASE RemovePlain(i) /\ i \in DOMAIN jobs /\ jobs'[i] = Job("prune", jobs[i].seg, <<>>, {})
  BY <1>4, <1>5 DEF Job
<1>6. CASE \E n \in todo : SweepNext(n) /\ i = Sweep /\ jobs'[i] = NewJob(n)
  BY <1>6 DEF SweepNext, writer
<1> QED
  BY <1>0, <1>1, <1>2, <1>3, <1>4, <1>5, <1>6, JobsChange

LEMMA JobsInvStep == Inv /\ TypeInv' /\ [Next]_vars => JobsInv'
<1> SUFFICES ASSUME Inv, TypeInv', [Next]_vars
             PROVE  JobsInv'
  OBVIOUS
<1>1. \A k \in DOMAIN jobs' : Fits(k)'
  BY MovedJobFits
<1>2. ASSUME NEW i \in DOMAIN jobs', NEW j \in DOMAIN jobs',
             jobs'[i].at \in Working, jobs'[j].at \in Working, jobs'[i].seg = jobs'[j].seg
      PROVE  i = j
  <2>1. JobsInv /\ SegInv /\ DOMAIN <<>> = {}
    BY NoLines DEF Inv, LogInv
  <2>2. \/ i \in DOMAIN jobs /\ jobs[i].at \in Working /\ jobs'[i].seg = jobs[i].seg
        \/ Reopen /\ i = next /\ jobs'[i].seg = seg
        \/ wpc = "opening" /\ wpc' = "opening" /\ jobs = <<>> /\ i = Sweep
    BY <1>2, WorkingJobs
  <2>3. \/ j \in DOMAIN jobs /\ jobs[j].at \in Working /\ jobs'[j].seg = jobs[j].seg
        \/ Reopen /\ j = next /\ jobs'[j].seg = seg
        \/ wpc = "opening" /\ wpc' = "opening" /\ jobs = <<>> /\ j = Sweep
    BY <1>2, WorkingJobs
  <2>4. Reopen => wpc = "reopen"
    BY DEF Reopen
  <2> QED
    BY <1>2, <2>1, <2>2, <2>3, <2>4 DEF JobsInv, SegInv
<1> QED
  BY <1>1, <1>2 DEF JobsInv, Fits

(* The name of a rotation is after every name there is and every name that was        *)
(* pruned.                                                                            *)
LEMMA FreshName ==
    ASSUME TypeInv, NamesInv, NEW s \in Names, Free(s), NEW n \in Names, Occupied(n)
    PROVE  Before(n, s)
<1>1. /\ n[1] \in Nat /\ n[2] \in Nat /\ s[1] \in Nat /\ s[2] \in Nat
      /\ n = <<n[1], n[2]>> /\ s = <<s[1], s[2]>>
  BY LogAssumption DEF Names
<1>2. n[1] <= s[1] /\ ~Occupied(s) /\ \A k \in 0..(n[2] - 1) : Occupied(<<n[1], k>>)
  BY DEF Free, NamesInv
<1>3. CASE n[1] < s[1]
  BY <1>3 DEF Before
<1>4. CASE n[1] = s[1]
  <2>1. n[2] # s[2]
    BY <1>1, <1>2, <1>4
  <2>2. CASE s[2] < n[2]
    <3>1. Occupied(<<n[1], s[2]>>)
      BY <1>1, <1>2, <2>2
    <3> QED
      BY <1>1, <1>2, <1>4, <3>1
  <2> QED
    BY <1>1, <1>4, <2>1, <2>2 DEF Before
<1> QED
  BY <1>1, <1>2, <1>3, <1>4

LEMMA GoneIsBeforeAll ==
    ASSUME TypeInv, NEW s \in Names, \A n \in Names : Occupied(n) => Before(n, s),
           NEW n \in Names, Known(n)
    PROVE  Before(n, s) /\ n # s
<1>1. CASE Occupied(n)
  BY <1>1, BeforeIsOrder
<1>2. CASE Gone(n)
  <2>1. PICK m \in Segments : Before(n, m)
    BY <1>2, GoneIsBefore
  <2>2. m \in Names /\ Before(m, s)
    BY SegmentsFinite DEF Segments, Occupied
  <2> QED
    BY <2>1, <2>2, BeforeIsOrder
<1> QED
  BY <1>1, <1>2 DEF Known

LEMMA WorkingIsKnown ==
    ASSUME TypeInv, JobsInv, NEW k \in DOMAIN jobs, jobs[k].at \in Working
    PROVE  jobs[k].seg \in Names /\ Known(jobs[k].seg)
  BY DEF TypeInv, JobsType, JobSet, JobsInv, Working, Known, Occupied

LEMMA SegChange ==
    ASSUME [Next]_vars, wpc' \in {"rename", "reopen"}
    PROVE  \/ BeginRotate
           \/ RenameLive
           \/ UNCHANGED <<wpc, seg>> /\ ~RenameLive /\ ~Reopen
<1>0. UNCHANGED wpc => ~RenameLive /\ ~Reopen
  BY DEF RenameLive, Reopen
<1>1. CASE Open \/ Crash \/ WriteLine \/ WriteFails \/ RenameLive \/ Reopen
  BY <1>1 DEF Open, Crash, WriteLine, WriteFails, Reopen, Drop
<1>2. ASSUME NEW k \in Keys,
             \/ StartGzip(k) \/ RenameGz(k) \/ RemovePlain(k) \/ CompressFails(k)
             \/ PruneList(k) \/ PruneRemove(k) \/ PruneFails(k)
      PROVE  UNCHANGED <<wpc, seg>>
  BY <1>2 DEF StartGzip, RenameGz, RemovePlain, CompressFails, PruneList, PruneRemove,
     PruneFails, writer
<1>3. CASE Aside
  BY <1>0, <1>2, <1>3 DEF Aside, Opened, Close, Closed, Tick, WriteFits, RotateStuck, RotateFails,
     RenameFails, ReopenFails, SweepNext, Drop, writer, vars
<1>4. CASE Reading
  BY <1>0, <1>4, ReadingKeeps DEF writer
<1> QED
  BY <1>0, <1>1, <1>2, <1>3, <1>4, Steps DEF Open, Crash, WriteLine, WriteFails, Reopen, Drop

LEMMA SegStep == ~Reuses /\ Inv /\ TypeInv' /\ [Next]_vars => SegInv'
<1> SUFFICES ASSUME ~Reuses, Inv, TypeInv', [Next]_vars, wpc' \in {"rename", "reopen"}
             PROVE  SegInv'
  BY DEF SegInv
<1>0. TypeInv /\ NamesInv /\ JobsInv /\ SegInv
  BY DEF Inv, LogInv
<1>1. CASE BeginRotate
  <2>1. PICK s \in Names : /\ Free(s) /\ seg' = s /\ (MaxSegments > 0 => s[2] = 0)
    BY <1>1 DEF BeginRotate, Reuses
  <2>2. UNCHANGED <<files, MaxSegments, jobs, now>> /\ wpc' = "rename"
    BY <1>1 DEF BeginRotate, bounds
  <2>3. \A n \in Names : Occupied(n) => Before(n, s)
    BY <1>0, <2>1, FreshName
  <2>4. \A n \in Names : Occupied(n)' => Before(n, s)
    BY <2>2, <2>3 DEF files, Occupied
  <2>5. s[1] <= now /\ \A k \in 0..(s[2] - 1) : Occupied(<<s[1], k>>)'
    <3>1. s[1] = now /\ \A k \in 0..(s[2] - 1) : Occupied(<<s[1], k>>)
      BY <2>1 DEF Free
    <3> QED
      BY <1>0, <2>2, <3>1 DEF files, Occupied, TypeInv, WriterType
  <2>6. \A k \in DOMAIN jobs : jobs[k].at \in Working => jobs[k].seg # s
    BY <1>0, <2>3, WorkingIsKnown, GoneIsBeforeAll
  <2> QED
    BY <2>1, <2>2, <2>4, <2>5, <2>6 DEF SegInv, Occupied, Before
<1>2. CASE RenameLive
  <2>1. wpc = "rename" /\ wpc' = "reopen" /\ UNCHANGED <<gz, jobs, seg>> /\ seg \in DOMAIN plain'
    BY <1>2 DEF RenameLive, With
  <2>2. seg \notin DOMAIN gz
    BY <1>0, <2>1, BeforeIsOrder DEF SegInv, Occupied, TypeInv, WriterType
  <2> QED
    BY <1>0, <2>1, <2>2 DEF SegInv
<1>3. CASE UNCHANGED <<wpc, seg>> /\ ~RenameLive /\ ~Reopen
  <2>1. PICK s \in Names : s = seg
    BY <1>0 DEF TypeInv, WriterType
  <2>2. seg' = s /\ wpc' = wpc
    BY <1>3, <2>1
  <2>3. \A k \in DOMAIN jobs : jobs[k].at \in Working => jobs[k].seg # s
    BY <1>0, <1>3, <2>1 DEF SegInv
  <2>4. \A k \in DOMAIN jobs' : jobs'[k].at \in Working => jobs'[k].seg # s
    BY <1>3, <2>3, WorkingJobs
  <2>5. ASSUME wpc = "rename"
        PROVE  /\ \A n \in Names : Occupied(n)' => Before(n, s)
               /\ s[1] <= now' /\ (MaxSegments' > 0 => s[2] = 0)
               /\ \A k \in 0..(s[2] - 1) : Occupied(<<s[1], k>>)'
    <3>1. /\ \A n \in Names : Occupied(n) => Before(n, s)
          /\ s[1] <= now /\ (MaxSegments > 0 => s[2] = 0)
          /\ \A k \in 0..(s[2] - 1) : Occupied(<<s[1], k>>)
      BY <1>0, <2>1, <2>5 DEF SegInv
    <3>2. \A n \in Names : Occupied(n)' => Before(n, s)
      BY <1>0, <1>3, <3>1, GoneForever
    <3> QED
      BY <1>0, <3>1, <3>2, PlaceStays
  <2>6. ASSUME wpc = "reopen"
        PROVE  (s \in DOMAIN plain' \/ Gone(s)') /\ s \notin DOMAIN gz'
    <3>1. (s \in DOMAIN plain \/ Gone(s)) /\ s \notin DOMAIN gz
      BY <1>0, <2>1, <2>6 DEF SegInv
    <3>2. ASSUME NEW k \in Keys, RenameGz(k) \/ RemovePlain(k)
          PROVE  jobs[k].seg # s
      BY <2>3, <3>2 DEF RenameGz, RemovePlain, JobAt, Working
    <3>3. s \notin DOMAIN gz'
      BY <1>0, <3>1, <3>2, NamesChange
    <3>4. s \in DOMAIN plain' \/ Gone(s)
      BY <1>0, <3>1, <3>3, NamesChange
    <3> QED
      BY <1>0, <3>3, <3>4, GoneForever
  <2> QED
    BY <2>2, <2>4, <2>5, <2>6 DEF SegInv, Occupied, Before, Gone, Outnumbered
<1> QED
  BY <1>1, <1>2, <1>3, SegChange

-----------------------------------------------------------------------------
(* Only a rotation brings a new file under the name of a segment: compressing and     *)
(* pruning move and remove what is there.                                             *)
LEMMA ChunksStep ==
    ASSUME Inv, TypeInv', [Next]_vars, NEW c \in Chunks'
    PROVE  c \in Chunks \/ (RenameLive /\ c = <<seg, live>>)
<1>0. TypeInv /\ JobsInv /\ DOMAIN plain' \subseteq Names /\ DOMAIN gz' \subseteq Names
  BY DEF Inv, LogInv, TypeInv, FilesType
<1>1. ASSUME NEW n \in DOMAIN plain', c = <<n, plain'[n]>>
      PROVE  c \in Chunks \/ (RenameLive /\ c = <<seg, live>>)
  <2>1. CASE n \in DOMAIN plain /\ plain'[n] = plain[n]
    BY <1>1, <2>1 DEF Chunks
  <2> QED
    BY <1>0, <1>1, <2>1, NamesChange
<1>2. ASSUME NEW n \in DOMAIN gz', c = <<n, gz'[n]>>
      PROVE  c \in Chunks
  <2>1. CASE n \in DOMAIN gz
    BY <1>0, <1>2, <2>1, NamesChange DEF Chunks
  <2>2. CASE n \notin DOMAIN gz
    <3>1. PICK k \in Keys : JobAt(k, "rename") /\ jobs[k].seg = n /\ gz'[n] = jobs[k].lines
      BY <1>0, <1>2, <2>2, NamesChange
    <3>2. k \in {j \in DOMAIN jobs : jobs[j].at = "rename"}
      BY <3>1 DEF JobAt
    <3> QED
      BY <1>2, <3>1, <3>2 DEF Chunks
  <2> QED
    BY <2>1, <2>2
<1>3. ASSUME NEW k \in DOMAIN jobs', jobs'[k].at = "rename", c = <<jobs'[k].seg, jobs'[k].lines>>
      PROVE  c \in Chunks
  <2>1. CASE k \in DOMAIN jobs /\ jobs'[k] = jobs[k]
    BY <1>3, <2>1 DEF Chunks
  <2>2. CASE StartGzip(k) /\ k \in DOMAIN jobs
             /\ jobs'[k] = Job("rename", jobs[k].seg, plain[jobs[k].seg], {})
    <3>1. jobs[k].seg \in DOMAIN plain
      BY <2>2 DEF StartGzip
    <3>2. jobs'[k].seg = jobs[k].seg /\ jobs'[k].lines = plain[jobs[k].seg]
      BY <2>2 DEF Job
    <3> QED
      BY <1>3, <3>1, <3>2 DEF Chunks
  <2>3. \A n : NewJob(n).at = "start"
    BY DEF NewJob, Job
  <2>4. /\ jobs'[k] # Job("remove", jobs[k].seg, <<>>, {})
        /\ jobs'[k] # Job("prune", jobs[k].seg, <<>>, {})
    BY <1>3 DEF Job
  <2> QED
    BY <1>0, <1>3, <2>1, <2>2, <2>3, <2>4, JobsChange
<1> QED
  BY <1>1, <1>2, <1>3 DEF Chunks

(* What becomes of the live file.                                                     *)
LEMMA LiveCases ==
    ASSUME TypeInv, [Next]_vars
    PROVE  \/ RenameLive
           \/ live' = live /\ written' = written /\ next' \in {next, next + 1}
           \/ /\ live' = AppendLine(live, next) /\ written' = written \cup {next} /\ next' = next + 1
              /\ next \in Entry
           \/ live' = AppendTorn(live) /\ written' = written /\ next' = next + 1
<1>0. WriterType
  BY DEF TypeInv
<1>1. CASE Open
  BY <1>0, <1>1 DEF Open, WriterType
<1>2. CASE Crash
  BY <1>0, <1>2 DEF Crash, WriterType
<1>3. CASE WriteLine
  BY <1>0, <1>3 DEF WriteLine, Drop, WriterType
<1>4. CASE WriteFails
  BY <1>4 DEF WriteFails, Drop
<1>5. CASE Reopen
  BY <1>5 DEF Reopen
<1>6. ASSUME NEW k \in Keys,
             \/ StartGzip(k) \/ RenameGz(k) \/ RemovePlain(k) \/ CompressFails(k) \/ PruneRemove(k)
      PROVE  live' = live /\ written' = written /\ next' \in {next, next + 1}
  BY <1>6 DEF StartGzip, RenameGz, RemovePlain, CompressFails, PruneRemove, writer
<1>7. CASE Aside
  <2>1. next' \in {next, next + 1}
    BY <1>7 DEF Aside, Opened, Close, Closed, Tick, WriteFits, BeginRotate, RotateStuck, RotateFails,
       RenameFails, ReopenFails, SweepNext, PruneList, PruneFails, Drop, writer, vars
  <2> QED
    BY <1>7, <2>1, AsideKeeps DEF files
<1>8. CASE Reading
  BY <1>8, ReadingKeeps DEF files, writer
<1> QED
  BY <1>1, <1>2, <1>3, <1>4, <1>5, <1>6, <1>7, <1>8, Steps

LEMMA LiveStep ==
    ASSUME TypeInv, [Next]_vars, ~RenameLive
    PROVE  /\ next \in Nat /\ next' \in Nat /\ next <= next'
           /\ Raw(live) \subseteq Raw(live') /\ (HasBad(live) => HasBad(live'))
           /\ \A x \in Raw(live') : x \in Raw(live) \/ (x = next /\ next < next')
           /\ Increasing(live) /\ (\A x \in Raw(live) : x < next) => Increasing(live')
           /\ \A e \in written' : e \in written \/ e \in Raw(live') \/ HasBad(live')
<1>0. live \in Seq(Line) /\ next \in Nat
  BY DEF TypeInv, FilesType, WriterType
<1>1. CASE live' = live /\ written' = written /\ next' \in {next, next + 1}
  BY <1>0, <1>1
<1>2. CASE /\ live' = AppendLine(live, next) /\ written' = written \cup {next} /\ next' = next + 1
           /\ next \in Entry
  BY <1>0, <1>2, AppendedLine
<1>3. CASE live' = AppendTorn(live) /\ written' = written /\ next' = next + 1
  BY <1>0, <1>3, AppendedTorn
<1> QED
  BY <1>1, <1>2, <1>3, LiveCases

(* Chunks have names and lines, entries are numbers, and a rotation's name is after   *)
(* those of all chunks.                                                               *)
LEMMA ChunkFacts ==
    ASSUME Inv
    PROVE  /\ \A c \in Chunks : c[1] \in Names /\ c[2] \in Seq(Line) /\ Known(c[1])
           /\ \A lines : \A x \in Raw(lines) : x \in Nat
           /\ next \in Nat /\ live \in Seq(Line) /\ seg \in Names
           /\ wpc = "rename" => \A n \in Names : Known(n) => Before(n, seg) /\ n # seg
<1>1. TypeInv /\ JobsInv /\ SegInv
  BY DEF Inv, LogInv
<1>2. \A c \in Chunks : c[1] \in Names /\ c[2] \in Seq(Line) /\ Known(c[1])
  BY <1>1, ChunkIsKnown
<1>3. \A lines : \A x \in Raw(lines) : x \in Nat
  BY LogAssumption DEF Raw, Entry
<1>4. next \in Nat /\ live \in Seq(Line) /\ seg \in Names
  BY <1>1 DEF TypeInv, WriterType, FilesType
<1>5. wpc = "rename" => \A n \in Names : Known(n) => Before(n, seg) /\ n # seg
  BY <1>1, <1>4, GoneIsBeforeAll DEF SegInv
<1> QED
  BY <1>2, <1>3, <1>4, <1>5

LEMMA OrderStep == Inv /\ TypeInv' /\ [Next]_vars => OrderInv'
<1> SUFFICES ASSUME Inv, TypeInv', [Next]_vars
             PROVE  OrderInv'
  OBVIOUS
<1>0. TypeInv /\ OrderInv
  BY DEF Inv, LogInv
<1>1. CASE ~RenameLive
  <2>1. Chunks' \subseteq Chunks
    BY <1>1, ChunksStep
  <2>2. /\ next \in Nat /\ next' \in Nat /\ next <= next'
        /\ \A x \in Raw(live') : x \in Raw(live) \/ (x = next /\ next < next')
        /\ Increasing(live) /\ (\A x \in Raw(live) : x < next) => Increasing(live')
    BY <1>0, <1>1, LiveStep
  <2>3. /\ \A c, d \in Chunks' : c[1] = d[1] => c[2] = d[2]
        /\ \A c, d \in Chunks' : Before(c[1], d[1]) => Less(c[2], d[2])
        /\ \A c \in Chunks' : Increasing(c[2])
    BY <1>0, <2>1 DEF OrderInv
  <2>4. \A c \in Chunks' : Less(c[2], live')
    BY <1>0, <2>1, <2>2 DEF OrderInv, Less
  <2>5. Increasing(live')
    BY <1>0, <2>2 DEF OrderInv
  <2>6. \A x \in Raw(live') : x < next'
    BY <1>0, <2>2, ChunkFacts DEF OrderInv
  <2>7. \A c \in Chunks' : \A x \in Raw(c[2]) : x < next'
    BY <1>0, <2>1, <2>2, ChunkFacts DEF OrderInv
  <2> QED
    BY <2>3, <2>4, <2>5, <2>6, <2>7 DEF OrderInv, Before, Less, Increasing, Raw
<1>2. CASE RenameLive
  <2> DEFINE new == <<seg, live>>
  <2>1. Chunks' \subseteq Chunks \cup {new}
    BY ChunksStep
  <2>2. live' = <<>> /\ next' = next /\ wpc = "rename"
    BY <1>2 DEF RenameLive
  <2>3. \A c \in Chunks : c[1] \in Names /\ Before(c[1], seg) /\ c[1] # seg /\ ~Before(seg, c[1])
    <3>1. ASSUME NEW c \in Chunks
          PROVE  c[1] \in Names /\ Before(c[1], seg) /\ c[1] # seg /\ ~Before(seg, c[1])
      <4>1. c[1] \in Names /\ Before(c[1], seg) /\ c[1] # seg /\ seg \in Names
        BY <2>2, ChunkFacts
      <4> QED
        BY <4>1, BeforeIsOrder
    <3> QED
      BY <3>1
  <2>4. new[1] = seg /\ new[2] = live /\ ~Before(seg, seg)
    BY BeforeIsOrder, ChunkFacts
  <2>5. /\ \A c \in Chunks : Increasing(c[2]) /\ Less(c[2], live)
        /\ Increasing(live) /\ (\A x \in Raw(live) : x < next)
        /\ \A c \in Chunks : \A x \in Raw(c[2]) : x < next
        /\ \A c, d \in Chunks : c[1] = d[1] => c[2] = d[2]
        /\ \A c, d \in Chunks : Before(c[1], d[1]) => Less(c[2], d[2])
    BY <1>0 DEF OrderInv
  <2> HIDE DEF new
  <2>6. \A c, d \in Chunks' : c[1] = d[1] => c[2] = d[2]
    BY <2>1, <2>3, <2>4, <2>5
  <2>7. \A c, d \in Chunks' : Before(c[1], d[1]) => Less(c[2], d[2])
    BY <2>1, <2>3, <2>4, <2>5
  <2>8. \A c \in Chunks' : Increasing(c[2]) /\ \A x \in Raw(c[2]) : x < next'
    BY <2>1, <2>2, <2>4, <2>5
  <2>9. Increasing(live') /\ Raw(live') = {}
    BY <2>2, NoLines
  <2> QED
    BY <2>6, <2>7, <2>8, <2>9 DEF OrderInv, Before, Less, Increasing, Raw
<1> QED
  BY <1>1, <1>2

LEMMA PlacedStep == Inv /\ TypeInv' /\ [Next]_vars => PlacedInv'
<1> SUFFICES ASSUME Inv, TypeInv', [Next]_vars, NEW e \in written'
             PROVE  Placed(e)'
  BY DEF PlacedInv
<1>0. TypeInv /\ JobsInv /\ OrderInv /\ PlacedInv /\ (\A x \in written : x < next)
  BY DEF Inv, LogInv, TypeInv, WriterType
<1>1. CASE ~RenameLive
  <2>1. Chunks' \subseteq Chunks
    BY <1>1, ChunksStep
  <2>2. /\ next \in Nat /\ next' \in Nat /\ next <= next'
        /\ Raw(live) \subseteq Raw(live') /\ (HasBad(live) => HasBad(live'))
        /\ \A x \in Raw(live') : x \in Raw(live) \/ (x = next /\ next < next')
        /\ e \in written \/ e \in Raw(live') \/ HasBad(live')
    BY <1>0, <1>1, LiveStep
  <2>3. CASE e \in Raw(live') \/ HasBad(live')
    BY <2>3 DEF Placed, Raw, HasBad
  <2>4. ASSUME e \in written, ~(e \in Raw(live) \/ HasBad(live))
        PROVE  Placed(e)'
    <3>1. PICK p \in Names : /\ After(p, e)
                             /\ \/ Gone(p)
                                \/ p \in Segments /\ \E c \in Chunks :
                                     c[1] = p /\ (e \in Raw(c[2]) \/ HasBad(c[2]))
      BY <1>0, <2>4 DEF PlacedInv, Placed
    <3>2. /\ \A x \in Raw(live') : e < x
          /\ \A c \in Chunks' : Before(p, c[1]) => \A x \in Raw(c[2]) : e < x
      BY <1>0, <2>1, <2>2, <2>4, <3>1 DEF After
    <3>3. Gone(p) => Gone(p)'
      BY <1>0, GoneForever
    <3>4. ASSUME NEW c \in Chunks, c[1] = p, e \in Raw(c[2]) \/ HasBad(c[2]), p \in Segments, ~Gone(p)
          PROVE  /\ p \in Segments'
                 /\ \E d \in Chunks' : d[1] = p /\ (e \in Raw(d[2]) \/ HasBad(d[2]))
      <4>1. p \in Segments'
        BY <1>0, <3>4, NamesChange DEF Segments
      <4>2. PICK d \in Chunks' : d[1] = p
        BY <4>1, SegmentHasChunk
      <4>3. d[2] = c[2]
        BY <1>0, <2>1, <3>4, <4>2 DEF OrderInv
      <4> QED
        BY <3>4, <4>1, <4>2, <4>3
    <3> QED
      BY <3>1, <3>2, <3>3, <3>4 DEF Placed, After, Raw, HasBad, Before
  <2> QED
    BY <2>2, <2>3, <2>4
<1>2. CASE RenameLive
  <2>1. /\ live' = <<>> /\ wpc = "rename" /\ written' = written /\ UNCHANGED <<gz, jobs>>
        /\ Chunks' \subseteq Chunks \cup {<<seg, live>>}
    BY <1>2, ChunksStep DEF RenameLive
  <2>2. PICK s \in Names : s = seg
    BY ChunkFacts
  <2>3. s \in Segments' /\ <<s, live>> \in Chunks'
    <3>1. seg \in DOMAIN plain' /\ plain'[seg] = live
      BY <1>2 DEF RenameLive, With
    <3> QED
      BY <2>2, <3>1 DEF Segments, Chunks
  <2>4. Raw(live') = {}
    BY <2>1, NoLines
  <2>5. ASSUME NEW c \in Chunks, Before(s, c[1])
        PROVE  FALSE
    <3>1. c[1] \in Names /\ Before(c[1], s)
      BY <2>1, <2>2, ChunkFacts
    <3> QED
      BY <2>5, <3>1, BeforeIsOrder
  <2>6. ~Before(s, s)
    BY BeforeIsOrder
  <2>7. CASE e \in Raw(live) \/ HasBad(live)
    <3>1. \A c \in Chunks' : ~Before(s, c[1])
      BY <2>1, <2>2, <2>5, <2>6
    <3>2. \E c \in Chunks' : c[1] = s /\ (e \in Raw(c[2]) \/ HasBad(c[2]))
      BY <2>3, <2>7
    <3> QED
      BY <2>3, <2>4, <3>1, <3>2 DEF Placed, After, Raw, HasBad, Before
  <2>8. ASSUME ~(e \in Raw(live) \/ HasBad(live))
        PROVE  Placed(e)'
    <3>1. PICK p \in Names : /\ After(p, e)
                             /\ \/ Gone(p)
                                \/ p \in Segments /\ \E c \in Chunks :
                                     c[1] = p /\ (e \in Raw(c[2]) \/ HasBad(c[2]))
      BY <1>0, <2>1, <2>8 DEF PlacedInv, Placed
    <3>2. \A c \in Chunks' : Before(p, c[1]) => \A x \in Raw(c[2]) : e < x
      BY <2>1, <3>1 DEF After
    <3>3. Gone(p) => Gone(p)'
      BY <1>0, GoneForever
    <3>4. ASSUME NEW c \in Chunks, c[1] = p, e \in Raw(c[2]) \/ HasBad(c[2]), p \in Segments
          PROVE  /\ p \in Segments'
                 /\ \E d \in Chunks' : d[1] = p /\ (e \in Raw(d[2]) \/ HasBad(d[2]))
      <4>1. p # s /\ p \in Names
        BY <2>1, <2>2, <3>4, ChunkFacts
      <4>2. /\ DOMAIN plain \subseteq DOMAIN plain'
            /\ \A m \in DOMAIN plain : m # s => plain'[m] = plain[m]
        BY <1>2, <2>2 DEF RenameLive, With
      <4>3. p \in Segments'
        BY <2>1, <3>4, <4>2 DEF Segments
      <4>4. PICK d \in Chunks' : d[1] = p
        BY <4>3, SegmentHasChunk
      <4>5. d \in Chunks
        BY <2>1, <2>2, <4>1, <4>4
      <4>6. d[2] = c[2]
        BY <1>0, <3>4, <4>4, <4>5 DEF OrderInv
      <4> QED
        BY <3>4, <4>3, <4>4, <4>6
    <3> QED
      BY <2>4, <3>1, <3>2, <3>3, <3>4 DEF Placed, After, Raw, HasBad, Before
  <2> QED
    BY <2>7, <2>8
<1> QED
  BY <1>1, <1>2

-----------------------------------------------------------------------------
(* The reader. *)
LEMMA ReaderInvStep == Inv /\ TypeInv' /\ [Next]_vars => ReaderInv'
<1> SUFFICES ASSUME Inv, TypeInv', [Next]_vars
             PROVE  ReaderInv'
  OBVIOUS
<1>0. /\ TypeInv /\ JobsInv /\ OrderInv /\ ReaderInv
      /\ rgot \in Seq(Line) /\ rlist \subseteq Names \X {"plain", "gz"}
  BY DEF Inv, LogInv, TypeInv, ReaderType
<1>1. CASE ~Reading
  <2>1. rpc' = rpc /\ rlist' = rlist /\ rgot' = rgot
    BY <1>1, ReaderKept DEF reader
  <2>2. Increasing(rgot)
    BY <1>0 DEF ReaderInv
  <2>3. ASSUME rpc \in {"segments", "live"}
        PROVE  /\ \A s \in rlist : Known(s[1])'
               /\ \A e \in Raw(rgot) : e < next'
               /\ Less(rgot, live')
               /\ \A s \in rlist : \A c \in Chunks' : c[1] = s[1] => Less(rgot, c[2])
    <3>1. /\ \A s \in rlist : Known(s[1]) /\ s[1] \in Names
          /\ \A e \in Raw(rgot) : e < next /\ e \in Nat
          /\ Less(rgot, live)
          /\ \A s \in rlist : \A c \in Chunks : c[1] = s[1] => Less(rgot, c[2])
      BY <1>0, <2>3, ChunkFacts DEF ReaderInv
    <3>2. ASSUME NEW s \in rlist
          PROVE  Known(s[1])'
      <4>1. PICK n \in Names : n = s[1]
        BY <3>1
      <4>2. Known(n)'
        BY <1>0, <3>1, <4>1, GoneForever DEF Known
      <4> QED
        BY <4>1, <4>2, <2>1
    <3>3. CASE RenameLive
      <4>1. next' = next /\ live' = <<>> /\ wpc = "rename"
        BY <3>3 DEF RenameLive
      <4>2. \A s \in rlist : s[1] # seg
        BY <3>1, <4>1, ChunkFacts
      <4>3. \A s \in rlist : \A c \in Chunks' : c[1] = s[1] => c \in Chunks
        BY <4>2, ChunksStep
      <4> QED
        BY <3>1, <3>2, <4>1, <4>3, NoLines DEF Less
    <3>4. CASE ~RenameLive
      <4>1. /\ next \in Nat /\ next' \in Nat /\ next <= next'
            /\ \A x \in Raw(live') : x \in Raw(live) \/ x = next
        BY <1>0, <3>4, LiveStep
      <4>2. Chunks' \subseteq Chunks
        BY <3>4, ChunksStep
      <4> QED
        BY <3>1, <3>2, <4>1, <4>2 DEF Less
    <3> QED
      BY <3>3, <3>4
  <2> QED
    BY <2>1, <2>2, <2>3 DEF ReaderInv, Increasing, Less, Raw
<1>2. CASE Reading
  <2>1. UNCHANGED <<plain, gz, tmp, live, jobs, next, MaxSegments>>
    BY <1>2, ReadingKeeps DEF files, writer
  <2>2. Chunks' = Chunks /\ (\A n : Known(n)' <=> Known(n)) /\ live' = live /\ next' = next
    BY <2>1 DEF Chunks, Known, Occupied, Gone, Outnumbered, Segments
  <2>3. CASE ReadList
    <3>1. rgot' = <<>> /\ \A s \in rlist' : s[1] \in Segments
      BY <2>3 DEF ReadList
    <3>2. \A n \in Segments : Known(n)
      BY DEF Segments, Known, Occupied
    <3>3. Increasing(rgot') /\ Raw(rgot') = {}
      BY <3>1, NoLines
    <3>4. \A s \in rlist' : Known(s[1])'
      BY <2>2, <3>1, <3>2
    <3> QED
      BY <3>3, <3>4 DEF ReaderInv, Less, Increasing, Raw
  <2>4. ASSUME NEW s \in rlist, ReadSegment(s)
        PROVE  ReaderInv'
    <3>1. /\ rpc = "segments" /\ rlist' = rlist \ {s} /\ \A t \in rlist \ {s} : Before(s[1], t[1])
      BY <2>4 DEF ReadSegment
    <3>2. /\ \A t \in rlist : Known(t[1])
          /\ \A e \in Raw(rgot) : e < next
          /\ Less(rgot, live)
          /\ \A t \in rlist : \A c \in Chunks : c[1] = t[1] => Less(rgot, c[2])
          /\ Increasing(rgot)
      BY <1>0, <3>1 DEF ReaderInv
    <3>3. rgot' = rgot \/ \E c \in Chunks : c[1] = s[1] /\ rgot' = rgot \o Parsed(c[2])
      <4>1. \/ rgot' = rgot
            \/ s[1] \in DOMAIN plain /\ rgot' = rgot \o Parsed(plain[s[1]])
            \/ s[1] \in DOMAIN gz /\ rgot' = rgot \o Parsed(gz[s[1]])
        BY <2>4 DEF ReadSegment
      <4>2. s[1] \in DOMAIN plain => <<s[1], plain[s[1]]>> \in Chunks
        BY DEF Chunks
      <4>3. s[1] \in DOMAIN gz => <<s[1], gz[s[1]]>> \in Chunks
        BY DEF Chunks
      <4>4. \A l : <<s[1], l>>[1] = s[1] /\ <<s[1], l>>[2] = l
        OBVIOUS
      <4> QED
        BY <4>1, <4>2, <4>3, <4>4
    <3>4. CASE rgot' = rgot
      BY <2>2, <3>1, <3>2, <3>4 DEF ReaderInv, Increasing, Less, Raw
    <3>5. ASSUME NEW c \in Chunks, c[1] = s[1], rgot' = rgot \o Parsed(c[2])
          PROVE  ReaderInv'
      <4>1. /\ c[2] \in Seq(Line) /\ Increasing(c[2]) /\ Less(rgot, c[2]) /\ Less(c[2], live)
            /\ \A e \in Raw(c[2]) : e < next
            /\ \A d \in Chunks : Before(c[1], d[1]) => Less(c[2], d[2])
        BY <1>0, <3>2, <3>5, ChunkFacts DEF OrderInv
      <4>2. /\ Parsed(c[2]) \in Seq(Line) /\ Raw(Parsed(c[2])) = Raw(c[2])
            /\ Increasing(Parsed(c[2]))
        BY <4>1, ParsedLines
      <4>3. Raw(rgot') = Raw(rgot) \cup Raw(c[2]) /\ Increasing(rgot')
        BY <1>0, <3>2, <3>5, <4>1, <4>2, ReadOn DEF Less
      <4>4. \A e \in Raw(rgot') : e < next
        BY <3>2, <4>1, <4>3
      <4>5. Less(rgot', live)
        BY <3>2, <4>1, <4>3 DEF Less
      <4>6. ASSUME NEW t \in rlist', NEW d \in Chunks, d[1] = t[1]
            PROVE  Less(rgot', d[2])
        <5>1. t \in rlist /\ Before(c[1], d[1])
          BY <3>1, <3>5, <4>6
        <5>2. Less(rgot, d[2]) /\ Less(c[2], d[2])
          BY <3>2, <4>1, <4>6, <5>1
        <5> QED
          BY <4>3, <5>2 DEF Less
      <4>7. \A t \in rlist' : Known(t[1])'
        BY <2>2, <3>1, <3>2
      <4> QED
        BY <2>2, <4>3, <4>4, <4>5, <4>6, <4>7 DEF ReaderInv, Increasing, Less, Raw
    <3> QED
      BY <3>3, <3>4, <3>5
  <2>5. CASE ReadLive
    <3>1. rpc \in {"segments", "live"} /\ rpc' \in {"failed", "done"} /\ rgot' = rgot \o Parsed(live)
      BY <2>5 DEF ReadLive
    <3>2. Less(rgot, live) /\ Increasing(rgot) /\ Increasing(live) /\ live \in Seq(Line)
      BY <1>0, <3>1, ChunkFacts DEF ReaderInv, OrderInv
    <3>3. Parsed(live) \in Seq(Line) /\ Raw(Parsed(live)) = Raw(live) /\ Increasing(Parsed(live))
      BY <3>2, ParsedLines
    <3>4. Increasing(rgot')
      BY <1>0, <3>1, <3>2, <3>3, ReadOn DEF Less
    <3> QED
      BY <3>1, <3>4 DEF ReaderInv, Increasing
  <2> QED
    BY <1>2, <2>3, <2>4, <2>5 DEF Reading
<1> QED
  BY <1>1, <1>2

LEMMA SpoiledFiles ==
    ASSUME TypeInv
    PROVE  /\ Spoiled <=> \E lines \in Files : HasBad(lines)
           /\ ~Spoiled => \A lines \in Files : ~Corrupt(lines) /\ ~HasBad(lines)
           /\ live \in Files /\ \A n \in Segments : Content(n) \in Files
           /\ \A n \in DOMAIN plain : plain[n] \in Files
           /\ \A n \in DOMAIN gz : gz[n] \in Files
           /\ Files \subseteq Seq(Line)
<1>1. Spoiled <=> \E lines \in Files : HasBad(lines)
  BY DEF Spoiled, HasBad
<1>2. Files \subseteq Seq(Line)
  BY DEF Files, TypeInv, FilesType
<1>3. ASSUME NEW lines \in Seq(Line), Corrupt(lines)
      PROVE  HasBad(lines)
  <2>1. Len(lines) \in Nat
    BY LenProperties
  <2> QED
    BY <1>3, <2>1 DEF Corrupt, HasBad
<1>4. /\ live \in Files /\ \A n \in Segments : Content(n) \in Files
      /\ \A n \in DOMAIN plain : plain[n] \in Files
      /\ \A n \in DOMAIN gz : gz[n] \in Files
  BY DEF Files, Segments, Content
<1> QED
  BY <1>1, <1>2, <1>3, <1>4

LEMMA QuietStep == Inv /\ TypeInv' /\ [Next]_vars => QuietInv'
<1> SUFFICES ASSUME Inv, TypeInv', [Next]_vars, rquiet', MaxSegments' = 0, ~Spoiled'
             PROVE  /\ rpc' \in {"segments", "live"} =>
                          \A e \in rwant' : \/ e \in Raw(rgot') \/ e \in Raw(live')
                                            \/ \E s \in rlist' : Listed(s, e)'
                    /\ rpc' = "done" => rwant' \subseteq Raw(rgot')
  BY DEF QuietInv, Raw
<1>0. /\ TypeInv /\ OrderInv /\ PlacedInv /\ QuietInv /\ MaxSegments = 0
      /\ rgot \in Seq(Line) /\ live \in Seq(Line)
      /\ \A n \in DOMAIN plain : plain[n] \in Seq(Line)
      /\ \A n \in DOMAIN gz : gz[n] \in Seq(Line)
  BY RetentionFixed DEF Inv, LogInv, TypeInv, ReaderType, FilesType
<1>1. CASE ~Reading
  <2>1. /\ rpc' = rpc /\ rlist' = rlist /\ rgot' = rgot /\ rwant' = rwant
        /\ rquiet /\ plain' = plain /\ gz' = gz /\ ~RenameLive
    BY <1>1, ReaderKept DEF reader
  <2>2. Raw(live) \subseteq Raw(live') /\ (HasBad(live) => HasBad(live'))
    BY <1>0, <2>1, LiveStep
  <2>3. ~Spoiled
    <3>1. \A lines \in Files : lines = live \/ lines \in Files'
      BY <2>1 DEF Files
    <3>2. live' \in Files'
      BY DEF Files
    <3>3. \A lines \in Files' : ~HasBad(lines)
      BY DEF Spoiled, HasBad
    <3> QED
      BY <1>0, <2>2, <3>1, <3>2, <3>3, SpoiledFiles
  <2>4. \A s, e : Listed(s, e) => Listed(s, e)'
    BY <2>1 DEF Listed, Raw
  <2> QED
    BY <1>0, <2>1, <2>2, <2>3, <2>4 DEF QuietInv
<1>2. CASE Reading
  <2>1. /\ UNCHANGED <<plain, gz, live>>
        /\ Files' = Files /\ live' = live
    BY <1>2, ReadingKeeps DEF files, Files
  <2>2. ~Spoiled
    BY <2>1 DEF Spoiled
  <2>3. \A s, e : Listed(s, e) <=> Listed(s, e)'
    BY <2>1 DEF Listed, Raw
  <2>4. CASE ReadList
    <3>1. /\ rpc' \in {"segments", "live"} /\ rwant' = written
          /\ rlist' = {<<n, Kind(n)>> : n \in Segments}
      BY <2>4 DEF ReadList
    <3>2. ASSUME NEW e \in written, e \notin Raw(live)
          PROVE  \E s \in rlist' : Listed(s, e)
      <4>1. ~HasBad(live) /\ ~\E p \in Names : Gone(p)
        BY <1>0, <2>2, SpoiledFiles DEF Gone
      <4>2. PICK p \in Segments : \E c \in Chunks : c[1] = p /\ (e \in Raw(c[2]) \/ HasBad(c[2]))
        BY <1>0, <3>2, <4>1 DEF PlacedInv, Placed
      <4>3. e \in Raw(Content(p)) \/ HasBad(Content(p))
        <5>1. PICK c \in Chunks : c[1] = p /\ (e \in Raw(c[2]) \/ HasBad(c[2]))
          BY <4>2
        <5>2. PICK d \in Chunks : d = <<p, Content(p)>>
          BY ContentIsChunk
        <5>3. c[2] = Content(p)
          BY <1>0, <5>1, <5>2 DEF OrderInv
        <5> QED
          BY <5>1, <5>3
      <4>4. ~HasBad(Content(p))
        BY <1>0, <2>2, SpoiledFiles
      <4>5. Listed(<<p, Kind(p)>>, e)
        BY <4>3, <4>4 DEF Listed, Kind, Content, Segments
      <4> QED
        BY <3>1, <4>5
    <3> QED
      BY <2>1, <2>3, <3>1, <3>2
  <2>5. ASSUME NEW s \in rlist, ReadSegment(s)
        PROVE  /\ rpc' = "segments"
               /\ \A e \in rwant' : \/ e \in Raw(rgot') \/ e \in Raw(live')
                                    \/ \E t \in rlist' : Listed(t, e)'
    <3>1. /\ rpc = "segments" /\ rpc' = "segments" /\ rwant' = rwant /\ rlist' = rlist \ {s} /\ rquiet
      BY <2>5 DEF ReadSegment
    <3>2. \A e \in rwant : e \in Raw(rgot) \/ e \in Raw(live) \/ \E t \in rlist : Listed(t, e)
      BY <1>0, <2>2, <3>1 DEF QuietInv
    <3>3. \/ rgot' = rgot
          \/ \E l \in Seq(Line) : rgot' = rgot \o Parsed(l)
      BY <1>0, <2>5 DEF ReadSegment
    <3>4. Raw(rgot) \subseteq Raw(rgot')
      <4>1. ASSUME NEW l \in Seq(Line)
            PROVE  Raw(rgot) \subseteq Raw(rgot \o Parsed(l))
        <5>1. Parsed(l) \in Seq(Line)
          BY ParsedLines
        <5> QED
          BY <1>0, <5>1, ReadOn
      <4> QED
        BY <3>3, <4>1
    <3>5. ASSUME NEW e, Listed(s, e)
          PROVE  e \in Raw(rgot')
      <4>1. CASE s[2] = "gz"
        <5>1. s[1] \in DOMAIN gz /\ e \in Raw(gz[s[1]])
          BY <3>5, <4>1 DEF Listed
        <5>2. ~Corrupt(gz[s[1]])
          BY <1>0, <2>2, <5>1, SpoiledFiles
        <5>3. rgot' = rgot \o Parsed(gz[s[1]])
          BY <2>5, <4>1, <5>1, <5>2 DEF ReadSegment
        <5> QED
          BY <1>0, <5>1, <5>3, ReadOn, ParsedLines
      <4>2. CASE s[2] # "gz"
        <5>1. s[1] \in DOMAIN plain /\ e \in Raw(plain[s[1]])
          BY <3>5, <4>2 DEF Listed
        <5>2. ~Corrupt(plain[s[1]])
          BY <1>0, <2>2, <5>1, SpoiledFiles
        <5>3. rgot' = rgot \o Parsed(plain[s[1]])
          BY <2>5, <4>2, <5>1, <5>2 DEF ReadSegment
        <5> QED
          BY <1>0, <5>1, <5>3, ReadOn, ParsedLines
      <4> QED
        BY <4>1, <4>2
    <3> QED
      BY <2>1, <2>3, <3>1, <3>2, <3>4, <3>5
  <2>6. CASE ReadLive
    <3>1. /\ rpc \in {"segments", "live"} /\ rpc' \in {"failed", "done"} /\ rlist = {}
          /\ rgot' = rgot \o Parsed(live) /\ rwant' = rwant /\ rquiet
      BY <2>6 DEF ReadLive
    <3>2. \A e \in rwant : e \in Raw(rgot) \/ e \in Raw(live)
      BY <1>0, <2>2, <3>1 DEF QuietInv
    <3>3. Raw(rgot') = Raw(rgot) \cup Raw(live)
      BY <1>0, <3>1, ReadOn, ParsedLines
    <3> QED
      BY <3>1, <3>2, <3>3
  <2> QED
    BY <1>2, <2>4, <2>5, <2>6 DEF Reading
<1> QED
  BY <1>1, <1>2

-----------------------------------------------------------------------------
(* The log keeps its invariant: names are taken in order and densely within a second, *)
(* jobs are at work on different segments that exist or may be pruned, what stands    *)
(* under a name is one content and follows the order of the names, and a reader has   *)
(* read nothing younger than what it has still to read.  A Writer with retention that *)
(* rotates twice in a second takes a name that a prune has freed, and is left out     *)
(* (rotateLocked, nextSegmentName, compressSegment, pruneSegments, ReadHistory).      *)
THEOREM LogCorrect == Spec => [](~Reuses => LogInv)
<1>1. Init => LogInv
  <2> SUFFICES ASSUME Init PROVE LogInv
    OBVIOUS
  <2>1. /\ DOMAIN plain = {} /\ DOMAIN gz = {} /\ tmp = {} /\ DOMAIN jobs = {} /\ live = <<>>
        /\ written = {} /\ wpc = "down" /\ rpc = "idle" /\ rgot = <<>>
    BY NoLines DEF Init
  <2>2. Chunks = {} /\ \A n : ~Occupied(n)
    BY <2>1 DEF Chunks, Occupied
  <2>3. NamesInv /\ JobsInv /\ SegInv
    BY <2>1, <2>2 DEF NamesInv, JobsInv, SegInv
  <2>4. OrderInv /\ PlacedInv
    BY <2>1, <2>2, NoLines DEF OrderInv, PlacedInv
  <2>5. ReaderInv /\ QuietInv
    BY <2>1, NoLines DEF ReaderInv, QuietInv
  <2> QED
    BY <2>3, <2>4, <2>5 DEF LogInv
<1>2. TypeInv /\ TypeInv' /\ SweepInv /\ (~Reuses => LogInv) /\ [Next]_vars => (~Reuses => LogInv)'
  <2> SUFFICES ASSUME TypeInv, TypeInv', SweepInv, ~Reuses => LogInv, [Next]_vars, ~Reuses'
               PROVE  LogInv'
    OBVIOUS
  <2>1. ~Reuses
    BY RetentionFixed DEF Reuses
  <2>2. Inv
    BY <2>1 DEF Inv
  <2> QED
    BY <2>1, <2>2, NamesStep, JobsInvStep, SegStep, OrderStep, PlacedStep, ReaderInvStep, QuietStep
       DEF LogInv
<1> QED
  BY <1>1, <1>2, TypeCorrect, SweepCorrect, PTL DEF Spec

-----------------------------------------------------------------------------
(* What readers see. *)
LEMMA EntriesAreRaw ==
    ASSUME NEW lines \in Seq(Line)
    PROVE  /\ EntriesIn(lines) \subseteq Raw(lines)
           /\ ~Corrupt(lines) => EntriesIn(lines) = Raw(lines)
<1>1. \A i \in 1..Len(lines) : lines[i] \in Entry \/ lines[i] \in {Torn, Bad}
  BY DEF Line
<1>2. Torn \notin Entry /\ Bad \notin Entry
  BY LogAssumption DEF Torn, Bad, Entry
<1> QED
  BY <1>1, <1>2 DEF EntriesIn, Raw

LEMMA VisibleOrGone ==
    ASSUME Inv, ~Spoiled, NEW e \in written, e \notin Visible
    PROVE  \E p \in Names : Gone(p) /\ After(p, e)
<1>0. TypeInv /\ PlacedInv /\ OrderInv
  BY DEF Inv, LogInv
<1>1. \A lines \in Files : EntriesIn(lines) = Raw(lines) /\ ~HasBad(lines)
  BY <1>0, SpoiledFiles, EntriesAreRaw
<1>2. e \notin Raw(live) /\ ~HasBad(live)
  <2>1. live \in Files
    BY <1>0, SpoiledFiles
  <2>2. EntriesIn(live) = Raw(live) /\ ~HasBad(live)
    BY <1>1, <2>1
  <2>3. EntriesIn(live) \subseteq Visible
    BY DEF Visible
  <2> QED
    BY <2>2, <2>3
<1>3. PICK p \in Names : /\ After(p, e)
                         /\ \/ Gone(p)
                            \/ p \in Segments /\ \E c \in Chunks :
                                 c[1] = p /\ (e \in Raw(c[2]) \/ HasBad(c[2]))
  BY <1>0, <1>2 DEF PlacedInv, Placed
<1>4. ASSUME NEW c \in Chunks, p \in Segments, c[1] = p, e \in Raw(c[2]) \/ HasBad(c[2])
      PROVE  FALSE
  <2>1. PICK d \in Chunks : d = <<p, Content(p)>>
    BY <1>4, ContentIsChunk
  <2>2. c[2] = Content(p)
    BY <1>0, <1>4, <2>1 DEF OrderInv
  <2>3. Content(p) \in Files
    BY <1>0, <1>4, SpoiledFiles
  <2>4. e \in EntriesIn(Content(p))
    BY <1>1, <1>4, <2>2, <2>3
  <2> QED
    BY <1>4, <2>4 DEF Visible
<1> QED
  BY <1>3, <1>4

(* Without retention no written entry is out of the readers' sight, whatever          *)
(* rotations, compressions, crashes, failures and torn lines there have been, as long *)
(* as no line was spoilt (rotateLocked, compressSegment, sweepUncompressed,           *)
(* parseEntries).                                                                     *)
THEOREM NothingLost == Spec => []HistoryComplete
<1>1. TypeInv /\ SweepInv /\ (~Reuses => LogInv) => HistoryComplete
  <2> SUFFICES ASSUME TypeInv, SweepInv, ~Reuses => LogInv, MaxSegments = 0, ~Spoiled,
                      NEW e \in written
               PROVE  e \in Visible
    BY DEF HistoryComplete
  <2>1. Inv /\ ~\E p \in Names : Gone(p)
    BY DEF Reuses, Inv, Gone
  <2> QED
    BY <2>1, VisibleOrGone
<1> QED
  BY <1>1, TypeCorrect, SweepCorrect, LogCorrect, PTL

(* A segment is missing only when MaxSegments younger ones are kept, whatever prunes  *)
(* overlap with rotations, compressions and each other (pruneSegments).               *)
THEOREM OnlyOutnumberedPruned == Spec => [](~Reuses => PrunedWhenOutnumbered)
<1>1. TypeInv /\ SweepInv /\ (~Reuses => LogInv) => (~Reuses => PrunedWhenOutnumbered)
  <2> SUFFICES ASSUME TypeInv, SweepInv, ~Reuses => LogInv, ~Reuses, ~Spoiled,
                      NEW e \in written, e \notin Visible
               PROVE  Cardinality(KeptSegments(e)) >= MaxSegments
    BY DEF PrunedWhenOutnumbered
  <2>1. Inv
    BY DEF Inv
  <2>2. PICK p \in Names : Gone(p) /\ After(p, e)
    BY <2>1, VisibleOrGone
  <2> DEFINE S == {m \in Segments : Before(p, m)}
  <2>3. Cardinality(S) >= MaxSegments
    BY <2>2 DEF Gone, Outnumbered
  <2>4. ASSUME NEW m \in S
        PROVE  m \in KeptSegments(e)
    <3>1. m \in Segments /\ Before(p, m)
      OBVIOUS
    <3>2. PICK d \in Chunks : d = <<m, Content(m)>>
      BY <3>1, ContentIsChunk
    <3>3. \A x \in Raw(Content(m)) : e < x
      BY <2>2, <3>1, <3>2 DEF After
    <3>4. Content(m) \in Seq(Line)
      BY <3>1, SpoiledFiles
    <3>5. \A x \in EntriesIn(Content(m)) : e < x
      BY <3>3, <3>4, EntriesAreRaw
    <3> QED
      BY <3>1, <3>5 DEF KeptSegments
  <2>5. KeptSegments(e) \in SUBSET Segments /\ S \in SUBSET Segments
    BY DEF KeptSegments
  <2>6. /\ IsFiniteSet(KeptSegments(e)) /\ Cardinality(KeptSegments(e)) \in Nat
        /\ Cardinality(S) \in Nat /\ MaxSegments \in Nat
    BY <2>5, SegmentsFinite
  <2> HIDE DEF S
  <2>7. S \subseteq KeptSegments(e)
    BY <2>4
  <2>8. Cardinality(S) =< Cardinality(KeptSegments(e))
    BY <2>6, <2>7, FS_Subset
  <2> QED
    BY <2>3, <2>6, <2>8
<1> QED
  BY <1>1, TypeCorrect, SweepCorrect, LogCorrect, PTL

(* The order of the segment names, then the live file, is the order of writing, and   *)
(* no entry is in two files that findSegments would both show (nextSegmentName).      *)
THEOREM FilesInOrder == Spec => [](~Reuses => HistoryOrdered)
<1>1. TypeInv /\ SweepInv /\ (~Reuses => LogInv) => (~Reuses => HistoryOrdered)
  <2> SUFFICES ASSUME TypeInv, SweepInv, ~Reuses => LogInv, ~Reuses
               PROVE  HistoryOrdered
    OBVIOUS
  <2>1. OrderInv
    BY DEF LogInv
  <2>2. \A n \in Segments : \E c \in Chunks : c[1] = n /\ c[2] = Content(n)
    <3>1. ASSUME NEW n \in Segments
          PROVE  \E c \in Chunks : c[1] = n /\ c[2] = Content(n)
      <4>1. PICK c \in Chunks : c = <<n, Content(n)>>
        BY ContentIsChunk
      <4> QED
        BY <4>1
    <3> QED
      BY <3>1
  <2>3. live \in Seq(Line) /\ \A n \in Segments : Content(n) \in Seq(Line)
    BY SpoiledFiles
  <2>4. ASSUME NEW a \in Seq(Line), NEW b \in Seq(Line), Less(a, b)
        PROVE  Precedes(a, b)
    BY <2>4, EntriesAreRaw DEF Less, Precedes
  <2>5. /\ \A n \in Segments : Increasing(Content(n)) /\ Less(Content(n), live)
        /\ \A m, n \in Segments : Before(m, n) => Less(Content(m), Content(n))
        /\ Increasing(live)
    BY <2>1, <2>2 DEF OrderInv
  <2> QED
    BY <2>3, <2>4, <2>5 DEF HistoryOrdered
<1> QED
  BY <1>1, TypeCorrect, SweepCorrect, LogCorrect, PTL

(* What a reader collects is in the order of writing and without repetition, although *)
(* segments are renamed, compressed and removed under it (ReadHistory).               *)
THEOREM ReaderInOrder == Spec => [](~Reuses => ReadOrdered)
<1>1. (~Reuses => LogInv) => (~Reuses => ReadOrdered)
  BY DEF LogInv, ReaderInv, ReadOrdered
<1> QED
  BY <1>1, LogCorrect, PTL

(* A reader that no rename or removal overlapped has every entry written before it    *)
(* began (ReadHistory).                                                               *)
THEOREM QuietReaderHasAll == Spec => []QuietReadComplete
<1>1. (~Reuses => LogInv) => QuietReadComplete
  <2>1. Raw(rgot) \subseteq GotBy(rgot)
    BY DEF Raw, GotBy
  <2> QED
    BY <2>1 DEF Reuses, LogInv, QuietInv, QuietReadComplete
<1> QED
  BY <1>1, LogCorrect, PTL

-----------------------------------------------------------------------------
(* The abstract log. *)
LEMMA LinesOf ==
    ASSUME NEW F, NEW e
    PROVE  e \in (UNION {{lines[i] : i \in 1..Len(lines)} : lines \in F}) \cap Entry
              <=> \E lines \in F : e \in Raw(lines)
<1> DEFINE In(lines) == {lines[i] : i \in 1..Len(lines)}
<1>1. \A lines : Raw(lines) = In(lines) \cap Entry
  BY DEF Raw
<1> HIDE DEF In
<1>2. e \in UNION {In(lines) : lines \in F} <=> \E lines \in F : e \in In(lines)
  BY Zenon
<1>3. e \in (UNION {In(lines) : lines \in F}) \cap Entry <=> \E lines \in F : e \in Raw(lines)
  BY <1>1, <1>2
<1> QED
  BY <1>3 DEF In

LEMMA KeptIsRaw ==
    /\ \A e : e \in Kept <=> \E lines \in Files : e \in Raw(lines)
    /\ \A e : e \in Kept' <=> \E lines \in Files' : e \in Raw(lines)
  BY LinesOf DEF Kept

\* Every file's entries stand in another file after the step, but for those just written.
LEMMA KeptStep ==
    ASSUME Inv, Inv', MaxSegments = 0, [Next]_vars
    PROVE  Kept' = Kept \/ \E e \in Entry : Kept' = Kept \cup {e} /\ \A x \in Kept : x < e
<1>0. /\ TypeInv /\ TypeInv' /\ JobsInv /\ OrderInv /\ MaxSegments' = 0
      /\ \A n : ~Gone(n)
  BY RetentionFixed DEF Inv, LogInv, Gone
<1>1. \A n \in DOMAIN plain \cup DOMAIN gz : n \in Names /\ (RenameLive => n # seg)
  <2>1. ASSUME NEW n \in DOMAIN plain \cup DOMAIN gz
        PROVE  n \in Names /\ (RenameLive => n # seg)
    <3>1. n \in Names /\ Known(n)
      BY <1>0, <2>1 DEF TypeInv, FilesType, Known, Occupied
    <3>2. RenameLive => wpc = "rename"
      BY DEF RenameLive
    <3> QED
      BY <3>1, <3>2, ChunkFacts
  <2> QED
    BY <2>1
<1>2. /\ \A n \in DOMAIN plain : <<n, plain[n]>> \in Chunks /\ plain[n] \in Files
      /\ \A n \in DOMAIN gz : <<n, gz[n]>> \in Chunks /\ gz[n] \in Files
      /\ \A n \in DOMAIN plain' : <<n, plain'[n]>> \in Chunks' /\ plain'[n] \in Files'
      /\ \A n \in DOMAIN gz' : <<n, gz'[n]>> \in Chunks' /\ gz'[n] \in Files'
      /\ live \in Files /\ live' \in Files'
  BY DEF Chunks, Files
<1>3. \A c \in Chunks : c[2] \in Files
  <2>1. ASSUME NEW k \in DOMAIN jobs, jobs[k].at = "rename"
        PROVE  jobs[k].lines \in Files
    <3>1. jobs[k].seg \in DOMAIN plain
      BY <1>0, <2>1 DEF JobsInv
    <3>2. <<jobs[k].seg, jobs[k].lines>> \in Chunks
      BY <2>1 DEF Chunks
    <3>3. jobs[k].lines = plain[jobs[k].seg]
      <4>1. PICK c \in Chunks : c = <<jobs[k].seg, jobs[k].lines>>
        BY <3>2
      <4>2. PICK d \in Chunks : d = <<jobs[k].seg, plain[jobs[k].seg]>>
        BY <1>2, <3>1
      <4>3. c[2] = d[2]
        BY <1>0, <4>1, <4>2 DEF OrderInv
      <4> QED
        BY <4>1, <4>2, <4>3
    <3> QED
      BY <1>2, <3>1, <3>3
  <2> QED
    BY <1>2, <2>1 DEF Chunks
<1>4. \A lines \in Files : lines = live \/ \E c \in Chunks : c[2] = lines
  <2>1. ASSUME NEW n \in DOMAIN plain
        PROVE  \E c \in Chunks : c[2] = plain[n]
    <3>1. PICK c \in Chunks : c = <<n, plain[n]>>
      BY <1>2
    <3> QED
      BY <3>1
  <2>2. ASSUME NEW n \in DOMAIN gz
        PROVE  \E c \in Chunks : c[2] = gz[n]
    <3>1. PICK c \in Chunks : c = <<n, gz[n]>>
      BY <1>2
    <3> QED
      BY <3>1
  <2> QED
    BY <2>1, <2>2 DEF Files
<1>5. \A x \in Kept : x < next /\ x \in Nat
  BY <1>0, <1>4, KeptIsRaw, ChunkFacts DEF OrderInv
<1>6. ASSUME NEW e \in Kept
      PROVE  \E lines \in Files' : e \in Raw(lines)
  <2>1. PICK lines \in Files : e \in Raw(lines)
    BY <1>0, KeptIsRaw
  <2>2. CASE lines = live
    <3>1. CASE RenameLive
      <4>1. seg \in DOMAIN plain' /\ plain'[seg] = live
        BY <3>1 DEF RenameLive, With
      <4> QED
        BY <1>2, <2>1, <2>2, <4>1
    <3>2. CASE ~RenameLive
      BY <1>0, <1>2, <2>1, <2>2, <3>2, LiveStep
    <3> QED
      BY <3>1, <3>2
  <2>3. ASSUME NEW n \in DOMAIN gz, lines = gz[n]
        PROVE  \E l \in Files' : e \in Raw(l)
    <3>1. n \in DOMAIN gz' /\ gz'[n] = gz[n]
      BY <1>0, <1>1, NamesChange
    <3> QED
      BY <1>2, <2>1, <2>3, <3>1
  <2>4. ASSUME NEW n \in DOMAIN plain, lines = plain[n]
        PROVE  \E l \in Files' : e \in Raw(l)
    <3>1. CASE n \in DOMAIN plain'
      <4>1. plain'[n] = plain[n]
        BY <1>0, <1>1, <3>1, NamesChange
      <4> QED
        BY <1>2, <2>1, <2>4, <3>1, <4>1
    <3>2. CASE n \notin DOMAIN plain'
      <4>1. n \in DOMAIN gz' /\ ~RenameLive
        <5>1. n \in DOMAIN gz'
          BY <1>0, <1>1, <3>2, NamesChange
        <5>2. RenameLive => DOMAIN plain \subseteq DOMAIN plain'
          BY DEF RenameLive, With
        <5> QED
          BY <3>2, <5>1, <5>2
      <4>2. PICK c \in Chunks : c = <<n, plain[n]>>
        BY <1>2
      <4>3. PICK d \in Chunks' : d = <<n, gz'[n]>>
        BY <1>2, <4>1
      <4>4. d \in Chunks
        BY <1>0, <4>1, ChunksStep
      <4>5. gz'[n] = plain[n]
        BY <1>0, <4>2, <4>3, <4>4 DEF OrderInv
      <4> QED
        BY <1>2, <2>1, <2>4, <4>1, <4>5
    <3> QED
      BY <3>1, <3>2
  <2> QED
    BY <2>2, <2>3, <2>4 DEF Files
<1>7. ASSUME NEW e, e \notin Kept, NEW lines \in Files', e \in Raw(lines)
      PROVE  e = next /\ e \in Entry
  <2>1. e \in Entry /\ \A l \in Files : e \notin Raw(l)
    BY <1>0, <1>7, KeptIsRaw DEF Raw
  <2>2. CASE lines = live'
    <3>1. ~RenameLive
      <4>1. RenameLive => Raw(live') = {}
        BY NoLines DEF RenameLive
      <4> QED
        BY <1>7, <2>2, <4>1
    <3> QED
      BY <1>0, <1>2, <1>7, <2>1, <2>2, <3>1, LiveStep
  <2>3. ASSUME NEW c \in Chunks', lines = c[2]
        PROVE  FALSE
    <3>1. CASE c \in Chunks
      BY <1>3, <1>7, <2>1, <2>3, <3>1
    <3>2. CASE c = <<seg, live>>
      BY <1>2, <1>7, <2>1, <2>3, <3>2
    <3> QED
      BY <1>0, <2>3, <3>1, <3>2, ChunksStep
  <2>4. ASSUME NEW n \in DOMAIN plain'
        PROVE  \E c \in Chunks' : c[2] = plain'[n]
    <3>1. PICK c \in Chunks' : c = <<n, plain'[n]>>
      BY <1>2
    <3> QED
      BY <3>1
  <2>5. ASSUME NEW n \in DOMAIN gz'
        PROVE  \E c \in Chunks' : c[2] = gz'[n]
    <3>1. PICK c \in Chunks' : c = <<n, gz'[n]>>
      BY <1>2
    <3> QED
      BY <3>1
  <2> QED
    BY <1>7, <2>1, <2>2, <2>3, <2>4, <2>5 DEF Files
<1>8. Kept \subseteq Kept' /\ \A e \in Kept' : e \in Kept \/ (e = next /\ e \in Entry)
  BY <1>6, <1>7, KeptIsRaw
<1> QED
  BY <1>5, <1>8

(* Without retention the files implement the abstract log, torn lines and all: no     *)
(* step but a write changes which complete lines there are, and each is younger than  *)
(* all before it (rotateLocked, compressSegment, Write).                              *)
THEOREM LogIsDurable == Spec => DurableSpec
<1> DEFINE log == IF MaxSegments = 0 THEN Kept ELSE {}
<1>1. Init => Durable!Init
  <2> SUFFICES ASSUME Init PROVE Kept = {}
    BY DEF Durable!Init
  <2>1. Files = {<<>>}
    BY NoLines DEF Init, Files
  <2> QED
    BY <2>1, KeptIsRaw, NoLines
<1>2. TypeInv /\ TypeInv' /\ SweepInv /\ SweepInv' /\ (~Reuses => LogInv) /\ (~Reuses => LogInv)'
        /\ [Next]_vars => [Durable!Next]_log
  <2> SUFFICES ASSUME TypeInv, TypeInv', SweepInv, SweepInv', ~Reuses => LogInv,
                      (~Reuses => LogInv)', [Next]_vars
               PROVE  Durable!Next \/ log' = log
    OBVIOUS
  <2>1. UNCHANGED MaxSegments
    BY RetentionFixed
  <2>2. CASE MaxSegments # 0
    BY <2>1, <2>2
  <2>3. CASE MaxSegments = 0
    <3>1. Inv /\ Inv'
      BY <2>1, <2>3 DEF Inv, Reuses
    <3>2. log = Kept /\ log' = Kept'
      BY <2>1, <2>3
    <3>3. CASE Kept' = Kept
      BY <3>2, <3>3
    <3>4. ASSUME NEW e \in Entry, Kept' = Kept \cup {e}, \A x \in Kept : x < e
          PROVE  Durable!Next
      <4>1. Durable!Append(e)
        BY <2>1, <2>3, <3>2, <3>4 DEF Durable!Append
      <4> QED
        BY <4>1 DEF Durable!Next
    <3> QED
      BY <2>3, <3>1, <3>3, <3>4, KeptStep
  <2> QED
    BY <2>2, <2>3
<1> QED
  BY <1>1, <1>2, TypeCorrect, SweepCorrect, LogCorrect, PTL DEF Spec, DurableSpec, Durable!Spec
=============================================================================
