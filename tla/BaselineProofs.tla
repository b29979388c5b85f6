--------------------------- MODULE BaselineProofs ---------------------------
(***************************************************************************)
(* What the daemon remembers of the pairs and what it serves, for every    *)
(* set of pairs, every limit and every History.                            *)
(*                                                                         *)
(* The invariant LastSeenIsLatest needs is about the pairs lastSeen has    *)
(* forgotten: there are some only when the map is full, and none of them   *)
(* was seen later than a pair that is kept.  A refresh that tells the map  *)
(* of a forgotten pair with an older time therefore sees it evicted again  *)
(* at once.                                                                *)
(*                                                                         *)
(* For what is served, MadeInv follows a build through a load, the         *)
(* temporary file and the cache.  What one could read of the log can still *)
(* be read when it has grown or was rotated again (ReadingsStay); so a     *)
(* build of it stays one, and whatever parses is one, whichever process    *)
(* saved it.                                                               *)
(***************************************************************************)
EXTENDS Baseline, FiniteSetTheorems, TLAPS

LiveType ==
    /\ when = [p \in DOMAIN when |-> when[p]]
    /\ DOMAIN when \subseteq Pair /\ IsFiniteSet(DOMAIN when)
    /\ \A p \in DOMAIN when : when[p] \in Nat
    /\ latest \in [Pair -> Nat]

ForgottenIsOlder ==
    \A q \in Pair \ DOMAIN when : latest[q] # 0 =>
        /\ Cardinality(DOMAIN when) = MaxLive
        /\ \A p \in DOMAIN when : latest[q] <= when[p]

LiveInv == LiveType /\ LastSeenIsLatest /\ ForgottenIsOlder

\* What Advance is called with.
ConnInv ==
    /\ now \in Nat /\ DOMAIN conn = Conn
    /\ \A c \in Conn : /\ DOMAIN conn[c] = {"pc", "pair", "at"} /\ conn[c].at \in Nat
                       /\ conn[c].pc = "allowed" => conn[c].pair \in Pair

LoadInv ==
    /\ DOMAIN load = Process
    /\ \A a \in Process :
          DOMAIN load[a] = {"pc", "rej", "listed", "read", "got", "handle", "seeds"}
    /\ load["daemon"].pc = "seeding" =>
          \A p \in load["daemon"].seeds : p \in Pair /\ load["daemon"].got.last[p] \in Nat

BaselineInv == LiveInv /\ ConnInv /\ LoadInv

-----------------------------------------------------------------------------
\* Telling lastSeen of a time keeps the invariant.
LEMMA AdvanceKeeps ==
    ASSUME LiveInv, NEW p \in Pair, NEW t \in Nat, Advance(p, t)
    PROVE  LiveInv'
<1> DEFINE D == DOMAIN when
           W == Set(p, t)
<1> USE DEF LiveInv, LiveType, LastSeenIsLatest
<1>1. latest' = [latest EXCEPT ![p] = MaxOf(@, t)] /\ latest' \in [Pair -> Nat]
  BY DEF Advance, MaxOf
<1>2. /\ Cardinality(D) \in Nat /\ IsFiniteSet(D \cup {p})
      /\ Cardinality(D \cup {p}) = IF p \in D THEN Cardinality(D) ELSE Cardinality(D) + 1
  BY FS_CardinalityType, FS_AddElement
<1>3. /\ W = [q \in D \cup {p} |-> W[q]] /\ DOMAIN W = D \cup {p}
      /\ W[p] = t /\ \A q \in D \ {p} : W[q] = when[q]
  BY DEF Set
<1>4. CASE p \in D /\ t <= when[p]
  <2>1. when' = when
    BY <1>4 DEF Advance
  <2>2. latest' = latest
    BY <1>1, <1>4 DEF MaxOf
  <2> QED
    BY <2>1, <2>2 DEF ForgottenIsOlder
<1>5. CASE p \in D /\ ~(t <= when[p])
  <2>1. when' = W /\ DOMAIN when' = D
    BY <1>2, <1>3, <1>5, BaselineAssumption DEF Advance
  <2>2. latest'[p] = t /\ \A q \in Pair \ {p} : latest'[q] = latest[q]
    BY <1>1, <1>5 DEF MaxOf
  <2>3. \A q \in Pair \ D : latest'[q] # 0 =>
            Cardinality(D) = MaxLive /\ \A r \in D : latest'[q] <= when'[r]
    BY <1>3, <1>5, <2>1, <2>2 DEF ForgottenIsOlder
  <2> QED
    BY <1>1, <1>3, <1>5, <2>1, <2>2, <2>3 DEF ForgottenIsOlder
<1>6. CASE p \notin D /\ ~(Cardinality(D \cup {p}) > MaxLive)
  <2>1. when' = W /\ DOMAIN when' = D \cup {p}
    BY <1>3, <1>6 DEF Advance
  <2>2. \A q \in Pair \ D : latest[q] = 0
    BY <1>2, <1>6, BaselineAssumption DEF ForgottenIsOlder
  <2>3. latest'[p] = t /\ \A q \in Pair \ {p} : latest'[q] = latest[q]
    BY <1>1, <1>6, <2>2 DEF MaxOf
  <2>4. ForgottenIsOlder'
    BY <2>1, <2>2, <2>3 DEF ForgottenIsOlder
  <2> QED
    BY <1>1, <1>2, <1>3, <1>6, <2>1, <2>3, <2>4, BaselineAssumption
<1>7. CASE p \notin D /\ Cardinality(D \cup {p}) > MaxLive
  <2>1. Cardinality(D) = MaxLive
    BY <1>2, <1>7, BaselineAssumption
  <2>2. PICK o \in D \cup {p} :
            /\ \A q \in D \cup {p} : W[o] <= W[q]
            /\ when' = [q \in (D \cup {p}) \ {o} |-> W[q]]
    <3>1. when' \in Evict(W)
      BY <1>7 DEF Advance
    <3>2. Evict(W) = {[q \in (D \cup {p}) \ {o} |-> W[q]] :
                         o \in {r \in D \cup {p} : \A q \in D \cup {p} : W[r] <= W[q]}}
      BY <1>3 DEF Evict
    <3> QED
      BY <3>1, <3>2
  <2>3. DOMAIN when' = (D \cup {p}) \ {o} /\ \A q \in DOMAIN when' : when'[q] = W[q]
    BY <2>2
  <2>4. Cardinality(DOMAIN when') = MaxLive /\ IsFiniteSet(DOMAIN when')
    <3> DEFINE E == D \cup {p}
    <3>1. IsFiniteSet(E) /\ Cardinality(E) = MaxLive + 1 /\ o \in E
      BY <1>2, <1>7, <2>1
    <3>2. MaxLive \in Nat /\ DOMAIN when' = E \ {o}
      BY <2>3, BaselineAssumption
    <3> HIDE DEF E
    <3>3. IsFiniteSet(E \ {o}) /\ Cardinality(E \ {o}) = Cardinality(E) - 1
      BY <3>1, FS_RemoveElement, Zenon
    <3> QED
      BY <3>1, <3>2, <3>3
  <2>5. latest'[p] = MaxOf(latest[p], t) /\ \A q \in Pair \ {p} : latest'[q] = latest[q]
    BY <1>1
  <2>6. \A q \in D : latest[p] <= when[q]
    BY <1>7 DEF ForgottenIsOlder
  <2>7. CASE o = p
    <3>1. DOMAIN when' = D /\ \A q \in D : when'[q] = when[q] /\ t <= when[q]
      BY <1>3, <1>7, <2>2, <2>3, <2>7
    <3>2. \A q \in D : latest'[p] <= when'[q]
      BY <2>5, <2>6, <3>1 DEF MaxOf
    <3>3. \A q \in Pair \ D : latest'[q] # 0 =>
              Cardinality(D) = MaxLive /\ \A r \in D : latest'[q] <= when'[r]
      <4>1. ASSUME NEW q \in Pair \ D, q # p, latest'[q] # 0
            PROVE  \A r \in D : latest'[q] <= when'[r]
        BY <2>5, <3>1, <4>1 DEF ForgottenIsOlder
      <4> QED
        BY <2>1, <3>2, <4>1
    <3>4. ForgottenIsOlder'
      BY <3>1, <3>3 DEF ForgottenIsOlder
    <3>5. LastSeenIsLatest'
      BY <1>7, <2>1, <2>5, <3>1
    <3>6. LiveType'
      <4>1. when' = [q \in DOMAIN when' |-> when'[q]]
        BY <2>2
      <4> QED
        BY <1>1, <3>1, <4>1
    <3> QED
      BY <3>4, <3>5, <3>6
  <2>8. CASE o # p
    <3>1. o \in D /\ when[o] <= t /\ \A q \in D : when[o] <= when[q]
      BY <1>3, <1>7, <2>2, <2>8
    <3>2. latest'[p] = t
      BY <2>5, <2>6, <3>1 DEF MaxOf
    <3>3. when'[p] = t /\ \A q \in D \ {o} : when'[q] = when[q]
      BY <1>3, <1>7, <2>3, <2>8
    <3>4. \A q \in Pair \ DOMAIN when' : latest'[q] <= when[o]
      BY <2>3, <2>5, <3>1, <1>7 DEF ForgottenIsOlder
    <3>5. \A q \in DOMAIN when' : when[o] <= when'[q] /\ when'[q] \in Nat
      BY <2>3, <3>1, <3>3
    <3>6. ForgottenIsOlder'
      BY <1>1, <2>3, <2>4, <3>1, <3>4, <3>5 DEF ForgottenIsOlder
    <3>7. LastSeenIsLatest'
      BY <2>3, <2>4, <2>5, <3>2, <3>3, BaselineAssumption
    <3> QED
      BY <1>1, <2>2, <2>3, <2>4, <3>5, <3>6, <3>7
  <2> QED
    BY <2>7, <2>8
<1> QED
  BY <1>4, <1>5, <1>6, <1>7

\* A step that leaves lastSeen alone keeps what is said of it.
LEMMA LiveStutter == ASSUME LiveInv, UNCHANGED live PROVE LiveInv'
  BY DEF LiveInv, LiveType, LastSeenIsLatest, ForgottenIsOlder, live

LEMMA LoadStutter == ASSUME LoadInv, UNCHANGED load PROVE LoadInv'
  BY DEF LoadInv

LEMMA ConnStutter == ASSUME ConnInv, UNCHANGED <<now, conn>> PROVE ConnInv'
  BY DEF ConnInv

\* A load that is replaced by one that does not seed keeps LoadInv.
LEMMA LoadStep ==
    ASSUME LoadInv, NEW a \in Process, NEW l, To(a, l),
           DOMAIN l = {"pc", "rej", "listed", "read", "got", "handle", "seeds"}, l.pc # "seeding"
    PROVE  LoadInv'
  BY DEF LoadInv, To, Process

-----------------------------------------------------------------------------
\* At first nothing has been seen.
LEMMA InitInv == Init => BaselineInv
<1> SUFFICES ASSUME Init PROVE BaselineInv
  OBVIOUS
<1>1. LiveInv
  BY FS_EmptySet, BaselineAssumption
  DEF Init, LiveInv, LiveType, LastSeenIsLatest, ForgottenIsOlder
<1>2. ConnInv /\ LoadInv
  BY DEF Init, ConnInv, LoadInv, NoConn, NoLoad, Process
<1> QED
  BY <1>1, <1>2 DEF BaselineInv

\* Connections: only Admit touches lastSeen, with the time of its entry.
LEMMA ConnStep ==
    ASSUME BaselineInv, NEW c \in Conn,
           \/ \E p \in Pair, v \in {"allowed", "denied"} : Decide(c, p, v)
           \/ Admit(c) \/ LogDecision(c) \/ LogFlow(c)
    PROVE  BaselineInv'
<1> USE DEF BaselineInv
<1>1. LoadInv'
  BY LoadStutter DEF Decide, Admit, LogDecision, LogFlow, Handle
<1>2. ConnInv'
  BY DEF ConnInv, Decide, Admit, LogDecision, LogFlow, Handle
<1>3. LiveInv'
  <2>1. CASE Admit(c)
    BY <2>1, AdvanceKeeps DEF Admit, ConnInv
  <2>2. CASE ~Admit(c)
    BY <2>2, LiveStutter DEF Decide, LogDecision, LogFlow
  <2> QED
    BY <2>1, <2>2
<1> QED
  BY <1>1, <1>2, <1>3

\* Loads: none touches lastSeen before it seeds.
LEMMA LoadKeeps ==
    ASSUME BaselineInv, NEW a \in Process,
           Begin(a) \/ ListSegments(a) \/ ReadLog(a) \/ ReadCache(a) \/ OpenTmp(a)
               \/ WriteTmp(a) \/ RenameTmp(a) \/ LoadFails(a)
    PROVE  BaselineInv'
<1> USE DEF BaselineInv
<1>1. LiveInv' /\ ConnInv'
  BY LiveStutter, ConnStutter
  DEF Begin, ListSegments, ReadLog, ReadCache, OpenTmp, WriteTmp, RenameTmp, LoadFails, calm
<1>2. LoadInv'
  <2>1. CASE Begin(a)
    BY <2>1 DEF LoadInv, Begin, To, NoLoad, Process
  <2>2. CASE ReadLog(a)
    <3>1. PICK es : To(a, [load[a] EXCEPT !.pc = "read", !.listed = {}, !.read = es])
      BY <2>2 DEF ReadLog
    <3> QED
      BY <3>1 DEF LoadInv, To, Process
  <2>3. CASE ReadCache(a)
    <3> DEFINE fresh == Rebuild(load[a].read, load[a].rej)
    <3>1. PICK v \in {"loaded", "built"}, b \in {cache, fresh} :
              To(a, [load[a] EXCEPT !.pc = v, !.read = <<>>, !.got = b])
      BY <2>3, Zenon DEF ReadCache
    <3> QED
      BY <3>1 DEF LoadInv, To, Process
  <2>4. CASE OpenTmp(a)
    BY <2>4 DEF LoadInv, OpenTmp, To, Process
  <2>5. CASE WriteTmp(a)
    BY <2>5 DEF LoadInv, WriteTmp, To, Process
  <2>6. CASE RenameTmp(a)
    BY <2>6 DEF LoadInv, RenameTmp, Process
  <2>7. CASE LoadFails(a)
    BY <2>7 DEF LoadInv, LoadFails, To, NoLoad, Process
  <2>8. CASE ListSegments(a)
    BY <2>8 DEF LoadInv, ListSegments, To, Process
  <2> QED
    BY <2>1, <2>2, <2>3, <2>4, <2>5, <2>6, <2>7, <2>8
<1> QED
  BY <1>1, <1>2

\* Seeding tells lastSeen of times of the log.
LEMMA SeedKeeps == ASSUME BaselineInv, NEW p \in Pair, Seed(p) PROVE BaselineInv'
<1>1. LiveInv'
  BY AdvanceKeeps DEF BaselineInv, LoadInv, Seed
<1>2. ConnInv' /\ LoadInv'
  BY ConnStutter DEF BaselineInv, LoadInv, Seed, To, Process
<1> QED
  BY <1>1, <1>2 DEF BaselineInv

\* The rest of the steps.
LEMMA OtherKeeps ==
    ASSUME BaselineInv,
           \/ Tick \/ Rotate \/ (\E s \in segs : Compress(s))
           \/ StartSeeding \/ SetBaseline \/ CloseReview \/ KillDaemon \/ StartDaemon
           \/ \E p \in Pair : Reject(p) \/ Restore(p)
    PROVE  BaselineInv'
<1> USE DEF BaselineInv
<1>1. LiveInv'
  <2>1. CASE KillDaemon
    BY <2>1, FS_EmptySet, BaselineAssumption
    DEF KillDaemon, LiveInv, LiveType, LastSeenIsLatest, ForgottenIsOlder
  <2>3. CASE Rotate
    BY <2>3, LiveStutter DEF Rotate, live
  <2>4. CASE \E s \in segs : Compress(s)
    BY <2>4, LiveStutter DEF Compress, live
  <2>2. CASE ~KillDaemon /\ ~Rotate /\ ~(\E s \in segs : Compress(s))
    BY <2>2, LiveStutter
    DEF Tick, StartSeeding, SetBaseline, CloseReview, StartDaemon, Reject,
        Restore, calm, live
  <2> QED
    BY <2>1, <2>2, <2>3, <2>4
<1>2. ConnInv'
  <2>1. CASE Rotate
    BY <2>1, ConnStutter DEF Rotate
  <2>2. CASE \E s \in segs : Compress(s)
    BY <2>2, ConnStutter DEF Compress
  <2>3. CASE KillDaemon
    BY <2>3 DEF ConnInv, NoConn, KillDaemon
  <2>4. CASE Tick
    BY <2>4 DEF ConnInv, Tick
  <2>5. CASE \/ StartSeeding \/ SetBaseline \/ CloseReview \/ StartDaemon
             \/ \E p \in Pair : Reject(p) \/ Restore(p)
    BY <2>5, ConnStutter
    DEF StartSeeding, SetBaseline, CloseReview, StartDaemon, Reject, Restore, calm
  <2> QED
    BY <2>1, <2>2, <2>3, <2>4, <2>5
<1>3. LoadInv'
  <2>1. CASE StartSeeding
    BY <2>1 DEF StartSeeding, LoadInv, Seeds, To, Time, Process
  <2>2. CASE Tick \/ Rotate \/ (\E s \in segs : Compress(s)) \/ \E p \in Pair : Restore(p)
    BY <2>2, LoadStutter DEF Tick, Rotate, Compress, Restore
  <2>3. CASE SetBaseline \/ KillDaemon
    BY <2>3, LoadStep DEF SetBaseline, KillDaemon, NoLoad, Process
  <2>4. CASE CloseReview \/ \E p \in Pair : Reject(p)
    BY <2>4, LoadStep DEF CloseReview, Reject, NoLoad, Process
  <2>5. CASE StartDaemon
    BY <2>5, LoadStep DEF StartDaemon, NoLoad, Process
  <2> QED
    BY <2>1, <2>2, <2>3, <2>4, <2>5
<1> QED
  BY <1>1, <1>2, <1>3

LEMMA StepKeeps == BaselineInv /\ [Next]_vars => BaselineInv'
<1> SUFFICES ASSUME BaselineInv, [Next]_vars PROVE BaselineInv'
  OBVIOUS
<1>1. CASE UNCHANGED vars
  BY <1>1, LiveStutter, ConnStutter, LoadStutter DEF vars, live, BaselineInv
<1>2. CASE Next
  BY <1>2, ConnStep, LoadKeeps, SeedKeeps, OtherKeeps DEF Next, Refresh, Process
<1> QED
  BY <1>1, <1>2

(* lastSeen stays within its limit, and what it says of a pair is the      *)
(* latest time it was told of, in every order of connections, evictions    *)
(* and refreshes.                                                          *)
THEOREM LastSeenCorrect == Spec => []LastSeenIsLatest
<1>1. BaselineInv => LastSeenIsLatest
  BY DEF BaselineInv, LiveInv
<1> QED
  BY InitInv, StepKeeps, <1>1, PTL DEF Spec

-----------------------------------------------------------------------------
(* What is served. *)

\* A baseline that is the fold of one reading of the log.
Made(b) == \E es \in Readings : b = Build(es, b.digest)

\* A file that parses was saved whole, by whichever process.
FileInv(f) == f \notin {None, Torn} => Made(f)

\* The cuts are in the log, and there are segments only between them.
Numbered(ss) == \A s \in ss : s.of \in 1..Len(cuts) - 1

LogInv ==
    /\ log \in Seq(Logged) /\ cuts \in Seq(Nat) /\ Len(cuts) # 0
    /\ \A i \in 1..Len(cuts) : cuts[i] <= Len(log)
    /\ Numbered(segs)

\* What a load has got is up to date with the rejections it has read.
Got == {"loaded", "built", "opened", "written", "seeding"}

LoadMade(a) ==
    /\ load[a].pc = "listed" => Numbered(load[a].listed)
    /\ load[a].pc = "read" => load[a].read \in Readings
    /\ load[a].pc \in Got => Made(load[a].got) /\ load[a].got.digest = load[a].rej

MadeInv ==
    /\ LogInv /\ \A c \in Conn : conn[c].pair \in Pair \cup {None}
    /\ FileInv(cache) /\ FileInv(tmp)
    /\ \A a \in Process : LoadMade(a)
    /\ ServedIsABuild

(* What could be read of the log can be read of it when it has grown or been rotated. *)
LEMMA ReadingsStay ==
    ASSUME LogInv, log' \in Seq(Logged), cuts' \in Seq(Nat),
           Len(log') >= Len(log), \A n \in 1..Len(log) : log'[n] = log[n],
           Len(cuts') >= Len(cuts), \A i \in 1..Len(cuts) : cuts'[i] = cuts[i]
    PROVE  Readings \subseteq Readings'
<1> SUFFICES ASSUME NEW i \in 1..Len(cuts), NEW js \in SUBSET (1 .. i - 1), NEW m \in cuts[i]..Len(log)
             PROVE  Part(js, i, m) \in Readings'
  BY DEF Readings
<1>1. Len(cuts) \in Nat /\ Len(log) \in Nat /\ Len(cuts') \in Nat /\ Len(log') \in Nat
  BY DEF LogInv
<1>2. cuts'[i] = cuts[i] /\ i \in 1..Len(cuts') /\ cuts[i] \in Nat /\ m \in Nat
  BY <1>1 DEF LogInv
<1>3. m \in cuts'[i]..Len(log')
  BY <1>1, <1>2
<1>4. \A j \in js : cuts'[j] = cuts[j] /\ cuts'[j + 1] = cuts[j + 1]
  BY <1>1
<1>5. \A n \in 1..m : log'[n] = log[n]
  BY <1>1, <1>2
<1>6. Part(js, i, m)' = Part(js, i, m)
  BY <1>2, <1>4, <1>5 DEF Part, Missed
<1> QED
  BY <1>2, <1>3, <1>6 DEF Readings

(* A reading that has listed the segments and reads the live file is one of them. *)
LEMMA ReadingDone ==
    ASSUME LogInv, NEW ss, Numbered(ss)
    PROVE  Part({s.of : s \in ss}, Len(cuts), Len(log)) \in Readings
<1>1. Len(cuts) \in 1..Len(cuts) /\ Len(log) \in cuts[Len(cuts)]..Len(log)
  BY DEF LogInv
<1> DEFINE js == {s.of : s \in ss}
<1>2. js \in SUBSET (1..Len(cuts) - 1)
  BY DEF Numbered
<1> HIDE DEF js
<1> DEFINE From(i) == {Part(ks, i, m) : ks \in SUBSET (1 .. i - 1), m \in cuts[i]..Len(log)}
<1>3. Readings = UNION {From(i) : i \in 1..Len(cuts)}
  BY DEF Readings
<1>5. Part(js, Len(cuts), Len(log)) \in From(Len(cuts))
  BY <1>1, <1>2
<1> HIDE DEF From
<1>4. Part(js, Len(cuts), Len(log)) \in Readings
  BY <1>1, <1>3, <1>5
<1> QED
  BY <1>4 DEF js

(* What is said of the loads, the files and what is served stays true. *)
LEMMA MadeStays ==
    ASSUME MadeInv, LogInv', Readings \subseteq Readings', Len(cuts') >= Len(cuts),
           \A c \in Conn : conn'[c].pair \in Pair \cup {None}, UNCHANGED <<cache, tmp, load, served>>
    PROVE  MadeInv'
<1>1. \A b : Made(b) => \E es \in Readings' : b = Build(es, b.digest)
  BY DEF Made
<1>2. FileInv(cache)' /\ FileInv(tmp)' /\ ServedIsABuild'
  BY <1>1 DEF MadeInv, FileInv, Made, ServedIsABuild
<1>3. Len(cuts) \in Nat /\ Len(cuts') \in Nat
  BY DEF MadeInv, LogInv
<1>4. \A a \in Process : LoadMade(a)'
  BY <1>1, <1>3 DEF MadeInv, LoadMade, Numbered, Made
<1> QED
  BY <1>2, <1>4 DEF MadeInv

(* A build says which rejections it was made with, and leaves those pairs out. *)
LEMMA BuildLeavesOut ==
    ASSUME NEW es, NEW rej
    PROVE  Build(es, rej).digest = rej /\ DOMAIN Build(es, rej).points \cap rej = {}
BY DEF Build

LEMMA MadeInit == Init => MadeInv
<1> SUFFICES ASSUME Init PROVE MadeInv
  OBVIOUS
<1>1. LogInv
  <2>1. log \in Seq(Logged) /\ cuts = <<0>> /\ segs = {}
    BY HistoryAssumption DEF Init
  <2> QED
    BY <2>1 DEF LogInv, Numbered
<1>2. \A c \in Conn : conn[c].pair = None
  BY DEF Init, NoConn
<1>3. \A a \in Process : load[a].pc = "idle"
  BY DEF Init, NoLoad
<1> QED
  BY <1>1, <1>2, <1>3 DEF Init, MadeInv, LoadMade, FileInv, Got, ServedIsABuild

(* The connections. *)
LEMMA MadeConn ==
    ASSUME BaselineInv, MadeInv, NEW c \in Conn, log' \in {log, Append(log, Entry(c, "decision", 0)),
               Append(log, Entry(c, "flow", now - conn[c].at))}, 
           \A d \in Conn : conn'[d].pair \in Pair \cup {None},
           UNCHANGED <<cuts, segs, cache, tmp, load, served>>
    PROVE  MadeInv'
<1>0. LogInv
  BY DEF MadeInv
<1>1. CASE log' = log
  <2>1. LogInv' /\ Readings' = Readings /\ Len(cuts') >= Len(cuts)
    BY <1>0, <1>1 DEF LogInv, Numbered, Readings, Part
  <2> QED
    BY <2>1, MadeStays
<1>2. ASSUME NEW e \in Logged, log' = Append(log, e)
      PROVE  MadeInv'
  <2>1. /\ log' \in Seq(Logged) /\ Len(log') = Len(log) + 1 /\ Len(log) \in Nat
        /\ \A n \in 1..Len(log) : log'[n] = log[n]
        /\ cuts \in Seq(Nat) /\ Len(cuts) \in Nat
    BY <1>0, <1>2 DEF LogInv
  <2>2. LogInv'
    BY <1>0, <2>1 DEF LogInv, Numbered
  <2>3. Readings \subseteq Readings'
    BY <1>0, <2>1, ReadingsStay
  <2> QED
    BY <2>1, <2>2, <2>3, MadeStays
<1>3. ASSUME NEW kind \in {"decision", "flow"}, NEW len \in Int
      PROVE  Entry(c, kind, len) \in Logged
  <2>1. conn[c].at \in Nat /\ conn[c].pair \in Pair \cup {None}
    BY DEF BaselineInv, ConnInv, MadeInv
  <2>2. (conn[c].pc = "denied") \in BOOLEAN
    OBVIOUS
  <2> DEFINE deny == conn[c].pc = "denied"
             at   == conn[c].at
             pair == conn[c].pair
  <2>3. Entry(c, kind, len) = [kind |-> kind, conn |-> c, pair |-> pair, at |-> at,
                               deny |-> deny, length |-> len]
    BY DEF Entry
  <2>4. deny \in BOOLEAN /\ at \in Nat /\ pair \in Pair \cup {None} /\ c \in Conn \cup {None}
    BY <2>1, <2>2
  <2> HIDE DEF deny, at, pair
  <2> QED
    BY <2>3, <2>4 DEF Logged
<1>4. now - conn[c].at \in Int /\ 0 \in Int
  BY DEF BaselineInv, ConnInv
<1> QED
  BY <1>1, <1>2, <1>3, <1>4

(* The loads: what the log is stays, so what was made of it stays made. *)
LEMMA MadeKept ==
    ASSUME UNCHANGED logs
    PROVE  /\ Readings' = Readings /\ (\A b : Made(b)' <=> Made(b))
           /\ FileInv(cache)' <=> (cache' \notin {None, Torn} => Made(cache'))
           /\ FileInv(tmp)' <=> (tmp' \notin {None, Torn} => Made(tmp'))
<1>1. Readings' = Readings
  BY DEF logs, Readings, Part
<1> QED
  BY <1>1 DEF Made, FileInv

LEMMA MadeLoad ==
    ASSUME BaselineInv, MadeInv, NEW a \in Process, UNCHANGED <<conn, logs, served>>,
           cache' \notin {None, Torn} => Made(cache'), tmp' \notin {None, Torn} => Made(tmp'),
           \A b \in Process \ {a} : /\ load'[b].pc = load[b].pc /\ load'[b].listed = load[b].listed
                                    /\ load'[b].read = load[b].read
                                    /\ load'[b].got = load[b].got /\ load'[b].rej = load[b].rej,
           load'[a].pc = "listed" => Numbered(load'[a].listed),
           load'[a].pc = "read" => load'[a].read \in Readings,
           load'[a].pc \in Got => Made(load'[a].got) /\ load'[a].got.digest = load'[a].rej
    PROVE  MadeInv'
<1>1. /\ FileInv(cache)' /\ FileInv(tmp)' /\ Readings' = Readings
      /\ \A b : Made(b)' <=> Made(b)
  BY MadeKept
<1>2. UNCHANGED <<log, cuts, segs>>
  BY DEF logs
<1>3. LogInv' /\ ServedIsABuild' /\ \A c \in Conn : conn'[c].pair \in Pair \cup {None}
  BY <1>1, <1>2 DEF MadeInv, LogInv, Numbered, ServedIsABuild
<1>4. ASSUME NEW b \in Process PROVE LoadMade(b)'
  <2>1. CASE b = a
    BY <1>1, <1>2, <2>1 DEF LoadMade, Numbered, Made
  <2>2. CASE b # a
    BY <1>1, <1>2, <2>2 DEF MadeInv, LoadMade, Numbered, Made
  <2> QED
    BY <2>1, <2>2
<1> QED
  BY <1>1, <1>3, <1>4 DEF MadeInv

LEMMA MadeLoadStep ==
    ASSUME BaselineInv, MadeInv, NEW a \in Process,
           Begin(a) \/ ListSegments(a) \/ ReadLog(a) \/ ReadCache(a) \/ OpenTmp(a) \/ WriteTmp(a)
               \/ LoadFails(a)
    PROVE  MadeInv'
<1>0. /\ DOMAIN load = Process
      /\ DOMAIN load[a] = {"pc", "rej", "listed", "read", "got", "handle", "seeds"}
      /\ LogInv /\ FileInv(cache) /\ FileInv(tmp) /\ LoadMade(a)
  BY DEF BaselineInv, LoadInv, MadeInv
<1>1. /\ UNCHANGED <<conn, logs, served>>
      /\ \A b \in Process \ {a} : load'[b] = load[b]
  BY <1>0 DEF Begin, ListSegments, ReadLog, ReadCache, OpenTmp, WriteTmp, LoadFails, calm, files, To
<1>2. CASE Begin(a) \/ LoadFails(a)
  <2>1. load'[a].pc \in {"begun", "idle"} /\ UNCHANGED <<cache, tmp>>
    <3>1. CASE Begin(a)
      BY <1>0, <3>1 DEF Begin, To, NoLoad
    <3>2. CASE LoadFails(a)
      BY <1>0, <3>2 DEF LoadFails, To, NoLoad, files
    <3> QED
      BY <1>2, <3>1, <3>2
  <2> QED
    BY <1>0, <1>1, <2>1, MadeLoad DEF FileInv, Got
<1>3. CASE ReadLog(a)
  <2>1. load[a].pc = "listed" /\ UNCHANGED <<cache, tmp>>
    BY <1>3 DEF ReadLog
  <2>2. PICK ss \in SUBSET load[a].listed : \E es :
           /\ es = Part({s.of : s \in ss}, Len(cuts), Len(log))
           /\ To(a, [load[a] EXCEPT !.pc = "read", !.listed = {}, !.read = es])
    BY <1>3 DEF ReadLog
  <2>3. PICK es :
           /\ es = Part({s.of : s \in ss}, Len(cuts), Len(log))
           /\ To(a, [load[a] EXCEPT !.pc = "read", !.listed = {}, !.read = es])
    BY <2>2
  <2>4. load'[a].pc = "read" /\ load'[a].read = es
    BY <1>0, <2>3 DEF To
  <2>5. Numbered(ss)
    BY <1>0, <2>1 DEF LoadMade, Numbered
  <2>6. es \in Readings
    BY <1>0, <2>3, <2>5, ReadingDone
  <2> QED
    BY <1>0, <1>1, <2>1, <2>4, <2>6, MadeLoad DEF FileInv, Got
<1>4. CASE ReadCache(a)
  <2> DEFINE es == load[a].read
  <2>1. load[a].pc = "read" /\ es \in Readings /\ UNCHANGED <<cache, tmp>>
    BY <1>0, <1>4 DEF ReadCache, LoadMade
  <2>2. load'[a].pc \in {"loaded", "built"} /\ load'[a].rej = load[a].rej
    BY <1>0, <1>4 DEF ReadCache, To
  <2>3. \/ load'[a].got = cache /\ cache \notin {None, Torn} /\ cache.digest = load[a].rej
        \/ load'[a].got = Build(es, load[a].rej)
    BY <1>0, <1>4 DEF ReadCache, To, Usable, Rebuild
  <2>4. Build(es, load[a].rej).digest = load[a].rej
    BY BuildLeavesOut
  <2>5. Made(Build(es, load[a].rej))
    BY <2>1, <2>4 DEF Made
  <2> HIDE DEF es
  <2>6. Made(load'[a].got) /\ load'[a].got.digest = load'[a].rej
    BY <1>0, <2>2, <2>3, <2>4, <2>5 DEF FileInv
  <2> QED
    BY <1>0, <1>1, <2>1, <2>2, <2>6, MadeLoad DEF FileInv, Got
<1>7. CASE ListSegments(a)
  <2>1. load'[a].pc = "listed" /\ load'[a].listed = segs /\ UNCHANGED <<cache, tmp>>
    BY <1>0, <1>7 DEF ListSegments, To
  <2>2. Numbered(load'[a].listed)
    BY <1>0, <2>1 DEF LogInv, Numbered
  <2> QED
    BY <1>0, <1>1, <2>1, <2>2, MadeLoad DEF FileInv, Got
<1>5. CASE OpenTmp(a)
  <2>1. /\ load[a].pc = "built" /\ load'[a].pc = "opened" /\ load'[a].got = load[a].got
        /\ load'[a].rej = load[a].rej /\ tmp' = Torn /\ UNCHANGED cache
    BY <1>0, <1>5 DEF OpenTmp, To
  <2> QED
    BY <1>0, <1>1, <2>1, MadeLoad DEF FileInv, LoadMade, Got
<1>6. CASE WriteTmp(a)
  <2>1. /\ load[a].pc = "opened" /\ load'[a].pc = "written" /\ load'[a].got = load[a].got
        /\ load'[a].rej = load[a].rej
    BY <1>0, <1>6 DEF WriteTmp, To
  <2>2. Made(load[a].got)
    BY <1>0, <2>1 DEF LoadMade, Got
  <2>3. cache' \in {cache, load[a].got, Torn} /\ tmp' \in {tmp, load[a].got, Torn}
    BY <1>6 DEF WriteTmp, Written
  <2>4. (cache' \notin {None, Torn} => Made(cache')) /\ (tmp' \notin {None, Torn} => Made(tmp'))
    BY <1>0, <2>2, <2>3 DEF FileInv
  <2> QED
    BY <1>0, <1>1, <2>1, <2>4, MadeLoad DEF LoadMade, Got
<1> QED
  BY <1>2, <1>3, <1>4, <1>5, <1>6, <1>7

LEMMA MadeRename ==
    ASSUME BaselineInv, MadeInv, NEW a \in Process, RenameTmp(a)
    PROVE  MadeInv'
<1>0. /\ DOMAIN load = Process
      /\ \A b \in Process : DOMAIN load[b] = {"pc", "rej", "listed", "read", "got", "handle", "seeds"}
      /\ FileInv(tmp) /\ LoadMade(a)
  BY DEF BaselineInv, LoadInv, MadeInv
<1>1. /\ UNCHANGED <<conn, logs, served>> /\ load[a].pc = "written" /\ cache' = tmp /\ tmp' = None
  BY DEF RenameTmp, calm
<1>2. ASSUME NEW b \in Process \ {a}
      PROVE  /\ load'[b].pc = load[b].pc /\ load'[b].listed = load[b].listed
             /\ load'[b].read = load[b].read
             /\ load'[b].got = load[b].got /\ load'[b].rej = load[b].rej
  <2>1. load'[b] = load[b] \/ load'[b] = [load[b] EXCEPT !.handle = "cache"]
    BY DEF RenameTmp
  <2> QED
    BY <1>0, <2>1
<1>3. load'[a] = [load[a] EXCEPT !.pc = "loaded", !.handle = "closed"]
  BY DEF RenameTmp
<1>4. load'[a].pc = "loaded" /\ load'[a].got = load[a].got /\ load'[a].rej = load[a].rej
  BY <1>0, <1>3
<1> QED
  BY <1>0, <1>1, <1>2, <1>4, MadeLoad DEF FileInv, LoadMade, Got

(* Seeding, the review and the end of the daemon. *)
LEMMA MadeSeed ==
    ASSUME BaselineInv, MadeInv, StartSeeding \/ CloseReview \/ \E p \in Pair : Seed(p) \/ Restore(p) \/ Reject(p)
    PROVE  MadeInv'
<1>0. /\ DOMAIN load = Process
      /\ \A b \in Process : DOMAIN load[b] = {"pc", "rej", "listed", "read", "got", "handle", "seeds"}
      /\ FileInv(cache) /\ FileInv(tmp)
      /\ \A b \in Process : LoadMade(b)
  BY DEF BaselineInv, LoadInv, MadeInv
<1>1. UNCHANGED <<conn, logs, served, cache, tmp>>
  BY DEF StartSeeding, CloseReview, Seed, Restore, Reject, calm, files
<1>2. CASE StartSeeding \/ \E p \in Pair : Seed(p)
  <2>1. /\ load'["review"] = load["review"] /\ load["daemon"].pc \in {"loaded", "seeding"}
        /\ load'["daemon"].pc = "seeding" /\ load'["daemon"].got = load["daemon"].got
        /\ load'["daemon"].rej = load["daemon"].rej
    <3>1. CASE StartSeeding
      BY <1>0, <3>1 DEF StartSeeding, To, Process
    <3>2. CASE \E p \in Pair : Seed(p)
      BY <1>0, <3>2 DEF Seed, To, Process
    <3> QED
      BY <1>2, <3>1, <3>2
  <2> QED
    BY <1>0, <1>1, <2>1, MadeLoad DEF FileInv, LoadMade, Got, Process
<1>3. CASE CloseReview \/ \E p \in Pair : Reject(p)
  <2>1. load'["daemon"] = load["daemon"] /\ load'["review"].pc = "idle"
    BY <1>0, <1>3 DEF CloseReview, Reject, To, Process, NoLoad
  <2> QED
    BY <1>0, <1>1, <2>1, MadeLoad DEF FileInv, LoadMade, Got, Process
<1>4. CASE \E p \in Pair : Restore(p)
  <2>1. load' = load
    BY <1>4 DEF Restore
  <2> QED
    BY <1>0, <1>1, <2>1, MadeLoad DEF FileInv, LoadMade, Process
<1> QED
  BY <1>2, <1>3, <1>4

LEMMA MadeDaemon ==
    ASSUME BaselineInv, MadeInv, SetBaseline \/ KillDaemon \/ StartDaemon
    PROVE  MadeInv'
<1>0. /\ DOMAIN load = Process
      /\ LoadMade("daemon") /\ LoadMade("review")
  BY DEF BaselineInv, LoadInv, MadeInv, Process
<1>1. /\ UNCHANGED <<logs, cache, tmp>> /\ load'["review"] = load["review"]
      /\ load'["daemon"].pc \in {"idle", "begun"}
  <2>1. CASE SetBaseline
    BY <1>0, <2>1 DEF SetBaseline, files, To, Process, NoLoad
  <2>2. CASE KillDaemon
    BY <1>0, <2>2 DEF KillDaemon, files, To, Process, NoLoad
  <2>3. CASE StartDaemon
    BY <1>0, <2>3 DEF StartDaemon, files, To, Process, NoLoad
  <2> QED
    BY <2>1, <2>2, <2>3
<1>4. /\ FileInv(cache)' /\ FileInv(tmp)' /\ Readings' = Readings
      /\ \A b : Made(b)' <=> Made(b)
  BY <1>1, MadeKept DEF MadeInv, FileInv
<1>2. ServedIsABuild'
  <2>1. CASE SetBaseline
    BY <1>0, <1>1, <1>4, <2>1 DEF SetBaseline, ServedIsABuild, LoadMade, Made, Got
  <2>2. CASE KillDaemon \/ StartDaemon
    BY <1>1, <1>4, <2>2 DEF KillDaemon, StartDaemon, MadeInv, ServedIsABuild
  <2> QED
    BY <2>1, <2>2
<1>3. \A c \in Conn : conn'[c].pair \in Pair \cup {None}
  BY DEF SetBaseline, KillDaemon, StartDaemon, MadeInv, NoConn
<1>5. ASSUME NEW a \in Process PROVE LoadMade(a)'
  <2>1. CASE a = "daemon"
    BY <1>1, <2>1 DEF LoadMade, Got
  <2>2. CASE a = "review"
    BY <1>0, <1>1, <1>4, <2>2 DEF logs, LoadMade, Numbered, Made
  <2> QED
    BY <2>1, <2>2 DEF Process
<1>6. LogInv'
  BY <1>1 DEF logs, MadeInv, LogInv, Numbered
<1> QED
  BY <1>2, <1>3, <1>4, <1>5, <1>6 DEF MadeInv

LEMMA MadeStep == BaselineInv /\ MadeInv /\ [Next]_vars => MadeInv'
<1> SUFFICES ASSUME BaselineInv, MadeInv, [Next]_vars PROVE MadeInv'
  OBVIOUS
<1>0. DOMAIN conn = Conn /\ (\A c \in Conn : DOMAIN conn[c] = {"pc", "pair", "at"})
      /\ \A c \in Conn : conn[c].pair \in Pair \cup {None}
  BY DEF BaselineInv, ConnInv, MadeInv
<1>1. CASE UNCHANGED vars \/ Tick
  <2>1. UNCHANGED <<conn, log, cuts, segs, cache, tmp, load, served>>
    BY <1>1 DEF vars, files, logs, Tick
  <2>2. LogInv' /\ Readings' = Readings /\ Len(cuts') >= Len(cuts)
    BY <2>1 DEF MadeInv, LogInv, Numbered, Readings, Part
  <2> QED
    BY <1>0, <2>1, <2>2, MadeStays
<1>6. CASE Rotate
  <2>1. /\ log \in Seq(Logged) /\ cuts \in Seq(Nat) /\ Len(cuts) \in Nat /\ Len(log) \in Nat
        /\ LogInv /\ cuts' = Append(cuts, Len(log))
        /\ segs' = segs \cup {Segment(Len(cuts), "plain")}
        /\ UNCHANGED <<conn, log, cache, tmp, load, served>>
    BY <1>6 DEF Rotate, MadeInv, LogInv
  <2>2. /\ cuts' \in Seq(Nat) /\ Len(cuts') = Len(cuts) + 1 /\ cuts'[Len(cuts) + 1] = Len(log)
        /\ \A i \in 1..Len(cuts) : cuts'[i] = cuts[i]
    BY <2>1
  <2>3. LogInv'
    <3>1. \A i \in 1..Len(cuts') : cuts'[i] <= Len(log)
      BY <2>1, <2>2 DEF LogInv
    <3>2. Numbered(segs)'
      BY <2>1, <2>2 DEF LogInv, Numbered, Segment
    <3> QED
      BY <2>1, <2>2, <3>1, <3>2 DEF LogInv
  <2>4. Readings \subseteq Readings'
    BY <2>1, <2>2, ReadingsStay
  <2> QED
    BY <1>0, <2>1, <2>2, <2>3, <2>4, MadeStays
<1>7. ASSUME NEW s \in segs, Compress(s) PROVE MadeInv'
  <2>1. UNCHANGED <<conn, log, cuts, cache, tmp, load, served>>
    BY <1>7 DEF Compress
  <2>2. \A r \in segs' : r \in segs \/ r.of = s.of
    <3> DEFINE ss == (segs \ {s}) \cup {Segment(s.of, "gz")}
    <3>1. segs' \subseteq ss
      BY <1>7 DEF Compress, Retained
    <3>2. \A r \in ss : r \in segs \/ r.of = s.of
      BY DEF Segment
    <3> QED
      BY <3>1, <3>2
  <2>3. LogInv' /\ Readings' = Readings /\ Len(cuts') >= Len(cuts)
    BY <2>1, <2>2 DEF MadeInv, LogInv, Numbered, Readings, Part
  <2> QED
    BY <1>0, <2>1, <2>3, MadeStays
<1>2. ASSUME NEW c \in Conn, NEW k, Handle(c, k), k.pair \in Pair \cup {None},
             log' \in {log, Append(log, Entry(c, "decision", 0)),
                       Append(log, Entry(c, "flow", now - conn[c].at))}
      PROVE  MadeInv'
  <2>1. \A d \in Conn : conn'[d].pair \in Pair \cup {None}
    BY <1>0, <1>2 DEF Handle
  <2> QED
    BY <1>2, <2>1, MadeConn DEF Handle
<1>3. ASSUME NEW c \in Conn, Admit(c) \/ LogDecision(c) \/ LogFlow(c)
      PROVE  MadeInv'
  <2> DEFINE k(pc) == [conn[c] EXCEPT !.pc = pc]
  <2>1. \A pc : k(pc).pair \in Pair \cup {None}
    BY <1>0
  <2>2. \E pc : Handle(c, k(pc))
    BY <1>3 DEF Admit, LogDecision, LogFlow
  <2>3. log' \in {log, Append(log, Entry(c, "decision", 0)), Append(log, Entry(c, "flow", now - conn[c].at))}
    BY <1>3 DEF Admit, LogDecision, LogFlow
  <2> HIDE DEF k
  <2> QED
    BY <1>2, <2>1, <2>2, <2>3
<1>4. ASSUME NEW c \in Conn, NEW p \in Pair, NEW v, Decide(c, p, v)
      PROVE  MadeInv'
  <2> DEFINE k == [pc |-> v, pair |-> p, at |-> now]
  <2>1. Handle(c, k) /\ k.pair \in Pair \cup {None} /\ log' = log
    BY <1>4 DEF Decide
  <2> HIDE DEF k
  <2> QED
    BY <1>2, <2>1
<1>5. CASE Refresh \/ Begin("review")
  BY <1>5, MadeLoadStep DEF Refresh, Process
<1> QED
  BY <1>1, <1>3, <1>4, <1>5, <1>6, <1>7, MadeLoadStep, MadeRename, MadeSeed, MadeDaemon DEF Next

(* What is served is the fold of one lock-free reading of the log, which may miss     *)
(* segments, with the rejections it says, and no other, through two processes at one  *)
(* temporary file, files cut short and crashes (loadOrBuildBaseline, ReadHistory,     *)
(* Save, Load).                                                                       *)
THEOREM ServedProved == Spec => []ServedIsABuild
<1>1. MadeInv => ServedIsABuild
  BY DEF MadeInv
<1> QED
  BY <1>1, InitInv, StepKeeps, MadeInit, MadeStep, PTL DEF Spec

(* A refresh serves what was made with the rejections there were when it began, and   *)
(* none of the pairs they name (Baseline.IsStale, BuildBaselineWithRejections).       *)
THEOREM RejectionsProved == Spec => RejectionsTakeEffect
<1>1. BaselineInv /\ MadeInv /\ [Next]_vars
      => [served' # served /\ served' # None
             => /\ served'.digest = load["daemon"].rej
                /\ DOMAIN served'.points \cap load["daemon"].rej = {}]_vars
  <2> SUFFICES ASSUME BaselineInv, MadeInv, [Next]_vars, served' # served, served' # None
               PROVE  /\ served'.digest = load["daemon"].rej
                      /\ DOMAIN served'.points \cap load["daemon"].rej = {}
    OBVIOUS
  <2>1. SetBaseline
    BY DEF Next, vars, live, files, calm, Tick, Rotate, Compress, Refresh, ListSegments, Begin, Admit, LogDecision, LogFlow, Handle,
       Decide, ReadLog, ReadCache, OpenTmp, WriteTmp, RenameTmp, LoadFails, Seed, Reject, Restore,
       StartSeeding, CloseReview, KillDaemon, StartDaemon
  <2>2. Made(served') /\ served'.digest = load["daemon"].rej
    BY <2>1 DEF SetBaseline, MadeInv, LoadMade, Got, Process
  <2>3. PICK es \in Readings : served' = Build(es, served'.digest)
    BY <2>2 DEF Made
  <2> QED
    BY <2>2, <2>3, BuildLeavesOut
<1> QED
  BY <1>1, InitInv, StepKeeps, MadeInit, MadeStep, PTL DEF Spec, RejectionsTakeEffect
=============================================================================
