-------------------------- MODULE PersistenceProofs --------------------------
(***************************************************************************)
(* A source has one first sight, for any number of goroutines, processes   *)
(* and calls.  The ledger only grows, because who changes it holds the     *)
(* mutex and has read it as it is (LedgerInv); so whatever was told of a   *)
(* source is in the ledger, and who is told that it is new has put it      *)
(* there (ToldInv), or asks of the process that did and is answered from   *)
(* the cache, which has only what was told (CacheInv).                     *)
(***************************************************************************)
EXTENDS Persistence, TLAPS

ReaderType ==
    /\ DOMAIN reader = Reader
    /\ \A r \in Reader : DOMAIN reader[r] = DOMAIN Idle

\* The holder of storeMu is alone, and knows the ledger.
LedgerInv ==
    /\ ledger = [s \in DOMAIN ledger |-> ledger[s]]
    /\ \A r \in Reader : reader[r].pc # "stuck"
    /\ \A r \in Reader : reader[r].pc = "loaded" => reader[r].seen = ledger
    /\ \A r, q \in Reader : reader[r].pc = "loaded" /\ reader[q].pc = "loaded" => r = q

\* A goroutine that is about to tell that its source is new is the one to tell it.
Owes(r) == reader[r].pc = "saved"

ToldInv ==
    /\ \A t \in told : t.source \in DOMAIN ledger /\ ledger[t.source] = t.first
    /\ \A a, b \in told :
          a.source = b.source /\ a.new = "new" /\ b.new = "new" => a.key = b.key
    /\ \A r \in Reader : Owes(r) =>
          /\ reader[r].found \in DOMAIN ledger
          /\ ledger[reader[r].found] = reader[r].first
          /\ \A t \in told : t.source = reader[r].found => t.new # "new"
          /\ \A q \in Reader : Owes(q) /\ reader[q].found = reader[r].found => q = r

\* A first sight that is cached for a process was told to a call of that process.
CacheInv ==
    \A k \in DOMAIN cache : cache[k] # None /\ cache[k].first # 0 =>
        \E t \in told : /\ t.source = cache[k].source /\ t.first = cache[k].first
                        /\ t.new = cache[k].new /\ t.key = k

PersistenceInv == ReaderType /\ LedgerInv /\ ToldInv /\ CacheInv

-----------------------------------------------------------------------------
LEMMA InitInv == Init => PersistenceInv
  BY DEF Init, Idle, PersistenceInv, ReaderType, LedgerInv, ToldInv, CacheInv, Owes

\* What a goroutine turns to leaves the others alone.
LEMMA ToOne ==
    ASSUME ReaderType, NEW r \in Reader, NEW s, To(r, s), DOMAIN s = DOMAIN Idle
    PROVE  /\ ReaderType' /\ reader'[r] = s
           /\ \A q \in Reader \ {r} : reader'[q] = reader[q]
  BY DEF ReaderType, To

\* A step of a goroutine that neither holds the mutex nor takes it, nor is about to tell,
\* before or after it, nor has anything told.
LEMMA Aside ==
    ASSUME PersistenceInv, NEW r \in Reader, NEW s, To(r, s), DOMAIN s = DOMAIN Idle,
           s.pc \notin {"loaded", "saved", "stuck"}, UNCHANGED <<ledger, cache, told>>
    PROVE  PersistenceInv'
<1>1. /\ ReaderType' /\ reader'[r] = s
      /\ \A q \in Reader \ {r} : reader'[q] = reader[q]
  BY ToOne DEF PersistenceInv
<1>2. \A q \in Reader : reader'[q].pc \in {"loaded", "saved", "stuck"} => reader'[q] = reader[q]
  BY <1>1
<1>3. LedgerInv'
  BY <1>2 DEF PersistenceInv, LedgerInv
<1>4. ToldInv'
  BY <1>2 DEF PersistenceInv, ToldInv, Owes
<1>5. CacheInv'
  BY DEF PersistenceInv, CacheInv
<1> QED
  BY <1>1, <1>3, <1>4, <1>5 DEF PersistenceInv

\* An answer may be told and cached if the ledger has it, and one that is new if no other
\* goroutine tells it or has told it.
LEMMA AnsweredKeeps ==
    ASSUME PersistenceInv, NEW r \in Reader, NEW answer, Answered(r, answer), UNCHANGED ledger,
           \A t \in Telling(answer, reader[r].key, reader[r].call) :
              /\ t.source \in DOMAIN ledger /\ ledger[t.source] = t.first
              /\ t.new = "new" =>
                    /\ \A u \in told : u.source = t.source => u.new # "new"
                    /\ \A q \in Reader \ {r} : Owes(q) => reader[q].found # t.source
    PROVE  PersistenceInv'
<1> DEFINE key   == reader[r].key
           telling == Telling(answer, key, reader[r].call)
<1>1. /\ To(r, Idle) /\ told' = told \cup telling /\ Idle.pc = "idle"
      /\ cache' = [k \in DOMAIN cache \cup {key} |-> IF k = key THEN answer ELSE cache[k]]
  BY DEF Answered, Idle
<1>2. /\ ReaderType' /\ reader'[r] = Idle
      /\ \A q \in Reader \ {r} : reader'[q] = reader[q]
  BY <1>1, ToOne DEF PersistenceInv
<1>3. answer # None /\ answer.first # 0 =>
         \E t \in telling : /\ t.source = answer.source /\ t.first = answer.first
                            /\ t.new = answer.new /\ t.key = key
  BY DEF Telling
<1>4. \A t \in telling : t.key = key
  BY DEF Telling
<1> HIDE DEF key, telling
<1>5. LedgerInv'
  BY <1>1, <1>2 DEF PersistenceInv, LedgerInv
<1>6. ToldInv'
  <2>1. \A q \in Reader : Owes(q)' => Owes(q) /\ q # r /\ reader'[q] = reader[q]
    BY <1>1, <1>2 DEF Owes
  <2>2. \A t \in telling :
           /\ t.source \in DOMAIN ledger /\ ledger[t.source] = t.first
           /\ t.new = "new" =>
                 /\ \A u \in told : u.source = t.source => u.new # "new"
                 /\ \A q \in Reader : Owes(q)' => reader[q].found # t.source
    BY <2>1 DEF key, telling
  <2>3. \A t \in told' : t.source \in DOMAIN ledger' /\ ledger'[t.source] = t.first
    BY <1>1, <2>2 DEF PersistenceInv, ToldInv
  <2>4. \A a, b \in told' :
           a.source = b.source /\ a.new = "new" /\ b.new = "new" => a.key = b.key
    BY <1>1, <1>4, <2>2 DEF PersistenceInv, ToldInv
  <2>5. \A q \in Reader : Owes(q)' =>
           /\ reader'[q].found \in DOMAIN ledger'
           /\ ledger'[reader'[q].found] = reader'[q].first
           /\ \A t \in told' : t.source = reader'[q].found => t.new # "new"
           /\ \A p \in Reader : Owes(p)' /\ reader'[p].found = reader'[q].found => p = q
    BY <1>1, <2>1, <2>2 DEF PersistenceInv, ToldInv
  <2> QED
    BY <2>3, <2>4, <2>5 DEF ToldInv
<1>7. CacheInv'
  <2> SUFFICES ASSUME NEW k \in DOMAIN cache', cache'[k] # None, cache'[k].first # 0
               PROVE  \E t \in told' : /\ t.source = cache'[k].source
                                       /\ t.first = cache'[k].first
                                       /\ t.new = cache'[k].new /\ t.key = k
    BY DEF CacheInv
  <2>1. CASE k = key
    BY <1>1, <1>3, <2>1
  <2>2. CASE k # key
    <3>1. k \in DOMAIN cache /\ cache'[k] = cache[k]
      BY <1>1, <2>2
    <3> QED
      BY <1>1, <3>1 DEF PersistenceInv, CacheInv
  <2> QED
    BY <2>1, <2>2
<1> QED
  BY <1>2, <1>5, <1>6, <1>7 DEF PersistenceInv

\* An error is told to nobody.
LEMMA ErrorKeeps ==
    ASSUME PersistenceInv, NEW r \in Reader, Error(r)
    PROVE  PersistenceInv'
<1>1. Answered(r, None) /\ UNCHANGED ledger
      /\ Telling(None, reader[r].key, reader[r].call) = {}
  BY DEF Error, Telling
<1> QED
  BY <1>1, AnsweredKeeps

\* The steps before the ledger is looked at.
LEMMA LookingKeeps ==
    ASSUME PersistenceInv, NEW r \in Reader,
           \/ ListProcesses(r) \/ ListFails(r) \/ ListJobs(r) \/ JobsFail(r)
           \/ LabelCron(r) \/ MatchHook(r) \/ HookFails(r)
    PROVE  PersistenceInv'
<1> DEFINE Found(kind, label) == [reader[r] EXCEPT !.pc = "found", !.found = <<kind, label>>,
                                                   !.chain = <<>>]
<1>1. DOMAIN reader[r] = DOMAIN Idle /\ "pc" \in DOMAIN Idle
  BY DEF PersistenceInv, ReaderType, Idle
<1>2. ASSUME NEW kind, NEW label, Persistent(r, kind, label)
      PROVE  PersistenceInv'
  <2>1. /\ To(r, Found(kind, label)) /\ UNCHANGED <<ledger, cache, told>>
        /\ DOMAIN Found(kind, label) = DOMAIN Idle /\ Found(kind, label).pc = "found"
    BY <1>1, <1>2 DEF Persistent, Idle
  <2> QED
    BY <2>1, Aside
<1>3. ASSUME NEW kind, Classified(r, kind) PROVE PersistenceInv'
  <2>1. Telling([source |-> <<kind, None>>, first |-> 0, new |-> "known"],
                reader[r].key, reader[r].call) = {}
    BY DEF Telling
  <2> QED
    BY <1>3, <2>1, AnsweredKeeps DEF Classified
<1>4. ASSUME Error(r) PROVE PersistenceInv'
  BY <1>4, ErrorKeeps
<1>5. ASSUME WithoutJobs(r) PROVE PersistenceInv'
  <2>1. CASE \E pc \in {"cron", "shell"} : /\ To(r, [reader[r] EXCEPT !.pc = pc])
                                           /\ UNCHANGED <<ledger, cache, told>>
    <3>1. PICK pc \in {"cron", "shell"} : To(r, [reader[r] EXCEPT !.pc = pc])
      BY <2>1
    <3>2. /\ DOMAIN [reader[r] EXCEPT !.pc = pc] = DOMAIN Idle
          /\ [reader[r] EXCEPT !.pc = pc].pc = pc
      BY <1>1
    <3> QED
      BY <2>1, <3>1, <3>2, Aside
  <2>2. CASE Classified(r, "unknown")
    BY <1>3, <2>2
  <2> QED
    BY <1>5, <2>1, <2>2 DEF WithoutJobs
<1>6. CASE ListProcesses(r)
  <2> DEFINE s == [reader[r] EXCEPT !.pc = "chain", !.chain = Chain(reader[r].key)]
  <2>1. To(r, s) /\ UNCHANGED <<ledger, cache, told>> /\ DOMAIN s = DOMAIN Idle /\ s.pc = "chain"
    BY <1>1, <1>6 DEF ListProcesses, Idle
  <2> HIDE DEF s
  <2> QED
    BY <2>1, Aside
<1>7. CASE ListJobs(r)
  BY <1>2, <1>5, <1>7 DEF ListJobs
<1>8. CASE LabelCron(r)
  BY <1>2, <1>8 DEF LabelCron
<1>9. CASE MatchHook(r)
  BY <1>2, <1>3, <1>9 DEF MatchHook
<1>10. CASE HookFails(r)
  BY <1>2, <1>3, <1>10 DEF HookFails
<1> QED
  BY <1>4, <1>5, <1>6, <1>7, <1>8, <1>9, <1>10 DEF ListFails, JobsFail

\* Where no goroutine, time or ledger changes, nothing is disturbed.
LEMMA QuietKeeps ==
    ASSUME PersistenceInv, UNCHANGED <<reader, ledger, cache, told>>
    PROVE  PersistenceInv'
  BY DEF PersistenceInv, ReaderType, LedgerInv, ToldInv, CacheInv, Owes

\* Who is answered from the cache is told what a call of the same process was told.
LEMMA EchoKeeps ==
    ASSUME PersistenceInv, NEW k \in DOMAIN cache, NEW call, UNCHANGED <<reader, ledger, cache>>,
           told' = told \cup Telling(cache[k], k, call)
    PROVE  PersistenceInv'
<1>1. CASE told' = told
  BY <1>1, QuietKeeps
<1>2. CASE told' # told
  <2>1. PICK t \in told : /\ t.source = cache[k].source /\ t.first = cache[k].first
                          /\ t.new = cache[k].new /\ t.key = k
    BY <1>2 DEF PersistenceInv, CacheInv, Telling
  <2> DEFINE u == [source |-> cache[k].source, first |-> cache[k].first,
                   new |-> cache[k].new, key |-> k, call |-> call]
  <2>2. /\ told' = told \cup {u}
        /\ u.source = t.source /\ u.first = t.first /\ u.new = t.new /\ u.key = t.key
    BY <1>2, <2>1 DEF Telling
  <2> HIDE DEF u
  <2>3. ReaderType' /\ LedgerInv'
    BY DEF PersistenceInv, ReaderType, LedgerInv
  <2>4. ToldInv'
    BY <2>2 DEF PersistenceInv, ToldInv, Owes
  <2>5. CacheInv'
    BY <2>2 DEF PersistenceInv, CacheInv
  <2> QED
    BY <2>3, <2>4, <2>5 DEF PersistenceInv
<1> QED
  BY <1>1, <1>2

LEMMA AskKeeps ==
    ASSUME PersistenceInv, NEW r \in Reader, NEW p \in Pid, Ask(r, p)
    PROVE  PersistenceInv'
<1>1. CASE KeyOf(p) \in DOMAIN cache
  BY <1>1, EchoKeeps DEF Ask
<1>2. CASE KeyOf(p) \notin DOMAIN cache
  <2> DEFINE s == [Idle EXCEPT !.pc = "asked", !.key = KeyOf(p), !.call = calls']
  <2>1. To(r, s) /\ UNCHANGED <<ledger, cache, told>>
    BY <1>2 DEF Ask
  <2>2. DOMAIN s = DOMAIN Idle /\ s.pc = "asked"
    BY DEF Idle
  <2> HIDE DEF s
  <2> QED
    BY <2>1, <2>2, Aside
<1> QED
  BY <1>1, <1>2

\* The mutex is free, so the goroutine that takes it is alone with the ledger it reads.
LEMMA LoadKeeps ==
    ASSUME PersistenceInv, NEW r \in Reader, Load(r)
    PROVE  PersistenceInv'
<1> DEFINE s == [reader[r] EXCEPT !.pc = "loaded", !.seen = ledger]
<1>1. To(r, s) /\ UNCHANGED <<ledger, cache, told>> /\ \A q \in Reader : reader[q].pc # "loaded"
  BY DEF Load, Holds
<1>2. DOMAIN s = DOMAIN Idle /\ s.pc = "loaded" /\ s.seen = ledger
  BY DEF PersistenceInv, ReaderType, Idle
<1> HIDE DEF s
<1>3. /\ ReaderType' /\ reader'[r] = s
      /\ \A q \in Reader \ {r} : reader'[q] = reader[q]
  BY <1>1, <1>2, ToOne DEF PersistenceInv
<1>4. LedgerInv'
  BY <1>1, <1>2, <1>3 DEF PersistenceInv, LedgerInv
<1>5. ToldInv'
  <2>1. \A q \in Reader : Owes(q)' => Owes(q) /\ reader'[q] = reader[q]
    BY <1>2, <1>3 DEF Owes
  <2> QED
    BY <1>1, <2>1 DEF PersistenceInv, ToldInv
<1>6. CacheInv'
  BY <1>1 DEF PersistenceInv, CacheInv
<1> QED
  BY <1>3, <1>4, <1>5, <1>6 DEF PersistenceInv

\* A source that is known is told with the time in the ledger.
LEMMA KnownKeeps ==
    ASSUME PersistenceInv, NEW r \in Reader, Known(r)
    PROVE  PersistenceInv'
<1> DEFINE answer == [source |-> reader[r].found, first |-> reader[r].seen[reader[r].found],
                      new |-> "known"]
<1>1. Answered(r, answer) /\ UNCHANGED ledger
  BY DEF Known, Attributed
<1>2. reader[r].found \in DOMAIN ledger /\ reader[r].seen[reader[r].found] = ledger[reader[r].found]
  BY DEF Known, PersistenceInv, LedgerInv
<1>3. \A t \in Telling(answer, reader[r].key, reader[r].call) :
         t.source \in DOMAIN ledger /\ ledger[t.source] = t.first /\ t.new # "new"
  BY <1>2 DEF Telling
<1> HIDE DEF answer
<1> QED
  BY <1>1, <1>3, AnsweredKeeps

\* What the mutex's holder saves is the ledger and the source it lacked: nobody was told
\* of that source, and nobody else is about to tell of it.
LEMMA SaveKeeps ==
    ASSUME PersistenceInv, NEW r \in Reader, Save(r)
    PROVE  PersistenceInv'
<1> DEFINE found == reader[r].found
           s     == [reader[r] EXCEPT !.pc = "saved", !.seen = <<>>, !.first = now]
<1>1. reader[r].pc = "loaded" /\ reader[r].seen = ledger /\ found \notin DOMAIN ledger
  BY DEF Save, PersistenceInv, LedgerInv
<1>2. /\ ledger' = [x \in DOMAIN ledger \cup {found} |-> IF x = found THEN now ELSE ledger[x]]
      /\ To(r, s) /\ UNCHANGED <<cache, told>>
  BY <1>1 DEF Save
<1>3. /\ ledger'[found] = now /\ DOMAIN ledger' = DOMAIN ledger \cup {found}
      /\ \A x \in DOMAIN ledger : ledger'[x] = ledger[x]
  BY <1>1, <1>2
<1>4. DOMAIN s = DOMAIN Idle /\ s.pc = "saved" /\ s.found = found /\ s.first = now
  BY DEF PersistenceInv, ReaderType, Idle
<1>5. /\ ReaderType' /\ reader'[r] = s
      /\ \A q \in Reader \ {r} : reader'[q] = reader[q]
  <2> HIDE DEF s
  <2> QED
    BY <1>2, <1>4, ToOne DEF PersistenceInv
<1>6. \A q \in Reader \ {r} : reader'[q].pc # "loaded"
  BY <1>1, <1>5 DEF PersistenceInv, LedgerInv
<1> HIDE DEF found, s
<1>7. LedgerInv'
  <2>1. ledger' = [x \in DOMAIN ledger' |-> ledger'[x]]
    BY <1>2
  <2> QED
    BY <1>4, <1>5, <1>6, <2>1 DEF PersistenceInv, LedgerInv
<1>8. ToldInv'
  <2>1. \A t \in told : t.source \in DOMAIN ledger' /\ ledger'[t.source] = t.first
                        /\ t.source # found
    BY <1>1, <1>3 DEF PersistenceInv, ToldInv
  <2>2. \A q \in Reader \ {r} : Owes(q)' =>
           Owes(q) /\ reader'[q] = reader[q] /\ reader[q].found # found
    BY <1>1, <1>5 DEF PersistenceInv, ToldInv, Owes
  <2>3. \A a, b \in told' :
           a.source = b.source /\ a.new = "new" /\ b.new = "new" => a.key = b.key
    BY <1>2 DEF PersistenceInv, ToldInv
  <2>4. ASSUME NEW q \in Reader, Owes(q)'
        PROVE  /\ reader'[q].found \in DOMAIN ledger'
               /\ ledger'[reader'[q].found] = reader'[q].first
               /\ \A t \in told' : t.source = reader'[q].found => t.new # "new"
               /\ \A p \in Reader : Owes(p)' /\ reader'[p].found = reader'[q].found => p = q
    <3>1. CASE q = r
      BY <1>2, <1>3, <1>4, <1>5, <2>1, <2>2, <3>1
    <3>2. CASE q # r
      <4>1. Owes(q) /\ reader'[q] = reader[q] /\ reader[q].found # found
        BY <2>2, <2>4, <3>2
      <4>2. \A p \in Reader : Owes(p)' /\ reader'[p].found = reader'[q].found => p = q
        BY <1>4, <1>5, <2>2, <4>1 DEF PersistenceInv, ToldInv
      <4> QED
        BY <1>2, <1>3, <4>1, <4>2 DEF PersistenceInv, ToldInv
    <3> QED
      BY <3>1, <3>2
  <2> QED
    BY <1>2, <2>1, <2>3, <2>4 DEF ToldInv
<1>9. CacheInv'
  BY <1>2 DEF PersistenceInv, CacheInv
<1> QED
  BY <1>5, <1>7, <1>8, <1>9 DEF PersistenceInv

\* Who put a source into the ledger tells that it is new, and only once.
LEMMA SavedKeeps ==
    ASSUME PersistenceInv, NEW r \in Reader, Saved(r)
    PROVE  PersistenceInv'
<1> DEFINE answer == [source |-> reader[r].found, first |-> reader[r].first, new |-> "new"]
<1>1. Answered(r, answer) /\ UNCHANGED ledger /\ Owes(r)
  BY DEF Saved, Attributed, Owes
<1>2. \A t \in Telling(answer, reader[r].key, reader[r].call) :
         t.source = reader[r].found /\ t.first = reader[r].first
  BY DEF Telling
<1> HIDE DEF answer
<1>3. \A t \in Telling(answer, reader[r].key, reader[r].call) :
         /\ t.source \in DOMAIN ledger /\ ledger[t.source] = t.first
         /\ \A u \in told : u.source = t.source => u.new # "new"
         /\ \A q \in Reader \ {r} : Owes(q) => reader[q].found # t.source
  BY <1>1, <1>2 DEF PersistenceInv, ToldInv
<1> QED
  BY <1>1, <1>3, AnsweredKeeps

\* Killing the daemon loses what its goroutines knew, not what they told or wrote.
LEMMA KillKeeps ==
    ASSUME PersistenceInv, KillDaemon
    PROVE  PersistenceInv'
<1>1. /\ reader' = [r \in Reader |-> Idle] /\ UNCHANGED <<ledger, told>> /\ Idle.pc = "idle"
      /\ cache' = [k \in {} |-> None]
  BY DEF KillDaemon, Idle
<1>2. ReaderType'
  BY <1>1 DEF ReaderType
<1>3. LedgerInv'
  BY <1>1 DEF PersistenceInv, LedgerInv
<1>4. ToldInv'
  BY <1>1 DEF PersistenceInv, ToldInv, Owes
<1>5. CacheInv'
  BY <1>1 DEF CacheInv
<1> QED
  BY <1>2, <1>3, <1>4, <1>5 DEF PersistenceInv

LEMMA StepKeeps == PersistenceInv /\ [Next]_vars => PersistenceInv'
<1> SUFFICES ASSUME PersistenceInv, [Next]_vars PROVE PersistenceInv'
  OBVIOUS
<1>1. CASE UNCHANGED vars
  BY <1>1, QuietKeeps DEF vars
<1>2. CASE Tick
  BY <1>2, QuietKeeps DEF Tick
<1>3. CASE KillDaemon
  BY <1>3, KillKeeps
<1>4. CASE \E p \in Pid : Spawn(p) \/ Exit(p)
  BY <1>4, QuietKeeps DEF Spawn, Exit
<1>5. CASE \E r \in Reader, p \in Pid : Ask(r, p)
  BY <1>5, AskKeeps
<1>6. ASSUME NEW r \in Reader, Step(r) PROVE PersistenceInv'
  <2>1. CASE LedgerFails(r)
    BY <2>1, ErrorKeeps DEF LedgerFails
  <2> QED
    BY <1>6, <2>1, LookingKeeps, LoadKeeps, KnownKeeps, SaveKeeps, SavedKeeps DEF Step
<1> QED
  BY <1>1, <1>2, <1>3, <1>4, <1>5, <1>6 DEF Next

-----------------------------------------------------------------------------
(* Whoever asks of a source, in whatever order the goroutines look it up,  *)
(* and whenever the daemon is killed, is told one first sight; that it is  *)
(* new, only calls of the process for which it was recorded, or of a later *)
(* one with its number, parent and path (recordFirstSeen under storeMu,    *)
(* attributePersistence).                                                  *)
THEOREM FirstSightProved == Spec => []FirstSightIsUnique
<1>1. PersistenceInv => FirstSightIsUnique
  BY DEF PersistenceInv, ToldInv, FirstSightIsUnique
<1> QED
  BY <1>1, InitInv, StepKeeps, PTL DEF Spec
=============================================================================
