--------------------------- MODULE UserStoresProofs ---------------------------
(***************************************************************************)
(* The user's stores, for any number of goroutines, commands, binaries and *)
(* hosts.                                                                  *)
(*                                                                         *)
(* Two who are in an operation on one store have met (Alone).  Who has met *)
(* nobody is undisturbed: what it read is still there when it renames, and *)
(* what it renames is what it wrote (UnmetInv).  Who has met another on a  *)
(* store with a shared temporary name finds, in the store, in the tempor-  *)
(* ary file and in what it is about to write, only what is exposed, so     *)
(* nothing else can get lost (MetInv).  The catalog and the allowlist are  *)
(* only added to (Doable), so the memory of the daemon stays below them    *)
(* and what is exposed; and an approval takes off the queue only what it   *)
(* has pinned (ReviewInv).                                                 *)
(***************************************************************************)
EXTENDS UserStores, TLAPS

\* The operations the calls consist of.
Doable == {o \in Op : /\ o.store \in Live => o.kind = "add"
                      /\ o.store = "queue" /\ o.kind = "drop" => o = Resolve(o.key)}
Before == {"present", "loaded", "opened", "written"}

TypeInv ==
    /\ file \in [Store -> Content]
    /\ \A s \in Store \ SharedTmp : file[s] \subseteq Elem
    /\ tmp \in [SharedTmp -> Content \cup {None}]
    /\ live \in [Live -> SUBSET Elem]
    /\ exposed \in [SharedTmp -> SUBSET Elem] /\ met \subseteq Actor
    /\ DOMAIN pc = Actor /\ DOMAIN op = Actor /\ DOMAIN handle = Actor /\ DOMAIN new = Actor
    /\ todo \in [Actor -> SUBSET Doable]
    /\ listed \in [Actor -> SUBSET Key]

Alone ==
    /\ \A a \in met : pc[a] # "idle"
    /\ \A a, b \in Actor :
          a # b /\ pc[a] # "idle" /\ pc[b] # "idle" /\ op[a].store = op[b].store => a \in met

\* What an actor in an operation may count on: always,
OpInv(a) ==
    /\ pc[a] # "idle" => op[a] \in Doable
    /\ pc[a] \in Before => new[a] \subseteq Elem
    /\ pc[a] = "present" => op[a].store = "catalog"
    /\ pc[a] = "opened" /\ op[a].store \in SharedTmp /\ handle[a] = "tmp" => tmp[op[a].store] # None
    /\ pc[a] \in {"opened", "written"} /\ op[a].store \notin SharedTmp => handle[a] = "tmp"

\* alone,
UnmetInv(a) ==
    pc[a] # "idle" /\ a \notin met =>
        /\ pc[a] \in Before => /\ new[a] = Atomic!After(op[a], file[op[a].store])
                               /\ file[op[a].store] \subseteq Elem
        /\ pc[a] = "present" => new[a] = file[op[a].store]
        /\ pc[a] \in {"opened", "written"} => handle[a] = "tmp"
        /\ pc[a] = "opened" /\ op[a].store \in SharedTmp => tmp[op[a].store] = {}
        /\ pc[a] = "written" /\ op[a].store \in SharedTmp => tmp[op[a].store] = new[a]
        /\ pc[a] = "installed" /\ op[a].store \in SharedTmp => Elems(op[a]) \subseteq file[op[a].store]

\* and in company.
MetInv(a) ==
    pc[a] # "idle" /\ a \in met /\ op[a].store \in SharedTmp =>
        /\ (file[op[a].store] \cap Elem) \subseteq exposed[op[a].store]
        /\ Elems(op[a]) \subseteq exposed[op[a].store]
        /\ pc[a] \in Before => new[a] \subseteq exposed[op[a].store]
        /\ pc[a] \in {"opened", "written"} /\ tmp[op[a].store] # None
               => (tmp[op[a].store] \cap Elem) \subseteq exposed[op[a].store]

ActorInv(a) == OpInv(a) /\ UnmetInv(a) /\ MetInv(a)

LiveInv == \A s \in Live : live[s] \subseteq file[s] \cup exposed[s]

StoresInv == TypeInv /\ Alone /\ (\A a \in Actor : ActorInv(a)) /\ LiveInv

Pending(a, o) == o \in todo[a] \/ (pc[a] # "idle" /\ op[a] = o)

\* What is neither on the queue nor lost without a meeting.
Kept == file["catalog"] \cup answered \cup exposed["queue"] \cup exposed["catalog"]

\* What an approval has listed it will resolve, after it has pinned it.
ReviewInv ==
    /\ ReviewKeepsHosts
    /\ recorded \subseteq Elem
    /\ \A a \in Goroutine : listed[a] = {}
    /\ \A a \in Actor : pc[a] # "idle" /\ op[a].kind = "drop" =>
           ~\E o \in todo[a] : o.kind = "add" /\ o.key = op[a].key
    /\ \A a \in Actor : \A k \in listed[a] :
           /\ Pending(a, Resolve(k))
           /\ \A h \in Host : <<k, h>> \in recorded \cap file["queue"] =>
                 <<k, h>> \in Kept \/ Pending(a, Add("catalog", k, {h}))

-----------------------------------------------------------------------------
\* What an operation makes of a content is a content; an addition loses nothing.
LEMMA AfterOp ==
    ASSUME NEW o \in Op, NEW c \in SUBSET Elem
    PROVE  /\ Atomic!After(o, c) \in SUBSET Elem
           /\ o.kind = "add" => Atomic!After(o, c) = c \cup Elems(o)
           /\ o.kind = "drop" => Atomic!After(o, c) = c \ ({o.key} \X o.hosts)
           /\ Atomic!After(o, c) \subseteq c \cup Elems(o)
           /\ Elems(o) \subseteq Elem /\ Elems(o) \subseteq Atomic!After(o, c)
  BY DEF Op, Elem, Elems, Atomic!After

\* What is torn has no item; what is not is a set of items.
LEMMA Contents ==
    ASSUME NEW c \in Content
    PROVE  /\ c # Torn => c \subseteq Elem
           /\ Torn \cap Elem = {} /\ (c \cap Elem) \in SUBSET Elem
  BY StoresAssumption DEF Content, Torn

LEMMA OverContents ==
    ASSUME NEW c \in Content, NEW d \in SUBSET Elem, NEW x \in Over(c, d)
    PROVE  /\ x \in Content /\ x # None
           /\ (x \cap Elem) \subseteq (c \cap Elem) \cup d
           /\ c = {} => x = d
  BY StoresAssumption, Contents DEF Over, Content, Torn

LEMMA Calls ==
    ASSUME TypeInv
    PROVE  /\ DaemonCalls \cup CommandCalls \cup {Approve} \subseteq SUBSET Doable
           /\ Listed \subseteq Key
<1>1. \A e \in Queued \cup file["rejected"] \cup Found : e \in Elem /\ e[1] \in Key /\ e[2] \in Host
  BY StoresAssumption DEF TypeInv, Store, SharedTmp, Elem, Queued
<1>2. \A s \in Store, k \in Key, hs \in SUBSET Host : Add(s, k, hs) \in Doable
  BY DEF Add, Doable, Op, Live
<1>3. \A s \in Store \ (Live \cup {"queue"}), k \in Key, hs \in SUBSET Host : Drop(s, k, hs) \in Doable
  BY DEF Drop, Doable, Op
<1>4. \A k \in Key : Resolve(k) \in Doable
  BY DEF Resolve, Drop, Doable, Op, Live, Store
<1>5. Listed \subseteq Key
  BY <1>1 DEF Listed
<1>6. \A s \in Store, e \in Elem : {Add(s, e[1], {e[2]})} \in SUBSET Doable
  BY <1>2 DEF Elem
<1>7. Record \cup Ratify \cup Always \cup Exempt \cup Reject \subseteq SUBSET Doable
  <2>1. \A e \in Elem :
           /\ {Add("queue", e[1], {e[2]})} \in SUBSET Doable
           /\ {Add("catalog", e[1], {e[2]})} \in SUBSET Doable
           /\ {Add("allowlist", e[1], {e[2]})} \in SUBSET Doable
           /\ {Add("exempt", e[1], {e[2]})} \in SUBSET Doable
           /\ {Add("rejected", e[1], {e[2]})} \in SUBSET Doable
    BY <1>6 DEF Store
  <2> QED
    BY <2>1 DEF Record, Ratify, Always, Exempt, Reject
<1>8. Unexempt \cup Dismiss \cup Restore \subseteq SUBSET Doable
  <2>1. \A k \in Key : {Drop("exempt", k, Host)} \in SUBSET Doable
    BY <1>3 DEF Store, Live
  <2>2. \A k \in Listed : {Resolve(k)} \in SUBSET Doable
    BY <1>4, <1>5
  <2>3. \A e \in file["rejected"] : {Drop("rejected", e[1], {e[2]})} \in SUBSET Doable
    BY <1>1, <1>3 DEF Store, Live
  <2> QED
    BY <2>1, <2>2, <2>3 DEF Unexempt, Dismiss, Restore
<1>9. \A k \in Key, hs \in SUBSET Host : {Add("allowlist", k, hs)} \in SUBSET Doable
  BY <1>2 DEF Store
<1>10. Allow \subseteq SUBSET Doable
  BY <1>9 DEF Allow
<1>11. \A e \in Queued \cup Found : Add("catalog", e[1], {e[2]}) \in Doable
  BY <1>1, <1>2 DEF Store
<1>12. Enroll \subseteq SUBSET Doable
  BY <1>11 DEF Enroll
<1>13. Approve \subseteq Doable
  BY <1>4, <1>5, <1>11 DEF Approve
<1> QED
  BY <1>5, <1>7, <1>8, <1>10, <1>12, <1>13 DEF DaemonCalls, CommandCalls, Review

-----------------------------------------------------------------------------
\* A step of one actor in an operation leaves the others where they are, and their stores; of
\* its own store it lets those it has met see only what is exposed.
Others(a) ==
    \A b \in Actor \ {a} :
        /\ pc'[b] = pc[b] /\ op'[b] = op[b] /\ new'[b] = new[b] /\ (b \in met' <=> b \in met)
        /\ \/ handle'[b] = handle[b]
           \/ /\ pc[b] # "idle" /\ op[b].store = op[a].store /\ op[b].store \in SharedTmp
              /\ handle'[b] # "tmp"

Elsewhere(a) ==
    /\ \A s \in Store \ {op[a].store} : file'[s] = file[s]
    /\ \A s \in SharedTmp \ {op[a].store} : tmp'[s] = tmp[s] /\ exposed'[s] = exposed[s]

Exposes(a) ==
    LET s == op[a].store IN
    /\ \/ tmp'[s] # None
       \/ tmp'[s] = tmp[s]
       \/ \A b \in Actor \ {a} : pc[b] # "idle" /\ op[b].store = s => handle'[b] # "tmp"
    /\ a \in met =>
          /\ exposed'[s] = exposed[s] /\ (file'[s] \cap Elem) \subseteq exposed[s]
          /\ \/ tmp'[s] \in {tmp[s], None}
             \/ (tmp'[s] \cap Elem) \subseteq exposed[s]

LEMMA OthersKeep ==
    ASSUME StoresInv, NEW a \in Actor, NEW b \in Actor \ {a}, pc[a] # "idle",
           Others(a), Elsewhere(a), op[a].store \in SharedTmp => Exposes(a)
    PROVE  ActorInv(b)'
<1>1. /\ pc'[b] = pc[b] /\ op'[b] = op[b] /\ new'[b] = new[b] /\ (b \in met' <=> b \in met)
      /\ ActorInv(b)
  BY DEF Others, StoresInv
<1>2. CASE pc[b] = "idle"
  BY <1>1, <1>2 DEF ActorInv, OpInv, UnmetInv, MetInv, Before
<1>3. CASE pc[b] # "idle" /\ op[b].store = op[a].store
  <2>1. b \in met /\ a \in met
    BY <1>3 DEF StoresInv, Alone
  <2>2. UnmetInv(b)'
    BY <1>1, <2>1 DEF UnmetInv
  <2>3. OpInv(b)'
    BY <1>1, <1>3 DEF ActorInv, OpInv, Others, Exposes
  <2>4. MetInv(b)'
    BY <1>1, <1>3, <2>1 DEF ActorInv, MetInv, Exposes
  <2> QED
    BY <2>2, <2>3, <2>4 DEF ActorInv
<1>4. CASE pc[b] # "idle" /\ op[b].store # op[a].store
  <2>1. op[b] \in Op
    BY <1>1, <1>4 DEF ActorInv, OpInv, Doable
  <2>2. op[b].store \in Store
    BY <2>1 DEF Op
  <2>3. file'[op[b].store] = file[op[b].store]
    BY <2>2, <1>4 DEF Elsewhere
  <2>4. op[b].store \in SharedTmp => /\ tmp'[op[b].store] = tmp[op[b].store]
                                     /\ exposed'[op[b].store] = exposed[op[b].store]
    BY <1>4 DEF Elsewhere
  <2>5. handle'[b] = handle[b]
    BY <1>4 DEF Others
  <2> QED
    BY <1>1, <2>3, <2>4, <2>5 DEF ActorInv, OpInv, UnmetInv, MetInv
<1> QED
  BY <1>2, <1>3, <1>4

\* The actors who stay in an operation stay alone with their stores.
LEMMA AloneKeeps ==
    ASSUME Alone, \A b \in met' : b \in met /\ pc'[b] # "idle",
           \A b \in Actor : pc'[b] # "idle" => /\ pc[b] # "idle" /\ op'[b] = op[b]
                                              /\ (b \in met => b \in met')
    PROVE  Alone'
  BY DEF Alone

-----------------------------------------------------------------------------
LEMMA InitStores == Init => StoresInv
  BY StoresAssumption DEF Init, StoresInv, TypeInv, Alone, ActorInv, OpInv, UnmetInv, MetInv, Before,
     LiveInv, Store, Live, SharedTmp, Content

LEMMA CallKeeps ==
    ASSUME StoresInv, NEW a \in Actor, NEW os \in SUBSET Doable, Call(a, os),
           listed' \in [Actor -> SUBSET Key]
    PROVE  StoresInv'
<1>1. /\ UNCHANGED <<file, tmp, live, op, pc, new, handle, met, exposed>>
      /\ todo' \in [Actor -> SUBSET Doable]
  BY DEF Call, StoresInv, TypeInv, history
<1>2. TypeInv' /\ Alone' /\ LiveInv'
  BY <1>1 DEF StoresInv, TypeInv, Alone, LiveInv
<1>3. \A b \in Actor : ActorInv(b)'
  BY <1>1 DEF StoresInv, ActorInv, OpInv, UnmetInv, MetInv
<1> QED
  BY <1>2, <1>3 DEF StoresInv

\* What a meeting exposes.
LEMMA MeetingExposes ==
    ASSUME StoresInv, NEW a \in Actor, NEW o \in todo[a], Load(a, o)
    PROVE  /\ met' \subseteq Actor /\ exposed' \in [SharedTmp -> SUBSET Elem]
           /\ \A b \in Actor : b \in met => b \in met'
           /\ \A b \in Using(o.store) : b \in met' /\ a \in met'
           /\ \A b \in Actor \ {a} : b \notin Using(o.store) => (b \in met' <=> b \in met)
           /\ \A s \in SharedTmp : exposed[s] \subseteq exposed'[s]
           /\ \A s \in SharedTmp : s # o.store \/ Using(s) = {} => exposed'[s] = exposed[s]
           /\ o.store \in SharedTmp /\ Using(o.store) # {} =>
                 /\ (file[o.store] \cap Elem) \cup Elems(o) \subseteq exposed'[o.store]
                 /\ \A b \in Using(o.store) : Elems(op[b]) \subseteq exposed'[o.store]
           /\ a \in met' => Using(o.store) # {}
<1>1. /\ TypeInv /\ o \in Op /\ pc[a] = "idle" /\ Free(a, o.store)
      /\ \A b \in Using(o.store) : b \in Actor /\ op[b] \in Op
  BY DEF StoresInv, TypeInv, Doable, Load, Using, ActorInv, OpInv
<1>2. Meets(a, o.store) = Using(o.store)
  BY <1>1 DEF Meets, Free, Using
<1>3. /\ met' = met \cup Using(o.store) \cup (IF Using(o.store) = {} THEN {} ELSE {a})
      /\ exposed' = IF Using(o.store) = {} \/ o.store \notin SharedTmp THEN exposed
                    ELSE [exposed EXCEPT ![o.store] = @ \cup (file[o.store] \cap Elem) \cup Elems(o)
                             \cup UNION {Elems(op[b]) : b \in Using(o.store)}]
  BY <1>2 DEF Load, Meeting
<1>4. Elems(o) \subseteq Elem /\ \A b \in Using(o.store) : Elems(op[b]) \subseteq Elem
  BY <1>1 DEF Op, Elem, Elems
<1>5. exposed' \in [SharedTmp -> SUBSET Elem]
  BY <1>1, <1>3, <1>4 DEF TypeInv
<1>6. \A s \in SharedTmp : exposed[s] \subseteq exposed'[s]
  BY <1>1, <1>3 DEF TypeInv
<1>7. o.store \in SharedTmp /\ Using(o.store) # {} =>
         /\ (file[o.store] \cap Elem) \cup Elems(o) \subseteq exposed'[o.store]
         /\ \A b \in Using(o.store) : Elems(op[b]) \subseteq exposed'[o.store]
  BY <1>1, <1>3 DEF TypeInv
<1> QED
  BY <1>1, <1>3, <1>5, <1>6, <1>7 DEF TypeInv, Using, StoresInv, Alone

LEMMA LoadKeeps ==
    ASSUME StoresInv, NEW a \in Actor, NEW o \in todo[a], Load(a, o)
    PROVE  StoresInv'
<1>1. /\ TypeInv /\ o \in Doable /\ o \in Op /\ o.store \in Store /\ file[o.store] \in Content
      /\ pc[a] = "idle" /\ UNCHANGED <<file, tmp, live, listed, handle>>
  BY DEF StoresInv, TypeInv, Doable, Op, Load
<1>2. /\ op'[a] = o /\ new'[a] = Atomic!After(o, file[o.store])
      /\ pc'[a] \in {"present", "failed", "loaded"} /\ (pc'[a] = "present" => Satisfied(o))
      /\ pc'[a] # "failed" => file[o.store] # Torn
      /\ \A b \in Actor \ {a} : pc'[b] = pc[b] /\ op'[b] = op[b] /\ new'[b] = new[b]
  BY <1>1 DEF Load, TypeInv
<1>3. pc'[a] # "failed" => file[o.store] \in SUBSET Elem
  BY <1>1, <1>2, Contents
<1>4. pc'[a] # "failed" => new'[a] \subseteq Elem /\ new'[a] \subseteq file[o.store] \cup Elems(o)
  BY <1>1, <1>2, <1>3, AfterOp
<1>5. TypeInv'
  BY <1>1, MeetingExposes DEF Load, TypeInv
<1>6. ActorInv(a)'
  <2>1. OpInv(a)'
    BY <1>1, <1>2, <1>4 DEF OpInv, Satisfied, Before
  <2>2. UnmetInv(a)'
    BY <1>1, <1>2, <1>3 DEF UnmetInv, Satisfied, Before
  <2>3. MetInv(a)'
    BY <1>1, <1>2, <1>4, MeetingExposes DEF MetInv, Before
  <2> QED
    BY <2>1, <2>2, <2>3 DEF ActorInv
\* Those it meets have shown what they hold.
<1>7. ASSUME NEW b \in Actor, b \in Using(o.store) PROVE ActorInv(b)'
  <2>1. b # a /\ pc[b] # "idle" /\ op[b].store = o.store /\ b \in met' /\ ActorInv(b)
    BY <1>1, <1>7, MeetingExposes DEF Using, StoresInv
  <2>2. pc'[b] = pc[b] /\ op'[b] = op[b] /\ new'[b] = new[b]
    BY <1>2, <2>1
  <2>3. OpInv(b)' /\ UnmetInv(b)'
    BY <1>1, <2>1, <2>2 DEF ActorInv, OpInv, UnmetInv
  <2>4. MetInv(b)'
    <3> SUFFICES ASSUME o.store \in SharedTmp PROVE MetInv(b)'
      BY <2>1, <2>2 DEF MetInv
    <3>1. /\ (file[o.store] \cap Elem) \cup Elems(op[b]) \subseteq exposed'[o.store]
          /\ exposed[o.store] \subseteq exposed'[o.store]
      BY <1>7, MeetingExposes
    <3>2. op[b] \in Op
      BY <2>1 DEF ActorInv, OpInv, Doable
    <3>3. CASE b \in met
      BY <1>1, <2>1, <2>2, <3>1, <3>3 DEF ActorInv, MetInv
    <3>4. CASE b \notin met
      <4>1. pc[b] \in Before => new[b] \subseteq exposed'[o.store]
        BY <2>1, <3>1, <3>2, <3>4, AfterOp DEF ActorInv, UnmetInv
      <4>2. pc[b] \in {"opened", "written"} => (tmp[o.store] \cap Elem) \subseteq exposed'[o.store]
        BY <2>1, <3>4, <4>1 DEF ActorInv, UnmetInv, Before
      <4> QED
        BY <1>1, <2>1, <2>2, <3>1, <4>1, <4>2 DEF MetInv
    <3> QED
      BY <3>3, <3>4
  <2> QED
    BY <2>3, <2>4 DEF ActorInv
<1>8. ASSUME NEW b \in Actor \ {a}, b \notin Using(o.store) PROVE ActorInv(b)'
  <2>1. /\ pc'[b] = pc[b] /\ op'[b] = op[b] /\ new'[b] = new[b] /\ ActorInv(b)
        /\ (b \in met' <=> b \in met) /\ (pc[b] = "idle" \/ op[b].store # o.store)
    BY <1>2, <1>8, MeetingExposes DEF Using, StoresInv
  <2>2. \A s \in SharedTmp : s # o.store => exposed'[s] = exposed[s]
    BY MeetingExposes
  <2> QED
    BY <1>1, <2>1, <2>2 DEF ActorInv, OpInv, UnmetInv, MetInv, Before
<1>9. Alone'
  <2>1. \A b \in met' : pc'[b] # "idle"
    BY <1>1, <1>2, MeetingExposes DEF StoresInv, Alone, TypeInv, Using
  <2>2. ASSUME NEW b \in Actor, NEW c \in Actor, b # c, pc'[b] # "idle", pc'[c] # "idle",
               op'[b].store = op'[c].store
        PROVE  b \in met'
    <3>1. CASE b = a \/ c = a
      BY <1>2, <2>2, <3>1, MeetingExposes DEF Using
    <3>2. CASE b # a /\ c # a
      BY <1>2, <2>2, <3>2, MeetingExposes DEF StoresInv, Alone
    <3> QED
      BY <3>1, <3>2
  <2> QED
    BY <2>1, <2>2 DEF Alone
<1>10. LiveInv'
  BY <1>1, MeetingExposes DEF StoresInv, LiveInv, Live, SharedTmp
<1> QED
  BY <1>5, <1>6, <1>7, <1>8, <1>9, <1>10 DEF StoresInv

-----------------------------------------------------------------------------
\* What holds of who is in an operation.
LEMMA InOperation ==
    ASSUME StoresInv, NEW a \in Actor, pc[a] # "idle"
    PROVE  /\ TypeInv /\ OpInv(a) /\ UnmetInv(a) /\ MetInv(a)
           /\ op[a] \in Doable /\ op[a] \in Op /\ op[a].store \in Store
           /\ file[op[a].store] \in Content
           /\ op[a].store \in SharedTmp => /\ tmp[op[a].store] \in Content \cup {None}
                                           /\ exposed[op[a].store] \in SUBSET Elem
           /\ op[a].store \notin SharedTmp => file[op[a].store] \subseteq Elem
  BY DEF StoresInv, ActorInv, OpInv, Doable, Op, TypeInv

\* The steps that only prepare.
LEMMA SkipKeeps ==
    ASSUME StoresInv, NEW a \in Actor, Skip(a)
    PROVE  StoresInv' /\ UNCHANGED <<file, op, new>>
<1>1. pc[a] = "present" /\ UNCHANGED <<file, tmp, live, todo, listed, op, new, handle, met, exposed>>
  BY DEF Skip, history
<1>2. TypeInv /\ OpInv(a) /\ UnmetInv(a) /\ MetInv(a) /\ op[a] \in Op /\ op[a].store = "catalog"
  BY <1>1, InOperation DEF OpInv
<1>3. pc'[a] = "installed" /\ Others(a) /\ Elsewhere(a)
  BY <1>1, <1>2 DEF Skip, TypeInv, Others, Elsewhere
<1>4. a \notin met => Elems(op[a]) \subseteq file["catalog"]
  BY <1>1, <1>2, AfterOp DEF UnmetInv, Before
<1>5. ActorInv(a)'
  <2>1. OpInv(a)' /\ UnmetInv(a)'
    BY <1>1, <1>2, <1>3, <1>4 DEF OpInv, UnmetInv, Before
  <2>2. MetInv(a)'
    BY <1>1, <1>2, <1>3 DEF MetInv, Before
  <2> QED
    BY <2>1, <2>2 DEF ActorInv
<1>6. Exposes(a)
  BY <1>1, <1>2 DEF Exposes, MetInv, SharedTmp
<1>7. Alone'
  BY <1>1, <1>3, AloneKeeps DEF StoresInv, Alone, Others, TypeInv
<1>8. TypeInv' /\ LiveInv'
  BY <1>1, <1>2 DEF TypeInv, StoresInv, LiveInv, Skip
<1> QED
  BY <1>1, <1>3, <1>5, <1>6, <1>7, <1>8, OthersKeep DEF StoresInv

LEMMA OpenKeeps ==
    ASSUME StoresInv, NEW a \in Actor, Open(a)
    PROVE  StoresInv'
<1>1. pc[a] = "loaded" /\ UNCHANGED <<file, live, todo, listed, op, new, met, exposed>>
  BY DEF Open, history
<1>2. TypeInv /\ OpInv(a) /\ UnmetInv(a) /\ MetInv(a) /\ op[a] \in Op
  BY <1>1, InOperation
<1>3. /\ pc'[a] = "opened" /\ handle'[a] = "tmp" /\ Others(a) /\ Elsewhere(a)
      /\ op[a].store \in SharedTmp => tmp'[op[a].store] = {}
      /\ {} # None
  BY <1>1, <1>2, StoresAssumption DEF Open, Fixed, TypeInv, Others, Elsewhere, Content
<1>4. ActorInv(a)'
  BY <1>1, <1>2, <1>3 DEF ActorInv, OpInv, UnmetInv, MetInv, Before
<1>5. op[a].store \in SharedTmp => Exposes(a)
  BY <1>1, <1>2, <1>3 DEF Exposes, MetInv
<1>6. Alone'
  BY <1>1, <1>3, AloneKeeps DEF StoresInv, Alone, Others, TypeInv
<1>7. TypeInv' /\ LiveInv'
  BY <1>1, <1>2 DEF TypeInv, StoresInv, LiveInv, Open, Content
<1> QED
  BY <1>1, <1>3, <1>4, <1>5, <1>6, <1>7, OthersKeep DEF StoresInv

\* What is lost of a store that others also use was exposed, so the memory stays covered.
LEMMA LiveStays ==
    ASSUME StoresInv, NEW a \in Actor, pc[a] # "idle", Elsewhere(a), UNCHANGED <<live, exposed>>,
           \/ file' = file
           \/ file[op[a].store] \cap Elem \subseteq file'[op[a].store]
           \/ a \in met /\ op[a].store \in SharedTmp
           \/ op[a].store \notin Live
    PROVE  LiveInv'
<1> SUFFICES ASSUME NEW s \in Live PROVE live[s] \subseteq file'[s] \cup exposed[s]
  BY DEF LiveInv
<1>1. /\ live[s] \subseteq file[s] \cup exposed[s] /\ live[s] \subseteq Elem
      /\ s \in SharedTmp /\ s \in Store
  BY DEF StoresInv, LiveInv, TypeInv, Live, SharedTmp, Store
<1>2. CASE s # op[a].store
  BY <1>1, <1>2 DEF Elsewhere
<1>3. CASE s = op[a].store /\ a \in met
  <2>1. file[s] \cap Elem \subseteq exposed[s]
    BY <1>1, <1>3, InOperation DEF MetInv
  <2> QED
    BY <1>1, <2>1
<1> QED
  BY <1>1, <1>2, <1>3

\* What is written by who has met nobody is what it was to write; who writes to the file
\* itself has met another.
LEMMA WriteDoes ==
    ASSUME StoresInv, NEW a \in Actor, Write(a)
    PROVE  /\ UNCHANGED <<live, todo, listed, op, new, handle, met, exposed>>
           /\ pc[a] = "opened" /\ pc'[a] = "written" /\ Others(a) /\ Elsewhere(a) /\ TypeInv'
           /\ file' = file \/ (a \in met /\ op[a].store \in SharedTmp)
           /\ op[a].store \in SharedTmp =>
                 /\ a \notin met => tmp'[op[a].store] = new[a]
                 /\ tmp'[op[a].store] # None \/ tmp'[op[a].store] = tmp[op[a].store]
                 /\ a \in met => (file'[op[a].store] \cap Elem) \subseteq exposed[op[a].store]
                 /\ a \in met /\ tmp'[op[a].store] # None
                       => (tmp'[op[a].store] \cap Elem) \subseteq exposed[op[a].store]
<1> DEFINE s == op[a].store
<1>1. /\ pc[a] = "opened" /\ UNCHANGED <<live, todo, listed, op, new, handle, met, exposed>>
  BY DEF Write, history
<1>2. /\ TypeInv /\ OpInv(a) /\ UnmetInv(a) /\ MetInv(a) /\ op[a] \in Op /\ s \in Store
      /\ file[s] \in Content /\ new[a] \in SUBSET Elem
      /\ s \in SharedTmp => tmp[s] \in Content \cup {None}
  BY <1>1, InOperation DEF OpInv, Before
<1>3. pc'[a] = "written" /\ Others(a)
  BY <1>1, <1>2 DEF Write, TypeInv, Others
<1>4. CASE s \notin SharedTmp
  <2>1. handle[a] = "tmp"
    BY <1>1, <1>2, <1>4 DEF OpInv
  <2>2. UNCHANGED <<file, tmp>>
    BY <1>4, <2>1 DEF Write, Fixed
  <2>3. TypeInv'
    BY <1>1, <1>2, <2>2 DEF TypeInv, Write
  <2> QED
    BY <1>1, <1>3, <1>4, <2>2, <2>3 DEF Elsewhere
<1>5. CASE s \in SharedTmp /\ handle[a] = "tmp"
  <2>1. tmp[s] \in Content
    BY <1>1, <1>2, <1>5 DEF OpInv
  <2>2. PICK c \in Over(tmp[s], new[a]) : tmp' = [tmp EXCEPT ![s] = c]
    BY <1>5 DEF Write, Fixed
  <2>3. /\ c \in Content /\ c # None /\ (c \cap Elem) \subseteq (tmp[s] \cap Elem) \cup new[a]
        /\ tmp[s] = {} => c = new[a]
    BY <1>2, <2>1, <2>2, OverContents
  <2>4. tmp'[s] = c /\ UNCHANGED file /\ Elsewhere(a)
    BY <1>1, <1>2, <1>5, <2>2 DEF TypeInv, Write, Elsewhere
  <2>5. TypeInv'
    BY <1>1, <1>2, <2>2, <2>3, <2>4 DEF TypeInv, Write
  <2>6. a \notin met => tmp[s] = {}
    BY <1>1, <1>2, <1>5 DEF UnmetInv
  <2>7. a \in met => /\ (file[s] \cap Elem) \subseteq exposed[s]
                     /\ (tmp[s] \cap Elem) \cup new[a] \subseteq exposed[s]
    <3>1. tmp[s] # None
      BY <1>1, <1>2, <1>5 DEF OpInv
    <3> QED
      BY <1>1, <1>2, <1>5, <3>1 DEF MetInv, Before
  <2> QED
    BY <1>1, <1>3, <1>5, <2>3, <2>4, <2>5, <2>6, <2>7
<1>6. CASE s \in SharedTmp /\ handle[a] # "tmp"
  <2>1. a \in met
    BY <1>1, <1>2, <1>6 DEF UnmetInv
  <2>2. /\ (file[s] \cap Elem) \subseteq exposed[s] /\ new[a] \subseteq exposed[s]
        /\ tmp[s] # None => (tmp[s] \cap Elem) \subseteq exposed[s]
    BY <1>1, <1>2, <1>6, <2>1 DEF MetInv, Before
  <2>3. UNCHANGED tmp
    BY <1>6 DEF Write
  <2>4. CASE UNCHANGED file
    <3>1. TypeInv'
      BY <1>1, <1>2, <2>3, <2>4 DEF TypeInv, Write
    <3> QED
      BY <1>1, <1>3, <1>6, <2>1, <2>2, <2>3, <2>4, <3>1 DEF Elsewhere
  <2>5. CASE handle[a] = "file"
    <3>1. PICK c \in Over(file[s], new[a]) : file' = [file EXCEPT ![s] = c]
      BY <2>5 DEF Write
    <3>2. c \in Content /\ (c \cap Elem) \subseteq (file[s] \cap Elem) \cup new[a]
      BY <1>2, <3>1, OverContents
    <3>3. file'[s] = c /\ Elsewhere(a)
      BY <1>1, <1>2, <2>3, <3>1 DEF TypeInv, Elsewhere
    <3>4. TypeInv'
      BY <1>1, <1>2, <1>6, <2>3, <3>1, <3>2 DEF TypeInv, Write
    <3> QED
      BY <1>1, <1>3, <1>6, <2>1, <2>2, <2>3, <3>2, <3>3, <3>4
  <2> QED
    BY <2>4, <2>5 DEF Write
<1> QED
  BY <1>4, <1>5, <1>6

LEMMA WriteKeeps ==
    ASSUME StoresInv, NEW a \in Actor, Write(a)
    PROVE  StoresInv'
<1> DEFINE s == op[a].store
<1>1. /\ UNCHANGED <<live, todo, listed, op, new, handle, met, exposed>>
      /\ pc[a] = "opened" /\ pc'[a] = "written" /\ Others(a) /\ Elsewhere(a) /\ TypeInv'
      /\ file' = file \/ (a \in met /\ s \in SharedTmp)
      /\ s \in SharedTmp =>
            /\ a \notin met => tmp'[s] = new[a]
            /\ tmp'[s] # None \/ tmp'[s] = tmp[s]
            /\ a \in met => (file'[s] \cap Elem) \subseteq exposed[s]
            /\ a \in met /\ tmp'[s] # None => (tmp'[s] \cap Elem) \subseteq exposed[s]
  BY WriteDoes
<1>2. TypeInv /\ OpInv(a) /\ UnmetInv(a) /\ MetInv(a) /\ op[a] \in Op
  BY <1>1, InOperation
<1>3. ActorInv(a)'
  <2>1. OpInv(a)' /\ UnmetInv(a)'
    BY <1>1, <1>2 DEF OpInv, UnmetInv, Before
  <2>2. MetInv(a)'
    BY <1>1, <1>2 DEF MetInv, Before
  <2> QED
    BY <2>1, <2>2 DEF ActorInv
<1>4. s \in SharedTmp => Exposes(a)
  BY <1>1, <1>2 DEF Exposes
<1>5. Alone'
  BY <1>1, AloneKeeps DEF StoresInv, Alone, Others, TypeInv
<1>6. LiveInv'
  BY <1>1, <1>2, LiveStays
<1> QED
  BY <1>1, <1>3, <1>4, <1>5, <1>6, OthersKeep DEF StoresInv

\* What is renamed by who has met nobody is what was written, and what was written is what
\* the store becomes.
LEMMA RenameInstalls ==
    ASSUME StoresInv, NEW a \in Actor, Rename(a)
    PROVE  /\ pc[a] = "written" /\ pc' = [pc EXCEPT ![a] = "installed"]
           /\ UNCHANGED <<live, todo, listed, op, new, met, exposed>>
           /\ Others(a) /\ Elsewhere(a) /\ TypeInv'
           /\ \E c \in Content :
                 /\ file' = [file EXCEPT ![op[a].store] = c] /\ file'[op[a].store] = c
                 /\ a \notin met => c = Atomic!After(op[a], file[op[a].store])
                 /\ op[a].store \notin SharedTmp => c = new[a]
                 /\ a \in met /\ op[a].store \in SharedTmp
                       => (c \cap Elem) \subseteq exposed[op[a].store]
           /\ op[a].store \in SharedTmp => tmp'[op[a].store] = None
           /\ op[a].store \in SharedTmp => \A b \in Actor \ {a} :
                 pc[b] # "idle" /\ op[b].store = op[a].store => handle'[b] # "tmp"
<1> DEFINE s == op[a].store
<1>1. /\ pc[a] = "written" /\ UNCHANGED <<live, todo, listed, op, new, met, exposed>>
      /\ s \in SharedTmp => tmp[s] # None
  BY DEF Rename, Fixed
<1>2. /\ TypeInv /\ OpInv(a) /\ UnmetInv(a) /\ MetInv(a) /\ op[a] \in Op /\ s \in Store
      /\ file[s] \in Content /\ new[a] \in SUBSET Elem
      /\ s \in SharedTmp => tmp[s] \in Content
  BY <1>1, InOperation DEF OpInv, Before
<1> DEFINE c == IF s \in SharedTmp THEN tmp[s] ELSE new[a]
<1>3. /\ file' = [file EXCEPT ![s] = c] /\ file'[s] = c /\ c \in Content
      /\ s \notin SharedTmp => c \subseteq Elem
  BY <1>2 DEF Rename, Fixed, TypeInv, Content
<1>4. a \notin met => c = Atomic!After(op[a], file[s])
  BY <1>1, <1>2 DEF UnmetInv, Before
<1>5. a \in met /\ s \in SharedTmp => (c \cap Elem) \subseteq exposed[s]
  BY <1>1, <1>2 DEF MetInv
<1>6. /\ pc' = [pc EXCEPT ![a] = "installed"]
      /\ tmp' = IF s \in SharedTmp THEN [tmp EXCEPT ![s] = None] ELSE tmp
      /\ handle' = [b \in Actor |-> IF b = a \/ s \notin SharedTmp THEN handle[b] ELSE Moved(b, s)]
  BY DEF Rename, Fixed
<1>7. Others(a)
  BY <1>1, <1>2, <1>6 DEF Others, Moved, TypeInv
<1>8. Elsewhere(a)
  BY <1>1, <1>2, <1>3, <1>6 DEF Elsewhere, TypeInv
<1>9. TypeInv'
  <2>1. file' \in [Store -> Content] /\ \A r \in Store \ SharedTmp : file'[r] \subseteq Elem
    BY <1>2, <1>3 DEF TypeInv
  <2>2. tmp' \in [SharedTmp -> Content \cup {None}]
    BY <1>2, <1>6 DEF TypeInv
  <2> QED
    BY <1>1, <1>2, <1>6, <2>1, <2>2 DEF TypeInv
<1>10. s \in SharedTmp => /\ tmp'[s] = None
                          /\ \A b \in Actor \ {a} :
                                pc[b] # "idle" /\ op[b].store = s => handle'[b] # "tmp"
  BY <1>2, <1>6 DEF Moved, TypeInv
<1>11. \E x \in Content :
          /\ file' = [file EXCEPT ![s] = x] /\ file'[s] = x
          /\ a \notin met => x = Atomic!After(op[a], file[s])
          /\ s \notin SharedTmp => x = new[a]
          /\ a \in met /\ s \in SharedTmp => (x \cap Elem) \subseteq exposed[s]
  <2>1. s \notin SharedTmp => c = new[a]
    OBVIOUS
  <2> HIDE DEF c
  <2> QED
    BY <1>3, <1>4, <1>5, <2>1
<1> QED
  BY <1>1, <1>6, <1>7, <1>8, <1>9, <1>10, <1>11

LEMMA RenameKeeps ==
    ASSUME StoresInv, NEW a \in Actor, Rename(a)
    PROVE  StoresInv'
<1> DEFINE s == op[a].store
<1>1. /\ pc[a] = "written" /\ pc'[a] = "installed"
      /\ UNCHANGED <<live, todo, listed, op, new, met, exposed>>
      /\ Others(a) /\ Elsewhere(a) /\ TypeInv'
      /\ s \in SharedTmp => tmp'[s] = None
      /\ s \in SharedTmp => \A b \in Actor \ {a} :
            pc[b] # "idle" /\ op[b].store = s => handle'[b] # "tmp"
  BY RenameInstalls DEF StoresInv, TypeInv
<1>2. PICK c \in Content :
         /\ file'[s] = c
         /\ a \notin met => c = Atomic!After(op[a], file[s])
         /\ a \in met /\ s \in SharedTmp => (c \cap Elem) \subseteq exposed[s]
  BY RenameInstalls
<1>3. TypeInv /\ OpInv(a) /\ UnmetInv(a) /\ MetInv(a) /\ op[a] \in Op /\ op[a] \in Doable
  BY <1>1, InOperation
<1>4. a \notin met => /\ file[s] \in SUBSET Elem /\ Elems(op[a]) \subseteq c
                      /\ op[a].kind = "add" => file[s] \subseteq c
  BY <1>1, <1>2, <1>3, AfterOp DEF UnmetInv, Before
<1>5. ActorInv(a)'
  <2>1. OpInv(a)' /\ UnmetInv(a)'
    BY <1>1, <1>2, <1>3, <1>4 DEF OpInv, UnmetInv, Before
  <2>2. MetInv(a)'
    BY <1>1, <1>2, <1>3 DEF MetInv, Before
  <2> QED
    BY <2>1, <2>2 DEF ActorInv
<1>6. s \in SharedTmp => Exposes(a)
  BY <1>1, <1>2 DEF Exposes
<1>7. Alone'
  BY <1>1, AloneKeeps DEF StoresInv, Alone, Others, TypeInv
<1>8. LiveInv'
  <2>1. s \in Live => op[a].kind = "add" /\ s \in SharedTmp
    BY <1>3 DEF Doable, Live, SharedTmp
  <2> QED
    BY <1>1, <1>2, <1>4, <2>1, LiveStays
<1> QED
  BY <1>1, <1>5, <1>6, <1>7, <1>8, OthersKeep DEF StoresInv

\* An operation ends, well or not: the memory learns what the file has, or what is exposed.
LEMMA EndKeeps ==
    ASSUME StoresInv, NEW a \in Actor, Publish(a) \/ Fail(a)
    PROVE  StoresInv'
<1> DEFINE s == op[a].store
<1>1. pc[a] # "idle" /\ UNCHANGED <<file, tmp>> /\ Settle(a)
  BY DEF Publish, Fail
<1>2. /\ TypeInv /\ OpInv(a) /\ UnmetInv(a) /\ MetInv(a) /\ op[a] \in Op /\ op[a] \in Doable
      /\ Elems(op[a]) \subseteq Elem
  BY <1>1, InOperation, AfterOp DEF Op, Elem, Elems
<1>3. /\ pc'[a] = "idle" /\ met' = met \ {a}
      /\ \A b \in Actor \ {a} : /\ pc'[b] = pc[b] /\ op'[b] = op[b] /\ new'[b] = new[b]
                                /\ handle'[b] = handle[b]
  BY <1>1, <1>2 DEF Settle, TypeInv
<1>4. \/ UNCHANGED exposed
      \/ /\ pc[a] = "installed" /\ s \in SharedTmp /\ a \notin met
         /\ exposed' = [exposed EXCEPT ![s] = @ \ Elems(op[a])]
  BY DEF Publish, Fail, Fixed
<1>5. \/ UNCHANGED live
      \/ /\ pc[a] = "installed" /\ s \in Live /\ s \in SharedTmp
         /\ live' = [live EXCEPT ![s] = @ \cup Elems(op[a])]
  BY DEF Publish, Fail, Live, SharedTmp
<1>6. exposed' \in [SharedTmp -> SUBSET Elem] /\ live' \in [Live -> SUBSET Elem]
  <2>1. exposed' \in [SharedTmp -> SUBSET Elem]
    BY <1>2, <1>4 DEF TypeInv
  <2>2. live' \in [Live -> SUBSET Elem]
    BY <1>2, <1>5 DEF TypeInv
  <2> QED
    BY <2>1, <2>2
<1>7. todo' \in [Actor -> SUBSET Doable] /\ listed' \in [Actor -> SUBSET Key]
  BY <1>2 DEF Publish, Fail, TypeInv
<1>8. TypeInv'
  BY <1>1, <1>2, <1>3, <1>6, <1>7 DEF TypeInv, Settle
<1>9. ASSUME NEW b \in Actor PROVE ActorInv(b)'
  <2>1. CASE b = a
    BY <1>3, <2>1 DEF ActorInv, OpInv, UnmetInv, MetInv, Before
  <2>2. CASE b # a
    <3>1. /\ pc'[b] = pc[b] /\ op'[b] = op[b] /\ new'[b] = new[b] /\ handle'[b] = handle[b]
          /\ (b \in met' <=> b \in met) /\ ActorInv(b)
      BY <1>3, <2>2 DEF StoresInv
    <3>2. op[b].store \in SharedTmp /\ pc[b] # "idle" => exposed'[op[b].store] = exposed[op[b].store]
      BY <1>1, <1>2, <1>4, <2>2 DEF StoresInv, Alone, TypeInv
    <3> QED
      BY <1>1, <3>1, <3>2 DEF ActorInv, OpInv, UnmetInv, MetInv, Before
  <2> QED
    BY <2>1, <2>2
<1>10. Alone'
  BY <1>1, <1>2, <1>3, AloneKeeps DEF StoresInv, Alone, TypeInv
<1>11. LiveInv'
  <2> SUFFICES ASSUME NEW r \in Live PROVE live'[r] \subseteq file[r] \cup exposed'[r]
    BY <1>1 DEF LiveInv
  <2>1. live[r] \subseteq file[r] \cup exposed[r] /\ r \in SharedTmp
    BY DEF StoresInv, LiveInv, Live, SharedTmp
  <2>2. live[r] \subseteq file[r] \cup exposed'[r]
    <3>1. CASE UNCHANGED exposed
      BY <2>1, <3>1
    <3>2. CASE ~UNCHANGED exposed
      <4>1. /\ pc[a] = "installed" /\ s \in SharedTmp /\ a \notin met
            /\ exposed' = [exposed EXCEPT ![s] = @ \ Elems(op[a])]
        BY <1>4, <3>2
      <4>2. Elems(op[a]) \subseteq file[s]
        BY <1>2, <4>1 DEF UnmetInv
      <4> QED
        BY <1>2, <2>1, <4>1, <4>2 DEF TypeInv
    <3> QED
      BY <3>1, <3>2
  <2>3. live'[r] \subseteq live[r] \cup (IF r = s /\ pc[a] = "installed" THEN Elems(op[a]) ELSE {})
    BY <1>2, <1>5 DEF TypeInv
  <2>4. r = s /\ pc[a] = "installed" => Elems(op[a]) \subseteq file[s] \cup exposed'[s]
    <3>1. CASE a \in met
      BY <1>1, <1>2, <1>4, <2>1, <3>1 DEF MetInv
    <3>2. CASE a \notin met
      BY <1>1, <1>2, <2>1, <3>2 DEF UnmetInv
    <3> QED
      BY <3>1, <3>2
  <2> QED
    BY <2>2, <2>3, <2>4
<1> QED
  BY <1>8, <1>9, <1>10, <1>11 DEF StoresInv

LEMMA DieKeeps ==
    ASSUME StoresInv, NEW dead \in SUBSET Actor, Die(dead), UNCHANGED live
    PROVE  StoresInv'
<1>1. TypeInv'
  BY DEF StoresInv, TypeInv, Die
<1>2. /\ \A b \in Actor : \/ pc'[b] = "idle" /\ b \notin met'
                          \/ /\ pc'[b] = pc[b] /\ op'[b] = op[b] /\ (b \in met' <=> b \in met)
                             /\ new'[b] = new[b] /\ handle'[b] = handle[b]
      /\ UNCHANGED <<file, tmp, exposed>>
  BY DEF Die
<1>3. ASSUME NEW b \in Actor PROVE ActorInv(b)'
  <2>1. CASE pc'[b] = "idle"
    BY <2>1 DEF ActorInv, OpInv, UnmetInv, MetInv, Before
  <2>2. CASE pc'[b] # "idle"
    <3>1. /\ pc'[b] = pc[b] /\ op'[b] = op[b] /\ (b \in met' <=> b \in met)
          /\ new'[b] = new[b] /\ handle'[b] = handle[b] /\ ActorInv(b)
      BY <1>2, <2>2 DEF StoresInv
    <3> QED
      BY <1>2, <3>1 DEF ActorInv, OpInv, UnmetInv, MetInv, Before
  <2> QED
    BY <2>1, <2>2
<1>4. Alone' /\ LiveInv'
  BY <1>2 DEF StoresInv, Alone, LiveInv, TypeInv, Die
<1> QED
  BY <1>1, <1>3, <1>4 DEF StoresInv

LEMMA StartKeeps ==
    ASSUME StoresInv, Start
    PROVE  StoresInv'
<1>1. /\ UNCHANGED <<file, tmp, local, met, exposed>> /\ live' = [s \in Live |-> file[s]]
      /\ \A s \in Live : file[s] # Torn
  BY DEF Start, history, Live, SharedTmp
<1>2. \A s \in Live : file[s] \in SUBSET Elem
  BY <1>1, Contents DEF StoresInv, TypeInv, Live, Store
<1>3. TypeInv' /\ Alone' /\ LiveInv'
  BY <1>1, <1>2 DEF local, StoresInv, TypeInv, Alone, LiveInv
<1>4. \A a \in Actor : ActorInv(a)'
  BY <1>1 DEF local, StoresInv, ActorInv, OpInv, UnmetInv, MetInv
<1> QED
  BY <1>3, <1>4 DEF StoresInv

LEMMA StoresKeep == StoresInv /\ [Next]_vars => StoresInv'
<1> SUFFICES ASSUME StoresInv, [Next]_vars PROVE StoresInv'
  OBVIOUS
<1>1. CASE UNCHANGED vars
  BY <1>1 DEF vars, local, history, StoresInv, TypeInv, Alone, ActorInv, OpInv, UnmetInv, MetInv,
     LiveInv
<1>2. CASE \E a \in Goroutine : DaemonCall(a)
  BY <1>2, CallKeeps, Calls DEF DaemonCall, StoresInv, TypeInv, Actor
<1>3. ASSUME NEW a \in Command, RunCommand(a) \/ RunApproval(a)
      PROVE  StoresInv'
  <2>1. PICK os \in SUBSET Doable : Call(a, os)
    BY <1>3, Calls DEF RunCommand, RunApproval, StoresInv
  <2>2. listed' \in [Actor -> SUBSET Key]
    BY <1>3, Calls DEF RunCommand, RunApproval, StoresInv, TypeInv
  <2> QED
    BY <2>1, <2>2, CallKeeps DEF Actor
<1>4. CASE \E a \in Command : KillCommand(a)
  BY <1>4, DieKeeps DEF KillCommand, Actor
<1>5. CASE KillDaemon
  BY <1>5, DieKeeps DEF KillDaemon, Actor
<1>6. CASE Start
  BY <1>6, StartKeeps
<1>7. ASSUME NEW a \in Actor, Step(a) PROVE StoresInv'
  BY <1>7, LoadKeeps, SkipKeeps, OpenKeeps, WriteKeeps, RenameKeeps, EndKeeps DEF Step
<1> QED
  BY <1>1, <1>2, <1>3, <1>4, <1>5, <1>6, <1>7 DEF Next

-----------------------------------------------------------------------------
(* The refinement.  Loading is the call, renaming the effect, publishing   *)
(* the return, and failing and dying give up what has not happened.        *)

call == [a \in Actor |-> IF pc[a] = "idle" THEN None ELSE op[a]]
done == {a \in Actor : pc[a] = "installed"}

LEMMA InitRefines == Init => Atomic!Init
  BY DEF Init, Atomic!Init

\* A step that changes none of what a caller can tell.
LEMMA Quiet ==
    ASSUME StoresInv, NEW a \in Actor, UNCHANGED op, Others(a), pc[a] # "idle",
           pc'[a] # "idle", pc[a] # "installed", pc'[a] # "installed"
    PROVE  call' = call /\ done' = done
  BY DEF call, done, Others

LEMMA LoadRefines ==
    ASSUME StoresInv, NEW a \in Actor, NEW o \in todo[a], Load(a, o)
    PROVE  Atomic!Next
<1>1. TypeInv /\ pc[a] = "idle" /\ UNCHANGED file /\ o \in Op
  BY DEF StoresInv, TypeInv, Load, Doable
<1>2. call[a] = None
  BY <1>1 DEF call
<1>3. call' = [call EXCEPT ![a] = o]
  BY <1>1 DEF call, Load, TypeInv
<1>4. done' = done
  BY <1>1 DEF done, Load, TypeInv
<1>5. new' = [new EXCEPT ![a] = Atomic!After(o, file[o.store])]
  BY DEF Load
<1>6. \A b \in Actor : pc[b] # "idle" => op[b] # None
  BY StoresAssumption DEF StoresInv, ActorInv, OpInv, Doable
<1>7. {b \in Actor : call[b] # None /\ call[b].store = o.store /\ ~Atomic!SameProcess(a, b)}
         = Meets(a, o.store)
  BY <1>6 DEF call, Meets, Using, SameProcess, Atomic!SameProcess
<1>8. met' = met \cup Meets(a, o.store) \cup (IF Meets(a, o.store) = {} THEN {} ELSE {a})
  BY DEF Load, Meeting
<1>9. Atomic!Invoke(a, o)
  BY <1>1, <1>2, <1>3, <1>4, <1>5, <1>7, <1>8 DEF call, done, Atomic!Invoke
<1> QED
  BY <1>1, <1>9 DEF Atomic!Next

\* The operation happens with the rename, or, of a pin that is there, at once.
LEMMA EffectRefines ==
    ASSUME StoresInv, NEW a \in Actor, Rename(a) \/ Skip(a)
    PROVE  Atomic!Next
<1> DEFINE s == op[a].store
<1>1. /\ pc[a] \in {"written", "present"} /\ UNCHANGED <<op, new, met>>
      /\ pc' = [pc EXCEPT ![a] = "installed"]
  BY RenameInstalls DEF Rename, Skip, history
<1>2. TypeInv /\ OpInv(a) /\ UnmetInv(a) /\ op[a] \in Op /\ s \in Store
  BY <1>1, InOperation
<1>3. \E c \in Content : /\ file' = [file EXCEPT ![s] = c]
                         /\ a \notin met => c = Atomic!After(op[a], file[s])
                         /\ a \in met /\ s \notin SharedTmp => c = new[a]
  <2>1. CASE Rename(a)
    BY <2>1, RenameInstalls
  <2>2. CASE Skip(a)
    <3>1. UNCHANGED file /\ pc[a] = "present" /\ s = "catalog" /\ s \in SharedTmp
      BY <1>2, <2>2 DEF Skip, OpInv, SharedTmp
    <3>2. file' = [file EXCEPT ![s] = file[s]] /\ file[s] \in Content
      BY <1>2, <3>1 DEF TypeInv
    <3>3. a \notin met => file[s] = Atomic!After(op[a], file[s])
      BY <1>2, <3>1 DEF UnmetInv, Before
    <3> QED
      BY <3>1, <3>2, <3>3
  <2> QED
    BY <2>1, <2>2
<1>4. call[a] = op[a] /\ call[a] # None /\ a \notin done
  BY <1>1, <1>2, StoresAssumption DEF call, done
<1>5. call' = call /\ done' = done \cup {a}
  BY <1>1, <1>2 DEF call, done, TypeInv
<1>6. Atomic!TakeEffect(a)
  BY <1>1, <1>3, <1>4, <1>5 DEF call, done, Atomic!TakeEffect
<1> QED
  BY <1>6 DEF Atomic!Next

\* Opening and writing are not seen, unless who writes has met another.
LEMMA WriteRefines ==
    ASSUME StoresInv, NEW a \in Actor, Write(a)
    PROVE  [Atomic!Next]_(Atomic!vars)
<1> DEFINE s == op[a].store
<1>1. /\ UNCHANGED <<op, new, met>> /\ pc[a] = "opened" /\ pc'[a] = "written" /\ Others(a)
      /\ file' = file \/ (a \in met /\ s \in SharedTmp)
      /\ Elsewhere(a) /\ TypeInv'
  BY WriteDoes
<1>2. TypeInv /\ op[a] \in Op /\ s \in Store
  BY <1>1, InOperation
<1>3. call' = call /\ done' = done
  BY <1>1, Quiet
<1>4. CASE file' = file
  BY <1>1, <1>3, <1>4 DEF call, done, Atomic!vars
<1>5. CASE a \in met /\ s \in SharedTmp
  <2>1. file'[s] \in Content /\ file' = [file EXCEPT ![s] = file'[s]]
    BY <1>1, <1>2 DEF TypeInv, Elsewhere
  <2>2. call[a] = op[a] /\ call[a] # None
    BY <1>1, <1>2, StoresAssumption DEF call
  <2>3. Atomic!Spoil(a)
    BY <1>1, <1>3, <1>5, <2>1, <2>2 DEF call, done, Atomic!Spoil
  <2> QED
    BY <2>3 DEF Atomic!Next
<1> QED
  BY <1>1, <1>4, <1>5

LEMMA EndRefines ==
    ASSUME StoresInv, NEW a \in Actor, Publish(a) \/ Fail(a)
    PROVE  Atomic!Next
<1>1. /\ TypeInv /\ UNCHANGED file /\ pc' = [pc EXCEPT ![a] = "idle"] /\ met' = met \ {a}
      /\ op' = [op EXCEPT ![a] = None] /\ new' = [new EXCEPT ![a] = {}]
  BY DEF StoresInv, Publish, Fail, Settle
<1>2. call' = [call EXCEPT ![a] = None] /\ done' = done \ {a}
  BY <1>1 DEF call, done, TypeInv
<1>3. CASE Publish(a)
  <2>1. a \in done
    BY <1>3 DEF Publish, done
  <2> QED
    BY <1>1, <1>2, <2>1 DEF call, done, Atomic!Next, Atomic!Return
<1>4. CASE Fail(a)
  <2>1. pc[a] # "idle" /\ pc[a] # "installed"
    BY <1>4 DEF Fail
  <2>2. call[a] # None /\ a \notin done /\ done' = done
    BY <1>2, <2>1, InOperation, StoresAssumption DEF call, done
  <2> QED
    BY <1>1, <1>2, <2>2 DEF call, done, Atomic!Next, Atomic!GiveUp
<1> QED
  BY <1>3, <1>4

LEMMA DieRefines ==
    ASSUME NEW dead \in SUBSET Actor, Die(dead)
    PROVE  Atomic!Next
<1>1. /\ call' = [a \in Actor |-> IF a \in dead THEN None ELSE call[a]]
      /\ done' = done \ dead
  BY DEF Die, call, done
<1> QED
  BY <1>1 DEF Die, call, done, Atomic!Next, Atomic!Die

LEMMA StepRefines == StoresInv /\ [Next]_vars => [Atomic!Next]_(Atomic!vars)
<1> SUFFICES ASSUME StoresInv, [Next]_vars PROVE [Atomic!Next]_(Atomic!vars)
  OBVIOUS
<1>1. ASSUME UNCHANGED <<file, op, pc, new, met>> PROVE UNCHANGED Atomic!vars
  BY <1>1 DEF Atomic!vars
<1>2. CASE UNCHANGED vars \/ Start
  BY <1>1, <1>2 DEF vars, local, history, Start
<1>3. CASE \E a \in Goroutine : DaemonCall(a)
  BY <1>1, <1>3 DEF DaemonCall, Call, history
<1>4. CASE \E a \in Command : RunCommand(a) \/ RunApproval(a)
  BY <1>1, <1>4 DEF RunCommand, RunApproval, Call, history
<1>5. CASE \E a \in Command : KillCommand(a)
  BY <1>5, DieRefines DEF KillCommand, Actor
<1>6. CASE KillDaemon
  BY <1>6, DieRefines DEF KillDaemon, Actor
<1>7. ASSUME NEW a \in Actor, Step(a) PROVE [Atomic!Next]_(Atomic!vars)
  <2>1. CASE Open(a)
    <3>1. UNCHANGED <<file, op, new, met>>
      BY <2>1 DEF Open, history
    <3>2. Others(a) /\ pc[a] = "loaded" /\ pc'[a] = "opened"
      BY <2>1 DEF Open, Others, StoresInv, TypeInv, history
    <3>3. call' = call /\ done' = done
      BY <3>1, <3>2, Quiet
    <3> QED
      BY <3>1, <3>3 DEF call, done, Atomic!vars
  <2> QED
    BY <1>7, <2>1, LoadRefines, EffectRefines, WriteRefines, EndRefines DEF Step
<1> QED
  BY <1>2, <1>3, <1>4, <1>5, <1>6, <1>7 DEF Next

(* Whatever fails or dies, an operation that meets no other process on its *)
(* store is atomic; one that does may undo what came between, on a store   *)
(* with private temporary files, and anything, on one with a shared name   *)
(* (flushLocked, writeCatalogAtomic, writeTomlAtomic, Reject).             *)
THEOREM StoresAreAtomic == Spec => AtomicStores
<1>1. Init => Atomic!Init
  BY InitRefines
<1>2. StoresInv /\ [Next]_vars => [Atomic!Next]_(Atomic!vars)
  BY StepRefines
<1>3. StoresInv /\ [Next]_vars => StoresInv'
  BY StoresKeep
<1> QED
  BY <1>1, <1>2, <1>3, InitStores, PTL DEF Spec, AtomicStores, Atomic!Spec

(* Save for what was exposed when the daemon and a command met on the      *)
(* file, the daemon's memory of the catalog and of the allowlist never     *)
(* runs ahead of the files (Ratify, alwaysWriter.add).                     *)
THEOREM LiveProved == Spec => []LiveIsDurable
<1>1. StoresInv => LiveIsDurable
  BY DEF StoresInv, LiveInv, LiveIsDurable
<1>2. StoresInv /\ [Next]_vars => StoresInv'
  BY StoresKeep
<1> QED
  BY <1>1, <1>2, InitStores, PTL DEF Spec

-----------------------------------------------------------------------------
(* The review queue.                                                       *)

LEMMA ReviewLoad ==
    ASSUME StoresInv, ReviewInv, NEW a \in Actor, NEW o \in todo[a], Load(a, o)
    PROVE  ReviewInv'
<1>1. /\ TypeInv /\ UNCHANGED <<file, listed, recorded, answered>>
      /\ pc[a] = "idle" /\ pc'[a] # "idle" /\ op'[a] = o /\ todo'[a] = todo[a] \ {o}
      /\ \A b \in Actor \ {a} : todo'[b] = todo[b] /\ pc'[b] = pc[b] /\ op'[b] = op[b]
  BY DEF StoresInv, TypeInv, Load, reviews
<1>2. \A p : \A b \in Actor : Pending(b, p) => Pending(b, p)'
  BY <1>1 DEF Pending
<1>3. o.kind = "drop" => ~\E p \in todo'[a] : p.kind = "add" /\ p.key = o.key
  BY <1>1 DEF Load, Ready
<1>4. Kept \subseteq Kept'
  BY <1>1, MeetingExposes DEF Kept, SharedTmp
<1>5. ReviewKeepsHosts'
  BY <1>1, <1>4 DEF ReviewInv, ReviewKeepsHosts, Kept
<1>6. ASSUME NEW b \in Actor, NEW k \in listed[b]
      PROVE  /\ Pending(b, Resolve(k))'
             /\ \A h \in Host : <<k, h>> \in recorded \cap file["queue"] =>
                   <<k, h>> \in Kept' \/ Pending(b, Add("catalog", k, {h}))'
  BY <1>2, <1>4 DEF ReviewInv
<1>7. \A b \in Actor : pc'[b] # "idle" /\ op'[b].kind = "drop" =>
         ~\E p \in todo'[b] : p.kind = "add" /\ p.key = op'[b].key
  BY <1>1, <1>3 DEF ReviewInv
<1> QED
  BY <1>1, <1>5, <1>6, <1>7 DEF ReviewInv

\* The steps in an operation: what leaves the queue is kept, and what is kept stays so.
LEMMA ReviewStays ==
    ASSUME ReviewInv, UNCHANGED <<todo, listed, op, recorded>>,
           \A b \in Actor : pc'[b] # "idle" <=> pc[b] # "idle",
           (Kept \cap Elem) \subseteq Kept',
           \A e \in recorded \cap file["queue"] : e \in file'["queue"] \cup Kept'
    PROVE  ReviewInv'
<1>1. \A p : \A b \in Actor : Pending(b, p)' <=> Pending(b, p)
  BY DEF Pending
<1>2. ReviewKeepsHosts'
  BY DEF ReviewInv, ReviewKeepsHosts, Kept
<1>3. ASSUME NEW b \in Actor, NEW k \in listed[b], NEW h \in Host,
             <<k, h>> \in recorded \cap file'["queue"]
      PROVE  <<k, h>> \in Kept' \/ Pending(b, Add("catalog", k, {h}))
  <2>1. <<k, h>> \in Elem
    BY <1>3 DEF ReviewInv
  <2>2. CASE <<k, h>> \in file["queue"]
    BY <1>3, <2>1, <2>2 DEF ReviewInv
  <2>3. CASE <<k, h>> \notin file["queue"]
    BY <1>3, <2>1, <2>3 DEF ReviewInv, ReviewKeepsHosts, Kept
  <2> QED
    BY <2>2, <2>3
<1>4. ASSUME NEW b \in Actor, NEW k \in listed'[b]
      PROVE  /\ Pending(b, Resolve(k))'
             /\ \A h \in Host : <<k, h>> \in recorded' \cap file'["queue"] =>
                   <<k, h>> \in Kept' \/ Pending(b, Add("catalog", k, {h}))'
  BY <1>1, <1>3, <1>4 DEF ReviewInv
<1> QED
  BY <1>2, <1>4 DEF ReviewInv

LEMMA ReviewWrite ==
    ASSUME StoresInv, ReviewInv, NEW a \in Actor, Write(a)
    PROVE  ReviewInv'
<1>1. /\ UNCHANGED <<todo, listed, op, recorded, answered, exposed>>
      /\ pc[a] = "opened" /\ pc'[a] = "written" /\ Others(a) /\ Elsewhere(a)
      /\ file' = file \/ (a \in met /\ op[a].store \in SharedTmp)
  BY WriteDoes DEF Write, history, reviews
<1>2. a \in met /\ op[a].store \in SharedTmp =>
         (file[op[a].store] \cap Elem) \subseteq exposed[op[a].store]
  BY <1>1, InOperation DEF MetInv
<1>3. \A s \in {"queue", "catalog"} :
         (file[s] \cap Elem) \subseteq file'[s] \cup exposed[s]
  BY <1>1, <1>2 DEF Elsewhere, Store
<1>4. \A b \in Actor : pc'[b] # "idle" <=> pc[b] # "idle"
  BY <1>1 DEF Others
<1>5. (Kept \cap Elem) \subseteq Kept'
  BY <1>1, <1>3 DEF Kept
<1>6. \A e \in recorded \cap file["queue"] : e \in file'["queue"] \cup Kept'
  BY <1>1, <1>3 DEF Kept, ReviewInv
<1> QED
  BY <1>1, <1>4, <1>5, <1>6, ReviewStays

LEMMA ReviewRename ==
    ASSUME StoresInv, ReviewInv, NEW a \in Actor, Rename(a)
    PROVE  ReviewInv'
<1> DEFINE s == op[a].store
<1>1. /\ pc[a] = "written" /\ pc' = [pc EXCEPT ![a] = "installed"]
      /\ UNCHANGED <<todo, listed, op, met, exposed>> /\ Elsewhere(a)
  BY RenameInstalls
<1>2. /\ UNCHANGED recorded /\ answered \subseteq answered'
      /\ \A e \in Queued : op[a] = Resolve(e[1]) /\ e[1] \notin listed[a] => e \in answered'
  BY DEF Rename
<1>3. PICK c \in Content : /\ file'[s] = c
                           /\ a \notin met => c = Atomic!After(op[a], file[s])
  BY RenameInstalls
<1>4. /\ TypeInv /\ UnmetInv(a) /\ MetInv(a) /\ op[a] \in Doable /\ op[a] \in Op
      /\ a \notin met => file[s] \in SUBSET Elem
  BY <1>1, InOperation DEF UnmetInv, Before
<1>5. a \in met /\ s \in SharedTmp => (file[s] \cap Elem) \subseteq exposed[s]
  BY <1>1, <1>4 DEF MetInv
<1>6. (file["catalog"] \cap Elem) \subseteq file'["catalog"] \cup exposed["catalog"]
  <2>1. CASE s # "catalog"
    BY <1>1, <2>1 DEF Elsewhere, Store
  <2>2. CASE s = "catalog" /\ a \notin met
    <3>1. op[a].kind = "add"
      BY <1>4, <2>2 DEF Doable, Live
    <3> QED
      BY <1>3, <1>4, <2>2, <3>1, AfterOp
  <2>3. CASE s = "catalog" /\ a \in met
    BY <1>5, <2>3 DEF SharedTmp
  <2> QED
    BY <2>1, <2>2, <2>3
<1>7. (Kept \cap Elem) \subseteq Kept'
  BY <1>1, <1>2, <1>6 DEF Kept
\* What leaves the queue was exposed, or dismissed, or listed and pinned.
<1>8. ASSUME NEW e \in recorded \cap file["queue"], e \notin file'["queue"]
      PROVE  e \in Kept'
  <2>1. e \in Elem /\ e \in Queued /\ e[1] \in Key /\ e[2] \in Host /\ e = <<e[1], e[2]>>
    BY <1>8 DEF ReviewInv, Queued, Elem
  <2>2. s = "queue"
    BY <1>1, <1>8 DEF Elsewhere, Store
  <2>3. CASE a \in met
    BY <1>1, <1>5, <2>1, <2>2, <2>3 DEF Kept, Queued, SharedTmp
  <2>4. CASE a \notin met
    <3>1. op[a].kind = "drop" /\ op[a].key = e[1]
      BY <1>3, <1>4, <1>8, <2>1, <2>2, <2>4, AfterOp DEF Op
    <3>2. op[a] = Resolve(e[1])
      BY <1>4, <2>2, <3>1 DEF Doable
    <3>3. CASE e[1] \in listed[a]
      <4>1. e \in Kept \/ Pending(a, Add("catalog", e[1], {e[2]}))
        BY <1>8, <2>1, <3>3 DEF ReviewInv
      <4>2. ~Pending(a, Add("catalog", e[1], {e[2]}))
        BY <1>1, <3>1 DEF ReviewInv, Pending, Add
      <4> QED
        BY <1>7, <2>1, <4>1, <4>2
    <3> QED
      BY <1>2, <2>1, <3>2, <3>3 DEF Kept
  <2> QED
    BY <2>3, <2>4
<1>9. \A b \in Actor : pc'[b] # "idle" <=> pc[b] # "idle"
  BY <1>1, <1>4 DEF TypeInv
<1> QED
  BY <1>1, <1>2, <1>7, <1>8, <1>9, ReviewStays

LEMMA ReviewPublish ==
    ASSUME StoresInv, ReviewInv, NEW a \in Actor, Publish(a)
    PROVE  ReviewInv'
<1> DEFINE o == op[a]
<1>1. /\ TypeInv /\ UnmetInv(a) /\ MetInv(a) /\ pc[a] = "installed" /\ o \in Doable /\ o \in Op
  BY InOperation DEF Publish
<1>2. /\ UNCHANGED <<file, todo>> /\ pc'[a] = "idle"
      /\ \A b \in Actor \ {a} : pc'[b] = pc[b] /\ op'[b] = op[b] /\ listed'[b] = listed[b]
      /\ listed'[a] = IF o = Resolve(o.key) THEN listed[a] \ {o.key} ELSE listed[a]
  BY <1>1 DEF TypeInv, Publish, Settle
<1>3. /\ o.store # "queue" => UNCHANGED <<recorded, answered>>
      /\ o.store = "queue" =>
            /\ recorded' = recorded \cup Elems(o)
            /\ answered' = IF InReview(o.key) THEN answered \cup Elems(o) ELSE answered \ Elems(o)
      /\ exposed' = IF o.store \in SharedTmp /\ a \notin met
                    THEN [exposed EXCEPT ![o.store] = @ \ Elems(o)] ELSE exposed
  BY DEF Publish, Fixed
<1>4. Elems(o) \subseteq Elem
  BY <1>1 DEF Op, Elem, Elems
\* What was added is in the file, or exposed for good.
<1>5. o.store \in SharedTmp => Elems(o) \subseteq file[o.store] \cup exposed'[o.store]
  <2>1. CASE a \in met
    BY <1>1, <1>3, <2>1 DEF MetInv
  <2>2. CASE a \notin met
    BY <1>1, <2>2 DEF UnmetInv
  <2> QED
    BY <2>1, <2>2
<1>6. \A s \in SharedTmp : \A e \in exposed[s] :
         e \in exposed'[s] \/ (s = o.store /\ e \in Elems(o) /\ e \in file[s])
  BY <1>1, <1>3 DEF TypeInv, UnmetInv
<1>7. \A e \in Kept : e \in Kept' \/ (o.store = "queue" /\ e \in Elems(o))
  BY <1>2, <1>3, <1>6 DEF Kept, SharedTmp
<1>8. ReviewKeepsHosts'
  <2> SUFFICES ASSUME NEW e \in recorded' PROVE e \in file["queue"] \cup Kept'
    BY <1>2 DEF ReviewKeepsHosts, Kept
  <2>1. CASE o.store = "queue" /\ e \in Elems(o)
    BY <1>5, <2>1 DEF Kept, SharedTmp
  <2>2. CASE ~(o.store = "queue" /\ e \in Elems(o))
    <3>1. e \in recorded
      BY <1>3, <2>2
    <3>2. e \in file["queue"] \cup Kept
      BY <3>1 DEF ReviewInv, ReviewKeepsHosts, Kept
    <3> QED
      BY <1>7, <2>2, <3>2
  <2> QED
    BY <2>1, <2>2
<1>9. ASSUME NEW b \in Actor, NEW k \in listed'[b]
      PROVE  /\ k \in listed[b] /\ b \in Command
             /\ \A p : Pending(b, p) /\ (b = a => p # o) => Pending(b, p)'
  <2>1. k \in listed[b]
    BY <1>2, <1>9
  <2>2. b \in Command
    BY <2>1 DEF ReviewInv, Actor
  <2> QED
    BY <1>2, <2>1, <2>2 DEF Pending
<1>10. ASSUME NEW b \in Actor, NEW k \in listed'[b]
       PROVE  Pending(b, Resolve(k))'
  <2>1. b = a => Resolve(k) # o
    BY <1>2, <1>10 DEF Resolve, Drop
  <2> QED
    BY <1>9, <1>10, <2>1 DEF ReviewInv
<1>11. ASSUME NEW b \in Actor, NEW k \in listed'[b], NEW h \in Host,
              <<k, h>> \in recorded' \cap file["queue"]
       PROVE  <<k, h>> \in Kept' \/ Pending(b, Add("catalog", k, {h}))'
  <2>1. k \in listed[b] /\ b \in Command
    BY <1>9, <1>11
  <2>2. CASE o.store = "queue" /\ <<k, h>> \in Elems(o)
    <3>1. InReview(o.key)
      BY <2>1, <2>2 DEF InReview, Elems
    <3> QED
      BY <1>3, <2>2, <3>1 DEF Kept
  <2>3. CASE ~(o.store = "queue" /\ <<k, h>> \in Elems(o))
    <3>1. <<k, h>> \in recorded
      BY <1>3, <1>11, <2>3
    <3>2. <<k, h>> \in Kept \/ Pending(b, Add("catalog", k, {h}))
      BY <1>11, <2>1, <3>1 DEF ReviewInv
    <3>3. o = Add("catalog", k, {h}) => <<k, h>> \in Kept'
      <4>1. ASSUME o = Add("catalog", k, {h}) PROVE <<k, h>> \in Elems(o) /\ o.store = "catalog"
        BY <4>1 DEF Add, Elems
      <4> QED
        BY <1>2, <1>5, <4>1 DEF Kept, SharedTmp
    <3> QED
      BY <1>7, <1>9, <1>11, <2>3, <3>2, <3>3
  <2> QED
    BY <2>2, <2>3
<1>12. \A b \in Goroutine : listed'[b] = {}
  BY <1>2 DEF ReviewInv, Actor
<1>13. \A b \in Actor : pc'[b] # "idle" => pc[b] # "idle" /\ todo'[b] = todo[b] /\ op'[b] = op[b]
  BY <1>2
<1>14. recorded' \subseteq Elem
  BY <1>3, <1>4 DEF ReviewInv
<1> QED
  BY <1>2, <1>8, <1>10, <1>11, <1>12, <1>13, <1>14 DEF ReviewInv

\* An approval is about to pin all it has listed; no other call lists anything.
LEMMA ReviewCall ==
    ASSUME StoresInv, ReviewInv, NEW a \in Actor, NEW os, Call(a, os),
           \/ UNCHANGED listed
           \/ a \in Command /\ os = Approve /\ listed' = [listed EXCEPT ![a] = Listed]
    PROVE  ReviewInv'
<1>1. /\ TypeInv /\ UNCHANGED <<file, pc, op, recorded, answered, exposed>>
      /\ pc[a] = "idle" /\ todo[a] = {} /\ todo' = [todo EXCEPT ![a] = os]
  BY DEF StoresInv, Call, Idle, history, reviews
<1>2. \A b \in Actor \ {a} : todo'[b] = todo[b]
  BY <1>1 DEF TypeInv
<1>3. listed[a] = {}
  BY <1>1 DEF ReviewInv, Pending
<1>4. ASSUME NEW b \in Actor, NEW k \in listed'[b]
      PROVE  /\ Pending(b, Resolve(k))'
             /\ \A h \in Host : <<k, h>> \in recorded \cap file["queue"] =>
                   <<k, h>> \in Kept \/ Pending(b, Add("catalog", k, {h}))'
  <2>1. CASE b # a
    BY <1>1, <1>2, <1>4, <2>1 DEF ReviewInv, Pending, TypeInv
  <2>2. CASE b = a
    <3>1. k \in Listed /\ todo'[a] = Approve
      BY <1>1, <1>3, <1>4, <2>2 DEF TypeInv
    <3>2. Resolve(k) \in Approve
      BY <3>1 DEF Approve
    <3>3. ASSUME NEW h \in Host, <<k, h>> \in recorded \cap file["queue"]
          PROVE  Add("catalog", k, {h}) \in Approve
      <4>1. <<k, h>>[1] = k /\ <<k, h>>[2] = h /\ <<k, h>> \in Queued
        BY <3>3 DEF ReviewInv, Queued
      <4> QED
        BY <4>1 DEF Approve
    <3> QED
      BY <2>2, <3>1, <3>2, <3>3 DEF Pending
  <2> QED
    BY <2>1, <2>2
<1>5. \A b \in Goroutine : listed'[b] = {}
  BY <1>1, StoresAssumption DEF ReviewInv, TypeInv, Actor
<1>6. \A b \in Actor : pc'[b] # "idle" => todo'[b] = todo[b] /\ op'[b] = op[b]
  BY <1>1, <1>2
<1>7. UNCHANGED Kept
  BY <1>1 DEF Kept
<1> QED
  BY <1>1, <1>4, <1>5, <1>6, <1>7 DEF ReviewInv, ReviewKeepsHosts

\* Who gives up or dies is no longer in an approval.
LEMMA ReviewGivesUp ==
    ASSUME ReviewInv, NEW dead \in SUBSET Actor, UNCHANGED <<file, exposed, reviews>>,
           \A b \in dead : listed'[b] = {} /\ pc'[b] = "idle",
           \A b \in Actor \ dead : /\ listed'[b] = listed[b] /\ todo'[b] = todo[b]
                                   /\ pc'[b] = pc[b] /\ op'[b] = op[b]
    PROVE  ReviewInv'
<1>1. UNCHANGED <<recorded, answered>> /\ UNCHANGED Kept
  BY DEF reviews, Kept
<1>2. \A b \in Actor : pc'[b] # "idle" => b \notin dead
  OBVIOUS
<1>3. \A b \in Actor : listed'[b] # {} => b \notin dead
  OBVIOUS
<1>4. \A p : \A b \in Actor \ dead : Pending(b, p)' <=> Pending(b, p)
  BY DEF Pending
<1>5. \A b \in Goroutine : listed'[b] = {}
  BY DEF ReviewInv, Actor
<1>6. ASSUME NEW b \in Actor, NEW k \in listed'[b]
      PROVE  /\ Pending(b, Resolve(k))'
             /\ \A h \in Host : <<k, h>> \in recorded \cap file["queue"] =>
                   <<k, h>> \in Kept \/ Pending(b, Add("catalog", k, {h}))'
  <2>1. b \notin dead /\ k \in listed[b]
    BY <1>3, <1>6
  <2> QED
    BY <1>4, <2>1 DEF ReviewInv
<1>7. \A b \in Actor : pc'[b] # "idle" => pc[b] # "idle" /\ todo'[b] = todo[b] /\ op'[b] = op[b]
  BY <1>2
<1> QED
  BY <1>1, <1>5, <1>6, <1>7 DEF ReviewInv, ReviewKeepsHosts

LEMMA ReviewKeeps == StoresInv /\ ReviewInv /\ [Next]_vars => ReviewInv'
<1> SUFFICES ASSUME StoresInv, ReviewInv, [Next]_vars PROVE ReviewInv'
  OBVIOUS
<1>1. ASSUME UNCHANGED <<file, listed, todo, pc, op, exposed, recorded, answered>>
      PROVE  ReviewInv'
  BY <1>1 DEF ReviewInv, ReviewKeepsHosts, Pending, Kept
<1>2. CASE UNCHANGED vars \/ Start
  BY <1>1, <1>2 DEF vars, local, history, reviews, Start
<1>3. ASSUME NEW a \in Actor, Skip(a) \/ Open(a) PROVE ReviewInv'
  <2>1. /\ UNCHANGED <<file, listed, todo, op, recorded, answered, exposed>>
        /\ \A b \in Actor : pc'[b] # "idle" <=> pc[b] # "idle"
    BY <1>3 DEF Skip, Open, history, reviews, StoresInv, TypeInv
  <2>2. UNCHANGED Kept
    BY <2>1 DEF Kept
  <2> QED
    BY <2>1, <2>2, ReviewStays
<1>4. CASE \E a \in Goroutine : DaemonCall(a)
  BY <1>4, ReviewCall DEF DaemonCall, Actor
<1>5. ASSUME NEW a \in Command, RunCommand(a) \/ RunApproval(a) PROVE ReviewInv'
  BY <1>5, ReviewCall DEF RunCommand, RunApproval, Actor
<1>6. ASSUME NEW dead \in SUBSET Actor, Die(dead) PROVE ReviewInv'
  BY <1>6, ReviewGivesUp DEF Die
<1>7. CASE KillDaemon \/ \E a \in Command : KillCommand(a)
  BY <1>6, <1>7 DEF KillDaemon, KillCommand, Actor
<1>8. ASSUME NEW a \in Actor, Fail(a) PROVE ReviewInv'
  <2>1. /\ UNCHANGED <<file, exposed, reviews>> /\ listed'[a] = {} /\ pc'[a] = "idle"
        /\ \A b \in Actor \ {a} : /\ listed'[b] = listed[b] /\ todo'[b] = todo[b]
                                  /\ pc'[b] = pc[b] /\ op'[b] = op[b]
    BY <1>8 DEF Fail, Settle, StoresInv, TypeInv
  <2>2. {a} \in SUBSET Actor
    OBVIOUS
  <2> QED
    BY <2>1, <2>2, ReviewGivesUp
<1>9. ASSUME NEW a \in Actor, Step(a) PROVE ReviewInv'
  BY <1>3, <1>8, <1>9, ReviewLoad, ReviewWrite, ReviewRename, ReviewPublish DEF Step
<1> QED
  BY <1>2, <1>4, <1>5, <1>7, <1>9 DEF Next

(* What was put in the review queue is still on it, or pinned, or was      *)
(* answered, however approvals stop; save for what was exposed when two    *)
(* processes met on the queue or on the catalog, and what came while its   *)
(* binary was being approved (Record, approveAll).                         *)
THEOREM ReviewProved == Spec => []ReviewKeepsHosts
<1>1. Init => StoresInv /\ ReviewInv
  <2>1. Init => ReviewInv
    BY DEF Init, ReviewInv, ReviewKeepsHosts, Actor
  <2> QED
    BY <2>1, InitStores
<1>2. StoresInv /\ ReviewInv /\ [Next]_vars => (StoresInv /\ ReviewInv)'
  BY StoresKeep, ReviewKeeps
<1>3. ReviewInv => ReviewKeepsHosts
  BY DEF ReviewInv
<1> QED
  BY <1>1, <1>2, <1>3, PTL DEF Spec
===============================================================================
