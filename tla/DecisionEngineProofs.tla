------------------------- MODULE DecisionEngineProofs -------------------------
(***************************************************************************)
(* The engine, for any number of connections, programs, hosts and layers;  *)
(* and the caches it asks.                                                 *)
(*                                                                         *)
(* The lookup and the lists first: what they answer has a reason.  Then    *)
(* what a connection carries from the step that found a reason to the one  *)
(* that acts on it (Carried), what the log says meanwhile (Told), and that *)
(* facts and records, once there, stay (Grows).                            *)
(*                                                                         *)
(* Of the caches, for any number of goroutines, subjects and versions and  *)
(* any limits: which versions may be stored under a key while others look  *)
(* (VersionInv), and how much older than its place in the cache an answer  *)
(* or a sample may be (AgeInv, ProbeInv).                                  *)
(***************************************************************************)
EXTENDS DecisionEngine, Caches, FiniteSetTheorems, TLAPS

Verdicts == {"none", "stale", "context", "fact", "never"}

(* The answers of one entry (Verdict). *)
LEMMA VerdictIn ==
    ASSUME NEW e, NEW i, NEW h PROVE Verdict(e, i, h) \in Verdicts
  BY DEF Verdict, Verdicts

(* The order in which Lookup prefers them. *)
LEMMA Ranks ==
    /\ Rank("none") = 0 /\ Rank("stale") = 1 /\ Rank("context") = 2
    /\ Rank("fact") = 3 /\ Rank("never") = 4
  BY DEF Rank

(* Of the verdicts of its entries Lookup answers one that none outranks. *)
LEMMA Strongest ==
    ASSUME NEW c, NEW i, NEW h
    PROVE  LET said == {"none"} \cup {Verdict(c[k], i, h) : k \in 1..Len(c)}
           IN  /\ Lookup(c, i, h) \in said
               /\ \A w \in said : Rank(w) <= Rank(Lookup(c, i, h))
<1> DEFINE said == {"none"} \cup {Verdict(c[k], i, h) : k \in 1..Len(c)}
<1>1. said \subseteq Verdicts /\ "none" \in said
  BY VerdictIn DEF Verdicts
<1> HIDE DEF said
<1>2. \E v \in said : \A w \in said : Rank(w) <= Rank(v)
  <2>1. CASE "never" \in said
    BY <1>1, <2>1, Ranks DEF Verdicts
  <2>2. CASE "never" \notin said /\ "fact" \in said
    BY <1>1, <2>2, Ranks DEF Verdicts
  <2>3. CASE {"never", "fact"} \cap said = {} /\ "context" \in said
    BY <1>1, <2>3, Ranks DEF Verdicts
  <2>4. CASE {"never", "fact", "context"} \cap said = {} /\ "stale" \in said
    BY <1>1, <2>4, Ranks DEF Verdicts
  <2>5. CASE {"never", "fact", "context", "stale"} \cap said = {}
    BY <1>1, <2>5, Ranks DEF Verdicts
  <2> QED
    BY <2>1, <2>2, <2>3, <2>4, <2>5
<1>3. Lookup(c, i, h) = CHOOSE v \in said : \A w \in said : Rank(w) <= Rank(v)
  BY DEF Lookup, said
<1> QED
  BY <1>2, <1>3 DEF said

(* An answer but "none" is that of an entry. *)
LEMMA LookupSays ==
    ASSUME NEW c, NEW i, NEW h, Lookup(c, i, h) # "none"
    PROVE  Says(c, i, h, Lookup(c, i, h))
  BY Strongest DEF Says

(* A never of any entry is the answer. *)
LEMMA NeverWins ==
    ASSUME NEW c, NEW i, NEW h, Says(c, i, h, "never")
    PROVE  Lookup(c, i, h) = "never"
<1> DEFINE said == {"none"} \cup {Verdict(c[k], i, h) : k \in 1..Len(c)}
<1>1. "never" \in said /\ said \subseteq Verdicts
  BY VerdictIn DEF Says, Verdicts
<1>2. Lookup(c, i, h) \in said /\ \A w \in said : Rank(w) <= Rank(Lookup(c, i, h))
  BY Strongest
<1>3. Rank("never") <= Rank(Lookup(c, i, h)) /\ Lookup(c, i, h) \in Verdicts
  BY <1>1, <1>2
<1> HIDE DEF said
<1> QED
  BY <1>3, Ranks DEF Verdicts

(* AddIfAbsent keeps what the entries say. *)
LEMMA AddKeeps ==
    ASSUME NEW c \in Seq(Entry), NEW e \in Entry
    PROVE  /\ AddIfAbsent(c, e) \in Seq(Entry)
           /\ \A i, h, v : Says(c, i, h, v) => Says(AddIfAbsent(c, e), i, h, v)
<1>1. CASE AddIfAbsent(c, e) = c
  BY <1>1
<1>2. CASE AddIfAbsent(c, e) = Append(c, e)
  <2>1. Append(c, e) \in Seq(Entry) /\ 1..Len(c) \subseteq 1..Len(Append(c, e))
    OBVIOUS
  <2>2. \A k \in 1..Len(c) : Append(c, e)[k] = c[k]
    OBVIOUS
  <2> QED
    BY <1>2, <2>1, <2>2 DEF Says
<1> QED
  BY <1>1, <1>2 DEF AddIfAbsent

-----------------------------------------------------------------------------
(* The lists. *)
LEMMA Order ==
    /\ DOMAIN Resolution = 1..5
    /\ Resolution[1] = List("knownBad", "deny") /\ Resolution[2] = List("user", "deny")
    /\ Resolution[3] = List("user", "allow")
    /\ Resolution[4] = List("defaults", "deny") /\ Resolution[5] = List("defaults", "allow")
  BY DEF Resolution

(* The least of some of the lists. *)
LEMMA First ==
    ASSUME NEW hits \in SUBSET (1..5), hits # {}
    PROVE  \E i \in hits : \A j \in hits : i <= j
<1>1. CASE 1 \in hits
  BY <1>1
<1>2. CASE 1 \notin hits /\ 2 \in hits
  BY <1>2
<1>3. CASE 1 \notin hits /\ 2 \notin hits /\ 3 \in hits
  BY <1>3
<1>4. CASE 1 \notin hits /\ 2 \notin hits /\ 3 \notin hits /\ 4 \in hits
  BY <1>4
<1>5. CASE hits \cap 1..4 = {}
  <2>1. PICK i \in hits : TRUE
    OBVIOUS
  <2>2. \A j \in hits : j = 5
    BY <1>5
  <2> QED
    BY <2>1, <2>2
<1> QED
  BY <1>1, <1>2, <1>3, <1>4, <1>5

(* An allow of the walk over the lists is one that no deny of its layer or *)
(* of one above it covers (Allowlist.Decide).                              *)
LEMMA DecideAllows ==
    ASSUME NEW h, Decide(h) = "allow"
    PROVE  Allowlisted(h)
<1> DEFINE hits == {i \in DOMAIN Resolution : AnyMatch(Resolution[i].patterns, h)}
           first == CHOOSE i \in hits : \A j \in hits : i <= j
<1>1. hits # {} /\ Resolution[first].verdict = "allow"
  BY DEF Decide
<1>2. hits \in SUBSET (1..5)
  BY Order
<1>3. first \in hits /\ \A j \in hits : first <= j
  <2> HIDE DEF hits
  <2> QED
    BY <1>1, <1>2, First
<1>4. /\ 1 \in hits <=> AnyMatch(Layers["knownBad"]["deny"], h)
      /\ 2 \in hits <=> AnyMatch(Layers["user"]["deny"], h)
      /\ 3 \in hits <=> AnyMatch(Layers["user"]["allow"], h)
      /\ 4 \in hits <=> AnyMatch(Layers["defaults"]["deny"], h)
      /\ 5 \in hits <=> AnyMatch(Layers["defaults"]["allow"], h)
  BY Order DEF List
<1> HIDE DEF hits, first
<1>5. first \in {3, 5}
  <2>1. first \in 1..5
    BY <1>2, <1>3
  <2>2. first \notin {1, 2, 4}
    BY <1>1, Order DEF List
  <2> QED
    BY <2>1, <2>2
<1>6. CASE first = 3
  <2>1. 3 \in hits /\ 1 \notin hits /\ 2 \notin hits
    BY <1>2, <1>3, <1>6
  <2> QED
    BY <2>1, <1>4 DEF Allowlisted, Allowed, Denied
<1>7. CASE first = 5
  <2>1. 5 \in hits /\ 1 \notin hits /\ 2 \notin hits /\ 4 \notin hits
    BY <1>2, <1>3, <1>7
  <2> QED
    BY <2>1, <1>4 DEF Allowlisted, Allowed, Denied
<1> QED
  BY <1>5, <1>6, <1>7
-----------------------------------------------------------------------------
(* What all connections share, and what each of them has.                  *)

SharedType ==
    /\ disk \in [Exe -> Hash] /\ catalog \in Seq(Entry) /\ IsFiniteSet(pending)

Own == <<pc, exe, sig, host, id, match, verdict, why, logged, upstream, asked>>

OwnType ==
    /\ DOMAIN pc = Conn /\ DOMAIN exe = Conn /\ DOMAIN sig = Conn
    /\ DOMAIN host = Conn /\ DOMAIN id = Conn
    /\ DOMAIN match = Conn /\ DOMAIN verdict = Conn /\ DOMAIN why = Conn
    /\ DOMAIN logged = Conn /\ DOMAIN upstream = Conn /\ DOMAIN asked = Conn

Grace == "unratified_binary_grace"
Stale(s) == match[s] = "stale" /\ Says(catalog, id[s], host[s], "stale")

\* What a connection carries to the step that acts on it.
Carried(s) ==
    /\ id[s] \in Identity /\ exe[s] \in Exe \cup {None} /\ sig[s] \in {exe[s], None}
    /\ pc[s] \in {"identify", "consult", "count", "prompt", "bind", "record"} => host[s] \in Host
    /\ pc[s] = "exempt" => sig[s] \in Exempt
    /\ pc[s] \in {"count", "record"} => Stale(s)
    /\ pc[s] = "record" => why[s] = Grace
    /\ pc[s] = "bind" => IF why[s] = Grace THEN Stale(s) ELSE Grounds(s)
    /\ pc[s] = "decided" /\ verdict[s] = "allow" => Grounds(s)
    /\ upstream[s] # "no" => pc[s] \in {"replay", "log", "splicing", "closed"}
    /\ upstream[s] # "no" /\ ~opts.observe => Grounds(s)

\* What the log has of a connection, and will have.
Entered(s) == [kind |-> "decision", action |-> verdict[s],
             decision |-> IF sig[s] \in Exempt THEN "allow" ELSE Decision(s)]
Told(s) ==
    /\ pc[s] \notin {"splicing", "closed"} => logged[s] = <<>>
    /\ pc[s] = "replay" => upstream[s] = "dialed" /\ Forwards(s)
    /\ pc[s] = "log" => upstream[s] = "open" /\ Forwards(s)
    /\ pc[s] \notin {"new", "accepted", "exempt", "splicing", "closed"} => sig[s] \notin Exempt
    /\ pc[s] = "splicing" => /\ upstream[s] = "open" /\ logged[s] = <<Entered(s)>>
                             /\ Entered(s).decision # "deny"

\* ... and has when it is closed.
Faithful(s) ==
    pc[s] = "closed" =>
        LET first == logged[s][1] IN
          /\ Len(logged[s]) = IF upstream[s] = "open" THEN 2 ELSE 1
          /\ first.kind = "decision"
          /\ first.decision = "allow" => upstream[s] = "open"
          /\ first.decision = "deny"  => \/ upstream[s] = "no"
                                         \/ /\ upstream[s] = "partly"
                                            /\ why[s] = "upstream_write_failed"
          /\ \A r \in {logged[s][i] : i \in 2..Len(logged[s])} :
                 r.kind = "flow" /\ r.decision = first.decision /\ r.action = first.action

ConnInv(s) == Carried(s) /\ Told(s) /\ Faithful(s)
EngineInv  == SharedType /\ OwnType /\ \A s \in Conn : ConnInv(s)

\* Facts and records stay; the settings are fixed.
Grows ==
    /\ opts' = opts /\ recorded \subseteq recorded'
    /\ \A i, h, v : Says(catalog, i, h, v) => Says(catalog', i, h, v)
    /\ SharedType'

\* A step of the connection s leaves the others alone.
Others(s) ==
    /\ OwnType'
    /\ \A c \in Conn \ {s} :
          /\ pc'[c] = pc[c] /\ exe'[c] = exe[c] /\ sig'[c] = sig[c] /\ host'[c] = host[c] /\ id'[c] = id[c]
          /\ match'[c] = match[c] /\ verdict'[c] = verdict[c] /\ why'[c] = why[c]
          /\ logged'[c] = logged[c] /\ upstream'[c] = upstream[c] /\ asked'[c] = asked[c]

(* Initially every connection is still to come.                            *)
LEMMA InitInv == Init => EngineInv
<1> SUFFICES ASSUME Init PROVE EngineInv
  OBVIOUS
<1>1. SharedType /\ OwnType
  BY FS_EmptySet, EngineAssumption DEF Init, SharedType, OwnType
<1>2. \A s \in Conn : id[s] \in Identity /\ exe[s] = None /\ sig[s] = None
  BY DEF Init, Nobody, Identity
<1>3. \A s \in Conn : pc[s] = "new" /\ upstream[s] = "no" /\ logged[s] = <<>>
  BY DEF Init
<1> QED
  BY <1>1, <1>2, <1>3 DEF EngineInv, ConnInv, Carried, Told, Faithful

(* Grounds, once there, stay: facts and records do, and the user's answer. *)
LEMMA GroundsStay ==
    ASSUME Grows, NEW c \in Conn,
           exe'[c] = exe[c], sig'[c] = sig[c], host'[c] = host[c], id'[c] = id[c], match'[c] = match[c],
           asked'[c] = asked[c]
    PROVE  /\ Grounds(c) => Grounds(c)'
           /\ Stale(c) => Stale(c)'
<1>1. /\ Pinned(c) => Pinned(c)'
      /\ Changed(c) => Changed(c)'
      /\ Stale(c) => Stale(c)'
  BY DEF Grows, Pinned, Changed, Stale
<1>2. Allowlisted(host[c])' <=> Allowlisted(host[c])
  BY DEF Allowlisted, Allowed, Denied
<1> QED
  BY <1>1, <1>2 DEF Grounds, Exempt

(* What a connection has no part in is nothing to it.                      *)
LEMMA StillKeeps ==
    ASSUME EngineInv, Grows, NEW c \in Conn,
           pc'[c] = pc[c], exe'[c] = exe[c], sig'[c] = sig[c], host'[c] = host[c], id'[c] = id[c],
           match'[c] = match[c], verdict'[c] = verdict[c], why'[c] = why[c],
           logged'[c] = logged[c], upstream'[c] = upstream[c], asked'[c] = asked[c]
    PROVE  ConnInv(c)'
<1>1. opts' = opts /\ Carried(c) /\ Told(c) /\ Faithful(c)
  BY DEF Grows, EngineInv, ConnInv
<1>2. (Grounds(c) => Grounds(c)') /\ (Stale(c) => Stale(c)')
  BY GroundsStay
<1>3. Carried(c)'
  BY <1>1, <1>2 DEF Carried
<1>4. Told(c)'
  BY <1>1 DEF Told, Forwards, Entered, Decision, Exempt
<1>5. Faithful(c)'
  BY <1>1 DEF Faithful
<1> QED
  BY <1>3, <1>4, <1>5 DEF ConnInv

(* So a step is judged by its own connection.                              *)
LEMMA Alone ==
    ASSUME EngineInv, Grows, NEW s, Others(s), s \in Conn => ConnInv(s)'
    PROVE  EngineInv'
<1>1. \A c \in Conn \ {s} : ConnInv(c)'
  BY StillKeeps DEF Others
<1> QED
  BY <1>1 DEF EngineInv, Others, Grows
LEMMA SharedStays ==
    ASSUME EngineInv, UNCHANGED shared PROVE Grows
  BY DEF EngineInv, Grows, shared, SharedType

(* One decision in the log, nothing upstream: closed connections.          *)
LEMMA ClosedFaithful ==
    ASSUME NEW s \in Conn, NEW d, NEW a,
           logged'[s] = <<[kind |-> "decision", decision |-> d, action |-> a]>>,
           \/ upstream'[s] = "no"
           \/ upstream'[s] = "partly" /\ why'[s] = "upstream_write_failed",
           d # "allow"
    PROVE  Faithful(s)'
  BY DEF Faithful

(* The exits before a decision, and the exempt fast path.                  *)
LEMMA FirstStepsKeep ==
    ASSUME EngineInv, NEW s \in Conn,
           \/ Accept(s) \/ DestUnknown(s) \/ Attribute(s) \/ HelloFails(s) \/ ParseHello(s)
    PROVE  EngineInv'
<1>1. Grows
  BY SharedStays DEF Accept, DestUnknown, Attribute, HelloFails, ParseHello
<1>2. OwnType /\ ConnInv(s)
  BY DEF EngineInv
<1>3. CASE Accept(s)
  <2>1. /\ Others(s) /\ pc[s] = "new" /\ pc'[s] = "accepted"
        /\ UNCHANGED <<upstream, logged, id, exe, sig>>
    BY <1>2, <1>3 DEF Accept, At, Go, OwnType, Others, local
  <2>2. ConnInv(s)'
    BY <1>2, <2>1 DEF ConnInv, Carried, Told, Faithful
  <2> QED
    BY <1>1, <2>1, <2>2, Alone
<1>4. CASE DestUnknown(s) \/ HelloFails(s)
  <2>1. /\ Others(s) /\ pc[s] \in {"accepted", "hello"} /\ pc'[s] = "closed"
        /\ UNCHANGED <<upstream, id, exe, sig>>
        /\ logged'[s] = Append(logged[s], [kind |-> "decision", decision |-> "deny",
                                           action |-> "deny"])
    BY <1>2, <1>4 DEF DestUnknown, HelloFails, Refuse, Write, At, Go, OwnType, Others, local
  <2>2. /\ upstream[s] = "no" /\ logged[s] = <<>>
        /\ id[s] \in Identity /\ exe[s] \in Exe \cup {None} /\ sig[s] \in {exe[s], None}
    BY <1>2, <2>1 DEF ConnInv, Carried, Told
  <2>3. Faithful(s)'
    BY <2>1, <2>2, ClosedFaithful
  <2>4. Carried(s)' /\ Told(s)'
    BY <2>1, <2>2 DEF Carried, Told
  <2> QED
    BY <1>1, <2>1, <2>3, <2>4, Alone DEF ConnInv
<1>5. CASE Attribute(s)
  <2>1. /\ Others(s) /\ pc[s] = "accepted" /\ UNCHANGED <<upstream, logged, id>>
        /\ exe'[s] \in Exe \cup {None} /\ sig'[s] \in {exe'[s], None}
        /\ pc'[s] = IF sig'[s] \in Exempt THEN "exempt" ELSE "hello"
    BY <1>2, <1>5 DEF Attribute, At, Go, OwnType, Others, local
  <2>2. ConnInv(s)'
    BY <1>2, <2>1 DEF ConnInv, Carried, Told, Faithful, Exempt
  <2> QED
    BY <1>1, <2>1, <2>2, Alone
<1>6. CASE ParseHello(s)
  <2>1. /\ Others(s) /\ pc[s] = "hello" /\ UNCHANGED <<upstream, logged, id, exe, sig>>
        /\ pc'[s] = "identify" /\ host'[s] \in Host
    BY <1>2, <1>6 DEF ParseHello, At, Go, OwnType, Others, local
  <2>2. ConnInv(s)'
    BY <1>2, <2>1 DEF ConnInv, Carried, Told, Faithful, Exempt
  <2> QED
    BY <1>1, <2>1, <2>2, Alone
<1> QED
  BY <1>3, <1>4, <1>5, <1>6

LEMMA ForwardExemptKeeps ==
    ASSUME EngineInv, NEW s \in Conn, ForwardExempt(s) PROVE EngineInv'
<1>1. Grows
  BY SharedStays DEF ForwardExempt
<1>2. /\ OwnType /\ ConnInv(s) /\ pc[s] = "exempt" /\ sig[s] \in Exempt
      /\ upstream[s] = "no" /\ logged[s] = <<>>
      /\ id[s] \in Identity /\ exe[s] \in Exe \cup {None} /\ sig[s] \in {exe[s], None}
  BY DEF EngineInv, ForwardExempt, At, ConnInv, Carried, Told
<1>3. Others(s) /\ UNCHANGED <<id, exe, sig>>
  BY <1>2 DEF ForwardExempt, Refuse, Write, Go, OwnType, Others, local
<1>4. CASE pc'[s] = "closed"
  <2>1. /\ upstream'[s] = "no"
        /\ logged'[s] = <<[kind |-> "decision", decision |-> "deny", action |-> "deny"]>>
    BY <1>2, <1>4 DEF ForwardExempt, Refuse, Write, Go, OwnType
  <2>2. Faithful(s)'
    BY <2>1, ClosedFaithful
  <2>3. Carried(s)' /\ Told(s)'
    BY <1>2, <1>3, <1>4, <2>1 DEF Carried, Told
  <2> QED
    BY <1>1, <1>3, <2>2, <2>3, Alone DEF ConnInv
<1>5. CASE pc'[s] # "closed"
  <2>1. /\ upstream'[s] = "open" /\ pc'[s] = "splicing" /\ verdict'[s] = "allow"
        /\ logged'[s] = <<[kind |-> "decision", decision |-> "allow", action |-> "allow"]>>
    BY <1>2, <1>5 DEF ForwardExempt, Refuse, Write, Go, OwnType
  <2>2. sig[s] = exe[s] /\ exe[s] \in Exempt \cap Signed /\ NameOf[exe[s]] \notin Interpreter
    BY <1>2, CatalogAssumption DEF Exempt, IsExempt
  <2>3. Carried(s)'
    BY <1>2, <1>3, <2>1, <2>2 DEF Carried, Grounds, Exempt
  <2>4. Told(s)'
    <3>1. Entered(s)' = [kind |-> "decision", action |-> "allow", decision |-> "allow"]
      BY <1>2, <1>3, <2>1 DEF Entered, Exempt
    <3> QED
      BY <2>1, <3>1 DEF Told
  <2>5. Faithful(s)'
    BY <2>1 DEF Faithful
  <2> QED
    BY <1>1, <1>3, <2>3, <2>4, <2>5, Alone DEF ConnInv
<1> QED
  BY <1>4, <1>5
(* What the connection knows of itself.                                    *)
LEMMA IdentifyKeeps ==
    ASSUME EngineInv, NEW s \in Conn, Identify(s) PROVE EngineInv'
<1>1. Grows
  BY SharedStays DEF Identify
<1>2. /\ OwnType /\ SharedType /\ ConnInv(s) /\ pc[s] = "identify"
  BY DEF EngineInv, Identify, At
<1>3. /\ Others(s) /\ pc'[s] = "consult" /\ UNCHANGED <<exe, sig, host, upstream, logged>>
  BY <1>2 DEF Identify, Go, OwnType, Others
<1>4. id'[s] \in Identity
  <2>1. id[s] \in Identity
    BY <1>2 DEF ConnInv, Carried
  <2> DEFINE team == IF sig[s] = exe[s] THEN TeamOf[exe[s]] ELSE None
  <2>2. ASSUME exe[s] \in Exe
        PROVE  /\ [Nobody EXCEPT !.name = NameOf[exe[s]], !.team = team] \in Identity
               /\ [[Nobody EXCEPT !.name = NameOf[exe[s]], !.team = team]
                     EXCEPT !.path = exe[s], !.hash = disk[exe[s]]] \in Identity
    <3>1. /\ NameOf[exe[s]] \in Name /\ team \in Team \cup {None}
          /\ disk[exe[s]] \in Hash
      BY <1>2, <2>2, PolicyAssumption DEF SharedType
    <3> HIDE DEF team
    <3> QED
      BY <2>2, <3>1 DEF Nobody, Identity
  <2>3. \/ id'[s] = id[s]
        \/ exe[s] # None /\ id'[s] = [Nobody EXCEPT !.name = NameOf[exe[s]], !.team = team]
        \/ exe[s] # None /\ id'[s] = [[Nobody EXCEPT !.name = NameOf[exe[s]], !.team = team]
                                         EXCEPT !.path = exe[s], !.hash = disk[exe[s]]]
    BY <1>2 DEF Identify, OwnType
  <2>4. exe[s] \in Exe \cup {None}
    BY <1>2 DEF ConnInv, Carried
  <2> QED
    BY <2>1, <2>2, <2>3, <2>4
<1>5. ConnInv(s)'
  BY <1>2, <1>3, <1>4 DEF ConnInv, Carried, Told, Faithful, Exempt
<1> QED
  BY <1>1, <1>3, <1>5, Alone

(* The lists and the catalog.                                              *)
LEMMA ConsultKeeps ==
    ASSUME EngineInv, NEW s \in Conn, Consult(s) PROVE EngineInv'
<1>1. Grows
  BY SharedStays DEF Consult
<1>2. /\ OwnType /\ ConnInv(s) /\ pc[s] = "consult" /\ upstream[s] = "no" /\ logged[s] = <<>>
      /\ host[s] \in Host /\ id[s] \in Identity /\ sig[s] \notin Exempt
  BY DEF EngineInv, Consult, At, ConnInv, Carried, Told
<1> DEFINE listed == Decide(host[s])
           m == IF listed = "unknown" THEN Lookup(catalog, id[s], host[s]) ELSE "none"
<1>3. /\ Others(s) /\ UNCHANGED <<exe, sig, host, id, upstream, logged, asked, catalog, recorded>>
      /\ match'[s] = m
  BY <1>2 DEF Consult, Go, Allow, Deny, AskUser, OwnType, Others, Allowlist, shared
<1>4. \/ listed = "allow" /\ pc'[s] = "bind" /\ why'[s] = ""
      \/ verdict'[s] = "deny" /\ pc'[s] = "decided"
      \/ m = "fact" /\ pc'[s] = "bind" /\ why'[s] = "catalog_fact"
      \/ m = "stale" /\ pc'[s] = "count"
      \/ pc'[s] = "prompt"
  BY <1>2 DEF Consult, Go, Allow, Deny, AskUser, OwnType, Allowlist
<1>5. listed = "allow" => Allowlisted(host[s])
  BY DecideAllows
<1>6. m # "none" => Says(catalog, id[s], host[s], m)
  BY LookupSays
<1> HIDE DEF listed, m
<1>7. /\ pc'[s] = "bind" => why'[s] # Grace /\ Grounds(s)'
      /\ pc'[s] = "count" => Stale(s)'
      /\ pc'[s] \in {"bind", "decided", "count", "prompt"}
      /\ pc'[s] = "decided" => verdict'[s] = "deny"
  <2>1. CASE listed = "allow" /\ pc'[s] = "bind" /\ why'[s] = ""
    BY <1>2, <1>3, <1>5, <2>1 DEF Grounds, Grace, Allowlisted, Allowed, Denied
  <2>2. CASE m = "fact" /\ pc'[s] = "bind" /\ why'[s] = "catalog_fact"
    BY <1>2, <1>3, <1>6, <2>2 DEF Grounds, Pinned, Grace
  <2>3. CASE m = "stale" /\ pc'[s] = "count"
    BY <1>2, <1>3, <1>6, <2>3 DEF Stale
  <2> QED
    BY <1>4, <2>1, <2>2, <2>3
<1>8. ConnInv(s)'
  BY <1>2, <1>3, <1>7 DEF ConnInv, Carried, Told, Faithful, Exempt
<1> QED
  BY <1>1, <1>3, <1>8, Alone

(* The grace, the address and the record.                                  *)
LEMMA GraceStepsKeep ==
    ASSUME EngineInv, NEW s \in Conn, CountGrace(s) \/ BindDest(s) PROVE EngineInv'
<1>1. Grows
  BY SharedStays DEF CountGrace, BindDest
<1>2. /\ OwnType /\ ConnInv(s) /\ pc[s] \in {"count", "bind"} /\ upstream[s] = "no"
      /\ logged[s] = <<>> /\ host[s] \in Host /\ id[s] \in Identity /\ sig[s] \notin Exempt
  BY DEF EngineInv, CountGrace, BindDest, At, ConnInv, Carried, Told
<1>3. /\ Others(s)
      /\ UNCHANGED <<exe, sig, host, id, match, upstream, logged, asked, catalog, recorded>>
  BY <1>2 DEF CountGrace, BindDest, Go, Allow, Deny, AskUser, OwnType, Others, shared, local
<1>4. /\ Grounds(s) => Grounds(s)'
      /\ Stale(s) => Stale(s)'
  BY <1>1, <1>3, GroundsStay
<1>5. CASE CountGrace(s)
  <2>1. /\ pc[s] = "count"
        /\ \/ pc'[s] = "bind" /\ why'[s] = Grace
           \/ pc'[s] = "prompt"
    BY <1>2, <1>5 DEF CountGrace, At, Go, Allow, AskUser, OwnType, Grace
  <2>2. ConnInv(s)'
    BY <1>2, <1>3, <1>4, <2>1 DEF ConnInv, Carried, Told, Faithful, Exempt
  <2> QED
    BY <1>1, <1>3, <2>2, Alone
<1>6. CASE BindDest(s)
  <2>1. /\ pc[s] = "bind"
        /\ \/ why[s] = Grace /\ pc'[s] = "record" /\ why'[s] = why[s]
           \/ why[s] # Grace /\ pc'[s] = "decided"
           \/ pc'[s] = "decided" /\ verdict'[s] = "deny"
    BY <1>2, <1>6 DEF BindDest, At, Go, Deny, OwnType, Grace
  <2>2. ConnInv(s)'
    BY <1>2, <1>3, <1>4, <2>1 DEF ConnInv, Carried, Told, Faithful, Exempt
  <2> QED
    BY <1>1, <1>3, <2>2, Alone
<1> QED
  BY <1>5, <1>6

LEMMA RecordPendingKeeps ==
    ASSUME EngineInv, NEW s \in Conn, RecordPending(s) PROVE EngineInv'
<1>1. Grows
  <2>1. \/ pending' = pending \cup {<<id[s].path, id[s].hash, host[s]>>}
        \/ pending' = pending
    BY DEF RecordPending, Queue
  <2>2. IsFiniteSet(pending')
    BY <2>1, FS_AddElement DEF EngineInv, SharedType
  <2> QED
    BY <2>2 DEF RecordPending, Queue, EngineInv, Grows, SharedType
<1>2. /\ OwnType /\ ConnInv(s) /\ pc[s] = "record" /\ upstream[s] = "no" /\ Stale(s)
      /\ logged[s] = <<>> /\ host[s] \in Host /\ id[s] \in Identity /\ sig[s] \notin Exempt
  BY DEF EngineInv, RecordPending, At, ConnInv, Carried, Told
<1>3. /\ Others(s) /\ UNCHANGED <<exe, sig, host, id, match, upstream, logged, asked>>
      /\ \/ /\ pc'[s] = "decided"
            /\ <<id[s].path, id[s].hash, host[s]>> \in recorded'
         \/ pc'[s] = "prompt"
  BY <1>2 DEF RecordPending, Queue, Go, AskUser, OwnType, Others, local
<1>4. Stale(s)'
  BY <1>1, <1>2, <1>3, GroundsStay
<1>5. pc'[s] = "decided" => Grounds(s)'
  BY <1>2, <1>3, <1>4 DEF Grounds, Changed, Stale
<1>6. ConnInv(s)'
  BY <1>2, <1>3, <1>5 DEF ConnInv, Carried, Told, Faithful, Exempt
<1> QED
  BY <1>1, <1>3, <1>6, Alone

(* The user.                                                               *)
LEMMA AnswerGrows ==
    ASSUME EngineInv, NEW s \in Conn, Answer(s) PROVE Grows
<1>1. SharedType /\ id[s] \in Identity /\ host[s] \in Host
  BY DEF EngineInv, ConnInv, Carried, Answer, At
<1>2. PICK answer \in Answers :
         catalog' = catalog \/ catalog' = AddIfAbsent(catalog, Ratified(s, answer))
  BY DEF Answer
<1>3. Ratified(s, answer) \in Entry
  <2>1. DriftIdentity(id[s]) \in Identity
    BY <1>1 DEF DriftIdentity, Nobody, Identity
  <2> QED
    BY <1>1, <2>1 DEF Ratified, Entry
<1>4. /\ catalog' \in Seq(Entry)
      /\ \A i, h, v : Says(catalog, i, h, v) => Says(catalog', i, h, v)
  BY <1>1, <1>2, <1>3, AddKeeps DEF SharedType
<1> QED
  BY <1>1, <1>4 DEF Answer, Grows, SharedType

LEMMA PromptStepsKeep ==
    ASSUME EngineInv, NEW s \in Conn, NoPrompt(s) \/ Answer(s) PROVE EngineInv'
<1>1. Grows
  BY SharedStays, AnswerGrows DEF NoPrompt
<1>2. /\ OwnType /\ ConnInv(s) /\ pc[s] = "prompt" /\ upstream[s] = "no"
      /\ logged[s] = <<>> /\ host[s] \in Host /\ id[s] \in Identity /\ sig[s] \notin Exempt
  BY DEF EngineInv, NoPrompt, Answer, At, ConnInv, Carried, Told
<1>3. Others(s) /\ UNCHANGED <<exe, sig, host, id, match, upstream, logged>>
  BY <1>2 DEF NoPrompt, Answer, Go, Allow, Deny, OwnType, Others, local
<1>4. \/ pc'[s] = "decided" /\ verdict'[s] = "deny"
      \/ /\ pc'[s] = "bind" /\ why'[s] = "user_allowed"
         /\ asked'[s] \in {"allow", "allow_always"}
  BY <1>2 DEF NoPrompt, Answer, Go, Allow, Deny, OwnType
<1>5. pc'[s] = "bind" => Grounds(s)'
  BY <1>2, <1>3, <1>4 DEF Grounds
<1>6. ConnInv(s)'
  BY <1>2, <1>3, <1>4, <1>5 DEF ConnInv, Carried, Told, Faithful, Exempt, Grace
<1> QED
  BY <1>1, <1>3, <1>6, Alone

(* What has been decided is enforced; nothing is open once the network     *)
(* has failed.                                                             *)
LEMMA RefusalsKeep ==
    ASSUME EngineInv, NEW s \in Conn,
           \/ CloseDenied(s)
           \/ At(s, "decided") /\ NetworkFails(s, "upstream_dial_failed")
           \/ At(s, "replay") /\ NetworkFails(s, "upstream_write_failed")
    PROVE  EngineInv'
<1>1. Grows
  BY SharedStays DEF CloseDenied, NetworkFails
<1>2. /\ OwnType /\ ConnInv(s) /\ pc[s] \in {"decided", "replay"} /\ logged[s] = <<>>
      /\ pc[s] = "decided" => upstream[s] = "no"
      /\ pc[s] = "replay" => upstream[s] = "dialed"
      /\ id[s] \in Identity /\ exe[s] \in Exe \cup {None} /\ sig[s] \in {exe[s], None}
  BY DEF EngineInv, CloseDenied, At, ConnInv, Carried, Told
<1>3. /\ Others(s) /\ UNCHANGED <<exe, sig, host, id, match, asked>> /\ pc'[s] = "closed"
      /\ \/ upstream'[s] = "no"
         \/ /\ pc[s] = "replay" /\ upstream'[s] = "partly"
            /\ why'[s] = "upstream_write_failed"
  <2>1. CASE CloseDenied(s)
    BY <1>2, <2>1 DEF CloseDenied, Write, At, Go, OwnType, Others, local
  <2>2. CASE At(s, "decided") /\ NetworkFails(s, "upstream_dial_failed")
    BY <1>2, <2>2 DEF NetworkFails, Sent, Write, At, Go, OwnType, Others, local
  <2>3. CASE At(s, "replay") /\ NetworkFails(s, "upstream_write_failed")
    BY <1>2, <2>3 DEF NetworkFails, Sent, Write, At, Go, OwnType, Others, local
  <2> QED
    BY <2>1, <2>2, <2>3
<1>4. \E d, a : /\ d # "allow"
                /\ logged'[s] = <<[kind |-> "decision", decision |-> d, action |-> a]>>
  <2>1. \/ logged' = [logged EXCEPT ![s] = Append(@, [kind |-> "decision",
                             decision |-> "deny", action |-> "deny"])]
        \/ logged' = [logged EXCEPT ![s] = Append(@, [kind |-> "decision",
                             decision |-> "observe", action |-> verdict[s]])]
    BY DEF CloseDenied, NetworkFails, Write
  <2>2. \/ logged'[s] = <<[kind |-> "decision", decision |-> "deny", action |-> "deny"]>>
        \/ logged'[s] = <<[kind |-> "decision", decision |-> "observe",
                           action |-> verdict[s]]>>
    BY <1>2, <2>1 DEF OwnType
  <2> QED
    BY <2>2
<1>5. Faithful(s)'
  BY <1>3, <1>4, ClosedFaithful
<1>7. upstream'[s] # "no" /\ ~opts'.observe => Grounds(s)'
  BY <1>1, <1>2, <1>3, GroundsStay DEF ConnInv, Carried, Grows
<1>6. Carried(s)' /\ Told(s)'
  BY <1>2, <1>3, <1>7 DEF Carried, Told
<1> QED
  BY <1>1, <1>3, <1>5, <1>6, Alone DEF ConnInv

LEMMA ForwardingKeeps ==
    ASSUME EngineInv, NEW s \in Conn, Dial(s) \/ Replay(s)
    PROVE  EngineInv'
<1>1. \/ /\ At(s, "decided") /\ Forwards(s) /\ upstream' = [upstream EXCEPT ![s] = "dialed"]
         /\ Go(s, "replay") /\ UNCHANGED <<shared, local, verdict, why, logged, asked>>
      \/ /\ At(s, "replay") /\ upstream' = [upstream EXCEPT ![s] = "open"]
         /\ Go(s, "log") /\ UNCHANGED <<shared, local, verdict, why, logged, asked>>
      \/ EngineInv'
  BY RefusalsKeep DEF Dial, Replay
<1>2. CASE /\ pc[s] = "decided" /\ Forwards(s) /\ upstream' = [upstream EXCEPT ![s] = "dialed"]
           /\ Go(s, "replay") /\ UNCHANGED <<shared, local, verdict, why, logged, asked>>
  <2>1. OwnType /\ ConnInv(s) /\ Grows
    BY <1>2, SharedStays DEF EngineInv
  <2>2. /\ Others(s) /\ pc'[s] = "replay" /\ upstream'[s] = "dialed"
        /\ UNCHANGED <<exe, sig, host, id, match, verdict, logged, asked>>
    BY <1>2, <2>1 DEF Go, OwnType, Others, local
  <2>3. ~opts'.observe => Grounds(s)'
    BY <1>2, <2>1, <2>2, GroundsStay DEF ConnInv, Carried, Forwards, Grows
  <2>4. Forwards(s)'
    BY <1>2, <2>1, <2>2 DEF Forwards, Grows
  <2>5. ConnInv(s)'
    BY <1>2, <2>1, <2>2, <2>3, <2>4 DEF ConnInv, Carried, Told, Faithful, Exempt
  <2> QED
    BY <2>1, <2>2, <2>5, Alone
<1>3. CASE /\ pc[s] = "replay" /\ upstream' = [upstream EXCEPT ![s] = "open"]
           /\ Go(s, "log") /\ UNCHANGED <<shared, local, verdict, why, logged, asked>>
  <2>1. OwnType /\ ConnInv(s) /\ Grows
    BY <1>3, SharedStays DEF EngineInv
  <2>2. /\ Others(s) /\ pc'[s] = "log" /\ upstream'[s] = "open"
        /\ UNCHANGED <<exe, sig, host, id, match, verdict, logged, asked>>
    BY <1>3, <2>1 DEF Go, OwnType, Others, local
  <2>3. ~opts'.observe => Grounds(s)'
    BY <1>3, <2>1, <2>2, GroundsStay DEF ConnInv, Carried, Told, Grows
  <2>4. Forwards(s)'
    BY <1>3, <2>1, <2>2 DEF ConnInv, Told, Forwards, Grows
  <2>5. ConnInv(s)'
    BY <1>3, <2>1, <2>2, <2>3, <2>4 DEF ConnInv, Carried, Told, Faithful, Exempt
  <2> QED
    BY <2>1, <2>2, <2>5, Alone
<1> QED
  BY <1>1, <1>2, <1>3 DEF At

LEMMA LogDecisionKeeps ==
    ASSUME EngineInv, NEW s \in Conn, LogDecision(s)
    PROVE  EngineInv'
<1>1. OwnType /\ ConnInv(s) /\ Grows
  BY SharedStays DEF EngineInv, LogDecision
<1>2. /\ pc[s] = "log" /\ upstream[s] = "open" /\ Forwards(s) /\ logged[s] = <<>>
      /\ sig[s] \notin Exempt
  BY <1>1 DEF LogDecision, At, ConnInv, Told
<1>3. /\ Others(s) /\ pc'[s] = "splicing"
      /\ UNCHANGED <<exe, sig, host, id, match, verdict, upstream, asked>>
  BY <1>1 DEF LogDecision, Write, Go, OwnType, Others, local
<1>4. logged'[s] = <<Entered(s)>> /\ Entered(s).decision # "deny"
  BY <1>1, <1>2 DEF LogDecision, Write, OwnType, Entered, Decision, Forwards
<1>5. Entered(s)' = Entered(s)
  BY <1>1, <1>3 DEF Entered, Decision, Grows, Exempt
<1>6. Told(s)' /\ Faithful(s)'
  BY <1>2, <1>3, <1>4, <1>5 DEF Told, Faithful
<1>7. Carried(s)'
  BY <1>1, <1>2, <1>3, GroundsStay DEF ConnInv, Carried, Grows
<1> QED
  BY <1>1, <1>3, <1>6, <1>7, Alone DEF ConnInv

(* Two lines in the log. *)
LEMMA Pair ==
    ASSUME NEW a, NEW b
    PROVE  LET both == Append(<<a>>, b)
           IN  Len(both) = 2 /\ both[1] = a /\ both[2] = b
<1>1. <<a>> \in Seq({a, b}) /\ Len(<<a>>) = 1
  OBVIOUS
<1> QED
  BY <1>1

LEMMA EndSpliceKeeps ==
    ASSUME EngineInv, NEW s \in Conn, EndSplice(s)
    PROVE  EngineInv'
<1>1. OwnType /\ ConnInv(s) /\ Grows
  BY SharedStays DEF EngineInv, EndSplice
<1>2. /\ pc[s] = "splicing" /\ upstream[s] = "open" /\ logged[s] = <<Entered(s)>>
      /\ Entered(s).decision # "deny"
  BY <1>1 DEF EndSplice, At, ConnInv, Told
<1>3. /\ Others(s) /\ pc'[s] = "closed"
      /\ UNCHANGED <<exe, sig, host, id, match, verdict, upstream, asked>>
  BY <1>1 DEF EndSplice, Write, Go, OwnType, Others, local
<1> DEFINE flow == [kind |-> "flow", action |-> Entered(s).action,
                    decision |-> Entered(s).decision]
<1>4. Len(logged'[s]) = 2 /\ logged'[s][1] = Entered(s) /\ logged'[s][2] = flow
  <2>1. flow = [kind |-> "flow", action |-> verdict[s],
                decision |-> IF sig[s] \in Exempt THEN "allow" ELSE Decision(s)]
    BY DEF Entered
  <2>2. logged' = [logged EXCEPT ![s] = Append(@, flow)]
    BY <2>1 DEF EndSplice, Write
  <2> HIDE DEF flow
  <2>3. logged'[s] = Append(logged[s], flow)
    BY <1>1, <2>2 DEF OwnType
  <2> QED
    BY <1>2, <2>3, Pair
<1>5. Entered(s).kind = "decision"
  BY DEF Entered
<1>6. Faithful(s)'
  <2>1. \A r \in {logged'[s][i] : i \in 2..Len(logged'[s])} : r = flow
    BY <1>4
  <2> QED
    BY <1>2, <1>3, <1>4, <1>5, <2>1 DEF Faithful
<1>7. Carried(s)' /\ Told(s)'
  BY <1>1, <1>2, <1>3, GroundsStay DEF ConnInv, Carried, Told, Grows
<1> QED
  BY <1>1, <1>3, <1>6, <1>7, Alone DEF ConnInv

-----------------------------------------------------------------------------
(* Upgrades and reviews are nothing to the connections, and so are the     *)
(* steps that leave everything as it is.                                   *)
LEMMA OutsideKeeps ==
    ASSUME EngineInv, (\E x \in Exe : Upgrade(x) \/ Review(x)) \/ UNCHANGED vars
    PROVE  EngineInv' /\ Grows
<1> DEFINE Still == /\ UNCHANGED Own /\ UNCHANGED <<opts, catalog, recorded>>
                    /\ pending' \subseteq pending /\ disk' \in [Exe -> Hash]
<1>1. ASSUME UNCHANGED vars PROVE Still
  BY <1>1 DEF vars, shared, local, Own, EngineInv, SharedType
<1>2. ASSUME NEW x \in Exe, Upgrade(x) PROVE Still
  BY <1>2 DEF Upgrade, local, Own, EngineInv, SharedType
<1>3. ASSUME NEW x \in Exe, Review(x) PROVE Still
  BY <1>3 DEF Review, local, Own, EngineInv, SharedType
<1>4. Still
  <2> HIDE DEF Still
  <2> QED
    BY <1>1, <1>2, <1>3
<1>5. IsFiniteSet(pending')
  BY <1>4, FS_Subset DEF EngineInv, SharedType
<1>6. Grows
  BY <1>4, <1>5 DEF Grows, EngineInv, SharedType
<1>7. \A c \in Conn : ConnInv(c)'
  BY <1>4, <1>6, StillKeeps DEF Own
<1>8. OwnType'
  BY <1>4 DEF Own, OwnType, EngineInv
<1> QED
  BY <1>6, <1>7, <1>8 DEF EngineInv, Grows

(* Every step keeps the invariant, and the facts and records grow.         *)
LEMMA StepKeeps ==
    ASSUME EngineInv, [Next]_vars
    PROVE  EngineInv' /\ Grows
<1>1. CASE (\E x \in Exe : Upgrade(x) \/ Review(x)) \/ UNCHANGED vars
  BY <1>1, OutsideKeeps
<1>2. ASSUME NEW s \in Conn, Accept(s) \/ Handle(s) \/ EndSplice(s)
      PROVE  EngineInv' /\ Grows
  <2>1. CASE Accept(s) \/ DestUnknown(s) \/ Attribute(s) \/ HelloFails(s) \/ ParseHello(s)
    BY <2>1, FirstStepsKeep, SharedStays
       DEF Accept, DestUnknown, Attribute, HelloFails, ParseHello
  <2>2. CASE ForwardExempt(s)
    BY <2>2, ForwardExemptKeeps, SharedStays DEF ForwardExempt
  <2>3. CASE Identify(s)
    BY <2>3, IdentifyKeeps, SharedStays DEF Identify
  <2>4. CASE Consult(s)
    BY <2>4, ConsultKeeps, SharedStays DEF Consult
  <2>5. CASE CountGrace(s) \/ BindDest(s)
    BY <2>5, GraceStepsKeep, SharedStays DEF CountGrace, BindDest
  <2>6. CASE RecordPending(s)
    BY <2>6, RecordPendingKeeps DEF RecordPending, Queue, EngineInv, Grows
  <2>7. CASE NoPrompt(s) \/ Answer(s)
    BY <2>7, PromptStepsKeep, AnswerGrows, SharedStays DEF NoPrompt
  <2>8. CASE CloseDenied(s)
    BY <2>8, RefusalsKeep, SharedStays DEF CloseDenied
  <2>9. CASE Dial(s) \/ Replay(s)
    BY <2>9, ForwardingKeeps, SharedStays DEF Dial, Replay, NetworkFails
  <2>10. CASE LogDecision(s)
    BY <2>10, LogDecisionKeeps, SharedStays DEF LogDecision
  <2>11. CASE EndSplice(s)
    BY <2>11, EndSpliceKeeps, SharedStays DEF EndSplice
  <2> QED
    BY <1>2, <2>1, <2>2, <2>3, <2>4, <2>5, <2>6, <2>7, <2>8, <2>9, <2>10, <2>11 DEF Handle
<1> QED
  BY <1>1, <1>2 DEF Next

(* The invariant holds of every behaviour.                                 *)
LEMMA Invariant == Spec => []EngineInv
<1>1. EngineInv /\ [Next]_vars => EngineInv'
  BY StepKeeps
<1> QED
  BY InitInv, <1>1, PTL DEF Spec

-----------------------------------------------------------------------------
(* A verdict is enforced for a reason that still stands when the bytes go  *)
(* out, however long ago and of whatever catalog it was found              *)
(* (decideBranch; see ForwardedOnGrounds).                                 *)
THEOREM GroundsProved == Spec => []ForwardedOnGrounds
<1>1. EngineInv => ForwardedOnGrounds
  BY DEF EngineInv, ConnInv, Carried, ForwardedOnGrounds
<1> QED
  BY Invariant, <1>1, PTL

(* The log of a finished connection tells what happened to it (handle's    *)
(* exits).                                                                 *)
THEOREM LogProved == Spec => []LogIsFaithful
<1>1. EngineInv => LogIsFaithful
  BY DEF EngineInv, ConnInv, Faithful, LogIsFaithful
<1> QED
  BY Invariant, <1>1, PTL

(* No later ratification takes back that the catalog keeps an identity     *)
(* from a host (Lookup, Ratify).                                           *)
THEOREM NeverProved == Spec => NeverStands
<1>1. ASSUME EngineInv, [Next]_vars, NEW s \in Conn, NEW h \in Host,
             Lookup(catalog, id[s], h) = "never"
      PROVE  Lookup(catalog', id[s], h) = "never"
  <2>1. Says(catalog, id[s], h, "never")
    BY <1>1, LookupSays
  <2>2. Says(catalog', id[s], h, "never")
    BY <1>1, <2>1, StepKeeps DEF Grows
  <2> QED
    BY <2>2, NeverWins
<1>2. EngineInv /\ [Next]_vars =>
          \A s \in Conn, h \in Host :
              Lookup(catalog, id[s], h) = "never" => Lookup(catalog', id[s], h) = "never"
  BY <1>1
<1> QED
  BY Invariant, <1>2, PTL DEF Spec, NeverStands

-----------------------------------------------------------------------------
(* The queue of a path.                                                    *)
Full(x) == Cardinality(Queued(x)) >= MaxGrace

\* A connection granted the grace for a binary at x which has not used it up.
Holds(c, x) == why[c] = Grace /\ id[c].path = x /\ pc[c] \in {"bind", "record"}

(* A path has finitely many hashes awaiting review, so that its queue is   *)
(* full or not.                                                            *)
LEMMA QueueCounted ==
    ASSUME EngineInv, NEW x PROVE Cardinality(Queued(x)) \in Nat
<1> DEFINE items  == {p \in pending : p[1] = x}
           hash   == [q \in items |-> q[2]]
<1>1. IsFiniteSet(items)
  BY FS_Subset DEF EngineInv, SharedType
<1>2. hash \in Surjection(items, Queued(x))
  BY DEF Surjection, Queued
<1>3. IsFiniteSet(Queued(x))
  <2> HIDE DEF items, hash
  <2> QED
    BY <1>1, <1>2, FS_Surjection
<1> QED
  BY <1>3, FS_CardinalityType

(* Of a full queue no connection obtains a grace.                          *)
LEMMA NoneGranted ==
    ASSUME EngineInv, [Next]_vars, NEW x \in Exe, Full(x), NEW c \in Conn, Holds(c, x)'
    PROVE  Holds(c, x) /\ id'[c] = id[c]
<1>1. CASE UNCHANGED vars
  BY <1>1 DEF vars, local, Holds
<1>2. ASSUME NEW y \in Exe, Upgrade(y) \/ Review(y) PROVE Holds(c, x) /\ id'[c] = id[c]
  BY <1>2 DEF Upgrade, Review, local, Holds
<1>3. ASSUME NEW s \in Conn, Accept(s) \/ Handle(s) \/ EndSplice(s)
      PROVE  Holds(c, x) /\ id'[c] = id[c]
  <2>1. OwnType /\ MaxGrace \in Nat /\ Cardinality(Queued(x)) \in Nat
    BY QueueCounted, EngineAssumption DEF EngineInv
  <2>2. CASE c # s
    <3>1. pc'[c] = pc[c] /\ why'[c] = why[c] /\ id'[c] = id[c]
      <4>1. CASE Accept(s) \/ DestUnknown(s) \/ Attribute(s) \/ ForwardExempt(s) \/ HelloFails(s)
                 \/ ParseHello(s) \/ Identify(s)
        BY <2>1, <2>2, <4>1 DEF Accept, DestUnknown, Attribute, ForwardExempt, HelloFails,
             ParseHello, Identify, Refuse, Go, local, OwnType
      <4>2. CASE Consult(s) \/ CountGrace(s) \/ BindDest(s) \/ RecordPending(s) \/ NoPrompt(s)
                 \/ Answer(s)
        BY <2>1, <2>2, <4>2 DEF Consult, CountGrace, BindDest, RecordPending, NoPrompt, Answer,
             Allow, Deny, AskUser, Go, local, OwnType
      <4>3. CASE CloseDenied(s) \/ Dial(s) \/ Replay(s) \/ LogDecision(s) \/ EndSplice(s)
        BY <2>1, <2>2, <4>3 DEF CloseDenied, Dial, Replay, LogDecision, EndSplice, NetworkFails,
             Go, local, OwnType
      <4> QED
        BY <1>3, <4>1, <4>2, <4>3 DEF Handle
    <3> QED
      BY <3>1 DEF Holds
  <2>3. CASE c = s
    <3>1. pc'[s] \in {"bind", "record"} /\ why'[s] = Grace /\ id'[s].path = x
      BY <2>3 DEF Holds
    <3>2. CASE Accept(s) \/ DestUnknown(s) \/ Attribute(s) \/ ForwardExempt(s) \/ HelloFails(s)
               \/ ParseHello(s) \/ Identify(s)
      BY <2>1, <3>1, <3>2 DEF Accept, DestUnknown, Attribute, ForwardExempt, HelloFails,
           ParseHello, Identify, Refuse, Go, OwnType
    <3>3. CASE Consult(s) \/ NoPrompt(s) \/ Answer(s)
      BY <2>1, <3>1, <3>3 DEF Consult, NoPrompt, Answer, Allow, Deny, AskUser, Go, OwnType, Grace
    <3>4. CASE CountGrace(s)
      BY <2>1, <3>1, <3>4 DEF CountGrace, StaleGraceAvailable, AskUser, Go, local, OwnType, Full
    <3>5. CASE BindDest(s)
      BY <2>1, <2>3, <3>1, <3>5 DEF BindDest, Deny, At, Go, local, OwnType, Holds
    <3>6. CASE RecordPending(s) \/ CloseDenied(s) \/ Dial(s) \/ Replay(s) \/ LogDecision(s)
               \/ EndSplice(s)
      BY <2>1, <3>1, <3>6 DEF RecordPending, CloseDenied, Dial, Replay, LogDecision, EndSplice,
           NetworkFails, AskUser, Go, OwnType
    <3> QED
      BY <1>3, <3>2, <3>3, <3>4, <3>5, <3>6 DEF Handle
  <2> QED
    BY <2>2, <2>3
<1> QED
  BY <1>1, <1>2, <1>3 DEF Next

(* What is added to a queue was granted: the step before the record.       *)
LEMMA OnlyGranted ==
    ASSUME EngineInv, [Next]_vars, NEW x \in Exe
    PROVE  Queued(x)' \subseteq Queued(x) \cup Granted(x)
<1>1. CASE pending' \subseteq pending
  BY <1>1 DEF Queued
<1>2. ASSUME NEW s \in Conn, RecordPending(s)
      PROVE  Queued(x)' \subseteq Queued(x) \cup Granted(x)
  <2>1. pending' \subseteq pending \cup {<<id[s].path, id[s].hash, host[s]>>}
    BY <1>2 DEF RecordPending, Queue
  <2>2. pc[s] = "record" /\ why[s] = Grace
    BY <1>2 DEF EngineInv, ConnInv, Carried, RecordPending, At
  <2>3. id[s].path = x => id[s].hash \in Granted(x)
    BY <2>2 DEF Granted, Grace
  <2>4. \A p \in pending' : p[1] = x => p[2] \in Queued(x) \cup Granted(x)
    BY <2>1, <2>3 DEF Queued
  <2> QED
    BY <2>4 DEF Queued
<1>3. CASE UNCHANGED pending
  BY <1>1, <1>3
<1>4. CASE \E y \in Exe : Upgrade(y) \/ Review(y)
  BY <1>1, <1>4 DEF Upgrade, Review
<1>5. ASSUME NEW s \in Conn, Accept(s) \/ Handle(s) \/ EndSplice(s), ~RecordPending(s)
      PROVE  UNCHANGED pending
  <2>1. CASE DestUnknown(s) \/ Attribute(s) \/ ForwardExempt(s) \/ HelloFails(s) \/ ParseHello(s)
             \/ Identify(s) \/ Consult(s)
    BY <2>1 DEF DestUnknown, Attribute, ForwardExempt, HelloFails, ParseHello, Identify, Consult,
         shared
  <2>2. CASE CountGrace(s) \/ BindDest(s) \/ NoPrompt(s) \/ Answer(s)
    BY <2>2 DEF CountGrace, BindDest, NoPrompt, Answer, shared
  <2>3. CASE Accept(s) \/ CloseDenied(s) \/ Dial(s) \/ Replay(s) \/ LogDecision(s) \/ EndSplice(s)
    BY <2>3 DEF Accept, CloseDenied, Dial, Replay, LogDecision, EndSplice, NetworkFails, shared
  <2> QED
    BY <1>5, <2>1, <2>2, <2>3 DEF Handle
<1>6. CASE UNCHANGED vars
  BY <1>1, <1>6 DEF vars, shared
<1> QED
  BY <1>2, <1>3, <1>4, <1>5, <1>6 DEF Next

(* When the queue of a path is full, only connections that counted it      *)
(* before can still add to it, whatever is upgraded and reviewed meanwhile *)
(* (staleGraceAvailable, recordPending).                                   *)
THEOREM QueueProved == Spec => FullQueueStaysShut
<1>1. ASSUME EngineInv, [Next]_vars, NEW x \in Exe, Full(x)
      PROVE  Granted(x)' \subseteq Granted(x) /\ Queued(x)' \subseteq Queued(x) \cup Granted(x)
  <2>1. \A c \in Conn : Holds(c, x)' => Holds(c, x) /\ id'[c] = id[c]
    BY <1>1, NoneGranted
  <2>2. Granted(x)' \subseteq Granted(x)
    BY <2>1 DEF Granted, Holds, Grace
  <2> QED
    BY <1>1, <2>2, OnlyGranted
<1>2. EngineInv /\ [Next]_vars =>
          \A x \in Exe : Cardinality(Queued(x)) >= MaxGrace
              => Granted(x)' \subseteq Granted(x) /\ Queued(x)' \subseteq Queued(x) \cup Granted(x)
  BY <1>1 DEF Full
<1> QED
  BY Invariant, <1>2, PTL DEF Spec, FullQueueStaysShut

-----------------------------------------------------------------------------
(* The caches.                                                             *)

KeySet == {Unset} \cup Subject \cup (Subject \X Nat)

CallSet == [pc : {"idle", "keyed", "missed", "computed", "done"}, subject : {Unset} \cup Subject,
            key : KeySet, val : Int, age : Nat, clock : Nat]

EntrySet == [val : Int, age : Nat, since : Nat]

LookupType ==
    /\ kind \in Kinds /\ version \in [Subject -> Nat]
    /\ DOMAIN mtime = Subject /\ \A s \in Subject : mtime[s] \in [0..version[s] -> Nat]
    /\ reader \in [Reader -> CallSet] /\ current \in [Reader -> SUBSET Nat]
    /\ \A r \in Reader : reader[r].pc # "idle" =>
          /\ reader[r].subject \in Subject
          /\ kind = "dns" => reader[r].key = reader[r].subject
          /\ kind # "dns" => reader[r].key \in Subject \X Nat
    /\ \A k \in DOMAIN entry : k \in KeySet /\ entry[k] \in EntrySet
    /\ kind # "dns" => DOMAIN entry \subseteq Subject \X Nat

\* The versions a path has had since it had that of a key, and that there was no answer.
Since(k) == {Error} \cup k[2]..version[k[1]]

\* What is stored under a key is of no earlier version than the key, and a call has seen
\* every version since its key.
\* This is of paths no two versions of which have one key.
VersionInv ==
       /\ \A k \in DOMAIN entry : Distinguished(k[1]) =>
             k[2] <= version[k[1]] /\ entry[k].val \in Since(k)
       /\ \A r \in Reader : reader[r].pc # "idle" =>
             (kind # "dns" => reader[r].key[1] = reader[r].subject)
       /\ \A r \in Reader : reader[r].pc # "idle" /\ Distinguished(reader[r].subject) =>
             LET k == reader[r].key IN
             /\ k[1] = reader[r].subject /\ k[2] <= version[k[1]]
             /\ k[2]..version[k[1]] \subseteq current[r]
             /\ reader[r].pc = "computed" => reader[r].val \in Since(k)
             /\ reader[r].pc = "done" => reader[r].val \in current[r] \cup {Error}

\* An entry is older than it is stored by a lookup at most, and that by the limit at most.
AgeInv ==
    /\ \A k \in DOMAIN entry : entry[k].since <= TTL /\ entry[k].age <= entry[k].since + Timeout
    /\ \A r \in Reader :
          /\ reader[r].clock <= Timeout
          /\ reader[r].pc \in {"idle", "keyed"} => reader[r].clock = 0
          /\ reader[r].pc \in {"idle", "keyed", "missed"} => reader[r].age = 0
          /\ reader[r].pc = "computed" => reader[r].age <= reader[r].clock
          /\ kind = "dns" /\ reader[r].pc = "done" => reader[r].age < TTL + Timeout

\* A sample is older than it is stored by a probe at most.
ProbeInv ==
    /\ DOMAIN idle = {"since", "age", "wait", "failures"} /\ idle.age \in Nat
    /\ idle.age <= Oldest + 1
    /\ idle.since # Unset => /\ idle.since \in Nat /\ idle.since <= MaxAge + 1
                             /\ idle.age <= idle.since + ProbeTimeout
    /\ probe \in [pc : {"none", "started", "measured"}, age : Nat, clock : Nat]
    /\ probe.clock <= ProbeTimeout /\ probe.age <= probe.clock
    /\ probe.pc # "measured" => probe.age = 0

CachesInv == LookupType /\ VersionInv /\ AgeInv /\ ProbeInv

-----------------------------------------------------------------------------
(* The parts of the state that a step leaves alone keep their part of the invariant. *)
LEMMA LookupsKept ==
    ASSUME LookupType, VersionInv, AgeInv, UNCHANGED <<kind, lookups>>
    PROVE  LookupType' /\ VersionInv' /\ AgeInv'
BY DEF lookups, LookupType, VersionInv, AgeInv, Since, Distinguished, Restamped

LEMMA ProbeKept ==
    ASSUME ProbeInv, UNCHANGED <<idle, probe>>
    PROVE  ProbeInv'
BY DEF ProbeInv

(* The idle probe. *)
LEMMA ProbeStep ==
    ASSUME ProbeInv, Active \/ Measure \/ Refreshed \/ ProbeFails \/ TickIdle
    PROVE  ProbeInv'
<1>0. CachesAssumption
  BY CachesAssumption
<1>1. CASE Active
  BY <1>0, <1>1 DEF Active, ProbeInv, NoProbe, CachesAssumption
<1>2. CASE Measure
  BY <1>0, <1>2 DEF Measure, ProbeInv, CachesAssumption
<1>3. CASE Refreshed
  BY <1>0, <1>3 DEF Refreshed, ProbeInv, NoProbe, Oldest, CachesAssumption
<1>4. CASE ProbeFails
  <2>1. probe' = NoProbe /\ \E n, w : idle' = [idle EXCEPT !.failures = n, !.wait = w]
    BY <1>4 DEF ProbeFails
  <2>2. /\ DOMAIN idle' = DOMAIN idle /\ idle'.age = idle.age /\ idle'.since = idle.since
    BY <2>1 DEF ProbeInv
  <2> QED
    BY <1>0, <2>1, <2>2 DEF ProbeInv, NoProbe, CachesAssumption
<1>5. CASE TickIdle
  <2>1. /\ DOMAIN idle' = DOMAIN idle
        /\ idle'.since = IF idle.since = Unset THEN Unset ELSE UpTo(idle.since, MaxAge + 1)
        /\ idle'.age = UpTo(idle.age, Oldest + 1)
    BY <1>5 DEF TickIdle, ProbeInv
  <2>2. /\ idle'.age \in Nat /\ idle'.age <= Oldest + 1
        /\ idle'.since # Unset => /\ idle'.since \in Nat /\ idle'.since <= MaxAge + 1
                                  /\ idle'.age <= idle'.since + ProbeTimeout
    BY <1>0, <2>1 DEF ProbeInv, UpTo, Oldest, CachesAssumption
  <2>3. /\ probe' \in [pc : {"none", "started", "measured"}, age : Nat, clock : Nat]
        /\ probe'.clock <= ProbeTimeout /\ probe'.age <= probe'.clock
        /\ probe'.pc # "measured" => probe'.age = 0
    <3>1. CASE probe.pc = "started"
      <4>1. probe' = [probe EXCEPT !.clock = @ + 1] /\ probe.clock < ProbeTimeout
        BY <1>5, <3>1 DEF TickIdle
      <4>2. probe'.pc = "started" /\ probe'.age = probe.age /\ probe'.clock = probe.clock + 1
        BY <3>1, <4>1 DEF ProbeInv
      <4> QED
        BY <1>0, <3>1, <4>1, <4>2 DEF ProbeInv, CachesAssumption
    <3>2. CASE probe.pc = "measured"
      <4>1. probe' = [probe EXCEPT !.clock = @ + 1, !.age = @ + 1] /\ probe.clock < ProbeTimeout
        BY <1>5, <3>2 DEF TickIdle
      <4>2. probe'.pc = "measured" /\ probe'.age = probe.age + 1 /\ probe'.clock = probe.clock + 1
        BY <3>2, <4>1 DEF ProbeInv
      <4>3. probe.age \in Nat /\ probe.clock \in Nat /\ probe.age <= probe.clock
        BY DEF ProbeInv
      <4>4. probe' \in [pc : {"none", "started", "measured"}, age : Nat, clock : Nat]
        <5> DEFINE clock == probe.clock + 1
                   age   == probe.age + 1
        <5>1. probe' = [probe EXCEPT !.clock = clock, !.age = age] /\ clock \in Nat /\ age \in Nat
          BY <4>1, <4>3
        <5> HIDE DEF clock, age
        <5> QED
          BY <5>1 DEF ProbeInv
      <4> QED
        BY <1>0, <4>1, <4>2, <4>3, <4>4 DEF CachesAssumption
    <3>3. CASE probe.pc = "none"
      BY <1>5, <3>3 DEF TickIdle, ProbeInv
    <3> QED
      BY <3>1, <3>2, <3>3 DEF ProbeInv
  <2> QED
    BY <2>1, <2>2, <2>3 DEF ProbeInv
<1> QED
  BY <1>1, <1>2, <1>3, <1>4, <1>5

-----------------------------------------------------------------------------
(* A file is replaced. *)
LEMMA ChangeStep ==
    ASSUME LookupType, VersionInv, AgeInv, NEW s \in Subject, Change(s)
    PROVE  LookupType' /\ VersionInv' /\ AgeInv'
<1>1. /\ kind # "dns" /\ version' = [version EXCEPT ![s] = @ + 1]
      /\ current' = [r \in Reader |-> IF reader[r].subject = s
                                     THEN current[r] \cup {version[s] + 1} ELSE current[r]]
      /\ UNCHANGED <<kind, entry, reader>>
  BY DEF Change
<1>2. version' \in [Subject -> Nat] /\ \A t \in Subject : version[t] \in Nat /\ version[t] <= version'[t]
  BY <1>1 DEF LookupType
<1> DEFINE new == version[s] + 1
<1>8. PICK t \in Nat : mtime' = [mtime EXCEPT ![s] = [v \in 0..new |-> IF v = new THEN t ELSE mtime[s][v]]]
  <2>1. mtime[s] \in [0..version[s] -> Nat] /\ new \in Nat
    BY <1>2 DEF LookupType
  <2>2. \A t \in {mtime[s][v] : v \in 0..version[s]} \cup {new} : t \in Nat
    BY <2>1
  <2> QED
    BY <2>2 DEF Change
<1>9. /\ DOMAIN mtime' = Subject /\ \A u \in Subject : mtime'[u] \in [0..version'[u] -> Nat]
      /\ \A u \in Subject : \A v \in 0..version[u] : mtime'[u][v] = mtime[u][v]
  <2>1. /\ DOMAIN mtime = Subject /\ mtime[s] \in [0..version[s] -> Nat] /\ version[s] \in Nat
        /\ version'[s] = new
    BY <1>1 DEF LookupType
  <2>2. mtime'[s] = [v \in 0..new |-> IF v = new THEN t ELSE mtime[s][v]]
    BY <1>8, <2>1
  <2>3. mtime'[s] \in [0..new -> Nat] /\ \A v \in 0..version[s] : mtime'[s][v] = mtime[s][v]
    BY <2>1, <2>2
  <2>4. \A u \in Subject \ {s} : mtime'[u] = mtime[u] /\ version'[u] = version[u]
    BY <1>1, <1>8, <2>1 DEF LookupType
  <2> HIDE DEF new
  <2> QED
    BY <1>8, <2>1, <2>3, <2>4 DEF LookupType
<1>3. LookupType' /\ AgeInv'
  BY <1>1, <1>2, <1>9 DEF LookupType, AgeInv
<1>10. ASSUME NEW u \in Subject, Distinguished(u)'
       PROVE  Distinguished(u)
  <2>1. ASSUME Restamped(u) PROVE Restamped(u)'
    <3>1. PICK v \in 0..version[u] : mtime[u][v] # v
      BY <2>1 DEF Restamped
    <3>2. version[u] \in Nat /\ version'[u] \in Nat /\ version[u] <= version'[u]
      BY <1>2
    <3>3. v \in 0..version'[u] /\ mtime'[u][v] # v
      BY <1>9, <3>1, <3>2
    <3> QED
      BY <3>3 DEF Restamped
  <2>2. kind' = kind
    BY <1>1
  <2> QED
    BY <1>10, <2>1, <2>2 DEF Distinguished
<1>4. ASSUME NEW k \in Subject \X Nat
      PROVE  Since(k) \subseteq Since(k)'
  BY <1>2 DEF Since
<1>5. ASSUME NEW k \in DOMAIN entry, Distinguished(k[1])'
      PROVE  k[2] <= version'[k[1]] /\ entry[k].val \in Since(k)'
  <2>1. k \in Subject \X Nat /\ Distinguished(k[1])
    BY <1>1, <1>5, <1>10 DEF LookupType
  <2> QED
    BY <1>1, <1>2, <1>4, <2>1 DEF VersionInv
<1>6. ASSUME NEW r \in Reader, reader[r].pc # "idle", NEW k, k = reader[r].key,
             Distinguished(reader[r].subject)'
      PROVE  /\ k[1] = reader[r].subject /\ k[2] <= version'[k[1]]
             /\ k[2]..version'[k[1]] \subseteq current'[r]
             /\ reader[r].pc = "computed" => reader[r].val \in Since(k)'
             /\ reader[r].pc = "done" => reader[r].val \in current'[r] \cup {Error}
  <2>0. Distinguished(reader[r].subject)
    <3>1. reader[r].subject \in Subject /\ reader' = reader
      BY <1>1, <1>6 DEF LookupType
    <3> QED
      BY <1>6, <1>10, <3>1
  <2>1. k \in Subject \X Nat /\ k[1] = reader[r].subject /\ k[2] <= version[k[1]]
        /\ k[2]..version[k[1]] \subseteq current[r]
    BY <1>1, <1>6, <2>0 DEF LookupType, VersionInv
  <2>2. k[2]..version'[k[1]] \subseteq current'[r]
    <3>1. CASE reader[r].subject = s
      <4>1. version'[k[1]] = version[k[1]] + 1 /\ current'[r] = current[r] \cup {version[k[1]] + 1}
        BY <1>1, <2>1, <3>1 DEF LookupType
      <4> QED
        BY <1>2, <2>1, <4>1
    <3>2. CASE reader[r].subject # s
      BY <1>1, <2>1, <3>2 DEF LookupType
    <3> QED
      BY <3>1, <3>2
  <2>3. current[r] \subseteq current'[r]
    BY <1>1
  <2> QED
    BY <1>1, <1>2, <1>4, <1>6, <2>0, <2>1, <2>2, <2>3 DEF VersionInv
<1>7. VersionInv'
  BY <1>1, <1>5, <1>6 DEF VersionInv
<1> QED
  BY <1>3, <1>7

-----------------------------------------------------------------------------
(* What one call may come to, where the entries stay. *)
CallOk(r, c) ==
    /\ c \in CallSet
    /\ c.clock <= Timeout
    /\ c.pc \in {"idle", "keyed"} => c.clock = 0
    /\ c.pc \in {"idle", "keyed", "missed"} => c.age = 0
    /\ c.pc = "computed" => c.age <= c.clock
    /\ kind = "dns" /\ c.pc = "done" => c.age < TTL + Timeout
    /\ c.pc # "idle" =>
          /\ c.subject \in Subject
          /\ kind = "dns" => c.key = c.subject
          /\ kind # "dns" => c.key \in Subject \X Nat /\ c.key[1] = c.subject
          /\ Distinguished(c.subject) =>
                /\ c.key[2] <= version[c.subject]
                /\ c.key[2]..version[c.subject] \subseteq current'[r]
                /\ c.pc = "computed" => c.val \in Since(c.key)
                /\ c.pc = "done" => c.val \in current'[r] \cup {Error}

EntriesOk ==
    /\ \A k \in DOMAIN entry :
          /\ k \in KeySet /\ entry[k] \in EntrySet
          /\ entry[k].since <= TTL /\ entry[k].age <= entry[k].since + Timeout
    /\ kind # "dns" => \A k \in DOMAIN entry : k \in Subject \X Nat
    /\ \A k \in DOMAIN entry : Distinguished(k[1]) =>
          k[2] <= version[k[1]] /\ entry[k].val \in Since(k)

LEMMA EntriesAreOk ==
    ASSUME LookupType, VersionInv, AgeInv
    PROVE  EntriesOk
BY DEF LookupType, VersionInv, AgeInv, EntriesOk

(* Every call in the invariant is such a call. *)
LEMMA CallIsOk ==
    ASSUME LookupType, VersionInv, AgeInv, NEW r \in Reader, current'[r] = current[r]
    PROVE  CallOk(r, reader[r])
BY DEF LookupType, VersionInv, AgeInv, CallOk

LEMMA CallStep ==
    ASSUME LookupType, VersionInv, AgeInv, NEW r \in Reader, NEW c, CallOk(r, c), To(r, c),
           EntriesOk', UNCHANGED <<kind, version, mtime>>, current' \in [Reader -> SUBSET Nat],
           \A q \in Reader \ {r} : current'[q] = current[q]
    PROVE  LookupType' /\ VersionInv' /\ AgeInv'
<1>1. /\ reader' \in [Reader -> CallSet] /\ reader'[r] = c
      /\ \A q \in Reader \ {r} : reader'[q] = reader[q]
  BY DEF To, LookupType, CallOk
<1>2. ASSUME NEW q \in Reader
      PROVE  CallOk(q, reader'[q])
  BY <1>1, CallIsOk
<1>3. LookupType'
  BY <1>1, <1>2 DEF LookupType, CallOk, EntriesOk
<1>4. AgeInv'
  BY <1>2 DEF AgeInv, CallOk, EntriesOk
<1>5. ASSUME NEW k PROVE Since(k)' = Since(k) /\ (Distinguished(k)' <=> Distinguished(k))
  <2>1. kind' = kind /\ version' = version /\ mtime' = mtime
    OBVIOUS
  <2>2. Restamped(k)' <=> Restamped(k)
    BY <2>1 DEF Restamped
  <2> QED
    BY <2>1, <2>2 DEF Since, Distinguished
<1>6. VersionInv'
  <2>1. \A k \in DOMAIN entry' : Distinguished(k[1])' =>
           k[2] <= version'[k[1]] /\ entry'[k].val \in Since(k)'
    BY DEF EntriesOk
  <2>2. ASSUME NEW q \in Reader, NEW d, d = reader'[q], d.pc # "idle"
        PROVE  /\ kind' # "dns" => d.key[1] = d.subject
               /\ Distinguished(d.subject)' =>
                     /\ d.key[1] = d.subject /\ d.key[2] <= version'[d.key[1]]
                     /\ d.key[2]..version'[d.key[1]] \subseteq current'[q]
                     /\ d.pc = "computed" => d.val \in Since(d.key)'
                     /\ d.pc = "done" => d.val \in current'[q] \cup {Error}
    <3>1. CallOk(q, d)
      BY <1>2, <2>2
    <3>2. Distinguished(d.subject) => kind # "dns"
      BY DEF Distinguished
    <3> QED
      BY <1>5, <2>2, <3>1, <3>2 DEF CallOk
  <2> QED
    BY <1>5, <2>1, <2>2 DEF VersionInv
<1> QED
  BY <1>3, <1>4, <1>6

(* The steps of a call, which are each of one goroutine. *)
LEMMA LookSteps ==
    ASSUME LookupType, VersionInv, AgeInv, NEW r \in Reader,
           Hit(r) \/ Bypass(r) \/ Miss(r) \/ Compute(r) \/ ComputeFails(r) \/ TimesOut(r)
    PROVE  LookupType' /\ VersionInv' /\ AgeInv'
<1>0. CachesAssumption
  BY CachesAssumption
<1>1. /\ UNCHANGED <<kind, version, mtime, entry, current>> /\ EntriesOk /\ reader[r] \in CallSet
      /\ CallOk(r, reader[r]) /\ reader[r].pc # "idle"
  BY EntriesAreOk, CallIsOk DEF Hit, Bypass, Miss, Compute, ComputeFails, TimesOut, elsewhere, LookupType
<1>2. EntriesOk' /\ current' \in [Reader -> SUBSET Nat]
  BY <1>1 DEF EntriesOk, Since, Distinguished, Restamped, LookupType
<1>3. SUFFICES \E c : CallOk(r, c) /\ To(r, c)
  BY <1>1, <1>2, CallStep
<1>4. CASE Hit(r)
  <2> DEFINE k == reader[r].key
             c == [reader[r] EXCEPT !.pc = "done", !.val = entry[k].val, !.age = entry[k].age]
  <2>1. To(r, c) /\ k \in DOMAIN entry /\ (kind = "dns" => entry[k].since < TTL)
    BY <1>4 DEF Hit, Fresh
  <2>2. entry[k].val \in Int /\ entry[k].age \in Nat /\ entry[k].since \in Nat
        /\ entry[k].since <= TTL /\ entry[k].age <= entry[k].since + Timeout
    BY <1>1, <2>1 DEF EntriesOk, EntrySet
  <2>3. kind = "dns" => entry[k].age < TTL + Timeout
    BY <1>0, <2>1, <2>2 DEF CachesAssumption
  <2>4. Distinguished(reader[r].subject) => entry[k].val \in current'[r] \cup {Error}
    BY <1>1, <2>1 DEF EntriesOk, CallOk, Since, Distinguished
  <2>5. CallOk(r, c)
    BY <1>0, <1>1, <2>2, <2>3, <2>4 DEF CallOk, CallSet, CachesAssumption
  <2> QED
    BY <2>1, <2>5
<1>9. CASE Bypass(r)
  <2>1. PICK val \in {version[reader[r].subject], Error} :
           To(r, [reader[r] EXCEPT !.pc = "done", !.val = val])
    BY <1>9 DEF Bypass
  <2> DEFINE c == [reader[r] EXCEPT !.pc = "done", !.val = val]
  <2>2. /\ kind = "signature" /\ reader[r].pc = "keyed" /\ reader[r].subject \in Subject
        /\ version[reader[r].subject] \in Nat
    BY <1>1, <1>9 DEF Bypass, LookupType
  <2>3. val \in Int
    BY <2>2 DEF Error
  <2>4. Distinguished(reader[r].subject) => val \in current'[r] \cup {Error}
    BY <1>1, <2>2 DEF CallOk
  <2>5. CallOk(r, c)
    BY <1>0, <1>1, <2>2, <2>3, <2>4 DEF CallOk, CallSet, CachesAssumption
  <2> QED
    BY <2>1, <2>5
<1>5. CASE Miss(r)
  <2> DEFINE c == [reader[r] EXCEPT !.pc = "missed"]
  <2>1. To(r, c) /\ reader[r].pc = "keyed"
    BY <1>5 DEF Miss
  <2>2. CallOk(r, c)
    BY <1>1, <2>1 DEF CallOk, CallSet
  <2> QED
    BY <2>1, <2>2
<1>6. CASE Compute(r)
  <2> DEFINE v == version[reader[r].subject]
             c == [reader[r] EXCEPT !.pc = "computed", !.val = v]
  <2>1. To(r, c) /\ reader[r].pc = "missed"
    BY <1>6 DEF Compute
  <2>2. v \in Nat /\ (Distinguished(reader[r].subject) => v \in Since(reader[r].key))
    BY <1>1, <2>1 DEF CallOk, LookupType, Since, Distinguished
  <2>3. c.age = 0 /\ c.clock = reader[r].clock /\ c.val = v /\ c.pc = "computed"
        /\ c.key = reader[r].key /\ c.subject = reader[r].subject /\ c \in CallSet
        /\ c.clock \in Nat /\ c.clock <= Timeout
    <3>1. v \in Int /\ reader[r].clock <= Timeout /\ reader[r].age = 0
      BY <1>1, <2>1, <2>2 DEF CallOk
    <3> HIDE DEF v
    <3>2. c \in CallSet
      BY <1>1, <3>1 DEF CallSet
    <3> QED
      BY <1>1, <3>1, <3>2 DEF CallSet
  <2> HIDE DEF c
  <2>4. CallOk(r, c)
    BY <1>1, <2>1, <2>2, <2>3 DEF CallOk
  <2> QED
    BY <2>1, <2>4
<1>7. CASE ComputeFails(r)
  <2> DEFINE p == IF kind = "signature" THEN "computed" ELSE "done"
             c == [reader[r] EXCEPT !.pc = p, !.val = Error]
  <2>1. To(r, c) /\ reader[r].pc = "missed"
    BY <1>7 DEF ComputeFails
  <2>2. Error \in Int /\ Error \in Since(reader[r].key) /\ p \in {"computed", "done"}
    BY DEF Since, Error
  <2> HIDE DEF p
  <2>3. c.age = 0 /\ c.clock = reader[r].clock /\ c.val = Error /\ c.pc = p /\ c.key = reader[r].key
        /\ c.subject = reader[r].subject /\ c \in CallSet /\ c.clock <= Timeout
    BY <1>1, <2>1, <2>2 DEF CallOk, CallSet
  <2> HIDE DEF c
  <2>4. CallOk(r, c)
    BY <1>0, <1>1, <2>1, <2>2, <2>3 DEF CallOk, CallSet, CachesAssumption
  <2> QED
    BY <2>1, <2>4
<1>8. CASE TimesOut(r)
  <2> DEFINE c == [reader[r] EXCEPT !.pc = "done", !.val = Error, !.age = 0]
  <2>1. To(r, c) /\ kind = "dns"
    BY <1>8 DEF TimesOut
  <2>2. c.age = 0 /\ c.clock <= Timeout /\ c.pc = "done"
        /\ c.key = reader[r].key /\ c.subject = reader[r].subject /\ c \in CallSet
    <3>1. Error \in Int /\ reader[r].clock <= Timeout
      BY <1>1 DEF CallOk, Error
    <3>2. c \in CallSet
      BY <1>1, <3>1 DEF CallSet
    <3> QED
      BY <1>1, <3>1, <3>2 DEF CallSet
  <2> HIDE DEF c
  <2>3. CallOk(r, c)
    BY <1>0, <1>1, <2>1, <2>2 DEF CallOk, CachesAssumption, Distinguished
  <2> QED
    BY <2>1, <2>3
<1> QED
  BY <1>4, <1>5, <1>6, <1>7, <1>8, <1>9

LEMMA AskStep ==
    ASSUME LookupType, VersionInv, AgeInv, NEW r \in Reader, NEW s \in Subject, Ask(r, s)
    PROVE  LookupType' /\ VersionInv' /\ AgeInv'
<1>0. CachesAssumption
  BY CachesAssumption
<1> DEFINE c == [NoCall EXCEPT !.pc = "keyed", !.subject = s, !.key = KeyOf(s)]
<1>1. /\ UNCHANGED <<kind, version, mtime, entry>> /\ To(r, c) /\ EntriesOk /\ kind # "idle"
      /\ current' = [current EXCEPT ![r] = {version[s]}]
  BY EntriesAreOk DEF Ask, elsewhere
<1>2. version[s] \in Nat /\ current' \in [Reader -> SUBSET Nat] /\ current'[r] = {version[s]}
      /\ \A q \in Reader \ {r} : current'[q] = current[q]
  BY <1>1 DEF LookupType
<1>3. EntriesOk'
  BY <1>1 DEF EntriesOk, Since, Distinguished, Restamped
<1>8. mtime[s][version[s]] \in Nat /\ (~Restamped(s) => mtime[s][version[s]] = version[s])
  BY <1>2 DEF LookupType, Restamped
<1>4. /\ kind = "dns" => KeyOf(s) = s
      /\ kind # "dns" => KeyOf(s) \in Subject \X Nat /\ KeyOf(s)[1] = s
      /\ Distinguished(s) => KeyOf(s) = <<s, version[s]>>
      /\ KeyOf(s) \in KeySet
  BY <1>1, <1>2, <1>8 DEF KeyOf, KeySet, Distinguished, LookupType, Kinds
<1>5. version[s]..version[s] = {version[s]}
  BY <1>2
<1>6. c.age = 0 /\ c.clock = 0 /\ c.pc = "keyed" /\ c.key = KeyOf(s) /\ c.subject = s
      /\ c \in CallSet
  <2>1. NoCall \in CallSet /\ NoCall.age = 0 /\ NoCall.clock = 0
    BY DEF NoCall, CallSet, KeySet, Error
  <2> QED
    BY <1>4, <2>1 DEF CallSet
<1> HIDE DEF c
<1>7. CallOk(r, c)
  BY <1>0, <1>2, <1>4, <1>5, <1>6 DEF CallOk, CachesAssumption
<1> QED
  BY <1>1, <1>2, <1>3, <1>7, CallStep

LEMMA ReturnStep ==
    ASSUME LookupType, VersionInv, AgeInv, NEW r \in Reader, Return(r)
    PROVE  LookupType' /\ VersionInv' /\ AgeInv'
<1>0. CachesAssumption
  BY CachesAssumption
<1>1. /\ UNCHANGED <<kind, version, mtime, entry>> /\ To(r, NoCall) /\ EntriesOk
      /\ current' = [current EXCEPT ![r] = {}]
  BY EntriesAreOk DEF Return, elsewhere
<1>2. current' \in [Reader -> SUBSET Nat] /\ \A q \in Reader \ {r} : current'[q] = current[q]
  BY <1>1 DEF LookupType
<1>3. EntriesOk'
  BY <1>1 DEF EntriesOk, Since, Distinguished, Restamped
<1>4. CallOk(r, NoCall)
  BY <1>0 DEF CallOk, CallSet, NoCall, KeySet, Error, CachesAssumption
<1> QED
  BY <1>1, <1>2, <1>3, <1>4, CallStep

(* The steps that store. *)
LEMMA StoreSteps ==
    ASSUME LookupType, VersionInv, AgeInv, NEW r \in Reader,
           Store(r) \/ FoundStored(r) \/ PushFront(r)
    PROVE  LookupType' /\ VersionInv' /\ AgeInv'
<1>0. CachesAssumption
  BY CachesAssumption
<1> DEFINE k == reader[r].key
           d == [reader[r] EXCEPT !.pc = "done"]
           f == [reader[r] EXCEPT !.pc = "done", !.val = entry[k].val]
<1>1. /\ UNCHANGED <<kind, version, mtime, current>> /\ EntriesOk /\ reader[r] \in CallSet
      /\ CallOk(r, reader[r]) /\ reader[r].pc = "computed" /\ kind \in {"hash", "dns", "signature"}
  BY EntriesAreOk, CallIsOk DEF Store, FoundStored, PushFront, elsewhere, LookupType
<1>2. current' \in [Reader -> SUBSET Nat]
  BY <1>1 DEF LookupType
<1>3. /\ k \in KeySet /\ reader[r].val \in Int /\ reader[r].age \in Nat /\ reader[r].clock \in Nat
      /\ reader[r].age <= reader[r].clock /\ reader[r].clock <= Timeout
      /\ reader[r].age < TTL + Timeout
  BY <1>0, <1>1 DEF CallOk, CallSet, CachesAssumption
<1>4. /\ kind # "dns" => k \in Subject \X Nat /\ k[1] = reader[r].subject
      /\ Distinguished(reader[r].subject) =>
            /\ kind # "dns" /\ k[2] <= version[k[1]]
            /\ reader[r].val \in Since(k) /\ Since(k) \subseteq current'[r] \cup {Error}
  BY <1>1 DEF CallOk, Since, Distinguished
<1>5. CallOk(r, d)
  BY <1>1, <1>3, <1>4 DEF CallOk, CallSet
<1>6. ASSUME NEW e \in EntrySet, e.val = reader[r].val, e.since = 0, e.age <= reader[r].age,
             NEW D, entry' = [j \in D |-> IF j = k THEN e ELSE entry[j]],
             D \subseteq DOMAIN entry \cup {k}
      PROVE  EntriesOk'
  <2>1. \A j \in D : entry'[j] = IF j = k THEN e ELSE entry[j]
    BY <1>6
  <2>2. DOMAIN entry' = D /\ e.age \in Nat
    BY <1>6 DEF EntrySet
  <2>3. e.since <= TTL /\ e.age <= e.since + Timeout
    BY <1>0, <1>3, <1>6, <2>2 DEF CachesAssumption
  <2>4. \A j : Since(j)' = Since(j) /\ (Distinguished(j)' <=> Distinguished(j))
    BY <1>1 DEF Since, Distinguished, Restamped
  <2>5. Distinguished(k[1]) => kind # "dns"
    BY DEF Distinguished
  <2> QED
    BY <1>1, <2>5, <1>3, <1>4, <1>6, <2>1, <2>2, <2>3, <2>4 DEF EntriesOk
<1>7. CASE Store(r)
  <2> DEFINE e == [val |-> reader[r].val, age |-> reader[r].age, since |-> 0]
             D == DOMAIN entry \cup {k}
  <2>1. entry' = [j \in D |-> IF j = k THEN e ELSE entry[j]] /\ To(r, d)
    BY <1>7 DEF Store, With
  <2>2. e \in EntrySet /\ e.val = reader[r].val /\ e.since = 0 /\ e.age <= reader[r].age
    BY <1>3 DEF EntrySet
  <2> HIDE DEF e, D
  <2>3. D \subseteq DOMAIN entry \cup {k}
    BY DEF D
  <2>4. EntriesOk'
    BY <1>6, <2>1, <2>2, <2>3
  <2> QED
    BY <1>1, <1>2, <1>5, <2>1, <2>4, CallStep
<1>8. CASE FoundStored(r)
  <2>1. To(r, f) /\ k \in DOMAIN entry /\ entry' = entry /\ kind = "signature"
    BY <1>8 DEF FoundStored
  <2>2. EntriesOk'
    BY <1>1, <2>1 DEF EntriesOk, Since, Distinguished, Restamped
  <2>3. entry[k].val \in Int
        /\ (Distinguished(reader[r].subject) => entry[k].val \in current'[r] \cup {Error})
    BY <1>1, <1>4, <2>1 DEF EntriesOk, EntrySet
  <2>4. CallOk(r, f)
    BY <1>1, <1>3, <2>1, <2>3 DEF CallOk, CallSet
  <2> QED
    BY <1>1, <1>2, <2>1, <2>2, <2>4, CallStep
<1>9. CASE PushFront(r)
  <2> DEFINE e   == [val |-> reader[r].val, age |-> 0, since |-> 0]
             all == With(k, e)
             long == <<k>> \o lru
             D   == IF Len(long) > MaxEntries THEN DOMAIN all \ {Last(long)} ELSE DOMAIN all
  <2>1. To(r, d)
    BY <1>9 DEF PushFront
  <2>2. e \in EntrySet /\ e.val = reader[r].val /\ e.since = 0 /\ e.age <= reader[r].age
    BY <1>3 DEF EntrySet
  <2>3. DOMAIN all = DOMAIN entry \cup {k}
    BY DEF With
  <2>4. entry' = [j \in D |-> all[j]]
    BY <1>9 DEF PushFront, With
  <2>5. D \subseteq DOMAIN entry \cup {k}
    BY <2>3
  <2>6. \A j \in D : all[j] = IF j = k THEN e ELSE entry[j]
    BY <2>5 DEF With
  <2> HIDE DEF D, all, e
  <2>7. entry' = [j \in D |-> IF j = k THEN e ELSE entry[j]]
    BY <2>4, <2>6
  <2>8. EntriesOk'
    BY <1>6, <2>2, <2>5, <2>7
  <2> QED
    BY <1>1, <1>2, <1>5, <2>1, <2>8, CallStep
<1> QED
  BY <1>7, <1>8, <1>9

(* A second passes. *)
LEMMA TickStep ==
    ASSUME LookupType, VersionInv, AgeInv, TickDns
    PROVE  LookupType' /\ VersionInv' /\ AgeInv'
<1>0. CachesAssumption
  BY CachesAssumption
<1>1. /\ kind = "dns" /\ UNCHANGED <<kind, version, mtime, current>>
      /\ entry' = [k \in DOMAIN entry |->
            [entry[k] EXCEPT !.since = UpTo(@, TTL), !.age = UpTo(@, TTL + Timeout)]]
  BY DEF TickDns
<1>2. ASSUME NEW k \in DOMAIN entry'
      PROVE  k \in KeySet /\ entry'[k] \in EntrySet
             /\ entry'[k].since <= TTL /\ entry'[k].age <= entry'[k].since + Timeout
  <2>1. k \in DOMAIN entry /\ k \in KeySet /\ entry[k] \in EntrySet
        /\ entry[k].since <= TTL /\ entry[k].age <= entry[k].since + Timeout
    BY <1>1 DEF LookupType, AgeInv
  <2>2. /\ entry'[k] = [entry[k] EXCEPT !.since = UpTo(entry[k].since, TTL),
                                        !.age = UpTo(entry[k].age, TTL + Timeout)]
    BY <1>1, <2>1
  <2>3. /\ entry'[k].since = UpTo(entry[k].since, TTL) /\ entry'[k].age = UpTo(entry[k].age, TTL + Timeout)
        /\ entry'[k].val = entry[k].val /\ entry[k].since \in Nat /\ entry[k].age \in Nat
    BY <2>1, <2>2 DEF EntrySet
  <2>4. entry'[k].since \in Nat /\ entry'[k].age \in Nat
        /\ entry'[k].since <= TTL /\ entry'[k].age <= entry'[k].since + Timeout
    BY <1>0, <2>1, <2>3 DEF UpTo, CachesAssumption
  <2>5. entry'[k] \in EntrySet
    BY <2>1, <2>2, <2>3, <2>4 DEF EntrySet
  <2> QED
    BY <2>1, <2>4, <2>5
<1>3. ASSUME NEW r \in Reader
      PROVE  /\ reader'[r] \in CallSet /\ reader'[r].pc = reader[r].pc
             /\ reader'[r].key = reader[r].key /\ reader'[r].subject = reader[r].subject
             /\ reader'[r].clock <= Timeout
             /\ reader'[r].pc \in {"idle", "keyed"} => reader'[r].clock = 0
             /\ reader'[r].pc \in {"idle", "keyed", "missed"} => reader'[r].age = 0
             /\ reader'[r].pc = "computed" => reader'[r].age <= reader'[r].clock
             /\ reader'[r].pc = "done" => reader'[r].age < TTL + Timeout
  <2>0. reader[r].pc = "done" => reader[r].age < TTL + Timeout
    BY <1>1 DEF AgeInv
  <2>1. /\ reader[r] \in CallSet /\ reader[r].clock <= Timeout
        /\ reader[r].pc \in {"missed", "computed"} => reader[r].clock # Timeout
    BY DEF TickDns, Overdue, LookupType, AgeInv
  <2>2. CASE reader[r].pc = "missed"
    <3>1. reader'[r] = [reader[r] EXCEPT !.clock = @ + 1]
      BY <2>2 DEF TickDns
    <3> QED
      BY <1>0, <2>1, <2>2, <3>1 DEF AgeInv, CallSet, CachesAssumption
  <2>3. CASE reader[r].pc = "computed"
    <3>1. reader'[r] = [reader[r] EXCEPT !.clock = @ + 1, !.age = @ + 1]
      BY <2>3 DEF TickDns
    <3>2. /\ reader'[r] \in CallSet /\ reader'[r].pc = "computed"
          /\ reader'[r].key = reader[r].key /\ reader'[r].subject = reader[r].subject
          /\ reader'[r].clock = reader[r].clock + 1 /\ reader'[r].age = reader[r].age + 1
          /\ reader[r].clock \in Nat /\ reader[r].age \in Nat /\ reader[r].age <= reader[r].clock
      <4>1. reader[r].clock \in Nat /\ reader[r].age \in Nat
        BY <2>1 DEF CallSet
      <4> DEFINE clock == reader[r].clock + 1
                 age   == reader[r].age + 1
      <4>2. reader'[r] \in CallSet
        <5>1. reader'[r] = [reader[r] EXCEPT !.clock = clock, !.age = age] /\ clock \in Nat /\ age \in Nat
          BY <3>1, <4>1
        <5> HIDE DEF clock, age
        <5> QED
          BY <2>1, <5>1 DEF CallSet
      <4>3. reader[r].age <= reader[r].clock
        BY <2>3 DEF AgeInv
      <4>4. /\ reader'[r].pc = "computed"
            /\ reader'[r].key = reader[r].key /\ reader'[r].subject = reader[r].subject
            /\ reader'[r].clock = reader[r].clock + 1 /\ reader'[r].age = reader[r].age + 1
        BY <2>1, <2>3, <3>1 DEF CallSet
      <4> QED
        BY <4>1, <4>2, <4>3, <4>4
    <3> QED
      BY <1>0, <2>1, <2>3, <3>2 DEF CachesAssumption
  <2>4. CASE reader[r].pc \notin {"missed", "computed"}
    <3>1. reader'[r] = reader[r]
      BY <2>4 DEF TickDns
    <3> QED
      BY <2>0, <2>1, <3>1 DEF AgeInv
  <2> QED
    BY <2>2, <2>3, <2>4
<1>4. reader' \in [Reader -> CallSet]
  BY <1>3 DEF TickDns
<1>5. LookupType'
  BY <1>1, <1>2, <1>3, <1>4 DEF LookupType
<1>6. VersionInv' /\ AgeInv'
  BY <1>1, <1>2, <1>3 DEF VersionInv, AgeInv, Distinguished
<1> QED
  BY <1>5, <1>6

-----------------------------------------------------------------------------
LEMMA CachesInitInv == CachesInit => CachesInv
<1> SUFFICES ASSUME CachesInit PROVE CachesInv
  OBVIOUS
<1>0. CachesAssumption
  BY CachesAssumption
<1>1. DOMAIN entry = {}
  BY DEF CachesInit
<1>2. LookupType
  BY <1>1 DEF CachesInit, LookupType, CallSet, NoCall, KeySet, Error
<1>3. VersionInv /\ AgeInv
  BY <1>0, <1>1 DEF CachesInit, VersionInv, AgeInv, NoCall, CachesAssumption
<1>4. ProbeInv
  BY <1>0 DEF CachesInit, ProbeInv, NoProbe, Oldest, CachesAssumption
<1> QED
  BY <1>2, <1>3, <1>4 DEF CachesInv

LEMMA CachesStep == CachesInv /\ [CachesNext]_cachesVars => CachesInv'
<1> SUFFICES ASSUME LookupType, VersionInv, AgeInv, ProbeInv, [CachesNext]_cachesVars
             PROVE  LookupType' /\ VersionInv' /\ AgeInv' /\ ProbeInv'
  BY DEF CachesInv
<1>1. CASE UNCHANGED cachesVars
  BY <1>1, LookupsKept, ProbeKept DEF cachesVars
<1>2. CASE Active \/ Measure \/ Refreshed \/ ProbeFails \/ TickIdle
  <2>1. UNCHANGED <<kind, lookups>>
    BY <1>2 DEF Active, Measure, Refreshed, ProbeFails, TickIdle
  <2> QED
    BY <1>2, <2>1, LookupsKept, ProbeStep
<1>3. CASE Toggle
  BY <1>3, LookupsKept, ProbeKept DEF Toggle
<1>4. CASE TickDns
  BY <1>4, TickStep, ProbeKept DEF TickDns
<1>5. CASE \E s \in Subject : Change(s)
  BY <1>5, ChangeStep, ProbeKept DEF Change
<1>6. CASE \E r \in Reader, s \in Subject : Ask(r, s)
  BY <1>6, AskStep, ProbeKept DEF Ask, elsewhere
<1>7. ASSUME NEW r \in Reader, Call(r)
      PROVE  LookupType' /\ VersionInv' /\ AgeInv' /\ ProbeInv'
  <2>1. UNCHANGED <<idle, probe>>
    BY <1>7 DEF Call, Hit, Bypass, Miss, Compute, ComputeFails, TimesOut, Store, FoundStored, PushFront,
       Return, elsewhere
  <2> QED
    BY <1>7, <2>1, ProbeKept, LookSteps, StoreSteps, ReturnStep DEF Call
<1> QED
  BY <1>1, <1>2, <1>3, <1>4, <1>5, <1>6, <1>7 DEF CachesNext

(* A hash that is answered is of a version the path had during the call, and so is a  *)
(* signature, unless the path has had two versions with one modification time         *)
(* (ExeHasher.Hash, CachingVerifier.Verify).                                          *)
THEOREM CurrentProved == CachesSpec => []AnswersWereCurrent
<1>1. CachesInv => AnswersWereCurrent
  BY DEF CachesInv, VersionInv, AnswersWereCurrent, Distinguished
<1> QED
  BY <1>1, CachesInitInv, CachesStep, PTL DEF CachesSpec

(* No address and no sample is used that is too old (Binder.DestMatches, idle.Cached).*)
THEOREM FreshProved == CachesSpec => []AnswersAreFresh
<1>1. CachesInv => AnswersAreFresh
  BY CachesAssumption DEF CachesInv, AgeInv, ProbeInv, AnswersAreFresh, Usable, Oldest, CachesAssumption
<1> QED
  BY <1>1, CachesInitInv, CachesStep, PTL DEF CachesSpec
=============================================================================
