------------------------- MODULE CatalogSupplyProofs -------------------------
(***************************************************************************)
(* The supply of facts, for any number of candidates, records and fetches. *)
(*                                                                         *)
(* A fact is shipped or has evidence wherever it is: in a command that is  *)
(* approving, in every catalog, in everything signed (EvidenceInv).  The   *)
(* catalogs are in one line: what is installed is what is published or     *)
(* older, and everything signed or published is what is compiled now, or   *)
(* is being compiled, or older (OrderInv).  What a fetch has verified has  *)
(* been signed; what it has checked is newer than what is installed, until *)
(* another fetch overtakes it (FetchInv).                                  *)
(***************************************************************************)
EXTENDS CatalogSupply, TLAPS

Known == Shipped \cup evidenced

\* A catalog that can be read has only facts that are known.
Sound(c) == Readable(c) => c \in Catalog /\ c.facts \subseteq Known

EvidenceInv ==
    /\ evidenced \subseteq Candidate
    /\ records \in Seq(Record \cup {Torn})
    /\ \A i \in 1..Len(records) :
          records[i] # Torn /\ records[i].kind = "evidence"
              /\ records[i].confidence = "usable" => records[i].cand \in evidenced
    /\ work.pc # "idle" => work.cand \in Known /\ Sound(work.read) /\ work.read # Torn
    /\ Sound(fragment) /\ Sound(out) /\ Sound(draft) /\ Sound(published.data)
    /\ Sound(installed)
    /\ \A c \in signed : Readable(c) /\ Sound(c)
    /\ loaded \subseteq Known

UpTo(x, y) == x = y \/ x.issued < y.issued

\* Nothing that can be read is later than now, or than the catalog being compiled.
Issued(c) == Readable(c) => c.issued =< now
Behind(c) == /\ Readable(out) => UpTo(c, out)
             /\ Readable(draft) => UpTo(c, draft)

OrderInv ==
    /\ now \in Nat
    /\ draft # Torn /\ (draft # None => out = Torn)
    /\ Issued(out) /\ Issued(draft) /\ Issued(published.data)
    /\ \A c \in signed : Issued(c) /\ Behind(c)
    /\ Readable(published.data) => Behind(published.data)
    /\ sig \in signed \cup {None} /\ published.sig \in signed \cup {None}
    /\ published.sig # None =>
          Readable(published.data) /\ UpTo(published.sig, published.data)
    /\ Readable(installed) =>
          \/ installed.issued = 0
          \/ /\ installed \in signed
             /\ Readable(published.data) /\ UpTo(installed, published.data)

FetchInv ==
    /\ DOMAIN fetch = Fetcher
    /\ \A f \in Fetcher : fetch[f].pc # "idle" => Readable(fetch[f].data)
    /\ \A f \in Fetcher : fetch[f].pc \in {"valid", "install"} =>
          /\ fetch[f].data \in signed
          /\ Readable(published.data) /\ UpTo(fetch[f].data, published.data)
    /\ \A f \in Fetcher : fetch[f].pc = "install" =>
          (f \notin late /\ Readable(installed) => Newer(fetch[f].data, installed))

SupplyInv == EvidenceInv /\ OrderInv /\ FetchInv

-----------------------------------------------------------------------------
LEMMA IssueIsCatalog ==
    ASSUME NEW t \in Nat, NEW fs \in SUBSET Candidate
    PROVE  /\ Issue(t, fs) \in Catalog /\ Issue(t, fs).issued = t /\ Issue(t, fs).facts = fs
           /\ Readable(Issue(t, fs))
  BY SupplyAssumption DEF Issue, Catalog, Readable

LEMMA InitInv == Init => SupplyInv
<1> SUFFICES ASSUME Init PROVE SupplyInv
  OBVIOUS
<1>1. Sound(fragment)
  BY SupplyAssumption, IssueIsCatalog DEF Init, Sound, Known
<1>2. EvidenceInv
  BY <1>1 DEF Init, EvidenceInv, Sound, Readable, AtRest
<1>3. OrderInv
  BY SupplyAssumption DEF Init, OrderInv, Readable, Issued, Issue
<1>4. FetchInv
  BY DEF Init, FetchInv, NoFetch
<1> QED
  BY <1>2, <1>3, <1>4 DEF SupplyInv

-----------------------------------------------------------------------------
(* The queue file.                                                         *)

\* An append leaves the records that can be read, and adds at most its own.
LEMMA AppendedRecords ==
    ASSUME records \in Seq(Record \cup {Torn}), NEW r \in Record \cup {Torn}
    PROVE  /\ Appended(r) \in Seq(Record \cup {Torn})
           /\ \A i \in 1..Len(Appended(r)) :
                 \/ Appended(r)[i] = r
                 \/ i \in 1..Len(records) /\ Appended(r)[i] = records[i]
<1>1. CASE records # <<>> /\ records[Len(records)] = Torn
  BY <1>1 DEF Appended
<1>2. CASE ~(records # <<>> /\ records[Len(records)] = Torn)
  BY <1>2 DEF Appended
<1> QED
  BY <1>1, <1>2

\* Whatever becomes of an append, the evidence in the file is known.
LEMMA RecordsKnown ==
    ASSUME EvidenceInv, NEW r \in Record, Put(r), evidenced \subseteq evidenced',
           r.kind = "evidence" /\ r.confidence = "usable" /\ Whole(r) => r.cand \in evidenced'
    PROVE  /\ records' \in Seq(Record \cup {Torn})
           /\ \A i \in 1..Len(records') :
                 records'[i] # Torn /\ records'[i].kind = "evidence"
                     /\ records'[i].confidence = "usable" => records'[i].cand \in evidenced'
<1>1. CASE records' = Appended(r)
  BY <1>1, AppendedRecords DEF EvidenceInv, Whole
<1>2. CASE records' = Appended(Torn)
  BY <1>2, AppendedRecords DEF EvidenceInv
<1>3. CASE records' = records
  BY <1>3 DEF EvidenceInv
<1> QED
  BY <1>1, <1>2, <1>3 DEF Put

\* What is not touched by the queue's commands stays sound.
LEMMA QueueKeeps ==
    ASSUME SupplyInv, NEW r \in Record, Put(r), evidenced' \subseteq Candidate,
           evidenced \subseteq evidenced',
           r.kind = "evidence" /\ r.confidence = "usable" /\ Whole(r) => r.cand \in evidenced',
           work' = work \/ work'.pc = "idle" \/ (work.pc # "idle" /\ work'.cand = work.cand
                                                 /\ work'.read = work.read),
           UNCHANGED <<now, loaded, fragment, release, user>>
    PROVE  SupplyInv'
<1>1. Known \subseteq Known'
  BY DEF Known
<1>2. UNCHANGED <<out, sig, draft, published, signed, installed, fetch, late>>
  BY DEF release, user
<1>3. /\ Sound(fragment)' /\ Sound(out)' /\ Sound(draft)' /\ Sound(published.data)'
      /\ Sound(installed)'
  BY <1>1, <1>2 DEF SupplyInv, EvidenceInv, Sound
<1>4. \A c \in signed' : Readable(c) /\ Sound(c)'
  BY <1>1, <1>2 DEF SupplyInv, EvidenceInv, Sound
<1>5. work'.pc # "idle" => work'.cand \in Known' /\ Sound(work.read)' /\ work'.read = work.read
  BY <1>1 DEF SupplyInv, EvidenceInv, Sound
<1>6. EvidenceInv'
  BY <1>1, <1>3, <1>4, <1>5, RecordsKnown DEF SupplyInv, EvidenceInv
<1>7. OrderInv' /\ FetchInv'
  BY <1>2 DEF SupplyInv, OrderInv, FetchInv, Issued, Behind
<1> QED
  BY <1>6, <1>7 DEF SupplyInv

-----------------------------------------------------------------------------
(* The other steps.                                                        *)

LEMMA QuietKeeps ==
    ASSUME SupplyInv, now' \in Nat, now =< now', loaded' \subseteq Known,
           work' = work \/ work'.pc = "idle",
           UNCHANGED <<records, fragment, release, user, evidenced>>
    PROVE  SupplyInv'
<1>1. UNCHANGED <<out, sig, draft, published, signed, installed, fetch, late>>
  BY DEF release, user
<1>2. EvidenceInv'
  BY <1>1 DEF SupplyInv, EvidenceInv, Sound, Known
<1>3. \A c : Sound(c) /\ Issued(c) => Issued(c)'
  <2> SUFFICES ASSUME NEW c, Sound(c), Issued(c), Readable(c) PROVE c.issued =< now'
    BY DEF Issued
  <2>1. c.issued \in Nat /\ c.issued =< now
    BY DEF Sound, Issued, Catalog
  <2> QED
    BY <2>1 DEF SupplyInv, OrderInv
<1>4. OrderInv'
  BY <1>1, <1>3 DEF SupplyInv, EvidenceInv, OrderInv, Behind
<1>5. FetchInv'
  BY <1>1 DEF SupplyInv, FetchInv
<1> QED
  BY <1>2, <1>4, <1>5 DEF SupplyInv

LEMMA QueueStepsKeep ==
    ASSUME SupplyInv,
           \/ RecordApproval
           \/ \E c \in Reported : Ingest(c) \/ Reject(c)
           \/ \E c \in Reported, f \in Confidence : SetEvidence(c, f)
    PROVE  SupplyInv'
<1>1. evidenced \subseteq Candidate /\ Known \subseteq Candidate /\ Reported \subseteq Candidate
  BY SupplyAssumption DEF SupplyInv, EvidenceInv, Known
<1>2. ASSUME NEW c \in Candidate, NEW k \in {"report", "reject", "approve"}
      PROVE  Entry(k, c) \in Record /\ Entry(k, c).kind # "evidence"
  BY DEF Entry, Record
<1>3. CASE \E c \in Reported : Ingest(c) \/ Reject(c)
  <2>1. PICK c \in Reported : Ingest(c) \/ Reject(c)
    BY <1>3
  <2>2. UNCHANGED <<machine, loaded>> /\ (Put(Entry("report", c)) \/ Put(Entry("reject", c)))
    BY <2>1 DEF Ingest, Reject
  <2> QED
    BY <1>1, <1>2, <2>2, QueueKeeps DEF machine
<1>4. CASE RecordApproval
  <2>1. work.cand \in Candidate /\ Put(Entry("approve", work.cand))
    BY <1>1, <1>4 DEF RecordApproval, SupplyInv, EvidenceInv
  <2>2. work'.pc = "idle" \/ (work.pc # "idle" /\ work'.cand = work.cand /\ work'.read = work.read)
    BY <1>4 DEF RecordApproval, AtRest
  <2> QED
    BY <1>1, <1>2, <1>4, <2>1, <2>2, QueueKeeps DEF RecordApproval
<1>5. CASE \E c \in Reported, f \in Confidence : SetEvidence(c, f)
  <2>1. PICK c \in Reported, f \in Confidence : SetEvidence(c, f)
    BY <1>5
  <2>2. /\ Evidence(c, f) \in Record /\ Evidence(c, f).confidence = f
        /\ Evidence(c, f).cand = c
    BY <1>1 DEF Evidence, Record
  <2>3. /\ evidenced' \subseteq Candidate /\ evidenced \subseteq evidenced'
        /\ f = "usable" /\ Whole(Evidence(c, f)) => c \in evidenced'
    BY <1>1, <2>1 DEF SetEvidence
  <2>4. /\ Put(Evidence(c, f))
        /\ UNCHANGED <<now, loaded, work, fragment, release, user>>
    BY <2>1 DEF SetEvidence
  <2> QED
    BY <2>2, <2>3, <2>4, QueueKeeps
<1> QED
  BY <1>3, <1>4, <1>5

\* An approval begins with evidence.
LEMMA BeginKeeps ==
    ASSUME SupplyInv, NEW c \in Reported, NEW p \in {"fragment", "installed"}, BeginApprove(c, p)
    PROVE  SupplyInv'
<1>1. c \in evidenced
  BY DEF BeginApprove, HasEvidence, At, SupplyInv, EvidenceInv
<1>2. /\ work'.cand = c /\ Sound(work'.read) /\ work'.read # Torn
      /\ UNCHANGED <<now, records, loaded, fragment, out, sig, draft, published, signed, installed,
                     fetch, late, evidenced>>
  BY DEF BeginApprove, Place, SupplyInv, EvidenceInv, queue, release, user
<1>3. EvidenceInv'
  BY <1>1, <1>2 DEF SupplyInv, EvidenceInv, Sound, Known
<1>4. OrderInv' /\ FetchInv'
  BY <1>2 DEF SupplyInv, OrderInv, FetchInv, Issued, Behind
<1> QED
  BY <1>3, <1>4 DEF SupplyInv

\* What an approval writes has no issue time: it stands in nobody's way.
LEMMA OverwriteKeeps ==
    ASSUME SupplyInv, NEW p, NEW c, Overwrite(p, c), Sound(c), Readable(c) => c.issued = 0,
           \/ work'.pc = "idle"
           \/ work.pc # "idle" /\ work'.cand = work.cand /\ work'.read = work.read,
           UNCHANGED <<now, records, loaded, release, fetch, late, evidenced>>
    PROVE  SupplyInv'
<1>1. fragment' \in {fragment, c} /\ installed' \in {installed, c}
  BY DEF Overwrite
<1>2. UNCHANGED <<out, sig, draft, published, signed>>
  BY DEF release
<1>3. EvidenceInv'
  BY <1>1, <1>2 DEF SupplyInv, EvidenceInv, Sound, Known
<1>4. OrderInv'
  BY <1>1, <1>2 DEF SupplyInv, OrderInv, Issued, Behind
<1>5. FetchInv'
  BY <1>1, <1>2 DEF SupplyInv, FetchInv, Newer
<1> QED
  BY <1>3, <1>4, <1>5 DEF SupplyInv

LEMMA PlaceKeeps ==
    ASSUME SupplyInv, Truncate \/ WriteApproved
    PROVE  SupplyInv'
<1>1. CASE Truncate
  <2>1. Sound(Torn) /\ ~Readable(Torn)
    BY DEF Sound, Readable
  <2>2. /\ Overwrite(work.place, Torn) /\ work.pc # "idle" /\ work'.cand = work.cand
        /\ work'.read = work.read
        /\ UNCHANGED <<now, records, loaded, release, fetch, late, evidenced>>
    BY <1>1 DEF Truncate, queue
  <2> QED
    BY <2>1, <2>2, OverwriteKeeps
<1>2. CASE WriteApproved
  <2> DEFINE old == IF work.read = None THEN {} ELSE work.read.facts
             new == Issue(0, old \cup {work.cand})
  <2>1. work.pc = "writing" /\ work'.pc = "idle" /\ Overwrite(work.place, new)
        /\ UNCHANGED <<now, records, loaded, release, fetch, late, evidenced>>
    BY <1>2 DEF WriteApproved, AtRest, queue
  <2>2. work.read # Torn
    BY <2>1 DEF SupplyInv, EvidenceInv
  <2>3. old \cup {work.cand} \subseteq Known
    BY <2>1, <2>2 DEF SupplyInv, EvidenceInv, Sound, Readable
  <2>4. Sound(new) /\ new.issued = 0
    BY <2>3, IssueIsCatalog, SupplyAssumption DEF Sound, SupplyInv, EvidenceInv, Known
  <2> HIDE DEF new
  <2> QED
    BY <2>1, <2>4, OverwriteKeeps
<1> QED
  BY <1>1, <1>2

\* What is compiled is, or is later than, all that was signed or published.
LEMMA BuildKeeps ==
    ASSUME SupplyInv, Build
    PROVE  SupplyInv'
<1> DEFINE new == Issue(now, fragment.facts)
<1>1. /\ Readable(fragment) /\ InAnotherSecond /\ out' = Torn
      /\ \/ Readable(out) /\ draft' = out
         \/ draft' = new
      /\ UNCHANGED <<source, sig, published, signed>>
  BY DEF Build
<1>2. /\ new \in Catalog /\ new.issued = now /\ new.facts = fragment.facts
      /\ Readable(new) /\ new.facts \subseteq Known
  <2>1. now \in Nat /\ fragment.facts \in SUBSET Candidate /\ fragment.facts \subseteq Known
    BY <1>1 DEF SupplyInv, OrderInv, EvidenceInv, Sound, Catalog
  <2> QED
    BY <2>1, IssueIsCatalog
<1>3. Sound(draft') /\ Readable(draft') /\ draft'.issued =< now
  <2>1. now \in Nat /\ Sound(out) /\ Issued(out)
    BY DEF SupplyInv, OrderInv, EvidenceInv
  <2> HIDE DEF new
  <2> QED
    BY <1>1, <1>2, <2>1 DEF Sound, Issued
<1>4. ASSUME NEW c \in signed \cup {published.data}, Readable(c)
      PROVE  UpTo(c, draft')
  <2>1. c \in Catalog /\ c.issued =< now /\ Behind(c)
    BY <1>4 DEF SupplyInv, OrderInv, EvidenceInv, Sound, Issued
  <2>2. c.facts # fragment.facts => c.issued < now
    BY <1>1, <1>4 DEF InAnotherSecond
  <2>3. CASE Readable(out) /\ draft' = out
    BY <2>1, <2>3 DEF Behind
  <2>4. CASE draft' = new
    <3>1. CASE c.issued < now
      BY <1>2, <2>4, <3>1 DEF UpTo
    <3>2. CASE c.issued = now /\ c.facts = fragment.facts
      <4>1. c = [issued |-> c.issued, facts |-> c.facts]
        BY <2>1 DEF Catalog
      <4>2. c = new
        BY <3>2, <4>1 DEF Issue
      <4> QED
        BY <2>4, <4>2 DEF UpTo
    <3>3. c.issued \in Nat /\ now \in Nat
      BY <2>1 DEF Catalog, SupplyInv, OrderInv
    <3> QED
      BY <2>1, <2>2, <3>1, <3>2, <3>3
  <2> QED
    BY <1>1, <2>3, <2>4
<1> HIDE DEF new
<1>5. /\ UNCHANGED <<now, records, loaded, fragment, work, installed, fetch, late, evidenced, sig,
                     published, signed>>
      /\ ~Readable(out') /\ draft' # Torn
  BY <1>1, <1>3 DEF source, queue, user, Readable
<1>6. EvidenceInv'
  BY <1>3, <1>5 DEF SupplyInv, EvidenceInv, Sound, Known
<1>7. OrderInv'
  <2>1. \A c \in signed : Readable(c)
    BY DEF SupplyInv, EvidenceInv
  <2>2. \A c \in signed' : Issued(c)' /\ Behind(c)'
    BY <1>4, <1>5, <2>1 DEF SupplyInv, OrderInv, Issued, Behind
  <2>3. Readable(published'.data) => Behind(published.data)'
    BY <1>4, <1>5 DEF Behind
  <2> QED
    BY <1>1, <1>3, <1>5, <2>2, <2>3 DEF SupplyInv, OrderInv, Issued
<1>8. FetchInv'
  BY <1>5 DEF SupplyInv, FetchInv
<1> QED
  BY <1>6, <1>7, <1>8 DEF SupplyInv

LEMMA WriteBuildKeeps ==
    ASSUME SupplyInv, WriteBuild \/ BuildFails
    PROVE  SupplyInv'
<1>1. /\ UNCHANGED <<now, records, loaded, fragment, work, installed, fetch, late, evidenced, sig,
                     published, signed>>
      /\ draft' = None /\ ~Readable(draft') /\ Readable(draft)
      /\ out' = draft \/ out' = out
  BY DEF WriteBuild, BuildFails, source, queue, user, Readable, SupplyInv, OrderInv
<1>2. EvidenceInv'
  BY <1>1 DEF SupplyInv, EvidenceInv, Sound, Known
<1>3. \A c : Behind(c) => Behind(c)'
  BY <1>1 DEF Behind
<1>4. \A c : Issued(c) => Issued(c)'
  BY <1>1 DEF Issued
<1>5. OrderInv'
  BY <1>1, <1>3, <1>4, SupplyAssumption DEF SupplyInv, OrderInv, Issued
<1>6. FetchInv'
  BY <1>1 DEF SupplyInv, FetchInv
<1> QED
  BY <1>2, <1>5, <1>6 DEF SupplyInv

LEMMA SignKeeps ==
    ASSUME SupplyInv, Sign
    PROVE  SupplyInv'
<1>1. /\ sig' = out /\ signed' = signed \cup {out} /\ Readable(out) /\ ~Readable(draft)
      /\ UNCHANGED <<now, records, loaded, fragment, work, installed, fetch, late, evidenced, out,
                     draft, published>>
  BY DEF Sign, source, queue, user, Readable, SupplyInv, OrderInv
<1>2. EvidenceInv'
  BY <1>1 DEF SupplyInv, EvidenceInv, Sound, Known
<1>3. OrderInv'
  BY <1>1 DEF SupplyInv, OrderInv, Issued, Behind, UpTo
<1>4. FetchInv'
  BY <1>1 DEF SupplyInv, FetchInv
<1> QED
  BY <1>2, <1>3, <1>4 DEF SupplyInv

LEMMA PublishKeeps ==
    ASSUME SupplyInv, Publish
    PROVE  SupplyInv'
<1>1. /\ published' = [data |-> out, sig |-> sig] /\ Readable(out) /\ ~Readable(draft)
      /\ UNCHANGED <<now, records, loaded, fragment, work, installed, fetch, late, evidenced, out,
                     sig, draft, signed>>
  BY DEF Publish, source, queue, user, Readable, SupplyInv, OrderInv
<1>2. published'.data = out /\ published'.sig = sig
  BY <1>1
<1>3. \A c \in signed : UpTo(c, out)
  BY <1>1 DEF SupplyInv, OrderInv, Behind
<1>4. EvidenceInv'
  BY <1>1, <1>2 DEF SupplyInv, EvidenceInv, Sound, Known
<1>5. OrderInv'
  BY <1>1, <1>2, <1>3 DEF SupplyInv, OrderInv, Issued, Behind, UpTo
<1>6. FetchInv'
  BY <1>1, <1>2, <1>3 DEF SupplyInv, FetchInv
<1> QED
  BY <1>4, <1>5, <1>6 DEF SupplyInv

\* The steps of a fetch before it installs.
LEMMA FetchStepsKeep ==
    ASSUME SupplyInv, NEW f \in Fetcher, Download(f) \/ Verify(f) \/ Accept(f) \/ FetchFails(f)
    PROVE  SupplyInv'
<1>1. /\ UNCHANGED <<now, records, loaded, fragment, work, out, sig, draft, published, evidenced,
                     signed, installed>>
      /\ late' \subseteq late /\ late \subseteq late' \cup {f}
      /\ late' = late \/ fetch' = [fetch EXCEPT ![f] = NoFetch]
  BY DEF Download, Verify, Accept, FetchFails, upstream, queue, release, Goes
<1>2. EvidenceInv'
  BY <1>1 DEF SupplyInv, EvidenceInv, Sound, Known
<1>3. OrderInv'
  BY <1>1 DEF SupplyInv, OrderInv, Issued, Behind
<1>4. ASSUME NEW step, Goes(f, step),
             step.pc # "idle" => Readable(step.data),
             step.pc \in {"valid", "install"} =>
                /\ step.data \in signed
                /\ Readable(published.data) /\ UpTo(step.data, published.data),
             step.pc = "install" =>
                (f \notin late' /\ Readable(installed) => Newer(step.data, installed))
      PROVE  SupplyInv'
  <2>1. /\ DOMAIN fetch' = Fetcher /\ fetch'[f] = step
        /\ \A g \in Fetcher \ {f} : fetch'[g] = fetch[g] /\ (g \notin late' => g \notin late)
    BY <1>1, <1>4 DEF Goes, SupplyInv, FetchInv
  <2>2. FetchInv'
    BY <1>1, <1>4, <2>1 DEF SupplyInv, FetchInv
  <2> QED
    BY <1>2, <1>3, <2>2 DEF SupplyInv
<1>5. NoFetch.pc = "idle"
  BY DEF NoFetch
<1>6. CASE Goes(f, NoFetch)
  BY <1>4, <1>5, <1>6
<1>7. CASE Download(f)
  <2>1. PICK d \in {published.data, Issue(MaxTime, Candidate)} : Goes(f, [pc |-> "data", data |-> d])
    BY <1>7 DEF Download
  <2>2. Readable(d)
    BY <1>7, IssueIsCatalog, SupplyAssumption DEF Download
  <2> DEFINE step == [pc |-> "data", data |-> d]
  <2>3. step.pc = "data" /\ step.data = d
    OBVIOUS
  <2> HIDE DEF step
  <2> QED
    BY <1>4, <2>1, <2>2, <2>3 DEF step
<1>8. CASE Verify(f) /\ ~Goes(f, NoFetch)
  <2> DEFINE step == [pc |-> "valid", data |-> fetch[f].data]
  <2>1. Goes(f, step) /\ fetch[f].data = published.sig /\ fetch[f].pc = "data"
    BY <1>8 DEF Verify, Authentic
  <2>2. step.pc = "valid" /\ step.data = fetch[f].data
    OBVIOUS
  <2>3. Readable(fetch[f].data) /\ fetch[f].data # None
    BY <2>1 DEF SupplyInv, FetchInv, Readable
  <2>4. /\ fetch[f].data \in signed
        /\ Readable(published.data) /\ UpTo(fetch[f].data, published.data)
    BY <2>1, <2>3 DEF SupplyInv, OrderInv
  <2> HIDE DEF step
  <2> QED
    BY <1>4, <2>1, <2>2, <2>3, <2>4
<1>9. CASE Accept(f) /\ ~Goes(f, NoFetch)
  <2> DEFINE step == [pc |-> "install", data |-> fetch[f].data]
  <2>1. /\ Goes(f, step) /\ fetch[f].pc = "valid"
        /\ installed = None \/ Newer(fetch[f].data, installed)
    BY <1>9 DEF Accept
  <2>2. step.pc = "install" /\ step.data = fetch[f].data
    OBVIOUS
  <2>3. Readable(installed) => Newer(fetch[f].data, installed)
    BY <2>1 DEF Readable
  <2>4. /\ Readable(fetch[f].data) /\ fetch[f].data \in signed
        /\ Readable(published.data) /\ UpTo(fetch[f].data, published.data)
    BY <2>1 DEF SupplyInv, FetchInv
  <2> HIDE DEF step
  <2> QED
    BY <1>4, <2>1, <2>2, <2>3, <2>4
<1> QED
  BY <1>6, <1>7, <1>8, <1>9 DEF FetchFails

LEMMA InstallKeeps ==
    ASSUME SupplyInv, NEW f \in Fetcher, Install(f)
    PROVE  SupplyInv'
<1>1. /\ fetch[f].pc = "install" /\ installed' = fetch[f].data
      /\ fetch' = [fetch EXCEPT ![f] = NoFetch]
      /\ late' = {g \in Fetcher \ {f} : fetch[g].pc = "install"}
      /\ UNCHANGED <<now, records, loaded, fragment, work, out, sig, draft, published, evidenced,
                     signed>>
  BY DEF Install, Goes, upstream, queue, release
<1>2. /\ fetch[f].data \in signed /\ Readable(published.data)
      /\ UpTo(fetch[f].data, published.data)
  BY <1>1 DEF SupplyInv, FetchInv
<1>3. EvidenceInv'
  BY <1>1, <1>2 DEF SupplyInv, EvidenceInv, Sound, Known
<1>4. OrderInv'
  BY <1>1, <1>2 DEF SupplyInv, OrderInv, Issued, Behind
<1>5. FetchInv'
  <2>1. /\ DOMAIN fetch' = Fetcher /\ fetch'[f].pc = "idle"
        /\ \A g \in Fetcher \ {f} : fetch'[g] = fetch[g]
    BY <1>1 DEF SupplyInv, FetchInv, NoFetch
  <2> QED
    BY <1>1, <2>1 DEF SupplyInv, FetchInv
<1> QED
  BY <1>3, <1>4, <1>5 DEF SupplyInv

LEMMA StepKeeps == SupplyInv /\ [Next]_vars => SupplyInv'
<1> SUFFICES ASSUME SupplyInv, [Next]_vars PROVE SupplyInv'
  OBVIOUS
<1>1. loaded \subseteq Known /\ now \in Nat /\ now =< now
  BY DEF SupplyInv, EvidenceInv, OrderInv
<1>2. CASE \/ UNCHANGED vars \/ Tick \/ StopDaemon \/ KillApprove
           \/ \E on \in BOOLEAN : SetTelemetry(on)
           \/ \E c \in Reported : Ratify(c) \/ ReportLost(c)
  BY <1>1, <1>2, QuietKeeps DEF vars, queue, machine, Tick, StopDaemon, KillApprove,
     SetTelemetry, Ratify, ReportLost, AtRest
<1>3. CASE StartDaemon
  <2>1. loaded' \subseteq Known
    BY <1>3 DEF StartDaemon, SupplyInv, EvidenceInv, Sound, Readable
  <2> QED
    BY <1>1, <1>3, <2>1, QuietKeeps DEF StartDaemon, machine
<1>4. CASE \E c \in Reported, p \in {"fragment", "installed"} : BeginApprove(c, p)
  BY <1>4, BeginKeeps
<1>5. CASE \/ RecordApproval
           \/ \E c \in Reported : Ingest(c) \/ Reject(c)
           \/ \E c \in Reported, f \in Confidence : SetEvidence(c, f)
  BY <1>5, QueueStepsKeep
<1> QED
  BY <1>2, <1>3, <1>4, <1>5, PlaceKeeps, BuildKeeps, WriteBuildKeeps, SignKeeps,
     PublishKeeps, FetchStepsKeep, InstallKeeps DEF Next

-----------------------------------------------------------------------------
(* No fact reaches a fragment, a catalog or a daemon without evidence,     *)
(* whatever becomes of the records of the queue (Approve and its command). *)
THEOREM EvidenceProved == Spec => []FactsHaveEvidence
<1>1. SupplyInv => FactsHaveEvidence
  BY DEF SupplyInv, EvidenceInv, Sound, Known, Facts, FactsHaveEvidence
<1> QED
  BY <1>1, InitInv, StepKeeps, PTL DEF Spec

(* An update that is published can be installed over any older one, or     *)
(* over what an approval has left (Compile and installValid).              *)
THEOREM UpdatesProved == Spec => []UpdatesAreInstallable
<1>1. SupplyInv => UpdatesAreInstallable
  BY DEF SupplyInv, OrderInv, UpTo, Newer, UpdatesAreInstallable
<1> QED
  BY <1>1, InitInv, StepKeeps, PTL DEF Spec

(* A fetch installs only what was signed as it is, and nothing older       *)
(* unless another fetch came between its check and its rename              *)
(* (FetchVerified and installValid).                                       *)
THEOREM InstallsProved == Spec => InstallsSignedAndNewer
<1>1. SupplyInv /\ [Next]_vars =>
         [\A f \in Fetcher : Install(f)
             => /\ installed' \in signed
                /\ Readable(installed) /\ f \notin late => Newer(installed', installed)]_vars
  BY DEF Install, SupplyInv, FetchInv
<1> QED
  BY <1>1, InitInv, StepKeeps, PTL DEF Spec, InstallsSignedAndNewer
=============================================================================
