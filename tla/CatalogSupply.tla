---------------------------- MODULE CatalogSupply ----------------------------
(***************************************************************************)
(* How a fact gets into the baseline catalog of a machine.  Ratifications  *)
(* of users who opted in are reported (internal/telemetry) and queued for  *)
(* a maintainer (internal/reviewqueue, cmd/review-queue), who attaches     *)
(* evidence and approves; the approved fragments are compiled and signed   *)
(* (cmd/catalog-build), published, and fetched and installed by users      *)
(* (internal/catalogfetch, cli/catalog.go), whose daemons load them.       *)
(*                                                                         *)
(* The review queue is a file of records that every command replays.  A    *)
(* write may stop half way, a process may die between two steps, and two   *)
(* fetches may be under way at once.                                       *)
(***************************************************************************)
EXTENDS Integers, Sequences

CONSTANTS Candidate,   \* a reported identity, host and verdict, and the fact made of it
          Shipped,     \* the facts in the fragments from the start
          Reported,    \* bound: the candidates that users ratify
          Fetcher,     \* bound: the fetches that may be under way at once
          MaxRecords,  \* bound: records in the queue file
          MaxTime,     \* bound: the clock, in seconds
          None, Torn   \* no file, and a file cut short

\* issued 0 stands for a catalog without issued_at.
Catalog == [issued : Nat, facts : SUBSET Candidate]

\* A confidence that can be approved or one that cannot; other records have none.
Confidence == {"usable", "unusable"}
Record     == [kind : {"report", "evidence", "reject", "approve"}, cand : Candidate,
               confidence : Confidence \cup {None}]

ASSUME SupplyAssumption ==
    /\ Shipped \subseteq Candidate /\ Shipped # {} /\ Reported \subseteq Candidate
    /\ MaxRecords \in Nat /\ MaxTime \in Nat
    /\ {None, Torn} \cap (Catalog \cup Record) = {} /\ None # Torn

VARIABLES
    now,
    enabled,    \* telemetry.toml: Enabled
    reporting,  \* the daemon: "down", or what it read at its start, "on" or "off"
    loaded,     \* the baseline facts the daemon has loaded
    posted,     \* reports on their way to the intake
    records,    \* the queue file's lines that parse, and Torn after a write cut short
    fragment,   \* the catalog file the maintainer adds to: issued_at and facts
    work,       \* the review-queue command that is approving
    out, sig,   \* the compiled catalog, and the bytes its signature file is for
    draft,      \* what the build under way is to write
    published,  \* the same two as the public sees them
    installed,  \* the baseline catalog of the user's machine
    fetch,      \* where each fetch is, and the catalog it has fetched
    evidenced,  \* history: candidates a maintainer has attached usable evidence to
    signed,     \* history: the catalogs that have been signed
    late        \* history: fetches that another has overtaken between check and rename

queue   == <<enabled, reporting, posted, records>>
release == <<out, sig, draft, published, signed>>
user    == <<installed, fetch, late>>
vars    == <<now, queue, loaded, fragment, work, release, user, evidenced>>

Issue(t, fs) == [issued |-> t, facts |-> fs]
Readable(c)  == c \notin {None, Torn}

AtRest == [pc |-> "idle", cand |-> None, place |-> None, read |-> None]
NoFetch == [pc |-> "idle", data |-> None]

Init ==
    /\ now = 1 /\ enabled = FALSE /\ reporting = "down" /\ loaded = {} /\ posted = {}
    /\ records = <<>> /\ fragment = Issue(0, Shipped) /\ work = AtRest
    /\ out = None /\ sig = None /\ draft = None
    /\ published = [data |-> None, sig |-> None]
    /\ installed = None /\ fetch = [f \in Fetcher |-> NoFetch]
    /\ evidenced = {} /\ signed = {} /\ late = {}

Tick == now < MaxTime /\ now' = now + 1
        /\ UNCHANGED <<queue, loaded, fragment, work, release, user, evidenced>>

-----------------------------------------------------------------------------
(* The user's machine: the daemon and telemetry.                           *)

machine == <<now, fragment, work, release, user, evidenced>>

SetTelemetry(on) ==
    /\ enabled' = on
    /\ UNCHANGED <<machine, reporting, loaded, posted, records>>

\* A malformed baseline stops the daemon from starting, an absent one does not.
StartDaemon ==
    /\ reporting = "down" /\ installed # Torn
    /\ loaded' = IF installed = None THEN {} ELSE installed.facts
    /\ reporting' = IF enabled THEN "on" ELSE "off"
    /\ UNCHANGED <<machine, enabled, posted, records>>

StopDaemon ==
    /\ reporting # "down" /\ reporting' = "down" /\ loaded' = {}
    /\ UNCHANGED <<machine, enabled, posted, records>>

\* An Always answer, once ratified, is reported without waiting.
Ratify(c) ==
    /\ reporting = "on" /\ posted' = posted \cup {c}
    /\ UNCHANGED <<machine, enabled, reporting, loaded, records>>

ReportLost(c) ==
    /\ c \in posted /\ posted' = posted \ {c}
    /\ UNCHANGED <<machine, enabled, reporting, loaded, records>>

-----------------------------------------------------------------------------
(* The queue: appending, and what a replay of the file makes of it.        *)

Entry(k, c)    == [kind |-> k, cand |-> c, confidence |-> None]
Evidence(c, f) == [kind |-> "evidence", cand |-> c, confidence |-> f]

\* What is appended to a fragment of a line makes one line with it, which a replay
\* skips; while that has no end either, the line stays open.  (A write that lacks no more
\* than the newline counts as torn.)
Appended(r) ==
    IF records # <<>> /\ records[Len(records)] = Torn
    THEN IF r = Torn THEN records ELSE SubSeq(records, 1, Len(records) - 1)
    ELSE Append(records, r)

Put(r) ==
    /\ Len(records) < MaxRecords
    /\ records' \in {Appended(r), Appended(Torn), records}

\* The command has seen its append succeed.
Whole(r) == records' = Appended(r)

At(k, c) == {i \in 1..Len(records) :
                records[i] # Torn /\ records[i].kind = k /\ records[i].cand = c}

Queued(c) == At("report", c) # {}

\* mutant: reports alone will do
HasReports(c) == Queued(c)

\* The last evidence decides, be its confidence one that can be approved or not.
HasEvidence(c) ==
    \E i \in At("evidence", c) :
        /\ records[i].confidence = "usable"
        /\ \E j \in At("report", c) : j < i
        /\ \A j \in At("evidence", c) : j <= i

Ingest(c) ==
    /\ c \in posted /\ posted' = posted \ {c}
    /\ Put(Entry("report", c))
    /\ UNCHANGED <<machine, enabled, reporting, loaded>>

SetEvidence(c, f) ==
    /\ Queued(c) /\ Put(Evidence(c, f))
    /\ evidenced' = IF f = "usable" /\ Whole(Evidence(c, f)) THEN evidenced \cup {c}
                    ELSE evidenced
    /\ UNCHANGED <<now, enabled, reporting, loaded, posted, fragment, work, release, user>>

Reject(c) ==
    /\ Queued(c) /\ Put(Entry("reject", c))
    /\ UNCHANGED <<machine, enabled, reporting, loaded, posted>>

\* review-queue approve: replay, read the catalog, append the approval, and write the
\* catalog in place, to the fragments or to the maintainer's own installed baseline.
Place(p) == IF p = "fragment" THEN fragment ELSE installed

BeginApprove(c, p) ==
    /\ work.pc = "idle" /\ HasEvidence(c) /\ Place(p) # Torn
    /\ work' = [pc |-> "approved", cand |-> c, place |-> p, read |-> Place(p)]
    /\ UNCHANGED <<now, queue, loaded, fragment, release, user, evidenced>>

RecordApproval ==
    /\ work.pc = "approved" /\ Put(Entry("approve", work.cand))
    /\ work' = IF Whole(Entry("approve", work.cand))
               THEN [work EXCEPT !.pc = "recorded"] ELSE AtRest
    /\ UNCHANGED <<now, enabled, reporting, loaded, posted, fragment, release, user, evidenced>>

Overwrite(p, c) ==
    IF p = "fragment" THEN fragment' = c /\ UNCHANGED installed
                      ELSE installed' = c /\ UNCHANGED fragment

Truncate ==
    /\ work.pc = "recorded" /\ work' = [work EXCEPT !.pc = "writing"]
    /\ Overwrite(work.place, Torn)
    /\ UNCHANGED <<now, queue, loaded, release, fetch, late, evidenced>>

\* Catalog.Add forgets issued_at.
WriteApproved ==
    /\ work.pc = "writing" /\ work' = AtRest
    /\ LET old == IF work.read = None THEN {} ELSE work.read.facts
       IN  Overwrite(work.place, Issue(0, old \cup {work.cand}))
    /\ UNCHANGED <<now, queue, loaded, release, fetch, late, evidenced>>

KillApprove ==
    /\ work.pc # "idle" /\ work' = AtRest
    /\ UNCHANGED <<now, queue, loaded, fragment, release, user, evidenced>>

-----------------------------------------------------------------------------
(* catalog-build, and publication.                                         *)

source == <<now, queue, loaded, fragment, work, user, evidenced>>

\* Assumed of a release: different catalogs are compiled in different seconds, by a
\* clock that does not step back; one build runs at a time, and only what it has written
\* to its end is signed and published.
InAnotherSecond ==
    \A c \in signed \cup {out, published.data} :
        Readable(c) /\ c.facts # fragment.facts => c.issued < now

\* mutant: the issue time of the last build sticks
BuildAgain ==
    /\ draft = None /\ Readable(fragment) /\ InAnotherSecond
    /\ draft' = Issue(IF Readable(out) THEN out.issued ELSE now, fragment.facts)
    /\ out' = Torn
    /\ UNCHANGED <<source, sig, published, signed>>

\* An unchanged catalog keeps its issued_at; another is issued now, and so is one of
\* which the last build has left only a part.  The file is written in place.
Build ==
    /\ draft = None /\ Readable(fragment) /\ InAnotherSecond
    /\ draft' = IF Readable(out) /\ out.facts = fragment.facts THEN out
                ELSE Issue(now, fragment.facts)
    /\ out' = Torn
    /\ UNCHANGED <<source, sig, published, signed>>

WriteBuild ==
    /\ draft # None /\ out' = draft /\ draft' = None
    /\ UNCHANGED <<source, sig, published, signed>>

BuildFails ==
    /\ draft # None /\ draft' = None
    /\ UNCHANGED <<source, out, sig, published, signed>>

\* A signature cut short fits nothing, as one that has not been renewed.
Sign ==
    /\ Readable(out) /\ sig' = out /\ signed' = signed \cup {out}
    /\ UNCHANGED <<source, out, draft, published>>

Publish ==
    /\ Readable(out) /\ published' = [data |-> out, sig |-> sig]
    /\ UNCHANGED <<source, out, sig, draft, signed>>

-----------------------------------------------------------------------------
(* catalog fetch.                                                          *)

upstream == <<now, queue, loaded, fragment, work, release, evidenced>>

Goes(f, step) == fetch' = [fetch EXCEPT ![f] = step]

\* What arrives may also be another catalog than was published.
Download(f) ==
    /\ fetch[f].pc = "idle" /\ Readable(published.data)
    /\ \E d \in {published.data, Issue(MaxTime, Candidate)} : Goes(f, [pc |-> "data", data |-> d])
    /\ UNCHANGED <<upstream, installed, late>>

\* mutant: any signature will do
SomeSignature(f) == published.sig # None

Authentic(f) == fetch[f].data = published.sig

\* The signature is fetched by itself, after the data it must be of.
Verify(f) ==
    /\ fetch[f].pc = "data"
    /\ Goes(f, IF Authentic(f) THEN [pc |-> "valid", data |-> fetch[f].data] ELSE NoFetch)
    /\ UNCHANGED <<upstream, installed, late>>

Newer(fresh, old) == fresh.issued > old.issued \/ old.issued = 0

\* installValid: a catalog that cannot be read is neither replaced nor compared with.
Accept(f) ==
    /\ fetch[f].pc = "valid"
    /\ LET fresh == fetch[f].data IN
          Goes(f, IF /\ fresh.facts # {} /\ fresh.issued # 0
                     /\ installed # Torn
                     /\ installed = None \/ Newer(fresh, installed)
                  THEN [pc |-> "install", data |-> fresh] ELSE NoFetch)
    /\ UNCHANGED <<upstream, installed, late>>

\* The rename of installValid; another fetch may have checked what it replaces.
Install(f) ==
    /\ fetch[f].pc = "install" /\ installed' = fetch[f].data /\ Goes(f, NoFetch)
    /\ late' = {g \in Fetcher \ {f} : fetch[g].pc = "install"}
    /\ UNCHANGED upstream

FetchFails(f) ==
    /\ fetch[f].pc # "idle" /\ Goes(f, NoFetch) /\ late' = late \ {f}
    /\ UNCHANGED <<upstream, installed>>

Next ==
    \/ Tick \/ StartDaemon \/ StopDaemon
    \/ \E on \in BOOLEAN : SetTelemetry(on)
    \/ \E c \in Reported : Ratify(c) \/ ReportLost(c) \/ Ingest(c) \/ Reject(c)
    \/ \E c \in Reported, f \in Confidence : SetEvidence(c, f)
    \/ \E c \in Reported, p \in {"fragment", "installed"} : BeginApprove(c, p)
    \/ RecordApproval \/ Truncate \/ WriteApproved \/ KillApprove
    \/ Build \/ WriteBuild \/ BuildFails \/ Sign \/ Publish
    \/ \E f \in Fetcher : Download(f) \/ Verify(f) \/ Accept(f) \/ Install(f) \/ FetchFails(f)

Spec == Init /\ [][Next]_vars

-----------------------------------------------------------------------------
(* Properties.                                                             *)

Facts(c) == IF Readable(c) THEN c.facts ELSE {}

(* "Promotion always requires a maintainer to attach independent evidence":*)
(* no fact is in a fragment, in a compiled, published or installed catalog,*)
(* or in a daemon, that was not shipped or given usable evidence, whatever *)
(* was torn, fused, rejected or repeated on its way.                       *)
FactsHaveEvidence ==
    Facts(fragment) \cup Facts(out) \cup Facts(published.data) \cup Facts(installed)
        \cup loaded \subseteq Shipped \cup evidenced

(* What the public sees can be installed over what a user has, unless it   *)
(* is that already: issued_at moves forward with every change of content   *)
(* through builds that change nothing, approvals in place and failed       *)
(* fetches, or an honest update would be refused as a replay.              *)
UpdatesAreInstallable ==
    Readable(installed) /\ Readable(published.data)
        => installed = published.data \/ Newer(published.data, installed)

(* A fetch installs only what has been signed as it is, though data and    *)
(* signature are two files that are replaced and fetched one by one, and   *)
(* never an older catalog over a newer, unless another fetch has installed *)
(* one between its check and its rename.                                   *)
InstallsSignedAndNewer ==
    [][\A f \in Fetcher : Install(f)
           => /\ installed' \in signed
              /\ Readable(installed) /\ f \notin late => Newer(installed', installed)]_vars
=============================================================================
