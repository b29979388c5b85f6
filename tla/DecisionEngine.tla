-------------------------- MODULE DecisionEngine --------------------------
(***************************************************************************)
(* internal/daemon: the life of a connection the kernel redirects to the   *)
(* daemon: who opened it, where to, what the exempt list, the allowlist,   *)
(* the catalog, the grace for changed binaries and the user say of it,     *)
(* whether its bytes go upstream, and what is logged.                      *)
(*                                                                         *)
(* Every connection runs in a goroutine of its own; they share the         *)
(* catalog, which an answered prompt extends, and the queue of changed     *)
(* binaries awaiting review.  A connection reads each once and acts on     *)
(* what it read later; binaries are upgraded meanwhile.                    *)
(***************************************************************************)
EXTENDS Policy, FiniteSets

CONSTANTS Conn,          \* bound: the connections of one behaviour
          Installed,     \* the file at each path when the daemon starts
          Upgrades,      \* bound: the paths that are upgraded, and from what to what
          Unverified,    \* bound: the paths whose signature is not always found out
          Baseline,      \* the catalog it starts with
          MaxGrace,      \* maxGraceHashesPerPath
          Options        \* the settings to start with: Options.ObserveOnly, and whether
                         \* Options.Binder and Options.Prompt are set

ASSUME EngineAssumption ==
    /\ MaxGrace \in Nat
    /\ Installed \in [Exe -> Hash] /\ Upgrades \subseteq Exe \X Hash \X Hash /\ Unverified \subseteq Exe
    /\ Baseline \in Seq(Entry)
    /\ Options \subseteq [observe : BOOLEAN, binder : BOOLEAN, prompt : BOOLEAN]

VARIABLES
    opts,      \* the settings, fixed at the start
    disk,      \* the content of the file at each path
    catalog,   \* the live catalog
    pending,   \* the review queue: <<path, new hash, host>>
    pc,        \* where each connection is
    exe, host, \* its process and server name, as far as they are known
    sig,       \* the path whose signature was found out, None if that failed
    id,        \* the identity its process was given
    match,     \* what the catalog said of it
    verdict,   \* decisionOutcome: "allow" or "deny"
    why,       \* Entry.Reason, "" for an allowlisted host
    logged,    \* what it has handed to Log.Write (DecisionLog), which may fail unnoticed
    upstream,  \* "no", "dialed", "open" once its first bytes have gone out, or "partly"
    asked,     \* history: the user's answer, if asked
    recorded   \* history: all that was ever in pending

shared == <<opts, disk, catalog, pending, recorded>>
local  == <<exe, sig, host, id, match>>
vars   == <<shared, pc, local, verdict, why, logged, upstream, asked>>

\* The paths the exempt list lets through, and the allowlist's verdict by host.
Exempt    == {x \in Exe : IsExempt(x)}
Allowlist == [h \in Host |-> Decide(h)]

Nobody == [name |-> None, path |-> None, hash |-> None, team |-> None]

Init ==
    /\ opts \in Options
    /\ disk = Installed /\ catalog = Baseline /\ pending = {} /\ recorded = {}
    /\ pc = [s \in Conn |-> "new"]
    /\ exe = [s \in Conn |-> None] /\ sig = [s \in Conn |-> None]
    /\ host = [s \in Conn |-> None]
    /\ id = [s \in Conn |-> Nobody] /\ match = [s \in Conn |-> "none"]
    /\ verdict = [s \in Conn |-> "deny"] /\ why = [s \in Conn |-> ""]
    /\ logged = [s \in Conn |-> <<>>]
    /\ upstream = [s \in Conn |-> "no"] /\ asked = [s \in Conn |-> None]

At(s, l) == pc[s] = l
Go(s, l) == pc' = [pc EXCEPT ![s] = l]

-----------------------------------------------------------------------------
(* handle: attribution and the exempt fast path.                           *)

Accept(s) ==
    /\ At(s, "new")
    /\ Go(s, "accepted")
    /\ UNCHANGED <<shared, local, verdict, why, logged, upstream, asked>>

Write(s, kind, decision, action) ==
    logged' = [logged EXCEPT ![s] = Append(@, [kind |-> kind, decision |-> decision,
                                               action |-> action])]

Refuse(s, reason) ==
    /\ Write(s, "decision", "deny", "deny")
    /\ verdict' = [verdict EXCEPT ![s] = "deny"]
    /\ why' = [why EXCEPT ![s] = reason]
    /\ Go(s, "closed")

\* The original destination cannot be found out.
DestUnknown(s) ==
    /\ At(s, "accepted")
    /\ Refuse(s, "original_dest_lookup_failed")
    /\ UNCHANGED <<shared, local, upstream, asked>>

\* Attribution may fail, and so may the verification of the signature: the connection then
\* has no process, or one that nobody signed, and is not exempt.
Attribute(s) ==
    /\ At(s, "accepted")
    /\ \E x \in Exe \cup {None} : \E v \in IF x \in Unverified THEN {x, None} ELSE {x} :
          /\ exe' = [exe EXCEPT ![s] = x] /\ sig' = [sig EXCEPT ![s] = v]
          /\ Go(s, IF v \in Exempt THEN "exempt" ELSE "hello")
    /\ UNCHANGED <<shared, host, id, match, verdict, why, logged, upstream, asked>>

\* An exempt connection is logged only once its upstream is known; its bytes follow.
ForwardExempt(s) ==
    /\ At(s, "exempt")
    /\ \/ Refuse(s, "exempt_upstream_dial_failed") /\ UNCHANGED upstream
       \/ /\ Write(s, "decision", "allow", "allow")
          /\ verdict' = [verdict EXCEPT ![s] = "allow"]
          /\ why' = [why EXCEPT ![s] = "exempt_app"]
          /\ upstream' = [upstream EXCEPT ![s] = "open"]
          /\ Go(s, "splicing")
    /\ UNCHANGED <<shared, local, asked>>

\* No ClientHello in time, or none with a server name: in any mode, the end.
HelloFails(s) ==
    /\ At(s, "hello")
    /\ Refuse(s, "no_server_name")
    /\ UNCHANGED <<shared, local, upstream, asked>>

ParseHello(s) ==
    /\ At(s, "hello")
    /\ \E h \in Host : host' = [host EXCEPT ![s] = h]
    /\ Go(s, "identify")
    /\ UNCHANGED <<shared, exe, sig, id, match, verdict, why, logged, upstream, asked>>

\* identityFor: the path and the hash of the file now at the path, or neither.
Identify(s) ==
    /\ At(s, "identify")
    /\ LET x == exe[s]
           named == [Nobody EXCEPT !.name = NameOf[x],
                                   !.team = IF sig[s] = x THEN TeamOf[x] ELSE None]
       IN \/ x = None /\ UNCHANGED id
          \/ x # None /\ id' = [id EXCEPT ![s] = named]
          \/ x # None /\ id' = [id EXCEPT ![s] = [named EXCEPT !.path = x, !.hash = disk[x]]]
    /\ Go(s, "consult")
    /\ UNCHANGED <<shared, exe, sig, host, match, verdict, why, logged, upstream, asked>>

-----------------------------------------------------------------------------
(* decideBranch, after the exempt list has been asked again.               *)

Deny(s, reason) ==
    /\ verdict' = [verdict EXCEPT ![s] = "deny"] /\ why' = [why EXCEPT ![s] = reason]
    /\ Go(s, "decided")

\* What is left of an allow is the check of the destination's address.
Allow(s, reason) ==
    /\ verdict' = [verdict EXCEPT ![s] = "allow"] /\ why' = [why EXCEPT ![s] = reason]
    /\ Go(s, "bind")

AskUser(s) == Go(s, "prompt") /\ UNCHANGED <<verdict, why>>

\* The allowlist, and for a host it does not know the catalog.
Consult(s) ==
    /\ At(s, "consult")
    /\ LET listed == Allowlist[host[s]]
           m == IF listed = "unknown" THEN Lookup(catalog, id[s], host[s]) ELSE "none"
       IN /\ match' = [match EXCEPT ![s] = m]
          /\ \/ listed = "allow" /\ Allow(s, "")
             \/ listed = "deny" /\ Deny(s, "host_denylisted")
             \/ m = "never" /\ Deny(s, "catalog_never_hit")
             \/ m = "fact" /\ Allow(s, "catalog_fact")
             \/ m = "stale" /\ Go(s, "count") /\ UNCHANGED <<verdict, why>>
             \/ listed = "unknown" /\ m \in {"none", "context"} /\ AskUser(s)
    /\ UNCHANGED <<shared, exe, sig, host, id, logged, upstream, asked>>

\* DistinctNewHashes.
Queued(x) == {q[2] : q \in {p \in pending : p[1] = x}}

\* Mutant: the number of hashes awaiting review is not looked at.
StaleGraceAlways(x) == x \in Exe

StaleGraceAvailable(x) == Cardinality(Queued(x)) < MaxGrace

\* Counting the queue may fail, and then there is no grace.
CountGrace(s) ==
    /\ At(s, "count")
    /\ \/ StaleGraceAvailable(id[s].path) /\ Allow(s, "unratified_binary_grace")
       \/ AskUser(s)
    /\ UNCHANGED <<shared, local, logged, upstream, asked>>

\* bindDest: an address the name does not resolve to, or a failing resolver, denies.
BindDest(s) ==
    /\ At(s, "bind")
    /\ \/ /\ Go(s, IF why[s] = "unratified_binary_grace" THEN "record" ELSE "decided")
          /\ UNCHANGED <<verdict, why>>
       \/ /\ opts.binder
          /\ Deny(s, "sni_ip")
    /\ UNCHANGED <<shared, local, logged, upstream, asked>>

Queue(s) ==
    /\ pending'  = pending  \cup {<<id[s].path, id[s].hash, host[s]>>}
    /\ recorded' = recorded \cup {<<id[s].path, id[s].hash, host[s]>>}

\* Mutant: grace does not depend on the record of it.
RecordIfPossible(s) ==
    /\ At(s, "record")
    /\ Queue(s) \/ UNCHANGED <<pending, recorded>>
    /\ Go(s, "decided")
    /\ UNCHANGED <<opts, disk, catalog, local, verdict, why, logged, upstream, asked>>

\* Mutant: a failing record is tried again.
RecordWithRetry(s) ==
    /\ At(s, "record")
    /\ \/ Queue(s) /\ Go(s, "decided")
       \/ Go(s, "count") /\ UNCHANGED <<pending, recorded>>
    /\ UNCHANGED <<opts, disk, catalog, local, verdict, why, logged, upstream, asked>>

\* recordPending: no grace without a record of it.
RecordPending(s) ==
    /\ At(s, "record")
    /\ \/ Queue(s) /\ Go(s, "decided") /\ UNCHANGED <<verdict, why>>
       \/ AskUser(s) /\ UNCHANGED <<pending, recorded>>
    /\ UNCHANGED <<opts, disk, catalog, local, logged, upstream, asked>>

-----------------------------------------------------------------------------
(* The prompt (see PromptCoalescer): any answer at any time; a timeout is  *)
(* a deny.                                                                 *)

NoPrompt(s) ==
    /\ At(s, "prompt") /\ ~opts.prompt
    /\ Deny(s, "host_unknown_no_prompt")
    /\ UNCHANGED <<shared, local, logged, upstream, asked>>

Answers == {"allow", "allow_always", "deny", "deny_always"}

\* classifyDrift: an identity with a pin is taken as it is; of another Classify is told the
\* path, and has no more than the name.
DriftIdentity(i) == IF HasDecisionPin(i) THEN i ELSE [Nobody EXCEPT !.name = i.name]

\* catalogEntryFor: the host is expected of this identity, or never to be reached by it.
Ratified(s, answer) ==
    [id |-> DriftIdentity(id[s]),
     expects |-> IF answer = "allow_always" THEN {host[s]} ELSE {},
     never   |-> IF answer = "deny_always" THEN {host[s]} ELSE {}]

\* The two lasting answers are ratified before Decide returns, if the file can be written.
Answer(s) ==
    /\ At(s, "prompt") /\ opts.prompt
    /\ \E answer \in Answers :
          /\ asked' = [asked EXCEPT ![s] = answer]
          /\ \/ UNCHANGED catalog
             \/ /\ answer \in {"allow_always", "deny_always"}
                /\ catalog' = AddIfAbsent(catalog, Ratified(s, answer))
          /\ IF answer \in {"allow", "allow_always"} THEN Allow(s, "user_allowed")
             ELSE Deny(s, "user_denied_or_timeout")
    /\ UNCHANGED <<opts, disk, pending, recorded, local, logged, upstream>>

-----------------------------------------------------------------------------
(* handle: enforcement.  finalizeOutcome lets every verdict pass when only *)
(* observing, and keeps the verdict in Entry.Action.                       *)

Decision(s) == IF opts.observe THEN "observe" ELSE verdict[s]
Forwards(s) == opts.observe \/ verdict[s] = "allow"

CloseDenied(s) ==
    /\ At(s, "decided") /\ ~Forwards(s)
    /\ Write(s, "decision", "deny", "deny")
    /\ Go(s, "closed")
    /\ UNCHANGED <<shared, local, verdict, why, upstream, asked>>

\* Mutant: a failure of the first write is not logged.
NetworkFailsUnlogged(s, reason) ==
    /\ IF upstream[s] = "dialed" THEN UNCHANGED logged
       ELSE Write(s, "decision", "deny", "deny")
    /\ why' = [why EXCEPT ![s] = reason]
    /\ Go(s, "closed")
    /\ upstream' = [upstream EXCEPT ![s] = "no"]
    /\ UNCHANGED <<shared, local, verdict, asked>>

\* A write that fails may have sent part of the bytes.
Sent(s) == IF upstream[s] = "dialed" THEN {"no", "partly"} ELSE {"no"}

\* A network error: when observing the verdict stays what it was.
NetworkFails(s, reason) ==
    /\ IF opts.observe THEN Write(s, "decision", "observe", verdict[s])
       ELSE Write(s, "decision", "deny", "deny")
    /\ why' = [why EXCEPT ![s] = reason]
    /\ Go(s, "closed")
    /\ \E u \in Sent(s) : upstream' = [upstream EXCEPT ![s] = u]
    /\ UNCHANGED <<shared, local, verdict, asked>>

Dial(s) ==
    /\ At(s, "decided") /\ Forwards(s)
    /\ \/ /\ upstream' = [upstream EXCEPT ![s] = "dialed"] /\ Go(s, "replay")
          /\ UNCHANGED <<shared, local, verdict, why, logged, asked>>
       \/ NetworkFails(s, "upstream_dial_failed")

\* The bytes read from the client go out, and only then is the decision logged.
Replay(s) ==
    /\ At(s, "replay")
    /\ \/ /\ upstream' = [upstream EXCEPT ![s] = "open"] /\ Go(s, "log")
          /\ UNCHANGED <<shared, local, verdict, why, logged, asked>>
       \/ NetworkFails(s, "upstream_write_failed")

LogDecision(s) ==
    /\ At(s, "log")
    /\ Write(s, "decision", Decision(s), verdict[s])
    /\ Go(s, "splicing")
    /\ UNCHANGED <<shared, local, verdict, why, upstream, asked>>

\* Either side has closed; writeFlow.
EndSplice(s) ==
    /\ At(s, "splicing")
    /\ Write(s, "flow", IF sig[s] \in Exempt THEN "allow" ELSE Decision(s), verdict[s])
    /\ Go(s, "closed")
    /\ UNCHANGED <<shared, local, verdict, why, upstream, asked>>

-----------------------------------------------------------------------------
(* Outside the daemon: upgrades, and the review of changed binaries.       *)

Upgrade(x) ==
    /\ \E h \in Hash : /\ <<x, disk[x], h>> \in Upgrades
                      /\ disk' = [disk EXCEPT ![x] = h]
    /\ UNCHANGED <<opts, catalog, pending, recorded, pc, local, verdict, why, logged, upstream, asked>>

\* `egress-guard review` takes a hash off the queue.  What it pins is for the next start.
Review(x) ==
    /\ \E h \in Queued(x) : pending' = {p \in pending : p[1] # x \/ p[2] # h}
    /\ UNCHANGED <<opts, disk, catalog, recorded, pc, local, verdict, why, logged, upstream,
                   asked>>

Handle(s) ==
    \/ DestUnknown(s) \/ Attribute(s) \/ ForwardExempt(s)
    \/ HelloFails(s) \/ ParseHello(s) \/ Identify(s)
    \/ Consult(s) \/ CountGrace(s) \/ BindDest(s) \/ RecordPending(s)
    \/ NoPrompt(s) \/ Answer(s)
    \/ CloseDenied(s) \/ Dial(s) \/ Replay(s) \/ LogDecision(s)

Next ==
    \/ \E s \in Conn : Accept(s) \/ Handle(s) \/ EndSplice(s)
    \/ \E x \in Exe : Upgrade(x) \/ Review(x)

Spec == Init /\ [][Next]_vars

\* Goroutines run, and what they wait for before the splice has a deadline: the
\* ClientHello, the resolver, the prompt, the dial.  Nothing ends an idle splice.
Fairness == \A s \in Conn : WF_vars(Handle(s))
FairSpec == Spec /\ Fairness

-----------------------------------------------------------------------------
\* A verdict is enforced for a reason that still stands when the bytes go out, however
\* long ago it was found: an exempt process, which is signed and no interpreter; a host an
\* allow covers and no deny of its layer or of one above; a pinned fact of this very
\* identity; a recorded grace for a host its path is pinned to; or the user's answer to
\* this connection (decideBranch, Allowlist.Decide, IsExempt).
Pinned(s)  == Says(catalog, id[s], host[s], "fact")
Changed(s) == /\ Says(catalog, id[s], host[s], "stale")
              /\ <<id[s].path, id[s].hash, host[s]>> \in recorded
Grounds(s) == \/ sig[s] = exe[s] /\ exe[s] \in Exempt \cap Signed
                 /\ NameOf[exe[s]] \notin Interpreter
              \/ /\ host[s] \in Host
                 /\ \/ Allowlisted(host[s])
                    \/ match[s] = "fact" /\ Pinned(s)
                    \/ match[s] = "stale" /\ Changed(s)
                    \/ asked[s] \in {"allow", "allow_always"}
ForwardedOnGrounds ==
    ~opts.observe => \A s \in Conn : upstream[s] # "no" => Grounds(s)

\* Once the catalog keeps an identity from a host, no later ratification, of whatever
\* connection it is, takes that back (Lookup, Ratify).
NeverStands ==
    [][\A s \in Conn, h \in Host :
           Lookup(catalog, id[s], h) = "never" => Lookup(catalog', id[s], h) = "never"]_vars

\* When the queue of a path is full, only the connections that counted it before can
\* still add to it (staleGraceAvailable and recordPending are two steps).
Granted(x) == {id[s].hash : s \in {c \in Conn : /\ why[c] = "unratified_binary_grace"
                                               /\ id[c].path = x
                                               /\ pc[c] \in {"bind", "record"}}}
FullQueueStaysShut ==
    [][\A x \in Exe : Cardinality(Queued(x)) >= MaxGrace
           => Granted(x)' \subseteq Granted(x) /\ Queued(x)' \subseteq Queued(x) \cup Granted(x)]_vars

\* The log of a finished connection tells what happened to it: one decision, an allow or a
\* flow only where its first bytes were forwarded, a deny only where they were not (but for
\* what a failing write had sent of them) (handle's exits).
LogIsFaithful ==
    \A s \in Conn : pc[s] = "closed" =>
        LET first == logged[s][1] IN
          /\ Len(logged[s]) = IF upstream[s] = "open" THEN 2 ELSE 1
          /\ first.kind = "decision"
          /\ first.decision = "allow" => upstream[s] = "open"
          /\ first.decision = "deny"  => \/ upstream[s] = "no"
                                         \/ /\ upstream[s] = "partly"
                                            /\ why[s] = "upstream_write_failed"
          /\ \A r \in {logged[s][i] : i \in 2..Len(logged[s])} :
                 r.kind = "flow" /\ r.decision = first.decision /\ r.action = first.action

\* Whatever fails on its way, a connection is forwarded or closed (handle).
EveryConnectionIsDecided == \A s \in Conn : pc[s] = "accepted" ~> pc[s] \in {"splicing", "closed"}
=============================================================================
