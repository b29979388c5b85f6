--------------------------- MODULE PromptCoalescer ---------------------------
(***************************************************************************)
(* internal/prompt: the Coalescer that stands between concurrent           *)
(* connections and the one user, and the CoreDecider that turns the        *)
(* coalesced answer into a verdict and a ratified catalog fact.            *)
(*                                                                         *)
(* A call is one CoreDecider.Decide for one connection.  Calls run         *)
(* concurrently.  A call reads the clock BEFORE it takes the mutex (Call), *)
(* does one of four things while it holds it (ReplayBurst, AskBurst,       *)
(* JoinGroup, LeadGroup) and lets go of it while the user is asked.  A     *)
(* group is named by the call that leads it: a waiter keeps the pointer to *)
(* its group when groupByDom moves on to a younger one.                    *)
(***************************************************************************)
EXTENDS Naturals, FiniteSets

CONSTANTS Calls,          \* the calls made in one behaviour
          NoCall,         \* the nil *group
          Procs,          \* process ids
          Hosts,          \* destination host names
          Domains,        \* registered domains (eTLD+1)
          RegDom,         \* RegisteredDomain, as a function of the host
          proc, host,     \* the request each call carries
          Window,         \* Coalescer.window, in clock ticks
          Burst,          \* Coalescer.burst
          PromptTimeout,  \* CoreDecider.opts.Timeout, in clock ticks
          LastStart       \* bound: the last instant at which a call may start

ASSUME CoalescerAssumption ==
    /\ NoCall \notin Calls
    /\ RegDom \in [Hosts -> Domains]
    /\ proc \in [Calls -> Procs] /\ host \in [Calls -> Hosts]
    /\ Window \in Nat /\ Burst \in Nat /\ PromptTimeout \in Nat /\ LastStart \in Nat
    /\ PromptTimeout < Window    \* cli/daemon.go: 30 s and 60 s

\* What the platform notifier can answer, and the two groups a verdict tells apart.
AllowActions == {"AllowOnce", "AllowAlways"}
DenyActions  == {"Deny", "DenyAlways"}
Actions      == AllowActions \cup DenyActions
Failed       == "error"          \* the notifier's (ActionDeny, err)
NotYet       == "none"

VARIABLES
    clock,        \* time.Now, in ticks
    pc,           \* where each call is
    start,        \* the `now` a call read before it took the lock
    joined,       \* the group a call waits on, by its leader
    result,       \* what Notify returned to the call: an action or Failed
    groupByDom,   \* Coalescer.groupByDom: the latest group of a domain, by leader
    ready,        \* the leaders whose group's ready channel is closed
    pidHistory,   \* Coalescer.pidHistory
    burstByPid,   \* Coalescer.burstByPid
    burstExpiry,  \* Coalescer.burstExpiry; 0 when the pid has no entry
    verdict,      \* what Decide returned
    ratified,     \* facts the RatifyWriter persisted
    asked         \* history: the prompt a call put before the user, and the answer

coalescer == <<groupByDom, ready, pidHistory, burstByPid, burstExpiry>>
outcome   == <<verdict, ratified>>
vars == <<clock, pc, start, joined, result, coalescer, outcome, asked>>

PC     == {"idle", "called", "waiting", "leading", "bursting", "returned", "done"}
Ticks  == 0..(LastStart + PromptTimeout)
Prompt == [kind : {"none", "domain", "burst"}, answer : Actions \cup {Failed, NotYet}]
Fact   == [proc : Procs, host : Hosts, list : {"expected", "never"}]

Unasked == [kind |-> "none", answer |-> NotYet]

TypeOK ==
    /\ clock \in Ticks
    /\ pc \in [Calls -> PC]
    /\ start \in [Calls -> 0..LastStart]
    /\ joined \in [Calls -> Calls \cup {NoCall}]
    /\ result \in [Calls -> Actions \cup {Failed, NotYet}]
    /\ groupByDom \in [Domains -> Calls \cup {NoCall}]
    /\ ready \subseteq Calls
    /\ pidHistory \in [Procs -> SUBSET [regdom : Domains, ts : 0..LastStart]]
    /\ burstByPid \in [Procs -> Actions \cup {NotYet}]
    /\ burstExpiry \in [Procs -> 0..(LastStart + Window)]
    /\ verdict \in [Calls -> {NotYet, "Allow", "Deny"}]
    /\ ratified \subseteq Fact
    /\ asked \in [Calls -> Prompt]

Init ==
    /\ clock = 0
    /\ pc = [c \in Calls |-> "idle"]
    /\ start = [c \in Calls |-> 0]
    /\ joined = [c \in Calls |-> NoCall]
    /\ result = [c \in Calls |-> NotYet]
    /\ groupByDom = [d \in Domains |-> NoCall]
    /\ ready = {}
    /\ pidHistory = [p \in Procs |-> {}]
    /\ burstByPid = [p \in Procs |-> NotYet]
    /\ burstExpiry = [p \in Procs |-> 0]
    /\ verdict = [c \in Calls |-> NotYet]
    /\ ratified = {}
    /\ asked = [c \in Calls |-> Unasked]

-----------------------------------------------------------------------------
(* Reading the coalescer's state, for a call that holds the mutex. *)

DomainOf(c) == RegDom[host[c]]

BurstSafeRaw(a) == a      \* mutant: the raw answer is replayed

\* The burst dialog names no domain, so its Always answers lose their Always.
BurstSafe(a) == CASE a = "AllowAlways" -> "AllowOnce"
                  [] a = "DenyAlways"  -> "Deny"
                  [] OTHER             -> a

BurstCached(c) == start[c] < burstExpiry[proc[c]]

Recent(c) == {e \in pidHistory[proc[c]] : start[c] <= e.ts + Window}

Seen(c) == {e.regdom : e \in Recent(c)} \cup {DomainOf(c)}

\* A domain already in the window keeps the time at which it was first seen.
History(c) ==
    IF \E e \in Recent(c) : e.regdom = DomainOf(c)
    THEN Recent(c)
    ELSE Recent(c) \cup {[regdom |-> DomainOf(c), ts |-> start[c]]}

TriggersBurst(c) == Cardinality(Seen(c)) > Burst

\* mutants: the expiry is forgotten; only an answered group is shared
GroupLiveForever(c) == groupByDom[DomainOf(c)] # NoCall
GroupLiveOnceReady(c) ==
    /\ groupByDom[DomainOf(c)] \in ready
    /\ start[c] < start[groupByDom[DomainOf(c)]] + Window

GroupLive(c) ==
    /\ groupByDom[DomainOf(c)] # NoCall
    /\ start[c] < start[groupByDom[DomainOf(c)]] + Window

-----------------------------------------------------------------------------
(* A call's way through CoreDecider.Decide and Coalescer.Notify. *)

\* Decide starts its timeout and Notify reads time.Now.
Call(c) ==
    /\ pc[c] = "idle"
    /\ clock <= LastStart
    /\ pc' = [pc EXCEPT ![c] = "called"]
    /\ start' = [start EXCEPT ![c] = clock]
    /\ UNCHANGED <<clock, joined, result, coalescer, outcome, asked>>

\* The pid is in burst mode: the cached answer is replayed.
ReplayBurst(c) ==
    /\ pc[c] = "called" /\ BurstCached(c)
    /\ pc' = [pc EXCEPT ![c] = "returned"]
    /\ result' = [result EXCEPT ![c] = burstByPid[proc[c]]]
    /\ UNCHANGED <<clock, start, joined, coalescer, outcome, asked>>

\* One domain too many: the call raises the burst prompt, outside the lock.
AskBurst(c) ==
    /\ pc[c] = "called" /\ ~BurstCached(c) /\ TriggersBurst(c)
    /\ pc' = [pc EXCEPT ![c] = "bursting"]
    /\ pidHistory' = [pidHistory EXCEPT ![proc[c]] = History(c)]
    /\ asked' = [asked EXCEPT ![c].kind = "burst"]
    /\ UNCHANGED <<clock, start, joined, result, groupByDom, ready, burstByPid,
                   burstExpiry, outcome>>

\* A prompt for the domain is open or was answered within the window.
JoinGroup(c) ==
    /\ pc[c] = "called" /\ ~BurstCached(c) /\ ~TriggersBurst(c) /\ GroupLive(c)
    /\ pc' = [pc EXCEPT ![c] = "waiting"]
    /\ joined' = [joined EXCEPT ![c] = groupByDom[DomainOf(c)]]
    /\ pidHistory' = [pidHistory EXCEPT ![proc[c]] = History(c)]
    /\ UNCHANGED <<clock, start, result, groupByDom, ready, burstByPid,
                   burstExpiry, outcome, asked>>

\* No live group: the call replaces it with its own and raises the prompt.
LeadGroup(c) ==
    /\ pc[c] = "called" /\ ~BurstCached(c) /\ ~TriggersBurst(c) /\ ~GroupLive(c)
    /\ pc' = [pc EXCEPT ![c] = "leading"]
    /\ groupByDom' = [groupByDom EXCEPT ![DomainOf(c)] = c]
    /\ pidHistory' = [pidHistory EXCEPT ![proc[c]] = History(c)]
    /\ asked' = [asked EXCEPT ![c].kind = "domain"]
    /\ UNCHANGED <<clock, start, joined, result, ready, burstByPid, burstExpiry,
                   outcome>>

Enter(c) == ReplayBurst(c) \/ AskBurst(c) \/ JoinGroup(c) \/ LeadGroup(c)

PublishGroupUnlessFailed(c, r) ==      \* mutant: the error path closes nothing
    /\ pc[c] = "leading"
    /\ ready' = IF r = Failed THEN ready ELSE ready \cup {c}
    /\ result' = [result EXCEPT ![c] = r]
    /\ UNCHANGED <<burstByPid, burstExpiry>>

\* The notifier returned r to the leader of a group, which publishes it.
PublishGroup(c, r) ==
    /\ pc[c] = "leading"
    /\ ready' = ready \cup {c}
    /\ result' = [result EXCEPT ![c] = r]
    /\ UNCHANGED <<burstByPid, burstExpiry>>

\* The notifier returned r to a burst prompt.  An error arrives with ActionDeny,
\* which is cached; the expiry counts from the start of the call.
CacheBurst(c, r) ==
    /\ pc[c] = "bursting"
    /\ burstByPid' = [burstByPid EXCEPT
                        ![proc[c]] = IF r = Failed THEN "Deny" ELSE BurstSafe(r)]
    /\ burstExpiry' = [burstExpiry EXCEPT ![proc[c]] = start[c] + Window]
    /\ result' = [result EXCEPT ![c] = IF r = Failed THEN Failed ELSE BurstSafe(r)]
    /\ UNCHANGED ready

PromptReturns(c, r) ==
    /\ PublishGroup(c, r) \/ CacheBurst(c, r)
    /\ pc' = [pc EXCEPT ![c] = "returned"]
    /\ asked' = [asked EXCEPT ![c].answer = r]
    /\ UNCHANGED <<clock, start, joined, groupByDom, pidHistory, outcome>>

\* A dialog is on the screen only while the context of its call lives: a call that
\* took the lock after its own deadline gets the context's error and no dialog.
OnScreen(c) == pc[c] \in {"leading", "bursting"} /\ clock <= start[c] + PromptTimeout

UserAnswers(c) == OnScreen(c) /\ \E a \in Actions : PromptReturns(c, a)

\* The notifier itself fails: osascript is missing, or the dialog was dismissed.
NotifierFails(c) == PromptReturns(c, Failed)

\* The call's context expires and takes the dialog down.
PromptExpires(c) == clock >= start[c] + PromptTimeout /\ PromptReturns(c, Failed)

\* <-g.ready
Wake(c) ==
    /\ pc[c] = "waiting" /\ joined[c] \in ready
    /\ pc' = [pc EXCEPT ![c] = "returned"]
    /\ result' = [result EXCEPT ![c] = result[joined[c]]]
    /\ UNCHANGED <<clock, start, joined, coalescer, outcome, asked>>

\* catalogEntryFor: the fact is the CALLER's own identity and host, among the
\* entry's ExpectedDestinations or in its Never list.
FactOf(c) == [proc |-> proc[c], host |-> host[c],
              list |-> IF result[c] = "AllowAlways" THEN "expected" ELSE "never"]

\* Decide after Notify: an error denies; an Always answer is ratified unless
\* the RatifyWriter fails, which is only logged.
Conclude(c) ==
    /\ pc[c] = "returned"
    /\ pc' = [pc EXCEPT ![c] = "done"]
    /\ verdict' = [verdict EXCEPT
                     ![c] = IF result[c] \in AllowActions THEN "Allow" ELSE "Deny"]
    /\ \/ result[c] \in {"AllowAlways", "DenyAlways"}
          /\ ratified' = ratified \cup {FactOf(c)}
       \/ UNCHANGED ratified
    /\ UNCHANGED <<clock, start, joined, result, coalescer, asked>>

\* Time passes; a dialog does not outlive the context it was started under.
Tick ==
    /\ clock < LastStart + PromptTimeout
    /\ \A c \in Calls : pc[c] \in {"leading", "bursting"} => clock < start[c] + PromptTimeout
    /\ clock' = clock + 1
    /\ UNCHANGED <<pc, start, joined, result, coalescer, outcome, asked>>

\* No call is under way and the clock has run out: the end of the bounded behaviour.
Finished ==
    /\ \A c \in Calls : pc[c] \in {"idle", "done"}
    /\ clock = LastStart + PromptTimeout
    /\ UNCHANGED vars

Next ==
    \/ \E c \in Calls :
          \/ Call(c) \/ Enter(c)
          \/ UserAnswers(c) \/ NotifierFails(c) \/ PromptExpires(c)
          \/ Wake(c) \/ Conclude(c)
    \/ Tick
    \/ Finished

\* Goroutines that can run do run (the Go scheduler, and sync.Mutex's starvation
\* mode), contexts expire and time passes.  The user owes nobody an answer.
Fairness ==
    /\ WF_vars(Tick)
    /\ \A c \in Calls : /\ WF_vars(Enter(c)) /\ WF_vars(PromptExpires(c))
                        /\ WF_vars(Wake(c))  /\ WF_vars(Conclude(c))

Spec     == Init /\ [][Next]_vars
FairSpec == Spec /\ Fairness

-----------------------------------------------------------------------------
(* Properties. *)

\* The prompt of call s speaks for call c: a domain prompt for the calls to its
\* domain, a burst prompt for the calls of its pid, and either only for calls that
\* started within the window of the prompt's own start.
Covers(s, c) ==
    /\ start[c] < start[s] + Window
    /\ \/ asked[s].kind = "domain" /\ DomainOf(s) = DomainOf(c)
       \/ asked[s].kind = "burst"  /\ proc[s] = proc[c]

Means(answer) == IF answer \in AllowActions THEN "Allow" ELSE "Deny"

\* Every verdict is the answer to a prompt that covers the call, however many
\* groups, burst caches and overtaking calls lie between the two: nothing is let
\* through on a stale answer or on another domain's, and a prompt that failed or
\* expired denies (coalesce.go: Notify; prompt.go: Decide).
VerdictFromPrompt ==
    \A c \in Calls : verdict[c] # NotYet =>
        \E s \in Calls : /\ Covers(s, c)
                         /\ asked[s].answer # NotYet
                         /\ verdict[c] = Means(asked[s].answer)

\* Nothing is ratified on the strength of a burst dialog, which names no domain:
\* behind each persisted fact is a prompt for its registered domain that the user
\* answered with the Always of the fact's polarity (burstSafe; CoreDecider.persist).
RatifiedFromDomainPrompt ==
    \A f \in ratified : \E s \in Calls :
        /\ asked[s].kind = "domain"
        /\ DomainOf(s) = RegDom[f.host]
        /\ asked[s].answer = IF f.list = "expected" THEN "AllowAlways" ELSE "DenyAlways"

\* The user never has two dialogs for one registered domain on the screen, not even
\* when a call that read the clock earlier overtakes or replaces a group
\* (coalesce.go: the groups outlive the prompts, 60 s against 30 s).
OneDialogPerDomain ==
    \A c, d \in Calls :
        /\ pc[c] = "leading" /\ OnScreen(c)
        /\ pc[d] = "leading" /\ OnScreen(d)
        /\ DomainOf(c) = DomainOf(d)
        => c = d

\* A waiter blocks on a channel without a timeout of its own, so the group it holds
\* must have an owner who is still going to close it (coalesce.go: <-g.ready).
WaitersHaveALeader ==
    \A c \in Calls : pc[c] = "waiting" =>
        joined[c] \in ready \/ pc[joined[c]] = "leading"

\* Every connection that asks is answered, whether or not the user ever reacts
\* (prompt.go: "Decide blocks until the user answers or the deadline expires").
EveryCallDecided == \A c \in Calls : pc[c] = "called" ~> pc[c] = "done"

-----------------------------------------------------------------------------
(* The inductive invariant behind VerdictFromPrompt, RatifiedFromDomainPrompt, *)
(* OneDialogPerDomain and WaitersHaveALeader.                                  *)

\* A call asks at most once, and only while it leads a group or a burst.
AskedInPhase ==
    \A c \in Calls :
        /\ start[c] <= clock
        /\ pc[c] \in {"idle", "called", "waiting"} => asked[c] = Unasked
        /\ pc[c] = "leading"  => asked[c].kind = "domain" /\ asked[c].answer = NotYet
        /\ pc[c] = "bursting" => asked[c].kind = "burst"  /\ asked[c].answer = NotYet

\* A closed group carries its leader's answer; an unclosed one still has its leader.
GroupsPublished ==
    \A c \in Calls :
        /\ c \in ready => /\ asked[c].kind = "domain" /\ asked[c].answer # NotYet
                          /\ result[c] = asked[c].answer
                          /\ pc[c] \in {"returned", "done"}
        /\ asked[c].kind = "domain" => c \in ready \/ pc[c] = "leading"

GroupsByDomain ==
    \A d \in Domains : groupByDom[d] # NoCall =>
        asked[groupByDom[d]].kind = "domain" /\ DomainOf(groupByDom[d]) = d

\* A waiter's group was live when it joined, and is a group of its domain.
WaitersCovered ==
    \A c \in Calls : pc[c] = "waiting" => joined[c] \in Calls /\ Covers(joined[c], c)
                                          /\ asked[joined[c]].kind = "domain"

\* The burst cache of a pid is the safe form of an answered burst prompt of the pid.
BurstsAnswered ==
    \A p \in Procs : burstExpiry[p] > 0 =>
        \E s \in Calls : /\ asked[s].kind = "burst" /\ proc[s] = p
                         /\ asked[s].answer # NotYet
                         /\ burstExpiry[p] = start[s] + Window
                         /\ burstByPid[p] \in {"AllowOnce", "Deny"}
                         /\ Means(burstByPid[p]) = Means(asked[s].answer)

\* What a call got back is the answer of a prompt that covers it, and only a domain
\* prompt passes an Always on.
ReturnedFromPrompt ==
    \A c \in Calls : pc[c] \in {"returned", "done"} =>
        \E s \in Calls : /\ Covers(s, c)
                         /\ asked[s].answer # NotYet
                         /\ Means(result[c]) = Means(asked[s].answer)
                         /\ result[c] \in {"AllowAlways", "DenyAlways"} =>
                               asked[s].kind = "domain" /\ result[c] = asked[s].answer

Concluded ==
    \A c \in Calls : verdict[c] # NotYet => pc[c] = "done" /\ verdict[c] = Means(result[c])

\* While its dialog is on the screen no younger group takes a leader's place.
DialogOwnsGroup ==
    \A c \in Calls : pc[c] = "leading" /\ OnScreen(c) => groupByDom[DomainOf(c)] = c

CoalescerInv ==
    /\ TypeOK /\ AskedInPhase /\ GroupsPublished /\ GroupsByDomain /\ WaitersCovered
    /\ BurstsAnswered /\ ReturnedFromPrompt /\ Concluded /\ DialogOwnsGroup
    /\ RatifiedFromDomainPrompt
=============================================================================
