----------------------- MODULE PromptCoalescerProofs -----------------------
(***************************************************************************)
(* CoalescerInv is an invariant of PromptCoalescer for every set of calls, *)
(* every assignment of requests to them and every window and timeout with  *)
(* PromptTimeout < Window, and the safety properties follow from it.       *)
(***************************************************************************)
EXTENDS PromptCoalescer, TLAPS

USE DEF AllowActions, DenyActions, Actions, Failed, NotYet, PC, Ticks, Prompt, Fact,
        Unasked

\* A registered domain is a domain, whatever the call.
LEMMA DomainOfType == ASSUME NEW c \in Calls PROVE DomainOf(c) \in Domains
  BY CoalescerAssumption DEF DomainOf

\* A history has the type of the variable that stores it.
LEMMA HistoryType ==
    ASSUME TypeOK, NEW c \in Calls
    PROVE  History(c) \in SUBSET [regdom : Domains, ts : 0..LastStart]
  BY CoalescerAssumption, DomainOfType DEF TypeOK, History, Recent

\* What a burst answer is turned into, and that its meaning survives.
LEMMA BurstSafeType ==
    ASSUME NEW a \in Actions
    PROVE  BurstSafe(a) \in {"AllowOnce", "Deny"} /\ Means(BurstSafe(a)) = Means(a)
  BY DEF BurstSafe, Means

\* Before the first call nothing has been asked.
LEMMA InitInv == Init => CoalescerInv
  BY CoalescerAssumption
  DEF Init, CoalescerInv, TypeOK, AskedInPhase, GroupsPublished, GroupsByDomain,
      WaitersCovered, BurstsAnswered, ReturnedFromPrompt, Concluded, DialogOwnsGroup,
      RatifiedFromDomainPrompt

\* A ratified fact has the type of the catalog entry.
LEMMA FactType == ASSUME TypeOK, NEW c \in Calls PROVE FactOf(c) \in Fact
  BY CoalescerAssumption DEF FactOf

\* Every step preserves the types.
LEMMA TypeStep == TypeOK /\ [Next]_vars => TypeOK'
<1> SUFFICES ASSUME TypeOK, [Next]_vars PROVE TypeOK'
  OBVIOUS
<1> USE CoalescerAssumption DEF TypeOK, coalescer, outcome
<1>1. ASSUME NEW c \in Calls, Call(c) PROVE TypeOK'
  BY <1>1 DEF Call
<1>2. ASSUME NEW c \in Calls, ReplayBurst(c) PROVE TypeOK'
  BY <1>2 DEF ReplayBurst
<1>3. ASSUME NEW c \in Calls, AskBurst(c) PROVE TypeOK'
  <2>1. pc' \in [Calls -> PC] /\ pidHistory' \in [Procs -> SUBSET [regdom : Domains,
                                                                   ts : 0..LastStart]]
    BY <1>3, HistoryType DEF AskBurst
  <2>2. asked' \in [Calls -> Prompt]
    BY <1>3 DEF AskBurst
  <2> QED
    BY <1>3, <2>1, <2>2 DEF AskBurst
<1>4. ASSUME NEW c \in Calls, JoinGroup(c) PROVE TypeOK'
  <2>1. pc' \in [Calls -> PC] /\ pidHistory' \in [Procs -> SUBSET [regdom : Domains,
                                                                   ts : 0..LastStart]]
    BY <1>4, HistoryType DEF JoinGroup
  <2>2. joined' \in [Calls -> Calls \cup {NoCall}]
    BY <1>4, DomainOfType DEF JoinGroup
  <2> QED
    BY <1>4, <2>1, <2>2 DEF JoinGroup
<1>5. ASSUME NEW c \in Calls, LeadGroup(c) PROVE TypeOK'
  <2>1. pc' \in [Calls -> PC] /\ pidHistory' \in [Procs -> SUBSET [regdom : Domains,
                                                                   ts : 0..LastStart]]
    BY <1>5, HistoryType DEF LeadGroup
  <2>2. groupByDom' \in [Domains -> Calls \cup {NoCall}]
    BY <1>5, DomainOfType DEF LeadGroup
  <2>3. asked' \in [Calls -> Prompt]
    BY <1>5 DEF LeadGroup
  <2> QED
    BY <1>5, <2>1, <2>2, <2>3 DEF LeadGroup
<1>6. ASSUME NEW c \in Calls, NEW r \in Actions \cup {Failed}, PromptReturns(c, r)
      PROVE  TypeOK'
  <2> pc' \in [Calls -> PC] /\ asked' \in [Calls -> Prompt]
    BY <1>6 DEF PromptReturns
  <2>1. CASE PublishGroup(c, r)
    BY <1>6, <2>1 DEF PromptReturns, PublishGroup
  <2>2. CASE CacheBurst(c, r)
    <3>1. r # Failed => BurstSafe(r) \in Actions
      BY BurstSafeType
    <3>2. start[c] + Window \in 0..(LastStart + Window)
      OBVIOUS
    <3>3. burstByPid' \in [Procs -> Actions \cup {NotYet}]
      BY <2>2, <3>1 DEF CacheBurst
    <3>4. burstExpiry' \in [Procs -> 0..(LastStart + Window)]
      BY <2>2, <3>2 DEF CacheBurst
    <3>5. result' \in [Calls -> Actions \cup {Failed, NotYet}]
      BY <2>2, <3>1 DEF CacheBurst
    <3>6. QED
      BY <1>6, <2>2, <3>3, <3>4, <3>5 DEF PromptReturns, CacheBurst
  <2>3. QED
    BY <1>6, <2>1, <2>2 DEF PromptReturns
<1>7. ASSUME NEW c \in Calls, Wake(c) PROVE TypeOK'
  BY <1>7 DEF Wake
<1>8. ASSUME NEW c \in Calls, Conclude(c) PROVE TypeOK'
  BY <1>8, FactType DEF Conclude
<1>9. CASE Tick
  BY <1>9 DEF Tick
<1>10. CASE UNCHANGED vars
  BY <1>10 DEF vars
<1>11. QED
  BY <1>1, <1>2, <1>3, <1>4, <1>5, <1>6, <1>7, <1>8, <1>9, <1>10
  DEF Next, Enter, UserAnswers, NotifierFails, PromptExpires, Finished

\* What a call asked, and when it started, is never rewritten; an answer is final.
Settled(s) ==
    /\ start'[s] = start[s] /\ asked'[s].kind = asked[s].kind
    /\ asked[s].answer # NotYet => asked'[s].answer = asked[s].answer

LEMMA AskedSettled ==
    ASSUME CoalescerInv, [Next]_vars, NEW s \in Calls, asked[s].kind # "none"
    PROVE  Settled(s)
<1> USE DEF Settled, CoalescerInv, TypeOK, AskedInPhase
<1>1. ASSUME NEW c \in Calls, Call(c) PROVE Settled(s)
  BY <1>1 DEF Call
<1>2. ASSUME NEW c \in Calls, Enter(c) PROVE Settled(s)
  BY <1>2 DEF Enter, ReplayBurst, AskBurst, JoinGroup, LeadGroup
<1>3. ASSUME NEW c \in Calls, NEW r \in Actions \cup {Failed}, PromptReturns(c, r)
      PROVE  Settled(s)
  BY <1>3 DEF PromptReturns, PublishGroup, CacheBurst
<1>4. ASSUME NEW c \in Calls, Wake(c) \/ Conclude(c) PROVE Settled(s)
  BY <1>4 DEF Wake, Conclude
<1>5. CASE Tick \/ UNCHANGED vars
  BY <1>5 DEF Tick, vars
<1>6. QED
  BY <1>1, <1>2, <1>3, <1>4, <1>5
  DEF Next, UserAnswers, NotifierFails, PromptExpires, Finished

\* A prompt that covers a call goes on covering it.
LEMMA CoversSettled ==
    ASSUME CoalescerInv, [Next]_vars, NEW s \in Calls, NEW c \in Calls,
           Covers(s, c), start'[c] = start[c]
    PROVE  Covers(s, c)'
  BY AskedSettled DEF Covers, Settled, DomainOf

\* The existential parts survive a step that leaves what they are about alone: the
\* burst cache of a pid stays that of an answered burst prompt ...
LEMMA BurstKept ==
    ASSUME CoalescerInv, [Next]_vars, NEW p \in Procs,
           burstExpiry'[p] = burstExpiry[p], burstByPid'[p] = burstByPid[p],
           burstExpiry[p] > 0
    PROVE  \E s \in Calls : /\ asked'[s].kind = "burst" /\ proc[s] = p
                            /\ asked'[s].answer # NotYet
                            /\ burstExpiry'[p] = start'[s] + Window
                            /\ burstByPid'[p] \in {"AllowOnce", "Deny"}
                            /\ Means(burstByPid'[p]) = Means(asked'[s].answer)
<1>1. PICK s \in Calls : /\ asked[s].kind = "burst" /\ proc[s] = p
                         /\ asked[s].answer # NotYet
                         /\ burstExpiry[p] = start[s] + Window
                         /\ burstByPid[p] \in {"AllowOnce", "Deny"}
                         /\ Means(burstByPid[p]) = Means(asked[s].answer)
  BY DEF CoalescerInv, BurstsAnswered
<1>2. Settled(s)
  BY <1>1, AskedSettled
<1>3. QED
  BY <1>1, <1>2 DEF Settled

\* ... a call that has its answer keeps it ...
LEMMA ReturnedKept ==
    ASSUME CoalescerInv, [Next]_vars, NEW c \in Calls,
           pc[c] \in {"returned", "done"}, result'[c] = result[c], start'[c] = start[c]
    PROVE  \E s \in Calls : /\ Covers(s, c)'
                            /\ asked'[s].answer # NotYet
                            /\ Means(result'[c]) = Means(asked'[s].answer)
                            /\ result'[c] \in {"AllowAlways", "DenyAlways"} =>
                                  asked'[s].kind = "domain" /\ result'[c] = asked'[s].answer
<1>1. PICK s \in Calls : /\ Covers(s, c)
                         /\ asked[s].answer # NotYet
                         /\ Means(result[c]) = Means(asked[s].answer)
                         /\ result[c] \in {"AllowAlways", "DenyAlways"} =>
                               asked[s].kind = "domain" /\ result[c] = asked[s].answer
  BY DEF CoalescerInv, ReturnedFromPrompt
<1>2. asked[s].kind # "none"
  BY <1>1 DEF Covers
<1>3. Settled(s)
  BY <1>2, AskedSettled
<1>4. Covers(s, c)'
  BY <1>1, CoversSettled
<1>5. QED
  BY <1>1, <1>3, <1>4 DEF Settled

\* ... and a ratified fact keeps the prompt it rests on.
LEMMA FactKept ==
    ASSUME CoalescerInv, [Next]_vars, NEW f \in ratified
    PROVE  \E s \in Calls :
             /\ asked'[s].kind = "domain" /\ DomainOf(s) = RegDom[f.host]
             /\ asked'[s].answer = IF f.list = "expected" THEN "AllowAlways" ELSE "DenyAlways"
<1>1. PICK s \in Calls :
             /\ asked[s].kind = "domain" /\ DomainOf(s) = RegDom[f.host]
             /\ asked[s].answer = IF f.list = "expected" THEN "AllowAlways" ELSE "DenyAlways"
  BY DEF CoalescerInv, RatifiedFromDomainPrompt
<1>2. Settled(s)
  BY <1>1, AskedSettled
<1>3. QED
  BY <1>1, <1>2 DEF Settled

\* A call that starts has asked nothing yet.
LEMMA CallStep ==
    ASSUME CoalescerInv, NEW c \in Calls, Call(c)
    PROVE  CoalescerInv'
<1> USE DEF CoalescerInv, TypeOK, coalescer, outcome
<1>0. [Next]_vars /\ TypeOK'
  BY TypeStep DEF Next, Enter, UserAnswers, NotifierFails
<1>1. AskedInPhase'
  BY <1>0 DEF AskedInPhase, Call
<1>2. GroupsPublished'
  BY <1>0 DEF GroupsPublished, Call, AskedInPhase
<1>3. GroupsByDomain'
  BY <1>0, CoalescerAssumption DEF GroupsByDomain, Call, DomainOf, AskedInPhase
<1>4. WaitersCovered'
  BY <1>0 DEF WaitersCovered, Call, DomainOf, Covers, AskedInPhase
<1>5. BurstsAnswered'
  BY <1>0, BurstKept DEF BurstsAnswered, Call, AskedInPhase
<1>6. ReturnedFromPrompt'
  BY <1>0, ReturnedKept DEF ReturnedFromPrompt, Call, AskedInPhase
<1>7. Concluded'
  BY <1>0 DEF Concluded, Call, Means, AskedInPhase
<1>8. DialogOwnsGroup'
  BY <1>0, CoalescerAssumption, DomainOfType DEF DialogOwnsGroup, Call, OnScreen, DomainOf, AskedInPhase
<1>9. RatifiedFromDomainPrompt'
  BY <1>0, FactKept DEF RatifiedFromDomainPrompt, Call, DomainOf, AskedInPhase
<1>10. QED
  BY <1>0, <1>1, <1>2, <1>3, <1>4, <1>5, <1>6, <1>7, <1>8, <1>9

\* A replayed burst answer is that of a burst prompt within the window.
LEMMA ReplayBurstStep ==
    ASSUME CoalescerInv, NEW c \in Calls, ReplayBurst(c)
    PROVE  CoalescerInv'
<1> USE DEF CoalescerInv, TypeOK, coalescer, outcome
<1>0. [Next]_vars /\ TypeOK'
  BY TypeStep DEF Next, Enter, UserAnswers, NotifierFails
<1>1. AskedInPhase'
  BY <1>0 DEF AskedInPhase, ReplayBurst
<1>2. GroupsPublished'
  BY <1>0 DEF GroupsPublished, ReplayBurst, AskedInPhase
<1>3. GroupsByDomain'
  BY <1>0, CoalescerAssumption DEF GroupsByDomain, ReplayBurst, DomainOf, AskedInPhase
<1>4. WaitersCovered'
  BY <1>0 DEF WaitersCovered, ReplayBurst, DomainOf, Covers, AskedInPhase
<1>5. BurstsAnswered'
  BY <1>0, BurstKept DEF BurstsAnswered, ReplayBurst, AskedInPhase
<1>6. ReturnedFromPrompt'
  <2> SUFFICES ASSUME NEW d \in Calls, pc'[d] \in {"returned", "done"}
               PROVE  \E s \in Calls :
                        /\ Covers(s, d)'
                        /\ asked'[s].answer # NotYet
                        /\ Means(result'[d]) = Means(asked'[s].answer)
                        /\ result'[d] \in {"AllowAlways", "DenyAlways"} =>
                              asked'[s].kind = "domain" /\ result'[d] = asked'[s].answer
    BY DEF ReturnedFromPrompt, Covers
  <2>1. CASE d # c
    BY <1>0, <2>1, ReturnedKept DEF ReplayBurst
  <2>2. CASE d = c
    <3>0. proc[c] \in Procs /\ start[c] \in Nat /\ burstExpiry[proc[c]] \in Nat
      BY CoalescerAssumption
    <3>1. burstExpiry[proc[c]] > 0
      BY <3>0 DEF ReplayBurst, BurstCached
    <3>2. PICK s \in Calls : /\ asked[s].kind = "burst" /\ proc[s] = proc[c]
                             /\ asked[s].answer # NotYet
                             /\ burstExpiry[proc[c]] = start[s] + Window
                             /\ burstByPid[proc[c]] \in {"AllowOnce", "Deny"}
                             /\ Means(burstByPid[proc[c]]) = Means(asked[s].answer)
      BY <3>0, <3>1 DEF BurstsAnswered
    <3>3. Covers(s, c)
      BY <3>2 DEF ReplayBurst, BurstCached, Covers
    <3>4. /\ UNCHANGED <<start, asked>>
          /\ result'[c] = burstByPid[proc[c]]
      BY DEF ReplayBurst
    <3>5. QED
      BY <2>2, <3>2, <3>3, <3>4 DEF Covers, DomainOf
  <2>3. QED
    BY <2>1, <2>2
<1>7. Concluded'
  BY <1>0 DEF Concluded, ReplayBurst, Means, AskedInPhase
<1>8. DialogOwnsGroup'
  BY <1>0, CoalescerAssumption, DomainOfType DEF DialogOwnsGroup, ReplayBurst, OnScreen, DomainOf, AskedInPhase
<1>9. RatifiedFromDomainPrompt'
  BY <1>0, FactKept DEF RatifiedFromDomainPrompt, ReplayBurst, DomainOf, AskedInPhase
<1>10. QED
  BY <1>0, <1>1, <1>2, <1>3, <1>4, <1>5, <1>6, <1>7, <1>8, <1>9

\* Raising a burst prompt: nothing is answered by it yet.
LEMMA AskBurstStep ==
    ASSUME CoalescerInv, NEW c \in Calls, AskBurst(c)
    PROVE  CoalescerInv'
<1> USE DEF CoalescerInv, TypeOK, coalescer, outcome
<1>0. [Next]_vars /\ TypeOK'
  BY TypeStep DEF Next, Enter, UserAnswers, NotifierFails
<1>1. AskedInPhase'
  BY <1>0 DEF AskedInPhase, AskBurst
<1>2. GroupsPublished'
  BY <1>0 DEF GroupsPublished, AskBurst, AskedInPhase
<1>3. GroupsByDomain'
  BY <1>0, CoalescerAssumption DEF GroupsByDomain, AskBurst, DomainOf, AskedInPhase
<1>4. WaitersCovered'
  BY <1>0 DEF WaitersCovered, AskBurst, DomainOf, Covers, AskedInPhase
<1>5. BurstsAnswered'
  BY <1>0, BurstKept DEF BurstsAnswered, AskBurst, AskedInPhase
<1>6. ReturnedFromPrompt'
  BY <1>0, ReturnedKept DEF ReturnedFromPrompt, AskBurst, AskedInPhase
<1>7. Concluded'
  BY <1>0 DEF Concluded, AskBurst, Means, AskedInPhase
<1>8. DialogOwnsGroup'
  BY <1>0, CoalescerAssumption, DomainOfType DEF DialogOwnsGroup, AskBurst, OnScreen, DomainOf, AskedInPhase
<1>9. RatifiedFromDomainPrompt'
  BY <1>0, FactKept DEF RatifiedFromDomainPrompt, AskBurst, DomainOf, AskedInPhase
<1>10. QED
  BY <1>0, <1>1, <1>2, <1>3, <1>4, <1>5, <1>6, <1>7, <1>8, <1>9

\* The group a call joins is live and of its domain.
LEMMA JoinStep ==
    ASSUME CoalescerInv, NEW c \in Calls, JoinGroup(c)
    PROVE  CoalescerInv'
<1> USE DEF CoalescerInv, TypeOK, coalescer, outcome
<1>0. [Next]_vars /\ TypeOK'
  BY TypeStep DEF Next, Enter, UserAnswers, NotifierFails
<1>1. AskedInPhase'
  BY <1>0 DEF AskedInPhase, JoinGroup
<1>2. GroupsPublished'
  BY <1>0 DEF GroupsPublished, JoinGroup, AskedInPhase
<1>3. GroupsByDomain'
  BY <1>0, CoalescerAssumption DEF GroupsByDomain, JoinGroup, DomainOf, AskedInPhase
<1>4. WaitersCovered'
  <2> DEFINE g == groupByDom[DomainOf(c)]
  <2>1. g \in Calls /\ asked[g].kind = "domain" /\ DomainOf(g) = DomainOf(c)
    BY DomainOfType DEF JoinGroup, GroupLive, GroupsByDomain
  <2>2. start[c] < start[g] + Window
    BY DEF JoinGroup, GroupLive
  <2>3. joined' = [joined EXCEPT ![c] = g] /\ pc' = [pc EXCEPT ![c] = "waiting"]
        /\ UNCHANGED <<start, asked>>
    BY DEF JoinGroup
  <2>4. QED
    BY <2>1, <2>2, <2>3 DEF WaitersCovered, Covers, DomainOf
<1>5. BurstsAnswered'
  BY <1>0, BurstKept DEF BurstsAnswered, JoinGroup, AskedInPhase
<1>6. ReturnedFromPrompt'
  BY <1>0, ReturnedKept DEF ReturnedFromPrompt, JoinGroup, AskedInPhase
<1>7. Concluded'
  BY <1>0 DEF Concluded, JoinGroup, Means, AskedInPhase
<1>8. DialogOwnsGroup'
  BY <1>0, CoalescerAssumption, DomainOfType DEF DialogOwnsGroup, JoinGroup, OnScreen, DomainOf, AskedInPhase
<1>9. RatifiedFromDomainPrompt'
  BY <1>0, FactKept DEF RatifiedFromDomainPrompt, JoinGroup, DomainOf, AskedInPhase
<1>10. QED
  BY <1>0, <1>1, <1>2, <1>3, <1>4, <1>5, <1>6, <1>7, <1>8, <1>9

\* The group that is replaced has lost its dialog: PromptTimeout < Window.
LEMMA LeadStep ==
    ASSUME CoalescerInv, NEW c \in Calls, LeadGroup(c)
    PROVE  CoalescerInv'
<1> USE DEF CoalescerInv, TypeOK, coalescer, outcome
<1>0. [Next]_vars /\ TypeOK'
  BY TypeStep DEF Next, Enter, UserAnswers, NotifierFails
<1>1. AskedInPhase'
  BY <1>0 DEF AskedInPhase, LeadGroup
<1>2. GroupsPublished'
  BY <1>0 DEF GroupsPublished, LeadGroup, AskedInPhase
<1>3. GroupsByDomain'
  BY <1>0, CoalescerAssumption DEF GroupsByDomain, LeadGroup, DomainOf, AskedInPhase
<1>4. WaitersCovered'
  BY <1>0 DEF WaitersCovered, LeadGroup, DomainOf, Covers, AskedInPhase
<1>5. BurstsAnswered'
  BY <1>0, BurstKept DEF BurstsAnswered, LeadGroup, AskedInPhase
<1>6. ReturnedFromPrompt'
  BY <1>0, ReturnedKept DEF ReturnedFromPrompt, LeadGroup, AskedInPhase
<1>7. Concluded'
  BY <1>0 DEF Concluded, LeadGroup, Means, AskedInPhase
<1>8. DialogOwnsGroup'
  <2> SUFFICES ASSUME NEW d \in Calls, pc'[d] = "leading", OnScreen(d)'
               PROVE  groupByDom'[DomainOf(d)] = d
    BY DEF DialogOwnsGroup, DomainOf
  <2>1. UNCHANGED <<clock, start>> /\ pc' = [pc EXCEPT ![c] = "leading"]
        /\ groupByDom' = [groupByDom EXCEPT ![DomainOf(c)] = c] /\ pc[c] = "called"
    BY DEF LeadGroup
  <2>2. CASE d = c
    BY <2>1, <2>2, DomainOfType
  <2>3. CASE d # c
    <3>1. pc[d] = "leading" /\ OnScreen(d) /\ groupByDom[DomainOf(d)] = d
      BY <2>1, <2>3 DEF OnScreen, DialogOwnsGroup
    <3>2. start[c] < start[d] + Window
      BY <3>1, CoalescerAssumption DEF OnScreen, AskedInPhase
    <3>3. DomainOf(d) # DomainOf(c)
      BY <3>1, <3>2, CoalescerAssumption DEF LeadGroup, GroupLive
    <3>4. QED
      BY <2>1, <3>1, <3>3, DomainOfType
  <2>4. QED
    BY <2>2, <2>3
<1>9. RatifiedFromDomainPrompt'
  BY <1>0, FactKept DEF RatifiedFromDomainPrompt, LeadGroup, DomainOf, AskedInPhase
<1>10. QED
  BY <1>0, <1>1, <1>2, <1>3, <1>4, <1>5, <1>6, <1>7, <1>8, <1>9

\* An answer is published to the group, or cached for the pid in its safe form.
LEMMA PromptReturnsStep ==
    ASSUME CoalescerInv, NEW c \in Calls, NEW r \in Actions \cup {Failed}, PromptReturns(c, r),
           OnScreen(c) \/ r = Failed
    PROVE  CoalescerInv'
<1> USE DEF CoalescerInv, TypeOK, coalescer, outcome
<1>0. [Next]_vars /\ TypeOK'
  BY TypeStep DEF Next, Enter, UserAnswers, NotifierFails
<1>1. AskedInPhase'
  BY <1>0 DEF AskedInPhase, PromptReturns, PublishGroup, CacheBurst
<1>2. GroupsPublished'
  BY <1>0 DEF GroupsPublished, PromptReturns, PublishGroup, CacheBurst, AskedInPhase
<1>3. GroupsByDomain'
  BY <1>0, CoalescerAssumption DEF GroupsByDomain, PromptReturns, PublishGroup, CacheBurst, DomainOf, AskedInPhase
<1>4. WaitersCovered'
  BY <1>0 DEF WaitersCovered, PromptReturns, PublishGroup, CacheBurst, DomainOf, Covers, AskedInPhase
<1>a. /\ asked' = [asked EXCEPT ![c].answer = r] /\ pc' = [pc EXCEPT ![c] = "returned"]
      /\ UNCHANGED start /\ r # NotYet
  BY DEF PromptReturns
<1>5. BurstsAnswered'
  <2> SUFFICES ASSUME NEW p \in Procs, burstExpiry'[p] > 0
               PROVE  \E s \in Calls : /\ asked'[s].kind = "burst" /\ proc[s] = p
                                       /\ asked'[s].answer # NotYet
                                       /\ burstExpiry'[p] = start'[s] + Window
                                       /\ burstByPid'[p] \in {"AllowOnce", "Deny"}
                                       /\ Means(burstByPid'[p]) = Means(asked'[s].answer)
    BY DEF BurstsAnswered
  <2>1. CASE PublishGroup(c, r) \/ proc[c] # p
    BY <1>0, <2>1, BurstKept DEF PromptReturns, PublishGroup, CacheBurst
  <2>2. CASE CacheBurst(c, r) /\ proc[c] = p
    <3>1. asked'[c].kind = "burst" /\ asked'[c].answer = r
      BY <1>a, <2>2 DEF CacheBurst, AskedInPhase
    <3>2. burstExpiry'[p] = start'[c] + Window
      BY <1>a, <2>2 DEF CacheBurst
    <3>3. burstByPid'[p] = IF r = Failed THEN "Deny" ELSE BurstSafe(r)
      BY <2>2 DEF CacheBurst
    <3>4. burstByPid'[p] \in {"AllowOnce", "Deny"} /\ Means(burstByPid'[p]) = Means(r)
      BY <3>3, BurstSafeType DEF Means
    <3>5. QED
      BY <1>a, <2>2, <3>1, <3>2, <3>4
  <2>3. QED
    BY <2>1, <2>2 DEF PromptReturns
<1>6. ReturnedFromPrompt'
  <2> SUFFICES ASSUME NEW d \in Calls, pc'[d] \in {"returned", "done"}
               PROVE  \E s \in Calls :
                        /\ Covers(s, d)'
                        /\ asked'[s].answer # NotYet
                        /\ Means(result'[d]) = Means(asked'[s].answer)
                        /\ result'[d] \in {"AllowAlways", "DenyAlways"} =>
                              asked'[s].kind = "domain" /\ result'[d] = asked'[s].answer
    BY DEF ReturnedFromPrompt, Covers
  <2>1. CASE d # c
    BY <1>0, <1>a, <2>1, ReturnedKept DEF PromptReturns, PublishGroup, CacheBurst
  <2>2. CASE d = c
    <3>1. asked'[c].answer = r /\ asked'[c].kind = asked[c].kind
      BY <1>a
    <3>2. asked[c].kind \in {"domain", "burst"}
      BY DEF PromptReturns, PublishGroup, CacheBurst, AskedInPhase
    <3>3. Covers(c, c)'
      BY <1>0, <3>1, <3>2, CoalescerAssumption DEF Covers, DomainOf
    <3>4. CASE PublishGroup(c, r)
      BY <1>a, <2>2, <3>1, <3>3, <3>4 DEF PublishGroup, AskedInPhase
    <3>5. CASE CacheBurst(c, r)
      <4>1. result'[c] = IF r = Failed THEN Failed ELSE BurstSafe(r)
        BY <3>5 DEF CacheBurst
      <4>2. result'[c] \notin {"AllowAlways", "DenyAlways"}
            /\ Means(result'[c]) = Means(r)
        BY <4>1, BurstSafeType
      <4>3. QED
        BY <1>a, <2>2, <3>1, <3>3, <4>2
    <3>6. QED
      BY <3>4, <3>5 DEF PromptReturns
  <2>3. QED
    BY <2>1, <2>2
<1>7. Concluded'
  BY <1>0 DEF Concluded, PromptReturns, PublishGroup, CacheBurst, Means, AskedInPhase
<1>8. DialogOwnsGroup'
  BY <1>0, CoalescerAssumption, DomainOfType DEF DialogOwnsGroup, PromptReturns, PublishGroup, CacheBurst, OnScreen, DomainOf, AskedInPhase
<1>9. RatifiedFromDomainPrompt'
  BY <1>0, FactKept DEF RatifiedFromDomainPrompt, PromptReturns, PublishGroup, CacheBurst, DomainOf, AskedInPhase
<1>10. QED
  BY <1>0, <1>1, <1>2, <1>3, <1>4, <1>5, <1>6, <1>7, <1>8, <1>9

\* A woken waiter takes its own group's answer.
LEMMA WakeStep ==
    ASSUME CoalescerInv, NEW c \in Calls, Wake(c)
    PROVE  CoalescerInv'
<1> USE DEF CoalescerInv, TypeOK, coalescer, outcome
<1>0. [Next]_vars /\ TypeOK'
  BY TypeStep DEF Next, Enter, UserAnswers, NotifierFails
<1>1. AskedInPhase'
  BY <1>0 DEF AskedInPhase, Wake
<1>2. GroupsPublished'
  BY <1>0 DEF GroupsPublished, Wake, AskedInPhase
<1>3. GroupsByDomain'
  BY <1>0, CoalescerAssumption DEF GroupsByDomain, Wake, DomainOf, AskedInPhase
<1>4. WaitersCovered'
  BY <1>0 DEF WaitersCovered, Wake, DomainOf, Covers, AskedInPhase
<1>5. BurstsAnswered'
  BY <1>0, BurstKept DEF BurstsAnswered, Wake, AskedInPhase
<1>6. ReturnedFromPrompt'
  <2> SUFFICES ASSUME NEW d \in Calls, pc'[d] \in {"returned", "done"}
               PROVE  \E s \in Calls :
                        /\ Covers(s, d)'
                        /\ asked'[s].answer # NotYet
                        /\ Means(result'[d]) = Means(asked'[s].answer)
                        /\ result'[d] \in {"AllowAlways", "DenyAlways"} =>
                              asked'[s].kind = "domain" /\ result'[d] = asked'[s].answer
    BY DEF ReturnedFromPrompt, Covers
  <2>1. CASE d # c
    BY <1>0, <2>1, ReturnedKept DEF Wake
  <2>2. CASE d = c
    <3> DEFINE g == joined[c]
    <3>1. g \in Calls /\ Covers(g, c) /\ asked[g].kind = "domain" /\ g \in ready
      BY DEF Wake, WaitersCovered
    <3>2. asked[g].answer # NotYet /\ result[g] = asked[g].answer
      BY <3>1 DEF GroupsPublished
    <3>3. UNCHANGED <<start, asked>> /\ result'[c] = result[g]
      BY DEF Wake
    <3>4. QED
      BY <2>2, <3>1, <3>2, <3>3 DEF Covers, DomainOf
  <2>3. QED
    BY <2>1, <2>2
<1>7. Concluded'
  BY <1>0 DEF Concluded, Wake, Means, AskedInPhase
<1>8. DialogOwnsGroup'
  BY <1>0, CoalescerAssumption, DomainOfType DEF DialogOwnsGroup, Wake, OnScreen, DomainOf, AskedInPhase
<1>9. RatifiedFromDomainPrompt'
  BY <1>0, FactKept DEF RatifiedFromDomainPrompt, Wake, DomainOf, AskedInPhase
<1>10. QED
  BY <1>0, <1>1, <1>2, <1>3, <1>4, <1>5, <1>6, <1>7, <1>8, <1>9

\* A fact is persisted only for an Always, and an Always comes from a domain prompt.
LEMMA ConcludeStep ==
    ASSUME CoalescerInv, NEW c \in Calls, Conclude(c)
    PROVE  CoalescerInv'
<1> USE DEF CoalescerInv, TypeOK, coalescer, outcome
<1>0. [Next]_vars /\ TypeOK'
  BY TypeStep DEF Next, Enter, UserAnswers, NotifierFails
<1>1. AskedInPhase'
  BY <1>0 DEF AskedInPhase, Conclude, FactOf
<1>2. GroupsPublished'
  BY <1>0 DEF GroupsPublished, Conclude, FactOf, AskedInPhase
<1>3. GroupsByDomain'
  BY <1>0, CoalescerAssumption DEF GroupsByDomain, Conclude, FactOf, DomainOf, AskedInPhase
<1>4. WaitersCovered'
  BY <1>0 DEF WaitersCovered, Conclude, FactOf, DomainOf, Covers, AskedInPhase
<1>5. BurstsAnswered'
  BY <1>0, BurstKept DEF BurstsAnswered, Conclude, FactOf, AskedInPhase
<1>6. ReturnedFromPrompt'
  BY <1>0, ReturnedKept DEF ReturnedFromPrompt, Conclude, FactOf, AskedInPhase
<1>7. Concluded'
  BY <1>0 DEF Concluded, Conclude, FactOf, Means, AskedInPhase
<1>8. DialogOwnsGroup'
  BY <1>0, CoalescerAssumption, DomainOfType DEF DialogOwnsGroup, Conclude, FactOf, OnScreen, DomainOf, AskedInPhase
<1>9. RatifiedFromDomainPrompt'
  <2> SUFFICES ASSUME NEW f \in ratified'
               PROVE  \E s \in Calls :
                        /\ asked'[s].kind = "domain" /\ DomainOf(s) = RegDom[f.host]
                        /\ asked'[s].answer = IF f.list = "expected"
                                              THEN "AllowAlways" ELSE "DenyAlways"
    BY DEF RatifiedFromDomainPrompt, DomainOf
  <2>1. CASE f \in ratified
    BY <1>0, <2>1, FactKept
  <2>2. CASE f \notin ratified
    <3>1. f = FactOf(c) /\ result[c] \in {"AllowAlways", "DenyAlways"}
      BY <2>2 DEF Conclude
    <3>2. PICK s \in Calls : Covers(s, c) /\ asked[s].kind = "domain"
                            /\ result[c] = asked[s].answer
      BY <3>1 DEF Conclude, ReturnedFromPrompt
    <3>3. DomainOf(s) = RegDom[f.host]
      BY <3>1, <3>2 DEF Covers, FactOf, DomainOf
    <3>4. asked[s].answer = IF f.list = "expected" THEN "AllowAlways" ELSE "DenyAlways"
      BY <3>1, <3>2 DEF FactOf
    <3>5. UNCHANGED asked
      BY DEF Conclude
    <3>6. QED
      BY <3>2, <3>3, <3>4, <3>5
  <2>3. QED
    BY <2>1, <2>2
<1>10. QED
  BY <1>0, <1>1, <1>2, <1>3, <1>4, <1>5, <1>6, <1>7, <1>8, <1>9

\* Time passing takes dialogs off the screen and puts none on it.
LEMMA TickStep ==
    ASSUME CoalescerInv, Tick
    PROVE  CoalescerInv'
<1> USE DEF CoalescerInv, TypeOK, coalescer, outcome
<1>0. [Next]_vars /\ TypeOK'
  BY TypeStep DEF Next, Enter, UserAnswers, NotifierFails
<1>1. AskedInPhase'
  BY <1>0 DEF AskedInPhase, Tick
<1>2. GroupsPublished'
  BY <1>0 DEF GroupsPublished, Tick, AskedInPhase
<1>3. GroupsByDomain'
  BY <1>0, CoalescerAssumption DEF GroupsByDomain, Tick, DomainOf, AskedInPhase
<1>4. WaitersCovered'
  BY <1>0 DEF WaitersCovered, Tick, DomainOf, Covers, AskedInPhase
<1>5. BurstsAnswered'
  BY <1>0, BurstKept DEF BurstsAnswered, Tick, AskedInPhase
<1>6. ReturnedFromPrompt'
  BY <1>0, ReturnedKept DEF ReturnedFromPrompt, Tick, AskedInPhase
<1>7. Concluded'
  BY <1>0 DEF Concluded, Tick, Means, AskedInPhase
<1>8. DialogOwnsGroup'
  BY <1>0, CoalescerAssumption, DomainOfType DEF DialogOwnsGroup, Tick, OnScreen, DomainOf, AskedInPhase
<1>9. RatifiedFromDomainPrompt'
  BY <1>0, FactKept DEF RatifiedFromDomainPrompt, Tick, DomainOf, AskedInPhase
<1>10. QED
  BY <1>0, <1>1, <1>2, <1>3, <1>4, <1>5, <1>6, <1>7, <1>8, <1>9

\* A step that changes nothing keeps every part.
LEMMA StutterStep == CoalescerInv /\ UNCHANGED vars => CoalescerInv'
<1> SUFFICES ASSUME CoalescerInv, UNCHANGED vars PROVE CoalescerInv'
  OBVIOUS
<1> USE DEF vars, coalescer, outcome
<1>1. TypeOK' /\ AskedInPhase' /\ GroupsPublished' /\ GroupsByDomain'
  BY DEF CoalescerInv, TypeOK, AskedInPhase, GroupsPublished, GroupsByDomain, DomainOf
<1>2. WaitersCovered' /\ BurstsAnswered' /\ ReturnedFromPrompt'
  BY DEF CoalescerInv, WaitersCovered, BurstsAnswered, ReturnedFromPrompt, Covers, DomainOf
<1>3. Concluded' /\ DialogOwnsGroup' /\ RatifiedFromDomainPrompt'
  BY DEF CoalescerInv, Concluded, DialogOwnsGroup, RatifiedFromDomainPrompt, OnScreen, DomainOf
<1>4. QED
  BY <1>1, <1>2, <1>3 DEF CoalescerInv

\* The inductive step: one lemma per action.
LEMMA NextInv == CoalescerInv /\ [Next]_vars => CoalescerInv'
<1> SUFFICES ASSUME CoalescerInv, [Next]_vars PROVE CoalescerInv'
  OBVIOUS
<1>1. ASSUME NEW c \in Calls, Call(c) \/ Enter(c) PROVE CoalescerInv'
  BY <1>1, CallStep, ReplayBurstStep, AskBurstStep, JoinStep, LeadStep DEF Enter
<1>2. ASSUME NEW c \in Calls, UserAnswers(c) \/ NotifierFails(c) \/ PromptExpires(c)
      PROVE  CoalescerInv'
  BY <1>2, PromptReturnsStep DEF UserAnswers, NotifierFails, PromptExpires
<1>3. ASSUME NEW c \in Calls, Wake(c) \/ Conclude(c) PROVE CoalescerInv'
  BY <1>3, WakeStep, ConcludeStep
<1>4. CASE Tick
  BY <1>4, TickStep
<1>5. CASE Finished \/ UNCHANGED vars
  BY <1>5, StutterStep DEF Finished
<1>6. QED
  BY <1>1, <1>2, <1>3, <1>4, <1>5 DEF Next

\* The inductive invariant holds in every reachable state of the coalescer.
THEOREM Invariance == Spec => []CoalescerInv
  BY InitInv, NextInv, PTL DEF Spec

\* The variables keep their types whatever the requests and the bounds.
THEOREM TypeCorrectness == Spec => []TypeOK
<1>1. CoalescerInv => TypeOK
  BY DEF CoalescerInv
<1>2. QED
  BY <1>1, Invariance, PTL

\* Every verdict is the answer to a prompt that covers its connection: no group, burst
\* cache or overtaking call lets a connection through on another's consent or a stale one.
THEOREM VerdictsAreAnswers == Spec => []VerdictFromPrompt
<1>1. CoalescerInv => VerdictFromPrompt
  BY DEF CoalescerInv, Concluded, ReturnedFromPrompt, VerdictFromPrompt
<1>2. QED
  BY <1>1, Invariance, PTL

\* No burst answer is ever ratified: every persisted fact rests on a domain prompt.
THEOREM BurstsAreNotRatified == Spec => []RatifiedFromDomainPrompt
<1>1. CoalescerInv => RatifiedFromDomainPrompt
  BY DEF CoalescerInv
<1>2. QED
  BY <1>1, Invariance, PTL

\* Two dialogs for one registered domain are never on the screen together.
THEOREM DialogsAreExclusive == Spec => []OneDialogPerDomain
<1>1. CoalescerInv => OneDialogPerDomain
  BY DEF CoalescerInv, DialogOwnsGroup, OneDialogPerDomain
<1>2. QED
  BY <1>1, Invariance, PTL

\* A waiter's channel is closed or its leader is still going to close it.
THEOREM WaitersAreOwned == Spec => []WaitersHaveALeader
<1>1. CoalescerInv => WaitersHaveALeader
  BY DEF CoalescerInv, GroupsPublished, WaitersCovered, WaitersHaveALeader
<1>2. QED
  BY <1>1, Invariance, PTL
=============================================================================
