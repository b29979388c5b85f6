---------------------------- MODULE BridgeServer ----------------------------
(***************************************************************************)
(* internal/nebridge: the server that answers the network extension.  The  *)
(* loop of Serve accepts connections and starts a handler for each; a      *)
(* watcher goroutine closes the listener and the active connections when   *)
(* the context is cancelled; a handler reads one request after another,    *)
(* has it decided, logs the decision and writes the response.              *)
(*                                                                         *)
(* The peer may send requests ahead, stop in the middle of one, or close   *)
(* at any time.  Deadlines are steps that may happen whenever what they    *)
(* wait for has not; handlers that outlive Serve go on.                    *)
(***************************************************************************)
EXTENDS Naturals, Sequences

CONSTANTS Conn,          \* bound: the connections of one behaviour
          NoConn,        \* nil
          MaxRequests    \* bound: the frames sent in one behaviour

ASSUME BridgeAssumption == NoConn \notin Conn /\ MaxRequests \in Nat

\* What the peer sends: a request, a frame of another version or size, and frames that
\* end within their header or ClientHello, or right between the two.
Cut   == {"cut_header", "cut_hello"}
Frame == {"request", "malformed"} \cup Cut

\* What the engine decides; "invalid" stands for any other string.
Decision == {"allow", "observe", "deny", "invalid"}

ElseAllow(d) == IF d = "deny" THEN "drop" ELSE "allow"    \* mutant: allow is the default

verdictFor(d) == IF d \in {"allow", "observe"} THEN "allow" ELSE "drop"

logEntryForDecision(d) == IF d \in {"allow", "observe"} THEN d ELSE "deny"

VARIABLES
    cancelled,   \* ctx.Err() # nil
    listening,   \* the listener is open
    watcher,     \* where the goroutine that waits for the cancellation is
    serve, cur,  \* where the loop of Serve is, and the connection it has accepted
    ret,         \* what Serve returned
    active,      \* the map of the connections to close
    handlers,    \* what the WaitGroup counts
    sock,        \* the server's end of each connection
    gone,        \* the connections whose peer sends no more
    frames,      \* what the peer has sent
    sent,        \* what the bound counts
    seen,        \* how many frames the handler has read, or failed to read
    h,           \* where the handler is
    dec,         \* the decision on its way to the log and the peer, a deny otherwise
    last,        \* the handlers that will return after their response
    logged,      \* history: the requests that the log has as allowed or observed
    got          \* history: the responses the peer was sent in full

server  == <<cancelled, listening, watcher, serve, cur, ret>>
tables  == <<active, handlers>>
peer    == <<gone, frames, sent>>
handler == <<seen, h, dec, last>>
outputs == <<logged, got>>
vars    == <<server, tables, sock, peer, handler, outputs>>

Init ==
    /\ cancelled = FALSE /\ listening = TRUE /\ watcher = "waiting"
    /\ serve = "accept" /\ cur = NoConn /\ ret = "none"
    /\ active = {} /\ handlers = {}
    /\ sock = [c \in Conn |-> "none"] /\ gone = {}
    /\ frames = [c \in Conn |-> <<>>] /\ sent = 0
    /\ seen = [c \in Conn |-> 0]
    /\ h = [c \in Conn |-> "none"] /\ dec = [c \in Conn |-> "deny"] /\ last = {}
    /\ logged = [c \in Conn |-> {}] /\ got = [c \in Conn |-> <<>>]

-----------------------------------------------------------------------------
(* The peer. *)

Connect(c) ==
    /\ listening /\ sock[c] = "none"
    /\ sock' = [sock EXCEPT ![c] = "backlog"]
    /\ UNCHANGED <<server, tables, peer, handler, outputs>>

\* What follows a cut frame would be read as the rest of it.
Send(c, f) ==
    /\ sock[c] \in {"backlog", "open"} /\ c \notin gone
    /\ sent < MaxRequests /\ sent' = sent + 1
    /\ frames[c] # <<>> => frames[c][Len(frames[c])] \notin Cut
    /\ frames' = [frames EXCEPT ![c] = Append(@, f)]
    /\ UNCHANGED <<server, tables, sock, gone, handler, outputs>>

\* It closes its end, or only the half it writes to.
Hangup(c) ==
    /\ sock[c] \in {"backlog", "open"} /\ c \notin gone
    /\ gone' = gone \cup {c}
    /\ UNCHANGED <<server, tables, sock, frames, sent, handler, outputs>>

-----------------------------------------------------------------------------
(* Serve, its watcher, and their shutdown. *)

Cancel ==
    /\ ~cancelled /\ cancelled' = TRUE
    /\ UNCHANGED <<listening, watcher, serve, cur, ret, tables, sock, peer, handler, outputs>>

\* Closing the listener resets the connections nobody has accepted.
Reset(c) == IF sock[c] = "backlog" THEN "closed" ELSE sock[c]

\* closeActive.
Shut(c) == IF c \in active THEN "closed" ELSE sock[c]

CloseActiveOnly ==     \* mutant: the watcher forgets the listener
    /\ watcher = "waiting" /\ cancelled
    /\ watcher' = "closing"
    /\ UNCHANGED <<listening, sock, cancelled, serve, cur, ret, tables, peer, handler, outputs>>

CloseListener ==
    /\ watcher = "waiting" /\ cancelled
    /\ watcher' = "closing" /\ listening' = FALSE
    /\ sock' = [c \in Conn |-> Reset(c)]
    /\ UNCHANGED <<cancelled, serve, cur, ret, tables, peer, handler, outputs>>

CloseActive ==
    /\ watcher = "closing"
    /\ watcher' = "done"
    /\ sock' = [c \in Conn |-> Shut(c)]
    /\ UNCHANGED <<cancelled, listening, serve, cur, ret, tables, peer, handler, outputs>>

\* Serve returned without a cancellation.
StopWatching ==
    /\ watcher = "waiting" /\ serve = "returned"
    /\ watcher' = "done"
    /\ UNCHANGED <<cancelled, listening, serve, cur, ret, tables, sock, peer, handler, outputs>>

Accept(c) ==
    /\ serve = "accept" /\ listening /\ sock[c] = "backlog"
    /\ sock' = [sock EXCEPT ![c] = "open"]
    /\ serve' = "register" /\ cur' = c
    /\ UNCHANGED <<cancelled, listening, watcher, ret, tables, peer, handler, outputs>>

Register ==
    /\ serve = "register"
    /\ active' = active \cup {cur}
    /\ serve' = "spawn"
    /\ UNCHANGED <<cancelled, listening, watcher, cur, ret, handlers, sock, peer, handler, outputs>>

SpawnUncounted ==      \* mutant: the WaitGroup is told later
    /\ serve = "spawn"
    /\ h' = [h EXCEPT ![cur] = "reading"]
    /\ serve' = "accept" /\ cur' = NoConn
    /\ UNCHANGED <<handlers, cancelled, listening, watcher, ret, active, sock, peer, seen, dec, last,
                   outputs>>

Spawn ==
    /\ serve = "spawn"
    /\ handlers' = handlers \cup {cur}
    /\ h' = [h EXCEPT ![cur] = "reading"]
    /\ serve' = "accept" /\ cur' = NoConn
    /\ UNCHANGED <<cancelled, listening, watcher, ret, active, sock, peer, seen, dec, last, outputs>>

\* Accept fails because the listener is closed, or with an error of its own.
AcceptFails ==
    /\ serve = "accept" /\ ~cancelled
    /\ serve' = "returned" /\ ret' = "accept_error"
    /\ UNCHANGED <<cancelled, listening, watcher, cur, tables, sock, peer, handler, outputs>>

DrainAtOnce ==         \* mutant: only the watcher closes the active connections
    /\ serve = "accept" /\ cancelled /\ ~listening
    /\ serve' = "drain"
    /\ UNCHANGED <<sock, cancelled, listening, watcher, cur, ret, tables, peer, handler, outputs>>

\* A connection accepted behind the watcher's back is closed here.
Drain ==
    /\ serve = "accept" /\ cancelled
    /\ serve' = "drain"
    /\ sock' = [c \in Conn |-> Shut(c)]
    /\ UNCHANGED <<cancelled, listening, watcher, cur, ret, tables, peer, handler, outputs>>

\* waitForHandlers: all are done, or two seconds are over.
Drained ==
    /\ serve = "drain" /\ handlers = {}
    /\ serve' = "returned" /\ ret' = "nil"
    /\ UNCHANGED <<cancelled, listening, watcher, cur, tables, sock, peer, handler, outputs>>

DrainTimesOut ==
    /\ serve = "drain"
    /\ serve' = "returned" /\ ret' = "drain_timeout"
    /\ UNCHANGED <<cancelled, listening, watcher, cur, tables, sock, peer, handler, outputs>>

-----------------------------------------------------------------------------
(* handleConn. *)

Unread(c) == SubSeq(frames[c], seen[c] + 1, Len(frames[c]))
Pending(c, kinds) == Unread(c) # <<>> /\ Unread(c)[1] \in kinds

Read(c)  == seen' = [seen EXCEPT ![c] = @ + 1]
Go(c, l) == h' = [h EXCEPT ![c] = l]

\* A frame that cannot be read ends the connection, after a drop.  The log entries of
\* drops, which may fail to be written, are left out: nothing depends on them.
Unreadable(c) ==
    /\ Read(c)
    /\ dec' = [dec EXCEPT ![c] = "deny"] /\ last' = last \cup {c}
    /\ Go(c, "reply")

DecodeRequest(c) ==
    /\ h[c] = "reading" /\ sock[c] = "open" /\ Pending(c, {"request"})
    /\ Read(c) /\ Go(c, "judge")
    /\ UNCHANGED <<server, tables, sock, peer, dec, last, outputs>>

DecodeFails(c) ==
    /\ h[c] = "reading" /\ sock[c] = "open"
    /\ Pending(c, {"malformed"}) \/ (Pending(c, {"cut_header"}) /\ c \in gone)
    /\ Unreadable(c)
    /\ UNCHANGED <<server, tables, sock, peer, outputs>>

NeverTimesOut(c) ==    \* mutant: the deadline is for the first byte only
    /\ h[c] = "reading" /\ sock[c] = "open" /\ c \notin gone /\ Unread(c) = <<>>
    /\ Unreadable(c)
    /\ UNCHANGED <<server, tables, sock, peer, outputs>>

\* The deadline, with nothing or part of a frame there.
ReadTimesOut(c) ==
    /\ h[c] = "reading" /\ sock[c] = "open" /\ c \notin gone
    /\ Unread(c) = <<>> \/ Pending(c, Cut)
    /\ Unreadable(c)
    /\ UNCHANGED <<server, tables, sock, peer, outputs>>

\* io.EOF: before a frame, or between a header and its ClientHello.
EndOfStream(c) ==
    /\ h[c] = "reading" /\ sock[c] = "open" /\ c \in gone
    /\ Unread(c) = <<>> \/ Pending(c, {"cut_hello"})
    /\ Go(c, "leave")
    /\ UNCHANGED <<server, tables, sock, peer, seen, dec, last, outputs>>

\* The connection was closed under the handler.
ReadOnClosed(c) ==
    /\ h[c] = "reading" /\ sock[c] = "closed"
    /\ Go(c, "leave")
    /\ UNCHANGED <<server, tables, sock, peer, seen, dec, last, outputs>>

\* No server name, or no identity: drop.
CannotJudge(c) ==
    /\ h[c] = "judge"
    /\ dec' = [dec EXCEPT ![c] = "deny"]
    /\ Go(c, "reply")
    /\ UNCHANGED <<server, tables, sock, peer, seen, last, outputs>>

Decide(c) ==
    /\ h[c] = "judge"
    /\ \E d \in Decision : dec' = [dec EXCEPT ![c] = d]
    /\ Go(c, "log")
    /\ UNCHANGED <<server, tables, sock, peer, seen, last, outputs>>

LogDecision(c) ==
    /\ h[c] = "log"
    /\ logged' = IF logEntryForDecision(dec[c]) = "deny"
                 THEN logged
                 ELSE [logged EXCEPT ![c] = @ \cup {seen[c]}]
    /\ Go(c, "reply")
    /\ UNCHANGED <<server, tables, sock, peer, seen, dec, last, got>>

LogFailsOpen(c) ==     \* mutant: the verdict stands without its log entry
    /\ h[c] = "log"
    /\ Go(c, "reply")
    /\ UNCHANGED <<server, tables, sock, peer, seen, dec, last, outputs>>

\* A decision that cannot be logged becomes a drop, and the last response.
LogFails(c) ==
    /\ h[c] = "log"
    /\ dec' = [dec EXCEPT ![c] = "deny"] /\ last' = last \cup {c}
    /\ Go(c, "reply")
    /\ UNCHANGED <<server, tables, sock, peer, seen, outputs>>

Reply(c) ==
    /\ h[c] = "reply" /\ sock[c] = "open"
    /\ got' = [got EXCEPT ![c] = Append(@, [req |-> seen[c], verdict |-> verdictFor(dec[c])])]
    /\ Go(c, IF c \in last THEN "leave" ELSE "reading")
    /\ dec' = [dec EXCEPT ![c] = "deny"]
    /\ UNCHANGED <<server, tables, sock, peer, seen, last, logged>>

ReplyFailsUnnoticed(c) ==    \* mutant: a failed response does not end the stream
    /\ h[c] = "reply"
    /\ Go(c, IF c \in last THEN "leave" ELSE "reading")
    /\ dec' = [dec EXCEPT ![c] = "deny"]
    /\ UNCHANGED <<server, tables, sock, peer, seen, last, outputs>>

\* The peer has closed, does not read within the deadline, or the server is stopping.
ReplyFails(c) ==
    /\ h[c] = "reply"
    /\ Go(c, "leave")
    /\ dec' = [dec EXCEPT ![c] = "deny"]
    /\ UNCHANGED <<server, tables, sock, peer, seen, last, outputs>>

\* The deferred calls: close, leave the table, and handlers.Done.  What was the
\* handler's or in the socket's buffers goes with them.
Leave(c) ==
    /\ h[c] = "leave" /\ Go(c, "ended")
    /\ sock' = [sock EXCEPT ![c] = "closed"]
    /\ active' = active \ {c} /\ handlers' = handlers \ {c}
    /\ frames' = [frames EXCEPT ![c] = <<>>] /\ gone' = gone \ {c}
    /\ seen' = [seen EXCEPT ![c] = 0] /\ last' = last \ {c}
    /\ UNCHANGED <<server, sent, dec, outputs>>

Handle(c) ==
    \/ DecodeRequest(c) \/ DecodeFails(c) \/ ReadTimesOut(c) \/ EndOfStream(c) \/ ReadOnClosed(c)
    \/ CannotJudge(c) \/ Decide(c) \/ LogDecision(c) \/ LogFails(c)
    \/ Reply(c) \/ ReplyFails(c) \/ Leave(c)

Serving ==
    \/ CloseListener \/ CloseActive \/ StopWatching
    \/ Register \/ Spawn \/ Drain \/ Drained \/ DrainTimesOut
    \/ \E c \in Conn : Accept(c)

Next ==
    \/ \E c \in Conn : Connect(c) \/ Hangup(c) \/ Handle(c) \/ \E f \in Frame : Send(c, f)
    \/ Serving \/ Cancel \/ AcceptFails

Spec == Init /\ [][Next]_vars

\* Goroutines run, and all they wait for but a connection has a deadline.
Fairness ==
    /\ \A c \in Conn : WF_vars(Handle(c)) /\ WF_vars(Accept(c))
    /\ WF_vars(CloseListener) /\ WF_vars(CloseActive)
    /\ WF_vars(Register \/ Spawn \/ (Drain /\ ~listening) \/ Drained \/ DrainTimesOut)

FairSpec == Spec /\ Fairness
-----------------------------------------------------------------------------
Response == [req : Nat, verdict : {"allow", "drop"}]

TypeOK ==
    /\ cancelled \in BOOLEAN /\ listening \in BOOLEAN
    /\ watcher \in {"waiting", "closing", "done"}
    /\ serve \in {"accept", "register", "spawn", "drain", "returned"}
    /\ IF serve \in {"register", "spawn"} THEN cur \in Conn ELSE cur = NoConn
    /\ ret \in {"none", "nil", "drain_timeout", "accept_error"}
    /\ active \subseteq Conn /\ handlers \subseteq Conn
    /\ sock \in [Conn -> {"none", "backlog", "open", "closed"}]
    /\ gone \subseteq Conn /\ frames \in [Conn -> Seq(Frame)] /\ sent \in 0..MaxRequests
    /\ seen \in [Conn -> Nat]
    /\ h \in [Conn -> {"none", "reading", "judge", "log", "reply", "leave", "ended"}]
    /\ dec \in [Conn -> Decision] /\ last \subseteq Conn
    /\ logged \in [Conn -> SUBSET Nat] /\ got \in [Conn -> Seq(Response)]

\* The peer pairs responses with requests by counting, so the i-th response must be about
\* the i-th request although requests are sent ahead and writes fail; and it allows only
\* what the log already has as allowed (handleConn, drop).
AnswersAreLogged ==
    \A c \in Conn : \A i \in 1..Len(got[c]) :
        /\ got[c][i].req = i
        /\ got[c][i].verdict = "allow" => i \in logged[c]

\* When Serve returns nil nothing of it is left: no handler, no open connection, not even
\* one accepted while the watcher was closing the others.
CleanReturn ==
    ret = "nil" => \A c \in Conn : sock[c] # "open" /\ h[c] \in {"none", "ended"}

\* After a cancellation has ended Serve no response goes out, not even from a handler that
\* outlived the drain: its connection was closed (closeActive, waitForHandlers).
SilentAfterReturn == [][got' # got => ret \notin {"nil", "drain_timeout"}]_vars

\* A cancelled server comes to an end, whatever its peers and its handlers do
\* (TestServer_CancelClosesActiveConnectionAndReturns).
ServeReturns == cancelled ~> ret # "none"

\* A peer that sends nothing, stops in the middle of a request, or reads no responses, does
\* not hold a handler: it gets its next answer, or the connection is closed (deadlines).
PeersAreAnswered ==
    \A c \in Conn : \A n \in 1..MaxRequests :
        h[c] = "reading" ~> Len(got[c]) >= n \/ sock[c] = "closed"
=============================================================================
