# egress-guard in TLA+

egress-guard is a daemon that stands between the processes of a machine and the network.
The kernel redirects outgoing TLS connections to it; it finds out which process opened
each, reads the server name, decides whether the process may reach that host, asks the
user where it cannot tell, forwards or closes the connection, and logs what it did.  This
directory holds its specifications: one TLA+ module per component, `MC*` modules and
`.cfg` files that check them with TLC on small instances, and proof modules for TLAPS.
Paths below are relative to `src/`; `internal/` is left out of them.

Run a check with `tlc -workers 2 -config MCDecisionLog.cfg MCDecisionLog`, a proof with
`tlapm UserStoresProofs.tla`.  `PROJECT.json` maps every definition to the lines it models,
and lists the runs, the hazards, and for every property a change of the code that breaks
it (the operators marked "mutant" in the modules).

## 1. The system

| component | state it keeps | operations | talks to |
|---|---|---|---|
| decision engine (`daemon/daemon.go`, `decision.go`, `decide.go`, `splice.go`) | a goroutine per connection; the live catalog, the allowlist, the exempt list | accept, attribute, parse, decide, enforce, log | every component below |
| catalog (`catalog/catalog.go`) | an ordered list of facts: identity, expected hosts, never-hosts | `Lookup`, `AddIfAbsent`, merge of layers | engine, ratify writer |
| prompt coalescer and decider (`prompt/`) | groups per registered domain, burst cache and recent domains per pid | `Decide`, `Notify`, ratification | engine; the user through a notifier |
| decision log (`decisionlog/`) | the live file, segments, archives; the `Writer` | `Open`, `Write`, rotate, compress, prune, `Close`, `ReadHistory` | engine writes; baseline, tail, menu bar read |
| review queue of changed binaries (`pending/`, `cli/review.go`) | a JSON file: path, hash, hosts | `Record`, `DistinctNewHashes`, `Resolve`, approve | engine and the `review` command, two processes |
| ratify writer (`cli/ratifywriter.go`, `cli/enroll.go`) | the user catalog file and the live catalog | `Ratify` | decider; `review`, `enroll` from other processes |
| rejected pairs (`rejected/`) | a JSON file: pair and time | `Reject`, `Restore` | baseline, engine |
| allowlist, exempt list, config (`allowlist/`, `exempt/`, `config/`, `cli/allow.go`) | layered lists | match, add, remove | engine, decider, commands |
| network extension bridge (`nebridge/`) | a unix socket, its open connections | `Serve`, handle one request, shut down | network extension, engine (`Decide`) |
| observations (`daemon/inflight.go`, `lastseen.go`) | connections per pair, last-seen times | begin/end, record, reseed | engine, baseline |
| drift baseline (`drift/`, `decisionlog/join.go`, `concurrency.go`, `footprint.go`) | a model built from the log, swapped in by a refresher | build, refresh, classify | engine (annotation only) |
| caches (`dnsbind/`, `procid/exehash.go`, `signature/cache.go`, `idle/`) | resolver answers, hashes, verified signers, idle samples | lookup, probe, evict | engine |
| maintainers' review queue (`reviewqueue/`) | an append-only file replayed into memory | submit, approve, reject, bursts | telemetry, catalog build |
| catalog distribution (`catalogfetch/`, `catalogbuild/`, `catalogsig/`) | the installed catalog and its signature | fetch, verify, install newer | engine at its start |
| installation (`cli/install*.go`, `cli/launchdaemon_darwin.go`, `kernel/`) | packet-filter rules, launchd's jobs and their property lists | install, roll back, enable, pause, uninstall | the operating system |
| tail (`tail/`) | a file being followed, its offset | read, notice rotation | decision log |
| persistence attribution (`persist/`) | a ledger of first sights, a cache of answers | classify, record | engine (annotation only) |
| telemetry (`telemetry/`) | a setting | report a ratification | ratify writer; maintainers' review queue |
| explainer, process identity, TLS parsing, status, menu bar, commands | little or none | I/O, parsing, presentation | engine, user |

What is hard in it:

* **Concurrency in one process.**  Connections share the catalog, the prompt and the
  queue; each reads them once and acts later, after a resolver, a dial or a user who
  takes half a minute.  The prompt releases its mutex while the user thinks.
* **Several processes on one file.**  The daemon, the commands and readers share files
  without locks: the log with its rotation, the review queue, the user catalog, the
  rejected pairs.
* **Crashes and failures in the middle.**  Rotation and compression are sequences of
  renames and removals; a connection can fail at any of a dozen exits.
* **Time.**  Windows, expiries and one-second segment names are compared with clock
  readings taken before a lock was obtained.
* **Liveness.**  A waiter on a prompt group has no timeout of its own; a probe runs one at
  a time; a follower depends on events that may be lost.

What makes each component correct:

* engine: nothing is forwarded without grounds that still stand; a user's never is never
  undone; the grace for changed binaries is bounded and recorded; the log says what
  happened; every connection is decided;
* coalescer: every verdict is the answer to a prompt that covers the call; a dialog that
  names no domain ratifies nothing; dialogs do not compete; every call returns;
* log: no entry lost but by retention, through crashes and failures; order of writing
  kept; readers see ordered prefixes;
* review stores: no change lost between processes, what is dropped from a queue was
  reviewed; maintainers' queue: memory and file agree, an entry is approved once;
* bridge: a request gets one answer, shutdown ends everything; caches: never fresher or
  staler than they say, never one binary's answer for another; baseline: bounded,
  monotone, equal to a rebuild from the log; distribution: never downgrades;
  installation: what fails is undone; tail: every line once, in order, across rotations.

## 2. Plan

The modules are in the order in which they were written, by importance; all are done.

1. `PromptCoalescer` -- the user's word.
2. `DurableLog` (abstract) and `DecisionLog`, which implements it -- the evidence.
3. `Catalog`, `Policy` and `DecisionEngine`, each extending the one before -- the connection.
4. `BridgeServer` -- the network extension's requests.
5. `AtomicStores` (abstract) and `UserStores`, which implements it -- the user's files.
6. `CatalogSupply` -- a fact's way from a report to another user's machine.
7. `Baseline`, `Caches`, `Persistence` -- what the daemon remembers.
8. `TailFollower`, `Installation` -- what surrounds it.

Each `MC` module fixes an instance for TLC.  Theorems are in `DecisionEngineProofs`,
`PromptCoalescerProofs`, `DecisionLogProofs`, `BaselineProofs`, `PersistenceProofs`,
`SurroundingsProofs` (of `Installation`, `BridgeServer` and `TailFollower`), `UserStoresProofs` and
`CatalogSupplyProofs`; those of `Caches` are in `DecisionEngineProofs`.  Where one proof module
extends several models, all but one of them name their initial states, steps and specification
after themselves (`InstallSpec`, `TailSpec`, `CachesSpec`).  Of the plan, only what
the prover cannot do is left (end of section 5).

How the modules meet: `DecisionEngine` is built on `Catalog` and `Policy`, and has the others
as what they promise: the prompt is any answer at any time (`PromptCoalescer` says which
answers a call can get), the review queue is a set with atomic operations
(`AtomicStores`, which `UserStores` implements), the log takes what it is handed
(`DurableLog`), the resolver, hashes and signers are answers (`Caches`).  `BridgeServer`
takes any decision from it.  `Baseline` reads a log that is rotated, compressed and pruned beside
it, each in one step here and in many in `DecisionLog`; `TailFollower` one that is renamed away.

## 3. The modules

### PromptCoalescer -- `prompt/coalesce.go`, `prompt.go`, `ratify.go`

A call is one `CoreDecider.Decide`.  `Call` reads the clock, which the code does before it
locks; `Enter` is the critical section of `Notify`, one of `ReplayBurst` (the pid's burst
answer is cached), `AskBurst` (too many domains), `JoinGroup` and `LeadGroup`.  The user
is asked outside the lock: `UserAnswers`, `NotifierFails` and `PromptExpires` end a
dialog through `PublishGroup` (close the group's channel) or `CacheBurst` (lock again,
set the burst entry).  `Wake` is the receive of a waiter, `Conclude` the rest of `Decide`:
verdict and ratification, whose failure is only logged.  A group is named by its leader,
so that a waiter keeps its group when `groupByDom` moves on.  A dialog is on the screen
until its context expires; a call that took the lock after its own deadline raises none.
Registered domains are a function given as a constant (`regdom.go` is a table lookup).
`asked` records what was put before the user, and exists for the properties only.

### DecisionLog and DurableLog -- `decisionlog/`

The file system is the state: live file, plain segments, `.gz` files and the set of
`.gz.tmp`.  A `Write` is one append, preceded by a rotation when the file is full:
`BeginRotate` (name, close), `RenameLive`, `Reopen`, `WriteLine`, each with its failure
(`RotateFails` is that of the name or of the close).
`RotateStuck` is what a failed reopen or close leaves: a file that is closed but not nil, so that
closing it again fails, for every later write.  Compressions run beside the writer, as
`jobs`: `StartGzip`, `RenameGz`, `RemovePlain`, then `PruneList` and `PruneRemove` on a
list made earlier.  `Open` sweeps what a crash left.  `Crash` may come between any two
steps, and after a write that no one was told of; a failing write may leave half a line
(`Torn`), which the next append completes to one that does not parse (`Bad`).
`ReadList`, `ReadSegment`, `ReadLive` are a `ReadHistory` in any process, without a lock.

A file is a sequence of lines and an entry a number, so sizes are line counts.  A gzip
archive is written under its `.tmp` name and appears whole; its content is the lines that
the job read.  `DurableLog` is what all this promises without retention: the lines that
stand whole grow by one entry at a time and never otherwise change.

### Catalog and Policy -- `catalog/catalog.go`, `allowlist/`, `exempt/`

`Describes` is `identityDescribes`, `StaleBinary` and `HasDecisionPin` are the functions of
these names, `Verdict` is what one entry says and `Lookup` the strongest of what all say,
which is how the code's walk with its order of cases ends.  Hosts are compared normalized
in the code and are values here; `TeamID` and `BundleID` are matched alike and are one field.

`Policy` has `Decide`, the walk over the lists of the layers in their order (`Resolution`),
with patterns matched label by label, and `IsExempt` with its rules for the two systems.
`Allowlisted` says without an order what the lists mean, for `ForwardedOnGrounds`.

### DecisionEngine -- `daemon/`

One record of local variables per connection, one action per stretch of `handle` that
touches shared state or the network: `Accept`, `Attribute` (and the exempt fast path
`ForwardExempt`), `ParseHello`, `Identify`, `Consult` (allowlist, catalog, in
`decideBranch`'s order), `CountGrace`, `BindDest`, `RecordPending`, `Answer` or
`NoPrompt`, and the exits `CloseDenied`, `Dial`, `Replay`, `LogDecision`, `EndSplice`.
`Attribute`, `HelloFails` and others choose freely among the outcomes of system calls: the
process may stay unknown, and so may its signature (`sig`), so that an exempt program is filtered.
A write upstream that fails may have sent part of the bytes.  `Upgrade` replaces an executable at any time, `Review` is a command that takes a hash off
the queue.  The prompt is the engine's view of `PromptCoalescer`.  `logged` is what a
connection hands to `Log.Write`, whose own failure nothing notices.  The options with
which the daemon is started are chosen in `Init`: observing or enforcing, with a resolver
check, with a prompt.

Left out: drift class, explanation, persistence and idle time, which annotate a prompt or a
log entry and never change a decision; the reasons of the two ClientHello failures and of
the two address failures are one value each.  The signature of a path does not change.

### BridgeServer -- `nebridge/server.go`, `protocol.go`

Three kinds of goroutines share a table of connections.  The loop of `Serve` is `Accept`,
`Register` (the table), `Spawn` (`handlers.Add` and the goroutine), and after a
cancellation `Drain` and `waitForHandlers`, which ends in `Drained` or `DrainTimesOut`.
The watcher is `CloseListener`, then `CloseActive`; a connection may be accepted before
the one and entered in the table after the other, which is what `Drain` is for.  A handler
is a loop of a read (`DecodeRequest`, or one of the ways in which it fails), the judgement
(`CannotJudge` for a missing server name or identity, else `Decide`), the log
(`LogDecision`, `LogFails`) and the response (`Reply`, `ReplyFails`); `Leave` is its
deferred calls.  The decision is the engine's and is chosen freely, strings that are no
decision included; `verdictFor` and `logEntryForDecision` are what the bridge makes of it.

The peer is free: it sends whole frames, ones of another version, and ones cut short,
ahead of the responses to earlier ones, and closes at any time.  A frame that ends right
after its header is kept apart, because the code meets a different error there.  A
deadline may pass whenever what it waits for has not come, and closing a socket makes what
its handler does next on it fail.

### UserStores and AtomicStores -- `pending/`, `rejected/`, `cli/ratifywriter.go`, `alwayswriter.go`, `allow.go`, `exempt.go`, `enroll.go`, `review.go`

Five files -- the review queue, the user catalog, the allowlist, the exempt list, the
rejected pairs -- are changed alike: `Load` reads the whole file and computes the new one,
`Open` opens a temporary file, `Write` fills it, `Rename` installs it, `Publish` tells the
daemon's memory and returns.  Any step may `Fail`, any process die (`KillCommand`,
`KillDaemon`), and a daemon starts from the files (`Start`), unless one cannot be parsed.
Goroutines of the daemon share a mutex per store (`Free`); commands are processes and share
nothing, so any two processes may be in operations on any store.  Three of the stores use a
fixed temporary name (`SharedTmp`): who renames takes what is under it, a file that is still
open goes with it (`Moved`, `handle`), and what is written over another's content may cover it,
mix with it or leave a file that nobody can read (`Over`, `Torn`).  An actor's call is a set of
operations: `Approve` pins every host it has listed, then resolves the binary, `Enroll` adds
what it found.  Two histories say what processes may do to each other: `met`, who is in an
operation during which another process was in one on the same store; and `exposed`, what of a
store in `SharedTmp` was there or being added when they met (`Meeting`), until an undisturbed
operation adds it again (`Publish`).

The daemon's calls are `Record`, `Ratify` and `Always`; the last is the `AlwaysWriter`, which
the decider uses where no `RatifyWriter` is given.

`AtomicStores` is what the callers can rely on: an operation that meets no other process on its
store takes effect at once between its call and its return, or not at all.  One that does may
put back what it saw at its call, but never a part of a file, where temporary names are private;
where they are shared nothing is promised of the file until those who met have returned (`Spoil`).

### CatalogSupply -- `telemetry/`, `reviewqueue/`, `cmd/review-queue`, `cmd/catalog-build`, `catalogbuild/`, `catalogsig/`, `catalogfetch/`

The stages of a fact: `Ratify` on a user's machine posts a report if the daemon read the
setting as on when it started; `Ingest`, `SetEvidence`, `Reject` and `RecordApproval` append
to the maintainers' file, each command a process that replays it (`At`, `HasEvidence`); a
write may be cut short, and what is then appended makes one unreadable line with the fragment,
which stays open if that is cut short too (`Appended`).  An approval is a record, then a catalog written in place (`Truncate`,
`WriteApproved`), which loses its `issued_at`.  A build is written in place too (`Build`,
`WriteBuild`) and may end within it (`BuildFails`), after which the issue time of the last one is
lost; `Sign` and `Publish` are separate steps on separate files, and so are the two halves of a
fetch (`Download`, `Verify`), its comparison with what is installed (`Accept`) and its rename
(`Install`).  Fetches take no lock: `late` has those that another has overtaken between the last
two, which may put an older catalog over a newer one.  `InAnotherSecond` is assumed, not read
from the code: two different catalogs compiled in one second carry one `issued_at`, and who has
installed the first is refused the second.  A maintainer's
approval may go to the fragments or to the baseline installed on his own machine.

### Baseline -- `drift/`, `decisionlog/join.go`, `concurrency.go`, `daemon/lastseen.go`, `cli/daemon.go`, `cli/review_baseline.go`

`Build` is `BuildBaselineWithRejections`: a fold over the log, with the pairs seen on two
days, the last times, and the most recent points with their gap and their concurrency;
`IsStale` and `Usable` decide whether a cached one will do.  The daemon and the review
command load it as two processes through one cache file and one temporary name
(`Begin` ... `RenameTmp`).  The log it reads is in segments and a live file: `ListSegments` and
`ReadLog` are `ReadHistory`, between which the daemon may rotate (`Rotate`) or compress and prune
(`Compress`); what a reader can get then is `Readings`, with whole segments `Missed`.  `Seed` is `SetBaseline`'s loop over the last times, one pair at a time
among the connections' own (`Admit`); `Advance` and `Evict` are `lastSeen`.  A connection stamps its
entry, is admitted, logged, and logs its flow when it ends, as separate steps.

### Caches -- `procid/exehash.go`, `signature/cache.go`, `dnsbind/`, `idle/`

Three caches look under a lock, ask without it and store under it again: `Ask`, `Hit`, `Miss`,
`Compute` or `ComputeFails`, then `Store` (the last to arrive stays), or `FoundStored` and
`PushFront` (the first stays; least recently used are evicted).  Files are replaced
(`Change`) at any time, with a new modification time or one that the path has had before: a hash
is cached under inode, size and both times, a signature under path and modification time only
(`KeyOf`), and where that cannot be read the cache is left out (`Bypass`).  The idle probe is `Active`, `Measure`, `Refreshed`, `ProbeFails` with its
growing delay.  Time is kept as ages that stop counting where they stop to matter, which
makes the state finite without a bound on the clock.

### Persistence -- `persist/`, `attributePersistence` of `daemon/decision.go`

A connection's goroutine asks what launched its process: the process table in one snapshot
(`Chain`, upwards to `maxAncestorDepth`), then launchd's jobs, then the crontab or the rc
files, each looked at later than the one before while processes come, go and reuse numbers
(`Spawn`, `Exit`).  `Load`, `Known`, `Save`, `LedgerFails` are `recordFirstSeen` under its mutex;
`Answered` remembers every answer, errors included, and `Ask` gives what is remembered to later
connections as it is: a source that was new then is told as new again.  `told` is the history
of what was told to whose calls.

### TailFollower -- `tail/follow.go`, `cli/tail.go`

The log's writer appends, renames away and creates; each makes an event that may be lost.
`Follow` looks, watches (`Watch`), seeks the end or reads from the start (`Start`), and then handles
ticks (`syncPath`) and events (`OnRename`, `OnCreate`, `OnWrite`).  A file is its inode, so
that an open file and the one at the path may differ.

### Installation -- `cli/install*.go`, `launchdaemon_darwin.go`, `kernel/`, `menubar/control.go`

The plist, launchd's job and the loaded rules are each the port they name, or none; a file whose
writing failed may be `Torn`.  `Install` runs through `Bootout`, `WritePlist`, `Bootstrap`,
`WriteAnchor`, `LoadAnchor`, each of which may fail into its rollback
(`rollbackLaunchDaemonPlist`, `Restart`, `KeepDaemon`, `UndoDaemon`), and each rollback may fail
(`root.lost` and `broken` remember it); `Uninstall`, `Enable` and the menu bar's `Pause` are
beside it; a command may be `Killed`, the machine may `Reboot`.

## 4. What is checked

| run | question | result |
|---|---|---|
| `prompt` | Do three overlapping calls get verdicts and facts that a covering prompt stands for, without competing dialogs, and does each call return? | yes |
| `decision_log` | Does the log lose, reorder or double anything, through rotations, overlapping compressions and prunes, a crash, a fault, a torn write and a reader? | no, but for what is written behind a fragment; it implements `DurableLog` |
| `decision_engine` | Do two connections, under lists and exemptions, beside upgrades, ratifications and reviews, keep to grounds, nevers, the bound of the queue and the log, and come to an end? | yes |
| `bridge` | Do responses stay paired with requests and backed by the log, does a cancelled `Serve` return and leave nothing that answers, can a peer hold a handler? | yes, yes, no |
| `user_stores` | Are the operations on the user's files atomic, is memory never ahead of them, does a queued host ever vanish unreviewed? | yes, yes, no, but for what two processes put at risk when they meet on a file, and a host that comes while its binary is approved |
| `catalog_supply` | Does a fact reach anyone without evidence, is an unsigned or older catalog installed, is an honest update refused? | no; unsigned never, older only by a fetch that another overtakes between its check and its rename; not if different catalogs are compiled in different seconds |
| `baseline` | Is what is served a build of the log, does a rejection take effect, is the last-seen table right? | yes, of one reading of the log, which may lack segments (section 6); yes; yes |
| `caches` | Is an answer of another content or an old one ever given, do samples come back? | no, but for signatures of contents with one modification time; yes |
| `tail` | Is a line missed within what is printed, is a line of the live file printed? | no; yes |
| `installation` | Do redirected connections reach a daemon, does a failed installation undo itself? | yes, unless a command is killed, an undoing fails or pf fails over the rules of another port |
| `persistence` | Is a source told with two first sights, or as new to connections of two processes; does every attribution return? | no; yes |
| `install_reaches` | Does an installation that succeeds filter anything (`kernel/pf_darwin.go:44`)? | not where `pf.conf` lacks the anchors |

The last is a run that TLC ends with a counterexample; it is described under "findings" in
`PROJECT.json`.

The properties that are not obvious from their names:

* `VerdictFromPrompt` relates a verdict to the start times of two calls: a prompt covers a
  call to its domain (or of its pid) that started less than a window after it.  A call that
  read the clock long ago and got the lock late is the interesting case.
* `OneDialogPerDomain` holds because a prompt lives 30 s and a group 60 s
  (`cli/daemon.go`), the assumption `PromptTimeout < Window`.
* `HistoryComplete` is about every state, also those between two system calls of a
  rotation; `SweepRepairs` is about the step that ends `Open`.  The latter is restricted to
  behaviours without failing system calls, for a sweep gives up at the first error.
* `PrunedWhenOutnumbered` is what retention means when prunes overlap: an entry goes
  missing only while at least `MaxSegments` younger segments are kept.
* `ReadOrdered` holds for every reader, `QuietReadComplete` for one that nothing was
  renamed or removed under.
* `ForwardedOnGrounds` does not repeat the branch that was taken: it asks, in the state in
  which bytes go out, what the lists mean without their order, whether the exempt process
  is no interpreter, whether the catalog still has the pin and whether the grace was
  recorded.
* `NeverStands` is about any later ratification by any connection, contradicting ones included.
* `FullQueueStaysShut` is what bounds the grace: a full queue lets nobody in who has not
  counted it before it was full.
* `LogIsFaithful` relates the log of a closed connection to what became of its bytes.  A deny may
  stand for bytes of which some were sent: where the first write upstream failed in the middle.
* `AnswersAreLogged`: responses carry no number, so a response that is lost while later
  requests wait in the socket would shift all that follow; and an allow must be in the log
  before the peer has it.
* `SilentAfterReturn` also covers handlers that outlive the two seconds of the drain, and
  connections accepted behind the watcher's back; `CleanReturn` is what a nil result adds.
* `AtomicStores` is the refinement; `ReviewKeepsHosts` is across operations and crashes: an
  approval stops or dies half way, and is repeated.  Its exceptions, a host that comes while
  its binary is being approved and what is `exposed`, are divergences listed below; so is that
  of `LiveIsDurable`.  What is exposed is named item by item: two processes that meet on the
  allowlist excuse nothing of the catalog, and nothing that was added after them.
* `UpdatesAreInstallable` is what keeps the protection against replays from locking out
  honest updates: `issued_at` moves forward with every change of content, though approvals
  forget it.
* `ServedIsABuild` finds a reading of the log that a served baseline was built from: whole
  segments and the live file after them.  A file put together by two writers would have none.  It
  does not say that the reading was complete: one beside a rotation is not, and the cache keeps it.
* `LastSeenIsLatest` is exact, not a bound: an evicted pair that a refresh tells of again must
  not come back with an older time while its newer one was forgotten.
* `AnswersWereCurrent`: the answer was true at some moment of the very call it answers.  Of
  signatures only while no two contents of the path have had one modification time (section 6).
* `RedirectsReachTheDaemon` is about the states between commands.  `broken` names what happened
  since the last install that succeeded: a command was killed, a rollback or restart failed, or
  `install.go:38` kept the new daemon under rules of another port.  Each is set by its event, never
  by the state it leads to; with the third alone a daemon must still run.

### Bounds

* `prompt`: three calls of one process, to two hosts of one registered domain and one of
  another, threshold 1, window 2, timeout 1, starts at 0 to 2: enough for groups that
  expire and are replaced, a burst that is entered, cached and left, and a call that is
  overtaken.  Calls of several processes are covered by the proofs.
* `decision_log`: five entries of which two fill a file, so two rotations and a third file;
  two seconds of clock, one crash, one fault, one reader, retention of one segment or
  none.  Two overlapping compressions, which prune each other's segments, need no more.
  `Bursts = FALSE` keeps a writer with retention to one rotation in a second: with more, a
  pruned name is used again (see below).  The clock does not step back.
* `decision_engine`: two connections, three contents of a file, three hosts (pinned,
  allowlisted, denylisted, on which the layers disagree), two programs of which one is
  exempt (unless its signature is not found out, `Unverified`), a limit of one awaiting hash; the
  other is upgraded twice (`Upgrades`); enforcing with resolver and prompt, whose behaviours
  include those without, and observing with neither.  An answer of the resolver or the
  kernel is a free choice, so two connections meet in every order.
* `bridge`: two connections, of which one can be between `Accept` and the table while the
  watcher closes the other, and two frames in all, so that one is sent ahead of the
  response to the other or each connection has one.  More of them are covered by the proofs.
* `user_stores`: two goroutines and two commands, one binary with two hosts, three calls in
  a behaviour: two writers of one store meet, a third acts between.  Interchangeable actors and hosts are symmetric; all
  properties are safety, so symmetry is sound.
* `catalog_supply`: a shipped and a reported fact (`Reported`), two fetches, three records, two
  seconds: enough to approve one, also after torn records that later ones have ended, to publish
  before and after, and for a fetch of the one to overtake that of the other.  A second approval
  in a behaviour, and one after a rejection, are left to the proofs, which hold for any number of
  records.  The fetches are symmetric; all properties are safety, so symmetry is sound.
* `baseline`: two connections, two pairs and room for one, a log of three entries, one of them
  from before, one rotation (`MaxRotations`) and retention of one segment, two loads, two seconds
  of one day each: enough for a segment to be missed and for a cache built so to be used again.
* `caches`: two readers, two subjects that change twice between them, room for one entry; the probe's delay doubles twice.
* `tail`: three files of two lines, three events waiting: a rotation while the last is unnoticed.
* `persistence`: two process numbers used twice, two connections, a shell, a cron and a tool
  that both the crontab and an rc file start.
* `installation`, `install_reaches`: two ports and nothing else to bound.

Deadlock is checked where a bounded behaviour ends in a step of its own (`Finished`) or none
ends; it is not where the system may rest: an engine, bridge, store or cache that nobody calls
has no step to take.

### Fairness

`PromptCoalescer` assumes weak fairness of entering, waking and concluding, for a goroutine
that can run does run and `sync.Mutex` starves nobody; of the expiry of a context; and of
time.  It assumes nothing of the user or the notifier.  `DecisionEngine` assumes weak
fairness of `Handle`, all that happens between accepting and splicing, for every wait in
it has a deadline: the ClientHello, the resolver, the prompt, the dial.  It assumes none of
`EndSplice`, for an idle splice may last forever, nor of the outside world.  `BridgeServer`
assumes it of the loop, the watcher and each handler: reads and writes have deadlines, and
the engine's decision comes (`EveryConnectionIsDecided` is the like of it).  `Accept` may
wait forever, but not beside a connection or on a closed listener.  `Persistence` assumes it
of each goroutine, whose commands all have a deadline; `classify_darwin.go` sets no `WaitDelay`, so
this also assumes that what a killed `ps`, `launchctl` or `crontab` has started does not keep its
output open, the case of which `idle/idle_darwin.go:28-32` warns.  `TailFollower` assumes it of the
ticker alone, so that every event may be lost.  `Caches` assumes it of time, of the calls of
`Active` that every prompt makes, and of the end of a probe; and strong fairness of a probe that
is not stopped again and again by its own timeout: a probe that can be read is sometimes
read in time.  All other properties are safety.

## 5. What is proved

The theorems hold for every value of the constants under the assumptions that the modules
state (`PolicyAssumption`, `EngineAssumption` ... `StoresAssumption`), which are types and the
shape of the embedded lists, but for `PromptTimeout < Window`.

* `DecisionEngineProofs`: `GroundsProved`, `LogProved`, `NeverProved` and `QueueProved`, for
  `ForwardedOnGrounds`, `LogIsFaithful`, `NeverStands` and `FullQueueStaysShut`.  Lemmas on `Policy` and
  `Catalog` say that an allow of `Decide` is covered by a list that no deny of its layer or above
  overrules (`DecideAllows`), that `Lookup` answers what an entry says (`LookupSays`), and that a
  never outranks the rest (`NeverWins`).  `EngineInv` has for each connection what it carries to
  the step that acts on it (`Carried`: the stale fact up to the record of the grace, the grounds
  from the verdict on) and what the log has of it meanwhile (`Told`).  Since facts and records
  are only added (`Grows`), the steps of others take no grounds away (`GroundsStay`), and a step
  is judged by its own connection (`Alone`).
* In `DecisionEngineProofs`, of `Caches`: `CurrentProved` and `FreshProved`.  `VersionInv`, of paths
  whose versions have different keys (`Distinguished`): what is stored under a key may be of a later
  version than the key, never of an earlier one, and a call has seen all versions since its key,
  its own or that of an entry it finds.  `AgeInv` and `ProbeInv`: an
  answer is older than its entry by one lookup at most, a sample by one probe.
* `PromptCoalescerProofs`: `TypeCorrectness`, `VerdictsAreAnswers`, `BurstsAreNotRatified`,
  `DialogsAreExclusive`, `WaitersAreOwned`: `TypeOK`, `VerdictFromPrompt`, `RatifiedFromDomainPrompt`,
  `OneDialogPerDomain` and `WaitersHaveALeader` are invariants of `Spec`.  None is inductive
  alone.  A verdict says nothing of how it came about, so `CoalescerInv` follows the answer
  through every place it rests in: a published group carries its leader's answer
  (`GroupsPublished`), the group a domain points to is one for the domain
  (`GroupsByDomain`), a waiter's group covered it when it joined (`WaitersCovered`, where
  the two clock readings are compared), a burst entry is the answer of a burst prompt of
  the pid (`BurstsAnswered`), and what a call returned is one of these
  (`ReturnedFromPrompt`, `Concluded`).  For the dialogs it says that a leader on the screen
  still owns its domain's group (`DialogOwnsGroup`): a younger leader would have had to
  start a window later, when the dialog is gone.  Lemmas such as `AskedSettled` and
  `CoversSettled` say that answers, once given, are not changed, which is what keeps the
  existential witnesses alive.
* `DecisionLogProofs`: `TypeCorrect`, `OpenRepairs` (`SweepRepairs`), `NothingLost`
  (`HistoryComplete`), `OnlyOutnumberedPruned`, `FilesInOrder`, `ReaderInOrder`, `QuietReaderHasAll`,
  and `LogIsDurable`, the refinement of `DurableLog`.  That no entry is lost is not inductive: it
  depends on what every unfinished job and every crash leaves.  `LogInv` says for each job what it
  finds and what it has read (`JobsInv`, `Fits`), which names are taken and that a rotation can
  only take a later one (`NamesInv`, `SegInv`), that contents lie in the order of the names and
  below the live file (`OrderInv`, over `Chunks`: files and what a compression is about to rename),
  and for each written entry the segment it is in or was pruned with (`PlacedInv`).  A name that is
  outnumbered stays so (`OutnumberedStays`, `GoneForever`), which is what lets two prunes overlap.
  The theorems about order and retention have the hypothesis `~Reuses`: a `Writer` with retention
  that rotates twice in one second may choose a name that was just pruned, and then the order of
  the names is not that of the entries (section 6).  Nothing else is assumed of the constants.
* `SurroundingsProofs`: of `BridgeServer`, `TypeCorrectness`, `AnswersMatchLog`, `ReturnIsClean` and
  `ReturnIsSilent`, for `TypeOK`, `AnswersAreLogged`, `CleanReturn` and `SilentAfterReturn`.
  `BridgeInv` adds where the handler is in its exchange (`Paired`: it owes exactly the response to
  the frame it read last, and holds no allow the log has not), that the WaitGroup counts what runs
  (`Counted`), that every open connection is in the table or about to be (`Tracked`), and that from
  the drain on nothing is open (`Stopped`).  Of `Installation`, whose specification is
  `InstallSpec`, `RedirectsProved` and `UndoneProved`: `Sound` says for every step of a command
  where the redirected port still is: in job and plist, or in the plist kept aside; `Runs` that
  something runs or can be started again; `Undoing` what an install has put in the place of what
  it found.
  Of `TailFollower`, `GapsProved` (`NoGaps`).  That the lines before a printed one were printed needs
  the place in the open file (`PlaceInv`); that nothing old is echoed, although every reopening
  starts at line 1, needs that the log that was there at the start stays open, or a rename has
  ended it: no event in the queue says that it was renamed (`OldInv`).
* `UserStoresProofs`: `StoresAreAtomic` (the refinement of `AtomicStores`), `LiveProved` and
  `ReviewProved`.  Two who are in an operation on one store have met (`Alone`).  Of who has not,
  what it read is still there when it renames, and what it renames is what it wrote (`UnmetInv`);
  of who has, on a store with a shared temporary name, all that is in the store, in the temporary
  file and in what it will write is exposed (`MetInv`), so that nothing else can get lost.  The
  live stores are only added to (`Doable`), which keeps memory below the file and what is exposed;
  `ReviewInv` says
  that an approval which still has to drop a binary has pinned, or still has to pin, each
  host it listed.
* `CatalogSupplyProofs`: `EvidenceProved`, `UpdatesProved`, `InstallsProved`.  `EvidenceInv` has
  the facts known in every place a catalog rests, the command's memory and all that was signed
  included; `OrderInv` puts the catalogs in one line: what is installed is what is published or
  was issued before it, and whatever was signed or published is so to the one compiled now or
  being compiled, also where a build that failed has left nothing to compare with; `FetchInv` has
  what a fetch has verified among the signed, and what it has checked newer than what is installed
  until another fetch overtakes it.
* `BaselineProofs`: `LastSeenCorrect`, `ServedProved`, `RejectionsProved`.  `LastSeenIsLatest` is
  not inductive without `ForgottenIsOlder`: there are forgotten pairs only when the table is full,
  and none was seen later than one that is kept.  Neither is `ServedIsABuild` without `MadeInv`:
  a cache or temporary file that parses, whoever saved it, and what a load has got are folds of
  one of the `Readings`, the latter with the rejections the load has read; and what could be read once
  can be read of a log that has grown or was rotated (`ReadingsStay`).  The proofs take of `Build` only that it keeps its rejections and leaves their pairs out
  (`BuildLeavesOut`), and of `History` that it is a log (`HistoryAssumption`).
* `PersistenceProofs`: `FirstSightProved`.  `LedgerInv`: who has loaded holds the mutex, and has
  what the ledger has; `ToldInv`: what was told is in the ledger, and who is told of a new
  source has put it there, or asks for the same process; `CacheInv`: what is cached for a process
  was told to one of its calls.

Each proof has a lemma per action or group of actions, a `StepKeeps` that joins them, and a
theorem whose last step is temporal.

Checked by TLC only: liveness (`EveryCallDecided`, `EveryConnectionIsDecided`, `ServeReturns`,
`PeersAreAnswered`, `SamplesComeBack`, `LinesArePrinted`, `AttributionReturns`), for the prover
has no fairness.  Of `Build` the theorems say how it travels, not what it adds up: what the fold
computes for every log would need an induction over the log, which is out of the prover's reach.

## 6. Divergences met while modelling

Places where the code does other than a document, a comment or a test says, or than one might
expect.  The models follow the code, and the properties are stated so that they hold of it.

* The calls of a pid over the burst threshold do not share a dialog until the first answer is
  cached: each raises its own (`prompt/coalesce.go:13` against `:136`).
* An Always is ratified for every waiter of a group, also of a process that was not shown to
  the user (`DESIGN.md:457-459`).
* A reader beside a rotation may miss entries: it lists the segments, and the live file is
  renamed before it opens it, or a segment has its name changed (`decisionlog/history.go:18`).  A
  baseline built from such a reading is served and cached, and `IsStale` lets it, which looks at the
  newest entries only: traffic that was learned looks novel until a later entry makes the daemon
  build again, which rotation must not bring about (`cli/daemon.go:309-312`).
* A write that tears a line swallows the next entry, and then `parseEntries` rejects the file
  (`decisionlog/decisionlog.go:152`); with retention, a segment name that was pruned within its own
  second is used again, and then sorts as if it were older (`decisionlog/segment.go:24`).
* A connection whose first bytes were sent in part is logged as denied (`daemon/decision.go:553`).
* The grace for changed binaries is counted and recorded in two steps: connections that count
  together exceed the limit together (`daemon/decision_grace_test.go:195` tests one at a time).
* Observing does not block, but a connection whose ClientHello cannot be parsed is closed
  (`cli/daemon.go:52`).
* A request to the bridge that ends right after its header is not answered with a drop
  (`nebridge/verdict_test.go:76` is about other cuts).
* The signature cache takes two contents of a path with one modification time for the same
  (`signature/cache.go:49`; its comment at lines 11-12 says that an update changes the time).
* Two processes on one of the stores that share their temporary name (queue, catalog, allowlist)
  may lose an Always or a ratification that the daemon's memory keeps, install an empty file or
  one that keeps the daemon from starting, or fail (`cli/ratifywriter.go:34`); and a host that is merged
  into an item while it is approved goes with it, unpinned.
* A running daemon goes on reporting after telemetry is disabled, until it is restarted
  (`docs/telemetry-disclosure.md:9`).
* Two fetches beside each other may leave the older of their catalogs installed
  (`catalogfetch/fetch.go:92` against `:139`): `late`.  The next
  fetch mends it (`UpdatesAreInstallable`).  Two different catalogs built in one second cannot be
  told apart by their time, and the second is refused (`catalogfetch/fetch.go:103`).
* Lines written to a log right before it is renamed away may never be printed by `tail`, and
  after a rename whose event is late lines may be printed twice.
* An installation over another port that fails at the packet filter leaves the daemon on the
  new port and the rules on the old (`KeepDaemon`, `cli/install.go:38`): nobody listens where
  packets are sent.  So does an installation that is killed, or whose rollback or restart fails; a
  write of the plist that fails half way is not undone (`launchdaemon_darwin.go:113`).
  `uninstall` does not look whether launchd has really stopped the job.
* An installation does not put the anchors into `pf.conf` (`install_reaches`).
* A connection may be told that a source is new long after it was recorded: the cache repeats the
  first answer to every connection of the same process (`daemon/decision.go:156`).
* The persistence cache keeps errors and wrong answers for the life of the daemon, also for a
  later process of the same number, parent and path.
* `Start` of the daemon returns, and closes the log, while connections are being handled.

## 7. What is not modelled

* `explain/` (a request to a language model), `procid/procid_darwin.go`, `signature/signature.go`,
  `tlsparse/` (system calls and parsing of one buffer), and the presentation in `status` and
  `menubar/`.  They hold no state whose steps interact; the engine chooses among their outcomes.
* `PromptCoalescer`: the wording of dialogs; a user's answer is atomic.
* `DecisionLog`: the encoding of an entry, directory fsync and power loss below the level of
  renames, clocks that step back, an external rotation of the live file.
* `Catalog`, `Policy`: parsing and marshalling of the TOML files, normalization of hosts.
* `DecisionEngine`: the bytes of a splice, `inflight.go` (two atomic additions), the annotations.
* `BridgeServer`: `Listen` and its checks of the socket's directory, the resolving of an
  audit token, the log entries of drops (nothing depends on them), the bytes of a frame.
* `UserStores`: power loss between a rename and the disk; a `Write` is one step, also over the
  content of another process, whose outcomes `Over` lists.
* `CatalogSupply`: the checks of a report, rate limits and `burst.go`, which groups candidates for
  display; keys, beyond which bytes a signature is of; clocks that step back; two builds at once,
  two different catalogs compiled in one second, a truncated file that still parses, and a
  release that goes on after a failed build.
* `Baseline`: the numerical drift scores (`knn.go`, `scale.go`) and the class of a connection, which
  only annotate a prompt; the footprint of a process.
* `Caches`, `Persistence`, `TailFollower`: what is parsed from the outputs of commands; the matching
  of a command line with a crontab line or an rc file is a constant relation.
* `Installation`: the text of `pf.conf` and of the property lists; two administrator commands at
  once; a `launchctl bootout` that reports an error and stops the job all the same.
* The commands under `cmd/`, beyond what `CatalogSupply` takes from `review-queue` and `catalog-build`.
