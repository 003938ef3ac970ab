# Verification of the Doppels CLI

Doppels runs "Doppelgangers": capabilities described by YAML manifests, carried out on this machine as
*Runs* of shell or manual *Recipes*. The program is one Go binary (`src/apps/cli`); the Space, the
coordinator of Shares and the registry it talks to are not in the repository. The part worth verifying is
what the CLI promises about a Run: that its record is durable, ordered, closed once and never contradicted
by the index or the coordinator, although several CLI processes work in one project root without a lock, and
disks, SQLite, networks, people and processes fail in between; and, around it, that a Request of a Share is
taken up once, that the files several commands share stay consistent, and that what the static checks
promise is what the Run finds.

This directory holds TLA+ modules that model that part, TLC configurations that check them on small
instances, and proofs, checked by TLAPS, for every size. `PROJECT.json` maps each definition to the lines it
models and lists runs, mutants, findings, hazards and theorems.

Paths below are relative to `src/apps/cli/internal/`.

## 1. Inventory

| Component | State it keeps | Operations | Modelled by |
| --- | --- | --- | --- |
| execution engine (`execution/runner.go`, `manual.go`) | `runner`: result.Status, sequence, ctx | `Execute`: initialize, emit, indexRun, runShell, runManual, sealAfterError, fail, interrupt | `RunExecution`, `RunRecord` |
| local Run store (`localstate/store.go`) | `.doppels/runs/<id>/{request.json,run.json,events.jsonl}`, logs, artifacts | Open (exclusive mkdir), WriteRequest, WriteRun (rename), AppendEvent (O_APPEND, fsync) | `RunStore`, `RunExecution`, `RunFollow` |
| Run index and outbox (`runindex/`) | SQLite tables `runs` and `outbox` in `.doppels/runs.db` | Open + Backfill, Upsert, EnqueueOutbox, ListOutbox, AckOutbox, BumpOutboxAttempt | `RunStore`, `RunExecution`, `RunSync` |
| outbox flush (`runsync/sync.go`, `command/sync.go`) | none of its own | Flush: list, build payload, ingest, acknowledge | `RunSync` |
| Run reader (`runstate/read.go`) | none | List, Load, enrichStatusFromIndex, Logs | `RunExecution`, `RunFollow` |
| Share channel (`shareclient/phoenix.go`) | socket, pending replies, inbound buffer of 64, seen messages, recoveries | push, readLoop, heartbeat, Next, submit, reconnect, Close | `ShareChannel`, `ShareLog` |
| Share HTTP client (`shareclient/client.go`) | none | Create, Pending, upload of an artifact | `ShareSession`, in part |
| `share` (`command/share.go`) | one Share, one Request | create, await, recover at expiry, refuse, Execute, upload, exit | `ShareSession` |
| `node up` (`command/listen*.go`) | claims, jobs channel of 16, watchers, background jobs | poll inbox, watch Shares, decide, fulfil, skip, reject, drain | `NodeUp`, `ShareSession`, `Preparation`, in part |
| `run`, `runs`, `logs` (`command/run*.go`) | detached worker process | start, detach, follow | `RunFollow`, `Preparation` |
| `preview`, `apply`, `prune` (`command/reconcile.go`, `projectlock/`, `localregistry/`) | `doppels.lock`, `local-registry.json` | reconcileInput, Prepare, Commit, Abort, Verify | `Workspace` |
| hub (`command/hub.go`) | module files, forked manifests | publish, unpublish, install, fork | `Workspace` |
| configuration (`configstore/store.go`, `command/auth.go`, `scope`) | profile.json, credentials.json | login (token, browser), logout, org use, space use, init, telemetry | `ConfigStore` |
| manifests (`manifest/`) | none | Discover, Load, structural and semantic checks, Recipe resolution, host check | `Manifest` |
| value algorithms (`execution/validate.go`, `template.go`, `result.go`) | none | input normalisation, version constraints, templates, products, outputs | `Preparation`, in part |
| project discovery, registry client | files, HTTP | walk; request | `Manifest`, `ConfigStore`, `Workspace`, in part |
| command shell and rendering | terminal | flags, output, self-update | not modelled |

**How they interact.** A command opens the project, resolves a Recipe and calls `Execute` in its own
process. `Execute` calls the store and the index directly and reports to a coordinator, if there is one,
through callbacks that block it. Other processes of the same root (`runs list`, `runs logs -f`, `run`, `node
up`) read and write the same directory and the same database; each statement of runs.db is a transaction of
its own, no busy timeout is set, and nothing spans two statements or a statement and a file. When a command
that used the index ends, it flushes the outbox to the Space. `share` and a `node up` of the same Identity
may both be attached to one Share. Every command reads profile.json and credentials.json, one after the
other, when it first needs each of them; `apply`, `install` and `fork` write the working tree that other
commands load.

**What is hard here.**
- *Failure between two steps.* emit is append, index, publish; each may fail after the others took effect,
  and fail/interrupt/sealAfterError then emit again. The same holds of the several files `apply`, `login`,
  `install` and `fork` write.
- *Concurrency without locks.* Backfill of one process reads a directory another one is writing, and upserts
  what it read later; two applies check against one lock; a login comes between the two files another
  command reads.
- *Crashes.* A directory without run.json, a Run without a terminal event, a queued row whose Space already
  has the Run, a truncated registry.
- *Cancellation.* After Ctrl-C every callback fails, while the record must still be closed.
- *Lost answers.* The Space or the coordinator accepted something whose answer never came.
- *Reconnection* in the Share channel: frames vanish with their connection, several goroutines meet the same
  broken one, and what happened in between must be asked for.
- *Deadlines.* A Request may be persisted at the moment its Share expires.
- *Hand-over and shutdown* in `node up`: claims, channels and jobs change goroutines while a poll, an
  operator, Ctrl-C and errors of any goroutine compete.
- *The same question asked twice.* The static checks, `validate`, and the Run each ask whether a Recipe fits
  the Capability and the host, in different code, at different times.

**What makes each component correct.** Engine: scripts are announced before they run; one outcome; the
coordinator's copy is an ordered part of the local one; Ctrl-C ends. Store: one writer per Run; a decodable
trail. Index: never another outcome than the trail; a Run that ended is queued. Flush: nothing leaves the
queue before the Space has it, whole, and it gets there. Reader: a follow that ends well showed every log.
Share channel: each submission is recorded at most once, no Request is lost in a reconnection. `share` and
`node up`: no Request is executed twice, none is forgotten, an expiry is true, success has its artifacts,
shutdown ends. `apply`: the lock holds what a registry took. Configuration: a token goes to the server that
issued it. Manifests: what was checked never fails in a Run.

The hazards, one by one with the line where they bite, are in `PROJECT.json`.

## 2. Modules

| Module | What it models |
| --- | --- |
| `RunStore` | the shared state of a project root (directories, trails, rows, outbox) and the elementary operations on it: a whole, torn or repeated line, StatusFromEvents, Upsert, the two statements of EnqueueOutbox and AckOutbox |
| `RunExecution` | EXTENDS `RunStore`; `Execute` as a process, `runs list` as another, at the granularity of one system call, SQL statement or callback |
| `RunRecord` | abstract specification: what Execute promises about the record of a Run, without processes, files or failures |
| `RunSync` | EXTENDS `RunExecution`; `runsync.Flush` by commands that run beside Execute |
| `RunFollow` | EXTENDS `RunExecution`; `run --detach` with its worker, the logs of a Step, `runs logs -f` |
| `ShareChannel` | phoenix.go: callers of Next, SubmitRun and SubmitRunEvent, read loops, heartbeats, reconnection, Close, at the granularity of one lock, select or frame |
| `ShareLog` | abstract specification of the submissions: what a caller may conclude from the answer |
| `ShareSession` | one Share: `doppels share` beside the watchers of `node up`, the deadline, the Run and its uploads, how the command exits |
| `NodeUp` | listen.go: inbox producer, a watcher per Share, the jobs channel, the main loop with its decisions, background jobs, shutdown |
| `ConfigStore` | profile.json and credentials.json under concurrent commands of several processes |
| `Workspace` | EXTENDS `ConfigStore`; preview, apply and prune with doppels.lock and the registries, publish and unpublish, install and fork |
| `Manifest` | the documents and what loading, validating and resolving check of them, as operators |
| `Preparation` | EXTENDS `Manifest`; the data of one Run from the tree to its outputs, with `validate` beside it |
| `RunExecution_proofs`, `RunRefinement_proofs`, `RunReaders_proofs`, `ShareChannel_proofs`, `ShareSession_proofs`, `NodeUp_proofs`, `Workspace_proofs`, `Preparation_proofs` | inductive invariants and theorems |
| `MCRunExecution`, `MCRunSync`, `MCRunFollow`, `MCShareChannel`, `MCShareSession`, `MCNodeUp`, `MCWorkspace`, `MCPreparation` | model values, inputs and symmetry for TLC |

**Reading `RunExecution`.** `pc[p]` is the place of process p in the code. Its values name what is about to
happen: `request`, `record` (initialize writes request.json, run.json); `open`, `backfill`, `read`,
`import`, `upsert`, `enqueue`, `mark` (indexRun, with the Open and Backfill inside it: `backfill` asks for
the row, `read` reads run.json and the trail, `import` upserts what was read, and the Run's own process may
do anything in between); `append`, `publish` (emit);
`publishRun` (OnRun); `preflight`, `fulfill`, `step`, `approve`, `prepare`, `execute`, `manual`, `returns`
(the body); `failing`, `interrupting`, `cancel`, `sealing` (the ways out). `caller[p]` tells indexRun where
to return, `next[p]` tells emit. `status[p]` and `seq[p]` are `r.result.Status` and `r.sequence`. Three
forms of step keep the actions short: `Local` only moves the process, `Announce` starts an emit, `Conclude`
sets the status and starts the emit of the terminal event, which is what fail, interrupt and the two ends of
runShell do, in that order.

What a script, a person or an input decides is a nondeterministic choice; the data (products, environment,
digests, times, wording) is left out. Reading the wall clock, redaction and log files change nothing the
properties tell apart. Two simplifications are deliberate: the failure of one of the two MkdirAll calls
after the exclusive Mkdir of `localstate.Open` has the same effect as the failure of WriteRequest and is
covered by it; and the first branches of fail and interrupt, which repeat indexRun for a Run that already
has its terminal event, are unreachable (see the comment at `Fail`) and have no action.

A failing append leaves one of the states in `AppendFaults`: nothing (`clean`), a fragment without newline
(`torn`), or the whole line with an fsync that failed (`synced`). Later appends continue the fragment's
line, as O_APPEND does.

**Reading `RunSync`.** A command lists the outbox once (`FlushList`), then takes the rows one by one: it
loads the Run, sends it, and acknowledges it, a failure leaving the row for a later command. `ingested` is
what the Space has; the Space is external and keeps what it took although the answer is lost.

**Reading `RunFollow`.** `launch[p]` says how far `run --detach` has come with its worker; `phase[p]` how
far the worker has come with a Step's script and its two logs, each of which appears by a rename from a
temporary file in the same directory. `look[f]` is the place of the follower in its round: resolve the id,
load run.json and the trail, enrich the status from the index, read the logs the events name (or list the
directory if they name none), sleep. `named` is a ghost: the logs that the Run's events name.

**Reading `ShareChannel`.** `pc[p]` is the place of caller p: `look` (Next asks for a recovery under
reconnectMu), `select` (it reads channel.connection, then waits), `push` and `reply` (the two halves of
connection.push), `lock` (entering reconnect), `late` (it holds reconnectMu and finds that somebody has
reconnected), `dial`, `join`, `query`, `install` (the attempts of connectAndRecover and what follows the
last). `conn[p]` is the connection the call works with, `held[p]` the one its reconnection is setting up,
`wait[p]` what arrived on the channel that push has registered for its ref. A connection has its socket
(`link`), the two signals it is ended with (`done` is closed, `failure` holds one value, which a single Next
takes; close and abort leave it empty), its reader, which may hold a message it cannot queue yet, and the
frames on their way (`up`, `down`).

The coordinator and the network are external: what `CloudJoins`, `CloudRecords`, `Post` do is read from what
the client relies on (an envelope is persisted before it is confirmed and once per message id; a
notification goes to every joined connection). A frame for a socket that is down is lost. A frame that is
invalid, phx_error and a close by the server end the connection as a read error does, so `Break` stands for
them. Left out: the delays between attempts, JSON, and the dial deadline, which fails as the dial does; a
join that cannot be written is a dial that failed.

**Reading `ShareSession`.** The runners are the `share` command and watchers of `node up`. `pc[r]` names
what comes next: `create`, `connect`, `await` (Next), `ask` and `check` (the query after the deadline),
`publish` to `finish` (Execute with its callbacks OnRun, OnEvent and BeforeSuccess), `failing`, `aborting`.
The coordinator, external, keeps one Request and one Run per Share, takes a Request only before the expiry,
events of its own Run only, and bytes only with their announced digest. `query`, `ran` and `trail` record
what the properties ask about. Execute is at the granularity of its callbacks; the local record is
`RunExecution`'s matter, reconnection is `ShareChannel`'s.

**Reading `NodeUp`.** `main`, `producer` and `watcher[s]` are the places of the three kinds of goroutine;
`stage[i]` says how far item i (a Share's or a Space's Request) has been carried out by runJob, in the main
loop or, if it is in `background`, by a goroutine of its own. `known[i]` is the OperatorDecision in the
job's copy of the Request, which may be older than `decision[i]` at the coordinator. The alternatives of a
Go `select` are separate disjuncts, so that any ready one may be taken; a send on the closed jobs channel
leads to `panicked`. Two things are one step here that have a model of their own: Execute (`RunExecution`)
and the waiting of a watcher (`ShareChannel`). Left out: the exit status and what is printed, JSON output,
the choice among several Recipes at the terminal, and that two racing reads of one bufio.Reader may garble a
line, beyond its going to either of them. The inbox is external; it lists what the code says it filters
(`Inbox`).

**Reading `ConfigStore` and `Workspace`.** Each process runs one command after the other; `pc[p]` is its
place in `cmd[p]`. A file is replaced by a rename, so reading or writing one file is one step, and nothing
spans two. Tokens, Contexts and bindings carry the server they belong to as a ghost (`token`, `origin`): the
files do not. The control plane may answer, refuse, or leave the answer unknown. `local-registry.json` is
the exception to the rename of a private temporary file: all processes write the same
`local-registry.json.tmp` (`truncate`, `write`, `rename`), and `racing` records that two were in it at once.
`applied` is what a registry has accepted, ever. The working tree is the person's: each command that loads
it finds any of `Trees`. DiffChanges only decides what is printed; paging, encoding and telemetry events are
left out.

**Reading `Manifest` and `Preparation`.** A document is a record with the fields its checks look at; `Bad`
stands for a text its pattern, length or enumeration refuses; `Literals`, `IsCapability` and `IsRecipe` say
what shape the decoder gives a document, whatever is in it. A value is a record of what it is (`is`), what
a text parses as (`as`), and a number or a name, so that conversions are what they do: `1.0` is a float and
no integer, a text may or may not be a number. `at` is the place of the command, `cause` why it refused or
failed. `Begin` is what `run` still refuses once a Recipe is chosen: options that do not go with its
runtime, and a lock file or a registry with another revision. `MaxSafe` stands for 2^53 - 1. The host
(commands, files, variables) may change once; `validate` remembers in `valid` that nothing was wrong and
nothing has changed since.

A command of the host is what it prints (`CommandAnswers`): the x.y.z that stand in the output, in their
order, each with what follows it (a prerelease or nothing) and whether it stands free or is glued to a
word. `whole` are the answers to `--version`, `version` and `-version` in the whole environment, which
`validate` takes the first readable one of (manifest/host.go:34); `minimal` is the answer to `--version` in
`minimalEnvironment`, of which preflight takes the first that stands free (execution/validate.go:412). Any
relation between them is allowed; that another PATH finds another file of that name is one of them. Numbers
above `MaxInt`, which stands for 2^63 - 1, do not parse, and `After` wraps as the int64 above a caret does.
A condition that does not parse ends the comparison of `validate` as if it held (host.go:147) and is refused
by the Run. `FirstOf` keeps preflight's order: each command with its version, then the variables, then the
files, then the shells of the Steps; only the first fault is reported. Left out are a Step's
`condition`, which nothing in the code reads, the `env` of a Recipe that replaces PATH for its scripts, and
the variables of minimalEnvironment one by one.

**Environment.** Disk, index and coordinator failures, SIGINT and crashes happen at any step, counted by
`diskFaults`, `indexFaults`, `remoteFaults`, `cancels`, `crashes` (in the other modules `faults`, `stops`,
`MaxTroubles`) up to a bound each. A callback whose context is done fails without being counted, and one
that fails may have taken effect all the same.

## 3. Runs

| Run | Instance | Shows |
| --- | --- | --- |
| `publish` | 2 processes offered 1 Run id, local or shared, 2 Steps, 2 refusals, Ctrl-C, crash | SingleWriter, ScriptIsAnnounced, GapOnlyBeforeFailure, SealedOnReturn; CancelEnds (liveness) |
| `record` | 1 Execute, 1 reader, 2 Steps, 1 disk, 2 index and 2 coordinator failures, Ctrl-C, crash | `RunExecution` implements `RunRecord` (`ImplementsRecord`); OutcomeIsQueued |
| `unsealed` | 1 Execute, 1 failing append | finding: SealedOnReturn is violated |
| `follow` | 1 Run with 1 Step, detached or not, 1 follower, 1 failure of any kind: an append that is clean, torn or written after all, a statement, Ctrl-C, a crash | IndexNeverContradicts, TerminalIsFinal, FollowShowsAll; FollowEnds (liveness) |
| `flush` | 1 local Execute, 2 flushing commands, an append that fails or fails after the write, lost answer, SQLite failure, crash | TakenIsComplete, QueuedUntilTaken |
| `drain` | 1 Execute, 1 command again and again, a refusal, a SQLite failure | OutboxDrains (liveness) |
| `replace` | 1 Next, 1 submission, 1 message, 2 failures, a context that ends, Close | NoStrayConnection, NothingMissed; submissions implement `ShareLog` (`ImplementsLog`) |
| `await` | 1 goroutine that waits and submits, 2 messages, 1 failure, Close | MessageArrives, SubmissionReturns, CloseEndsCalls (liveness) |
| `share` | 1 `share`, 1 node that may attach twice, 2 artifacts, 2 failures, Ctrl-C | ExpiryIsTrue, SuccessIsShared, ReturnsAreStored, OneExecutor, OutcomeIsShared; RequestIsTaken (liveness) |
| `node` | 1 Share sent to the background, 1 Space Request with a manual Recipe, channel of 1, 1 failure, Ctrl-C | ReviewedBeforeRun, RunsOnce, ClaimsAreHeld; RequestIsTaken, StopEnds (liveness) |
| `workspace` | 2 processes, 3 commands, 2 servers, 2 failures or crashes, trees with two digests of one version | TokenGoesHome, ScopeGoesHome, SuccessHolds, PinsAreBacked, PinsAreKept |
| `prepare` | a Capability and a Recipe, right or with one of about a hundred things wrong or unusual, 16 hosts, 1 change of the host | StaticErrorsAreCaught, ReadyRuns, ContractIsMet, VersionIsMet |

**Bounds.** One process owns a Run, so one Execute, one Run and a reader meet every interaction about that
Run; a second process with the same id adds the competition for its directory. Two Steps reach every place
of the loop with a Step before and after it. Two refusals are needed for the refusal of the closing event
after the refusal of an earlier one, two SQLite failures for the failure of indexRun's retry; a third
failure finds the process at its end. In `record` one append and two statements that fail reach the three
cases OutcomeIsQueued distinguishes: no failure, one, and one too many; that a closing line is torn, or on
disk although its append failed, is left to the theorem. In `follow` one failure is enough for the follower
to meet each way a Run can be left. Deadlock is not checked where every process or command ends (`CHECK_DEADLOCK FALSE`); in
`RunSync` commands go on for ever and it is.

In `ShareChannel` a behaviour has at most 1 + disturbances + closes connections, since each further one
answers one of these (`Conns`). Two failures break a connection and the one that replaces it, or break one
and refuse the recovery. The inbound buffer is 64 in the code; 1 makes it fill up (`replace`), and in the
liveness run it holds all the messages of the Share, because a Share has two and Next is not called while a
Run executes. Callers may be idle for good, so deadlock is not checked; SubmissionReturns and CloseEndsCalls
say that no call is stuck.

In `NodeUp` two items for a channel of one slot (16 in the code) make the channel fill up, a watcher block
on it, the producer give a claim back and the main loop put a job aside; one failure suffices for each error
path and, with Ctrl-C, for two errors to meet in producerErr. The Share and the Request go different ways
everywhere but in the channel, so one of each is enough. In `ShareSession` a node that attaches twice meets
what its own earlier watcher left as well as what `share` does; two artifacts have one stored and one not.

In `Workspace` three commands in two processes are a command that reads, one that changes what was read in
between, and a third that meets what both left; the pairs of commands each process may run are in
`MCWorkspace`, chosen so that every two commands that share a file meet. In `Preparation` documents differ
from right ones in one thing, since the checks look at one thing each; `MCPreparation` lists them.
Versions and conditions have numbers up to 3 with `MaxInt` = 2: 0.1.1, 0.2.0 and 1.0.0 are on either side of
every operator, 3 does not parse, and 2 is where the upper bound of a caret wraps. Hosts print nothing, one
version, a prerelease, a glued one, two in one answer, the version in answer to another question, and
another one in the other environment.

**Findings.** `unsealed` is the one text of the repository a run contradicts: `sealAfterError` is said to
guarantee that the index leaves "running" (execution/runner.go:218). The status is set before the terminal
event is emitted, so if that emit cannot append, the status is already terminal, nothing is sealed and the
row says "running" for ever.

The models show or the reading met more, without a run of its own, because no text claims the contrary, or
only a reading of it does, or because it takes no model to see:
- *A Step's condition is ignored.* The schema of Recipes says that a Step "is skipped when it evaluates to
  false" (`src/schemas/recipe.schema.json:169`). The condition is decoded (`manifest/model.go:315`) and
  nothing reads it: runShell executes every Step (`execution/runner.go:275`), and so does the model.
- *A stale import.* Backfill's Upsert (`runindex/backfill.go:60`) overwrites a row written since it looked.
  What it read may be the Run as it was, and a finished Run shows "running" again; FollowEnds names the Runs
  it may leave so. Or it read the outcome, and the row of a queued Run says `none` instead of `pending`
  (`:95`); the outbox has its own table and still delivers it, which is what OutcomeIsQueued and
  TakenIsComplete look at.
- *A Run sent without an outcome.* When the closing event could not be appended, `fail` and `interrupt`
  queue the Run all the same (`execution/runner.go`, reseal), and the Space takes a trail that is not
  closed. TakenIsComplete says so.
- *A stuck root.* After a crash between mkdir and run.json every later Open of the index fails
  (`backfill.go:57`), so the outbox never drains; in a healthy root the same line makes `runs list` fail
  while another `run` is at that place. `drain` has no crash for that reason.
- *Two readers of the terminal.* A background Run that asks for manual outputs reads the terminal beside the
  main loop (`command/listen.go:423`), and a line typed for it can approve the next Request. `node`
  therefore keeps manual Recipes out of the background, and the theorem about review assumes it (`Manual
  \cap Backgrounded = {}`).
- *A follow that meets a temporary file.* When the events name no log yet, Logs lists the directory,
  `.doppels-tmp-*` included, and a follow of a healthy Run ends "operational" (`runstate/read.go:123-148`).
- *Next and a submission in two goroutines* (set `Waiters = {w}`, `Submitters = {s}` in `await`):
  MessageArrives fails. Next looks at the recoveries, gives back reconnectMu and only then reads the current
  connection, and a reconnection in between queues its recovery behind that look; or the submission meets
  the broken connection first, by a failing write, and closes it without a failure value, so a waiting Next
  is not woken. The commands call both from one goroutine in turn.
- *A send on a closed channel.* In `NodeUp` the producer closes the jobs channel after a failing poll while
  watchers live on; a Request that arrives before the main loop has returned ends the process in a panic
  (`SendOnClosed`).
- *Ctrl-C at the decision prompt* takes effect only once the operator has answered, for each job put aside.
- *run_interrupted is not delivered.* It is submitted with the context that was cancelled
  (`execution/runner.go:171`, `shareclient/phoenix.go:404`), so the coordinator keeps an unfinished Run;
  apps/cli/README.md speaks of durably acknowledged RunEvents.
- *login with no personal Organization* leaves the old Context (`command/auth.go:246-264`, "Always resets
  Context").
- *apply, space use, publish* read the Context and the Session separately; a login in between gives one of
  each server. ScopeGoesHome is stated without overlap.
- *Two overlapping applies* verify against one lock and both commit (`projectlock/lock.go:90`): the bytes of
  a pinned version may change. PinsAreKept is stated without overlap.
- *A fork that failed after its first file* can never be completed: the file it left is in the way.
- *`default: 1.0` for an integer* passes loading and is refused by the Run (StaticErrorsAreCaught names it).
- *validate and the Run ask for versions differently.* `validate` asks in the whole environment, `--version`,
  `version` and `-version` in turn, and takes a version anywhere in the answer (glued to a word, too);
  preflight asks `--version` in `minimalEnvironment` and takes the first that stands free. A condition with
  a number too large for an int64 is ignored by `validate` (`manifest/host.go:147`) and refused by the Run.
  ReadyRuns names these four. The comment at `manifest/host.go:67` says requirements are checked although a
  Recipe without `requires` is not.
- *A prerelease counts as its release.* Both parsers drop what follows the three numbers
  (`execution/validate.go:438`), so `>=1.2.0` takes 1.2.0-rc.1; and the first free version in the output
  need not be the command's own. VersionIsMet names the first and is about the number printed.
- *Two outputs that share one file product* and differ in media type succeed or fail with the order of a Go
  map (`execution/result.go:96`).
- *Nested discovery roots* list a manifest twice, which is then a duplicate revision (`project.go:191`).
- *An ambiguous Recipe* of a Space Request is refused although the same choice at a Share may be made by the
  operator (`resolveSpaceListenFulfillment`).
- *A timeout* that matches its pattern may overflow time.ParseDuration.

**Fairness.** `Progress(p)`: a process that is not at rest takes its next step, unless it waits for a person
(`approve` and `manual` read the terminal and ignore the context) or for a script whose context is not done
(when it is, `exec.CommandContext` kills the process group). `Indexing(p)`: a SQL statement returns. Both
are weak fairness of a running process; none is assumed of failures, cancellations, crashes or of starting
another Execute. `SyncFairness` adds that somebody keeps running commands (List) and that a command that may
flush does so again and again: strong fairness of `FlushList`, because the commands that do not flush
disable it in between. `FollowSpec` adds weak fairness of the statements, of a Run, of its launch and of the
follower, each a running process. In `ShareChannel` each goroutine that can go on does (callers, readers, a
heartbeat on a dead socket), and the coordinator handles what reaches it on a socket that is up; no failure,
message or call is owed to anyone. `AwaitSpec` adds that Next is called again, as the loop of
awaitSharedRequest does. In `ShareSession` each runner goes on (`Wait`, `TimerFires`, `Execute`) and the
deadline comes (`Expire`); that a broadcast arrives is not assumed, which is what the query at the deadline
is for. In `NodeUp` each goroutine goes on, polls are repeated by the ticker, a Run ends (a cancelled one
because its process group is killed), and the operator answers what is asked; no Request, decision, failure
or Ctrl-C is owed to anyone. `Workspace` and `Preparation` have no liveness property and no fairness.

## 4. Proofs

Each theorem holds for all values of the constants of its module: any number of processes, Runs, Steps,
connections, items, failures.

| Module | Theorem | States | Means |
| --- | --- | --- | --- |
| `RunExecution_proofs` | `TypeCorrect` | `[]TypeOK` | every place, status, event, row and line stays in its set |
| | `OneWriter` | `[]SingleWriter` | a Run directory has one process that writes it |
| | `TrailIsFinal` | `TerminalIsFinal` | after a terminal event events.jsonl never changes |
| | `IndexAgrees` | `[]IndexNeverContradicts` | a row never shows another outcome than the trail |
| `RunRefinement_proofs` | `GapEndsTheRun` | `[]GapOnlyBeforeFailure` | the coordinator's numbers follow one another but before a closing run_failed |
| | `NoSilentScript` | `[]ScriptIsAnnounced` | a script runs only when its step_started is on disk and at the coordinator |
| | `RecordIsImplemented` | `ImplementsRecord` | if failing appends leave nothing behind, each step is one of `RunRecord` or a stutter |
| | `OutcomesAreQueued` | `[]OutcomeIsQueued` under `[][Unbroken]_vars` | a Run that ended is in the outbox when Execute returns, unless named failures kept it out |
| | `ReturnsAreSealed` | `[](indexFaults = 0 /\ diskFaults = 0 => SealedOnReturn)` | a returned Execute leaves no row at "running", if no import is stale and Backfill meets no Run being set up |
| | `FailuresAreSealed` | `[](indexFaults = 0 => FailureIsSealed)` | a Run that failed or was interrupted is indexed as that, appends failing or not |
| `RunReaders_proofs` | `QueueIsKept` | `QueuedUntilTaken` | a row leaves the outbox only for a Run the Space has |
| | `WholeRunsAreSent` | `[]TakenIsComplete` | the Space gets a Run as its trail stays, closed unless the disk failed |
| | `FollowIsComplete` | `[]FollowShowsAll` | `runs logs -f` that ends of itself has shown every log the Run's events name |
| | `FollowIndexAgrees` | `[]IndexNeverContradicts` | with launches and followers, too, a row shows no other outcome than the trail |
| | `FollowTrailIsFinal` | `TerminalIsFinal` | and a closed trail stays as it is |
| `ShareChannel_proofs` | `LogIsImplemented` | `ImplementsLog` | submissions are recorded at most once, in order, and confirmed only then |
| | `StrayIsClosed` | `[]NoStrayConnection` | besides the current connection only the one being set up is open |
| | `MessagesAreKept` | `[]NothingMissed` | no message of a Share falls between two connections |
| `ShareSession_proofs` | `TypeCorrect` | `[]TypeOK` | every variable stays in its set |
| | `OnlyOneExecutes` | `[]OneExecutor` | one command at most starts scripts for a Request |
| | `NothingIsMissing` | `[]ReturnsAreStored` | run_succeeded has every artifact with its bytes |
| | `SuccessIsReal` | `[]SuccessIsShared` | an exit with success means a whole trail at the coordinator |
| | `ExpiryIsReal` | `[]ExpiryIsTrue` | an expiry is reported only if there is no Request |
| | `GuestSeesTheTrail` | `[]OutcomeIsShared` | without failures both sides end with the same events |
| `NodeUp_proofs` | `CarriedOutOnce` | `[]RunsOnce` | a Request is carried out at most once |
| | `NothingIsForgotten` | `[]ClaimsAreHeld` | a claimed item is somewhere |
| | `NothingUnreviewed` | `[]ReviewedBeforeRun` | nothing runs unreviewed, if `Manual \cap Backgrounded = {}` |
| `Workspace_proofs` | `TokensGoHome` | `[]TokenGoesHome` | a token is sent to the server that issued it only |
| | `ScopesGoHome` | `[]ScopeGoesHome` | a Context goes to the server it was chosen on while commands do not overlap |
| | `LockIsBacked` | `[]PinsAreBacked` | the lock pins what a registry accepted |
| | `LockIsKept` | `PinsAreKept` | pinned bytes never change while applies do not overlap |
| | `SuccessIsComplete` | `[]SuccessHolds` | a command that reports success has done all of what it reports while commands do not overlap |
| `Preparation_proofs` | `PreparationIsInductive` | `[]PreparationInv` | what loading found, the choices, the products and the reasons hold together at every step |
| | `StaticErrorsStayAway` | `[]StaticErrorsAreCaught` | what loading has checked never fails a Run |
| | `ReadyHostsServe` | `[]ReadyRuns` | a host `validate` found ready passes preflight, but for what the two ask differently |
| | `ContractIsKept` | `[]ContractIsMet` | inputs and outputs of a Run are those its Capability declares |
| | `VersionsAreMet` | `[]VersionIsMet` | no script runs before each command has printed a free version its constraint allows, prereleases named |

They rest on the named assumptions about constants (`RunExecutionAssumption`, `RunStoreAssumption`,
`ShareChannelAssumption`, `ShareSessionAssumption`, `NodeUpAssumption` and so on), which say that sets of
actors and special values are disjoint and bounds are naturals. `ManifestAssumption` and
`PreparationAssumption` say besides that documents and values have the shape the decoder gives them; nothing
is assumed of their content. TLC evaluates all of them on the runs.

**`RunExecution_proofs`.** None of the properties is inductive. That nothing follows a terminal event holds
because the process that wrote it is on its way out, which no trail tells. The invariant `IInv` ties them
together:
- `ExecutorPlaced`, `ReaderOK`: where each kind of process may be, what `next` holds inside emit, and that
  indexRun returns to a caller that exists;
- `StatusPlaced`: the status in memory leaves "running" exactly when the closing event is about to be
  written, and agrees with that event until the process ends;
- `Owned`: a directory exists exactly if one executor holds it, and an absent one has no trail, row or
  queued entry;
- `StatusWritten`: an open trail before every append; a closed trail, an outcome in the row and a queued
  entry all agree with the status the owner holds;
- `FoundTrue`: a record Backfill built is stale only in saying "running", since trails change only while
  they are open.

One lemma `...Type` per action preserves the types, one lemma `...Keeps` per action the rest. `QuietKeeps`
treats all steps that leave trails, rows, outbox and directories alone, `RowKeeps` those that write a row;
`AppendedTrail` is the heart: an append happens only to an open trail, by its owner, and closes it with the
status the owner holds. `StatusFromEvents` chooses a maximum; that it exists is proved from the
well-foundedness of the naturals.

**`RunRefinement_proofs`**, in three parts on top of `IInv`.

*The coordinator.* `PublishInv` says that as long as the Run is open, the number in memory, the number of
the last line and the last number the coordinator has agree at each place of emit, and follows a
step_started from the trail to the coordinator to the script. No assumption about failing appends is needed:
a torn or repeated line makes the emit fail, and what follows is the closing run_failed.

*The abstract record.* `RecordInv` says what the last event and the Step count are at each place, so that
each append is one the grammar of `RunRecord` allows. One lemma per kind of abstract step (`AppendRefines`,
`AcceptRefines`, `ClaimRefines`, `RowRefines`) is put together in `NextRefines`. Here appends that leave
something behind are excluded by an assumption (`AppendFaults \subseteq {"clean"}`): with a repeated line
the trail does not follow the grammar, and `runstate.Load` rejects the Run.

*How the index ends.* What Backfill reads may be anything the trail has said, an outcome included, since the
Run goes on between its query and its reading; but an outcome it imports is that of a closed trail
(`FoundTrue`). `QueueInv` therefore starts from the trail as well as from the row: once either has an
outcome, the process of the Run is on its way to the index, or the Run is in the outbox, from where only a
flush takes it. fail and interrupt go to the index twice, once inside emit and once by `reseal`, so that a
single failure does not lose the Run; success and cancellation go there once, and OutcomeIsQueued names what
that costs. One thing is assumed, `[][Unbroken]_vars`: the Backfill inside indexRun of an executing process
meets no directory without run.json, which would end it before its own row each time (the stuck root
above). The faults are not assumed away, they are part of the property. `SealInv` follows the outcome from
the emit that sets it: either the index was told (`Told`), or the append of run_succeeded or run_cancelled
failed (`Lost`), which is the finding `unsealed`; run_failed and run_interrupted go on to the index. What is
told stays told only if no import is stale, and indexRun gets as far as its own row only if Backfill meets
no directory without run.json. These two are races with other processes that the code does not exclude (see
the findings), so `ReturnsAreSealed` and `FailuresAreSealed` assume them away by name: `[][Apart]_vars`.
`Way` sums up what each step does to the process that takes it, in the places and statuses that all three
invariants speak of.

**`RunReaders_proofs`**, about the commands beside Execute.

*Flushing.* `SyncInv`: an id of the outbox means the same Run in the table and in every copy a command
holds, ids are not given out twice, and a command that is about to delete has had its Run taken; so a
deletion by id never hits the row of another Run. `SentInv`: a Run that was ever queued is settled, which
means that its process has its outcome and is past its last append, and that the trail has a closing line
unless the disk failed. `BodyInv`: what a command has loaded, and what the Space took, is the trail of the
Run as it is; a settled trail cannot move away from it any more.

*Following.* `FollowInv`: once an outcome can be read anywhere, in the trail or in the index, the process of
the Run is past its last append (`Ended`); so a follower that has read an outcome, from the one or the
other, has the paths of all logs there will ever be, and one that ends well has shown them. The index may be
ahead of the trail when an append failed, which is why both have to be traced to the process. `RunFollow`
has two steps of its own that `Next` does not have, a failure that is only counted and a command that gives
up; each lemma about steps treats them beside those of `Next`.

**`ShareChannel_proofs`.** `LogInv`: all frames and retries of one submission carry one envelope, whichever
connection they travel on; a call that is open in `ShareLog` is being made; a confirmation on its way is of
a recorded envelope. `Quiet` steps change none of this. `StrayInv`: at which places a caller holds
reconnectMu and a connection, and that every older connection is closed. `MissInv`: the current connection
is joined, and the one being set up is to get, by its join or by Pending, what no earlier one told; each
step either moves a message along its way (`Flows`) or leaves it (`Stays`).

**`ShareSession_proofs`.** `IInv` ties the place of each runner to what the coordinator has recorded of it:
only the owner of the recorded Run is beyond `publish`, started scripts or uploaded (`RunOwned`); inside a
Step the events are as many as the lines of its trail (`TrailPlaced`); what it uploaded is stored as
collected (`UploadsStored`); and run_succeeded is the last thing it submits (`SuccessIsLast`).

**`NodeUp_proofs`.** Each item is in one place at most (watcher, channel, put aside, being decided, carried
out), a claim is held exactly there, and what was executed had a decision first.

**`Workspace_proofs`.** `Home` says of every file and every copy a process holds that a token has its own
server's name beside it. `ScopeInv` says of the one command that is running where its Context and its draft
of the profile fit `--server`, where the profile, and where a server is still to be named by the Session; a
Context of a Cloud Organization without a server fits nowhere, which is what makes the invariant inductive
across the first login. The invariant for apply says of every place between verification and commit what
has been accepted and what the temporary file holds, and uses that without overlap the lock is the one that
was verified. `DoneInv` says of every place what the command has done by then (logged in at its server,
written its Context, forked the first file), so that a report of success finds all of it done; another
command that is not at rest could undo it, which is why success is stated without overlap.

**`Preparation_proofs`.** `PreparationInv` carries what loading has found from the tree to the end of the
Run. The Capability and the Recipe are documents of the tree (`Choices`), hence valid. `Passed`: beyond
preflight the host has what the Recipe requires, since it does not change during a Run. `Production`: the
products are those of the first Steps, as many as are done, each with what its Step declares, so a reference
that loading resolved finds its product; that identities of Steps are distinct makes their number the place
in the list. `Returning` and `Resolved` say of outputs and inputs that each has been converted to its
declared type, and the conversions are shown to give values of that type and to leave such values alone.
`Failures` and `Refusals` keep, for each cause the Run may end with, the condition it stands for: the
properties then compare that condition with what loading or `validate` has checked. `NoFirstNone` says that
a preflight that reports nothing found nothing (the least entry exists because the naturals are well
founded). `AskedAlike`: but for the four differences, `validate` and preflight compare the same version with
the same conditions. `SatisfiedAllows` compares the code's upper bounds, wrapping included, with what a
condition means number by number.

**Only model-checked.** Liveness (CancelEnds, FollowEnds, OutboxDrains, MessageArrives, CloseEndsCalls,
SubmissionReturns, RequestIsTaken, StopEnds) and everything with ENABLED, which TLAPS does not reach. Each
safety property of a run is the subject of a theorem; SealedOnReturn and OutcomeIsQueued, which are false in
general, under the hypotheses named in the table. No module has a RECURSIVE operator. What a recursive
definition computes for every input could not be proved, as the library's induction theorems take an
operator for a parameter, which the provers cannot instantiate.

Type invariants are in the modules to document the range of every variable; those of `RunExecution` and
`ShareSession` are theorems, and `NodeUp`'s is a part of its `IInv`.

## 5. Not modelled, and what is left

- `command/listen_local.go` and `command/listen_scope.go` choose a local project and a scope for `node up`
  and print them; what they choose is an input of `NodeUp`.
- `execution/logcap.go` and redaction work on bytes; `reference.go` digests them. A model would be the code
  again.
- Rendering, timelines, flag parsing and self-update keep no state the other parts read.
- How a project root is found from a working directory; HTTP encoding and paging. The Space, the coordinator
  and the control plane are external.

The next steps would be a composition of `ShareSession` with `RunExecution` below its callbacks, the type
invariants of the modules where the theorems do without them, and a proof that a followed or flushed Run
still implements `RunRecord`.

## 6. Running it

    tlc -config MCRunExecution_publish.cfg MCRunExecution
    tlapm RunExecution_proofs.tla

The longest runs are `flush`, `node` and `workspace`, about two minutes or more each; each proof module
takes one to three minutes.
