---------------------------- MODULE RunExecution ----------------------------
(***************************************************************************)
(* execution.Execute: one process of the CLI carries one Run from the      *)
(* reservation of its directory to a terminal status, recording every      *)
(* RunEvent in events.jsonl, its status in the index and, for a shared     *)
(* Run, both at the coordinator.  Other processes list the index, which    *)
(* imports the Runs the index does not have yet.                           *)
(*                                                                         *)
(* pc is the place of a process in the code, one step of a process is one  *)
(* system call, SQL statement or callback.  Failures of the disk and of    *)
(* SQLite, refusals of the coordinator, Ctrl-C and crashes happen at any   *)
(* of them, within the bounds MaxDiskFaults, MaxIndexFaults,               *)
(* MaxRemoteFaults, MaxCancels and MaxCrashes.                             *)
(***************************************************************************)
EXTENDS RunStore

CONSTANTS
  Executors,        (* processes that run Execute                           *)
  Readers,          (* processes that only open and list the index          *)
  NumSteps,         (* Steps of the shell Recipe                            *)
  MaxDiskFaults,    (* failing writes below .doppels/runs in a behaviour    *)
  MaxIndexFaults,   (* failing statements on runs.db in a behaviour         *)
  MaxRemoteFaults,  (* failures of coordinator callbacks in a behaviour     *)
  MaxCancels,       (* processes that get SIGINT in a behaviour             *)
  MaxCrashes,       (* processes that die in a behaviour                    *)
  SharedModes,      (* may a Run be local (FALSE), shared (TRUE), or either *)
  NoRun             (* no Run chosen yet                                    *)

ASSUME RunExecutionAssumption ==
  /\ Executors \cap Readers = {}
  /\ NumSteps \in Nat \ {0}
  /\ MaxDiskFaults \in Nat
  /\ MaxIndexFaults \in Nat
  /\ MaxRemoteFaults \in Nat
  /\ MaxCancels \in Nat
  /\ MaxCrashes \in Nat
  /\ SharedModes \subseteq BOOLEAN
  /\ NoRun \notin Runs

Procs == Executors \union Readers

VARIABLES
  pc,          (* where the process is                                      *)
  run,         (* the Run the process executes                              *)
  shared,      (* OnRun, OnEvent and BeforeSuccess are set                  *)
  status,      (* r.result.Status                                           *)
  seq,         (* r.sequence                                                *)
  ev,          (* type of the RunEvent being emitted                        *)
  next,        (* where emit returns to when it succeeds                    *)
  caller,      (* who called indexRun or Open                               *)
  step,        (* Step being processed                                      *)
  scan,        (* directories Backfill has listed and not visited yet       *)
  found,       (* Run Backfill found no row of, status it read from disk    *)
  cancelled,   (* r.ctx is done                                             *)
  remoteRun,   (* Runs the coordinator accepted (SubmitRun)                 *)
  remote,      (* RunEvents the coordinator accepted (SubmitRunEvent)       *)
  diskFaults, indexFaults, remoteFaults, cancels, crashes

procVars  == <<pc, run, shared, status, seq, ev, next, caller, step, scan, found, cancelled>>
remoteVars == <<remoteRun, remote>>
faultVars == <<diskFaults, indexFaults, remoteFaults, cancels, crashes>>
vars == <<storeVars, procVars, remoteVars, faultVars>>

Resting == {"idle", "refused", "returned", "crashed"}

Locations == Resting \union
  {"request", "record", "open", "backfill", "read", "import", "upsert", "enqueue", "mark",
   "publishRun", "append", "publish", "preflight", "fulfill", "manual", "step", "approve", "cancel",
   "prepare", "execute", "returns", "failing", "interrupting", "sealing", "listed",
   "listFailed"}

Callers == {"initialize", "emit", "reseal", "manual", "list"}

TypeOK ==
  /\ StoreTypeOK
  /\ pc \in [Procs -> Locations]
  /\ run \in [Procs -> Runs \union {NoRun}]
  /\ shared \in [Procs -> BOOLEAN]
  /\ status \in [Procs -> RunStatuses]
  /\ seq \in [Procs -> Nat]
  /\ ev \in [Procs -> EventTypes]
  /\ next \in [Procs -> Locations]
  /\ caller \in [Procs -> Callers]
  /\ step \in [Procs -> Nat]
  /\ scan \in [Procs -> SUBSET Runs]
  /\ found \in [Procs -> [run : Runs \union {NoRun}, status : RunStatuses]]
  /\ cancelled \in [Procs -> BOOLEAN]
  /\ remoteRun \subseteq Runs
  /\ remote \in [Runs -> Seq(Line)]
  /\ {diskFaults, indexFaults, remoteFaults, cancels, crashes} \subseteq Nat

Init ==
  /\ StoreInit
  /\ pc = [p \in Procs |-> "idle"]
  /\ run = [p \in Procs |-> NoRun]
  /\ shared = [p \in Procs |-> FALSE]
  /\ status = [p \in Procs |-> "running"]
  /\ seq = [p \in Procs |-> 0]
  /\ ev = [p \in Procs |-> "run_created"]
  /\ next = [p \in Procs |-> "idle"]
  /\ caller = [p \in Procs |-> "initialize"]
  /\ step = [p \in Procs |-> 1]
  /\ scan = [p \in Procs |-> {}]
  /\ found = [p \in Procs |-> [run |-> NoRun, status |-> "running"]]
  /\ cancelled = [p \in Procs |-> FALSE]
  /\ remoteRun = {}
  /\ remote = [r \in Runs |-> << >>]
  /\ diskFaults = 0 /\ indexFaults = 0 /\ remoteFaults = 0
  /\ cancels = 0 /\ crashes = 0

-----------------------------------------------------------------------------
(* Control *)

Goto(p, l) == pc' = [pc EXCEPT ![p] = l]

DiskFault ==
  /\ diskFaults < MaxDiskFaults
  /\ diskFaults' = diskFaults + 1
  /\ UNCHANGED <<indexFaults, remoteFaults, cancels, crashes>>

(* SQLITE_BUSY among others: the connections set no busy timeout.          *)
IndexFault ==
  /\ indexFaults < MaxIndexFaults
  /\ indexFaults' = indexFaults + 1
  /\ UNCHANGED <<diskFaults, remoteFaults, cancels, crashes>>

(* A callback of the coordinator fails: always once r.ctx is done.         *)
RemoteFault(p) ==
  \/ cancelled[p] /\ UNCHANGED faultVars
  \/ /\ ~cancelled[p]
     /\ remoteFaults < MaxRemoteFaults
     /\ remoteFaults' = remoteFaults + 1
     /\ UNCHANGED <<diskFaults, indexFaults, cancels, crashes>>

(* Start of emit(eventType); execution resumes at l once it succeeds.      *)
Emit(p, e, l) ==
  /\ ev' = [ev EXCEPT ![p] = e]
  /\ next' = [next EXCEPT ![p] = l]
  /\ Goto(p, "append")

(* Start of indexRun(status, enqueueOutbox) on behalf of c.                *)
IndexRun(p, c) ==
  /\ caller' = [caller EXCEPT ![p] = c]
  /\ Goto(p, "open")

(* A step of Execute between emits, which only moves the process.          *)
Local(p, l) ==
  /\ Goto(p, l)
  /\ UNCHANGED <<storeVars, run, shared, status, seq, ev, next, caller, step, scan,
                 found, cancelled, remoteVars, faultVars>>

(* A step of Execute that starts an emit.                                  *)
Announce(p, e, l) ==
  /\ Emit(p, e, l)
  /\ UNCHANGED <<storeVars, run, shared, status, seq, caller, step, scan, found, cancelled,
                 remoteVars, faultVars>>

(* A step of Execute that sets r.result.Status and emits the terminal event. *)
Conclude(p, s, e) ==
  /\ status' = [status EXCEPT ![p] = s]
  /\ Emit(p, e, "returned")
  /\ UNCHANGED <<storeVars, run, shared, seq, caller, step, scan, found, cancelled,
                 remoteVars, faultVars>>

(* Mutant: a succeeded Run does not count as ended.                         *)
SucceededNotTerminal(s) == s \in {"failed", "cancelled", "interrupted", "pending_manual"}

isTerminalStatus(s) == s \in Outcomes \union {"pending_manual"}

-----------------------------------------------------------------------------
(* Start of Execute *)

(* Mutant: MkdirAll takes over a directory that is there.                   *)
ReserveExisting(p, r) ==
  /\ pc[p] = "idle"
  /\ dir' = [dir EXCEPT ![r] = "reserved"]
  /\ run' = [run EXCEPT ![p] = r]
  /\ \E s \in SharedModes : shared' = [shared EXCEPT ![p] = s]
  /\ Goto(p, "request")
  /\ UNCHANGED <<journal, row, sync, outbox, nextRow, status, seq, ev, next, caller,
                 step, scan, found, cancelled, remoteVars, faultVars>>

(* localstate.Open: Mkdir of the Run's directory is exclusive.  The id is   *)
(* new or was given by the caller, so it may be one already used.           *)
Reserve(p, r) ==
  /\ pc[p] = "idle"
  /\ dir[r] = "absent"
  /\ dir' = [dir EXCEPT ![r] = "reserved"]
  /\ run' = [run EXCEPT ![p] = r]
  /\ \E s \in SharedModes : shared' = [shared EXCEPT ![p] = s]
  /\ Goto(p, "request")
  /\ UNCHANGED <<journal, row, sync, outbox, nextRow, status, seq, ev, next, caller,
                 step, scan, found, cancelled, remoteVars, faultVars>>

Refuse(p, r) ==
  /\ pc[p] = "idle"
  /\ dir[r] # "absent"
  /\ Local(p, "refused")

(* initialize writes request.json, then run.json, each by rename; when one  *)
(* cannot be written Execute returns the error as it is.                    *)
WriteDocument(p, from, after) ==
  \/ /\ dir' = [dir EXCEPT ![run[p]] = after]
     /\ IF from = "request"
        THEN Goto(p, "record") /\ UNCHANGED caller
        ELSE IndexRun(p, "initialize")
     /\ UNCHANGED faultVars
  \/ /\ DiskFault
     /\ Goto(p, "returned")
     /\ UNCHANGED <<dir, caller>>

WriteRequest(p) ==
  /\ pc[p] = "request"
  /\ WriteDocument(p, "request", "requested")
  /\ UNCHANGED <<journal, row, sync, outbox, nextRow, run, shared, status, seq, ev,
                 next, step, scan, found, cancelled, remoteVars>>

WriteRun(p) ==
  /\ pc[p] = "record"
  /\ WriteDocument(p, "record", "complete")
  /\ UNCHANGED <<journal, row, sync, outbox, nextRow, run, shared, status, seq, ev,
                 next, step, scan, found, cancelled, remoteVars>>

-----------------------------------------------------------------------------
(* indexRun: Open with its Backfill, Upsert, EnqueueOutbox *)

(* Mutant: a rejected event is recorded again under the next number.        *)
EmitAgain(p) == Goto(p, "append") /\ UNCHANGED caller

(* emit gave up on the event: fail and interrupt try the index once more,   *)
(* every other caller goes through sealAfterError.                          *)
EmitFails(p) ==
  IF ev[p] \in {"run_failed", "run_interrupted"}
  THEN IndexRun(p, "reseal")
  ELSE Goto(p, "sealing") /\ UNCHANGED caller

IndexFails(p) ==
  \/ caller[p] = "emit" /\ EmitFails(p)
  \/ caller[p] = "list" /\ Goto(p, "listFailed") /\ UNCHANGED caller
  \/ caller[p] \in {"initialize", "reseal", "manual"} /\ Goto(p, "returned") /\ UNCHANGED caller

IndexDone(p) ==
  Goto(p, CASE caller[p] = "initialize" -> "publishRun"
            [] caller[p] = "emit" -> "publish"
            [] OTHER -> "returned")

(* sql.Open, the schema, and ReadDir of .doppels/runs at the start of Backfill. *)
OpenIndex(p) ==
  /\ pc[p] = "open"
  /\ \/ /\ scan' = [scan EXCEPT ![p] = {r \in Runs : dir[r] # "absent"}]
        /\ Goto(p, "backfill")
        /\ UNCHANGED <<caller, faultVars>>
     \/ /\ IndexFault
        /\ IndexFails(p)
        /\ UNCHANGED scan
  /\ UNCHANGED <<storeVars, run, shared, status, seq, ev, next, step, found, cancelled,
                 remoteVars>>

(* One directory of Backfill: the SELECT of its row.                        *)
BackfillLookup(p, r) ==
  /\ pc[p] = "backfill"
  /\ r \in scan[p]
  /\ scan' = [scan EXCEPT ![p] = @ \ {r}]
  /\ \/ row[r] # "absent" /\ UNCHANGED <<pc, caller, found, faultVars>>
     \/ /\ row[r] = "absent"
        /\ found' = [found EXCEPT ![p].run = r]
        /\ Goto(p, "read")
        /\ UNCHANGED <<caller, faultVars>>
     \/ IndexFault /\ IndexFails(p) /\ UNCHANGED found
  /\ UNCHANGED <<storeVars, run, shared, status, seq, ev, next, step, cancelled, remoteVars>>

(* The record is read from run.json and events.jsonl, which the process of  *)
(* the Run may have closed, and its row written, since the row was looked   *)
(* up.  Once run.json is there it stays as it is, so that its reading and   *)
(* that of events.jsonl are one step.                                       *)
BackfillRead(p) ==
  /\ pc[p] = "read"
  /\ IF dir[found[p].run] = "complete"
     THEN /\ found' = [found EXCEPT ![p].status = StatusFromEvents(journal[found[p].run])]
          /\ Goto(p, "import")
          /\ UNCHANGED caller
     ELSE IndexFails(p) /\ UNCHANGED found
  /\ UNCHANGED <<storeVars, run, shared, status, seq, ev, next, step, scan, cancelled,
                 remoteVars, faultVars>>

(* Backfill writes the record it built, whatever the row is by now.         *)
BackfillImport(p) ==
  /\ pc[p] = "import"
  /\ \/ /\ Upsert(found[p].run, found[p].status)
        /\ Goto(p, "backfill")
        /\ UNCHANGED <<caller, faultVars>>
     \/ /\ IndexFault
        /\ IndexFails(p)
        /\ UNCHANGED <<row, sync>>
  /\ UNCHANGED <<dir, journal, outbox, nextRow, run, shared, status, seq, ev, next, step,
                 scan, found, cancelled, remoteVars>>

BackfillDone(p) ==
  /\ pc[p] = "backfill"
  /\ scan[p] = {}
  /\ Local(p, IF caller[p] = "list" THEN "listed" ELSE "upsert")

(* Mutant: every caller but emit indexes "failed".                          *)
ResealFailed(p) == IF caller[p] = "emit" THEN StatusOf[ev[p]] ELSE "failed"

IndexStatus(p) == IF caller[p] = "emit" THEN StatusOf[ev[p]] ELSE status[p]

(* Mutants: only emit enqueues; every caller does.                          *)
UpsertThen(p, enqueues) ==
  /\ pc[p] = "upsert"
  /\ Upsert(run[p], IndexStatus(p))
  /\ IF enqueues THEN Goto(p, "enqueue") ELSE IndexDone(p)
  /\ UNCHANGED <<dir, journal, outbox, nextRow, run, shared, status, seq, ev, next, caller,
                 step, scan, found, cancelled, remoteVars, faultVars>>
ResealNotQueued(p) == UpsertThen(p, caller[p] = "emit")
AlwaysQueued(p)    == UpsertThen(p, TRUE)

UpsertRow(p) ==
  /\ pc[p] = "upsert"
  /\ \/ /\ Upsert(run[p], IndexStatus(p))
        /\ IF caller[p] \in {"emit", "reseal"} THEN Goto(p, "enqueue") ELSE IndexDone(p)
        /\ UNCHANGED <<caller, faultVars>>
     \/ /\ IndexFault
        /\ IndexFails(p)
        /\ UNCHANGED <<row, sync>>
  /\ UNCHANGED <<dir, journal, outbox, nextRow, run, shared, status, seq, ev, next, step,
                 scan, found, cancelled, remoteVars>>

EnqueueOutbox(p) ==
  /\ pc[p] = "enqueue"
  /\ \/ /\ InsertOutbox(run[p])
        /\ Goto(p, "mark")
        /\ UNCHANGED <<caller, faultVars>>
     \/ /\ IndexFault
        /\ IndexFails(p)
        /\ UNCHANGED <<outbox, nextRow>>
  /\ UNCHANGED <<dir, journal, row, sync, run, shared, status, seq, ev, next, step,
                 scan, found, cancelled, remoteVars>>

(* Second statement of EnqueueOutbox: sync_status becomes pending.          *)
MarkPending(p) ==
  /\ pc[p] = "mark"
  /\ \/ /\ SetSync(run[p], "pending")
        /\ IndexDone(p)
        /\ UNCHANGED <<caller, faultVars>>
     \/ /\ IndexFault
        /\ IndexFails(p)
        /\ UNCHANGED sync
  /\ UNCHANGED <<dir, journal, row, outbox, nextRow, run, shared, status, seq, ev, next,
                 step, scan, found, cancelled, remoteVars>>

-----------------------------------------------------------------------------
(* Records at the coordinator, and emit *)

(* OnRun is called once the Run is on disk and indexed; run_created follows. *)
PublishRun(p) ==
  /\ pc[p] = "publishRun"
  /\ \/ /\ ~shared[p]
        /\ Emit(p, "run_created", "preflight")
        /\ UNCHANGED <<remoteRun, faultVars>>
     \/ /\ shared[p]
        /\ ~cancelled[p]
        /\ remoteRun' = remoteRun \union {run[p]}
        /\ Emit(p, "run_created", "preflight")
        /\ UNCHANGED faultVars
     \/ /\ shared[p]
        /\ RemoteFault(p)
        /\ remoteRun' \in {remoteRun, remoteRun \union {run[p]}}
        /\ Goto(p, "sealing")
        /\ UNCHANGED <<ev, next>>
  /\ UNCHANGED <<storeVars, run, shared, status, seq, caller, step, scan, found, cancelled,
                 remote>>

CurrentLine(p) == [seq |-> seq[p], type |-> ev[p]]

(* AppendEvent; r.sequence advances only when it returned nil.  A terminal  *)
(* event is indexed before it is published.                                 *)
AppendEvent(p) ==
  /\ pc[p] = "append"
  /\ \/ /\ AppendOK(run[p], CurrentLine(p))
        /\ seq' = [seq EXCEPT ![p] = @ + 1]
        /\ IF ev[p] \in TerminalEvents
           THEN IndexRun(p, "emit")
           ELSE Goto(p, "publish") /\ UNCHANGED caller
        /\ UNCHANGED faultVars
     \/ /\ DiskFault
        /\ AppendFails(run[p], CurrentLine(p))
        /\ EmitFails(p)
        /\ UNCHANGED seq
  /\ UNCHANGED <<dir, row, sync, outbox, nextRow, run, shared, status, ev, next, step,
                 scan, found, cancelled, remoteVars>>

(* OnEvent of the event just recorded, whose number is seq - 1.             *)
Accept(p) == remote' = [remote EXCEPT ![run[p]] =
                          Append(@, [seq |-> seq[p] - 1, type |-> ev[p]])]

(* Mutant: a refusal of the coordinator is only a warning.                  *)
PublishLoosely(p) ==
  /\ pc[p] = "publish"
  /\ \/ shared[p] /\ ~cancelled[p] /\ Accept(p) /\ UNCHANGED faultVars
     \/ shared[p] /\ RemoteFault(p) /\ UNCHANGED remote
     \/ ~shared[p] /\ UNCHANGED <<remote, faultVars>>
  /\ Goto(p, next[p])
  /\ UNCHANGED <<storeVars, run, shared, status, seq, ev, next, caller, step, scan, found,
                 cancelled, remoteRun>>

(* Mutant: a refused event is sent until the coordinator takes it, also     *)
(* when r.ctx is done.                                                      *)
PublishAgain(p) ==
  /\ pc[p] = "publish"
  /\ \/ shared[p] /\ ~cancelled[p] /\ Accept(p) /\ Goto(p, next[p]) /\ UNCHANGED faultVars
     \/ shared[p] /\ RemoteFault(p) /\ UNCHANGED <<pc, remote>>
     \/ ~shared[p] /\ Goto(p, next[p]) /\ UNCHANGED <<remote, faultVars>>
  /\ UNCHANGED <<storeVars, run, shared, status, seq, ev, next, caller, step, scan, found,
                 cancelled, remoteRun>>

PublishEvent(p) ==
  /\ pc[p] = "publish"
  /\ \/ /\ ~shared[p]
        /\ Goto(p, next[p])
        /\ UNCHANGED <<caller, remote, faultVars>>
     \/ /\ shared[p]
        /\ ~cancelled[p]
        /\ Accept(p)
        /\ Goto(p, next[p])
        /\ UNCHANGED <<caller, faultVars>>
     \/ /\ shared[p]
        /\ RemoteFault(p)
        /\ Accept(p) \/ UNCHANGED remote
        /\ EmitFails(p)
  /\ UNCHANGED <<storeVars, run, shared, status, seq, ev, next, step, scan, found,
                 cancelled, remoteRun>>

-----------------------------------------------------------------------------
(* Body of Execute: preflight, runShell, runManual *)

Preflight(p) ==
  /\ pc[p] = "preflight"
  /\ \/ Announce(p, "validation_succeeded", "fulfill")
     \/ ~cancelled[p] /\ Announce(p, "validation_failed", "failing")
     \/ cancelled[p] /\ Local(p, "interrupting")

(* A Recipe of runtime manual or no Recipe goes to runManual, another one   *)
(* to runShell, which resolves the Recipe's environment first.              *)
Fulfill(p) ==
  /\ pc[p] = "fulfill"
  /\ \E l \in {"manual", "step", "failing"} : Local(p, l)

(* Head of the loop over the Steps.                                         *)
NextStep(p) ==
  /\ pc[p] = "step"
  /\ \/ step[p] > NumSteps /\ Local(p, "returns")
     \/ step[p] <= NumSteps /\ cancelled[p] /\ Local(p, "interrupting")
     \/ /\ step[p] <= NumSteps
        /\ ~cancelled[p]
        /\ \/ Announce(p, "approval_requested", "approve")
           \/ Local(p, "prepare")
           \/ Local(p, "failing")

(* ApproveAll, or the answer of the Approve callback.                       *)
Approve(p) ==
  /\ pc[p] = "approve"
  /\ \/ Announce(p, "approval_approved", "prepare")
     \/ Announce(p, "approval_rejected", "cancel")
     \/ Local(p, IF cancelled[p] THEN "interrupting" ELSE "failing")

(* Working directory and environment of the Step.                           *)
PrepareStep(p) ==
  /\ pc[p] = "prepare"
  /\ \/ Announce(p, "step_started", "execute")
     \/ Local(p, "failing")

(* executeStep runs the script, then collectProducts gathers its outputs.   *)
(* Only a script that ended with an error while r.ctx was done counts as    *)
(* interrupted.                                                             *)
ExecuteStep(p) ==
  /\ pc[p] = "execute"
  /\ \/ /\ Emit(p, "step_succeeded", "step")
        /\ step' = [step EXCEPT ![p] = @ + 1]
     \/ Emit(p, "step_failed", "failing") /\ UNCHANGED step
     \/ cancelled[p] /\ Emit(p, "step_failed", "interrupting") /\ UNCHANGED step
  /\ UNCHANGED <<storeVars, run, shared, status, seq, caller, scan, found, cancelled,
                 remoteVars, faultVars>>

(* runManual: without a Manual callback the Run is left for later; the      *)
(* callback's failure is an interruption when a context ended it.           *)
Manual(p) ==
  /\ pc[p] = "manual"
  /\ \/ /\ status' = [status EXCEPT ![p] = "pending_manual"]
        /\ IndexRun(p, "manual")
        /\ UNCHANGED <<storeVars, run, shared, seq, ev, next, step, scan, found, cancelled,
                       remoteVars, faultVars>>
     \/ Local(p, "returns")
     \/ Local(p, "interrupting")
     \/ ~cancelled[p] /\ Local(p, "failing")

(* Returns are materialized and BeforeSuccess uploads them; only then is    *)
(* the Run declared succeeded.                                              *)
Succeed(p) ==
  /\ pc[p] = "returns"
  /\ \/ Conclude(p, "succeeded", "run_succeeded")
     \/ Local(p, "failing")

CancelRun(p) == pc[p] = "cancel" /\ Conclude(p, "cancelled", "run_cancelled")

(* fail and interrupt.  Their first branch, for a Run that already has this *)
(* status and a terminal event, is never taken: only they set the status,   *)
(* and Execute returns what they return.                                    *)
Fail(p)      == pc[p] = "failing" /\ Conclude(p, "failed", "run_failed")
Interrupt(p) == pc[p] = "interrupting" /\ Conclude(p, "interrupted", "run_interrupted")

(* Mutant: the error is returned without sealing the Run.                   *)
ReturnUnsealed(p) == pc[p] = "sealing" /\ Local(p, "returned")

SealAfterError(p) ==
  /\ pc[p] = "sealing"
  /\ IF isTerminalStatus(status[p])
     THEN Local(p, "returned")
     ELSE Conclude(p, "failed", "run_failed")

-----------------------------------------------------------------------------
(* Environment *)

(* SIGINT or SIGTERM: r.ctx is done for the rest of Execute.                *)
Cancel(p) ==
  /\ pc[p] \notin Resting
  /\ ~cancelled[p]
  /\ cancels < MaxCancels
  /\ cancels' = cancels + 1
  /\ cancelled' = [cancelled EXCEPT ![p] = TRUE]
  /\ UNCHANGED <<storeVars, pc, run, shared, status, seq, ev, next, caller, step, scan,
                 found, remoteVars, diskFaults, indexFaults, remoteFaults, crashes>>

Crash(p) ==
  /\ pc[p] \notin Resting
  /\ crashes < MaxCrashes
  /\ crashes' = crashes + 1
  /\ Goto(p, "crashed")
  /\ UNCHANGED <<storeVars, run, shared, status, seq, ev, next, caller, step, scan, found,
                 cancelled, remoteVars, diskFaults, indexFaults, remoteFaults, cancels>>

(* Another command opens the index, as runs list does.                      *)
List(p) ==
  /\ pc[p] \in {"idle", "listed", "listFailed"}
  /\ IndexRun(p, "list")
  /\ UNCHANGED <<storeVars, run, shared, status, seq, ev, next, step, scan, found,
                 cancelled, remoteVars, faultVars>>

Indexing(p) ==
  \/ OpenIndex(p)
  \/ \E r \in Runs : BackfillLookup(p, r)
  \/ BackfillRead(p)
  \/ BackfillImport(p)
  \/ BackfillDone(p)
  \/ UpsertRow(p)
  \/ EnqueueOutbox(p)
  \/ MarkPending(p)

Executing(p) ==
  \/ WriteRequest(p) \/ WriteRun(p)
  \/ PublishRun(p) \/ AppendEvent(p) \/ PublishEvent(p)
  \/ Preflight(p) \/ Fulfill(p)
  \/ NextStep(p) \/ Approve(p) \/ PrepareStep(p) \/ ExecuteStep(p)
  \/ Manual(p) \/ Succeed(p)
  \/ CancelRun(p) \/ Fail(p) \/ Interrupt(p) \/ SealAfterError(p)

Next ==
  \/ \E p \in Executors, r \in Runs : Reserve(p, r) \/ Refuse(p, r)
  \/ \E p \in Executors : Executing(p) \/ Cancel(p) \/ Crash(p)
  \/ \E p \in Procs : Indexing(p)
  \/ \E p \in Readers : List(p)

(* The process itself does not stop.  Nothing obliges a person to answer a  *)
(* prompt (approve and manual read the terminal and ignore r.ctx) or a      *)
(* script to end before r.ctx is done, when its process group is killed.    *)
Progress(p) ==
  /\ pc[p] \notin {"approve", "manual"}
  /\ pc[p] = "execute" => cancelled[p]
  /\ Executing(p)

Fairness == \A p \in Procs : WF_vars(Indexing(p)) /\ WF_vars(Progress(p))

Spec == Init /\ [][Next]_vars /\ Fairness

-----------------------------------------------------------------------------
(* Properties *)

(* A Run has one writer.  localstate.Open: "Reusing a Run id must never     *)
(* overwrite immutable records or append to another attempt's audit trail." *)
SingleWriter ==
  \A p, q \in Executors : run[p] # NoRun /\ run[p] = run[q] => p = q

(* Nothing is recorded after a Run's terminal event: no second outcome and  *)
(* no Step, even when the index or the coordinator refuses that event.      *)
TerminalIsFinal ==
  [][\A r \in Runs : TerminalLines(journal[r]) # {} => journal'[r] = journal[r]]_vars

(* A script runs only after its step_started is durable here and, for a     *)
(* shared Run, accepted by the coordinator together with the Run: "an error *)
(* stops execution rather than silently losing audit data".                 *)
ScriptIsAnnounced ==
  \A p \in Executors : pc[p] = "execute" =>
    LET lines == journal[run[p]] IN
    /\ lines # << >>
    /\ lines[Len(lines)] = [seq |-> seq[p] - 1, type |-> "step_started"]
    /\ shared[p] => /\ run[p] \in remoteRun
                    /\ remote[run[p]] # << >>
                    /\ remote[run[p]][Len(remote[run[p]])] = lines[Len(lines)]

(* Once the coordinator has not accepted an event, the only one it may      *)
(* still get is the run_failed that ends the Run, numbered right after it.  *)
GapOnlyBeforeFailure ==
  \A r \in Runs : \A i \in DOMAIN remote[r] :
    LET expected == IF i = 1 THEN 0 ELSE remote[r][i - 1].seq + 1 IN
    remote[r][i].seq = expected
      \/ (remote[r][i].type = "run_failed" /\ remote[r][i].seq = expected + 1)

(* The index may lag behind the record, it never claims another outcome:    *)
(* not after retries of indexRun, a concurrent import or a crash.           *)
IndexNeverContradicts ==
  \A r \in Runs :
    /\ row[r] \in Outcomes /\ TerminalLines(journal[r]) # {}
         => row[r] = StatusFromEvents(journal[r])
    /\ row[r] = "pending_manual" => TerminalLines(journal[r]) = {}
    /\ Queued(r) => row[r] # "absent" /\ row[r] # "pending_manual"

(* sealAfterError "guarantees the SQLite index leaves "running" when        *)
(* Execute aborts without a clean terminal path (publish errors, mid-run    *)
(* emit failures)".                                                         *)
SealedOnReturn ==
  \A p \in Executors : pc[p] = "returned" /\ journal[run[p]] # << >> => row[run[p]] # "running"

(* The Run ended: its trail or its row says how.                            *)
HasOutcome(r) == TerminalLines(journal[r]) # {} \/ row[r] \in Outcomes

(* A Run that ended reaches the outbox, also when its last event could not  *)
(* be appended or published, and whatever another process imports: fail     *)
(* and interrupt go to the index a second time, so that one failure does    *)
(* not lose the Run; success and cancellation go there once.                *)
OutcomeIsQueued ==
  \A p \in Executors :
    pc[p] = "returned" /\ HasOutcome(run[p]) =>
      \/ Queued(run[p])
      \/ status[p] \in {"succeeded", "cancelled"} /\ indexFaults + diskFaults > 0
      \/ indexFaults > 0 /\ indexFaults + diskFaults > 1

(* Ctrl-C ends Execute wherever it is, unless a person is being asked.      *)
CancelEnds ==
  \A p \in Executors : cancelled[p] ~> pc[p] \in Resting \union {"approve", "manual"}

(* Execute implements the abstract record of a Run.                        *)
Record == INSTANCE RunRecord WITH
            trail <- [r \in Runs |-> [i \in DOMAIN journal[r] |-> journal[r][i].type]],
            claim <- row,
            sent <- [r \in Runs |-> [i \in DOMAIN remote[r] |-> remote[r][i].seq + 1]]

(* With appends that fail cleanly, every step of every process is a step of *)
(* the abstract record: the trail follows the grammar and is closed once,   *)
(* the index never gets ahead of it, the coordinator gets it in order.      *)
ImplementsRecord == Record!Spec
=============================================================================
