---------------------------- MODULE ShareSession -----------------------------
(***************************************************************************)
(* One Share and the commands that may carry out its Request: `doppels     *)
(* share`, which creates it and waits until it expires, and `doppels node  *)
(* up` of the same Identity, whose watchers attach to the Share too.       *)
(*                                                                         *)
(* The coordinator is external: it keeps one Request and one Run per Share *)
(* (PendingState has room for no more), takes a Request only before the    *)
(* Share expires, takes events of its Run only, and stores an artifact     *)
(* only if the bytes have the announced digest.  shareclient.Channel is    *)
(* the one of ShareChannel: Next hands over every message once or a fresh  *)
(* state of the Share; a submission that fails may have been recorded.     *)
(***************************************************************************)
EXTENDS Integers, Sequences, FiniteSets

CONSTANTS
  Creator,       (* the `doppels share` command                             *)
  Nodes,         (* watchers of `node up`                                   *)
  NumArtifacts,  (* artifacts among the returns and the evidence of a Run   *)
  MaxFaults,     (* calls that fail, crashes, snapshots that change         *)
  MaxCancels,    (* Ctrl-C in a behaviour                                   *)
  MaxAttaches,   (* times a node attaches to the Share                      *)
  None           (* no Run                                                  *)

ASSUME ShareSessionAssumption ==
  /\ Creator \notin Nodes
  /\ None \notin Nodes \union {Creator}
  /\ NumArtifacts \in Nat
  /\ MaxFaults \in Nat /\ MaxCancels \in Nat /\ MaxAttaches \in Nat

Runners == Nodes \union {Creator}

VARIABLES
  share,      (* none, open, or why it is closed                            *)
  past,       (* ExpiresAt is past                                          *)
  requested,  (* the Request is persisted                                   *)
  run,        (* whose Run is recorded                                      *)
  events,     (* RunEvents recorded for it, as <<sequence, type>>           *)
  stored      (* digests of the artifacts stored for it                     *)

cloudVars == <<share, past, requested, run, events, stored>>

VARIABLES
  pc,         (* where the runner is                                        *)
  heard,      (* messages its channel has handed over                       *)
  cancelled,  (* Ctrl-C                                                     *)
  exit,       (* what the command reports                                   *)
  query,      (* what became of the query made after the deadline           *)
  trail,      (* types of the local RunEvents                               *)
  uploads,    (* artifacts uploaded                                         *)
  header,     (* digest of the artifact being uploaded, None between        *)
  ran,        (* a Step's script was started                                *)
  attaches

runnerVars == <<pc, heard, cancelled, exit, query, trail, uploads, header, ran, attaches>>

VARIABLES
  file,       (* digest of each local snapshot                              *)
  faults

vars == <<cloudVars, runnerVars, file, faults>>

Artifacts == 1 .. NumArtifacts
Outcomes  == {"run_succeeded", "run_failed", "run_interrupted"}
Waiting   == {"create", "connect", "await", "ask", "check"}
Running   == {"publish", "created", "steps", "script", "upload", "finish", "failing", "aborting"}

TypeOK ==
  /\ share \in {"none", "open", "completed", "expired", "cancelled"}
  /\ past \in BOOLEAN /\ requested \in BOOLEAN
  /\ run \in Runners \union {None}
  /\ events \in Seq(Nat \X ({"run_created", "step_started"} \union Outcomes))
  /\ stored \in [Artifacts -> {"none", "collected", "changed"}]
  /\ pc \in [Runners -> Waiting \union Running \union {"idle", "ended", "dead"}]
  /\ heard \in [Runners -> SUBSET {"request_available", "share_closed"}]
  /\ cancelled \in [Runners -> BOOLEAN]
  /\ exit \in [Runners -> {"none", "success", "operational", "interrupted", "expired"}]
  /\ query \in [Runners -> {"none", "answered", "failed"}]
  /\ trail \in [Runners -> Seq({"run_created", "step_started"} \union Outcomes)]
  /\ uploads \in [Runners -> 0 .. NumArtifacts]
  /\ header \in [Runners -> {"none", "collected", "changed"}]
  /\ ran \in [Runners -> BOOLEAN]
  /\ attaches \in 0 .. MaxAttaches
  /\ file \in [Artifacts -> {"collected", "changed"}]
  /\ faults \in 0 .. MaxFaults

Init ==
  /\ share = "none" /\ past = FALSE /\ requested = FALSE
  /\ run = None /\ events = << >> /\ stored = [a \in Artifacts |-> "none"]
  /\ pc = [r \in Runners |-> IF r = Creator THEN "create" ELSE "idle"]
  /\ heard = [r \in Runners |-> {}]
  /\ cancelled = [r \in Runners |-> FALSE]
  /\ exit = [r \in Runners |-> "none"]
  /\ query = [r \in Runners |-> "none"]
  /\ trail = [r \in Runners |-> << >>]
  /\ uploads = [r \in Runners |-> 0]
  /\ header = [r \in Runners |-> "none"]
  /\ ran = [r \in Runners |-> FALSE]
  /\ attaches = 0
  /\ file = [a \in Artifacts |-> "collected"]
  /\ faults = 0

Fault == faults < MaxFaults /\ faults' = faults + 1

(* A command that is done reports how; a watcher only lets go of the Share. *)
End(r, how) ==
  /\ pc' = [pc EXCEPT ![r] = IF r = Creator THEN "ended" ELSE "idle"]
  /\ exit' = [exit EXCEPT ![r] = how]

-----------------------------------------------------------------------------
(* What a PendingState says.                                               *)

terminalRunStatus ==
  IF events # << >> /\ events[Len(events)][2] \in Outcomes
  THEN events[Len(events)][2]
  ELSE "running"

ValidPendingRun == \A i \in DOMAIN events : events[i][1] = i - 1

(* Mutant: whatever way the Run ended, the work is done.                   *)
AnyEndCompletes ==
  IF ~requested THEN "nothing"
  ELSE IF run = None THEN "request"
  ELSE IF terminalRunStatus = "running" THEN "unfinished" ELSE "complete"

requestFromPending ==
  IF ~requested THEN "nothing"
  ELSE IF run = None THEN "request"
  ELSE IF ~ValidPendingRun THEN "invalid"
  ELSE CASE terminalRunStatus = "running" -> "unfinished"
         [] terminalRunStatus = "run_succeeded" -> "complete"
         [] OTHER -> "failed"

(* The runner has a Request, nothing yet, or is done.                      *)
Settle(r, says) ==
  CASE says = "request"  -> pc' = [pc EXCEPT ![r] = "publish"] /\ UNCHANGED exit
    [] says = "nothing"  -> pc' = [pc EXCEPT ![r] = "await"] /\ UNCHANGED exit
    [] says = "complete" -> End(r, "success")
    [] OTHER             -> End(r, "operational")

-----------------------------------------------------------------------------
(* Waiting for the Request.                                                *)

Create(r) ==
  /\ r = Creator /\ pc[r] = "create" /\ ~cancelled[r]
  /\ share' = "open"
  /\ pc' = [pc EXCEPT ![r] = "connect"]
  /\ UNCHANGED <<past, requested, run, events, stored, heard, cancelled, exit, query, trail,
                 uploads, header, ran, attaches, file, faults>>

(* The inbox of the node lists the Share as long as it is not closed.      *)
Attach(r) ==
  /\ r \in Nodes /\ pc[r] = "idle" /\ share = "open"
  /\ attaches < MaxAttaches /\ attaches' = attaches + 1
  /\ trail[r] = << >>
  /\ pc' = [pc EXCEPT ![r] = "connect"]
  /\ heard' = [heard EXCEPT ![r] = {}]
  /\ UNCHANGED <<cloudVars, cancelled, exit, query, trail, uploads, header, ran, file, faults>>

Connect(r) ==
  /\ pc[r] = "connect" /\ ~cancelled[r]
  /\ share \in {"open", "completed"}
  /\ Settle(r, requestFromPending)
  /\ UNCHANGED <<cloudVars, heard, cancelled, query, trail, uploads, header, ran, attaches, file, faults>>

HearRequest(r) ==
  /\ pc[r] = "await" /\ requested
  /\ "request_available" \notin heard[r]
  /\ heard' = [heard EXCEPT ![r] = @ \union {"request_available"}]
  /\ pc' = [pc EXCEPT ![r] = "publish"]
  /\ UNCHANGED <<cloudVars, cancelled, exit, query, trail, uploads, header, ran, attaches, file, faults>>

(* After a reconnection Next returns the state of the Share instead.       *)
Recover(r) ==
  /\ pc[r] = "await"
  /\ Fault
  /\ Settle(r, requestFromPending)
  /\ UNCHANGED <<cloudVars, heard, cancelled, query, trail, uploads, header, ran, attaches, file>>

HearClosed(r) ==
  /\ pc[r] = "await" /\ share \notin {"none", "open"}
  /\ "share_closed" \notin heard[r]
  /\ heard' = [heard EXCEPT ![r] = @ \union {"share_closed"}]
  /\ IF share = "completed"
     THEN pc' = [pc EXCEPT ![r] = "ask"] /\ UNCHANGED exit
     ELSE End(r, "operational")
  /\ UNCHANGED <<cloudVars, cancelled, query, trail, uploads, header, ran, attaches, file, faults>>

AskPending(r) ==
  /\ pc[r] = "ask" /\ ~cancelled[r]
  /\ Settle(r, requestFromPending)
  /\ UNCHANGED <<cloudVars, heard, cancelled, query, trail, uploads, header, ran, attaches, file, faults>>

(* Mutant: share believes its timer.                                       *)
BelieveTimer(r) ==
  /\ pc[r] \in {"await", "ask"} /\ past /\ ~cancelled[r]
  /\ End(r, "expired")
  /\ UNCHANGED <<cloudVars, heard, cancelled, query, trail, uploads, header, ran, attaches, file, faults>>

(* The deadline of waitContext: share asks the coordinator once more, the  *)
(* watcher of a node lets the Share go.                                    *)
TimerFires(r) ==
  /\ pc[r] \in {"await", "ask"} /\ past /\ ~cancelled[r]
  /\ pc' = [pc EXCEPT ![r] = IF r = Creator THEN "check" ELSE "idle"]
  /\ UNCHANGED <<cloudVars, heard, cancelled, exit, query, trail, uploads, header, ran, attaches, file, faults>>

(* Mutant: only finished work counts.                                      *)
CheckForCompletion(r) ==
  /\ pc[r] = "check"
  /\ query' = [query EXCEPT ![r] = "answered"]
  /\ End(r, IF cancelled[r] THEN "interrupted"
            ELSE IF requestFromPending = "complete" THEN "success" ELSE "expired")
  /\ UNCHANGED <<cloudVars, heard, cancelled, trail, uploads, header, ran, attaches, file, faults>>

FinalCheck(r) ==
  /\ pc[r] = "check"
  /\ query' = [query EXCEPT ![r] = "answered"]
  /\ IF cancelled[r] THEN End(r, "interrupted")
     ELSE IF requestFromPending = "nothing" THEN End(r, "expired")
     ELSE Settle(r, requestFromPending)
  /\ UNCHANGED <<cloudVars, heard, cancelled, trail, uploads, header, ran, attaches, file, faults>>

FinalCheckFails(r) ==
  /\ pc[r] = "check" /\ Fault
  /\ query' = [query EXCEPT ![r] = "failed"]
  /\ End(r, IF cancelled[r] THEN "interrupted" ELSE "expired")
  /\ UNCHANGED <<cloudVars, heard, cancelled, trail, uploads, header, ran, attaches, file>>

(* Create, OpenChannel, Next or Pending fails, or ends with the context.   *)
WaitFails(r) ==
  /\ pc[r] \in Waiting \ {"check"}
  /\ \/ cancelled[r] /\ UNCHANGED faults
     \/ pc[r] = "connect" /\ share \notin {"open", "completed"} /\ UNCHANGED faults
     \/ Fault
  /\ End(r, IF cancelled[r] THEN "interrupted" ELSE "operational")
  /\ UNCHANGED <<cloudVars, heard, cancelled, query, trail, uploads, header, ran, attaches, file>>

-----------------------------------------------------------------------------
(* Carrying the Request out: execution.Execute with the hooks of share.    *)

(* A submission is acknowledged; or it fails because its context is done,  *)
(* the coordinator refuses it, or the answer is lost after it was recorded. *)
Acknowledged(r, taken) == taken /\ ~cancelled[r] /\ UNCHANGED faults

(* Mutant: a refusal is not an error.                                      *)
IgnoreRefusal(r, taken, then) ==
  \/ cancelled[r] /\ pc' = [pc EXCEPT ![r] = "aborting"] /\ UNCHANGED faults
  \/ /\ ~taken /\ UNCHANGED faults
     /\ pc' = [pc EXCEPT ![r] = CASE pc[r] = "publish" -> "created"
                                  [] pc[r] = "created" -> "steps"
                                  [] pc[r] = "steps" -> "script"
                                  [] OTHER -> "failing"]
  \/ taken /\ then /\ Fault

Unacknowledged(r, taken, then) ==
  \/ cancelled[r] /\ pc' = [pc EXCEPT ![r] = "aborting"] /\ UNCHANGED faults
  \/ ~taken /\ then /\ UNCHANGED faults
  \/ taken /\ then /\ Fault

Failing(r) == pc' = [pc EXCEPT ![r] = "failing"]

OnRun(r) ==
  LET free == run = None IN
  /\ pc[r] = "publish"
  /\ \/ /\ Acknowledged(r, free)
        /\ run' = r
        /\ pc' = [pc EXCEPT ![r] = "created"]
     \/ /\ Unacknowledged(r, free, Failing(r))
        /\ run' \in IF free THEN {None, r} ELSE {run}
  /\ UNCHANGED <<share, past, requested, events, stored, heard, cancelled, exit, query, trail,
                 uploads, header, ran, attaches, file>>

(* emit: the event is in the local trail before it is submitted.  The      *)
(* coordinator closes the Share with the Run's last event.                 *)
Record(r, type, recorded) ==
  /\ events' = IF recorded THEN Append(events, <<Len(trail[r]), type>>) ELSE events
  /\ share' = IF recorded /\ type \in Outcomes THEN "completed" ELSE share

OnEvent(r, type, next, otherwise) ==
  /\ trail' = [trail EXCEPT ![r] = Append(@, type)]
  /\ \/ Acknowledged(r, run = r) /\ Record(r, type, TRUE) /\ next
     \/ /\ otherwise
        /\ \E recorded \in BOOLEAN : (recorded => run = r) /\ Record(r, type, recorded)
  /\ UNCHANGED <<past, requested, run, stored, heard, cancelled, query, uploads, header, attaches, file>>

GoOn(r, where) == pc' = [pc EXCEPT ![r] = where] /\ UNCHANGED exit

StillRunning(r) == Unacknowledged(r, run = r, Failing(r)) /\ UNCHANGED exit

Created(r) ==
  /\ pc[r] = "created"
  /\ OnEvent(r, "run_created", GoOn(r, "steps"), StillRunning(r))
  /\ UNCHANGED ran

StartStep(r) ==
  /\ pc[r] = "steps"
  /\ OnEvent(r, "step_started", GoOn(r, "script"), StillRunning(r))
  /\ ran' = [ran EXCEPT ![r] = pc'[r] = "script"]

EndStep(r) ==
  /\ pc[r] = "script"
  /\ \/ pc' = [pc EXCEPT ![r] = "upload"] /\ UNCHANGED faults
     \/ Failing(r) /\ UNCHANGED faults
  /\ UNCHANGED <<cloudVars, heard, cancelled, exit, query, trail, uploads, header, ran, attaches, file>>

(* Mutant: a failure is nobody else's business.                            *)
KeepOutcome(r, type, how) ==
  /\ trail' = [trail EXCEPT ![r] = Append(@, type)]
  /\ End(r, how)
  /\ UNCHANGED <<cloudVars, heard, cancelled, query, uploads, header, ran, attaches, file, faults>>

(* The last event of a Run that did not succeed; what Execute returns is   *)
(* its cause, whether or not the event got through.                        *)
Outcome(r, type, how) ==
  /\ OnEvent(r, type, End(r, how),
             /\ End(r, how)
             /\ \/ (cancelled[r] \/ run # r) /\ UNCHANGED faults
                \/ run = r /\ Fault)
  /\ UNCHANGED ran

Fail(r) ==
  \/ pc[r] = "failing"  /\ Outcome(r, "run_failed", "operational")
  \/ pc[r] = "aborting" /\ Outcome(r, "run_failed", "interrupted")

Interrupt(r) ==
  /\ pc[r] \in {"steps", "script"} /\ cancelled[r]
  /\ Outcome(r, "run_interrupted", "interrupted")

-----------------------------------------------------------------------------
(* BeforeSuccess: uploadSharedArtifacts, one artifact after the other.     *)

Snapshot(r) == uploads[r] + 1

HashArtifact(r) ==
  /\ pc[r] = "upload" /\ uploads[r] < NumArtifacts /\ header[r] = "none"
  /\ header' = [header EXCEPT ![r] = file[Snapshot(r)]]
  /\ UNCHANGED <<cloudVars, pc, heard, cancelled, exit, query, trail, uploads, ran, attaches, file, faults>>

(* Mutant: what the coordinator confirms is taken as it is.                *)
AnyMetadata(r) == header[r] # "none"

(* The digest that was announced must be the one the Run returns.          *)
sameArtifactMetadata(r) == header[r] = "collected"

UploadArtifact(r) ==
  LET a == Snapshot(r)
      taken == run = r /\ file[a] = header[r] IN
  /\ pc[r] = "upload" /\ header[r] # "none"
  /\ \/ /\ Acknowledged(r, taken)
        /\ stored' = [stored EXCEPT ![a] = header[r]]
        /\ IF sameArtifactMetadata(r)
           THEN uploads' = [uploads EXCEPT ![r] = a] /\ UNCHANGED pc
           ELSE Failing(r) /\ UNCHANGED uploads
     \/ /\ Unacknowledged(r, taken, Failing(r))
        /\ stored' \in {stored} \union
             {[stored EXCEPT ![a] = d] : d \in IF taken THEN {header[r]} ELSE {}}
        /\ UNCHANGED uploads
  /\ header' = [header EXCEPT ![r] = "none"]
  /\ UNCHANGED <<share, past, requested, run, events, heard, cancelled, exit, query, trail,
                 ran, attaches, file>>

Uploaded(r) ==
  /\ pc[r] = "upload" /\ uploads[r] = NumArtifacts
  /\ pc' = [pc EXCEPT ![r] = "finish"]
  /\ UNCHANGED <<cloudVars, heard, cancelled, exit, query, trail, uploads, header, ran, attaches, file, faults>>

(* The status is final once run_succeeded is in the trail: a publication   *)
(* that fails is reported, and the Run stays succeeded.                    *)
Succeed(r) ==
  /\ pc[r] = "finish"
  /\ OnEvent(r, "run_succeeded", End(r, "success"),
             \/ cancelled[r] /\ End(r, "interrupted") /\ UNCHANGED faults
             \/ run = r /\ End(r, "operational") /\ Fault)
  /\ UNCHANGED ran

-----------------------------------------------------------------------------
(* Everybody else.                                                         *)

CtrlC(r) ==
  /\ ~cancelled[r] /\ pc[r] \notin {"idle", "ended", "dead"}
  /\ MaxCancels > Cardinality({q \in Runners : cancelled[q]})
  /\ cancelled' = [cancelled EXCEPT ![r] = TRUE]
  /\ UNCHANGED <<cloudVars, pc, heard, exit, query, trail, uploads, header, ran, attaches, file, faults>>

Crash(r) ==
  /\ pc[r] \notin {"idle", "ended", "dead"} /\ Fault
  /\ pc' = [pc EXCEPT ![r] = "dead"]
  /\ UNCHANGED <<cloudVars, heard, cancelled, exit, query, trail, uploads, header, ran, attaches, file>>

SubmitRequest ==
  /\ share = "open" /\ ~past /\ ~requested
  /\ requested' = TRUE
  /\ UNCHANGED <<share, past, run, events, stored, runnerVars, file, faults>>

(* Expiry closes a Share that is still unused.                             *)
Expire ==
  /\ share # "none" /\ ~past
  /\ past' = TRUE
  /\ share' = IF share = "open" /\ ~requested THEN "expired" ELSE share
  /\ UNCHANGED <<requested, run, events, stored, runnerVars, file, faults>>

CancelShare ==
  /\ share = "open" /\ run = None /\ Fault
  /\ share' = "cancelled"
  /\ UNCHANGED <<past, requested, run, events, stored, runnerVars, file>>

(* Another program writes to a snapshot.                                   *)
ChangeFile(a) ==
  /\ file[a] = "collected" /\ Fault
  /\ file' = [file EXCEPT ![a] = "changed"]
  /\ UNCHANGED <<cloudVars, runnerVars>>

Wait(r) ==
  \/ Create(r) \/ Connect(r) \/ Recover(r) \/ HearClosed(r) \/ AskPending(r)
  \/ FinalCheck(r) \/ FinalCheckFails(r) \/ WaitFails(r)

Execute(r) ==
  \/ OnRun(r) \/ Created(r) \/ StartStep(r) \/ EndStep(r) \/ Fail(r) \/ Interrupt(r)
  \/ HashArtifact(r) \/ UploadArtifact(r) \/ Uploaded(r) \/ Succeed(r)

Others ==
  \/ \E r \in Runners : CtrlC(r) \/ Crash(r)
  \/ SubmitRequest \/ Expire \/ CancelShare
  \/ \E a \in Artifacts : ChangeFile(a)

Next ==
  \/ \E r \in Runners : Attach(r) \/ Wait(r) \/ TimerFires(r) \/ HearRequest(r) \/ Execute(r)
  \/ Others

Spec == Init /\ [][Next]_vars

(* The commands take their steps, calls are answered, scripts end and time *)
(* passes; that a broadcast arrives is not assumed.                        *)
FairSpec ==
  /\ Spec
  /\ \A r \in Runners : WF_vars(Wait(r)) /\ WF_vars(TimerFires(r)) /\ WF_vars(Execute(r))
  /\ WF_vars(Expire)

-----------------------------------------------------------------------------
(* Properties.                                                             *)

(* share says the Share expired without a Request only if there is none    *)
(* and none can come, provided the coordinator answered its last question. *)
ExpiryIsTrue ==
  exit[Creator] = "expired" /\ query[Creator] = "answered" => ~requested /\ past

(* An exit with success, also that of a command that found the work done,  *)
(* means the coordinator has a whole trail that ends in success.           *)
SuccessIsShared ==
  exit[Creator] = "success" => ValidPendingRun /\ terminalRunStatus = "run_succeeded"

(* Whoever receives run_succeeded can fetch every artifact it names, with  *)
(* the digest it names, even if a snapshot changes during the upload.      *)
ReturnsAreStored ==
  terminalRunStatus = "run_succeeded" => \A a \in Artifacts : stored[a] = "collected"

(* However the commands of one Identity meet on a Share, scripts run for   *)
(* its Request in one of them only.                                        *)
OneExecutor == \A r, q \in Runners : ran[r] /\ ran[q] => r = q

(* Unless a call failed or Ctrl-C was pressed, the guest sees the Run end  *)
(* as the local trail says it ended.                                       *)
OutcomeIsShared ==
  \A r \in Runners :
    trail[r] # << >> /\ pc[r] \in {"ended", "idle"} /\ faults = 0 /\ ~cancelled[r] /\ run = r
      => [i \in DOMAIN events |-> events[i][2]] = trail[r]

(* A Request that was accepted is taken up by a command, even if its       *)
(* announcement is lost or arrives with the expiry.                        *)
RequestIsTaken ==
  requested ~> run # None \/ faults > 0 \/ cancelled[Creator]

=============================================================================
