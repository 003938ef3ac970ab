------------------------------ MODULE RunFollow ------------------------------
(***************************************************************************)
(* runs logs -f beside the Run it follows, and run --detach, which starts  *)
(* the Run in a worker and reports its id.  The follower reads what        *)
(* RunExecution writes, without any lock: run.json, events.jsonl, the      *)
(* index and the logs of the Steps, one after the other, round after round. *)
(*                                                                         *)
(* A log is one file for a Step and a stream; it gets its whole content by *)
(* a rename, from a temporary file in the same directory.                  *)
(***************************************************************************)
EXTENDS RunExecution

CONSTANTS
  Followers,     (* readers that follow a Run                               *)
  Given,         (* the Run id each executor gets: a new UUID               *)
  Temporary,     (* a temporary file in the directory of the logs           *)
  MaxTroubles    (* failures, crashes and Ctrl-C together                   *)

ASSUME RunFollowAssumption ==
  /\ Followers \subseteq Readers
  /\ Given \in [Executors -> Runs]
  /\ \A p, q \in Executors : Given[p] = Given[q] => p = q
  /\ MaxTroubles \in Nat

LogFiles == (1..NumSteps) \X {"stdout", "stderr"}

VARIABLES
  launch,   (* how far run --detach has come with a worker                  *)
  phase,    (* how far the process has come with the Step's script and logs *)
  carries,  (* the logs the Step's last event will name                     *)
  logs,     (* the files in the Run's logs directory                        *)
  named,    (* the logs that the Run's events name                          *)
  look,     (* where the follower is                                        *)
  target,   (* the Run it follows                                           *)
  seen,     (* the status it has read in this round                         *)
  paths,    (* the logs it is about to read                                 *)
  shown,    (* the files it has printed                                     *)
  stopped   (* the follower has got Ctrl-C                                  *)

logVars == <<phase, carries, logs, named>>
followVars == <<look, target, seen, paths, shown, stopped>>
allVars == <<vars, launch, logVars, followVars>>

Left == {"success", "contract", "operational", "interrupted"}

FollowTypeOK ==
  /\ TypeOK
  /\ launch \in [Executors -> {"none", "logged", "started", "reported", "failed"}]
  /\ phase \in [Executors -> {"script", "stdout", "stderr", "written", "failed"} \X BOOLEAN]
  /\ carries \in [Executors -> SUBSET LogFiles]
  /\ logs \in [Runs -> SUBSET (LogFiles \union {Temporary})]
  /\ named \in [Runs -> SUBSET LogFiles]
  /\ look \in [Followers -> Left \union {"away", "resolve", "load", "enrich", "logs", "again",
                                         "list", "read", "sleep"}]
  /\ target \in [Followers -> Runs \union {NoRun}]
  /\ seen \in [Followers -> RunStatuses \union {"none"}]
  /\ paths \in [Followers -> SUBSET (LogFiles \union {Temporary})]
  /\ shown \in [Followers -> SUBSET (LogFiles \union {Temporary})]
  /\ stopped \in [Followers -> BOOLEAN]

FollowInit ==
  /\ Init
  /\ launch = [p \in Executors |-> "none"]
  /\ phase = [p \in Executors |-> <<"script", FALSE>>]
  /\ carries = [p \in Executors |-> {}]
  /\ logs = [r \in Runs |-> {}]
  /\ named = [r \in Runs |-> {}]
  /\ look = [f \in Followers |-> "away"]
  /\ target = [f \in Followers |-> NoRun]
  /\ seen = [f \in Followers |-> "none"]
  /\ paths = [f \in Followers |-> {}]
  /\ shown = [f \in Followers |-> {}]
  /\ stopped = [f \in Followers |-> FALSE]

-----------------------------------------------------------------------------
(* run, run --detach and its worker.                                       *)

Launch(p, from, to) == launch[p] = from /\ launch' = [launch EXCEPT ![p] = to]

(* run in the foreground.                                                  *)
RunLocal(p) ==
  /\ launch[p] = "none" /\ Reserve(p, Given[p])
  /\ UNCHANGED <<launch, logVars, followVars>>

(* The parent checks the tree, then creates the worker's own log file.     *)
StartDetached(p) ==
  /\ pc[p] = "idle"
  /\ \/ Launch(p, "none", "logged") /\ UNCHANGED vars
     \/ Launch(p, "none", "failed") /\ Local(p, "refused")
  /\ UNCHANGED <<logVars, followVars>>

StartWorker(p) ==
  /\ \/ Launch(p, "logged", "started") /\ UNCHANGED vars
     \/ Launch(p, "logged", "failed") /\ Local(p, "refused")
  /\ UNCHANGED <<logVars, followVars>>

(* The id is printed while the worker starts.                              *)
ReportRun(p) == Launch(p, "started", "reported") /\ UNCHANGED <<vars, logVars, followVars>>

(* The worker loads the tree anew, which may have changed.                 *)
RunWorker(p) ==
  /\ launch[p] \in {"started", "reported"} /\ pc[p] = "idle"
  /\ Reserve(p, Given[p]) \/ Local(p, "refused")
  /\ UNCHANGED <<launch, logVars, followVars>>

-----------------------------------------------------------------------------
(* executeStep: the script ends, then both logs are written; phase says    *)
(* which one is next and whether its temporary file is there.              *)

Stream(p) == IF phase[p][1] = "script" THEN "stdout" ELSE phase[p][1]

CreateTemporary(p) ==
  /\ pc[p] = "execute" /\ phase[p] \in {<<"script", FALSE>>, <<"stderr", FALSE>>}
  /\ \/ /\ logs' = [logs EXCEPT ![run[p]] = @ \union {Temporary}]
        /\ phase' = [phase EXCEPT ![p] = <<Stream(p), TRUE>>]
        /\ UNCHANGED vars
     \/ /\ phase' = [phase EXCEPT ![p] = <<"failed", FALSE>>]
        /\ DiskFault /\ UNCHANGED <<storeVars, procVars, remoteVars, logs>>
  /\ UNCHANGED <<launch, carries, named, followVars>>

WriteLog(p) ==
  /\ pc[p] = "execute" /\ phase[p][2]
  /\ \/ /\ logs' = [logs EXCEPT ![run[p]] = (@ \ {Temporary}) \union {<<step[p], Stream(p)>>}]
        /\ carries' = [carries EXCEPT ![p] = @ \union {<<step[p], Stream(p)>>}]
        /\ phase' = [phase EXCEPT ![p] =
             <<IF Stream(p) = "stdout" THEN "stderr" ELSE "written", FALSE>>]
        /\ UNCHANGED vars
     \/ /\ logs' = [logs EXCEPT ![run[p]] = @ \ {Temporary}]
        /\ phase' = [phase EXCEPT ![p] = <<"failed", FALSE>>]
        /\ DiskFault /\ UNCHANGED <<storeVars, procVars, remoteVars, carries>>
  /\ UNCHANGED <<launch, named, followVars>>

(* A Step whose shell is missing or whose logs could not be written fails. *)
EndStep(p) ==
  /\ pc[p] = "execute" /\ phase[p][1] \in {"script", "written", "failed"}
  /\ ExecuteStep(p)
  /\ phase[p][1] # "written" => ev'[p] = "step_failed" /\ next'[p] = "failing"
  /\ phase' = [phase EXCEPT ![p] = <<"script", FALSE>>]
  /\ UNCHANGED <<launch, carries, logs, named, followVars>>

(* The logs an event names are known once the event is in events.jsonl.    *)
NameLogs(p) ==
  IF pc[p] = "append" /\ ev[p] \in {"step_succeeded", "step_failed"}
  THEN /\ named' = [named EXCEPT ![run[p]] =
            IF Len(journal'[run[p]]) > Len(journal[run[p]]) /\ ~EndsTorn(journal'[run[p]])
            THEN @ \union carries[p] ELSE @]
       /\ carries' = [carries EXCEPT ![p] = {}]
  ELSE UNCHANGED <<named, carries>>

Work(p) ==
  /\ pc[p] # "execute" /\ Executing(p)
  /\ NameLogs(p)
  /\ UNCHANGED <<launch, phase, logs, followVars>>

-----------------------------------------------------------------------------
(* runs logs -f.                                                           *)

Look(f, place) == look' = [look EXCEPT ![f] = place]

(* The steps that open the index: resolveRunID lists it, Load looks up the *)
(* status of a Run whose events have no end.                               *)
Listing(f, place) ==
  /\ Look(f, place)
  /\ IndexRun(f, "list")
  /\ UNCHANGED <<storeVars, run, shared, status, seq, ev, next, step, scan, found, cancelled,
                 remoteVars, faultVars>>

(* A person follows a Run whose id was reported or whose directory is seen. *)
Follow(f, r) ==
  /\ look[f] = "away"
  /\ dir[r] # "absent" \/ \E p \in Executors : Given[p] = r /\ launch[p] = "reported"
  /\ target' = [target EXCEPT ![f] = r]
  /\ Listing(f, "resolve")
  /\ UNCHANGED <<launch, logVars, seen, paths, shown, stopped>>

Listed(f, place) == look[f] = place /\ pc[f] \in {"listed", "listFailed"}

(* A short id names a Run only if the index has it; otherwise it is taken  *)
(* for the name of a directory, which does not exist.                      *)
ResolveRunID(f) ==
  /\ Listed(f, "resolve")
  /\ \/ Look(f, IF pc[f] = "listFailed" THEN "contract" ELSE "load")
     \/ pc[f] = "listed" /\ row[target[f]] = "absent" /\ Look(f, "operational")
  /\ UNCHANGED <<vars, launch, logVars, target, seen, paths, shown, stopped>>

Loadable(r) == dir[r] = "complete" /\ Readable(journal[r])

runFollowDone(s) == s \in Outcomes \union {"pending_manual"}

(* Mutant: whatever the events say is taken as it is.                      *)
LoadEvents(f) ==
  /\ look[f] = "load" /\ ~stopped[f] /\ Loadable(target[f])
  /\ seen' = [seen EXCEPT ![f] = StatusFromEvents(journal[target[f]])]
  /\ Look(f, "logs")
  /\ UNCHANGED <<vars, launch, logVars, target, paths, shown, stopped>>

LoadDetail(f) ==
  /\ look[f] = "load"
  /\ IF ~stopped[f] /\ Loadable(target[f])
     THEN /\ seen' = [seen EXCEPT ![f] = StatusFromEvents(journal[target[f]])]
          /\ IF seen'[f] = "running" THEN Listing(f, "enrich") ELSE Look(f, "logs") /\ UNCHANGED vars
     ELSE /\ Look(f, IF stopped[f] THEN "interrupted" ELSE "operational")
          /\ UNCHANGED <<vars, seen>>
  /\ UNCHANGED <<launch, logVars, target, paths, shown, stopped>>

EnrichStatus(f) ==
  /\ Listed(f, "enrich")
  /\ seen' = [seen EXCEPT ![f] =
       IF pc[f] = "listed" /\ row[target[f]] # "absent" THEN row[target[f]] ELSE @]
  /\ Look(f, "logs")
  /\ UNCHANGED <<vars, launch, logVars, target, paths, shown, stopped>>

(* Logs loads the Run once more; its events say which logs there are.      *)
Logs(f) ==
  /\ look[f] = "logs"
  /\ IF Loadable(target[f])
     THEN /\ paths' = [paths EXCEPT ![f] = named[target[f]]]
          /\ IF StatusFromEvents(journal[target[f]]) = "running"
             THEN Listing(f, "again") ELSE Look(f, "list") /\ UNCHANGED vars
     ELSE Look(f, "operational") /\ UNCHANGED <<vars, paths>>
  /\ UNCHANGED <<launch, logVars, target, seen, shown, stopped>>

(* If the events name none, those in the directory.                        *)
ListLogs(f) ==
  /\ look[f] = "list" \/ Listed(f, "again")
  /\ paths' = [paths EXCEPT ![f] = IF @ = {} THEN logs[target[f]] ELSE @]
  /\ Look(f, "read")
  /\ UNCHANGED <<vars, launch, logVars, target, seen, shown, stopped>>

(* Mutant: a status of this moment decides whether it is the last round.   *)
ReadThenLook(f) ==
  /\ look[f] = "read" /\ paths[f] \subseteq logs[target[f]]
  /\ shown' = [shown EXCEPT ![f] = @ \union paths[f]]
  /\ seen' = [seen EXCEPT ![f] = StatusFromEvents(journal[target[f]])]
  /\ Look(f, IF runFollowDone(seen'[f]) THEN "success" ELSE "sleep")
  /\ UNCHANGED <<vars, launch, logVars, target, paths, stopped>>

(* A file that is gone ends the command; what is new is printed, and the   *)
(* status read before the logs decides whether this was the last round.    *)
ReadLogs(f) ==
  /\ look[f] = "read"
  /\ IF paths[f] \subseteq logs[target[f]]
     THEN /\ shown' = [shown EXCEPT ![f] = @ \union paths[f]]
          /\ Look(f, IF runFollowDone(seen[f]) THEN "success" ELSE "sleep")
     ELSE Look(f, "operational") /\ UNCHANGED shown
  /\ UNCHANGED <<vars, launch, logVars, target, seen, paths, stopped>>

Sleep(f) ==
  /\ look[f] = "sleep" /\ Look(f, "load")
  /\ UNCHANGED <<vars, launch, logVars, target, seen, paths, shown, stopped>>

Interrupted(f) ==
  /\ look[f] \notin Left \union {"away"} /\ ~stopped[f]
  /\ cancels < MaxCancels /\ cancels' = cancels + 1
  /\ stopped' = [stopped EXCEPT ![f] = TRUE]
  /\ UNCHANGED <<storeVars, procVars, remoteVars, diskFaults, indexFaults, remoteFaults, crashes,
                 launch, logVars, look, target, seen, paths, shown>>

-----------------------------------------------------------------------------

Following(f) ==
  \/ ResolveRunID(f) \/ LoadDetail(f) \/ EnrichStatus(f) \/ Logs(f) \/ ListLogs(f) \/ ReadLogs(f)
  \/ Sleep(f)

Launching(p) == StartWorker(p) \/ ReportRun(p) \/ RunWorker(p)

(* A script need not end; a person need not answer.                        *)
Moving(p) ==
  \/ /\ phase[p][1] = "script" => cancelled[p]
     /\ CreateTemporary(p) \/ WriteLog(p) \/ EndStep(p)
  \/ pc[p] \notin {"approve", "manual"} /\ Work(p)

Indexes(p) == Indexing(p) /\ UNCHANGED <<launch, logVars, followVars>>

Troubles == diskFaults + indexFaults + remoteFaults + cancels + crashes

FollowStep ==
  \/ \E p \in Executors :
       \/ RunLocal(p) \/ StartDetached(p) \/ Launching(p)
       \/ CreateTemporary(p) \/ WriteLog(p) \/ EndStep(p) \/ Work(p)
       \/ (Cancel(p) \/ Crash(p)) /\ UNCHANGED <<launch, logVars, followVars>>
  \/ \E p \in Procs : Indexes(p)
  \/ \E q \in Readers \ Followers : List(q) /\ UNCHANGED <<launch, logVars, followVars>>
  \/ \E f \in Followers : Following(f) \/ Interrupted(f) \/ \E r \in Runs : Follow(f, r)

FollowNext == FollowStep /\ Troubles' <= MaxTroubles

FollowSpec ==
  /\ FollowInit /\ [][FollowNext]_allVars
  /\ \A p \in Procs : WF_allVars(Indexes(p))
  /\ \A p \in Executors : WF_allVars(Moving(p)) /\ WF_allVars(Launching(p))
  /\ \A f \in Followers : WF_allVars(Following(f))

-----------------------------------------------------------------------------
(* Properties.                                                             *)

(* A follow that ends with success has printed every log the Run's events  *)
(* name, the ones written between its last two looks included.             *)
FollowShowsAll ==
  \A f \in Followers : look[f] = "success" => named[target[f]] \subseteq shown[f]

(* Nobody is going to change the Run or its row any more.                  *)
Abandoned(r) ==
  /\ r # NoRun
  /\ Broken # {} \/ row[r] \in {"absent", "running"}
  /\ TerminalLines(journal[r]) = {}
  /\ \A p \in Executors : run[p] = r => pc[p] \in Resting \union {"approve", "manual", "execute"}

(* A follow goes on for ever only beside a Run that waits for a person or  *)
(* a script for ever, or that was left without an outcome: by a crash, or  *)
(* by a failure that kept it from being sealed.                            *)
FollowEnds ==
  \A f \in Followers : ([]<>(look[f] \in Left \union {"away"})) \/ <>[]Abandoned(target[f])
=============================================================================
