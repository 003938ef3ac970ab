------------------------- MODULE ShareSession_proofs -------------------------
(***************************************************************************)
(* Proofs about ShareSession, for any number of watchers, artifacts,       *)
(* failures and cancellations.                                             *)
(*                                                                         *)
(* The inductive invariant IInv ties the place of a runner in Execute to   *)
(* what the coordinator holds: past its first acknowledged event a runner  *)
(* owns the Run and the recorded events are exactly its trail, its count   *)
(* of uploads bounds the artifacts that are stored, and once run_succeeded *)
(* is recorded its runner has left Execute for good.                       *)
(*                                                                         *)
(* A step of a runner that waits or only moves on is an instance of Moves; *)
(* one lemma shows that IInv survives Moves, one per action that it is a   *)
(* case of it.  The actions that reach the coordinator have lemmas of      *)
(* their own.                                                              *)
(***************************************************************************)
EXTENDS ShareSession, TLAPS

Types == {"run_created", "step_started"} \union Outcomes

(* Places at which the trail of a runner is empty.                         *)
Fresh == Waiting \union {"publish", "created"}

(* Places a runner reaches only while every submission is acknowledged.    *)
InStep == {"steps", "script", "upload", "finish"}

Left == {"idle", "ended", "dead"}

(* Scripts, uploads and the runner's place presuppose its Run.             *)
RunOwned(r) ==
  /\ ran[r] => run = r
  /\ uploads[r] > 0 => run = r
  /\ pc[r] \in {"created"} \union InStep => run = r

(* What the runner's place says of its trail and of the recorded events.   *)
TrailPlaced(r) ==
  /\ pc[r] \in Fresh => trail[r] = << >>
  /\ pc[r] = "created" => events = << >>
  /\ pc[r] \in InStep => Len(events) = Len(trail[r]) /\ ValidPendingRun

(* What has been uploaded is stored as it was collected.                   *)
UploadsStored(r) ==
  /\ \A a \in 1 .. uploads[r] : stored[a] = "collected"
  /\ header[r] # "none" => uploads[r] < NumArtifacts
  /\ pc[r] = "finish" => uploads[r] = NumArtifacts

(* Without a failure and without Ctrl-C the events are the trail.          *)
TrailShared(r) ==
  faults = 0 /\ ~cancelled[r] /\ run = r =>
    /\ Len(events) = Len(trail[r])
    /\ \A i \in 1 .. Len(events) : events[i][2] = trail[r][i]

(* run_succeeded is the last thing the runner of the Run submits.          *)
SuccessIsLast ==
  terminalRunStatus = "run_succeeded" =>
    /\ run \in Runners
    /\ pc[run] \in Left
    /\ trail[run] # << >>
    /\ \A a \in Artifacts : stored[a] = "collected"

(* share reports once, and asks for the last time after the deadline.      *)
CreatorPlaced ==
  /\ exit[Creator] # "none" => pc[Creator] = "ended"
  /\ \A r \in Runners : pc[r] = "check" => r = Creator /\ past

IInv ==
  /\ TypeOK
  /\ run = None => events = << >>
  /\ \A r \in Runners : RunOwned(r) /\ TrailPlaced(r) /\ UploadsStored(r) /\ TrailShared(r)
  /\ SuccessIsLast
  /\ CreatorPlaced
  /\ SuccessIsShared
  /\ ExpiryIsTrue

-----------------------------------------------------------------------------
(* Kinds of steps.                                                         *)

(* r is the only one to report, and share reports by ending.               *)
Reports(r) ==
  \/ exit' = exit
  \/ exit' = [exit EXCEPT ![r] = exit'[r]] /\ (r = Creator => pc'[r] = "ended")

(* r goes from one place to another and nothing that is recorded changes.  *)
Moves(r) ==
  /\ UNCHANGED <<past, requested, run, events, stored, cancelled, trail, uploads, ran, file>>
  /\ faults' \in {faults, faults + 1}
  /\ header' = header
  /\ pc[r] \notin {"ended", "dead"}
  /\ pc[r] = "idle" => trail[r] = << >>
  /\ pc' = [pc EXCEPT ![r] = pc'[r]]
  /\ pc'[r] # "created"
  /\ pc'[r] \in Fresh => trail[r] = << >>
  /\ pc'[r] = "check" => r = Creator /\ past
  /\ pc'[r] \in InStep => pc[r] \in InStep
  /\ pc'[r] = "finish" => uploads[r] = NumArtifacts
  /\ Reports(r)
  /\ exit' # exit /\ exit'[r] = "success" => ValidPendingRun /\ terminalRunStatus = "run_succeeded"
  /\ exit' # exit /\ exit'[r] = "expired" /\ query'[r] = "answered" => ~requested /\ past
  /\ exit' = exit => query' = query \/ pc[r] = "check"
  /\ query' = [query EXCEPT ![r] = query'[r]]

(* r adds an event to its trail and submits it.                            *)
Taken(r, type) == run = r /\ events' = Append(events, <<Len(trail[r]), type>>)

Submits(r, type) ==
  /\ UNCHANGED <<past, requested, run, stored, cancelled, query, uploads, header, file>>
  /\ faults' \in {faults, faults + 1}
  /\ trail' = [trail EXCEPT ![r] = Append(@, type)]
  /\ Taken(r, type) \/ events' = events
  /\ faults' = 0 /\ ~cancelled[r] /\ run = r => Taken(r, type)
  /\ pc[r] \in Running
  /\ pc' = [pc EXCEPT ![r] = pc'[r]]
  /\ pc'[r] \in InStep => Taken(r, type) /\ pc[r] \in {"created"} \union InStep
  /\ pc'[r] \in {"steps", "script", "failing", "aborting"} \union Left
  /\ type = "run_succeeded" => pc[r] = "finish" /\ pc'[r] \in Left
  /\ Reports(r)
  /\ exit' # exit => exit'[r] # "expired"
  /\ exit' # exit /\ exit'[r] = "success" =>
       /\ type = "run_succeeded" /\ Taken(r, type)
       /\ Len(events) = Len(trail[r]) /\ ValidPendingRun
  /\ ran' = [ran EXCEPT ![r] = ran'[r]]
  /\ ran'[r] => run = r

-----------------------------------------------------------------------------
(* IInv survives a step that only moves.                                   *)
LEMMA MovesKeeps ==
  ASSUME IInv, NEW r \in Runners, Moves(r), TypeOK'
  PROVE  IInv'
<1> USE ShareSessionAssumption
<1>1. /\ terminalRunStatus' = terminalRunStatus
      /\ ValidPendingRun' = ValidPendingRun
  BY DEF Moves, terminalRunStatus, ValidPendingRun
<1>2. \A q \in Runners : q # r => pc'[q] = pc[q] /\ exit'[q] = exit[q]
  BY DEF Moves, Reports, IInv, TypeOK
<1>3. (run = None => events = << >>)'
  BY DEF Moves, IInv
<1>4. ASSUME NEW q \in Runners
      PROVE  (RunOwned(q) /\ TrailPlaced(q) /\ UploadsStored(q) /\ TrailShared(q))'
  <2>1. RunOwned(q)'
    BY <1>2 DEF Moves, IInv, RunOwned
  <2>2. TrailPlaced(q)'
    BY <1>1, <1>2 DEF Moves, IInv, TrailPlaced
  <2>3. UploadsStored(q)'
    BY <1>2 DEF Moves, IInv, UploadsStored
  <2>4. TrailShared(q)'
    <3>1. faults' = 0 => faults = 0
      BY DEF Moves, IInv, TypeOK
    <3> QED
      BY <3>1 DEF Moves, IInv, TrailShared
  <2> QED
    BY <2>1, <2>2, <2>3, <2>4
<1>5. SuccessIsLast'
  BY <1>1, <1>2 DEF Moves, IInv, SuccessIsLast, Left
<1>6. CreatorPlaced'
  BY <1>2 DEF Moves, Reports, IInv, TypeOK, CreatorPlaced, Runners
<1>7. SuccessIsShared'
  BY <1>1, <1>2 DEF Moves, IInv, SuccessIsShared, Runners
<1>8. ExpiryIsTrue'
  BY <1>2 DEF Moves, Reports, IInv, TypeOK, CreatorPlaced, ExpiryIsTrue, Runners
<1> QED
  BY <1>3, <1>4, <1>5, <1>6, <1>7, <1>8 DEF IInv

(* IInv survives a submission.                                             *)
LEMMA SubmitsKeeps ==
  ASSUME IInv, NEW r \in Runners, NEW type \in Types, Submits(r, type), TypeOK'
  PROVE  IInv'
<1> USE ShareSessionAssumption
<1>1. /\ events \in Seq(Nat \X Types) /\ trail[r] \in Seq(Types)
      /\ \A q \in Runners : trail[q] \in Seq(Types)
  BY DEF IInv, TypeOK, Types
<1>2. \A q \in Runners : q # r => /\ pc'[q] = pc[q] /\ exit'[q] = exit[q]
                                  /\ trail'[q] = trail[q] /\ ran'[q] = ran[q]
  BY DEF Submits, Reports, IInv, TypeOK
<1>3. trail'[r] = Append(trail[r], type) /\ trail'[r] # << >>
  <2>1. trail'[r] = Append(trail[r], type)
    BY DEF Submits, IInv, TypeOK
  <2>2. Len(trail'[r]) = Len(trail[r]) + 1 /\ Len(trail[r]) \in Nat
    BY <1>1, <2>1
  <2> QED
    BY <2>1, <2>2
<1>4. ASSUME Taken(r, type)
      PROVE  /\ Len(events') = Len(events) + 1
             /\ events' # << >>
             /\ events'[Len(events')] = <<Len(trail[r]), type>>
             /\ \A i \in 1 .. Len(events) : events'[i] = events[i]
             /\ terminalRunStatus' = IF type \in Outcomes THEN type ELSE "running"
  <2>1. /\ Len(events') = Len(events) + 1
        /\ events' # << >>
        /\ events'[Len(events')] = <<Len(trail[r]), type>>
        /\ \A i \in 1 .. Len(events) : events'[i] = events[i]
    BY <1>1, <1>4 DEF Taken
  <2> QED
    BY <2>1 DEF terminalRunStatus
<1>5. ASSUME Taken(r, type), Len(events) = Len(trail[r]), ValidPendingRun
      PROVE  Len(events') = Len(trail'[r]) /\ ValidPendingRun'
  <2>1. Len(events') = Len(trail'[r])
    BY <1>1, <1>3, <1>4, <1>5
  <2>2. DOMAIN events' = 1 .. Len(events')
    BY <1>1, <1>5 DEF Taken
  <2>3. \A i \in 1 .. Len(events) : events[i][1] = i - 1
    BY <1>1, <1>5 DEF ValidPendingRun
  <2>4. \A i \in 1 .. Len(events') : events'[i][1] = i - 1
    BY <1>1, <1>4, <1>5, <2>3
  <2> QED
    BY <2>1, <2>2, <2>4 DEF ValidPendingRun
<1>6. ASSUME events' = events
      PROVE  terminalRunStatus' = terminalRunStatus /\ ValidPendingRun' = ValidPendingRun
  BY <1>6 DEF terminalRunStatus, ValidPendingRun
<1>7. Taken(r, type) => terminalRunStatus # "run_succeeded"
  BY DEF Submits, Taken, IInv, SuccessIsLast, Running, Left
<1>8. (run = None => events = << >>)'
  BY DEF Submits, Taken, IInv, Runners
<1>9. ASSUME NEW q \in Runners
      PROVE  (RunOwned(q) /\ TrailPlaced(q) /\ UploadsStored(q) /\ TrailShared(q))'
  <2>1. RunOwned(q)'
    BY <1>2 DEF Submits, Taken, IInv, RunOwned, Left, InStep
  <2>2. TrailPlaced(q)'
    <3>1. CASE q = r
      <4>1. pc'[r] \notin Fresh
        BY DEF Submits, Fresh, Waiting, Left
      <4>2. ASSUME pc'[r] \in InStep
            PROVE  Len(events) = Len(trail[r]) /\ ValidPendingRun
        <5>1. CASE pc[r] = "created"
          BY <5>1, <1>1 DEF IInv, TrailPlaced, Fresh, ValidPendingRun
        <5>2. CASE pc[r] \in InStep
          BY <5>2 DEF IInv, TrailPlaced
        <5> QED
          BY <4>2, <5>1, <5>2 DEF Submits
      <4> QED
        BY <3>1, <4>1, <4>2, <1>5 DEF Submits, TrailPlaced, Fresh
    <3>2. CASE q # r
      <4>1. pc[q] \in {"created"} \union InStep => events' = events
        BY <3>2 DEF Submits, Taken, IInv, RunOwned
      <4> QED
        BY <3>2, <4>1, <1>2, <1>6 DEF IInv, TrailPlaced
    <3> QED
      BY <3>1, <3>2
  <2>3. UploadsStored(q)'
    BY <1>2 DEF Submits, IInv, UploadsStored, Left
  <2>4. TrailShared(q)'
    <3>1. CASE q = r
      <4> SUFFICES ASSUME faults' = 0, ~cancelled[r], run = r
                   PROVE  /\ Len(events') = Len(trail'[r])
                          /\ \A i \in 1 .. Len(events') : events'[i][2] = trail'[r][i]
        BY <3>1 DEF Submits, TrailShared
      <4>1. Taken(r, type)
        BY DEF Submits
      <4>2. /\ Len(events) = Len(trail[r])
            /\ \A i \in 1 .. Len(events) : events[i][2] = trail[r][i]
        BY DEF Submits, IInv, TypeOK, TrailShared
      <4> QED
        BY <4>1, <4>2, <1>1, <1>3, <1>4
    <3>2. CASE q # r
      BY <3>2, <1>2 DEF Submits, Taken, IInv, TypeOK, TrailShared
    <3> QED
      BY <3>1, <3>2
  <2> QED
    BY <2>1, <2>2, <2>3, <2>4
<1>10. SuccessIsLast'
  <2>1. CASE events' = events
    BY <2>1, <1>2, <1>3, <1>6 DEF Submits, IInv, SuccessIsLast, Running, Left
  <2>2. CASE Taken(r, type)
    <3> SUFFICES ASSUME type = "run_succeeded"
                 PROVE  pc'[r] \in Left /\ \A a \in Artifacts : stored[a] = "collected"
      BY <2>2, <1>3, <1>4 DEF Submits, Taken, SuccessIsLast, Outcomes
    <3> QED
      BY DEF Submits, IInv, UploadsStored, Artifacts
  <2> QED
    BY <2>1, <2>2 DEF Submits
<1>11. CreatorPlaced'
  BY <1>2 DEF Submits, Reports, IInv, TypeOK, CreatorPlaced, Runners, Running, Left
<1>12. SuccessIsShared'
  <2>1. CASE exit' # exit /\ Creator = r
    BY <2>1, <1>4, <1>5 DEF Submits, SuccessIsShared, Outcomes
  <2>2. CASE ~(exit' # exit /\ Creator = r)
    BY <2>2, <1>2, <1>6, <1>7 DEF Submits, IInv, SuccessIsShared, Runners
  <2> QED
    BY <2>1, <2>2
<1>13. ExpiryIsTrue'
  BY <1>2 DEF Submits, IInv, ExpiryIsTrue, Runners
<1> QED
  BY <1>8, <1>9, <1>10, <1>11, <1>12, <1>13 DEF IInv

-----------------------------------------------------------------------------
(* The types.                                                              *)

(* Whatever the coordinator says, Settle leads to a place and a report.    *)
LEMMA Settled ==
  ASSUME TypeOK, NEW r \in Runners, Settle(r, requestFromPending)
  PROVE  /\ pc' = [pc EXCEPT ![r] = pc'[r]]
         /\ pc'[r] \in {"publish", "await", "ended", "idle"}
         /\ Reports(r)
         /\ exit' # exit => exit'[r] \in {"success", "operational"}
         /\ exit' # exit /\ exit'[r] = "success" =>
              ValidPendingRun /\ terminalRunStatus = "run_succeeded"
         /\ exit' \in [Runners -> {"none", "success", "operational", "interrupted", "expired"}]
<1>1. CASE requestFromPending = "request"
  BY <1>1 DEF Settle, Reports, TypeOK
<1>2. CASE requestFromPending = "nothing"
  BY <1>2 DEF Settle, Reports, TypeOK
<1>3. CASE requestFromPending = "complete"
  <2>1. ValidPendingRun /\ terminalRunStatus = "run_succeeded"
    BY <1>3 DEF requestFromPending
  <2> QED
    BY <1>3, <2>1 DEF Settle, End, Reports, TypeOK
<1>4. CASE requestFromPending \notin {"request", "nothing", "complete"}
  BY <1>4 DEF Settle, End, Reports, TypeOK
<1> QED
  BY <1>1, <1>2, <1>3, <1>4

(* Settle keeps the types.                                                 *)
LEMMA SettledType ==
  ASSUME TypeOK, NEW r \in Runners, Settle(r, requestFromPending)
  PROVE  /\ pc' \in [Runners -> Waiting \union Running \union {"idle", "ended", "dead"}]
         /\ exit' \in [Runners -> {"none", "success", "operational", "interrupted", "expired"}]
<1>1. /\ pc' = [pc EXCEPT ![r] = pc'[r]]
      /\ pc'[r] \in Waiting \union Running \union {"idle", "ended", "dead"}
  BY Settled DEF Waiting, Running
<1>2. pc \in [Runners -> Waiting \union Running \union {"idle", "ended", "dead"}]
  BY DEF TypeOK
<1> QED
  BY <1>1, <1>2, Settled

(* A runner that waits keeps the types.                                    *)
LEMMA WaitType ==
  ASSUME TypeOK, NEW r \in Runners,
         Attach(r) \/ Wait(r) \/ TimerFires(r) \/ HearRequest(r)
  PROVE  TypeOK'
<1> USE ShareSessionAssumption
<1>1. CASE Attach(r)
  BY <1>1 DEF Attach, TypeOK, cloudVars, Waiting
<1>2. CASE Create(r)
  BY <1>2 DEF Create, TypeOK, Waiting
<1>3. CASE Connect(r)
  <2>1. Settle(r, requestFromPending)
    BY <1>3 DEF Connect
  <2> QED
    BY <1>3, <2>1, SettledType DEF Connect, TypeOK, cloudVars
<1>4. CASE Recover(r)
  <2>1. Settle(r, requestFromPending)
    BY <1>4 DEF Recover
  <2> QED
    BY <1>4, <2>1, SettledType DEF Recover, Fault, TypeOK, cloudVars
<1>5. CASE HearClosed(r)
  BY <1>5 DEF HearClosed, End, TypeOK, cloudVars, Waiting
<1>6. CASE AskPending(r)
  <2>1. Settle(r, requestFromPending)
    BY <1>6 DEF AskPending
  <2> QED
    BY <1>6, <2>1, SettledType DEF AskPending, TypeOK, cloudVars
<1>7. CASE FinalCheck(r)
  <2>1. /\ query' \in [Runners -> {"none", "answered", "failed"}]
        /\ UNCHANGED <<cloudVars, heard, cancelled, trail, uploads, header, ran, attaches,
                       file, faults>>
    BY <1>7 DEF FinalCheck, TypeOK
  <2>2. \/ \E how \in {"interrupted", "expired"} : End(r, how)
        \/ Settle(r, requestFromPending)
    BY <1>7 DEF FinalCheck
  <2>3. /\ pc' \in [Runners -> Waiting \union Running \union {"idle", "ended", "dead"}]
        /\ exit' \in [Runners -> {"none", "success", "operational", "interrupted", "expired"}]
    <3>1. CASE \E how \in {"interrupted", "expired"} : End(r, how)
      BY <3>1 DEF End, TypeOK
    <3>2. CASE Settle(r, requestFromPending)
      BY <3>2, SettledType
    <3> QED
      BY <2>2, <3>1, <3>2
  <2> QED
    BY <2>1, <2>3 DEF TypeOK, cloudVars
<1>8. CASE FinalCheckFails(r)
  BY <1>8 DEF FinalCheckFails, Fault, End, TypeOK, cloudVars
<1>9. CASE WaitFails(r)
  BY <1>9 DEF WaitFails, Fault, End, TypeOK, cloudVars
<1>10. CASE TimerFires(r)
  BY <1>10 DEF TimerFires, TypeOK, cloudVars, Waiting
<1>11. CASE HearRequest(r)
  BY <1>11 DEF HearRequest, TypeOK, cloudVars, Running
<1> QED
  BY <1>1, <1>2, <1>3, <1>4, <1>5, <1>6, <1>7, <1>8, <1>9, <1>10, <1>11 DEF Wait

(* A runner that waits moves.                                              *)
LEMMA WaitMoves ==
  ASSUME IInv, NEW r \in Runners,
         Attach(r) \/ Wait(r) \/ TimerFires(r) \/ HearRequest(r)
  PROVE  Moves(r)
<1> USE ShareSessionAssumption DEF Moves, Fresh, InStep, Waiting
<1>1. TypeOK /\ (pc[r] \in Waiting => trail[r] = << >>) /\ (pc[r] = "check" => r = Creator /\ past)
  BY DEF IInv, TrailPlaced, CreatorPlaced
<1>2. CASE Attach(r)
  BY <1>1, <1>2 DEF Attach, TypeOK, cloudVars, Reports
<1>3. CASE Create(r)
  BY <1>1, <1>3 DEF Create, TypeOK, Reports
<1>4. CASE Connect(r)
  BY <1>1, <1>4, Settled DEF Connect, TypeOK, cloudVars
<1>5. CASE Recover(r)
  BY <1>1, <1>5, Settled DEF Recover, Fault, TypeOK, cloudVars
<1>6. CASE HearClosed(r)
  BY <1>1, <1>6 DEF HearClosed, End, TypeOK, cloudVars, Reports
<1>7. CASE AskPending(r)
  BY <1>1, <1>7, Settled DEF AskPending, TypeOK, cloudVars
<1>8. CASE FinalCheck(r)
  <2>1. /\ query' = [query EXCEPT ![r] = query'[r]]
        /\ pc[r] = "check"
        /\ UNCHANGED <<past, requested, run, events, stored, cancelled, trail, uploads, header,
                       ran, file, faults>>
    BY <1>1, <1>8 DEF FinalCheck, TypeOK, cloudVars
  <2>2. CASE cancelled[r]
    BY <1>1, <1>8, <2>1, <2>2 DEF FinalCheck, End, TypeOK, Reports
  <2>3. CASE ~cancelled[r] /\ requestFromPending = "nothing"
    <3>1. ~requested
      BY <1>1, <2>3 DEF requestFromPending, TypeOK
    <3>2. End(r, "expired")
      BY <1>8, <2>3 DEF FinalCheck
    <3>3. r = Creator
      BY <1>8 DEF FinalCheck, IInv, CreatorPlaced
    <3> QED
      BY <1>1, <2>1, <3>1, <3>2, <3>3 DEF End, TypeOK, Reports
  <2>4. CASE ~cancelled[r] /\ requestFromPending # "nothing"
    BY <1>1, <1>8, <2>1, <2>4, Settled DEF FinalCheck, TypeOK
  <2> QED
    BY <2>2, <2>3, <2>4
<1>9. CASE FinalCheckFails(r)
  BY <1>1, <1>9 DEF FinalCheckFails, Fault, End, TypeOK, cloudVars, Reports
<1>10. CASE WaitFails(r)
  BY <1>1, <1>10 DEF WaitFails, Fault, End, TypeOK, cloudVars, Reports
<1>11. CASE TimerFires(r)
  BY <1>1, <1>11 DEF TimerFires, TypeOK, cloudVars, Reports
<1>12. CASE HearRequest(r)
  BY <1>1, <1>12 DEF HearRequest, TypeOK, cloudVars, Reports
<1> QED
  BY <1>2, <1>3, <1>4, <1>5, <1>6, <1>7, <1>8, <1>9, <1>10, <1>11, <1>12 DEF Wait

-----------------------------------------------------------------------------
(* Carrying the Request out.                                               *)

(* The types survive a submission.                                         *)
LEMMA SubmitsType ==
  ASSUME IInv, NEW r \in Runners, NEW type \in Types, Submits(r, type),
         share' \in {share, "completed"}, faults' \in 0 .. MaxFaults,
         UNCHANGED <<heard, attaches>>,
         exit' \in [Runners -> {"none", "success", "operational", "interrupted", "expired"}],
         ran'[r] \in BOOLEAN
  PROVE  TypeOK'
<1>1. events' \in Seq(Nat \X Types)
  <2>1. events \in Seq(Nat \X Types) /\ trail[r] \in Seq(Types)
    BY DEF IInv, TypeOK, Types
  <2> DEFINE Recorded == Nat \X Types
             new      == <<Len(trail[r]), type>>
  <2>2. new \in Recorded
    BY <2>1
  <2>3. events' = events \/ events' = Append(events, new)
    BY DEF Submits, Taken
  <2>4. events \in Seq(Recorded)
    BY <2>1
  <2> HIDE DEF Recorded, new
  <2>5. events' \in Seq(Recorded)
    BY <2>2, <2>3, <2>4
  <2> QED
    BY <2>5 DEF Recorded
<1>2. trail' \in [Runners -> Seq(Types)]
  <2>1. trail \in [Runners -> Seq(Types)]
    BY DEF IInv, TypeOK, Types
  <2>2. Append(trail[r], type) \in Seq(Types)
    BY <2>1
  <2> QED
    BY <2>1, <2>2 DEF Submits
<1>3. pc' \in [Runners -> Waiting \union Running \union {"idle", "ended", "dead"}]
  BY DEF Submits, IInv, TypeOK, Left, Running
<1>4. ran' \in [Runners -> BOOLEAN]
  BY DEF Submits, IInv, TypeOK
<1> QED
  BY <1>1, <1>2, <1>3, <1>4 DEF Submits, IInv, TypeOK, Types

(* The three events of a Run that goes well, and those of the other ends.  *)
LEMMA ExecuteSubmits ==
  ASSUME IInv, NEW r \in Runners,
         Created(r) \/ StartStep(r) \/ Succeed(r) \/ Fail(r) \/ Interrupt(r)
  PROVE  /\ \E type \in Types : Submits(r, type)
         /\ TypeOK'
<1> USE ShareSessionAssumption
<1>1. TypeOK
  BY DEF IInv
<1>2. ASSUME NEW type \in Types, NEW to \in {"steps", "script"}, type \notin Outcomes,
             pc[r] \in {"created", "steps"},
             OnEvent(r, type, GoOn(r, to), StillRunning(r)),
             ran' = [ran EXCEPT ![r] = ran'[r]],
             ran'[r] = ran[r] \/ ran'[r] = (pc'[r] = "script")
      PROVE  /\ Submits(r, type) /\ ran'[r] \in BOOLEAN
             /\ faults' \in 0 .. MaxFaults /\ exit' = exit
  <2>1. \/ Taken(r, type) /\ faults' = faults /\ ~cancelled[r] /\ GoOn(r, to)
        \/ StillRunning(r)
    BY <1>1, <1>2
       DEF OnEvent, Acknowledged, Record, Taken
  <2>2. run = r /\ (ran[r] => run = r) /\ ran[r] \in BOOLEAN
    BY <1>2 DEF IInv, TypeOK, RunOwned, InStep
  <2>3. /\ pc' = [pc EXCEPT ![r] = pc'[r]]
        /\ pc'[r] \in {"steps", "script", "failing", "aborting"}
        /\ pc'[r] \in InStep => Taken(r, type)
        /\ faults' \in {faults, faults + 1} /\ faults' \in 0 .. MaxFaults
        /\ faults' = 0 /\ ~cancelled[r] => Taken(r, type)
        /\ exit' = exit
    BY <1>1, <1>2, <2>1, <2>2 DEF GoOn, StillRunning, Unacknowledged, Failing, Fault, TypeOK, InStep
  <2> QED
    BY <1>1, <1>2, <2>2, <2>3
       DEF Submits, Reports, Running, InStep, Outcomes, OnEvent, Acknowledged, Record, Taken
<1>3. ASSUME NEW type \in {"run_failed", "run_interrupted"},
             NEW how \in {"operational", "interrupted"},
             pc[r] \in Running, Outcome(r, type, how)
      PROVE  /\ Submits(r, type)
             /\ faults' \in 0 .. MaxFaults
             /\ exit' = [exit EXCEPT ![r] = how]
  <2>1. type \in Types
    BY DEF Types, Outcomes
  <2>2. \/ Taken(r, type) /\ faults' = faults /\ End(r, how)
        \/ End(r, how) /\ (cancelled[r] \/ run # r) /\ UNCHANGED faults
        \/ End(r, how) /\ run = r /\ Fault
    BY <1>1, <1>3, <2>1 DEF Outcome, OnEvent, Acknowledged, Record, Taken
  <2>3. /\ faults' \in {faults, faults + 1} /\ faults' \in 0 .. MaxFaults
        /\ faults' = 0 /\ ~cancelled[r] /\ run = r => Taken(r, type)
        /\ pc' = [pc EXCEPT ![r] = pc'[r]]
        /\ pc'[r] \in Left \ {"dead"}
        /\ exit' = [exit EXCEPT ![r] = how] /\ exit'[r] = how
        /\ r = Creator => pc'[r] = "ended"
    BY <1>1, <2>2 DEF End, Fault, TypeOK, Left
  <2>4. ran' = [ran EXCEPT ![r] = ran'[r]] /\ (ran'[r] => run = r)
    BY <1>3 DEF Outcome, IInv, TypeOK, RunOwned
  <2> QED
    BY <1>1, <1>3, <2>1, <2>3, <2>4
       DEF Outcome, Submits, Reports, Left, InStep, OnEvent, Acknowledged, Record, Taken
<1>4. CASE Created(r)
  <2>1. /\ Submits(r, "run_created") /\ ran'[r] \in BOOLEAN
        /\ faults' \in 0 .. MaxFaults /\ exit' = exit
    BY <1>1, <1>2, <1>4 DEF Created, Types, Outcomes, TypeOK
  <2>2. "run_created" \in Types
    BY DEF Types
  <2> QED
    BY <1>1, <1>4, <2>1, <2>2, SubmitsType DEF Created, TypeOK, OnEvent, Acknowledged, Record, Taken
<1>5. CASE StartStep(r)
  <2>1. ran' = [ran EXCEPT ![r] = ran'[r]] /\ ran'[r] = (pc'[r] = "script")
    BY <1>1, <1>5 DEF StartStep, TypeOK
  <2>2. /\ Submits(r, "step_started") /\ ran'[r] \in BOOLEAN
        /\ faults' \in 0 .. MaxFaults /\ exit' = exit
    BY <1>2, <1>5, <2>1 DEF StartStep, Types, Outcomes
  <2>3. "step_started" \in Types
    BY DEF Types
  <2> QED
    BY <1>1, <1>5, <2>2, <2>3, SubmitsType
       DEF StartStep, TypeOK, OnEvent, Acknowledged, Record, Taken
<1>6. CASE Succeed(r)
  <2> DEFINE type == "run_succeeded"
             otherwise == \/ cancelled[r] /\ End(r, "interrupted") /\ UNCHANGED faults
                          \/ run = r /\ End(r, "operational") /\ Fault
  <2>1. type \in Types /\ pc[r] = "finish"
    BY <1>6 DEF Succeed, Types, Outcomes
  <2>2. Len(events) = Len(trail[r]) /\ ValidPendingRun
    BY <2>1 DEF IInv, TrailPlaced, InStep
  <2>3. /\ Taken(r, type) \/ events' = events
        /\ \/ Taken(r, type) /\ faults' = faults /\ End(r, "success")
           \/ otherwise
    BY <1>1, <1>6, <2>1 DEF Succeed, OnEvent, Acknowledged, Record, Taken
  <2>4. /\ faults' \in {faults, faults + 1} /\ faults' \in 0 .. MaxFaults
        /\ faults' = 0 /\ ~cancelled[r] /\ run = r => Taken(r, type)
        /\ pc' = [pc EXCEPT ![r] = pc'[r]]
        /\ pc'[r] \in Left \ {"dead"}
        /\ exit' = [exit EXCEPT ![r] = exit'[r]]
        /\ exit'[r] \in {"success", "interrupted", "operational"}
        /\ exit'[r] = "success" => Taken(r, type)
        /\ r = Creator => pc'[r] = "ended"
    BY <1>1, <2>3 DEF End, Fault, TypeOK, Left
  <2>5. ran' = [ran EXCEPT ![r] = ran'[r]] /\ (ran'[r] => run = r) /\ ran'[r] \in BOOLEAN
    BY <1>6 DEF Succeed, IInv, TypeOK, RunOwned
  <2>6. Submits(r, type)
    BY <1>1, <1>6, <2>1, <2>2, <2>3, <2>4, <2>5
       DEF Succeed, Submits, Reports, Running, Left, InStep, OnEvent, Acknowledged, Record, Taken
  <2>7. exit' \in [Runners -> {"none", "success", "operational", "interrupted", "expired"}]
    BY <1>1, <2>4 DEF TypeOK
  <2> QED
    BY <1>1, <1>6, <2>1, <2>4, <2>5, <2>6, <2>7, SubmitsType
       DEF Succeed, OnEvent, Acknowledged, Record, Taken
<1>7. ASSUME NEW type \in {"run_failed", "run_interrupted"},
             NEW how \in {"operational", "interrupted"},
             pc[r] \in Running, Outcome(r, type, how)
      PROVE  (\E t \in Types : Submits(r, t)) /\ TypeOK'
  <2>1. type \in Types
    BY DEF Types, Outcomes
  <2>2. /\ Submits(r, type) /\ faults' \in 0 .. MaxFaults
        /\ exit' \in [Runners -> {"none", "success", "operational", "interrupted", "expired"}]
    BY <1>1, <1>3, <1>7 DEF TypeOK
  <2>3. /\ share' \in {share, "completed"} /\ UNCHANGED <<heard, attaches>>
        /\ ran'[r] \in BOOLEAN
    BY <1>1, <1>7, <2>1 DEF Outcome, TypeOK, OnEvent, Acknowledged, Record, Taken
  <2> QED
    BY <2>1, <2>2, <2>3, SubmitsType
<1>8. CASE Fail(r)
  BY <1>7, <1>8 DEF Fail, Running
<1>9. CASE Interrupt(r)
  BY <1>7, <1>9 DEF Interrupt, Running
<1> QED
  BY <1>4, <1>5, <1>6, <1>8, <1>9

(* The script, the hashing and the end of the uploads move the runner on.  *)
LEMMA AloneKeeps ==
  ASSUME IInv, NEW r \in Runners, EndStep(r) \/ Uploaded(r)
  PROVE  IInv'
<1>1. TypeOK /\ (pc[r] = "upload" => uploads[r] <= NumArtifacts)
  BY ShareSessionAssumption DEF IInv, TypeOK
<1>2. TypeOK'
  BY <1>1 DEF EndStep, Uploaded, Failing, TypeOK, cloudVars, Running
<1>3. Moves(r)
  BY <1>1 DEF EndStep, Uploaded, Failing, TypeOK, cloudVars, Moves, Reports, Fresh, InStep, Waiting
<1> QED
  BY <1>2, <1>3, MovesKeeps

(* Hashing a file changes no file.                                         *)
LEMMA HashKeeps ==
  ASSUME IInv, NEW r \in Runners, HashArtifact(r)
  PROVE  IInv'
<1>1. TypeOK'
  BY ShareSessionAssumption DEF HashArtifact, IInv, TypeOK, cloudVars, Artifacts, Snapshot
<1>2. ASSUME NEW q \in Runners
      PROVE  (RunOwned(q) /\ TrailPlaced(q) /\ UploadsStored(q) /\ TrailShared(q))'
  BY DEF HashArtifact, IInv, TypeOK, cloudVars, RunOwned, TrailPlaced, UploadsStored, TrailShared,
         ValidPendingRun
<1> QED
  BY <1>1, <1>2 DEF HashArtifact, IInv, cloudVars, SuccessIsLast, terminalRunStatus, CreatorPlaced,
         SuccessIsShared, ValidPendingRun, ExpiryIsTrue

(* A reservation gives the Run to a runner only while it is nobody's.      *)
LEMMA OnRunKeeps ==
  ASSUME IInv, NEW r \in Runners, OnRun(r)
  PROVE  IInv'
<1> USE ShareSessionAssumption
<1>1. /\ TypeOK /\ pc[r] = "publish" /\ trail[r] = << >>
      /\ r # None
  BY DEF OnRun, IInv, TrailPlaced, Fresh, Runners
<1>2. /\ UNCHANGED <<share, past, requested, events, stored, heard, cancelled, exit, query, trail,
                     uploads, header, ran, attaches, file>>
      /\ pc' = [pc EXCEPT ![r] = pc'[r]]
      /\ run' = run \/ (run = None /\ run' = r)
      /\ \/ pc'[r] = "created" /\ run = None /\ run' = r /\ faults' = faults
         \/ /\ pc'[r] \in {"failing", "aborting"}
            /\ \/ faults' = faults /\ (cancelled[r] \/ run' = run)
               \/ faults' = faults + 1 /\ faults < MaxFaults
  BY <1>1 DEF OnRun, Acknowledged, Unacknowledged, Failing, Fault, TypeOK
<1>3. TypeOK'
  <2>1. /\ pc' \in [Runners -> Waiting \union Running \union {"idle", "ended", "dead"}]
        /\ run' \in Runners \union {None}
        /\ faults' \in 0 .. MaxFaults
    <3>1. pc'[r] \in Running
      BY <1>2 DEF Running
    <3>2. faults' = faults \/ (faults' = faults + 1 /\ faults < MaxFaults)
      BY <1>2
    <3>3. run' \in Runners \union {None}
      BY <1>1, <1>2 DEF TypeOK
    <3>4. faults' \in 0 .. MaxFaults
      BY <1>1, <3>2 DEF TypeOK
    <3>5. pc' \in [Runners -> Waiting \union Running \union {"idle", "ended", "dead"}]
      <4>1. pc' = [pc EXCEPT ![r] = pc'[r]]
        BY <1>2
      <4>2. pc \in [Runners -> Waiting \union Running \union {"idle", "ended", "dead"}]
        BY <1>1 DEF TypeOK
      <4> QED
        BY <3>1, <4>1, <4>2
    <3> QED
      BY <3>3, <3>4, <3>5
  <2> QED
    BY <1>1, <1>2, <2>1 DEF TypeOK
<1>4. terminalRunStatus' = terminalRunStatus /\ ValidPendingRun' = ValidPendingRun
  BY <1>2 DEF terminalRunStatus, ValidPendingRun
<1>5. (run = None => events = << >>)'
  BY <1>1, <1>2 DEF IInv
<1>6. \A q \in Runners : q # r => pc'[q] = pc[q]
  BY <1>1, <1>2 DEF TypeOK
<1>7. ASSUME NEW q \in Runners
      PROVE  (RunOwned(q) /\ TrailPlaced(q) /\ UploadsStored(q) /\ TrailShared(q))'
  <2>1. RunOwned(q)'
    BY <1>1, <1>2, <1>6 DEF IInv, RunOwned, Runners, InStep
  <2>2. TrailPlaced(q)'
    BY <1>1, <1>2, <1>4, <1>6 DEF IInv, TrailPlaced, InStep, Fresh
  <2>3. UploadsStored(q)'
    BY <1>1, <1>2, <1>6 DEF IInv, UploadsStored
  <2>4. TrailShared(q)'
    <3>1. faults \in Nat
      BY <1>1 DEF TypeOK
    <3>2. CASE q = r
      BY <1>1, <1>2, <3>1, <3>2 DEF IInv, TrailShared
    <3>3. CASE q # r
      BY <1>2, <3>1, <3>3 DEF IInv, TrailShared
    <3> QED
      BY <3>2, <3>3
  <2> QED
    BY <2>1, <2>2, <2>3, <2>4
<1>8. SuccessIsLast'
  BY <1>1, <1>2, <1>4, <1>6 DEF IInv, SuccessIsLast, Left, Runners
<1>9. CreatorPlaced' /\ SuccessIsShared' /\ ExpiryIsTrue'
  BY <1>1, <1>2, <1>4, <1>6 DEF IInv, CreatorPlaced, SuccessIsShared, ExpiryIsTrue, Runners
<1> QED
  BY <1>3, <1>5, <1>7, <1>8, <1>9 DEF IInv

(* An upload only ever adds the artifact its runner has got to.            *)
LEMMA UploadKeeps ==
  ASSUME IInv, NEW r \in Runners, UploadArtifact(r)
  PROVE  IInv'
<1> USE ShareSessionAssumption
<1> DEFINE a == uploads[r] + 1
<1>1. /\ TypeOK /\ pc[r] = "upload" /\ header[r] # "none" /\ run = r
      /\ uploads[r] \in Nat /\ uploads[r] < NumArtifacts /\ a \in Artifacts
  <2>1. TypeOK /\ pc[r] = "upload" /\ header[r] # "none"
    BY DEF UploadArtifact, IInv
  <2>2. run = r /\ uploads[r] < NumArtifacts
    BY <2>1 DEF IInv, RunOwned, UploadsStored, InStep
  <2> QED
    BY <2>1, <2>2 DEF TypeOK, Artifacts
<1>2. /\ UNCHANGED <<share, past, requested, run, events, heard, cancelled, exit, query, trail,
                     ran, attaches, file>>
      /\ header' = [header EXCEPT ![r] = "none"]
      /\ stored' = stored \/ stored' = [stored EXCEPT ![a] = header[r]]
      /\ \/ /\ header[r] = "collected" /\ stored' = [stored EXCEPT ![a] = header[r]]
            /\ uploads' = [uploads EXCEPT ![r] = a] /\ pc' = pc
         \/ /\ pc' = [pc EXCEPT ![r] = pc'[r]] /\ pc'[r] \in {"failing", "aborting"}
            /\ uploads' = uploads
      /\ faults' \in {faults, faults + 1} /\ faults' \in 0 .. MaxFaults
  BY <1>1 DEF UploadArtifact, Acknowledged, Unacknowledged, Failing, Fault, Snapshot,
       sameArtifactMetadata, TypeOK
<1>3. TypeOK'
  <2>1. pc' \in [Runners -> Waiting \union Running \union {"idle", "ended", "dead"}]
    <3>1. pc' = pc \/ (pc' = [pc EXCEPT ![r] = pc'[r]] /\ pc'[r] \in Running)
      BY <1>2 DEF Running
    <3> QED
      BY <1>1, <3>1 DEF TypeOK
  <2>2. stored' \in [Artifacts -> {"none", "collected", "changed"}]
    BY <1>1, <1>2 DEF TypeOK
  <2>3. /\ uploads' \in [Runners -> 0 .. NumArtifacts]
        /\ header' \in [Runners -> {"none", "collected", "changed"}]
    <3>1. uploads' = uploads \/ uploads' = [uploads EXCEPT ![r] = a]
      BY <1>2
    <3>2. a \in 0 .. NumArtifacts
      BY <1>1
    <3>3. uploads' \in [Runners -> 0 .. NumArtifacts]
      BY <1>1, <3>1, <3>2 DEF TypeOK
    <3>4. header' \in [Runners -> {"none", "collected", "changed"}]
      BY <1>1, <1>2 DEF TypeOK
    <3> QED
      BY <3>3, <3>4
  <2> QED
    BY <1>1, <1>2, <2>1, <2>2, <2>3 DEF TypeOK
<1>4. terminalRunStatus' = terminalRunStatus /\ ValidPendingRun' = ValidPendingRun
  BY <1>2 DEF terminalRunStatus, ValidPendingRun
<1>5. /\ \A q \in Runners : q # r => /\ pc'[q] = pc[q] /\ uploads'[q] = uploads[q]
                                     /\ header'[q] = header[q] /\ uploads[q] \in Nat
      /\ header'[r] = "none"
  BY <1>1, <1>2 DEF TypeOK
<1>6. ASSUME NEW q \in Runners
      PROVE  (RunOwned(q) /\ TrailPlaced(q) /\ UploadsStored(q) /\ TrailShared(q))'
  <2>1. RunOwned(q)'
    BY <1>1, <1>2, <1>5 DEF IInv, RunOwned, InStep
  <2>2. TrailPlaced(q)'
    BY <1>1, <1>2, <1>4, <1>5 DEF IInv, TrailPlaced, InStep, Fresh, Waiting
  <2>3. UploadsStored(q)'
    <3>1. CASE q = r
      <4>1. \A i \in 1 .. uploads'[r] : stored'[i] = "collected"
        BY <1>1, <1>2 DEF IInv, TypeOK, UploadsStored, Artifacts
      <4> QED
        BY <3>1, <4>1, <1>1, <1>2, <1>5 DEF UploadsStored
    <3>2. CASE q # r
      <4>1. uploads[q] = 0
        BY <3>2, <1>1, <1>5 DEF IInv, RunOwned
      <4> QED
        BY <3>2, <4>1, <1>5 DEF IInv, UploadsStored
    <3> QED
      BY <3>1, <3>2
  <2>4. TrailShared(q)'
    <3>1. faults' = 0 => faults = 0
      BY <1>1, <1>2 DEF TypeOK
    <3> QED
      BY <1>2, <3>1 DEF IInv, TrailShared
  <2> QED
    BY <2>1, <2>2, <2>3, <2>4
<1>7. terminalRunStatus # "run_succeeded"
  BY <1>1 DEF IInv, SuccessIsLast, Left
<1>8. SuccessIsLast'
  BY <1>4, <1>7 DEF SuccessIsLast
<1>9. CreatorPlaced'
  BY <1>1, <1>2, <1>5 DEF IInv, CreatorPlaced, Runners
<1>10. SuccessIsShared' /\ ExpiryIsTrue'
  BY <1>2, <1>4 DEF IInv, SuccessIsShared, ExpiryIsTrue
<1> QED
  BY <1>2, <1>3, <1>6, <1>8, <1>9, <1>10 DEF IInv

-----------------------------------------------------------------------------
(* Everybody else.                                                         *)

(* Ctrl-C and a crash say nothing about what was recorded.                 *)
LEMMA StopKeeps ==
  ASSUME IInv, NEW r \in Runners, CtrlC(r) \/ Crash(r)
  PROVE  IInv'
<1>1. CASE CtrlC(r)
  <2>1. TypeOK'
    BY <1>1 DEF CtrlC, IInv, TypeOK, cloudVars
  <2>2. ASSUME NEW q \in Runners
        PROVE  (RunOwned(q) /\ TrailPlaced(q) /\ UploadsStored(q) /\ TrailShared(q))'
    BY <1>1 DEF CtrlC, IInv, TypeOK, cloudVars, RunOwned, TrailPlaced, UploadsStored, TrailShared,
           ValidPendingRun
  <2> QED
    BY <1>1, <2>1, <2>2 DEF CtrlC, IInv, cloudVars, SuccessIsLast, terminalRunStatus,
           CreatorPlaced, SuccessIsShared, ValidPendingRun, ExpiryIsTrue
<1>2. CASE Crash(r)
  <2>1. TypeOK'
    BY <1>2, ShareSessionAssumption DEF Crash, Fault, IInv, TypeOK, cloudVars
  <2>2. Moves(r)
    BY <1>2 DEF Crash, Fault, IInv, TypeOK, cloudVars, Moves, Reports, Fresh, InStep, Waiting
  <2> QED
    BY <2>1, <2>2, MovesKeeps
<1> QED
  BY <1>1, <1>2

(* The guest, the clock, the host at another terminal and other programs.  *)
LEMMA OthersKeep ==
  ASSUME IInv, SubmitRequest \/ Expire \/ CancelShare \/ \E a \in Artifacts : ChangeFile(a)
  PROVE  IInv'
<1> USE ShareSessionAssumption DEF cloudVars, runnerVars
<1>1. /\ UNCHANGED <<run, events, stored, runnerVars>>
      /\ past => past'
      /\ requested' # requested => ~past
      /\ faults' \in {faults, faults + 1}
  BY DEF SubmitRequest, Expire, CancelShare, ChangeFile, Fault
<1>2. TypeOK'
  <2>1. CASE SubmitRequest
    BY <2>1 DEF SubmitRequest, IInv, TypeOK
  <2>2. CASE Expire
    BY <2>2 DEF Expire, IInv, TypeOK
  <2>3. CASE CancelShare
    BY <2>3 DEF CancelShare, Fault, IInv, TypeOK
  <2>4. ASSUME NEW a \in Artifacts, ChangeFile(a)
        PROVE  TypeOK'
    BY <2>4 DEF ChangeFile, Fault, IInv, TypeOK
  <2> QED
    BY <2>1, <2>2, <2>3, <2>4
<1>3. terminalRunStatus' = terminalRunStatus /\ ValidPendingRun' = ValidPendingRun
  BY <1>1 DEF terminalRunStatus, ValidPendingRun
<1>4. ASSUME NEW q \in Runners
      PROVE  (RunOwned(q) /\ TrailPlaced(q) /\ UploadsStored(q) /\ TrailShared(q))'
  <2>1. (RunOwned(q) /\ TrailPlaced(q) /\ UploadsStored(q))'
    BY <1>1, <1>3 DEF IInv, RunOwned, TrailPlaced, UploadsStored
  <2>2. faults' = 0 => faults = 0
    BY <1>1 DEF IInv, TypeOK
  <2> QED
    BY <1>1, <2>1, <2>2 DEF IInv, TrailShared
<1>5. SuccessIsLast' /\ CreatorPlaced' /\ SuccessIsShared'
  BY <1>1, <1>3 DEF IInv, SuccessIsLast, CreatorPlaced, SuccessIsShared
<1>6. ExpiryIsTrue'
  BY <1>1 DEF IInv, TypeOK, ExpiryIsTrue
<1> QED
  BY <1>1, <1>2, <1>4, <1>5, <1>6 DEF IInv

-----------------------------------------------------------------------------
(* The theorems.                                                           *)

(* IInv holds before the Share is created,                                 *)
LEMMA InitHolds == Init => IInv
<1> SUFFICES ASSUME Init
             PROVE  IInv
  OBVIOUS
<1> USE ShareSessionAssumption DEF Init
<1>1. TypeOK
  <2>1. pc \in [Runners -> Waiting \union Running \union {"idle", "ended", "dead"}]
    BY DEF Waiting
  <2>2. /\ events \in Seq(Nat \X ({"run_created", "step_started"} \union Outcomes))
        /\ trail \in [Runners -> Seq({"run_created", "step_started"} \union Outcomes)]
    OBVIOUS
  <2>3. /\ heard \in [Runners -> SUBSET {"request_available", "share_closed"}]
        /\ cancelled \in [Runners -> BOOLEAN] /\ ran \in [Runners -> BOOLEAN]
        /\ exit \in [Runners -> {"none", "success", "operational", "interrupted", "expired"}]
        /\ query \in [Runners -> {"none", "answered", "failed"}]
        /\ uploads \in [Runners -> 0 .. NumArtifacts]
        /\ header \in [Runners -> {"none", "collected", "changed"}]
    OBVIOUS
  <2>4. /\ stored \in [Artifacts -> {"none", "collected", "changed"}]
        /\ file \in [Artifacts -> {"collected", "changed"}]
        /\ attaches \in 0 .. MaxAttaches /\ faults \in 0 .. MaxFaults
    OBVIOUS
  <2> QED
    BY <2>1, <2>2, <2>3, <2>4 DEF TypeOK
<1>2. terminalRunStatus = "running"
  BY DEF terminalRunStatus
<1>3. ASSUME NEW r \in Runners
      PROVE  RunOwned(r) /\ TrailPlaced(r) /\ UploadsStored(r) /\ TrailShared(r)
  BY DEF RunOwned, TrailPlaced, UploadsStored, TrailShared, InStep, Runners
<1>4. SuccessIsLast /\ SuccessIsShared /\ ExpiryIsTrue
  BY <1>2 DEF SuccessIsLast, SuccessIsShared, ExpiryIsTrue, Runners
<1>5. CreatorPlaced
  BY DEF CreatorPlaced, Runners
<1> QED
  BY <1>1, <1>3, <1>4, <1>5 DEF IInv

(* every step keeps it,                                                    *)
LEMMA StepHolds == IInv /\ [Next]_vars => IInv'
<1> SUFFICES ASSUME IInv, [Next]_vars
             PROVE  IInv'
  OBVIOUS
<1>1. ASSUME NEW r \in Runners, Attach(r) \/ Wait(r) \/ TimerFires(r) \/ HearRequest(r)
      PROVE  IInv'
  BY <1>1, WaitType, WaitMoves, MovesKeeps DEF IInv
<1>2. ASSUME NEW r \in Runners, Execute(r)
      PROVE  IInv'
  BY <1>2, OnRunKeeps, ExecuteSubmits, SubmitsKeeps, AloneKeeps, HashKeeps, UploadKeeps DEF Execute
<1>3. CASE Others
  BY <1>3, StopKeeps, OthersKeep DEF Others
<1>4. CASE UNCHANGED vars
  <2> USE <1>4 DEF vars, cloudVars, runnerVars
  <2>1. TypeOK' /\ SuccessIsLast' /\ CreatorPlaced' /\ SuccessIsShared' /\ ExpiryIsTrue'
    BY DEF IInv, TypeOK, SuccessIsLast, CreatorPlaced, SuccessIsShared, ExpiryIsTrue,
           terminalRunStatus, ValidPendingRun
  <2>2. ASSUME NEW q \in Runners
        PROVE  (RunOwned(q) /\ TrailPlaced(q) /\ UploadsStored(q) /\ TrailShared(q))'
    BY DEF IInv, RunOwned, TrailPlaced, UploadsStored, TrailShared, ValidPendingRun
  <2> QED
    BY <2>1, <2>2 DEF IInv
<1> QED
  BY <1>1, <1>2, <1>3, <1>4 DEF Next

(* and so it always holds.                                                 *)
LEMMA Inductive == Spec => []IInv
  BY InitHolds, StepHolds, PTL DEF Spec

(* Every variable keeps to its values, the bounds on failures included.    *)
THEOREM TypeCorrect == Spec => []TypeOK
<1>1. IInv => TypeOK
  BY DEF IInv
<1> QED
  BY <1>1, Inductive, PTL

(* However many commands of the Identity meet on the Share, scripts run for *)
(* its Request in one of them only.                                        *)
THEOREM OnlyOneExecutes == Spec => []OneExecutor
<1>1. IInv => OneExecutor
  BY DEF IInv, RunOwned, OneExecutor
<1> QED
  BY <1>1, Inductive, PTL

(* A Run that succeeded has left every artifact with the coordinator, with *)
(* the digest it returns, whatever wrote to the snapshots meanwhile.       *)
THEOREM NothingIsMissing == Spec => []ReturnsAreStored
<1>1. IInv => ReturnsAreStored
  BY DEF IInv, SuccessIsLast, ReturnsAreStored
<1> QED
  BY <1>1, Inductive, PTL

(* share exits with success only over a whole trail that ends in success.  *)
THEOREM SuccessIsReal == Spec => []SuccessIsShared
<1>1. IInv => SuccessIsShared
  BY DEF IInv
<1> QED
  BY <1>1, Inductive, PTL

(* share never reports an expiry over a Request the coordinator has taken, *)
(* if its last question was answered.                                      *)
THEOREM ExpiryIsReal == Spec => []ExpiryIsTrue
<1>1. IInv => ExpiryIsTrue
  BY DEF IInv
<1> QED
  BY <1>1, Inductive, PTL

(* Without a failure and without Ctrl-C the recorded events are the trail. *)
THEOREM GuestSeesTheTrail == Spec => []OutcomeIsShared
<1>1. ASSUME IInv, NEW r \in Runners, faults = 0, ~cancelled[r], run = r
      PROVE  [i \in DOMAIN events |-> events[i][2]] = trail[r]
  <2>1. /\ Len(events) = Len(trail[r])
        /\ \A i \in 1 .. Len(events) : events[i][2] = trail[r][i]
    BY <1>1 DEF IInv, TrailShared
  <2>2. events \in Seq(Nat \X Types) /\ trail[r] \in Seq(Types)
    BY <1>1 DEF IInv, TypeOK, Types
  <2>3. /\ DOMAIN events = DOMAIN trail[r]
        /\ \A i \in DOMAIN events : events[i][2] = trail[r][i]
    BY <2>1, <2>2
  <2>4. trail[r] = [i \in DOMAIN trail[r] |-> trail[r][i]]
    BY <2>2
  <2> QED
    BY <2>3, <2>4
<1>2. IInv => OutcomeIsShared
  BY <1>1 DEF OutcomeIsShared
<1> QED
  BY <1>2, Inductive, PTL
=============================================================================
