------------------------ MODULE RunRefinement_proofs -------------------------
(***************************************************************************)
(* Proofs about what RunExecution shows to others.  All parts rest on      *)
(* IInv of RunExecution_proofs: a Run has one writer, and the place of     *)
(* that writer tells what it may still do.                                 *)
(*                                                                         *)
(* The first part is about the coordinator: the numbers of the events it   *)
(* gets, and what has been recorded when a script is started.  Counted     *)
(* compares the number the coordinator expects with the sequence in        *)
(* memory: they agree wherever the Run is open, and come apart by one only *)
(* on the way to run_failed.  Announced follows step_started from the      *)
(* trail to the coordinator to the script.                                 *)
(*                                                                         *)
(* The second part shows that Execute implements RunRecord: with appends   *)
(* that fail cleanly, every step of every process is a step of the         *)
(* abstract record or changes nothing the record shows.  Recorded says,    *)
(* for every place of the code, what the last event of the trail is and    *)
(* how many Steps it holds; that what is about to be appended may follow;  *)
(* and that a status about to be indexed is one the trail allows.          *)
(*                                                                         *)
(* The third part is about how the index ends.  Way says which places a    *)
(* step of Execute leads to and what it leaves in the index; RowsFirst     *)
(* that a Run has its row before its first event, so that Backfill never   *)
(* builds a record that says more than "running"; QueueInv that an outcome *)
(* in the index is queued but while its own process queues it; SealInv     *)
(* that the index was told the outcome where Execute returns, but for the  *)
(* appends that lose it.                                                   *)
(***************************************************************************)
EXTENDS RunExecution_proofs, FiniteSetTheorems

(* The number that follows the last event of a list.                       *)
Count(lines) == IF lines = << >> THEN 0 ELSE lines[Len(lines)].seq + 1

LastIs(lines, l) == lines # << >> /\ lines[Len(lines)] = l

Indexed(p, c) == pc[p] \in IndexLocs /\ caller[p] = c

(* Before the first event and between events of a Run that is open.        *)
Open(p) == pc[p] \in OpenLocs \/ Indexed(p, "initialize")

(* What the coordinator has, beside what the process is about to do.       *)
Counted(p) ==
  LET n == Count(remote[run[p]]) IN
  /\ Open(p) => n = seq[p]
  /\ pc[p] = "append" => n = seq[p] \/ (ev[p] = "run_failed" /\ n = seq[p] - 1)
  /\ pc[p] = "publish" \/ Indexed(p, "emit") =>
       n = seq[p] - 1 \/ (ev[p] = "run_failed" /\ n = seq[p] - 2)
  /\ pc[p] = "sealing" => n = seq[p] \/ n = seq[p] - 1

(* What is recorded while an event is on its way, and while a script runs. *)
(* A fragment is left only by an append that failed, after which the only  *)
(* events to come are terminal.                                            *)
Announced(p) ==
  /\ Open(p) \/ (Emitting(p) /\ ev[p] \notin TerminalEvents) => ~EndsTorn(journal[run[p]])
  /\ Emitting(p) /\ next[p] = "execute" => ev[p] = "step_started"
  /\ shared[p] /\ (pc[p] \in BodyLocs \/ (Emitting(p) /\ next[p] \in BodyLocs)) =>
       run[p] \in remoteRun
  /\ pc[p] = "publish" /\ ev[p] \notin TerminalEvents =>
       LastIs(journal[run[p]], [seq |-> seq[p] - 1, type |-> ev[p]])
  /\ pc[p] = "execute" =>
       LET l == [seq |-> seq[p] - 1, type |-> "step_started"] IN
       LastIs(journal[run[p]], l) /\ (shared[p] => LastIs(remote[run[p]], l))

PublishInv ==
  /\ \A r \in Runs : dir[r] = "absent" => remote[r] = << >>
  /\ \A p \in Executors : run[p] = NoRun => seq[p] = 0
  /\ \A p \in Executors : run[p] # NoRun => (shared[p] => Counted(p)) /\ Announced(p)
  /\ GapOnlyBeforeFailure

-----------------------------------------------------------------------------
(* Steps that publish nothing.                                             *)

(* Where such a step of an executor leads to.                              *)
Leads(p) ==
  \/ /\ pc[p] \in OpenLocs /\ pc'[p] \in OpenLocs \ {"execute"}
     /\ pc'[p] \in BodyLocs => pc[p] \in BodyLocs
  \/ /\ pc[p] \in BodyLocs /\ pc'[p] = "append"
     /\ next'[p] = "execute" => ev'[p] = "step_started"
  \/ pc[p] \in OpenLocs /\ pc'[p] = "open" /\ caller'[p] = "initialize"
  \/ pc'[p] = "open" /\ caller'[p] = "manual"
  \/ /\ pc'[p] = "open" /\ caller'[p] = "reseal"
     /\ ev'[p] = ev[p] /\ ev[p] \in {"run_failed", "run_interrupted"}
  \/ pc[p] \in IndexLocs /\ pc'[p] \in IndexLocs /\ UNCHANGED <<caller, ev, next>>
  \/ Indexed(p, "initialize") /\ pc'[p] = "publishRun"
  \/ Indexed(p, "emit") /\ pc'[p] = "publish" /\ UNCHANGED <<ev, next>>
  \/ Indexed(p, "emit") /\ pc'[p] = "sealing" /\ ev[p] # "run_failed"
  \/ /\ pc[p] = "sealing" /\ status[p] \notin Outcomes
     /\ pc'[p] = "append" /\ ev'[p] = "run_failed" /\ next'[p] = "returned"
  \/ pc'[p] \in {"returned", "crashed"}
  \/ UNCHANGED <<pc, caller, ev, next>>

Still == UNCHANGED <<journal, remote, remoteRun, run, shared, seq>>

(* Reserving a directory, the append, the publications.                    *)
Speaks(p) ==
  (\E r \in Runs : Reserve(p, r)) \/ AppendEvent(p) \/ PublishRun(p) \/ PublishEvent(p)

(* Every other step is of that kind.                                       *)
LEMMA ExecutingLeads ==
  ASSUME IInv, NEW p \in Executors,
         Executing(p) \/ Cancel(p) \/ Crash(p) \/ (\E r \in Runs : Refuse(p, r)), ~Speaks(p)
  PROVE  Still /\ Leads(p)
<1> USE DEF Still, Leads, Local, Announce, Conclude, storeVars, remoteVars
<1>0. /\ pc \in [Procs -> Locations] /\ caller \in [Procs -> Callers] /\ p \in Procs
      /\ ev \in [Procs -> EventTypes] /\ next \in [Procs -> Locations]
  BY DEF IInv, TypeOK, Procs
<1>1. CASE WriteRequest(p) \/ WriteRun(p)
  BY <1>0, <1>1 DEF WriteRequest, WriteRun, WriteDocument, IndexRun, Goto, OpenLocs, BodyLocs
<1>2. CASE Preflight(p) \/ Fulfill(p) \/ NextStep(p)
  BY <1>0, <1>2 DEF Preflight, Fulfill, NextStep, Emit, Goto, OpenLocs, BodyLocs
<1>3. CASE Approve(p) \/ PrepareStep(p) \/ ExecuteStep(p)
  BY <1>0, <1>3 DEF Approve, PrepareStep, ExecuteStep, Emit, Goto, OpenLocs, BodyLocs
<1>4. CASE Manual(p)
  BY <1>0, <1>4 DEF Manual, IndexRun, Goto, OpenLocs, BodyLocs
<1>5. CASE Succeed(p) \/ CancelRun(p) \/ Fail(p) \/ Interrupt(p) \/ SealAfterError(p)
  BY <1>0, <1>5 DEF Succeed, CancelRun, Fail, Interrupt, SealAfterError, isTerminalStatus, Emit,
     Goto, OpenLocs, BodyLocs
<1>6. CASE Cancel(p) \/ Crash(p) \/ (\E r \in Runs : Refuse(p, r))
  BY <1>0, <1>6 DEF Cancel, Crash, Refuse, Goto, OpenLocs, BodyLocs
<1> QED
  BY <1>1, <1>2, <1>3, <1>4, <1>5, <1>6 DEF Executing, Speaks

(* Failing, indexRun gives up or leads to a retry or to sealAfterError;    *)
(* done, it returns to its caller.                                         *)
LEMMA IndexEnds ==
  ASSUME IInv, NEW p \in Executors, pc[p] \in IndexLocs, UNCHANGED <<ev, next>>
  PROVE  /\ IndexFails(p) => Leads(p)
         /\ IndexDone(p) /\ UNCHANGED caller => Leads(p)
<1>0. /\ pc \in [Procs -> Locations] /\ caller \in [Procs -> Callers] /\ p \in Procs
      /\ caller[p] # "list"
  BY DEF IInv, TypeOK, Procs, ExecutorOK, ExecutorPlaced
<1>1. IndexFails(p) => Leads(p)
  BY <1>0 DEF IndexFails, EmitFails, IndexRun, Goto, Leads, Indexed
<1>2. IndexDone(p) /\ UNCHANGED caller => Leads(p)
  BY <1>0 DEF IndexDone, Goto, Leads, Indexed
<1> QED
  BY <1>1, <1>2

(* So are the steps of Open, Backfill and indexRun.                        *)
LEMMA IndexingLeads ==
  ASSUME IInv, NEW p \in Procs, Indexing(p)
  PROVE  Still /\ (p \in Executors => Leads(p))
<1>0. /\ pc \in [Procs -> Locations] /\ caller \in [Procs -> Callers]
      /\ p \in Executors => caller[p] # "list"
  BY DEF IInv, TypeOK, ExecutorOK, ExecutorPlaced
<1>s. Still
  BY DEF Indexing, OpenIndex, BackfillLookup, BackfillRead, BackfillImport, BackfillDone, UpsertRow, EnqueueOutbox,
         MarkPending, Local, Still, storeVars, remoteVars
<1>1. ASSUME p \in Executors
      PROVE  Leads(p)
  <2>1. UNCHANGED <<ev, next>> /\ pc[p] \in IndexLocs
    BY DEF Indexing, OpenIndex, BackfillLookup, BackfillRead, BackfillImport, BackfillDone, UpsertRow,
           EnqueueOutbox, MarkPending, Local, IndexLocs
  <2>2. \/ IndexFails(p)
        \/ IndexDone(p) /\ UNCHANGED caller
        \/ (\E l \in IndexLocs : Goto(p, l)) /\ UNCHANGED caller
        \/ UNCHANGED <<pc, caller>>
    BY <1>0, <1>1 DEF Indexing, OpenIndex, BackfillLookup, BackfillRead, BackfillImport, BackfillDone, UpsertRow,
           EnqueueOutbox, MarkPending, Local, IndexLocs
  <2>3. CASE (\E l \in IndexLocs : Goto(p, l)) /\ UNCHANGED caller
    <3>1. pc'[p] \in IndexLocs
      BY <1>0, <2>3 DEF Goto
    <3> QED
      BY <2>1, <2>3, <3>1 DEF Leads
  <2>4. CASE UNCHANGED <<pc, caller>>
    BY <2>1, <2>4 DEF Leads
  <2> QED
    BY <1>1, <2>1, <2>2, <2>3, <2>4, IndexEnds
<1> QED
  BY <1>s, <1>1

-----------------------------------------------------------------------------
(* What a step does to the Runs of the others, and to its own              *)

(* Nothing PublishInv says of q has changed.                               *)
Same(q) ==
  /\ run'[q] = run[q] /\ pc'[q] = pc[q] /\ caller'[q] = caller[q] /\ ev'[q] = ev[q]
  /\ next'[q] = next[q] /\ seq'[q] = seq[q] /\ shared'[q] = shared[q]
  /\ run[q] # NoRun =>
       /\ journal'[run[q]] = journal[run[q]]
       /\ remote'[run[q]] = remote[run[q]]
       /\ run[q] \in remoteRun => run[q] \in remoteRun'

(* A step publishes and appends for the one Run of its process.            *)
LEMMA OthersSame ==
  ASSUME IInv, NEW p \in Procs, Frame(p), Still \/ (p \in Executors /\ Speaks(p)),
         NEW q \in Executors, q # p
  PROVE  Same(q)
<1>1. /\ q \in Procs /\ run'[q] = run[q] /\ pc'[q] = pc[q] /\ caller'[q] = caller[q]
      /\ ev'[q] = ev[q] /\ next'[q] = next[q] /\ seq'[q] = seq[q]
  BY DEF Frame, Procs
<1>2. CASE Still
  BY <1>1, <1>2 DEF Still, Same
<1>3. ASSUME p \in Executors, NEW r \in Runs, Reserve(p, r)
      PROVE  Same(q)
  <2>1. shared'[q] = shared[q]
    <3>1. shared = [x \in Procs |-> shared[x]]
      BY DEF IInv, TypeOK
    <3>2. PICK s \in SharedModes : shared' = [shared EXCEPT ![p] = s]
      BY <1>3 DEF Reserve
    <3> QED
      BY <1>1, <3>1, <3>2
  <2>2. UNCHANGED <<journal, remote, remoteRun>>
    BY <1>3 DEF Reserve, remoteVars
  <2> QED
    BY <1>1, <2>1, <2>2 DEF Same
<1>4. CASE p \in Executors /\ (AppendEvent(p) \/ PublishRun(p) \/ PublishEvent(p))
  <2>1. UNCHANGED shared
    BY <1>4 DEF AppendEvent, PublishRun, PublishEvent
  <2>2. run[p] \in Runs /\ (run[q] # NoRun => run[q] # run[p] /\ run[q] \in Runs)
    <3>1. run[p] # NoRun
      BY <1>4 DEF IInv, ExecutorOK, ExecutorPlaced, AppendEvent, PublishRun, PublishEvent
    <3> QED
      BY <1>1, <1>4, <3>1 DEF IInv, TypeOK, Owned, SingleWriter
  <2>3. run[q] # NoRun => journal'[run[q]] = journal[run[q]]
    <3>1. CASE AppendEvent(p)
      BY <1>4, <2>2, <3>1, AppendedTrail
    <3>2. CASE PublishRun(p) \/ PublishEvent(p)
      BY <3>2 DEF PublishRun, PublishEvent, storeVars
    <3> QED
      BY <1>4, <3>1, <3>2
  <2>4. run[q] # NoRun => remote'[run[q]] = remote[run[q]]
    <3>1. CASE AppendEvent(p) \/ PublishRun(p)
      BY <3>1 DEF AppendEvent, PublishRun, remoteVars
    <3>2. CASE PublishEvent(p)
      BY <2>2, <3>2 DEF PublishEvent, Accept, IInv, TypeOK
    <3> QED
      BY <1>4, <3>1, <3>2
  <2>5. remoteRun \subseteq remoteRun'
    BY <1>4 DEF AppendEvent, PublishRun, PublishEvent, remoteVars
  <2> QED
    BY <1>1, <2>1, <2>3, <2>4, <2>5 DEF Same
<1> QED
  BY <1>2, <1>3, <1>4 DEF Speaks

(* So what PublishInv says of q stays true.                                 *)
LEMMA SameKeeps ==
  ASSUME NEW q \in Executors, Same(q), run[q] # NoRun
  PROVE  /\ shared[q] => (Counted(q) => Counted(q)')
         /\ Announced(q) => Announced(q)'
  BY DEF Same, Counted, Announced, Open, Indexed, Emitting

(* It is enough to look at the process that steps.                         *)
LEMMA SelfSuffices ==
  ASSUME IInv, PublishInv, NEW p \in Procs, Frame(p),
         Still \/ (p \in Executors /\ Speaks(p)),
         p \in Executors /\ run'[p] # NoRun => (shared'[p] => Counted(p)') /\ Announced(p)'
  PROVE  \A q \in Executors : run'[q] # NoRun => (shared'[q] => Counted(q)') /\ Announced(q)'
<1> SUFFICES ASSUME NEW q \in Executors, run'[q] # NoRun, q # p
             PROVE  (shared'[q] => Counted(q)') /\ Announced(q)'
  OBVIOUS
<1>1. Same(q)
  BY OthersSame
<1>2. run[q] # NoRun /\ shared'[q] = shared[q]
  BY <1>1 DEF Same
<1>3. (shared[q] => Counted(q)) /\ Announced(q)
  BY <1>2 DEF PublishInv
<1> QED
  BY <1>1, <1>2, <1>3, SameKeeps

(* A step that publishes nothing, to where Leads tells.                    *)
LEMMA LeadsKeeps ==
  ASSUME IInv, NEW p \in Executors, Still, Leads(p), run[p] # NoRun
  PROVE  /\ shared[p] => (Counted(p) => Counted(p)')
         /\ Announced(p) => Announced(p)'
<1>1. /\ seq[p] \in Nat /\ ExecutorOK(p)
      /\ "run_failed" \in TerminalEvents /\ "returned" \notin BodyLocs
      /\ Indexed(p, "emit") => ev[p] \in TerminalEvents
  BY DEF IInv, TypeOK, Procs, ExecutorOK, StatusPlaced, Indexed, TerminalEvents, BodyLocs
<1>2. shared[p] => (Counted(p) => Counted(p)')
  <2> SUFFICES ASSUME shared[p], Counted(p)
               PROVE  Counted(p)'
    OBVIOUS
  <2> DEFINE n == Count(remote[run[p]])
  <2>1. /\ Open(p) => n = seq[p]
        /\ pc[p] = "append" => n = seq[p] \/ (ev[p] = "run_failed" /\ n = seq[p] - 1)
        /\ pc[p] = "publish" \/ Indexed(p, "emit") =>
             n = seq[p] - 1 \/ (ev[p] = "run_failed" /\ n = seq[p] - 2)
        /\ pc[p] = "sealing" => n = seq[p] \/ n = seq[p] - 1
    BY DEF Counted
  <2>2. /\ Count(remote[run[p]])' = n /\ seq'[p] = seq[p]
    BY DEF Still, Count
  <2> HIDE DEF n
  <2>3. /\ Open(p)' => n = seq[p]
        /\ pc'[p] = "append" => n = seq[p] \/ (ev'[p] = "run_failed" /\ n = seq[p] - 1)
        /\ pc'[p] = "publish" \/ Indexed(p, "emit")' =>
             n = seq[p] - 1 \/ (ev'[p] = "run_failed" /\ n = seq[p] - 2)
        /\ pc'[p] = "sealing" => n = seq[p] \/ n = seq[p] - 1
    BY <1>1, <2>1 DEF Leads, Open, Indexed, OpenLocs, BodyLocs, IndexLocs
  <2> QED
    BY <2>2, <2>3 DEF Counted
<1>3. Announced(p) => Announced(p)'
  <2> SUFFICES ASSUME Announced(p)
               PROVE  Announced(p)'
    OBVIOUS
  <2>1. UNCHANGED <<journal, remote, remoteRun, run, shared, seq>>
    BY DEF Still
  <2>2. Open(p)' \/ (Emitting(p)' /\ ev'[p] \notin TerminalEvents) =>
          Open(p) \/ (Emitting(p) /\ ev[p] \notin TerminalEvents)
    BY <1>1 DEF Leads, Open, Indexed, Emitting, OpenLocs, BodyLocs, IndexLocs
  <2>3. Emitting(p)' /\ next'[p] = "execute" =>
          ev'[p] = "step_started" \/ (Emitting(p) /\ next[p] = "execute" /\ ev'[p] = ev[p])
    BY <1>1 DEF Leads, Indexed, Emitting, OpenLocs, BodyLocs, IndexLocs
  <2>4. pc'[p] \in BodyLocs \/ (Emitting(p)' /\ next'[p] \in BodyLocs) =>
          pc[p] \in BodyLocs \/ (Emitting(p) /\ next[p] \in BodyLocs)
    BY <1>1 DEF Leads, Indexed, Emitting, OpenLocs, BodyLocs, IndexLocs
  <2>5. pc'[p] = "publish" /\ ev'[p] \notin TerminalEvents => pc[p] = "publish" /\ ev'[p] = ev[p]
    BY <1>1 DEF Leads, Indexed, OpenLocs, BodyLocs, IndexLocs
  <2>6. pc'[p] = "execute" => pc[p] = "execute"
    BY <1>1 DEF Leads, Indexed, OpenLocs, BodyLocs, IndexLocs
  <2> QED
    BY <2>1, <2>2, <2>3, <2>4, <2>5, <2>6 DEF Announced
<1> QED
  BY <1>2, <1>3

(* So a step that publishes nothing keeps PublishInv.                      *)
LEMMA QuietPublishes ==
  ASSUME IInv, PublishInv, NEW p \in Procs, Frame(p), Still, p \in Executors => Leads(p),
         \A r \in Runs : dir'[r] = "absent" => dir[r] = "absent"
  PROVE  PublishInv'
<1>1. ASSUME p \in Executors, run'[p] # NoRun
      PROVE  (shared'[p] => Counted(p)') /\ Announced(p)'
  <2>1. run[p] # NoRun /\ shared'[p] = shared[p]
    BY <1>1 DEF Still
  <2>2. (shared[p] => Counted(p)) /\ Announced(p)
    BY <1>1, <2>1 DEF PublishInv
  <2> QED
    BY <1>1, <2>1, <2>2, LeadsKeeps
<1>2. \A q \in Executors : run'[q] # NoRun => (shared'[q] => Counted(q)') /\ Announced(q)'
  BY <1>1, SelfSuffices
<1>3. \A r \in Runs : dir'[r] = "absent" => remote'[r] = << >>
  BY DEF Still, PublishInv
<1>4. \A q \in Executors : run'[q] = NoRun => seq'[q] = 0
  BY DEF Still, PublishInv
<1>5. GapOnlyBeforeFailure'
  BY DEF Still, PublishInv, GapOnlyBeforeFailure
<1> QED
  BY <1>2, <1>3, <1>4, <1>5 DEF PublishInv

-----------------------------------------------------------------------------
(* Steps that publish                                                      *)

(* A new directory: nothing was sent of it and nothing written.            *)
LEMMA ReservePublishes ==
  ASSUME IInv, PublishInv, NEW p \in Executors, NEW r \in Runs, Reserve(p, r), Frame(p)
  PROVE  PublishInv'
<1>1. /\ p \in Procs /\ r # NoRun /\ pc[p] = "idle" /\ dir[r] = "absent" /\ run[p] = NoRun
      /\ seq[p] = 0 /\ remote[r] = << >> /\ journal[r] = << >>
      /\ UNCHANGED <<journal, seq, ev, next, caller, remote, remoteRun>>
  BY RunExecutionAssumption DEF IInv, PublishInv, Procs, Reserve, Owned, ExecutorOK,
     ExecutorPlaced, remoteVars
<1>2. /\ pc'[p] = "request" /\ run'[p] = r
      /\ \A o \in Runs : dir'[o] = "absent" => dir[o] = "absent"
      /\ \A q \in Executors : q # p => run'[q] = run[q]
  BY <1>1 DEF Reserve, IInv, TypeOK, StoreTypeOK, Goto, Frame, Procs
<1>3. Counted(p)' /\ Announced(p)'
  BY <1>1, <1>2 DEF Counted, Announced, Count, Open, Indexed, Emitting, EndsTorn, OpenLocs,
     BodyLocs, IndexLocs
<1>4. \A q \in Executors : run'[q] # NoRun => (shared'[q] => Counted(q)') /\ Announced(q)'
  BY <1>1, <1>3, SelfSuffices DEF Speaks
<1>5. \A o \in Runs : dir'[o] = "absent" => remote'[o] = << >>
  BY <1>1, <1>2 DEF PublishInv
<1>6. \A q \in Executors : run'[q] = NoRun => seq'[q] = 0
  BY <1>1, <1>2 DEF PublishInv
<1>7. GapOnlyBeforeFailure'
  BY <1>1 DEF PublishInv, GapOnlyBeforeFailure
<1> QED
  BY <1>4, <1>5, <1>6, <1>7 DEF PublishInv

(* Where emit goes when it gives up.                                       *)
LEMMA GivesUp ==
  ASSUME IInv, NEW p \in Executors, EmitFails(p)
  PROVE  \/ pc'[p] = "sealing" /\ ev[p] \notin {"run_failed", "run_interrupted"}
         \/ pc'[p] = "open" /\ caller'[p] = "reseal"
  BY DEF IInv, TypeOK, Procs, EmitFails, IndexRun, Goto

(* The line goes to the trail first: its number is then one behind.        *)
LEMMA AppendPublishes ==
  ASSUME IInv, PublishInv, NEW p \in Executors, AppendEvent(p), Frame(p)
  PROVE  PublishInv'
<1>0. /\ p \in Procs /\ run[p] \in Runs /\ run[p] # NoRun /\ pc[p] = "append"
      /\ seq[p] \in Nat /\ ev[p] \in EventTypes /\ journal[run[p]] \in Seq(Line)
  BY AppendedTrail, RunExecutionAssumption DEF IInv, TypeOK, StoreTypeOK, Procs, AppendEvent
<1>1. /\ p \in Procs /\ run[p] \in Runs /\ run[p] # NoRun /\ pc[p] = "append"
      /\ seq[p] \in Nat /\ ev[p] \in EventTypes /\ journal[run[p]] \in Seq(Line)
      /\ shared[p] => Counted(p)
      /\ Announced(p)
      /\ UNCHANGED <<dir, run, shared, ev, next, remote, remoteRun>>
  BY <1>0 DEF PublishInv, AppendEvent, remoteVars
<1>2. ASSUME EmitFails(p), UNCHANGED seq
      PROVE  (shared'[p] => Counted(p)') /\ Announced(p)'
  <2>1. \/ pc'[p] = "sealing" /\ ev[p] \notin {"run_failed", "run_interrupted"}
        \/ pc'[p] = "open" /\ caller'[p] = "reseal"
    BY <1>2, GivesUp
  <2>2. shared'[p] => Counted(p)'
    BY <1>1, <1>2, <2>1 DEF Counted, Open, Indexed, OpenLocs, BodyLocs, IndexLocs
  <2>3. Announced(p)'
    BY <1>1, <1>2, <2>1 DEF Announced, Open, Indexed, Emitting, OpenLocs, BodyLocs, IndexLocs
  <2> QED
    BY <2>2, <2>3
<1>3. ASSUME seq' = [seq EXCEPT ![p] = @ + 1], AppendOK(run[p], CurrentLine(p)),
             \/ ev[p] \in TerminalEvents /\ IndexRun(p, "emit")
             \/ ev[p] \notin TerminalEvents /\ Goto(p, "publish") /\ UNCHANGED caller
      PROVE  (shared'[p] => Counted(p)') /\ Announced(p)'
  <2>1. seq'[p] = seq[p] + 1
    BY <1>1, <1>3 DEF IInv, TypeOK
  <2>2. \/ ev[p] \in TerminalEvents /\ pc'[p] = "open" /\ caller'[p] = "emit"
        \/ ev[p] \notin TerminalEvents /\ pc'[p] = "publish"
    BY <1>1, <1>3 DEF IInv, TypeOK, IndexRun, Goto
  <2>3. shared'[p] => Counted(p)'
    <3> SUFFICES ASSUME shared[p]
                 PROVE  Counted(p)'
      BY <1>1
    <3> DEFINE n == Count(remote[run[p]])
    <3>1. n = seq[p] \/ (ev[p] = "run_failed" /\ n = seq[p] - 1)
      BY <1>1 DEF Counted
    <3>2. Count(remote[run[p]])' = n
      BY <1>1 DEF Count
    <3> HIDE DEF n
    <3>3. n = seq'[p] - 1 \/ (ev'[p] = "run_failed" /\ n = seq'[p] - 2)
      BY <1>1, <2>1, <3>1
    <3> QED
      BY <2>2, <3>2, <3>3 DEF Counted, Open, Indexed, OpenLocs, BodyLocs, IndexLocs
  <2>4. ev[p] \notin TerminalEvents =>
          /\ ~EndsTorn(journal'[run[p]])
          /\ LastIs(journal'[run[p]], [seq |-> seq'[p] - 1, type |-> ev[p]])
    <3> SUFFICES ASSUME ev[p] \notin TerminalEvents
                 PROVE  /\ ~EndsTorn(journal'[run[p]])
                        /\ LastIs(journal'[run[p]], [seq |-> seq'[p] - 1, type |-> ev[p]])
      OBVIOUS
    <3> DEFINE old == journal[run[p]]
               l   == CurrentLine(p)
    <3>1. ~EndsTorn(old)
      BY <1>1 DEF Announced, Emitting
    <3>2. journal'[run[p]] = Append(old, l)
      BY <1>1, <1>3, <3>1 DEF AppendOK, WithLine, IInv, TypeOK, StoreTypeOK
    <3>3. l = [seq |-> seq'[p] - 1, type |-> ev[p]] /\ l # Torn
      BY <1>1, <2>1 DEF CurrentLine, Torn
    <3>4. old \in Seq(Line)
      BY <1>1
    <3> HIDE DEF old, l
    <3>5. Append(old, l) # << >> /\ Append(old, l)[Len(Append(old, l))] = l
      BY <3>4
    <3> QED
      BY <3>2, <3>3, <3>5 DEF EndsTorn, LastIs
  <2>5. Announced(p)'
    BY <1>1, <2>2, <2>4 DEF Announced, Open, Indexed, Emitting, OpenLocs, BodyLocs, IndexLocs
  <2> QED
    BY <2>3, <2>5
<1>4. (shared'[p] => Counted(p)') /\ Announced(p)'
  BY <1>2, <1>3 DEF AppendEvent
<1>5. \A q \in Executors : run'[q] # NoRun => (shared'[q] => Counted(q)') /\ Announced(q)'
  BY <1>1, <1>4, SelfSuffices DEF Speaks
<1>6. \A q \in Executors : run'[q] = NoRun => seq'[q] = 0
  BY <1>1 DEF PublishInv, Frame, Procs
<1>7. GapOnlyBeforeFailure' /\ (\A r \in Runs : dir'[r] = "absent" => remote'[r] = << >>)
  BY <1>1 DEF PublishInv, GapOnlyBeforeFailure
<1> QED
  BY <1>5, <1>6, <1>7 DEF PublishInv

(* OnRun, after which the coordinator knows the Run.                       *)
LEMMA RunPublishes ==
  ASSUME IInv, PublishInv, NEW p \in Executors, PublishRun(p), Frame(p)
  PROVE  PublishInv'
<1>1. /\ p \in Procs /\ run[p] \in Runs /\ run[p] # NoRun /\ pc[p] = "publishRun"
      /\ shared[p] => Counted(p)
      /\ Announced(p)
      /\ UNCHANGED <<dir, journal, run, shared, seq, caller, remote>>
  BY DEF IInv, PublishInv, TypeOK, Procs, PublishRun, ExecutorOK, ExecutorPlaced, storeVars
<1>2. \/ /\ pc'[p] = "append" /\ ev'[p] = "run_created" /\ next'[p] = "preflight"
         /\ shared[p] => run[p] \in remoteRun'
      \/ pc'[p] = "sealing"
  BY <1>1 DEF IInv, TypeOK, PublishRun, Emit, Goto
<1>3. shared'[p] => Counted(p)'
  BY <1>1, <1>2 DEF Counted, Open, Indexed, OpenLocs, BodyLocs, IndexLocs
<1>4. Announced(p)'
  BY <1>1, <1>2 DEF Announced, Open, Indexed, Emitting, OpenLocs, BodyLocs, IndexLocs
<1>5. \A q \in Executors : run'[q] # NoRun => (shared'[q] => Counted(q)') /\ Announced(q)'
  BY <1>1, <1>3, <1>4, SelfSuffices DEF Speaks
<1> QED
  BY <1>1, <1>5 DEF PublishInv, GapOnlyBeforeFailure

(* The coordinator stores an event: the numbers meet again.                *)
LEMMA Accepted ==
  ASSUME IInv, PublishInv, NEW p \in Executors, pc[p] = "publish", shared[p], run[p] \in Runs,
         Counted(p), Accept(p)
  PROVE  /\ Count(remote'[run[p]]) = seq[p]
         /\ LastIs(remote'[run[p]], [seq |-> seq[p] - 1, type |-> ev[p]])
         /\ GapOnlyBeforeFailure'
<1> DEFINE old == remote[run[p]]
           l   == [seq |-> seq[p] - 1, type |-> ev[p]]
           new == Append(old, l)
<1>1. /\ old \in Seq(Line) /\ seq[p] \in Nat /\ remote'[run[p]] = new
      /\ \A r \in Runs : r # run[p] => remote'[r] = remote[r]
      /\ DOMAIN remote = Runs /\ DOMAIN remote' = Runs
  BY DEF IInv, TypeOK, Procs, Accept
<1>2. Count(old) = seq[p] - 1 \/ (ev[p] = "run_failed" /\ Count(old) = seq[p] - 2)
  BY DEF Counted
<1>3. l.seq = seq[p] - 1 /\ l.type = ev[p]
  OBVIOUS
<1> HIDE DEF l
<1>4. /\ Len(old) \in Nat /\ Len(new) = Len(old) + 1 /\ new[Len(old) + 1] = l /\ new # << >>
      /\ DOMAIN new = 1..(Len(old) + 1) /\ DOMAIN old = 1..Len(old)
      /\ \A i \in 1..Len(old) : new[i] = old[i]
      /\ old = << >> <=> Len(old) = 0
  BY <1>1
<1>5. Count(new) = seq[p] /\ LastIs(new, l)
  BY <1>1, <1>3, <1>4 DEF Count, LastIs
<1>6. ASSUME NEW i \in DOMAIN new
      PROVE  LET expected == IF i = 1 THEN 0 ELSE new[i - 1].seq + 1 IN
             new[i].seq = expected
               \/ (new[i].type = "run_failed" /\ new[i].seq = expected + 1)
  <2> HIDE DEF new
  <2>1. CASE i \in 1..Len(old)
    <3>1. /\ new[i] = old[i] /\ i \in DOMAIN old
          /\ i # 1 => i - 1 \in 1..Len(old) /\ new[i - 1] = old[i - 1]
      BY <1>4, <2>1
    <3>2. LET expected == IF i = 1 THEN 0 ELSE old[i - 1].seq + 1 IN
          old[i].seq = expected \/ (old[i].type = "run_failed" /\ old[i].seq = expected + 1)
      BY <3>1 DEF PublishInv, GapOnlyBeforeFailure
    <3> QED
      BY <3>1, <3>2
  <2>2. CASE i = Len(old) + 1
    <3>1. Count(old) = IF i = 1 THEN 0 ELSE new[i - 1].seq + 1
      BY <1>4, <2>2 DEF Count
    <3> QED
      BY <1>1, <1>2, <1>3, <1>4, <2>2, <3>1
  <2> QED
    BY <1>4, <1>6, <2>1, <2>2
<1>7. GapOnlyBeforeFailure'
  <2> HIDE DEF new
  <2> SUFFICES ASSUME NEW r \in Runs, NEW i \in DOMAIN remote'[r]
               PROVE  LET expected == IF i = 1 THEN 0 ELSE remote'[r][i - 1].seq + 1 IN
                      remote'[r][i].seq = expected
                        \/ (remote'[r][i].type = "run_failed" /\ remote'[r][i].seq = expected + 1)
    BY DEF GapOnlyBeforeFailure
  <2>1. CASE r = run[p]
    BY <1>1, <1>6, <2>1
  <2>2. CASE r # run[p]
    BY <1>1, <2>2 DEF PublishInv, GapOnlyBeforeFailure
  <2> QED
    BY <2>1, <2>2
<1> QED
  BY <1>1, <1>5, <1>7 DEF l

(* OnEvent, then where emit returns to.                                    *)
LEMMA EventPublishes ==
  ASSUME IInv, PublishInv, NEW p \in Executors, PublishEvent(p), Frame(p)
  PROVE  PublishInv'
<1>1. /\ p \in Procs /\ run[p] \in Runs /\ run[p] # NoRun /\ pc[p] = "publish"
      /\ seq[p] \in Nat /\ dir[run[p]] # "absent" /\ next[p] \in Locations
      /\ shared[p] => Counted(p)
      /\ Announced(p)
      /\ UNCHANGED <<dir, journal, run, shared, seq, ev, next, remoteRun>>
  BY DEF IInv, PublishInv, TypeOK, Procs, PublishEvent, ExecutorOK, ExecutorPlaced, Owned, storeVars
<1>2. next[p] = "returned" \/ (next[p] \in BodyLocs /\ ev[p] \notin TerminalEvents)
  BY <1>1 DEF IInv, ExecutorOK, ExecutorPlaced, Emitting
<1>3. UNCHANGED remote \/ (shared[p] /\ Accept(p))
  BY DEF PublishEvent
<1>4. ASSUME EmitFails(p), shared[p]
      PROVE  (shared'[p] => Counted(p)') /\ Announced(p)'
  <2>1. \/ pc'[p] = "sealing" /\ ev[p] \notin {"run_failed", "run_interrupted"}
        \/ pc'[p] = "open" /\ caller'[p] = "reseal"
    BY <1>4, GivesUp
  <2>2. pc'[p] = "sealing" =>
          Count(remote'[run[p]]) = seq[p] \/ Count(remote'[run[p]]) = seq[p] - 1
    <3>1. CASE UNCHANGED remote
      BY <1>1, <1>4, <2>1, <3>1 DEF Counted
    <3>2. CASE Accept(p)
      BY <1>1, <1>4, <3>2, Accepted
    <3> QED
      BY <1>3, <3>1, <3>2
  <2>3. Counted(p)'
    BY <1>1, <2>1, <2>2 DEF Counted, Open, Indexed, OpenLocs, BodyLocs, IndexLocs
  <2>4. Announced(p)'
    BY <1>1, <2>1 DEF Announced, Open, Indexed, Emitting, OpenLocs, BodyLocs, IndexLocs
  <2> QED
    BY <2>3, <2>4
<1>5. ASSUME pc'[p] = next[p], shared[p] => Accept(p)
      PROVE  (shared'[p] => Counted(p)') /\ Announced(p)'
  <2>1. shared'[p] => Counted(p)'
    <3> SUFFICES ASSUME shared[p]
                 PROVE  Counted(p)'
      BY <1>1
    <3>1. Count(remote'[run[p]]) = seq[p]
      BY <1>1, <1>5, Accepted
    <3> QED
      BY <1>1, <1>2, <1>5, <3>1 DEF Counted, Open, Indexed, OpenLocs, BodyLocs, IndexLocs
  <2>2. ~EndsTorn(journal[run[p]]) \/ next[p] = "returned"
    BY <1>1, <1>2 DEF Announced, Emitting
  <2>3. shared[p] /\ next[p] \in BodyLocs => run[p] \in remoteRun
    BY <1>1 DEF Announced, Emitting
  <2>4. next[p] = "execute" =>
          LET l == [seq |-> seq[p] - 1, type |-> "step_started"] IN
          LastIs(journal[run[p]], l) /\ (shared[p] => LastIs(remote'[run[p]], l))
    <3> SUFFICES ASSUME next[p] = "execute"
                 PROVE  LET l == [seq |-> seq[p] - 1, type |-> "step_started"] IN
                        LastIs(journal[run[p]], l) /\ (shared[p] => LastIs(remote'[run[p]], l))
      OBVIOUS
    <3>1. ev[p] = "step_started" /\ ev[p] \notin TerminalEvents
      BY <1>1 DEF Announced, Emitting, TerminalEvents
    <3>2. LastIs(journal[run[p]], [seq |-> seq[p] - 1, type |-> "step_started"])
      BY <1>1, <3>1 DEF Announced
    <3>3. shared[p] => LastIs(remote'[run[p]], [seq |-> seq[p] - 1, type |-> "step_started"])
      BY <1>1, <1>5, <3>1, Accepted
    <3> QED
      BY <3>2, <3>3
  <2>5. Announced(p)'
    BY <1>1, <1>2, <1>5, <2>2, <2>3, <2>4 DEF Announced, Open, Indexed, Emitting, OpenLocs,
       BodyLocs, IndexLocs
  <2> QED
    BY <2>1, <2>5
<1>6. (shared'[p] => Counted(p)') /\ Announced(p)'
  BY <1>1, <1>4, <1>5 DEF PublishEvent, Goto, IInv, TypeOK
<1>7. \A q \in Executors : run'[q] # NoRun => (shared'[q] => Counted(q)') /\ Announced(q)'
  BY <1>1, <1>6, SelfSuffices DEF Speaks
<1>8. GapOnlyBeforeFailure'
  <2>1. CASE UNCHANGED remote
    BY <2>1 DEF PublishInv, GapOnlyBeforeFailure
  <2>2. CASE shared[p] /\ Accept(p)
    BY <1>1, <2>2, Accepted
  <2> QED
    BY <1>3, <2>1, <2>2
<1>9. \A r \in Runs : dir'[r] = "absent" => remote'[r] = << >>
  BY <1>1, <1>3 DEF PublishInv, Accept, IInv, TypeOK
<1> QED
  BY <1>1, <1>7, <1>8, <1>9 DEF PublishInv

-----------------------------------------------------------------------------
(* PublishInv is inductive beside IInv                                     *)

(* Nothing was sent at first.                                              *)
LEMMA PublishInit == Init => PublishInv
<1> SUFFICES ASSUME Init PROVE PublishInv
  OBVIOUS
<1>1. \A r \in Runs : remote[r] = << >> /\ DOMAIN remote[r] = {}
  BY DEF Init
<1>2. \A p \in Executors : run[p] = NoRun /\ seq[p] = 0
  BY DEF Init, Procs
<1> QED
  BY <1>1, <1>2 DEF PublishInv, GapOnlyBeforeFailure

(* Every step: it publishes for its process, or leads on silently.         *)
LEMMA PublishNext == IInv /\ PublishInv /\ [Next]_vars => PublishInv'
<1> SUFFICES ASSUME IInv, PublishInv, [Next]_vars PROVE PublishInv'
  OBVIOUS
<1>1. TypeOK
  BY DEF IInv
<1>2. ASSUME NEW p \in Executors, Speaks(p)
      PROVE  PublishInv'
  <2>1. Frame(p)
    BY <1>1, <1>2, ExecutingFrame DEF Speaks, Executing, Procs
  <2> QED
    BY <1>2, <2>1, ReservePublishes, AppendPublishes, RunPublishes, EventPublishes DEF Speaks
<1>3. ASSUME NEW p \in Executors, ~Speaks(p),
             Executing(p) \/ Cancel(p) \/ Crash(p) \/ (\E r \in Runs : Refuse(p, r))
      PROVE  PublishInv'
  <2>1. Frame(p) /\ Still /\ Leads(p)
    BY <1>1, <1>3, ExecutingFrame, ExecutingLeads DEF Procs
  <2>2. \A r \in Runs : dir'[r] = "absent" => dir[r] = "absent"
    <3>1. CASE WriteRequest(p) \/ WriteRun(p)
      BY <1>1, <3>1 DEF WriteRequest, WriteRun, WriteDocument, TypeOK, StoreTypeOK
    <3>2. CASE ~(WriteRequest(p) \/ WriteRun(p))
      BY <1>3, <3>2 DEF Executing, Speaks, Preflight, Fulfill, NextStep, Approve, PrepareStep,
         ExecuteStep, Manual, Succeed, CancelRun, Fail, Interrupt, SealAfterError, Cancel, Crash,
         Refuse, Local, Announce, Conclude, storeVars
    <3> QED
      BY <3>1, <3>2
  <2> QED
    BY <2>1, <2>2, QuietPublishes DEF Procs
<1>4. ASSUME NEW p \in Procs, Indexing(p)
      PROVE  PublishInv'
  <2>1. Frame(p) /\ Still /\ (p \in Executors => Leads(p))
    BY <1>1, <1>4, IndexingFrame, IndexingLeads
  <2>2. UNCHANGED dir
    BY <1>4 DEF Indexing, OpenIndex, BackfillLookup, BackfillRead, BackfillImport, BackfillDone, UpsertRow,
       EnqueueOutbox, MarkPending, Local, storeVars
  <2> QED
    BY <2>1, <2>2, QuietPublishes
<1>5. ASSUME NEW p \in Readers, List(p)
      PROVE  PublishInv'
  <2>1. p \in Procs /\ p \notin Executors /\ Still /\ UNCHANGED dir
    BY <1>5, RunExecutionAssumption DEF List, Still, Procs, storeVars, remoteVars
  <2>2. Frame(p)
    BY <1>1, <1>5, <2>1, ExecutingFrame
  <2> QED
    BY <2>1, <2>2, QuietPublishes
<1>6. CASE UNCHANGED vars
  <2>1. UNCHANGED <<dir, journal, remote, remoteRun, pc, run, shared, seq, ev, next, caller>>
    BY <1>6 DEF vars, procVars, storeVars, remoteVars
  <2> QED
    BY <2>1 DEF PublishInv, GapOnlyBeforeFailure, Counted, Announced, Open, Indexed, Emitting
<1> QED
  BY <1>2, <1>3, <1>4, <1>5, <1>6 DEF Next, Speaks

(* So PublishInv always holds.                                             *)
LEMMA Publishes == Spec => []PublishInv
  BY Inductive, PublishInit, PublishNext, PTL DEF Spec

-----------------------------------------------------------------------------
(* Theorems *)

(* Whatever the coordinator refused or failed to acknowledge, and whatever *)
(* the disk did, the only event it can get after one it did not take is    *)
(* the run_failed with which Execute ends the Run, numbered one later.     *)
THEOREM GapEndsTheRun == Spec => []GapOnlyBeforeFailure
<1>1. PublishInv => GapOnlyBeforeFailure
  BY DEF PublishInv
<1> QED
  BY <1>1, Publishes, PTL

(* No script is started before its step_started is the last line of        *)
(* events.jsonl and, for a shared Run, the last event the coordinator took *)
(* of a Run it knows: also after failed, torn or unsynced appends.         *)
THEOREM NoSilentScript == Spec => []ScriptIsAnnounced
<1>1. ASSUME IInv, PublishInv, NEW p \in Executors, pc[p] = "execute"
      PROVE  LET lines == journal[run[p]] IN
             /\ lines # << >>
             /\ lines[Len(lines)] = [seq |-> seq[p] - 1, type |-> "step_started"]
             /\ shared[p] => /\ run[p] \in remoteRun
                             /\ remote[run[p]] # << >>
                             /\ remote[run[p]][Len(remote[run[p]])] = lines[Len(lines)]
  <2>1. run[p] # NoRun /\ "execute" \in BodyLocs
    BY <1>1 DEF IInv, ExecutorOK, ExecutorPlaced, BodyLocs
  <2>2. Announced(p)
    BY <2>1, <1>1 DEF PublishInv
  <2> QED
    BY <1>1, <2>1, <2>2 DEF Announced, LastIs
<1>2. IInv /\ PublishInv => ScriptIsAnnounced
  BY <1>1 DEF ScriptIsAnnounced
<1> QED
  BY <1>2, Inductive, Publishes, PTL

-----------------------------------------------------------------------------
(* Execute implements RunRecord.                                           *)

Types(lines) == [i \in DOMAIN lines |-> lines[i].type]

Last(lines) == lines[Len(lines)].type

Done(lines) == Record!Count(Types(lines), "step_succeeded")

(* Where e may be the last event while Step k is the one at hand.          *)
Reached(l, e, k) ==
  /\ l = "preflight" => e = "run_created" /\ k = 1
  /\ l \in {"fulfill", "manual"} => e = "validation_succeeded" /\ k = 1
  /\ l = "step" => e \in {"validation_succeeded", "step_succeeded"}
  /\ l = "approve" => e = "approval_requested" /\ k <= NumSteps
  /\ l = "prepare" =>
       e \in {"validation_succeeded", "step_succeeded", "approval_approved"} /\ k <= NumSteps
  /\ l = "cancel" => e = "approval_rejected"
  /\ l = "execute" => e = "step_started" /\ k <= NumSteps
  /\ l = "returns" =>
       e \in {"validation_succeeded", "step_succeeded"} /\ k \in {1, NumSteps + 1}
  /\ l = "interrupting" =>
       e \in {"run_created", "validation_succeeded", "approval_requested", "step_succeeded",
              "step_failed"}

(* Before the first event.                                                 *)
Blank(p) == pc[p] \in {"request", "record", "publishRun"} \/ Indexed(p, "initialize")

Recorded(p) ==
  LET lines == journal[run[p]] IN
  /\ seq[p] = Len(lines)
  /\ step[p] \in 1..(NumSteps + 1)
  /\ Blank(p) => lines = << >> /\ step[p] = 1
  /\ pc[p] \in BodyLocs =>
       lines # << >> /\ Reached(pc[p], Last(lines), step[p]) /\ Done(lines) = step[p] - 1
  /\ pc[p] = "append" => Record!MayFollow(Types(lines), ev[p])
  /\ pc[p] = "append" /\ ev[p] \notin TerminalEvents =>
       Done(lines) = step[p] - IF ev[p] = "step_succeeded" THEN 2 ELSE 1
  /\ pc[p] = "publish" /\ ev[p] \notin TerminalEvents => Done(lines) = step[p] - 1
  /\ Emitting(p) /\ ev[p] \notin TerminalEvents => Reached(next[p], ev[p], step[p])
  /\ Emitting(p) /\ pc[p] # "append" => lines # << >> /\ Last(lines) = ev[p]
  /\ Indexed(p, "reseal") => ev[p] \in {"run_failed", "run_interrupted"}

RecordInv ==
  /\ \A r \in Runs : TerminalLines(journal[r]) \subseteq {Len(journal[r])} /\ ~EndsTorn(journal[r])
  /\ \A p \in Executors : run[p] = NoRun => step[p] = 1
  /\ \A p \in Executors : run[p] # NoRun => Recorded(p)

-----------------------------------------------------------------------------
(* Lists of lines *)

(* The types of a list with one line more.                                 *)
LEMMA TypesAppend ==
  ASSUME NEW lines \in Seq(Line), NEW l \in Line
  PROVE  /\ Types(Append(lines, l)) = Append(Types(lines), l.type)
         /\ Types(Append(lines, l)) # << >>
         /\ Last(Append(lines, l)) = l.type
         /\ Len(Append(lines, l)) = Len(lines) + 1
         /\ Append(lines, l) # << >>
<1> DEFINE old == Types(lines)
           new == Append(lines, l)
<1>1. /\ new \in Seq(Line) /\ Len(lines) \in Nat /\ Len(new) = Len(lines) + 1
      /\ DOMAIN lines = 1..Len(lines) /\ DOMAIN new = 1..(Len(lines) + 1)
      /\ new[Len(lines) + 1] = l /\ \A i \in 1..Len(lines) : new[i] = lines[i]
      /\ new # << >>
  OBVIOUS
<1>2. old = [i \in 1..Len(lines) |-> lines[i].type]
  BY <1>1 DEF Types
<1>3. Len(old) = Len(lines) /\ old \in Seq({lines[i].type : i \in 1..Len(lines)} \union {l.type})
  BY <1>1, <1>2
<1>4. Types(new) = [i \in 1..(Len(lines) + 1) |-> new[i].type]
  BY <1>1 DEF Types
<1>5. /\ Append(old, l.type) = [i \in 1..(Len(lines) + 1) |-> Append(old, l.type)[i]]
      /\ \A i \in 1..Len(lines) : Append(old, l.type)[i] = old[i]
      /\ Append(old, l.type)[Len(lines) + 1] = l.type
  BY <1>3
<1>6. \A i \in 1..(Len(lines) + 1) : new[i].type = Append(old, l.type)[i]
  BY <1>1, <1>2, <1>5
<1>7. Types(new) = Append(old, l.type)
  BY <1>4, <1>5, <1>6
<1>8. Types(new) # << >>
  BY <1>3, <1>7
<1> QED
  BY <1>1, <1>7, <1>8 DEF Last

(* Lines and their types have the same length and the same last event.     *)
LEMMA TypesLast ==
  ASSUME NEW lines \in Seq(Line)
  PROVE  /\ Len(Types(lines)) = Len(lines)
         /\ lines = << >> <=> Types(lines) = << >>
         /\ lines # << >> => Types(lines)[Len(Types(lines))] = Last(lines)
<1>1. /\ Len(lines) \in Nat /\ DOMAIN lines = 1..Len(lines)
      /\ lines = << >> <=> Len(lines) = 0
  OBVIOUS
<1>2. Types(lines) = [i \in 1..Len(lines) |-> lines[i].type]
  BY <1>1 DEF Types
<1>3. Len(Types(lines)) = Len(lines) /\ Types(lines) \in Seq({lines[i].type : i \in 1..Len(lines)})
  BY <1>1, <1>2
<1>4. Types(lines) = << >> <=> Len(Types(lines)) = 0
  BY <1>3
<1> QED
  BY <1>1, <1>2, <1>3, <1>4 DEF Last

(* The Steps are counted by the Cardinality of RunRecord's own FiniteSets. *)
LEMMA DoneCounts ==
  \A t : Done(t) = Cardinality({i \in DOMAIN Types(t) : Types(t)[i] = "step_succeeded"})
<1>1. \A S : Record!Cardinality(S) = Cardinality(S)
  BY DEF Record!Cardinality, Cardinality
<1>2. \A t : Done(t) =
        Record!Cardinality({i \in DOMAIN Types(t) : Types(t)[i] = "step_succeeded"})
  BY DEF Done, Record!Count
<1> QED
  BY <1>1, <1>2

(* One more line is one more Step, or none.                                *)
LEMMA DoneAppend ==
  ASSUME NEW lines \in Seq(Line), NEW l \in Line
  PROVE  /\ Done(lines) \in Nat
         /\ Done(Append(lines, l)) = Done(lines) + IF l.type = "step_succeeded" THEN 1 ELSE 0
<1> DEFINE new == Append(lines, l)
           S(t) == {i \in DOMAIN Types(t) : Types(t)[i] = "step_succeeded"}
<1>1. /\ new \in Seq(Line) /\ Len(lines) \in Nat
      /\ DOMAIN lines = 1..Len(lines) /\ DOMAIN new = 1..(Len(lines) + 1)
      /\ new[Len(lines) + 1] = l /\ \A i \in 1..Len(lines) : new[i] = lines[i]
  OBVIOUS
<1>2. \A t \in {lines, new} : S(t) = {i \in DOMAIN t : t[i].type = "step_succeeded"}
  BY DEF Types
<1>d. \A t : Done(t) = Cardinality(S(t))
  BY DoneCounts
<1>3. IsFiniteSet(S(lines)) /\ Cardinality(S(lines)) \in Nat
  <2>1. IsFiniteSet(1..Len(lines))
    <3>1. \A b \in Int : IsFiniteSet(1..b)
      BY FS_Interval
    <3> QED
      BY <1>1, <3>1
  <2>2. S(lines) \subseteq 1..Len(lines)
    BY <1>1, <1>2
  <2>3. IsFiniteSet(S(lines))
    BY <2>1, <2>2, FS_Subset
  <2> QED
    BY <2>3, FS_CardinalityType
<1>4. CASE l.type = "step_succeeded"
  <2>1. S(new) = S(lines) \union {Len(lines) + 1} /\ Len(lines) + 1 \notin S(lines)
    BY <1>1, <1>2, <1>4
  <2> HIDE DEF S
  <2>2. Cardinality(S(new)) = Cardinality(S(lines)) + 1
    BY <1>3, <2>1, FS_AddElement
  <2> QED
    BY <1>3, <1>4, <1>d, <2>2
<1>5. CASE l.type # "step_succeeded"
  <2>1. S(new) = S(lines)
    BY <1>1, <1>2, <1>5
  <2> QED
    BY <1>3, <1>5, <1>d, <2>1
<1> QED
  BY <1>4, <1>5

LEMMA DoneEmpty == Done(<< >>) = 0 /\ Types(<< >>) = << >>
<1>1. Types(<< >>) = << >>
  BY DEF Types
<1>2. Done(<< >>) = 0
  <2>1. {i \in DOMAIN Types(<< >>) : Types(<< >>)[i] = "step_succeeded"} = {}
    BY <1>1
  <2> QED
    BY <2>1, FS_EmptySet, DoneCounts
<1> QED
  BY <1>1, <1>2

(* A trail is closed exactly if a line of it is terminal.                  *)
LEMMA ClosedIsEnded ==
  ASSUME NEW lines \in Seq(Line), TerminalLines(lines) \subseteq {Len(lines)}
  PROVE  /\ Record!Ended(Types(lines)) <=> TerminalLines(lines) # {}
         /\ TerminalLines(lines) # {} =>
              /\ Last(lines) \in TerminalEvents
              /\ StatusFromEvents(lines) = StatusOf[Last(lines)]
<1>0. Record!Closing = TerminalEvents
  BY DEF Record!Closing, Record!OutcomeOf, TerminalEvents
<1>1. /\ Len(lines) \in Nat /\ DOMAIN lines = 1..Len(lines)
      /\ lines = << >> <=> Len(lines) = 0
  OBVIOUS
<1>2. Record!Ended(Types(lines)) <=> lines # << >> /\ Last(lines) \in TerminalEvents
  BY <1>0, TypesLast DEF Record!Ended
<1>3. TerminalLines(lines) # {} <=> lines # << >> /\ Last(lines) \in TerminalEvents
  BY <1>1 DEF TerminalLines, Last
<1>4. TerminalLines(lines) # {} => StatusFromEvents(lines) = StatusOf[Last(lines)]
  <2> SUFFICES ASSUME TerminalLines(lines) # {}
               PROVE  StatusFromEvents(lines) = StatusOf[Last(lines)]
    OBVIOUS
  <2>1. TerminalLines(lines) = {Len(lines)}
    OBVIOUS
  <2>2. (CHOOSE i \in {Len(lines)} : \A j \in {Len(lines)} : j <= i) = Len(lines)
    BY <1>1
  <2> QED
    BY <2>1, <2>2 DEF StatusFromEvents, Last
<1> QED
  BY <1>2, <1>3, <1>4

-----------------------------------------------------------------------------
(* Steps that leave the record alone *)

(* What Recorded speaks of, of a process that does not step.               *)
LEMMA OthersRecorded ==
  ASSUME NEW q \in Executors, Same(q), step'[q] = step[q], run[q] # NoRun, Recorded(q)
  PROVE  Recorded(q)'
  BY DEF Same, Recorded, Blank, Indexed, Emitting

(* Only the end of a script moves on to the next Step.                     *)
LEMMA StepHeld ==
  ASSUME NEW p \in Procs,
         \/ Indexing(p) \/ List(p) \/ Cancel(p) \/ Crash(p)
         \/ \E r \in Runs : Reserve(p, r) \/ Refuse(p, r)
         \/ Executing(p) /\ ~ExecuteStep(p)
  PROVE  UNCHANGED step
<1> USE DEF Local, Announce, Conclude
<1>1. CASE Indexing(p)
  BY <1>1 DEF Indexing, OpenIndex, BackfillLookup, BackfillRead, BackfillImport, BackfillDone, UpsertRow,
     EnqueueOutbox, MarkPending
<1>2. CASE Executing(p) /\ ~ExecuteStep(p)
  BY <1>2 DEF Executing, WriteRequest, WriteRun, PublishRun, AppendEvent, PublishEvent, Preflight,
     Fulfill, NextStep, Approve, PrepareStep, Manual, Succeed, CancelRun, Fail, Interrupt,
     SealAfterError
<1>3. CASE \/ List(p) \/ Cancel(p) \/ Crash(p)
           \/ \E r \in Runs : Reserve(p, r) \/ Refuse(p, r)
  BY <1>3 DEF List, Cancel, Crash, Reserve, Refuse
<1> QED
  BY <1>1, <1>2, <1>3

(* A trail without a terminal event is open, and run_failed may follow.    *)
LEMMA FailureMayFollow ==
  ASSUME IInv, RecordInv, NEW p \in Executors, run[p] # NoRun, status[p] \notin Outcomes
  PROVE  Record!MayFollow(Types(journal[run[p]]), "run_failed")
<1>1. /\ run[p] \in Runs /\ journal[run[p]] \in Seq(Line)
      /\ TerminalLines(journal[run[p]]) = {}
      /\ TerminalLines(journal[run[p]]) \subseteq {Len(journal[run[p]])}
  BY DEF IInv, TypeOK, StoreTypeOK, Procs, StatusWritten, RecordInv
<1>2. ~Record!Ended(Types(journal[run[p]]))
  BY <1>1, ClosedIsEnded
<1> QED
  BY <1>2 DEF Record!MayFollow

(* A silent step outside the body of Execute.                              *)
LEMMA SilentRecords ==
  ASSUME IInv, RecordInv, NEW p \in Executors, Still, Leads(p), UNCHANGED step, run[p] # NoRun,
         \/ pc[p] \notin BodyLocs
         \/ pc'[p] = "crashed"
         \/ UNCHANGED <<pc, caller, ev, next>>
  PROVE  Recorded(p)'
<1>1. /\ Recorded(p) /\ ExecutorOK(p) /\ pc[p] \notin {"idle", "refused"}
      /\ "run_failed" \in TerminalEvents
      /\ UNCHANGED <<journal, run, seq>>
  BY DEF RecordInv, IInv, ExecutorOK, ExecutorPlaced, TerminalEvents, Still
<1>2. CASE UNCHANGED <<pc, caller, ev, next>>
  BY <1>1, <1>2 DEF Recorded, Blank, Indexed, Emitting
<1>3. CASE pc'[p] \in {"returned", "crashed"}
  BY <1>1, <1>3 DEF Recorded, Blank, Indexed, Emitting, IndexLocs, BodyLocs
<1>4. CASE /\ pc[p] = "sealing" /\ status[p] \notin Outcomes
           /\ pc'[p] = "append" /\ ev'[p] = "run_failed"
  BY <1>1, <1>4, FailureMayFollow DEF Recorded, Blank, Indexed, Emitting, IndexLocs, BodyLocs
<1>5. CASE pc[p] \in OpenLocs \ BodyLocs /\ pc'[p] \in OpenLocs \ BodyLocs
  BY <1>1, <1>5 DEF Recorded, Blank, Indexed, Emitting, IndexLocs, OpenLocs, BodyLocs
<1>6. CASE /\ pc[p] \in OpenLocs \ BodyLocs
           /\ pc'[p] = "open" /\ caller'[p] = "initialize"
  BY <1>1, <1>6 DEF Recorded, Blank, Indexed, Emitting, IndexLocs, OpenLocs, BodyLocs
<1>7. CASE \/ pc'[p] = "open" /\ caller'[p] = "manual"
           \/ /\ pc'[p] = "open" /\ caller'[p] = "reseal"
              /\ ev'[p] = ev[p] /\ ev[p] \in {"run_failed", "run_interrupted"}
  BY <1>1, <1>7 DEF Recorded, Blank, Indexed, Emitting, IndexLocs, BodyLocs
<1>8. CASE pc[p] \in IndexLocs /\ pc'[p] \in IndexLocs /\ UNCHANGED <<caller, ev, next>>
  BY <1>1, <1>8 DEF Recorded, Blank, Indexed, Emitting, IndexLocs, BodyLocs
<1>9. CASE Indexed(p, "initialize") /\ pc'[p] = "publishRun"
  BY <1>1, <1>9 DEF Recorded, Blank, Indexed, Emitting, IndexLocs, BodyLocs
<1>10. CASE \/ Indexed(p, "emit") /\ pc'[p] = "publish" /\ UNCHANGED <<ev, next>>
            \/ Indexed(p, "emit") /\ pc'[p] = "sealing"
  <2>1. ev[p] \in TerminalEvents
    BY <1>1, <1>10 DEF Indexed, ExecutorOK, StatusPlaced
  <2> QED
    BY <1>1, <1>10, <2>1 DEF Recorded, Blank, Indexed, Emitting, IndexLocs, BodyLocs
<1> QED
  BY <1>2, <1>3, <1>4, <1>5, <1>6, <1>7, <1>8, <1>9, <1>10 DEF Leads

-----------------------------------------------------------------------------
(* The body of Execute *)

(* What may follow which event.                                            *)
LEMMA Grammar ==
  /\ Record!Successors["run_created"] =
       {"validation_succeeded", "validation_failed", "run_interrupted"}
  /\ Record!Successors["validation_succeeded"] =
       {"approval_requested", "step_started", "run_succeeded", "run_interrupted"}
  /\ Record!Successors["approval_requested"] =
       {"approval_approved", "approval_rejected", "run_interrupted"}
  /\ Record!Successors["approval_approved"] = {"step_started"}
  /\ Record!Successors["approval_rejected"] = {"run_cancelled"}
  /\ Record!Successors["step_started"] = {"step_succeeded", "step_failed"}
  /\ Record!Successors["step_succeeded"] =
       {"approval_requested", "step_started", "run_succeeded", "run_interrupted"}
  /\ Record!Successors["step_failed"] = {"run_interrupted"}
  BY DEF Record!Successors

(* In the body, an event that may follow the last one.                     *)
LEMMA BodyMayFollow ==
  ASSUME IInv, RecordInv, NEW p \in Executors, pc[p] \in BodyLocs, NEW e,
         e = "run_failed" \/ e \in Record!Successors[Last(journal[run[p]])],
         e = "run_succeeded" => step[p] \in {1, NumSteps + 1},
         e = "step_started" => step[p] <= NumSteps
  PROVE  Record!MayFollow(Types(journal[run[p]]), e)
<1> DEFINE lines == journal[run[p]]
<1>1. run[p] # NoRun /\ status[p] \notin Outcomes
  BY DEF IInv, ExecutorOK, ExecutorPlaced, StatusPlaced, OpenLocs, BodyLocs, Outcomes
<1>2. /\ run[p] \in Runs /\ lines \in Seq(Line) /\ TerminalLines(lines) = {}
      /\ TerminalLines(lines) \subseteq {Len(lines)}
      /\ lines # << >> /\ Done(lines) = step[p] - 1 /\ step[p] \in 1..(NumSteps + 1)
      /\ NumSteps \in Nat
  BY <1>1, RunExecutionAssumption DEF IInv, TypeOK, StoreTypeOK, Procs, StatusWritten, RecordInv,
     Recorded
<1> HIDE DEF lines
<1>3. ~Record!Ended(Types(lines))
  BY <1>2, ClosedIsEnded
<1>4. Types(lines) # << >> /\ Types(lines)[Len(Types(lines))] = Last(lines)
  BY <1>2, TypesLast
<1>5. e = "run_failed" \/ e \in Record!Successors[Types(lines)[Len(Types(lines))]]
  BY <1>4 DEF lines
<1>6. /\ e = "run_succeeded" => Record!Count(Types(lines), "step_succeeded") \in {0, NumSteps}
      /\ e = "step_started" => Record!Count(Types(lines), "step_succeeded") < NumSteps
  BY <1>2 DEF Done
<1> QED
  BY <1>3, <1>4, <1>5, <1>6 DEF Record!MayFollow, lines

(* Moving on within the body.                                              *)
LEMMA LocalRecords ==
  ASSUME IInv, RecordInv, NEW p \in Executors, pc[p] \in BodyLocs, NEW l \in BodyLocs,
         Local(p, l), Reached(l, Last(journal[run[p]]), step[p])
  PROVE  Recorded(p)'
<1>1. run[p] # NoRun /\ pc'[p] = l /\ UNCHANGED <<journal, run, seq, step, ev, next, caller>>
  BY DEF IInv, TypeOK, Procs, ExecutorOK, ExecutorPlaced, BodyLocs, Local, Goto, storeVars
<1>2. Recorded(p)
  BY <1>1 DEF RecordInv
<1> QED
  BY <1>1, <1>2 DEF Recorded, Blank, Indexed, Emitting, IndexLocs, BodyLocs

(* Leaving it for an emit.                                                 *)
LEMMA EmitRecords ==
  ASSUME IInv, RecordInv, NEW p \in Executors, pc[p] \in BodyLocs, NEW e, NEW l, Emit(p, e, l),
         UNCHANGED <<journal, run, seq>>,
         step'[p] = step[p] + IF e = "step_succeeded" THEN 1 ELSE 0,
         step'[p] \in 1..(NumSteps + 1),
         Record!MayFollow(Types(journal[run[p]]), e),
         e \notin TerminalEvents => Reached(l, e, step'[p])
  PROVE  Recorded(p)'
<1>1. run[p] # NoRun /\ pc'[p] = "append" /\ ev'[p] = e /\ next'[p] = l
  BY DEF IInv, TypeOK, Procs, ExecutorOK, ExecutorPlaced, BodyLocs, Emit, Goto
<1>2. /\ seq[p] = Len(journal[run[p]]) /\ step[p] \in Int
      /\ Done(journal[run[p]]) = step[p] - 1
  BY <1>1 DEF RecordInv, Recorded
<1>3. Done(journal[run[p]]) = step'[p] - IF e = "step_succeeded" THEN 2 ELSE 1
  BY <1>2
<1> QED
  BY <1>1, <1>2, <1>3 DEF Recorded, Blank, Indexed, Emitting, IndexLocs, BodyLocs

(* Announcing what may follow.                                             *)
LEMMA AnnounceRecords ==
  ASSUME IInv, RecordInv, NEW p \in Executors, pc[p] \in BodyLocs, NEW e, NEW l,
         Announce(p, e, l), e \notin {"step_succeeded", "run_succeeded"},
         e \in Record!Successors[Last(journal[run[p]])],
         e = "step_started" => step[p] <= NumSteps,
         Reached(l, e, step[p])
  PROVE  Recorded(p)'
<1>1. /\ run[p] # NoRun /\ Emit(p, e, l)
      /\ UNCHANGED <<journal, run, seq, step>>
  BY DEF IInv, ExecutorOK, ExecutorPlaced, BodyLocs, Announce, storeVars
<1>2. step[p] \in 1..(NumSteps + 1)
  BY <1>1 DEF RecordInv, Recorded
<1>3. Record!MayFollow(Types(journal[run[p]]), e)
  BY BodyMayFollow
<1>4. step'[p] = step[p] + IF e = "step_succeeded" THEN 1 ELSE 0
  BY <1>1, <1>2
<1>5. step'[p] \in 1..(NumSteps + 1) /\ Reached(l, e, step'[p])
  BY <1>1, <1>2
<1> QED
  BY <1>1, <1>3, <1>4, <1>5, EmitRecords

(* Concluding with what may follow.                                        *)
LEMMA ConcludeRecords ==
  ASSUME IInv, RecordInv, NEW p \in Executors, pc[p] \in BodyLocs, NEW s, NEW e \in TerminalEvents,
         Conclude(p, s, e),
         e = "run_failed" \/ e \in Record!Successors[Last(journal[run[p]])],
         e = "run_succeeded" => step[p] \in {1, NumSteps + 1}
  PROVE  Recorded(p)'
<1>1. /\ run[p] # NoRun /\ Emit(p, e, "returned") /\ e \notin {"step_succeeded", "step_started"}
      /\ UNCHANGED <<journal, run, seq, step>>
  BY DEF IInv, ExecutorOK, ExecutorPlaced, BodyLocs, Conclude, storeVars, TerminalEvents
<1>2. step[p] \in 1..(NumSteps + 1)
  BY <1>1 DEF RecordInv, Recorded
<1>3. Record!MayFollow(Types(journal[run[p]]), e)
  BY <1>1, BodyMayFollow
<1>4. step'[p] = step[p] + IF e = "step_succeeded" THEN 1 ELSE 0
  BY <1>1, <1>2
<1>5. step'[p] \in 1..(NumSteps + 1)
  BY <1>1, <1>2
<1> QED
  BY <1>1, <1>3, <1>4, <1>5, EmitRecords

(* One step of the body.                                                   *)
LEMMA BodyRecords ==
  ASSUME IInv, RecordInv, NEW p \in Executors,
         \/ Preflight(p) \/ Fulfill(p) \/ NextStep(p) \/ Approve(p) \/ PrepareStep(p)
         \/ ExecuteStep(p) \/ Manual(p)
         \/ Succeed(p) \/ CancelRun(p) \/ Fail(p) \/ Interrupt(p)
  PROVE  Recorded(p)'
<1> DEFINE e == Last(journal[run[p]])
           k == step[p]
<1>1. pc[p] \in BodyLocs
  BY DEF Preflight, Fulfill, NextStep, Approve, PrepareStep, ExecuteStep, Manual, Succeed,
     CancelRun, Fail, Interrupt, BodyLocs
<1>2. run[p] # NoRun /\ p \in Procs
  BY <1>1 DEF IInv, ExecutorOK, ExecutorPlaced, BodyLocs, Procs
<1>3. Reached(pc[p], e, k) /\ k \in 1..(NumSteps + 1) /\ NumSteps \in Nat \ {0}
  BY <1>1, <1>2, RunExecutionAssumption DEF RecordInv, Recorded
<1>4. /\ {"manual", "step", "failing", "interrupting", "prepare", "returns", "fulfill"} \subseteq BodyLocs
      /\ \A x : Reached("failing", x, k)
      /\ {"run_succeeded", "run_failed", "run_cancelled", "run_interrupted"} = TerminalEvents
  BY DEF BodyLocs, Reached, TerminalEvents
<1> HIDE DEF k
<1>5. CASE Preflight(p)
  <2>1. e = "run_created" /\ k = 1
    BY <1>3, <1>5 DEF Reached, Preflight
  <2>2. /\ Reached("interrupting", e, k)
        /\ Reached("fulfill", "validation_succeeded", k)
    BY <2>1 DEF Reached
  <2> HIDE DEF e
  <2>3. CASE Announce(p, "validation_succeeded", "fulfill")
    BY <1>1, <2>1, <2>2, <2>3, AnnounceRecords, Grammar DEF e, k
  <2>4. CASE Announce(p, "validation_failed", "failing")
    BY <1>1, <1>4, <2>1, <2>4, AnnounceRecords, Grammar DEF e, k
  <2>5. CASE Local(p, "interrupting")
    BY <1>1, <1>4, <2>2, <2>5, LocalRecords DEF e, k
  <2> QED
    BY <1>5, <2>3, <2>4, <2>5 DEF Preflight
<1>6. CASE Fulfill(p)
  <2>1. \A l \in {"manual", "step", "failing"} : Reached(l, e, k)
    BY <1>3, <1>6 DEF Reached, Fulfill
  <2> QED
    BY <1>1, <1>4, <1>6, <2>1, LocalRecords DEF Fulfill, k
<1>7. CASE NextStep(p)
  <2>1. e \in {"validation_succeeded", "step_succeeded"}
    BY <1>3, <1>7 DEF Reached, NextStep
  <2>2. /\ Reached("interrupting", e, k)
        /\ k > NumSteps => Reached("returns", e, k)
        /\ k <= NumSteps => Reached("approve", "approval_requested", k) /\ Reached("prepare", e, k)
    BY <1>3, <2>1 DEF Reached
  <2>3. \/ k > NumSteps /\ Local(p, "returns")
        \/ Local(p, "interrupting")
        \/ k <= NumSteps /\ Announce(p, "approval_requested", "approve")
        \/ k <= NumSteps /\ Local(p, "prepare")
        \/ Local(p, "failing")
    BY <1>7 DEF NextStep, k
  <2> HIDE DEF e
  <2>4. CASE k <= NumSteps /\ Announce(p, "approval_requested", "approve")
    BY <1>1, <2>1, <2>2, <2>4, AnnounceRecords, Grammar DEF e, k
  <2>5. CASE \/ k > NumSteps /\ Local(p, "returns")
             \/ Local(p, "interrupting")
             \/ k <= NumSteps /\ Local(p, "prepare")
             \/ Local(p, "failing")
    BY <1>1, <1>4, <2>2, <2>5, LocalRecords DEF e, k
  <2> QED
    BY <2>3, <2>4, <2>5
<1>8. CASE Approve(p)
  <2>1. e = "approval_requested" /\ k <= NumSteps
    BY <1>3, <1>8 DEF Reached, Approve
  <2>2. /\ Reached("interrupting", e, k)
        /\ Reached("prepare", "approval_approved", k)
        /\ Reached("cancel", "approval_rejected", k)
    BY <2>1 DEF Reached
  <2> HIDE DEF e
  <2>3. CASE Announce(p, "approval_approved", "prepare")
    BY <1>1, <2>1, <2>2, <2>3, AnnounceRecords, Grammar DEF e, k
  <2>4. CASE Announce(p, "approval_rejected", "cancel")
    BY <1>1, <2>1, <2>2, <2>4, AnnounceRecords, Grammar DEF e, k
  <2>5. CASE Local(p, "interrupting") \/ Local(p, "failing")
    BY <1>1, <1>4, <2>2, <2>5, LocalRecords DEF e, k
  <2> QED
    BY <1>8, <2>3, <2>4, <2>5 DEF Approve
<1>9. CASE PrepareStep(p)
  <2>1. /\ e \in {"validation_succeeded", "step_succeeded", "approval_approved"}
        /\ k <= NumSteps
    BY <1>3, <1>9 DEF Reached, PrepareStep
  <2>2. Reached("execute", "step_started", k)
    BY <2>1 DEF Reached
  <2> HIDE DEF e
  <2>3. CASE Announce(p, "step_started", "execute")
    BY <1>1, <2>1, <2>2, <2>3, AnnounceRecords, Grammar DEF e, k
  <2>4. CASE Local(p, "failing")
    BY <1>1, <1>4, <2>4, LocalRecords DEF e, k
  <2> QED
    BY <1>9, <2>3, <2>4 DEF PrepareStep
<1>10. CASE ExecuteStep(p)
  <2>1. e = "step_started" /\ k <= NumSteps
    BY <1>3, <1>10 DEF Reached, ExecuteStep
  <2>2. /\ UNCHANGED <<journal, run, seq>>
        /\ \A x \in {"step_succeeded", "step_failed"} :
             Record!MayFollow(Types(journal[run[p]]), x)
    BY <1>1, <1>10, <2>1, BodyMayFollow, Grammar DEF ExecuteStep, storeVars
  <2> HIDE DEF e
  <2>3. CASE Emit(p, "step_succeeded", "step") /\ step' = [step EXCEPT ![p] = @ + 1]
    <3>1. step'[p] = k + 1
      BY <1>2, <2>3 DEF IInv, TypeOK, k
    <3>2. step'[p] \in 1..(NumSteps + 1) /\ Reached("step", "step_succeeded", step'[p])
      BY <1>3, <2>1, <3>1 DEF Reached
    <3> QED
      BY <1>1, <2>2, <2>3, <3>1, <3>2, EmitRecords DEF k
  <2>4. ASSUME NEW l \in {"failing", "interrupting"}, Emit(p, "step_failed", l), UNCHANGED step
        PROVE  Recorded(p)'
    <3>1. step'[p] = step[p] + IF "step_failed" = "step_succeeded" THEN 1 ELSE 0
      BY <1>3, <2>4 DEF k
    <3>2. step'[p] \in 1..(NumSteps + 1) /\ Reached(l, "step_failed", step'[p])
      BY <1>3, <2>4 DEF Reached, k
    <3> QED
      BY <1>1, <2>2, <2>4, <3>1, <3>2, EmitRecords
  <2> QED
    BY <1>10, <2>3, <2>4 DEF ExecuteStep
<1>11. CASE Manual(p)
  <2>1. Reached("returns", e, k) /\ Reached("interrupting", e, k)
    BY <1>3, <1>11 DEF Reached, Manual
  <2>2. CASE /\ IndexRun(p, "manual")
             /\ UNCHANGED <<storeVars, run, shared, seq, ev, next, step, scan, found, cancelled,
                            remoteVars, faultVars>>
    <3>1. /\ pc'[p] = "open" /\ caller'[p] = "manual"
          /\ UNCHANGED <<journal, run, seq, step>>
      BY <1>2, <2>2 DEF IInv, TypeOK, IndexRun, Goto, storeVars
    <3> QED
      BY <1>2, <3>1 DEF RecordInv, Recorded, Blank, Indexed, Emitting, IndexLocs, BodyLocs
  <2>3. CASE Local(p, "returns") \/ Local(p, "interrupting") \/ Local(p, "failing")
    BY <1>1, <1>4, <2>1, <2>3, LocalRecords DEF k
  <2> QED
    BY <1>11, <2>2, <2>3 DEF Manual
<1>12. CASE Succeed(p)
  <2>1. e \in {"validation_succeeded", "step_succeeded"} /\ k \in {1, NumSteps + 1}
    BY <1>3, <1>12 DEF Reached, Succeed
  <2> HIDE DEF e
  <2>2. CASE Conclude(p, "succeeded", "run_succeeded")
    BY <1>1, <1>4, <2>1, <2>2, ConcludeRecords, Grammar DEF e, k
  <2>3. CASE Local(p, "failing")
    BY <1>1, <1>4, <2>3, LocalRecords DEF e, k
  <2> QED
    BY <1>12, <2>2, <2>3 DEF Succeed
<1>13. CASE CancelRun(p)
  <2>1. e = "approval_rejected"
    BY <1>3, <1>13 DEF Reached, CancelRun
  <2> HIDE DEF e
  <2> QED
    BY <1>1, <1>4, <1>13, <2>1, ConcludeRecords, Grammar DEF CancelRun, e
<1>14. CASE Fail(p)
  BY <1>1, <1>4, <1>14, ConcludeRecords DEF Fail
<1>15. CASE Interrupt(p)
  <2>1. e \in {"run_created", "validation_succeeded", "approval_requested", "step_succeeded",
               "step_failed"}
    BY <1>3, <1>15 DEF Reached, Interrupt
  <2> HIDE DEF e
  <2>2. "run_interrupted" \in Record!Successors[e]
    BY <2>1, Grammar
  <2> QED
    BY <1>1, <1>4, <1>15, <2>2, ConcludeRecords DEF Interrupt, e
<1> QED
  BY <1>5, <1>6, <1>7, <1>8, <1>9, <1>10, <1>11, <1>12, <1>13, <1>14, <1>15

-----------------------------------------------------------------------------
(* Reserving, recording and publishing *)

(* A new directory has an empty trail.                                     *)
LEMMA ReserveRecords ==
  ASSUME IInv, PublishInv, RecordInv, NEW p \in Executors, NEW r \in Runs, Reserve(p, r)
  PROVE  Recorded(p)'
<1>1. /\ p \in Procs /\ run[p] = NoRun /\ pc[p] = "idle" /\ journal[r] = << >>
      /\ UNCHANGED <<journal, seq, step>>
  BY DEF IInv, Procs, Reserve, Owned, ExecutorOK, ExecutorPlaced
<1>2. pc'[p] = "request" /\ run'[p] = r
  BY <1>1 DEF Reserve, IInv, TypeOK, Goto
<1>3. seq[p] = 0 /\ step[p] = 1 /\ NumSteps \in Nat
  BY <1>1, RunExecutionAssumption DEF PublishInv, RecordInv
<1> QED
  BY <1>1, <1>2, <1>3 DEF Recorded, Blank, Indexed, Emitting, IndexLocs, BodyLocs

(* run_created opens the trail.                                            *)
LEMMA RunRecords ==
  ASSUME IInv, RecordInv, NEW p \in Executors, PublishRun(p)
  PROVE  Recorded(p)'
<1>1. /\ p \in Procs /\ run[p] # NoRun /\ pc[p] = "publishRun"
      /\ UNCHANGED <<journal, run, seq, caller, step>>
  BY DEF IInv, Procs, PublishRun, ExecutorOK, ExecutorPlaced, storeVars
<1>2. /\ Recorded(p) /\ journal[run[p]] = << >> /\ step[p] = 1
  BY <1>1 DEF RecordInv, Recorded, Blank
<1>3. \/ pc'[p] = "append" /\ ev'[p] = "run_created" /\ next'[p] = "preflight"
      \/ pc'[p] = "sealing"
  BY <1>1 DEF IInv, TypeOK, PublishRun, Emit, Goto
<1>4. Done(journal[run[p]]) = 0 /\ Record!MayFollow(Types(journal[run[p]]), "run_created")
  BY <1>2, DoneEmpty DEF Record!MayFollow, Record!Ended
<1>5. Reached("preflight", "run_created", 1) /\ "run_created" \notin TerminalEvents
  BY DEF Reached, TerminalEvents
<1> QED
  BY <1>1, <1>2, <1>3, <1>4, <1>5 DEF Recorded, Blank, Indexed, Emitting, IndexLocs, BodyLocs

(* A clean append leaves the trail as it was, or one event longer.         *)
LEMMA CleanAppend ==
  ASSUME AppendFaults \subseteq {"clean"}, IInv, RecordInv, NEW p \in Executors, AppendEvent(p)
  PROVE  \/ UNCHANGED <<journal, seq>> /\ EmitFails(p)
         \/ /\ journal' = [journal EXCEPT ![run[p]] = Append(journal[run[p]], CurrentLine(p))]
            /\ seq' = [seq EXCEPT ![p] = @ + 1]
            /\ \/ ev[p] \in TerminalEvents /\ IndexRun(p, "emit")
               \/ ev[p] \notin TerminalEvents /\ Goto(p, "publish") /\ UNCHANGED caller
<1>1. run[p] \in Runs /\ journal[run[p]] \in Seq(Line) /\ DOMAIN journal = Runs
  BY AppendedTrail DEF IInv, TypeOK, StoreTypeOK
<1>2. ~EndsTorn(journal[run[p]])
  BY <1>1 DEF RecordInv
<1>3. AppendFails(run[p], CurrentLine(p)) => UNCHANGED journal
  BY DEF AppendFails
<1>4. AppendOK(run[p], CurrentLine(p)) =>
        journal' = [journal EXCEPT ![run[p]] = Append(journal[run[p]], CurrentLine(p))]
  BY <1>1, <1>2 DEF AppendOK, WithLine
<1> QED
  BY <1>3, <1>4 DEF AppendEvent

(* Appending: the event that was to follow follows.                        *)
LEMMA AppendRecords ==
  ASSUME AppendFaults \subseteq {"clean"}, IInv, RecordInv, NEW p \in Executors, AppendEvent(p)
  PROVE  /\ Recorded(p)'
         /\ \A r \in Runs : TerminalLines(journal[r])' \subseteq {Len(journal'[r])}
                            /\ ~EndsTorn(journal[r])'
<1> DEFINE old == journal[run[p]]
           l   == CurrentLine(p)
           new == Append(old, l)
<1>a. p \in Procs /\ TypeOK /\ run[p] \in Runs /\ TerminalLines(old) = {}
  BY AppendedTrail DEF IInv, Procs
<1>b. old \in Seq(Line) /\ l \in Line /\ ev[p] \in EventTypes
  BY <1>a, CurrentLineType DEF TypeOK, StoreTypeOK
<1>c. l.type = ev[p] /\ l # Torn
  BY <1>b DEF CurrentLine, Torn, EventTypes, TerminalEvents
<1>d. run[p] # NoRun /\ pc[p] = "append" /\ UNCHANGED <<run, ev, next, step>>
  BY <1>a, RunExecutionAssumption DEF AppendEvent
<1>1. /\ p \in Procs /\ run[p] # NoRun /\ run[p] \in Runs /\ pc[p] = "append"
      /\ old \in Seq(Line) /\ l \in Line /\ l.type = ev[p] /\ l # Torn
      /\ TerminalLines(old) = {}
      /\ UNCHANGED <<run, ev, next, step>>
  BY <1>a, <1>b, <1>c, <1>d
<1>2. Recorded(p)
  BY <1>1 DEF RecordInv
<1>3. CASE UNCHANGED <<journal, seq>> /\ EmitFails(p)
  <2>1. \/ pc'[p] = "sealing"
        \/ /\ pc'[p] = "open" /\ caller'[p] = "reseal"
           /\ ev[p] \in {"run_failed", "run_interrupted"}
    BY <1>1, <1>3 DEF IInv, TypeOK, EmitFails, IndexRun, Goto
  <2>2. Recorded(p)'
    BY <1>1, <1>2, <1>3, <2>1 DEF Recorded, Blank, Indexed, Emitting, IndexLocs, BodyLocs
  <2> QED
    BY <1>3, <2>2 DEF RecordInv
<1>4. CASE /\ journal' = [journal EXCEPT ![run[p]] = Append(journal[run[p]], CurrentLine(p))]
           /\ seq' = [seq EXCEPT ![p] = @ + 1]
           /\ \/ ev[p] \in TerminalEvents /\ IndexRun(p, "emit")
              \/ ev[p] \notin TerminalEvents /\ Goto(p, "publish") /\ UNCHANGED caller
  <2>1. /\ journal'[run[p]] = new
        /\ \A r \in Runs : r # run[p] => journal'[r] = journal[r]
        /\ seq'[p] = seq[p] + 1
    BY <1>1, <1>4 DEF IInv, TypeOK, StoreTypeOK
  <2>2. \/ ev[p] \in TerminalEvents /\ pc'[p] = "open" /\ caller'[p] = "emit"
        \/ ev[p] \notin TerminalEvents /\ pc'[p] = "publish"
    BY <1>1, <1>4 DEF IInv, TypeOK, IndexRun, Goto
  <2>3. /\ Last(new) = ev[p] /\ new # << >> /\ Len(new) = Len(old) + 1
        /\ Done(new) = Done(old) + IF ev[p] = "step_succeeded" THEN 1 ELSE 0
        /\ Done(old) \in Nat
    BY <1>1, TypesAppend, DoneAppend
  <2>4. TerminalLines(new) \subseteq {Len(new)} /\ ~EndsTorn(new)
    <3> HIDE DEF l, old
    <3>1. /\ DOMAIN new = 1..(Len(old) + 1) /\ DOMAIN old = 1..Len(old) /\ Len(old) \in Nat
          /\ new[Len(old) + 1] = l /\ \A i \in 1..Len(old) : new[i] = old[i]
          /\ Len(new) = Len(old) + 1
      BY <1>1
    <3> QED
      BY <1>1, <3>1 DEF TerminalLines, EndsTorn
  <2>5. \A r \in Runs : TerminalLines(journal[r])' \subseteq {Len(journal'[r])}
                        /\ ~EndsTorn(journal[r])'
    <3> SUFFICES ASSUME NEW r \in Runs
                 PROVE  /\ TerminalLines(journal'[r]) \subseteq {Len(journal'[r])}
                        /\ ~EndsTorn(journal'[r])
      BY DEF TerminalLines, EndsTorn
    <3> HIDE DEF new
    <3> QED
      BY <2>1, <2>4 DEF RecordInv
  <2>6. Recorded(p)'
    <3> HIDE DEF new
    <3>1. seq'[p] = Len(new) /\ step[p] \in 1..(NumSteps + 1)
      BY <1>1, <1>2, <2>1, <2>3 DEF Recorded
    <3>2. ev[p] \notin TerminalEvents => Done(new) = step[p] - 1 /\ Reached(next[p], ev[p], step[p])
      BY <1>1, <1>2, <2>3, <3>1 DEF Recorded, Emitting
    <3> QED
      BY <1>1, <2>1, <2>2, <2>3, <3>1, <3>2 DEF Recorded, Blank, Indexed, Emitting, IndexLocs, BodyLocs
  <2> QED
    BY <2>5, <2>6
<1> QED
  BY <1>3, <1>4, CleanAppend

(* Publishing, and going on from there.                                    *)
LEMMA EventRecords ==
  ASSUME IInv, RecordInv, NEW p \in Executors, PublishEvent(p)
  PROVE  Recorded(p)'
<1>1. /\ p \in Procs /\ run[p] # NoRun /\ pc[p] = "publish"
      /\ UNCHANGED <<journal, run, seq, step, ev, next>>
  BY DEF IInv, Procs, PublishEvent, ExecutorOK, ExecutorPlaced, storeVars
<1>2. Recorded(p)
  BY <1>1 DEF RecordInv
<1>3. CASE EmitFails(p)
  <2>1. \/ pc'[p] = "sealing"
        \/ /\ pc'[p] = "open" /\ caller'[p] = "reseal"
           /\ ev[p] \in {"run_failed", "run_interrupted"}
    BY <1>1, <1>3 DEF IInv, TypeOK, EmitFails, IndexRun, Goto
  <2> QED
    BY <1>1, <1>2, <2>1 DEF Recorded, Blank, Indexed, Emitting, IndexLocs, BodyLocs
<1>4. CASE Goto(p, next[p])
  <2>1. pc'[p] = next[p]
    BY <1>1, <1>4 DEF IInv, TypeOK, Goto
  <2>2. next[p] = "returned" \/ (next[p] \in BodyLocs /\ ev[p] \notin TerminalEvents)
    BY <1>1 DEF IInv, ExecutorOK, ExecutorPlaced, Emitting
  <2> QED
    BY <1>1, <1>2, <2>1, <2>2 DEF Recorded, Blank, Indexed, Emitting, IndexLocs, BodyLocs
<1> QED
  BY <1>3, <1>4 DEF PublishEvent

-----------------------------------------------------------------------------
(* RecordInv is inductive beside IInv and PublishInv                       *)

(* It is enough to look at the process that steps.                         *)
LEMMA RecordSuffices ==
  ASSUME IInv, PublishInv, RecordInv, NEW p \in Procs, Frame(p),
         Still \/ (p \in Executors /\ Speaks(p)),
         \A q \in Executors : q # p => step'[q] = step[q],
         p \in Executors /\ run'[p] # NoRun => Recorded(p)',
         p \in Executors /\ run'[p] = NoRun => step'[p] = 1,
         \A r \in Runs : TerminalLines(journal[r])' \subseteq {Len(journal'[r])}
                         /\ ~EndsTorn(journal[r])'
  PROVE  RecordInv'
<1>1. ASSUME NEW q \in Executors, q # p
      PROVE  /\ run'[q] = NoRun => step'[q] = 1
             /\ run'[q] # NoRun => Recorded(q)'
  <2>1. Same(q) /\ step'[q] = step[q]
    BY <1>1, OthersSame
  <2>2. run'[q] = run[q]
    BY <2>1 DEF Same
  <2>3. (run[q] = NoRun => step[q] = 1) /\ (run[q] # NoRun => Recorded(q))
    BY DEF RecordInv
  <2> QED
    BY <2>1, <2>2, <2>3, OthersRecorded
<1> QED
  BY <1>1 DEF RecordInv

LEMMA RecordInit == Init => RecordInv
<1> SUFFICES ASSUME Init PROVE RecordInv
  OBVIOUS
<1>1. \A p \in Executors : run[p] = NoRun /\ step[p] = 1
  BY DEF Init, Procs
<1>2. \A r \in Runs : journal[r] = << >>
  BY DEF Init, StoreInit
<1> QED
  BY <1>1, <1>2 DEF RecordInv, TerminalLines, EndsTorn

LEMMA RecordNext ==
  ASSUME AppendFaults \subseteq {"clean"}
  PROVE  IInv /\ PublishInv /\ RecordInv /\ [Next]_vars => RecordInv'
<1> SUFFICES ASSUME IInv, PublishInv, RecordInv, [Next]_vars PROVE RecordInv'
  OBVIOUS
<1>1. TypeOK /\ \A p \in Executors : p \in Procs
  BY DEF IInv, Procs
<1> DEFINE Trails == \A r \in Runs : TerminalLines(journal[r])' \subseteq {Len(journal'[r])}
                                     /\ ~EndsTorn(journal[r])'
<1>2. UNCHANGED journal => Trails
  BY DEF RecordInv, TerminalLines, EndsTorn
<1> HIDE DEF Trails
<1>3. ASSUME NEW p \in Executors, Speaks(p)
      PROVE  RecordInv'
  <2>1. Frame(p) /\ UNCHANGED step
    BY <1>1, <1>3, ExecutingFrame, StepHeld DEF Speaks, Executing, AppendEvent, PublishRun, PublishEvent
  <2>2. Trails
    <3>1. CASE AppendEvent(p)
      BY <3>1, AppendRecords DEF Trails
    <3>2. CASE ~AppendEvent(p)
      BY <1>2, <1>3, <3>2 DEF Speaks, Reserve, PublishRun, PublishEvent, storeVars
    <3> QED
      BY <3>1, <3>2
  <2>3. Recorded(p)'
    BY <1>3, ReserveRecords, AppendRecords, RunRecords, EventRecords DEF Speaks
  <2>4. run'[p] # NoRun
    <3>1. CASE \E r \in Runs : Reserve(p, r)
      BY <1>1, <3>1, RunExecutionAssumption DEF Reserve, TypeOK
    <3>2. CASE AppendEvent(p) \/ PublishRun(p) \/ PublishEvent(p)
      BY <3>2 DEF AppendEvent, PublishRun, PublishEvent, IInv, ExecutorOK, ExecutorPlaced
    <3> QED
      BY <1>3, <3>1, <3>2 DEF Speaks
  <2> QED
    BY <1>1, <1>3, <2>1, <2>2, <2>3, <2>4, RecordSuffices DEF Trails
<1>4. ASSUME NEW p \in Executors, ~Speaks(p),
             Executing(p) \/ Cancel(p) \/ Crash(p) \/ (\E r \in Runs : Refuse(p, r))
      PROVE  RecordInv'
  <2>1. Frame(p) /\ Still /\ Leads(p)
    BY <1>1, <1>4, ExecutingFrame, ExecutingLeads
  <2>2. Trails
    BY <1>2, <2>1 DEF Still
  <2>3. CASE \/ Preflight(p) \/ Fulfill(p) \/ NextStep(p) \/ Approve(p) \/ PrepareStep(p)
             \/ ExecuteStep(p) \/ Manual(p)
             \/ Succeed(p) \/ CancelRun(p) \/ Fail(p) \/ Interrupt(p)
    <3>1. pc[p] \in BodyLocs
      BY <2>3 DEF Preflight, Fulfill, NextStep, Approve, PrepareStep, ExecuteStep, Manual, Succeed,
         CancelRun, Fail, Interrupt, BodyLocs
    <3>2. run'[p] # NoRun
      BY <2>1, <3>1 DEF Still, IInv, ExecutorOK, ExecutorPlaced, BodyLocs
    <3>3. \A q \in Executors : q # p => step'[q] = step[q]
      <4>1. CASE ExecuteStep(p)
        BY <1>1, <4>1 DEF ExecuteStep, TypeOK
      <4>2. CASE ~ExecuteStep(p)
        BY <1>1, <2>3, <4>2, StepHeld DEF Executing
      <4> QED
        BY <4>1, <4>2
    <3> QED
      BY <1>1, <2>1, <2>2, <2>3, <3>2, <3>3, BodyRecords, RecordSuffices DEF Trails
  <2>4. CASE \/ WriteRequest(p) \/ WriteRun(p) \/ SealAfterError(p)
             \/ Cancel(p) \/ Crash(p) \/ \E r \in Runs : Refuse(p, r)
    <3>1. UNCHANGED step
      BY <1>1, <2>4, StepHeld DEF Executing, ExecuteStep, WriteRequest, WriteRun, SealAfterError
    <3>2. \/ pc[p] \notin BodyLocs
          \/ pc'[p] = "crashed"
          \/ UNCHANGED <<pc, caller, ev, next>>
      BY <1>1, <2>4 DEF WriteRequest, WriteRun, SealAfterError, Cancel, Crash, Refuse, Goto, TypeOK, BodyLocs
    <3>3. run'[p] # NoRun => Recorded(p)'
      BY <2>1, <3>1, <3>2, SilentRecords DEF Still
    <3>4. run'[p] = NoRun => step'[p] = 1
      BY <2>1, <3>1 DEF Still, RecordInv
    <3> QED
      BY <1>1, <2>1, <2>2, <3>1, <3>3, <3>4, RecordSuffices DEF Trails
  <2> QED
    BY <1>4, <2>3, <2>4 DEF Executing, Speaks
<1>5. ASSUME NEW p \in Procs, Indexing(p)
      PROVE  RecordInv'
  <2>1. /\ Frame(p) /\ Still /\ (p \in Executors => Leads(p)) /\ UNCHANGED step
    BY <1>1, <1>5, IndexingFrame, IndexingLeads, StepHeld
  <2>2. Trails
    BY <1>2, <2>1 DEF Still
  <2>3. pc[p] \notin BodyLocs
    BY <1>5 DEF Indexing, OpenIndex, BackfillLookup, BackfillRead, BackfillImport, BackfillDone, UpsertRow,
       EnqueueOutbox, MarkPending, BodyLocs
  <2>4. p \in Executors /\ run'[p] # NoRun => Recorded(p)'
    BY <2>1, <2>3, SilentRecords DEF Still
  <2>5. p \in Executors /\ run'[p] = NoRun => step'[p] = 1
    BY <2>1 DEF Still, RecordInv
  <2> QED
    BY <1>1, <2>1, <2>2, <2>4, <2>5, RecordSuffices DEF Trails
<1>6. ASSUME NEW p \in Readers, List(p)
      PROVE  RecordInv'
  <2>1. p \in Procs /\ p \notin Executors /\ Still
    BY <1>6, RunExecutionAssumption DEF List, Still, Procs, storeVars, remoteVars
  <2>2. Frame(p) /\ UNCHANGED step
    BY <1>1, <1>6, <2>1, ExecutingFrame, StepHeld
  <2>3. Trails
    BY <1>2, <2>1 DEF Still
  <2> QED
    BY <2>1, <2>2, <2>3, RecordSuffices DEF Trails
<1>7. CASE UNCHANGED vars
  <2>1. UNCHANGED <<journal, pc, run, seq, step, ev, next, caller>>
    BY <1>7 DEF vars, procVars, storeVars
  <2> QED
    BY <1>2, <2>1 DEF RecordInv, Recorded, Blank, Indexed, Emitting, Trails
<1> QED
  BY <1>3, <1>4, <1>5, <1>6, <1>7 DEF Next, Speaks

(* Everything recorded is what the record says.                            *)
LEMMA Records ==
  ASSUME AppendFaults \subseteq {"clean"}
  PROVE  Spec => []RecordInv
<1>1. IInv /\ PublishInv /\ RecordInv /\ [Next]_vars => RecordInv'
  BY RecordNext
<1> QED
  BY <1>1, Inductive, Publishes, RecordInit, PTL DEF Spec

-----------------------------------------------------------------------------
(* Every step is one of the record                                         *)

(* What the coordinator has, as places in the trail.                       *)
Places(lines) == [i \in DOMAIN lines |-> lines[i].seq + 1]

Unseen == UNCHANGED <<journal, row, remote>>

LEMMA UnseenStutters == Unseen => UNCHANGED Record!recordVars
  BY DEF Unseen, Record!recordVars

LEMMA InitRefines == Init => Record!Init
<1> SUFFICES ASSUME Init PROVE Record!Init
  OBVIOUS
<1>1. \A r \in Runs : journal[r] = << >> /\ remote[r] = << >>
  BY DEF Init, StoreInit
<1>2. row = [r \in Runs |-> "absent"]
  BY DEF Init, StoreInit
<1>3. \A r \in Runs : /\ [i \in DOMAIN journal[r] |-> journal[r][i].type] = << >>
                      /\ [i \in DOMAIN remote[r] |-> remote[r][i].seq + 1] = << >>
  BY <1>1
<1> QED
  BY <1>2, <1>3 DEF Record!Init

(* A line that is appended is a step of the record.                        *)
LEMMA AppendRefines ==
  ASSUME AppendFaults \subseteq {"clean"}, IInv, RecordInv, NEW p \in Executors, AppendEvent(p)
  PROVE  Record!Next \/ Unseen
<1> DEFINE old == journal[run[p]]
           l   == CurrentLine(p)
<1>1. p \in Procs /\ TypeOK /\ run[p] \in Runs /\ UNCHANGED <<row, remote>>
  BY AppendedTrail DEF IInv, Procs, AppendEvent, remoteVars
<1>2. /\ old \in Seq(Line) /\ l \in Line /\ l.type = ev[p] /\ ev[p] \in EventTypes
      /\ journal \in [Runs -> Seq(Line)]
  BY <1>1, CurrentLineType DEF TypeOK, StoreTypeOK, CurrentLine
<1>3. Record!MayFollow(Types(old), ev[p])
  BY <1>1, RunExecutionAssumption DEF AppendEvent, RecordInv, Recorded
<1>4. ASSUME journal' = [journal EXCEPT ![run[p]] = Append(journal[run[p]], CurrentLine(p))]
      PROVE  Record!Next
  <2> DEFINE T == [r \in Runs |-> [i \in DOMAIN journal[r] |-> journal[r][i].type]]
  <2>1. /\ journal'[run[p]] = Append(old, l)
        /\ \A r \in Runs : r # run[p] => journal'[r] = journal[r]
    BY <1>1, <1>2, <1>4
  <2>2. Types(journal'[run[p]]) = Append(Types(old), ev[p])
    BY <1>2, <2>1, TypesAppend
  <2>3. \A r \in Runs : T[r] = Types(journal[r])
    BY DEF Types
  <2>4. T' = [r \in Runs |-> Types(journal'[r])]
    BY DEF Types
  <2>5. T' = [T EXCEPT ![run[p]] = Append(T[run[p]], ev[p])]
    <3>1. \A r \in Runs : Types(journal'[r]) = IF r = run[p] THEN Append(T[run[p]], ev[p]) ELSE T[r]
      BY <1>1, <2>1, <2>2, <2>3
    <3>2. [T EXCEPT ![run[p]] = Append(T[run[p]], ev[p])]
            = [r \in Runs |-> IF r = run[p] THEN Append(T[run[p]], ev[p]) ELSE T[r]]
      OBVIOUS
    <3> HIDE DEF T
    <3> QED
      BY <2>4, <3>1, <3>2
  <2>6. Record!MayFollow(T[run[p]], ev[p])
    BY <1>1, <1>3, <2>3
  <2>7. ev[p] \in DOMAIN Record!Successors \union Record!Closing
    BY <1>2 DEF EventTypes, TerminalEvents, Record!Successors, Record!Closing, Record!OutcomeOf
  <2>8. PICK r \in Runs : r = run[p]
    BY <1>1
  <2>9. PICK e \in DOMAIN Record!Successors \union Record!Closing : e = ev[p]
    BY <2>7
  <2>10. Record!Record(r, e)
    BY <1>1, <2>5, <2>6, <2>8, <2>9 DEF Record!Record
  <2> QED
    BY <2>10 DEF Record!Next
<1>5. ASSUME UNCHANGED journal
      PROVE  Unseen
  BY <1>1, <1>5 DEF Unseen
<1> QED
  BY <1>4, <1>5, CleanAppend

(* An event the coordinator takes is the newest of the trail.              *)
LEMMA AcceptRefines ==
  ASSUME IInv, PublishInv, RecordInv, NEW p \in Executors, pc[p] = "publish", shared[p],
         Accept(p), UNCHANGED <<journal, row>>
  PROVE  Record!Next
<1> DEFINE k == Len(journal[run[p]])
           m == Len(remote[run[p]])
           T == [r \in Runs |-> [i \in DOMAIN journal[r] |-> journal[r][i].type]]
           S == [r \in Runs |-> [i \in DOMAIN remote[r] |-> remote[r][i].seq + 1]]
           l == [seq |-> seq[p] - 1, type |-> ev[p]]
<1>1. /\ TypeOK /\ p \in Procs /\ run[p] \in Runs /\ run[p] # NoRun
      /\ journal[run[p]] \in Seq(Line) /\ remote[run[p]] \in Seq(Line)
      /\ seq[p] \in Nat
      /\ remote \in [Runs -> Seq(Line)]
  BY DEF IInv, TypeOK, StoreTypeOK, Procs, ExecutorOK, ExecutorPlaced
<1>2. /\ seq[p] = k /\ journal[run[p]] # << >> /\ Last(journal[run[p]]) = ev[p] /\ k # 0
  <2>1. Recorded(p) /\ Emitting(p) /\ pc[p] # "append"
    BY <1>1 DEF RecordInv, Emitting
  <2> QED
    BY <1>1, <2>1 DEF Recorded
<1>3. LET n == Count(remote[run[p]])
      IN  n = seq[p] - 1 \/ (ev[p] = "run_failed" /\ n = seq[p] - 2)
  BY <1>1 DEF PublishInv, Counted
<1>4. T[run[p]] = Types(journal[run[p]]) /\ S[run[p]] = Places(remote[run[p]])
  BY <1>1 DEF Types, Places
<1>5. Types(journal[run[p]]) # << >> /\ Len(Types(journal[run[p]])) = k
      /\ Types(journal[run[p]])[k] = ev[p]
  BY <1>1, <1>2, TypesLast
<1>6. /\ m \in Nat /\ DOMAIN remote[run[p]] = 1..m
      /\ remote[run[p]] = << >> <=> m = 0
      /\ \A i \in 1..m : remote[run[p]][i].seq \in Int
  <2>1. \A x \in Line : x.seq \in Int
    BY DEF Line, Torn
  <2> QED
    BY <1>1, <2>1
<1>7. /\ Places(remote[run[p]]) = [i \in 1..m |-> remote[run[p]][i].seq + 1]
      /\ Len(Places(remote[run[p]])) = m /\ Places(remote[run[p]]) \in Seq(Int)
      /\ Places(remote[run[p]]) = << >> <=> m = 0
  <2>1. Places(remote[run[p]]) = [i \in 1..m |-> remote[run[p]][i].seq + 1]
    BY <1>6 DEF Places
  <2>2. Places(remote[run[p]]) \in Seq(Int) /\ Len(Places(remote[run[p]])) = m
    BY <1>6, <2>1
  <2>3. Places(remote[run[p]]) = << >> <=> Len(Places(remote[run[p]])) = 0
    BY <2>2
  <2> QED
    BY <2>1, <2>2, <2>3
<1>8. (IF Places(remote[run[p]]) = << >> THEN 0 ELSE Places(remote[run[p]])[m]) = Count(remote[run[p]])
  BY <1>6, <1>7 DEF Count
<1>9. S' = [S EXCEPT ![run[p]] = Append(S[run[p]], k)]
  <2>1. /\ remote'[run[p]] = Append(remote[run[p]], l)
        /\ \A r \in Runs : r # run[p] => remote'[r] = remote[r]
    BY <1>1 DEF Accept
  <2>2. Places(remote'[run[p]]) = Append(Places(remote[run[p]]), k)
    <3> HIDE DEF k, m
    <3>1. DOMAIN remote'[run[p]] = 1..(m + 1)
      BY <1>1, <1>6, <2>1 DEF m
    <3>2. /\ remote'[run[p]][m + 1].seq + 1 = k
          /\ \A i \in 1..m : remote'[run[p]][i] = remote[run[p]][i]
      BY <1>1, <1>2, <1>6, <2>1 DEF m
    <3>3. Places(remote'[run[p]]) = [i \in 1..(m + 1) |-> remote'[run[p]][i].seq + 1]
      BY <3>1 DEF Places
    <3>4. k \in Int
      BY <1>1, <1>2
    <3>5. /\ Append(Places(remote[run[p]]), k)
               = [i \in 1..(m + 1) |-> Append(Places(remote[run[p]]), k)[i]]
          /\ \A i \in 1..m : Append(Places(remote[run[p]]), k)[i] = Places(remote[run[p]])[i]
          /\ Append(Places(remote[run[p]]), k)[m + 1] = k
      BY <1>6, <1>7, <3>4
    <3>6. \A i \in 1..(m + 1) :
            remote'[run[p]][i].seq + 1 = Append(Places(remote[run[p]]), k)[i]
      BY <1>6, <1>7, <3>2, <3>5
    <3> QED
      BY <3>3, <3>5, <3>6
  <2>3. \A r \in Runs : S[r] = Places(remote[r])
    BY DEF Places
  <2>4. S' = [r \in Runs |-> Places(remote'[r])]
    BY DEF Places
  <2>5. \A r \in Runs : Places(remote'[r]) = IF r = run[p] THEN Append(S[run[p]], k) ELSE S[r]
    BY <1>1, <2>1, <2>2, <2>3
  <2>6. [S EXCEPT ![run[p]] = Append(S[run[p]], k)]
          = [r \in Runs |-> IF r = run[p] THEN Append(S[run[p]], k) ELSE S[r]]
    OBVIOUS
  <2> HIDE DEF S
  <2> QED
    BY <2>4, <2>5, <2>6
<1>10. T' = T
  OBVIOUS
<1> HIDE DEF T, S
<1>11. /\ T[run[p]] # << >> /\ Len(T[run[p]]) = k /\ T[run[p]][k] = ev[p]
       /\ Len(S[run[p]]) = m
  BY <1>4, <1>5, <1>7
<1> DEFINE last == IF S[run[p]] = << >> THEN 0 ELSE S[run[p]][Len(S[run[p]])]
<1>12. last = Count(remote[run[p]])
  BY <1>4, <1>8, <1>11
<1>13. last < k /\ (k > last + 1 => T[run[p]][k] = "run_failed")
  BY <1>1, <1>2, <1>3, <1>11, <1>12
<1>14. PICK r \in Runs : r = run[p]
  BY <1>1
<1>15. Record!Submit(r)
  BY <1>9, <1>10, <1>11, <1>13, <1>14 DEF Record!Submit, T, S
<1> QED
  BY <1>15 DEF Record!Next

LEMMA EventRefines ==
  ASSUME IInv, PublishInv, RecordInv, NEW p \in Executors, PublishEvent(p)
  PROVE  Record!Next \/ Unseen
<1>1. pc[p] = "publish" /\ UNCHANGED <<journal, row>>
  BY DEF PublishEvent, storeVars
<1>2. UNCHANGED remote \/ (shared[p] /\ Accept(p))
  BY DEF PublishEvent
<1> QED
  BY <1>1, <1>2, AcceptRefines DEF Unseen

(* A status written is one the trail allows.                               *)
LEMMA ClaimRefines ==
  ASSUME IInv, RecordInv, NEW r \in Runs, NEW s \in RunStatuses, Upsert(r, s),
         UNCHANGED <<journal, remote>>,
         TerminalLines(journal[r]) # {} => s \in {"running", StatusFromEvents(journal[r])},
         TerminalLines(journal[r]) = {} => s \in {"running", "pending_manual", "failed", "interrupted"}
  PROVE  Record!Next
<1> DEFINE T == [q \in Runs |-> [i \in DOMAIN journal[q] |-> journal[q][i].type]]
<1>1. journal[r] \in Seq(Line) /\ TerminalLines(journal[r]) \subseteq {Len(journal[r])}
  BY DEF IInv, TypeOK, StoreTypeOK, RecordInv
<1>2. T[r] = Types(journal[r])
  BY DEF Types
<1>3. T' = T
  OBVIOUS
<1>4. Record!OutcomeOf = StatusOf
  BY DEF Record!OutcomeOf, StatusOf
<1> HIDE DEF T
<1>5. Record!Ended(T[r]) <=> TerminalLines(journal[r]) # {}
  BY <1>1, <1>2, ClosedIsEnded
<1>6. TerminalLines(journal[r]) # {} =>
        StatusFromEvents(journal[r]) = Record!OutcomeOf[T[r][Len(T[r])]]
  <2> SUFFICES ASSUME TerminalLines(journal[r]) # {}
               PROVE  StatusFromEvents(journal[r]) = Record!OutcomeOf[T[r][Len(T[r])]]
    OBVIOUS
  <2>1. journal[r] # << >>
    BY DEF TerminalLines
  <2>2. T[r][Len(T[r])] = Last(journal[r])
    BY <1>1, <1>2, <2>1, TypesLast
  <2> QED
    BY <1>1, <1>4, <2>2, ClosedIsEnded
<1>7. row' = [row EXCEPT ![r] = s]
  BY DEF Upsert
<1>8. Record!Claim(r, s)
  BY <1>3, <1>5, <1>6, <1>7 DEF Record!Claim, T
<1>9. s \in {"running", "pending_manual"} \union {Record!OutcomeOf[e] : e \in Record!Closing}
  BY DEF RunStatuses, Outcomes, Record!Closing, Record!OutcomeOf
<1> QED
  BY <1>8, <1>9 DEF Record!Next

(* indexRun's own row, and the rows Backfill imports.                      *)
LEMMA RowRefines ==
  ASSUME IInv, RecordInv, NEW p \in Procs, Indexing(p)
  PROVE  Record!Next \/ Unseen
<1>1. UNCHANGED <<journal, remote>>
  BY IndexingLeads DEF Still
<1>2. CASE UpsertRow(p)
  <2>1. CASE UNCHANGED row
    BY <1>1, <2>1 DEF Unseen
  <2>2. CASE Upsert(run[p], IndexStatus(p))
    <3>1. p \in Executors /\ pc[p] = "upsert"
      BY <1>2 DEF UpsertRow, IInv, ReaderOK, Procs
    <3>2. /\ run[p] \in Runs /\ run[p] # NoRun
          /\ IndexStatus(p) = status[p] /\ status[p] \in RunStatuses
          /\ StatusWritten(p) /\ StatusPlaced(p) /\ Recorded(p)
      BY <3>1, IndexStatusHeld DEF IInv, RecordInv, ExecutorOK, ExecutorPlaced, TypeOK, IndexLocs, Procs
    <3>3. journal[run[p]] \in Seq(Line) /\ TerminalLines(journal[run[p]]) \subseteq {Len(journal[run[p]])}
      BY <3>2 DEF IInv, TypeOK, StoreTypeOK, RecordInv
    <3>4. TerminalLines(journal[run[p]]) # {} =>
            status[p] \in {"running", StatusFromEvents(journal[run[p]])}
      BY <3>2 DEF StatusWritten
    <3>5. TerminalLines(journal[run[p]]) = {} =>
            status[p] \in {"running", "pending_manual", "failed", "interrupted"}
      <4>1. CASE caller[p] \in {"initialize", "manual"}
        BY <3>1, <3>2, <4>1 DEF StatusPlaced, IndexLocs
      <4>2. CASE caller[p] = "emit"
        <5>1. /\ ev[p] \in TerminalEvents /\ Emitting(p) /\ pc[p] # "append"
          BY <3>1, <3>2, <4>2 DEF StatusPlaced, IndexLocs, Emitting
        <5>2. journal[run[p]] # << >> /\ Last(journal[run[p]]) = ev[p]
          BY <3>2, <5>1 DEF Recorded
        <5>3. Len(journal[run[p]]) \in TerminalLines(journal[run[p]])
          BY <3>3, <5>1, <5>2 DEF TerminalLines, Last
        <5> QED
          BY <5>3
      <4>3. CASE caller[p] = "reseal"
        <5>1. ev[p] \in {"run_failed", "run_interrupted"}
          BY <3>1, <3>2, <4>3 DEF Recorded, Indexed, IndexLocs
        <5>2. status[p] = StatusOf[ev[p]]
          BY <3>2, <5>1 DEF StatusPlaced, TerminalEvents
        <5> QED
          BY <5>1, <5>2 DEF StatusOf
      <4> QED
        BY <3>1, <3>2, <4>1, <4>2, <4>3 DEF StatusPlaced, IndexLocs
    <3> QED
      BY <1>1, <2>2, <3>2, <3>4, <3>5, ClaimRefines
  <2> QED
    BY <1>2, <2>1, <2>2 DEF UpsertRow
<1>3. CASE BackfillImport(p)
  <2>1. CASE UNCHANGED row
    BY <1>1, <2>1 DEF Unseen
  <2>2. CASE Upsert(found[p].run, found[p].status)
    <3>1. /\ pc[p] = "import" /\ FoundTrue(p) /\ found[p].status \in RunStatuses
      BY <1>3 DEF BackfillImport, IInv, TypeOK
    <3>2. found[p].run \in Runs
      BY <3>1 DEF FoundTrue
    <3>3. \/ found[p].status = "running"
          \/ /\ TerminalLines(journal[found[p].run]) # {}
             /\ found[p].status = StatusFromEvents(journal[found[p].run])
      BY <3>1 DEF FoundTrue
    <3> QED
      BY <1>1, <2>2, <3>1, <3>2, <3>3, ClaimRefines
  <2> QED
    BY <1>3, <2>1, <2>2 DEF BackfillImport
<1>4. CASE OpenIndex(p) \/ (\E r \in Runs : BackfillLookup(p, r)) \/ BackfillRead(p) \/ BackfillDone(p)
           \/ EnqueueOutbox(p) \/ MarkPending(p)
  BY <1>1, <1>4 DEF OpenIndex, BackfillLookup, BackfillRead, BackfillDone, EnqueueOutbox, MarkPending, Local,
     storeVars, Unseen
<1> QED
  BY <1>2, <1>3, <1>4 DEF Indexing

(* All other steps touch neither the trail nor the row nor the coordinator. *)
LEMMA NextRefines ==
  ASSUME AppendFaults \subseteq {"clean"}
  PROVE  IInv /\ PublishInv /\ RecordInv /\ [Next]_vars => [Record!Next]_(Record!recordVars)
<1> SUFFICES ASSUME IInv, PublishInv, RecordInv, [Next]_vars PROVE Record!Next \/ Unseen
  BY UnseenStutters
<1>1. ASSUME NEW p \in Executors, Executing(p), ~AppendEvent(p), ~PublishEvent(p)
      PROVE  Unseen
  <2>1. CASE PublishRun(p) \/ WriteRequest(p) \/ WriteRun(p)
    BY <2>1 DEF PublishRun, WriteRequest, WriteRun, storeVars, remoteVars, Unseen
  <2>2. CASE Preflight(p) \/ Fulfill(p) \/ NextStep(p) \/ Approve(p) \/ PrepareStep(p)
    BY <2>2 DEF Preflight, Fulfill, NextStep, Approve, PrepareStep, Local, Announce, storeVars,
       remoteVars, Unseen
  <2>3. CASE ExecuteStep(p) \/ Manual(p) \/ Succeed(p) \/ CancelRun(p) \/ Fail(p) \/ Interrupt(p)
             \/ SealAfterError(p)
    BY <2>3 DEF ExecuteStep, Manual, Succeed, CancelRun, Fail, Interrupt, SealAfterError, Local,
       Conclude, storeVars, remoteVars, Unseen
  <2> QED
    BY <1>1, <2>1, <2>2, <2>3 DEF Executing
<1>2. ASSUME NEW p \in Executors, NEW r \in Runs, Reserve(p, r) \/ Refuse(p, r)
      PROVE  Unseen
  BY <1>2 DEF Reserve, Refuse, Local, storeVars, remoteVars, Unseen
<1>3. ASSUME NEW p \in Executors, Cancel(p) \/ Crash(p)
      PROVE  Unseen
  BY <1>3 DEF Cancel, Crash, storeVars, remoteVars, Unseen
<1>4. ASSUME NEW p \in Readers, List(p)
      PROVE  Unseen
  BY <1>4 DEF List, storeVars, remoteVars, Unseen
<1>5. CASE UNCHANGED vars
  BY <1>5 DEF vars, storeVars, remoteVars, Unseen
<1> QED
  BY <1>1, <1>2, <1>3, <1>4, <1>5, AppendRefines, EventRefines, RowRefines DEF Next

-----------------------------------------------------------------------------
(* Execute implements the abstract record: the trail of every Run follows  *)
(* the grammar of RunEvents and is closed once, the index never shows what *)
(* the trail does not allow, and the coordinator gets the events in their  *)
(* order, for any number of processes, Runs, Steps and failures, as long   *)
(* as an append that fails leaves nothing behind.                          *)
THEOREM RecordIsImplemented ==
  ASSUME AppendFaults \subseteq {"clean"}
  PROVE  Spec => ImplementsRecord
<1>1. IInv /\ PublishInv /\ RecordInv /\ [Next]_vars => [Record!Next]_(Record!recordVars)
  BY NextRefines
<1>2. Spec => []RecordInv
  BY Records
<1> QED
  BY <1>1, <1>2, InitRefines, Inductive, Publishes, PTL DEF Spec, ImplementsRecord, Record!Spec


-----------------------------------------------------------------------------
(* How the index ends: the way a process takes through the code, as far as  *)
(* the place, the Run and the status it holds tell it.                     *)

(* The step is another process's, or only Ctrl-C.                          *)
Untouched(p) ==
  /\ pc'[p] = pc[p] /\ run'[p] = run[p] /\ status'[p] = status[p]
  /\ ev'[p] = ev[p] /\ next'[p] = next[p] /\ caller'[p] = caller[p]

(* emit gives up on its event.                                             *)
GaveUp(p) ==
  IF ev[p] \in {"run_failed", "run_interrupted"}
  THEN pc'[p] = "open" /\ caller'[p] = "reseal"
  ELSE pc'[p] = "sealing"

(* A statement failed, or Backfill met a directory without run.json.       *)
Refused(p) ==
  /\ UNCHANGED row
  /\ IndexFault \/ (BackfillRead(p) /\ dir[found[p].run] # "complete")

(* initialize, before the first event.                                     *)
Setup(p) ==
  \/ pc[p] \in {"request", "record"} /\ pc'[p] \in {"record", "returned"}
  \/ pc[p] \in {"request", "record"} /\ pc'[p] = "open" /\ caller'[p] = "initialize"
  \/ pc[p] = "publishRun" /\ pc'[p] \in {"append", "sealing"}

(* Between two events, or on to the one that seals the Run.                *)
Within(p) ==
  \/ pc[p] \in BodyLocs /\ pc'[p] \in BodyLocs \union {"append"}
  \/ pc[p] = "manual" /\ pc'[p] = "open" /\ caller'[p] = "manual"
  \/ pc[p] = "sealing" /\ pc'[p] = "append" /\ status[p] = "running"

(* An event is appended and published, or the process gives up.            *)
Recording(p) ==
  \/ pc[p] = "append" /\ ev[p] \in TerminalEvents /\ pc'[p] = "open" /\ caller'[p] = "emit"
  \/ pc[p] = "append" /\ ev[p] \notin TerminalEvents /\ pc'[p] = "publish"
  \/ pc[p] = "append" /\ diskFaults' > 0 /\ GaveUp(p)
  \/ pc[p] = "publish" /\ (pc'[p] = next[p] \/ GaveUp(p))
  \/ pc[p] = "sealing" /\ pc'[p] = "returned" /\ status[p] # "running"

(* A statement of indexRun, or of the Backfill before it.                  *)
InIndex(p) ==
  \/ /\ pc[p] \in {"open", "backfill", "read", "import"}
     /\ pc'[p] \in {"backfill", "read", "import", "upsert"}
     /\ caller'[p] = caller[p]
  \/ pc[p] \in IndexLocs /\ Refused(p) /\ caller[p] = "emit" /\ GaveUp(p)
  \/ pc[p] \in IndexLocs /\ Refused(p) /\ caller[p] # "emit" /\ pc'[p] = "returned"
  \/ /\ pc[p] = "upsert" /\ caller'[p] = caller[p] /\ row'[run[p]] = status[p]
     /\ \/ caller[p] \in {"emit", "reseal"} /\ pc'[p] = "enqueue"
        \/ caller[p] = "initialize" /\ pc'[p] = "publishRun"
        \/ caller[p] = "manual" /\ pc'[p] = "returned"
  \/ pc[p] = "enqueue" /\ pc'[p] = "mark" /\ caller'[p] = caller[p] /\ Queued(run[p])'
  \/ /\ pc[p] = "mark" /\ sync'[run[p]] = "pending"
     /\ \/ caller[p] = "emit" /\ pc'[p] = "publish"
        \/ caller[p] = "reseal" /\ pc'[p] = "returned"

Way(p) ==
  \/ Untouched(p)
  \/ run'[p] = run[p] /\ pc'[p] = "crashed"
  \/ run'[p] = run[p] /\ pc[p] = "idle" /\ pc'[p] = "refused"
  \/ run'[p] \in Runs /\ pc'[p] = "request" /\ dir[run'[p]] = "absent"
  \/ run'[p] = run[p] /\ Within(p)
  \/ /\ run'[p] = run[p] /\ status'[p] = status[p]
     /\ Setup(p) \/ (ev'[p] = ev[p] /\ (Recording(p) \/ InIndex(p)))

(* emit gives up, a statement fails or is done.                            *)
LEMMA Exits ==
  ASSUME TypeOK, NEW p \in Procs
  PROVE  /\ \A l : Goto(p, l) => pc'[p] = l
         /\ \A c : IndexRun(p, c) => pc'[p] = "open" /\ caller'[p] = c
         /\ EmitFails(p) => GaveUp(p)
         /\ IndexFails(p) => \/ caller[p] = "emit" /\ GaveUp(p)
                             \/ caller[p] = "list"
                             \/ caller[p] # "emit" /\ pc'[p] = "returned"
         /\ IndexDone(p) => \/ caller[p] = "initialize" /\ pc'[p] = "publishRun"
                            \/ caller[p] = "emit" /\ pc'[p] = "publish"
                            \/ caller[p] \notin {"initialize", "emit"} /\ pc'[p] = "returned"
<1>1. pc \in [Procs -> Locations] /\ caller \in [Procs -> Callers]
  BY DEF TypeOK
<1>2. /\ \A l : Goto(p, l) => pc'[p] = l
      /\ \A c : IndexRun(p, c) => pc'[p] = "open" /\ caller'[p] = c
  BY <1>1 DEF Goto, IndexRun
<1>3. EmitFails(p) => GaveUp(p)
  BY <1>2 DEF EmitFails, GaveUp
<1>4. IndexFails(p) => \/ caller[p] = "emit" /\ GaveUp(p)
                       \/ caller[p] = "list"
                       \/ caller[p] # "emit" /\ pc'[p] = "returned"
  BY <1>2, <1>3 DEF IndexFails
<1>5. IndexDone(p) => \/ caller[p] = "initialize" /\ pc'[p] = "publishRun"
                      \/ caller[p] = "emit" /\ pc'[p] = "publish"
                      \/ caller[p] \notin {"initialize", "emit"} /\ pc'[p] = "returned"
  <2>1. IndexDone(p) => pc'[p] = CASE caller[p] = "initialize" -> "publishRun"
                                   [] caller[p] = "emit" -> "publish"
                                   [] OTHER -> "returned"
    BY <1>2 DEF IndexDone
  <2> QED
    BY <2>1
<1> QED
  BY <1>2, <1>3, <1>4, <1>5

(* The statements of indexRun.                                             *)
LEMMA IndexWay ==
  ASSUME IInv, NEW p \in Executors, Indexing(p)
  PROVE  Untouched(p) \/ InIndex(p)
<1>1. /\ TypeOK /\ p \in Procs /\ ExecutorPlaced(p) /\ caller[p] # "list" /\ caller[p] \in Callers
      /\ indexFaults \in Nat /\ row \in [Runs -> RunStatuses \union {"absent"}]
      /\ sync \in [Runs -> {"none", "pending", "synced"}]
  BY DEF IInv, TypeOK, StoreTypeOK, Procs, ExecutorOK, ExecutorPlaced
<1>2. /\ UNCHANGED <<run, status, ev, next>>
  BY DEF Indexing, OpenIndex, BackfillLookup, BackfillRead, BackfillImport, BackfillDone, UpsertRow,
         EnqueueOutbox, MarkPending, Local
<1>4. CASE OpenIndex(p)
  BY <1>1, <1>4, Exits DEF OpenIndex, InIndex, Refused, IndexLocs, storeVars
<1>5. ASSUME NEW r \in Runs, BackfillLookup(p, r)
      PROVE  Untouched(p) \/ InIndex(p)
  <2>1. CASE UNCHANGED <<pc, caller>>
    BY <1>2, <2>1 DEF Untouched
  <2>2. CASE Goto(p, "read") /\ UNCHANGED caller
    BY <1>1, <1>5, <2>2, Exits DEF BackfillLookup, InIndex
  <2>3. CASE IndexFault /\ IndexFails(p)
    BY <1>1, <1>5, <2>3, Exits DEF BackfillLookup, InIndex, Refused, IndexLocs, storeVars
  <2> QED
    BY <1>5, <2>1, <2>2, <2>3 DEF BackfillLookup
<1>11. CASE BackfillRead(p)
  BY <1>1, <1>11, Exits DEF BackfillRead, InIndex, Refused, IndexLocs, storeVars
<1>6. CASE BackfillImport(p)
  BY <1>1, <1>6, Exits DEF BackfillImport, InIndex, Refused, IndexLocs
<1>7. CASE BackfillDone(p)
  BY <1>1, <1>7, Exits DEF BackfillDone, Local, InIndex
<1>8. CASE UpsertRow(p)
  <2>1. CASE Upsert(run[p], IndexStatus(p))
    <3>1. row'[run[p]] = status[p]
      BY <1>1, <1>8, <2>1, PastBackfill, IndexStatusHeld DEF UpsertRow, Upsert, IndexLocs
    <3> QED
      BY <1>1, <1>8, <2>1, <3>1, Exits
         DEF UpsertRow, InIndex, Callers, Refused, IndexLocs
  <2>2. CASE ~Upsert(run[p], IndexStatus(p))
    BY <1>1, <1>8, <2>2, Exits DEF UpsertRow, InIndex, Refused, IndexLocs
  <2> QED
    BY <2>1, <2>2
<1>9. CASE EnqueueOutbox(p)
  <2>1. CASE InsertOutbox(run[p]) /\ Goto(p, "mark") /\ UNCHANGED caller
    <3>1. Queued(run[p])'
      <4>1. [id |-> nextRow, run |-> run[p]] \in outbox' /\ run'[p] = run[p]
        BY <1>2, <2>1 DEF InsertOutbox
      <4> QED
        BY <4>1 DEF Queued
    <3> QED
      BY <1>1, <1>9, <2>1, <3>1, Exits DEF EnqueueOutbox, InIndex
  <2>2. CASE IndexFault /\ IndexFails(p)
    BY <1>1, <1>9, <2>2, Exits DEF EnqueueOutbox, InIndex, Refused, IndexLocs
  <2> QED
    BY <1>9, <2>1, <2>2 DEF EnqueueOutbox
<1>10. CASE MarkPending(p)
  <2>1. CASE SetSync(run[p], "pending") /\ IndexDone(p)
    <3>1. run[p] \in Runs /\ row[run[p]] # "absent" /\ caller[p] \in {"emit", "reseal"}
      <4>1. pc[p] = "mark"
        BY <1>10 DEF MarkPending
      <4>2. run[p] \in Runs
        BY <1>1, <4>1, PastBackfill
      <4>3. StatusWritten(p) /\ ExecutorPlaced(p)
        BY <1>1, <4>2, RunExecutionAssumption DEF IInv
      <4> QED
        BY <4>1, <4>2, <4>3 DEF StatusWritten, ExecutorPlaced
    <3>2. sync'[run[p]] = "pending"
      BY <1>1, <2>1, <3>1 DEF SetSync
    <3> QED
      BY <1>1, <1>10, <2>1, <3>1, <3>2, Exits DEF MarkPending, InIndex
  <2>2. CASE IndexFault /\ IndexFails(p)
    BY <1>1, <1>10, <2>2, Exits DEF MarkPending, InIndex, Refused, IndexLocs
  <2> QED
    BY <1>10, <2>1, <2>2 DEF MarkPending
<1> QED
  BY <1>4, <1>5, <1>6, <1>7, <1>8, <1>9, <1>10, <1>11 DEF Indexing

(* The steps of Execute.                                                   *)
LEMMA ExecuteWay ==
  ASSUME IInv, NEW p \in Executors,
         Executing(p) \/ Cancel(p) \/ Crash(p) \/ (\E r \in Runs : Reserve(p, r) \/ Refuse(p, r))
  PROVE  Way(p)
<1>1. /\ TypeOK /\ p \in Procs /\ ExecutorOK(p) /\ diskFaults \in Nat
      /\ pc \in [Procs -> Locations] /\ run \in [Procs -> Runs \union {NoRun}]
      /\ status \in [Procs -> RunStatuses]
  BY DEF IInv, TypeOK, Procs
<1> USE DEF Local, Announce, Conclude, Emit
<1>2. CASE \E r \in Runs : Reserve(p, r)
  BY <1>1, <1>2, Exits DEF Reserve, Way
<1>3. CASE Cancel(p) \/ Crash(p) \/ (\E r \in Runs : Refuse(p, r))
  BY <1>1, <1>3, Exits DEF Cancel, Crash, Refuse, Way, Untouched
<1>4. CASE WriteRequest(p) \/ WriteRun(p)
  BY <1>1, <1>4, Exits DEF WriteRequest, WriteRun, WriteDocument, Way, Setup
<1>5. CASE PublishRun(p)
  BY <1>1, <1>5, Exits DEF PublishRun, Way, Setup
<1>6. CASE AppendEvent(p)
  <2>1. pc[p] = "append" /\ UNCHANGED <<run, status, ev, next>>
    BY <1>6 DEF AppendEvent
  <2>2. CASE DiskFault /\ EmitFails(p)
    <3>1. GaveUp(p) /\ diskFaults' > 0
      BY <1>1, <2>2, Exits DEF DiskFault
    <3> QED
      BY <2>1, <3>1 DEF Way, Recording
  <2>3. CASE ev[p] \in TerminalEvents /\ IndexRun(p, "emit")
    BY <1>1, <2>1, <2>3, Exits DEF Way, Recording
  <2>4. CASE ev[p] \notin TerminalEvents /\ Goto(p, "publish")
    BY <1>1, <2>1, <2>4, Exits DEF Way, Recording
  <2> QED
    BY <1>6, <2>2, <2>3, <2>4 DEF AppendEvent
<1>7. CASE PublishEvent(p)
  <2>1. /\ pc[p] = "publish" /\ UNCHANGED <<run, status, ev, next>>
        /\ Goto(p, next[p]) \/ EmitFails(p)
    BY <1>7 DEF PublishEvent
  <2> QED
    BY <1>1, <2>1, Exits DEF Way, Recording
<1>8. CASE Preflight(p) \/ Fulfill(p) \/ NextStep(p)
  BY <1>1, <1>8, Exits DEF Preflight, Fulfill, NextStep, Way, Within, BodyLocs
<1>9. CASE Approve(p) \/ PrepareStep(p) \/ ExecuteStep(p)
  BY <1>1, <1>9, Exits DEF Approve, PrepareStep, ExecuteStep, Way, Within, BodyLocs
<1>10. CASE Manual(p)
  BY <1>1, <1>10, Exits DEF Manual, Way, Within, BodyLocs
<1>11. CASE Succeed(p) \/ CancelRun(p) \/ Fail(p) \/ Interrupt(p)
  BY <1>1, <1>11, Exits DEF Succeed, CancelRun, Fail, Interrupt, Way, Within, BodyLocs
<1>12. CASE SealAfterError(p)
  <2>1. pc[p] = "sealing" /\ UNCHANGED run /\ status[p] \in RunStatuses
    BY <1>1, <1>12 DEF SealAfterError
  <2>2. CASE isTerminalStatus(status[p])
    <3>1. pc'[p] = "returned" /\ UNCHANGED <<status, ev>> /\ status[p] # "running"
      BY <1>1, <1>12, <2>2, Exits DEF SealAfterError, isTerminalStatus, Outcomes
    <3> QED
      BY <2>1, <3>1 DEF Way, Recording
  <2>3. CASE ~isTerminalStatus(status[p])
    <3>1. status[p] = "running" /\ pc'[p] = "append"
      BY <1>1, <1>12, <2>1, <2>3, Exits DEF SealAfterError, isTerminalStatus, RunStatuses
    <3> QED
      BY <2>1, <3>1 DEF Way, Within
  <2> QED
    BY <2>2, <2>3
<1> QED
  BY <1>2, <1>3, <1>4, <1>5, <1>6, <1>7, <1>8, <1>9, <1>10, <1>11, <1>12 DEF Executing

(* Every step, to every process that executes a Run.                       *)
LEMMA WaySteps ==
  ASSUME IInv, [Next]_vars, NEW p \in Executors
  PROVE  Way(p)
<1>1. /\ TypeOK /\ p \in Procs /\ p \notin Readers
  BY RunExecutionAssumption DEF IInv, Procs
<1>2. ASSUME NEW q \in Procs, q # p, Frame(q)
      PROVE  Untouched(p)
  BY <1>1, <1>2 DEF Frame, Untouched
<1>3. ASSUME NEW q \in Procs, Indexing(q)
      PROVE  Way(p)
  <2>1. UNCHANGED <<run, status, ev, next>>
    BY <1>3 DEF Indexing, OpenIndex, BackfillLookup, BackfillRead, BackfillImport, BackfillDone, UpsertRow,
       EnqueueOutbox, MarkPending, Local
  <2> QED
    BY <1>1, <1>2, <1>3, <2>1, IndexingFrame, IndexWay DEF Way
<1>4. ASSUME NEW q \in Procs,
             \/ q \in Executors /\ (\/ \E r \in Runs : Reserve(q, r) \/ Refuse(q, r)
                                    \/ Executing(q) \/ Cancel(q) \/ Crash(q))
             \/ q \in Readers /\ List(q)
      PROVE  Way(p)
  BY <1>1, <1>2, <1>4, ExecutingFrame, ExecuteWay DEF Way
<1>5. CASE UNCHANGED vars
  BY <1>5 DEF vars, procVars, Way, Untouched
<1> QED
  BY <1>3, <1>4, <1>5 DEF Next, Procs

-----------------------------------------------------------------------------
(* What is in the index, and what becomes of it                            *)

(* The row of a Run is there before its first event.                       *)
RowThere(p) ==
  \/ pc[p] \in {"request", "record", "returned", "crashed"}
  \/ Indexed(p, "initialize")
  \/ row[run[p]] # "absent"

RowsFirst ==
  /\ \A p \in Executors : run[p] # NoRun => RowThere(p)
  /\ \A r \in Runs : journal[r] # << >> => row[r] # "absent"
  /\ \A p \in Executors : run[p] # NoRun /\ Blank(p) => journal[run[p]] = << >>

(* What is queued stays queued.                                            *)
LEMMA QueueGrows ==
  ASSUME [Next]_vars, NEW r \in Runs, Queued(r)
  PROVE  Queued(r)'
<1> USE DEF storeVars, Local, Announce, Conclude
<1>1. ASSUME NEW p \in Procs, Indexing(p)
      PROVE  outbox \subseteq outbox'
  BY <1>1 DEF Indexing, OpenIndex, BackfillLookup, BackfillRead, BackfillImport, BackfillDone, UpsertRow,
              EnqueueOutbox, MarkPending, InsertOutbox
<1>2. ASSUME NEW p \in Executors, Executing(p)
      PROVE  UNCHANGED outbox
  <2>1. CASE \/ WriteRequest(p) \/ WriteRun(p) \/ PublishRun(p) \/ PublishEvent(p) \/ AppendEvent(p)
             \/ Manual(p) \/ ExecuteStep(p)
    BY <2>1 DEF WriteRequest, WriteRun, PublishRun, PublishEvent, AppendEvent, Manual, ExecuteStep
  <2>2. CASE Preflight(p) \/ Fulfill(p) \/ NextStep(p) \/ Approve(p) \/ PrepareStep(p)
    BY <2>2 DEF Preflight, Fulfill, NextStep, Approve, PrepareStep
  <2>3. CASE Succeed(p) \/ CancelRun(p) \/ Fail(p) \/ Interrupt(p) \/ SealAfterError(p)
    BY <2>3 DEF Succeed, CancelRun, Fail, Interrupt, SealAfterError
  <2> QED
    BY <1>2, <2>1, <2>2, <2>3 DEF Executing
<1>3. ASSUME \/ \E p \in Executors, x \in Runs : Reserve(p, x) \/ Refuse(p, x)
             \/ \E p \in Executors : Cancel(p) \/ Crash(p)
             \/ \E p \in Readers : List(p)
             \/ UNCHANGED vars
      PROVE  UNCHANGED outbox
  BY <1>3 DEF Reserve, Refuse, Cancel, Crash, List, vars
<1>4. outbox \subseteq outbox'
  BY <1>1, <1>2, <1>3 DEF Next
<1> QED
  BY <1>4 DEF Queued

(* A row is written by an import, or by the process of the Run.            *)
Imported(r) ==
  \E q \in Procs : /\ pc[q] = "import" /\ pc'[q] = "backfill"
                   /\ found[q].run = r /\ row'[r] = found[q].status

Upserted(r) ==
  \E q \in Executors : /\ run[q] = r /\ pc[q] = "upsert" /\ pc'[q] # "upsert"
                       /\ row'[r] = status[q]

Marked(r) ==
  \E q \in Executors : /\ run[q] = r /\ pc[q] = "mark" /\ pc'[q] # "mark"
                       /\ row'[r] = row[r]

LEMMA RowChanges ==
  ASSUME IInv, [Next]_vars, NEW r \in Runs
  PROVE  (row'[r] = row[r] /\ sync'[r] = sync[r]) \/ Imported(r) \/ Upserted(r) \/ Marked(r)
<1> USE DEF storeVars, Local, Announce, Conclude
<1>0. /\ TypeOK /\ row \in [Runs -> RunStatuses \union {"absent"}]
      /\ sync \in [Runs -> {"none", "pending", "synced"}]
  BY DEF IInv, TypeOK, StoreTypeOK
<1>1. ASSUME NEW p \in Procs, Indexing(p)
      PROVE  (row'[r] = row[r] /\ sync'[r] = sync[r]) \/ Imported(r) \/ Upserted(r) \/ Marked(r)
  <2>1. CASE UNCHANGED <<row, sync>>
    BY <2>1
  <2>2. CASE ~UNCHANGED <<row, sync>>
    <3>1. CASE BackfillImport(p)
      <4>1. pc[p] = "import" /\ pc'[p] = "backfill" /\ Upsert(found[p].run, found[p].status)
        BY <1>0, <2>2, <3>1, Exits DEF BackfillImport
      <4> QED
        BY <1>0, <4>1 DEF Upsert, Imported
    <3>2. CASE UpsertRow(p)
      <4>1. pc[p] = "upsert" /\ Upsert(run[p], IndexStatus(p)) /\ p \in Executors
        BY <2>2, <3>2, PastBackfill DEF UpsertRow
      <4>2. pc'[p] # "upsert" /\ IndexStatus(p) = status[p]
        BY <1>0, <2>2, <3>2, <4>1, Exits, IndexStatusHeld DEF UpsertRow, IndexLocs
      <4> QED
        BY <1>0, <4>1, <4>2 DEF Upsert, Upserted
    <3>3. CASE MarkPending(p)
      <4>1. pc[p] = "mark" /\ SetSync(run[p], "pending") /\ UNCHANGED row /\ p \in Executors
        BY <2>2, <3>3, PastBackfill DEF MarkPending
      <4>2. pc'[p] # "mark"
        BY <1>0, <2>2, <3>3, <4>1, Exits DEF MarkPending
      <4> QED
        BY <1>0, <4>1, <4>2 DEF SetSync, Marked
    <3>4. CASE \/ OpenIndex(p) \/ (\E x \in Runs : BackfillLookup(p, x))
               \/ BackfillRead(p) \/ BackfillDone(p) \/ EnqueueOutbox(p)
      BY <2>2, <3>4 DEF OpenIndex, BackfillLookup, BackfillRead, BackfillDone, EnqueueOutbox
    <3> QED
      BY <1>1, <3>1, <3>2, <3>3, <3>4 DEF Indexing
  <2> QED
    BY <2>1, <2>2
<1>2. ASSUME NEW p \in Executors, Executing(p)
      PROVE  UNCHANGED <<row, sync>>
  <2>1. CASE \/ WriteRequest(p) \/ WriteRun(p) \/ PublishRun(p) \/ PublishEvent(p) \/ AppendEvent(p)
             \/ Manual(p) \/ ExecuteStep(p)
    BY <2>1 DEF WriteRequest, WriteRun, PublishRun, PublishEvent, AppendEvent, Manual, ExecuteStep
  <2>2. CASE Preflight(p) \/ Fulfill(p) \/ NextStep(p) \/ Approve(p) \/ PrepareStep(p)
    BY <2>2 DEF Preflight, Fulfill, NextStep, Approve, PrepareStep
  <2>3. CASE Succeed(p) \/ CancelRun(p) \/ Fail(p) \/ Interrupt(p) \/ SealAfterError(p)
    BY <2>3 DEF Succeed, CancelRun, Fail, Interrupt, SealAfterError
  <2> QED
    BY <1>2, <2>1, <2>2, <2>3 DEF Executing
<1>3. CASE \/ \E p \in Executors, x \in Runs : Reserve(p, x) \/ Refuse(p, x)
           \/ \E p \in Executors : Cancel(p) \/ Crash(p)
           \/ \E p \in Readers : List(p)
           \/ UNCHANGED vars
  BY <1>3 DEF Reserve, Refuse, Cancel, Crash, List, vars
<1> QED
  BY <1>1, <1>2, <1>3 DEF Next

(* So it never goes away again.                                            *)
LEMMA RowStays ==
  ASSUME IInv, [Next]_vars, NEW r \in Runs, row[r] # "absent"
  PROVE  row'[r] # "absent"
<1>1. /\ \A q \in Procs : status[q] \in RunStatuses /\ found[q].status \in RunStatuses
      /\ "absent" \notin RunStatuses /\ Executors \subseteq Procs
  BY DEF IInv, TypeOK, RunStatuses, Outcomes, Procs
<1> QED
  BY <1>1, RowChanges DEF Imported, Upserted, Marked

(* Faults are counted, never forgotten.                                    *)
LEMMA FaultsGrow ==
  ASSUME IInv, [Next]_vars
  PROVE  /\ {indexFaults, diskFaults, indexFaults', diskFaults'} \subseteq Nat
         /\ indexFaults' >= indexFaults /\ diskFaults' >= diskFaults
<1> USE DEF storeVars, faultVars, Local, Announce, Conclude, IndexFault, DiskFault, RemoteFault
<1>1. indexFaults \in Nat /\ diskFaults \in Nat
  BY DEF IInv, TypeOK
<1>2. ASSUME NEW p \in Procs, Indexing(p)
      PROVE  /\ UNCHANGED diskFaults
             /\ indexFaults' = indexFaults \/ indexFaults' = indexFaults + 1
  BY <1>2 DEF Indexing, OpenIndex, BackfillLookup, BackfillRead, BackfillImport, BackfillDone, UpsertRow,
              EnqueueOutbox, MarkPending
<1>3. ASSUME NEW p \in Executors, Executing(p)
      PROVE  /\ UNCHANGED indexFaults
             /\ diskFaults' = diskFaults \/ diskFaults' = diskFaults + 1
  <2>1. CASE WriteRequest(p) \/ WriteRun(p) \/ PublishRun(p) \/ PublishEvent(p) \/ AppendEvent(p)
    BY <2>1 DEF WriteRequest, WriteRun, WriteDocument, PublishRun, PublishEvent, AppendEvent
  <2>2. CASE \/ Preflight(p) \/ Fulfill(p) \/ NextStep(p) \/ Approve(p) \/ PrepareStep(p)
             \/ ExecuteStep(p) \/ Manual(p)
    BY <2>2 DEF Preflight, Fulfill, NextStep, Approve, PrepareStep, ExecuteStep, Manual
  <2>3. CASE Succeed(p) \/ CancelRun(p) \/ Fail(p) \/ Interrupt(p) \/ SealAfterError(p)
    BY <2>3 DEF Succeed, CancelRun, Fail, Interrupt, SealAfterError
  <2> QED
    BY <1>3, <2>1, <2>2, <2>3 DEF Executing
<1>4. ASSUME \/ \E p \in Executors, x \in Runs : Reserve(p, x) \/ Refuse(p, x)
             \/ \E p \in Executors : Cancel(p) \/ Crash(p)
             \/ \E p \in Readers : List(p)
             \/ UNCHANGED vars
      PROVE  UNCHANGED <<indexFaults, diskFaults>>
  BY <1>4 DEF Reserve, Refuse, Cancel, Crash, List, vars
<1> QED
  BY <1>1, <1>2, <1>3, <1>4 DEF Next

(* A Run that is reserved was not there before.                            *)
LEMMA NewRun ==
  ASSUME IInv, [Next]_vars, NEW r \in Runs, dir[r] = "absent"
  PROVE  /\ journal'[r] = << >> /\ row[r] = "absent"
         /\ \A q \in Executors : run[q] # r
<1>1. /\ \A q \in Executors : run[q] # r
      /\ journal[r] = << >> /\ row[r] = "absent"
  BY RunExecutionAssumption DEF IInv, Owned
<1> QED
  BY <1>1, TrailStays

-----------------------------------------------------------------------------
(* Rows before events *)

LEMMA RowsFirstInit == Init => RowsFirst
<1> SUFFICES ASSUME Init PROVE RowsFirst
  OBVIOUS
<1>1. /\ \A p \in Executors : run[p] = NoRun
      /\ \A p \in Procs : pc[p] = "idle"
      /\ \A r \in Runs : journal[r] = << >>
  BY DEF Init, StoreInit, Procs
<1> QED
  BY <1>1 DEF RowsFirst

LEMMA RowThereStays ==
  ASSUME IInv, RowsFirst, [Next]_vars, NEW p \in Executors, run'[p] # NoRun
  PROVE  RowThere(p)'
<1>1. /\ ExecutorPlaced(p) /\ StatusPlaced(p) /\ status[p] \in RunStatuses
      /\ run[p] \in Runs \union {NoRun} /\ "absent" \notin RunStatuses
      /\ p \in Procs
  BY DEF IInv, ExecutorOK, TypeOK, RunStatuses, Outcomes, Procs
<1>2. CASE \/ pc'[p] = "crashed"
           \/ run'[p] = run[p] /\ pc[p] = "idle" /\ pc'[p] = "refused"
           \/ run'[p] \in Runs /\ pc'[p] = "request" /\ dir[run'[p]] = "absent"
  BY <1>1, <1>2 DEF RowThere, ExecutorPlaced
<1>3. CASE run'[p] = run[p]
  <2>1. RowThere(p) /\ run[p] \in Runs
    BY <1>1, <1>3 DEF RowsFirst
  <2>2. row[run[p]] # "absent" => row'[run'[p]] # "absent"
    BY <1>3, <2>1, RowStays
  <2>3. CASE row[run[p]] # "absent"
    BY <2>2, <2>3 DEF RowThere
  <2>4. CASE row[run[p]] = "absent"
    <3>1. \/ pc[p] \in {"request", "record", "returned", "crashed"}
          \/ Indexed(p, "initialize")
      BY <2>1, <2>4 DEF RowThere
    <3>2. CASE Untouched(p)
      BY <3>1, <3>2 DEF Untouched, RowThere, Indexed
    <3>3. CASE Within(p) \/ Recording(p)
      BY <3>1, <3>3 DEF Within, Recording, BodyLocs, Indexed, IndexLocs
    <3>4. CASE Setup(p)
      BY <3>1, <3>4 DEF Setup, RowThere, Indexed, IndexLocs
    <3>5. CASE InIndex(p)
      <4>1. Indexed(p, "initialize") /\ pc[p] \notin {"enqueue", "mark"}
        BY <1>1, <3>1, <3>5 DEF InIndex, Indexed, IndexLocs, ExecutorPlaced
      <4>2. CASE pc'[p] \in {"backfill", "read", "import", "upsert"} /\ caller'[p] = caller[p]
        BY <4>1, <4>2 DEF RowThere, Indexed, IndexLocs
      <4>3. CASE row'[run[p]] = status[p]
        BY <1>1, <1>3, <4>3 DEF RowThere
      <4>4. CASE pc'[p] = "returned"
        BY <4>4 DEF RowThere
      <4> QED
        BY <3>5, <4>1, <4>2, <4>3, <4>4 DEF InIndex, Indexed
    <3> QED
      BY <1>2, <3>2, <3>3, <3>4, <3>5, WaySteps DEF Way
  <2> QED
    BY <2>3, <2>4
<1> QED
  BY <1>2, <1>3, WaySteps DEF Way, Untouched

LEMMA BlankStays ==
  ASSUME IInv, RowsFirst, [Next]_vars, NEW p \in Executors, run'[p] # NoRun, Blank(p)'
  PROVE  journal'[run'[p]] = << >>
<1>1. /\ ExecutorPlaced(p) /\ run[p] \in Runs \union {NoRun} /\ p \in Procs /\ Owned
  BY DEF IInv, ExecutorOK, TypeOK, Procs
<1>2. CASE run'[p] \in Runs /\ dir[run'[p]] = "absent"
  BY <1>2, NewRun
<1>3. CASE run'[p] = run[p] /\ Blank(p)
  <2>1. /\ run[p] \in Runs /\ pc[p] # "append"
        /\ \A q \in Executors : run[q] = run[p] => q = p
        /\ journal[run[p]] = << >>
    BY <1>1, <1>3 DEF Owned, SingleWriter, Blank, Indexed, IndexLocs, RowsFirst
  <2>2. journal'[run[p]] = journal[run[p]]
    BY <2>1, TrailStays
  <2> QED
    BY <1>3, <2>1, <2>2
<1>4. CASE run'[p] = run[p] /\ ~Blank(p)
  <2>1. Emitting(p) => next[p] \in BodyLocs \union {"returned"}
    BY <1>1 DEF ExecutorPlaced
  <2>2. ~Untouched(p)
    BY <1>4 DEF Untouched, Blank, Indexed
  <2>3. ~Within(p) /\ ~Setup(p)
    BY <1>4 DEF Within, Setup, Blank, Indexed, IndexLocs, BodyLocs
  <2>4. ~Recording(p)
    <3>1. ~GaveUp(p)
      BY <1>4 DEF GaveUp, Blank, Indexed, IndexLocs
    <3>2. pc[p] = "publish" => pc'[p] # next[p]
      BY <1>4, <2>1 DEF Emitting, Blank, Indexed, IndexLocs, BodyLocs
    <3> QED
      BY <1>4, <3>1, <3>2 DEF Recording, Blank, Indexed, IndexLocs
  <2>5. ~InIndex(p)
    BY <1>4 DEF InIndex, Blank, Indexed, IndexLocs, GaveUp
  <2> QED
    BY <1>2, <2>2, <2>3, <2>4, <2>5, WaySteps DEF Way, Blank, Indexed, IndexLocs
<1> QED
  BY <1>2, <1>3, <1>4, WaySteps DEF Way, Untouched

LEMMA RowsFirstNext ==
  ASSUME IInv, RowsFirst, [Next]_vars
  PROVE  RowsFirst'
<1>1. ASSUME NEW p \in Executors, run'[p] # NoRun
      PROVE  RowThere(p)' /\ (Blank(p)' => journal'[run'[p]] = << >>)
  BY <1>1, RowThereStays, BlankStays
<1>2. ASSUME NEW r \in Runs, journal'[r] # << >>
      PROVE  row'[r] # "absent"
  <2>1. CASE journal[r] # << >>
    BY <2>1, RowStays DEF RowsFirst
  <2>2. CASE journal[r] = << >>
    <3>1. PICK p \in Executors : run[p] = r /\ pc[p] = "append"
      BY <1>2, <2>2, TrailStays
    <3>2. row[r] # "absent"
      BY <3>1, RunExecutionAssumption DEF RowsFirst, RowThere, Indexed, IndexLocs
    <3> QED
      BY <3>2, RowStays
  <2> QED
    BY <2>1, <2>2
<1> QED
  BY <1>1, <1>2 DEF RowsFirst

-----------------------------------------------------------------------------
(* A Run that ended is queued                                              *)

(* Backfill gives up where a directory has no run.json yet: the ones that   *)
(* are set apart here meet none, in a process that executes a Run.          *)
Unbroken == \A p \in Executors : BackfillRead(p) => dir[found[p].run] = "complete"

(* A Run that ended and is not queued is on its way to the outbox, for the *)
(* second time after a failure, or so many failures were met.              *)
QueueHeld(p) ==
  ~Queued(run[p]) =>
    /\ pc[p] # "mark" /\ ~(pc[p] = "publish" /\ ev[p] \in TerminalEvents)
    /\ Indexed(p, "reseal") => indexFaults + diskFaults > 0
    /\ HasOutcome(run[p]) =>
         \/ pc[p] = "crashed"
         \/ Indexed(p, "emit") \/ Indexed(p, "reseal")
         \/ /\ pc[p] \in {"sealing", "returned"} /\ status[p] \in {"succeeded", "cancelled"}
            /\ indexFaults + diskFaults > 0
         \/ pc[p] = "returned" /\ indexFaults > 0 /\ indexFaults + diskFaults > 1

QueueInv == \A p \in Executors : run[p] # NoRun => QueueHeld(p)

LEMMA QueueInit == Init => QueueInv
<1> SUFFICES ASSUME Init PROVE QueueInv
  OBVIOUS
<1>1. \A p \in Executors : run[p] = NoRun
  BY DEF Init, Procs
<1> QED
  BY <1>1 DEF QueueInv

(* Only the Run's own process gives it an outcome: an import tells one that *)
(* is in the trail already.                                                *)
LEMMA OutcomeWasThere ==
  ASSUME IInv, [Next]_vars, NEW p \in Executors, NEW r \in Runs, run[p] = r, run'[p] = r,
         pc[p] = "append" => pc'[p] = "append", ~Upserted(r), HasOutcome(r)'
  PROVE  HasOutcome(r)
<1>1. /\ \A q \in Executors : run[q] = r => q = p
      /\ r # NoRun /\ "running" \notin Outcomes
  BY RunExecutionAssumption DEF IInv, Owned, SingleWriter, Outcomes
<1>2. ASSUME TerminalLines(journal'[r]) # {}
      PROVE  TerminalLines(journal[r]) # {}
  <2>1. CASE pc[p] # "append"
    BY <1>1, <1>2, <2>1, TrailStays
  <2>2. CASE pc'[p] = "append"
    <3>1. StatusWritten(p)'
      BY <1>1, IInvNext DEF IInv
    <3> QED
      BY <1>2, <2>2, <3>1 DEF StatusWritten
  <2> QED
    BY <2>1, <2>2
<1>3. ASSUME row'[r] \in Outcomes
      PROVE  HasOutcome(r)
  <2>1. CASE row'[r] = row[r]
    BY <1>3, <2>1 DEF HasOutcome
  <2>2. ASSUME NEW q \in Procs, pc[q] = "import", found[q].run = r, row'[r] = found[q].status
        PROVE  HasOutcome(r)
    BY <1>1, <1>3, <2>2 DEF IInv, FoundTrue, HasOutcome
  <2> QED
    BY <2>1, <2>2, RowChanges DEF Imported, Marked
<1> QED
  BY <1>2, <1>3 DEF HasOutcome

LEMMA QueueHeldStays ==
  ASSUME IInv, [Next]_vars, Unbroken, QueueInv, NEW p \in Executors, run'[p] # NoRun
  PROVE  QueueHeld(p)'
<1>1. /\ ExecutorPlaced(p) /\ StatusPlaced(p) /\ Owned /\ p \in Procs
      /\ run[p] \in Runs \union {NoRun} /\ NoRun \notin Runs
      /\ {indexFaults, diskFaults, indexFaults', diskFaults'} \subseteq Nat
      /\ indexFaults' >= indexFaults /\ diskFaults' >= diskFaults
  BY RunExecutionAssumption, FaultsGrow DEF IInv, ExecutorOK, TypeOK, Procs
<1>2. CASE \/ pc'[p] = "crashed"
           \/ run'[p] = run[p] /\ pc[p] = "idle" /\ pc'[p] = "refused"
  BY <1>1, <1>2 DEF QueueHeld, ExecutorPlaced, Indexed, IndexLocs
<1>3. CASE run'[p] \in Runs /\ pc'[p] = "request" /\ dir[run'[p]] = "absent"
  <2>1. PICK r \in Runs : r = run'[p]
    BY <1>3
  <2>2. /\ journal'[r] = << >> /\ row[r] = "absent" /\ \A q \in Executors : run[q] # r
    BY <1>3, <2>1, NewRun
  <2>3. row'[r] = "absent"
    BY <1>3, <2>1, <2>2, RowChanges DEF Imported, Upserted, Marked, IInv, FoundTrue
  <2>4. ~HasOutcome(r)'
    BY <2>2, <2>3 DEF HasOutcome, TerminalLines, Outcomes
  <2> QED
    BY <1>3, <2>1, <2>4 DEF QueueHeld, HasOutcome, Indexed, IndexLocs
<1>4. CASE run'[p] = run[p]
  <2>1. PICK r \in Runs : r = run[p] /\ r = run'[p]
    BY <1>1, <1>4
  <2>2. /\ \A q \in Executors : run[q] = r => q = p
        /\ QueueHeld(p)
    BY <1>1, <2>1 DEF Owned, SingleWriter, QueueInv
  <2>3. SUFFICES ASSUME ~Queued(r)'
                 PROVE  QueueHeld(p)'
    <3>1. Queued(r)' => QueueHeld(p)'
      BY <2>1 DEF QueueHeld, Queued
    <3> QED
      BY <3>1
  <2>4. /\ ~Queued(run[p]) /\ pc[p] # "mark" /\ ~(pc[p] = "publish" /\ ev[p] \in TerminalEvents)
        /\ Indexed(p, "reseal") => indexFaults + diskFaults > 0
    BY <2>1, <2>2, <2>3, QueueGrows DEF QueueHeld
  <2>5. ASSUME pc[p] # "append" \/ pc'[p] = "append", ~Upserted(r), HasOutcome(run[p])'
        PROVE  HasOutcome(run[p])
    <3>1. HasOutcome(r)'
      BY <2>1, <2>5 DEF HasOutcome
    <3> QED
      BY <2>1, <2>5, <3>1, OutcomeWasThere
  <2>6. CASE Untouched(p)
    <3>1. ~Upserted(r)
      BY <2>2, <2>6 DEF Upserted, Untouched
    <3>2. HasOutcome(run[p])' => HasOutcome(run[p])
      BY <2>5, <2>6, <3>1 DEF Untouched
    <3> QED
      BY <1>1, <2>2, <2>4, <2>6, <3>2 DEF Untouched, QueueHeld, Indexed, HasOutcome
  <2>7. CASE Within(p) \/ Setup(p)
    <3>1. /\ pc[p] \notin {"append", "upsert", "crashed", "returned"} \union IndexLocs
          /\ pc[p] = "sealing" => status[p] = "running"
          /\ pc'[p] \notin {"mark", "publish"}
          /\ pc'[p] \in IndexLocs => caller'[p] # "reseal"
      BY <2>7 DEF Within, Setup, BodyLocs, IndexLocs
    <3>2. ~Upserted(r)
      BY <2>2, <3>1 DEF Upserted
    <3>3. ~HasOutcome(run[p])'
      BY <2>2, <2>4, <2>5, <3>1, <3>2 DEF QueueHeld, Indexed
    <3> QED
      BY <3>1, <3>3 DEF QueueHeld, Indexed, HasOutcome
  <2>8. CASE status'[p] = status[p] /\ ev'[p] = ev[p] /\ Recording(p)
    <3>1. CASE pc[p] = "append"
      <4>1. CASE ev[p] \in TerminalEvents /\ pc'[p] = "open" /\ caller'[p] = "emit"
        BY <4>1 DEF QueueHeld, Indexed, IndexLocs
      <4>2. CASE ev[p] \in TerminalEvents /\ diskFaults' > 0 /\ GaveUp(p)
        <5>1. indexFaults' + diskFaults' > 0
          BY <1>1, <4>2
        <5>2. CASE pc'[p] = "open" /\ caller'[p] = "reseal"
          BY <5>1, <5>2 DEF QueueHeld, Indexed, IndexLocs
        <5>3. CASE pc'[p] = "sealing" /\ ev[p] \notin {"run_failed", "run_interrupted"}
          <6>1. status'[p] \in {"succeeded", "cancelled"}
            BY <1>1, <2>8, <4>2, <5>3 DEF StatusPlaced, TerminalEvents, StatusOf
          <6> QED
            BY <5>1, <5>3, <6>1 DEF QueueHeld, Indexed, IndexLocs
        <5> QED
          BY <4>2, <5>2, <5>3 DEF GaveUp
      <4>3. CASE ev[p] \notin TerminalEvents
        <5>1. ~HasOutcome(run[p])'
          <6>1. status'[p] \notin Outcomes
            BY <1>1, <2>8, <4>3 DEF StatusPlaced
          <6>2. StatusWritten(p)'
            BY <2>1, IInvNext, RunExecutionAssumption DEF IInv
          <6> QED
            BY <6>1, <6>2 DEF StatusWritten, HasOutcome
        <5>2. pc'[p] = "publish" \/ pc'[p] = "sealing"
          BY <2>8, <3>1, <4>3 DEF Recording, GaveUp, TerminalEvents
        <5> QED
          BY <2>8, <4>3, <5>1, <5>2 DEF QueueHeld, Indexed, IndexLocs, HasOutcome
      <4> QED
        BY <2>8, <3>1, <4>1, <4>2, <4>3 DEF Recording
    <3>2. CASE pc[p] = "publish"
      <4>1. ~HasOutcome(run[p])'
        BY <2>2, <2>4, <2>5, <3>2 DEF QueueHeld, Indexed, IndexLocs, Upserted
      <4>2. pc'[p] \in BodyLocs \union {"sealing"}
        BY <1>1, <2>4, <2>8, <3>2
           DEF Recording, GaveUp, TerminalEvents, ExecutorPlaced, Emitting
      <4> QED
        BY <4>1, <4>2 DEF QueueHeld, Indexed, IndexLocs, BodyLocs, HasOutcome
    <3>3. CASE pc[p] = "sealing" /\ pc'[p] = "returned"
      <4>1. HasOutcome(run[p])' =>
              status[p] \in {"succeeded", "cancelled"} /\ indexFaults + diskFaults > 0
        BY <2>2, <2>4, <2>5, <3>3 DEF QueueHeld, Indexed, IndexLocs, Upserted
      <4>2. indexFaults + diskFaults > 0 => indexFaults' + diskFaults' > 0
        BY <1>1
      <4> QED
        BY <2>8, <3>3, <4>1, <4>2 DEF QueueHeld, Indexed, IndexLocs, HasOutcome
    <3> QED
      BY <2>8, <3>1, <3>2, <3>3 DEF Recording
  <2>9. CASE status'[p] = status[p] /\ ev'[p] = ev[p] /\ InIndex(p)
    <3>1. Indexed(p, "reseal") => indexFaults' + diskFaults' > 0
      BY <1>1, <2>4
    <3>2. CASE pc'[p] = "mark"
      BY <2>1, <2>3, <2>9, <3>2 DEF InIndex, GaveUp, IndexLocs, Queued
    <3>3. CASE pc'[p] \in IndexLocs \ {"mark"} /\ caller'[p] = caller[p]
      <4>1. CASE caller[p] \in {"emit", "reseal"}
        BY <2>9, <3>1, <3>3, <4>1 DEF QueueHeld, Indexed, InIndex, IndexLocs
      <4>2. CASE caller[p] \notin {"emit", "reseal"}
        <5>1. pc[p] # "append" /\ ~Upserted(r)
          BY <2>2, <2>9, <3>3, <4>2 DEF InIndex, Upserted, IndexLocs
        <5>2. ~HasOutcome(run[p])'
          BY <2>2, <2>4, <2>5, <2>9, <4>2, <5>1 DEF QueueHeld, Indexed, InIndex, IndexLocs
        <5> QED
          BY <3>3, <4>2, <5>2 DEF QueueHeld, Indexed, IndexLocs, HasOutcome
      <4> QED
        BY <4>1, <4>2
    <3>4. CASE /\ Refused(p) /\ pc[p] \in IndexLocs
               /\ IF caller[p] = "emit" THEN GaveUp(p) ELSE pc'[p] = "returned"
      <4>1. /\ indexFaults' = indexFaults + 1 /\ diskFaults' = diskFaults /\ row' = row
            /\ indexFaults' + diskFaults' > 0
        BY <1>1, <3>4 DEF Refused, Unbroken, IndexFault
      <4>2. HasOutcome(run[p])' => HasOutcome(run[p])
        <5>1. journal'[r] = journal[r]
          BY <2>2, <3>4, TrailStays DEF IndexLocs
        <5> QED
          BY <2>1, <4>1, <5>1 DEF HasOutcome
      <4>3. CASE caller[p] = "emit" /\ pc'[p] = "open" /\ caller'[p] = "reseal"
        BY <4>1, <4>3 DEF QueueHeld, Indexed, IndexLocs
      <4>4. CASE /\ caller[p] = "emit" /\ pc'[p] = "sealing"
                 /\ ev[p] \notin {"run_failed", "run_interrupted"}
        <5>1. ev[p] \in TerminalEvents /\ status[p] = StatusOf[ev[p]]
          BY <1>1, <3>4, <4>4 DEF StatusPlaced
        <5>2. status'[p] \in {"succeeded", "cancelled"}
          BY <2>9, <4>4, <5>1 DEF TerminalEvents, StatusOf
        <5> QED
          BY <4>1, <4>4, <5>2 DEF QueueHeld, Indexed, IndexLocs
      <4>5. CASE caller[p] # "emit" /\ pc'[p] = "returned"
        <5>1. HasOutcome(run[p]) => indexFaults + diskFaults > 0
          BY <2>2, <2>4, <3>4, <4>5 DEF QueueHeld, Indexed, IndexLocs
        <5>2. indexFaults + diskFaults > 0 => indexFaults' > 0 /\ indexFaults' + diskFaults' > 1
          BY <1>1, <4>1
        <5> QED
          BY <4>2, <4>5, <5>1, <5>2 DEF QueueHeld, Indexed, IndexLocs, HasOutcome
      <4> QED
        BY <3>4, <4>3, <4>4, <4>5 DEF GaveUp
    <3>5. CASE /\ pc[p] = "upsert" /\ caller[p] \in {"initialize", "manual"}
               /\ pc'[p] \in {"publishRun", "returned"}
      <4>1. status'[p] \notin Outcomes
        BY <1>1, <2>9, <3>5 DEF StatusPlaced, IndexLocs, Outcomes
      <4>2. StatusWritten(p)'
        BY <2>1, IInvNext, RunExecutionAssumption DEF IInv
      <4>3. ~HasOutcome(run[p])'
        BY <4>1, <4>2 DEF StatusWritten, HasOutcome
      <4> QED
        BY <3>5, <4>3 DEF QueueHeld, Indexed, IndexLocs, HasOutcome
    <3> QED
      BY <2>4, <2>9, <3>2, <3>3, <3>4, <3>5 DEF InIndex, IndexLocs
  <2> QED
    BY <1>2, <1>3, <1>4, <2>6, <2>7, <2>8, <2>9, WaySteps DEF Way
<1> QED
  BY <1>2, <1>3, <1>4, WaySteps DEF Way, Untouched

LEMMA QueueNext ==
  ASSUME IInv, QueueInv, [Next]_vars, [Unbroken]_vars
  PROVE  QueueInv'
<1>1. CASE UNCHANGED vars
  BY <1>1 DEF vars, procVars, storeVars, faultVars, QueueInv, QueueHeld, HasOutcome, Indexed, Queued
<1>2. CASE Unbroken
  BY <1>2, QueueHeldStays DEF QueueInv
<1> QED
  BY <1>1, <1>2

(* As long as indexRun meets no Run that is just being set up, a Run that  *)
(* ended, by its trail or by its row, is in the outbox when Execute has    *)
(* returned, unless failures of the disk or of the index kept it out: one  *)
(* is enough only for a Run that succeeded or was cancelled.  Refusals of  *)
(* the coordinator, crashes of others and late imports keep none out.      *)
THEOREM OutcomesAreQueued == Spec /\ [][Unbroken]_vars => []OutcomeIsQueued
<1>1. Init => IInv /\ QueueInv
  BY IInvInit, QueueInit
<1>2. (IInv /\ QueueInv) /\ [Next]_vars /\ [Unbroken]_vars => (IInv /\ QueueInv)'
  BY IInvNext, QueueNext
<1>3. IInv /\ QueueInv => OutcomeIsQueued
  BY DEF IInv, ExecutorOK, ExecutorPlaced, QueueInv, QueueHeld, OutcomeIsQueued, Indexed, IndexLocs
<1> QED
  BY <1>1, <1>2, <1>3, PTL DEF Spec

-----------------------------------------------------------------------------
(* The index knows how a Run ended when Execute returns                    *)

(* No import is stale: none writes over a row that came after its lookup.  *)
Fresh ==
  \A p \in Procs : pc[p] = "import" /\ pc'[p] = "backfill" => row[found[p].run] = "absent"

Apart == Unbroken /\ Fresh

Told(p) == status[p] # "running" /\ row[run[p]] = status[p]

(* The append of the last event of a Run that did not fail was refused.    *)
Lost(p) == diskFaults > 0 /\ status[p] \in {"succeeded", "cancelled"}

SealHeld(p) ==
  /\ pc[p] \in {"enqueue", "mark"} \/ (pc[p] = "publish" /\ ev[p] \in TerminalEvents) => Told(p)
  /\ pc[p] = "sealing" => status[p] = "running" \/ Told(p) \/ Lost(p)
  /\ pc[p] = "returned" =>
       (status[p] = "running" /\ journal[run[p]] = << >>) \/ Told(p) \/ Lost(p)

SealInv == indexFaults = 0 => \A p \in Executors : run[p] # NoRun => SealHeld(p)

LEMMA SealInit == Init => SealInv
<1> SUFFICES ASSUME Init PROVE SealInv
  OBVIOUS
<1>1. \A p \in Executors : run[p] = NoRun
  BY DEF Init, Procs
<1> QED
  BY <1>1 DEF SealInv

(* What the index was told stays there.                                    *)
LEMMA ToldStays ==
  ASSUME IInv, [Next]_vars, Apart, NEW p \in Executors, run[p] # NoRun, Told(p),
         run'[p] = run[p], status'[p] = status[p]
  PROVE  Told(p)'
<1>1. /\ run[p] \in Runs /\ status[p] \in RunStatuses /\ "absent" \notin RunStatuses
      /\ \A q \in Executors : run[q] = run[p] => q = p
  BY DEF IInv, TypeOK, RunStatuses, Outcomes, Procs, Owned, SingleWriter
<1>2. ~Imported(run[p])
  BY <1>1 DEF Imported, Apart, Fresh, Told
<1>3. row'[run[p]] = row[run[p]] \/ Upserted(run[p]) \/ Marked(run[p])
  BY <1>1, <1>2, RowChanges
<1>4. row'[run[p]] = status[p]
  BY <1>1, <1>3 DEF Upserted, Marked, Told
<1> QED
  BY <1>4 DEF Told

LEMMA SealHeldStays ==
  ASSUME IInv, RowsFirst, [Next]_vars, Apart, indexFaults' = 0, SealInv,
         NEW p \in Executors, run'[p] # NoRun
  PROVE  SealHeld(p)'
<1>1. /\ ExecutorPlaced(p) /\ StatusPlaced(p) /\ Owned /\ p \in Procs
      /\ run[p] \in Runs \union {NoRun} /\ NoRun \notin Runs
      /\ status[p] \in Outcomes \union {"running", "pending_manual"}
  BY RunExecutionAssumption DEF IInv, ExecutorOK, TypeOK, Procs, RunStatuses
<1>2. CASE pc'[p] \in {"crashed", "refused", "request"}
  BY <1>2 DEF SealHeld
<1>3. CASE run'[p] = run[p] /\ Within(p)
  BY <1>3 DEF SealHeld, Within, BodyLocs
<1>4. CASE run'[p] = run[p] /\ status'[p] = status[p]
  <2>1. /\ run[p] \in Runs /\ run[p] # NoRun /\ SealHeld(p)
        /\ \A q \in Executors : run[q] = run[p] => q = p
    BY <1>1, <1>4, FaultsGrow DEF SealInv, Owned, SingleWriter
  <2>2. Told(p) => Told(p)'
    BY <1>4, <2>1, ToldStays
  <2>3. Lost(p) => Lost(p)'
    BY <1>4, FaultsGrow DEF Lost
  <2>4. pc[p] # "append" => journal'[run[p]] = journal[run[p]]
    BY <2>1, TrailStays
  <2>5. CASE Untouched(p)
    BY <2>1, <2>2, <2>3, <2>4, <2>5 DEF Untouched, SealHeld
  <2>6. CASE Setup(p)
    <3>1. status'[p] = "running" /\ (pc'[p] = "returned" => journal'[run[p]] = << >>)
      BY <1>1, <1>4, <2>1, <2>4, <2>6 DEF Setup, StatusPlaced, OpenLocs, RowsFirst, Blank
    <3> QED
      BY <1>4, <2>6, <3>1 DEF Setup, SealHeld
  <2>7. CASE ev'[p] = ev[p] /\ Recording(p)
    <3>1. CASE pc[p] = "append"
      <4>1. CASE ~GaveUp(p)
        BY <2>7, <3>1, <4>1 DEF Recording, SealHeld
      <4>2. CASE GaveUp(p) /\ pc'[p] = "open"
        BY <4>2 DEF SealHeld
      <4>3. CASE /\ GaveUp(p) /\ pc'[p] = "sealing"
        <5>1. diskFaults' > 0 /\ ev[p] \notin {"run_failed", "run_interrupted"}
          BY <2>7, <3>1, <4>3 DEF Recording, GaveUp
        <5>2. status[p] = "running" \/ status[p] \in {"succeeded", "cancelled"}
          <6>1. CASE ev[p] \in TerminalEvents
            BY <1>1, <5>1, <6>1 DEF StatusPlaced, TerminalEvents, StatusOf
          <6>2. CASE ev[p] \notin TerminalEvents
            BY <1>1, <3>1, <6>2 DEF StatusPlaced
          <6> QED
            BY <6>1, <6>2
        <5> QED
          BY <1>4, <4>3, <5>1, <5>2 DEF SealHeld, Lost
      <4> QED
        BY <4>1, <4>2, <4>3 DEF GaveUp
    <3>2. CASE pc[p] = "publish"
      <4>1. CASE ev[p] \in TerminalEvents
        <5>1. Told(p)' /\ pc'[p] # "crashed"
          BY <1>1, <2>1, <2>2, <2>7, <3>2, <4>1
             DEF SealHeld, Recording, GaveUp, ExecutorPlaced, Emitting
        <5> QED
          BY <5>1 DEF SealHeld
      <4>2. CASE ev[p] \notin TerminalEvents
        <5>1. /\ status[p] = "running"
              /\ pc'[p] \in BodyLocs \union {"open", "sealing"}
          BY <1>1, <2>7, <3>2, <4>2 DEF StatusPlaced, Recording, GaveUp, ExecutorPlaced, Emitting
        <5> QED
          BY <1>4, <5>1 DEF SealHeld, BodyLocs
      <4> QED
        BY <4>1, <4>2
    <3>3. CASE pc[p] = "sealing"
      BY <2>1, <2>2, <2>3, <2>7, <3>3 DEF Recording, SealHeld
    <3> QED
      BY <2>7, <3>1, <3>2, <3>3 DEF Recording
  <2>8. CASE InIndex(p)
    <3>1. ~Refused(p)
      BY FaultsGrow DEF Refused, Apart, Unbroken, IndexFault
    <3>2. CASE pc'[p] \in {"backfill", "read", "import", "upsert"}
      BY <3>2 DEF SealHeld
    <3>3. CASE row'[run[p]] = status[p] /\ pc[p] = "upsert"
      <4>1. status[p] # "running" => Told(p)'
        BY <1>4, <3>3 DEF Told
      <4>2. status[p] = "running" => pc'[p] = "publishRun"
        BY <1>1, <2>8, <3>1, <3>3 DEF InIndex, StatusPlaced, IndexLocs, Outcomes
      <4> QED
        BY <4>1, <4>2 DEF SealHeld
    <3>4. CASE pc[p] \in {"enqueue", "mark"}
      BY <2>1, <2>2, <3>4 DEF SealHeld
    <3> QED
      BY <2>8, <3>1, <3>2, <3>3, <3>4 DEF InIndex
  <2> QED
    BY <1>2, <1>3, <1>4, <2>5, <2>6, <2>7, <2>8, WaySteps DEF Way
<1> QED
  BY <1>2, <1>3, <1>4, WaySteps DEF Way, Untouched

LEMMA SealNext ==
  ASSUME IInv, RowsFirst, [Next]_vars, Apart, SealInv
  PROVE  SealInv'
  BY SealHeldStays DEF SealInv

LEMMA Seals == Spec /\ [][Apart]_vars => [](IInv /\ SealInv)
<1>1. Init => IInv /\ RowsFirst /\ SealInv
  BY IInvInit, RowsFirstInit, SealInit
<1>2. (IInv /\ RowsFirst /\ SealInv) /\ [Next]_vars /\ [Apart]_vars
        => (IInv /\ RowsFirst /\ SealInv)'
  <2> SUFFICES ASSUME IInv, RowsFirst, SealInv, [Next]_vars, [Apart]_vars
               PROVE  (IInv /\ RowsFirst /\ SealInv)'
    OBVIOUS
  <2>1. CASE UNCHANGED vars
    BY <2>1, IInvNext, RowsFirstNext
       DEF vars, procVars, storeVars, faultVars, SealInv, SealHeld, Told, Lost
  <2>2. CASE Apart
    BY <2>2, IInvNext, RowsFirstNext, SealNext
  <2> QED
    BY <2>1, <2>2
<1> QED
  BY <1>1, <1>2, PTL DEF Spec

(* While no statement of the index and no append fails, and Backfill meets *)
(* no Run that is just being set up, the index has left "running" when     *)
(* Execute returns from a Run that recorded anything: whatever the         *)
(* coordinator refused and wherever r.ctx ended.                           *)
THEOREM ReturnsAreSealed ==
  Spec /\ [][Apart]_vars => [](indexFaults = 0 /\ diskFaults = 0 => SealedOnReturn)
<1>1. IInv /\ SealInv => (indexFaults = 0 /\ diskFaults = 0 => SealedOnReturn)
  BY DEF IInv, ExecutorOK, ExecutorPlaced, SealInv, SealHeld, Told, Lost, SealedOnReturn
<1> QED
  BY <1>1, Seals, PTL

(* A Run that failed or was interrupted is in the index as that, also when *)
(* appends fail: fail and interrupt go on to the index.                    *)
FailureIsSealed ==
  \A p \in Executors :
    pc[p] = "returned" /\ status[p] \in {"failed", "interrupted", "pending_manual"} =>
      row[run[p]] = status[p]

THEOREM FailuresAreSealed ==
  Spec /\ [][Apart]_vars => [](indexFaults = 0 => FailureIsSealed)
<1>1. IInv /\ SealInv => (indexFaults = 0 => FailureIsSealed)
  BY DEF IInv, ExecutorOK, ExecutorPlaced, SealInv, SealHeld, Told, Lost, FailureIsSealed
<1> QED
  BY <1>1, Seals, PTL
==============================================================================
