------------------------- MODULE RunExecution_proofs -------------------------
(***************************************************************************)
(* Proofs about RunExecution, for any number of processes, Runs, Steps and *)
(* failures, whatever a failing append leaves behind.                      *)
(*                                                                         *)
(* The inductive invariant IInv relates the status a process holds in      *)
(* memory to what it has written: the status leaves "running" exactly when *)
(* the one closing event is about to be written, the place in the code     *)
(* tells who may still write, and the process that reserved a directory is *)
(* the only one that ever writes its trail.                                *)
(*                                                                         *)
(* One lemma ...Type per action shows that the types survive it, one lemma *)
(* ...Keeps per action that the rest of IInv does.                         *)
(***************************************************************************)
EXTENDS RunExecution, SequenceTheorems, WellFoundedInduction, TLAPS

IndexLocs == {"open", "backfill", "read", "import", "upsert", "enqueue", "mark"}

(* Places of Execute at which its outcome is open.                         *)
BodyLocs == {"preflight", "fulfill", "manual", "step", "approve", "cancel", "prepare",
             "execute", "returns", "failing", "interrupting"}
OpenLocs == BodyLocs \union {"idle", "refused", "request", "record", "publishRun"}

(* Inside emit: before the append, while a terminal event is indexed, and    *)
(* before the publication.                                                 *)
Emitting(p) == pc[p] \in {"append", "publish"} \/ (pc[p] \in IndexLocs /\ caller[p] = "emit")

(* A reader only opens the index.                                          *)
ReaderOK(p) ==
  /\ pc[p] \in {"idle", "open", "backfill", "read", "import", "listed", "listFailed"}
  /\ pc[p] \in IndexLocs => caller[p] = "list"

(* Where an executor is, what it goes back to, and who called indexRun.    *)
ExecutorPlaced(p) ==
  /\ caller[p] # "list"
  /\ pc[p] \notin {"listed", "listFailed"}
  /\ (run[p] = NoRun) <=> pc[p] \in {"idle", "refused"}
  /\ Emitting(p) => next[p] \in IF ev[p] \in TerminalEvents THEN {"returned"} ELSE BodyLocs
  /\ Emitting(p) /\ pc[p] # "append" => seq[p] > 0
  /\ pc[p] \in {"enqueue", "mark"} => caller[p] \in {"emit", "reseal"}

(* The status in memory, the event being emitted and the place agree.      *)
StatusPlaced(p) ==
  /\ ev[p] \in TerminalEvents => status[p] = StatusOf[ev[p]]
  /\ status[p] \in Outcomes => ev[p] \in TerminalEvents
  /\ pc[p] \in OpenLocs => status[p] = "running"
  /\ pc[p] \in {"append", "publish", "sealing"} => status[p] # "pending_manual"
  /\ pc[p] \in IndexLocs =>
       \/ caller[p] = "initialize" /\ status[p] = "running"
       \/ caller[p] = "manual" /\ status[p] = "pending_manual"
       \/ caller[p] \in {"emit", "reseal"} /\ status[p] \in Outcomes

ExecutorOK(p) == ExecutorPlaced(p) /\ StatusPlaced(p)

(* Every directory has the one process that made it.                       *)
Owned ==
  /\ \A p \in Executors : run[p] # NoRun => dir[run[p]] # "absent"
  /\ \A r \in Runs : dir[r] # "absent" => \E p \in Executors : run[p] = r
  /\ \A r \in Runs : dir[r] = "absent" => journal[r] = << >> /\ row[r] = "absent"
  /\ \A r \in Runs : Queued(r) => row[r] # "absent"
  /\ SingleWriter

(* What was written about the Run is what its process holds.               *)
StatusWritten(p) ==
  /\ pc[p] = "append" => TerminalLines(journal[run[p]]) = {}
  /\ TerminalLines(journal[run[p]]) # {} =>
       status[p] \in Outcomes /\ StatusFromEvents(journal[run[p]]) = status[p]
  /\ row[run[p]] \in Outcomes \union {"pending_manual"} => row[run[p]] = status[p]
  /\ Queued(run[p]) => status[p] \in Outcomes
  /\ pc[p] \in {"enqueue", "mark"} => row[run[p]] # "absent"

(* A record built by Backfill is out of date only in saying "running".     *)
FoundTrue(p) ==
  /\ pc[p] = "read" => found[p].run \in Runs
  /\ pc[p] = "import" =>
       /\ found[p].run \in Runs
       /\ dir[found[p].run] # "absent"
       /\ \/ found[p].status = "running"
          \/ /\ TerminalLines(journal[found[p].run]) # {}
             /\ found[p].status = StatusFromEvents(journal[found[p].run])

IInv ==
  /\ TypeOK
  /\ \A p \in Readers : ReaderOK(p)
  /\ \A p \in Executors : ExecutorOK(p)
  /\ Owned
  /\ \A p \in Executors : run[p] # NoRun => StatusWritten(p)
  /\ \A p \in Procs : FoundTrue(p)

-----------------------------------------------------------------------------
(* Lines of events.jsonl *)

(* Appending to a trail yields a trail.                                     *)
LEMMA WithLineType ==
  ASSUME NEW lines \in Seq(Line), NEW l \in Line
  PROVE  WithLine(lines, l) \in Seq(Line)
  BY DEF WithLine

(* Torn is no closing event.                                                *)
LEMMA TornOpen == Torn.type \notin TerminalEvents
  BY DEF Torn, TerminalEvents

(* A line that closes nothing leaves an open trail open.                    *)
LEMMA OpenAppend ==
  ASSUME NEW lines \in Seq(Line), NEW l \in Line,
         TerminalLines(lines) = {}, l.type \notin TerminalEvents
  PROVE  TerminalLines(WithLine(lines, l)) = {}
  BY DEF WithLine, TerminalLines

(* A closing line gives an open trail its outcome, if it is decodable.      *)
LEMMA ClosingAppend ==
  ASSUME NEW lines \in Seq(Line), NEW l \in Line,
         TerminalLines(lines) = {}, l.type \in TerminalEvents
  PROVE  LET new == WithLine(lines, l) IN
         TerminalLines(new) # {} => StatusFromEvents(new) = StatusOf[l.type]
<1>1. CASE EndsTorn(lines)
  BY <1>1 DEF WithLine
<1>2. CASE ~EndsTorn(lines)
  <2> DEFINE new == Append(lines, l)
             k   == Len(lines) + 1
  <2>1. /\ WithLine(lines, l) = new
        /\ new \in Seq(Line)
        /\ DOMAIN new = 1..k
        /\ new[k] = l
        /\ \A i \in 1..Len(lines) : new[i] = lines[i]
        /\ k \in Nat
    BY <1>2 DEF WithLine
  <2>2. TerminalLines(new) = {k}
    BY <2>1 DEF TerminalLines
  <2>3. (CHOOSE i \in {k} : \A j \in {k} : j <= i) = k
    BY <2>1
  <2>4. StatusFromEvents(new) = StatusOf[new[k].type]
    BY <2>2, <2>3 DEF StatusFromEvents
  <2> QED
    BY <2>1, <2>4
<1> QED
  BY <1>1, <1>2

(* An open trail reads as "running".                                        *)
LEMMA OpenReadsRunning ==
  ASSUME NEW lines, TerminalLines(lines) = {}
  PROVE  StatusFromEvents(lines) = "running"
  BY DEF StatusFromEvents

-----------------------------------------------------------------------------
(* Type correctness *)

(* The names a step stores are in the sets they are declared in.            *)
LEMMA Names ==
  /\ Locations = {"idle", "refused", "returned", "crashed", "request", "record", "open",
      "backfill", "read", "import", "upsert", "enqueue", "mark", "publishRun", "append", "publish",
      "preflight", "fulfill", "manual", "step", "approve", "cancel", "prepare",
      "execute", "returns", "failing", "interrupting", "sealing", "listed", "listFailed"}
  /\ Callers = {"initialize", "emit", "reseal", "manual", "list"}
  BY DEF Locations, Resting, Callers

(* TrimPrefix of a terminal event is the status of an ended Run.            *)
LEMMA StatusOfType ==
  /\ \A e \in TerminalEvents : StatusOf[e] \in Outcomes
  /\ Outcomes \subseteq RunStatuses
  /\ TerminalEvents \subseteq EventTypes
  BY DEF TerminalEvents, StatusOf, Outcomes, RunStatuses, EventTypes

(* What Backfill derives from a trail is a status.                          *)
LEMMA StatusFromEventsType ==
  ASSUME NEW lines \in Seq(Line)
  PROVE  /\ StatusFromEvents(lines) \in RunStatuses
         /\ TerminalLines(lines) # {} => StatusFromEvents(lines) \in Outcomes
<1>1. CASE TerminalLines(lines) = {}
  BY <1>1 DEF StatusFromEvents, RunStatuses
<1>2. CASE TerminalLines(lines) # {}
  <2> DEFINE I == TerminalLines(lines)
             last == CHOOSE i \in I : \A j \in I : j <= i
  <2>1. \E i \in I : \A j \in I : j <= i
    <3> DEFINE T == {Len(lines) - i : i \in I}
    <3>1. I \subseteq 1..Len(lines) /\ Len(lines) \in Nat
      BY DEF TerminalLines
    <3>2. T \subseteq Nat /\ T # {}
      BY <3>1, <1>2
    <3>3. \E x \in T : \A y \in T : ~ (<<y, x>> \in OpToRel(<, Nat))
      BY <3>2, WFMin, NatLessThanWellFounded
    <3>4. PICK x \in T : \A y \in T : ~ (y < x)
      BY <3>2, <3>3 DEF OpToRel
    <3>5. PICK i \in I : x = Len(lines) - i
      BY <3>4
    <3>6. \A j \in I : Len(lines) - j \in T
      OBVIOUS
    <3>7. ASSUME NEW j \in I
          PROVE  j <= i
      <4>1. ~ (Len(lines) - j < Len(lines) - i)
        BY <3>4, <3>5, <3>6
      <4>2. i \in Nat /\ j \in Nat /\ Len(lines) \in Nat
        BY <3>1
      <4> HIDE DEF I, T
      <4> QED
        BY <4>1, <4>2
    <3> QED
      BY <3>7
  <2>2. last \in I
    BY <2>1
  <2>3. StatusFromEvents(lines) = StatusOf[lines[last].type]
    BY <1>2 DEF StatusFromEvents
  <2> QED
    BY <2>2, <2>3, StatusOfType DEF TerminalLines
<1> QED
  BY <1>1, <1>2

(* Moving a process keeps the types.                                        *)
LEMMA GotoType ==
  ASSUME TypeOK, NEW p \in Procs, NEW l \in Locations, Goto(p, l)
  PROVE  pc' \in [Procs -> Locations]
  BY DEF TypeOK, Goto

LEMMA IndexRunType ==
  ASSUME TypeOK, NEW p \in Procs, NEW c \in Callers, IndexRun(p, c)
  PROVE  pc' \in [Procs -> Locations] /\ caller' \in [Procs -> Callers]
  BY Names, GotoType DEF TypeOK, IndexRun

LEMMA EmitFailsType ==
  ASSUME TypeOK, NEW p \in Procs, EmitFails(p)
  PROVE  pc' \in [Procs -> Locations] /\ caller' \in [Procs -> Callers]
  BY Names, GotoType, IndexRunType DEF TypeOK, EmitFails

LEMMA IndexFailsType ==
  ASSUME TypeOK, NEW p \in Procs, IndexFails(p)
  PROVE  pc' \in [Procs -> Locations] /\ caller' \in [Procs -> Callers]
  BY Names, GotoType, EmitFailsType DEF TypeOK, IndexFails

LEMMA IndexDoneType ==
  ASSUME TypeOK, NEW p \in Procs, IndexDone(p)
  PROVE  pc' \in [Procs -> Locations]
  BY Names, GotoType DEF IndexDone

LEMMA EmitType ==
  ASSUME TypeOK, NEW p \in Procs, NEW e \in EventTypes, NEW l \in Locations, Emit(p, e, l)
  PROVE  /\ pc' \in [Procs -> Locations]
         /\ ev' \in [Procs -> EventTypes]
         /\ next' \in [Procs -> Locations]
  BY Names, GotoType DEF TypeOK, Emit

(* So do the three forms of a step between emits.                           *)
LEMMA LocalType ==
  ASSUME TypeOK, NEW p \in Procs, NEW l \in Locations, Local(p, l)
  PROVE  TypeOK'
  BY GotoType DEF Local, TypeOK, StoreTypeOK, storeVars, remoteVars, faultVars

LEMMA AnnounceType ==
  ASSUME TypeOK, NEW p \in Procs, NEW e \in EventTypes, NEW l \in Locations, Announce(p, e, l)
  PROVE  TypeOK'
  BY EmitType DEF Announce, TypeOK, StoreTypeOK, storeVars, remoteVars, faultVars

LEMMA ConcludeType ==
  ASSUME TypeOK, NEW p \in Procs, NEW e \in TerminalEvents, Conclude(p, StatusOf[e], e)
  PROVE  TypeOK'
<1>1. status' \in [Procs -> RunStatuses]
  BY StatusOfType DEF Conclude, TypeOK
<1>2. e \in EventTypes /\ "returned" \in Locations
  BY StatusOfType, Names
<1> QED
  BY <1>1, <1>2, EmitType DEF Conclude, TypeOK, StoreTypeOK, storeVars, remoteVars, faultVars

(* The bounds count in Nat.                                                 *)
LEMMA FaultsType ==
  ASSUME TypeOK,
         DiskFault \/ IndexFault \/ (\E p \in Procs : RemoteFault(p)) \/ UNCHANGED faultVars
  PROVE  {diskFaults, indexFaults, remoteFaults, cancels, crashes}' \subseteq Nat
  BY RunExecutionAssumption DEF TypeOK, DiskFault, IndexFault, RemoteFault, faultVars

(* A step that starts or ends outside the store.                            *)
LEMMA BodyType ==
  ASSUME TypeOK, NEW p \in Executors,
         \/ Preflight(p) \/ Fulfill(p) \/ NextStep(p) \/ Approve(p) \/ PrepareStep(p)
         \/ Succeed(p) \/ CancelRun(p) \/ Fail(p) \/ Interrupt(p) \/ SealAfterError(p)
  PROVE  TypeOK'
<1>0. p \in Procs
  BY DEF Procs
<1>1. \/ \E l \in Locations : Local(p, l)
      \/ \E e \in EventTypes, l \in Locations : Announce(p, e, l)
      \/ \E e \in TerminalEvents : Conclude(p, StatusOf[e], e)
  BY Names DEF EventTypes, TerminalEvents, StatusOf, Preflight, Fulfill, NextStep, Approve, PrepareStep,
     Succeed, CancelRun, Fail, Interrupt, SealAfterError
<1> QED
  BY <1>0, <1>1, LocalType, AnnounceType, ConcludeType

(* A line written by AppendEvent: all of it, a fragment or nothing.         *)
LEMMA Appended ==
  ASSUME StoreTypeOK, NEW r \in Runs, NEW l \in Line, AppendOK(r, l) \/ AppendFails(r, l)
  PROVE  \E new \in {journal[r], WithLine(journal[r], l), WithLine(journal[r], Torn)} :
           /\ new \in Seq(Line)
           /\ journal' = [journal EXCEPT ![r] = new]
<1>1. journal[r] \in Seq(Line) /\ Torn \in Line
  BY DEF StoreTypeOK, Line
<1>2. UNCHANGED journal => journal' = [journal EXCEPT ![r] = journal[r]]
  BY DEF StoreTypeOK
<1> QED
  BY <1>1, <1>2, WithLineType DEF AppendOK, AppendFails

(* The RunEvent of emit is a line.                                          *)
LEMMA CurrentLineType ==
  ASSUME TypeOK, NEW p \in Procs
  PROVE  CurrentLine(p) \in Line
  BY DEF CurrentLine, Line, TypeOK

(* One lemma per action: the types survive it.                              *)
LEMMA ReserveType ==
  ASSUME TypeOK, NEW p \in Executors, NEW r \in Runs, Reserve(p, r)
  PROVE  TypeOK'
<1>1. /\ p \in Procs
      /\ dir \in [Runs -> {"absent", "reserved", "requested", "complete"}]
      /\ run \in [Procs -> Runs \union {NoRun}]
      /\ shared \in [Procs -> BOOLEAN]
  BY DEF Procs, TypeOK, StoreTypeOK
<1>2. pc' \in [Procs -> Locations] /\ caller' \in [Procs -> Callers]
  BY <1>1, Names, GotoType DEF Reserve, TypeOK
<1>3. {diskFaults, indexFaults, remoteFaults, cancels, crashes}' \subseteq Nat
  BY <1>1, FaultsType DEF Reserve, Local, TypeOK, faultVars
<1>4. dir' \in [Runs -> {"absent", "reserved", "requested", "complete"}]
  BY <1>1 DEF Reserve
<1>5. run' \in [Procs -> Runs \union {NoRun}] /\ shared' \in [Procs -> BOOLEAN]
  BY <1>1, RunExecutionAssumption DEF Reserve
<1> QED
  BY <1>2, <1>3, <1>4, <1>5 DEF Reserve, TypeOK, StoreTypeOK, storeVars, remoteVars, faultVars

LEMMA WriteRequestType ==
  ASSUME TypeOK, NEW p \in Executors, WriteRequest(p)
  PROVE  TypeOK'
<1>1. /\ p \in Procs
      /\ dir \in [Runs -> {"absent", "reserved", "requested", "complete"}]
  BY DEF Procs, TypeOK, StoreTypeOK
<1>2. pc' \in [Procs -> Locations] /\ caller' \in [Procs -> Callers]
  BY <1>1, Names, GotoType, IndexRunType DEF WriteRequest, WriteDocument, TypeOK
<1>3. {diskFaults, indexFaults, remoteFaults, cancels, crashes}' \subseteq Nat
  BY <1>1, FaultsType DEF WriteRequest, WriteDocument, Local, TypeOK, faultVars
<1>4. dir' \in [Runs -> {"absent", "reserved", "requested", "complete"}]
  BY <1>1 DEF WriteRequest, WriteDocument
<1> QED
  BY <1>2, <1>3, <1>4 DEF WriteRequest, TypeOK, StoreTypeOK, storeVars, remoteVars, faultVars

LEMMA WriteRunType ==
  ASSUME TypeOK, NEW p \in Executors, WriteRun(p)
  PROVE  TypeOK'
<1>1. /\ p \in Procs
      /\ dir \in [Runs -> {"absent", "reserved", "requested", "complete"}]
  BY DEF Procs, TypeOK, StoreTypeOK
<1>2. pc' \in [Procs -> Locations] /\ caller' \in [Procs -> Callers]
  BY <1>1, Names, GotoType, IndexRunType DEF WriteRun, WriteDocument, TypeOK
<1>3. {diskFaults, indexFaults, remoteFaults, cancels, crashes}' \subseteq Nat
  BY <1>1, FaultsType DEF WriteRun, WriteDocument, Local, TypeOK, faultVars
<1>4. dir' \in [Runs -> {"absent", "reserved", "requested", "complete"}]
  BY <1>1 DEF WriteRun, WriteDocument
<1> QED
  BY <1>2, <1>3, <1>4 DEF WriteRun, TypeOK, StoreTypeOK, storeVars, remoteVars, faultVars

LEMMA OpenIndexType ==
  ASSUME TypeOK, NEW p \in Procs, OpenIndex(p)
  PROVE  TypeOK'
<1>1. /\ p \in Procs
      /\ scan \in [Procs -> SUBSET Runs]
  BY DEF Procs, TypeOK, StoreTypeOK
<1>2. pc' \in [Procs -> Locations] /\ caller' \in [Procs -> Callers]
  BY <1>1, Names, GotoType, IndexFailsType DEF OpenIndex, TypeOK
<1>3. {diskFaults, indexFaults, remoteFaults, cancels, crashes}' \subseteq Nat
  BY <1>1, FaultsType DEF OpenIndex, Local, TypeOK, faultVars
<1>4. scan' \in [Procs -> SUBSET Runs]
  BY <1>1 DEF OpenIndex
<1> QED
  BY <1>2, <1>3, <1>4 DEF OpenIndex, TypeOK, StoreTypeOK, storeVars, remoteVars, faultVars

LEMMA BackfillLookupType ==
  ASSUME TypeOK, NEW p \in Procs, NEW r \in Runs, BackfillLookup(p, r)
  PROVE  TypeOK'
<1>1. /\ p \in Procs
      /\ scan \in [Procs -> SUBSET Runs]
      /\ found \in [Procs -> [run : Runs \union {NoRun}, status : RunStatuses]]
  BY DEF Procs, TypeOK, StoreTypeOK
<1>2. pc' \in [Procs -> Locations] /\ caller' \in [Procs -> Callers]
  BY <1>1, Names, GotoType, IndexFailsType DEF BackfillLookup, TypeOK
<1>3. {diskFaults, indexFaults, remoteFaults, cancels, crashes}' \subseteq Nat
  BY <1>1, FaultsType DEF BackfillLookup, Local, TypeOK, faultVars
<1>4. scan' \in [Procs -> SUBSET Runs]
  BY <1>1 DEF BackfillLookup
<1>5. found' \in [Procs -> [run : Runs \union {NoRun}, status : RunStatuses]]
  BY <1>1 DEF BackfillLookup
<1> QED
  BY <1>2, <1>3, <1>4, <1>5 DEF BackfillLookup, TypeOK,
     StoreTypeOK, storeVars, remoteVars, faultVars

LEMMA BackfillReadType ==
  ASSUME TypeOK, NEW p \in Procs, found[p].run \in Runs, BackfillRead(p)
  PROVE  TypeOK'
<1>1. /\ p \in Procs
      /\ found \in [Procs -> [run : Runs \union {NoRun}, status : RunStatuses]]
      /\ journal[found[p].run] \in Seq(Line)
  BY DEF Procs, TypeOK, StoreTypeOK
<1>2. pc' \in [Procs -> Locations] /\ caller' \in [Procs -> Callers]
  BY <1>1, Names, GotoType, IndexFailsType DEF BackfillRead, TypeOK
<1>3. {diskFaults, indexFaults, remoteFaults, cancels, crashes}' \subseteq Nat
  BY <1>1, FaultsType DEF BackfillRead, Local, TypeOK, faultVars
<1>4. found' \in [Procs -> [run : Runs \union {NoRun}, status : RunStatuses]]
  BY <1>1, StatusFromEventsType DEF BackfillRead
<1> QED
  BY <1>2, <1>3, <1>4 DEF BackfillRead, TypeOK,
     StoreTypeOK, storeVars, remoteVars, faultVars

LEMMA BackfillImportType ==
  ASSUME TypeOK, NEW p \in Procs, BackfillImport(p)
  PROVE  TypeOK'
<1>1. /\ p \in Procs
      /\ found \in [Procs -> [run : Runs \union {NoRun}, status : RunStatuses]]
      /\ row \in [Runs -> RunStatuses \union {"absent"}]
      /\ sync \in [Runs -> {"none", "pending", "synced"}]
  BY DEF Procs, TypeOK, StoreTypeOK
<1>2. pc' \in [Procs -> Locations] /\ caller' \in [Procs -> Callers]
  BY <1>1, Names, GotoType, IndexFailsType DEF BackfillImport, TypeOK
<1>3. {diskFaults, indexFaults, remoteFaults, cancels, crashes}' \subseteq Nat
  BY <1>1, FaultsType DEF BackfillImport, Local, TypeOK, faultVars
<1>4. row' \in [Runs -> RunStatuses \union {"absent"}]
  BY <1>1 DEF BackfillImport, Upsert
<1>5. sync' \in [Runs -> {"none", "pending", "synced"}]
  BY <1>1 DEF BackfillImport, Upsert
<1> QED
  BY <1>2, <1>3, <1>4, <1>5 DEF BackfillImport, TypeOK,
     StoreTypeOK, storeVars, remoteVars, faultVars

LEMMA UpsertRowType ==
  ASSUME TypeOK, NEW p \in Procs, IndexStatus(p) \in RunStatuses, UpsertRow(p)
  PROVE  TypeOK'
<1>1. /\ p \in Procs
      /\ row \in [Runs -> RunStatuses \union {"absent"}]
      /\ sync \in [Runs -> {"none", "pending", "synced"}]
  BY DEF Procs, TypeOK, StoreTypeOK
<1>2. pc' \in [Procs -> Locations] /\ caller' \in [Procs -> Callers]
  BY <1>1, Names, GotoType, IndexFailsType, IndexDoneType DEF UpsertRow, TypeOK
<1>3. {diskFaults, indexFaults, remoteFaults, cancels, crashes}' \subseteq Nat
  BY <1>1, FaultsType DEF UpsertRow, Local, TypeOK, faultVars
<1>4. row' \in [Runs -> RunStatuses \union {"absent"}]
  BY <1>1 DEF UpsertRow, Upsert
<1>5. sync' \in [Runs -> {"none", "pending", "synced"}]
  BY <1>1 DEF UpsertRow, Upsert
<1> QED
  BY <1>2, <1>3, <1>4, <1>5 DEF UpsertRow, TypeOK, StoreTypeOK, storeVars, remoteVars, faultVars

LEMMA EnqueueOutboxType ==
  ASSUME TypeOK, NEW p \in Procs, run[p] \in Runs, EnqueueOutbox(p)
  PROVE  TypeOK'
<1>1. /\ p \in Procs
      /\ outbox \subseteq [id : Nat, run : Runs] /\ nextRow \in Nat
  BY DEF Procs, TypeOK, StoreTypeOK
<1>2. pc' \in [Procs -> Locations] /\ caller' \in [Procs -> Callers]
  BY <1>1, Names, GotoType, IndexFailsType, IndexDoneType DEF EnqueueOutbox, TypeOK
<1>3. {diskFaults, indexFaults, remoteFaults, cancels, crashes}' \subseteq Nat
  BY <1>1, FaultsType DEF EnqueueOutbox, Local, TypeOK, faultVars
<1>4. outbox' \subseteq [id : Nat, run : Runs] /\ nextRow' \in Nat
  BY <1>1 DEF EnqueueOutbox, InsertOutbox
<1> QED
  BY <1>2, <1>3, <1>4 DEF EnqueueOutbox, TypeOK, StoreTypeOK, storeVars, remoteVars, faultVars

LEMMA MarkPendingType ==
  ASSUME TypeOK, NEW p \in Procs, MarkPending(p)
  PROVE  TypeOK'
<1>1. /\ p \in Procs
      /\ sync \in [Runs -> {"none", "pending", "synced"}]
  BY DEF Procs, TypeOK, StoreTypeOK
<1>2. pc' \in [Procs -> Locations] /\ caller' \in [Procs -> Callers]
  BY <1>1, Names, GotoType, IndexFailsType, IndexDoneType DEF MarkPending, TypeOK
<1>3. {diskFaults, indexFaults, remoteFaults, cancels, crashes}' \subseteq Nat
  BY <1>1, FaultsType DEF MarkPending, Local, TypeOK, faultVars
<1>4. sync' \in [Runs -> {"none", "pending", "synced"}]
  BY <1>1 DEF MarkPending, SetSync
<1> QED
  BY <1>2, <1>3, <1>4 DEF MarkPending, TypeOK, StoreTypeOK, storeVars, remoteVars, faultVars

LEMMA PublishRunType ==
  ASSUME TypeOK, NEW p \in Executors, run[p] \in Runs, PublishRun(p)
  PROVE  TypeOK'
<1>1. /\ p \in Procs
      /\ remoteRun \subseteq Runs
      /\ {"run_created", "step_succeeded", "step_failed"} \subseteq EventTypes
  BY DEF Procs, TypeOK, StoreTypeOK, EventTypes
<1>2. pc' \in [Procs -> Locations] /\ caller' \in [Procs -> Callers]
  BY <1>1, Names, GotoType, EmitType DEF PublishRun, TypeOK
<1>3. {diskFaults, indexFaults, remoteFaults, cancels, crashes}' \subseteq Nat
  BY <1>1, FaultsType DEF PublishRun, Local, TypeOK, faultVars
<1>4. ev' \in [Procs -> EventTypes] /\ next' \in [Procs -> Locations]
  BY <1>1, Names, EmitType DEF PublishRun, TypeOK
<1>5. remoteRun' \subseteq Runs
  BY <1>1 DEF PublishRun
<1> QED
  BY <1>2, <1>3, <1>4, <1>5 DEF PublishRun, TypeOK, StoreTypeOK, storeVars, remoteVars, faultVars

LEMMA AppendEventType ==
  ASSUME TypeOK, NEW p \in Executors, run[p] \in Runs, AppendEvent(p)
  PROVE  TypeOK'
<1>1. /\ p \in Procs
      /\ seq \in [Procs -> Nat]
  BY DEF Procs, TypeOK, StoreTypeOK
<1>2. pc' \in [Procs -> Locations] /\ caller' \in [Procs -> Callers]
  BY <1>1, Names, GotoType, IndexRunType, EmitFailsType DEF AppendEvent, TypeOK
<1>3. {diskFaults, indexFaults, remoteFaults, cancels, crashes}' \subseteq Nat
  BY <1>1, FaultsType DEF AppendEvent, Local, TypeOK, faultVars
<1>4. seq' \in [Procs -> Nat]
  BY <1>1 DEF AppendEvent
<1>5. journal' \in [Runs -> Seq(Line)]
  BY <1>1, Appended, CurrentLineType DEF AppendEvent, TypeOK, StoreTypeOK
<1> QED
  BY <1>2, <1>3, <1>4, <1>5 DEF AppendEvent, TypeOK, StoreTypeOK, storeVars, remoteVars, faultVars

(* The coordinator stores the line that was just appended.                  *)
LEMMA AcceptType ==
  ASSUME TypeOK, NEW p \in Procs, run[p] \in Runs, seq[p] > 0, Accept(p)
  PROVE  remote' \in [Runs -> Seq(Line)]
<1> DEFINE new == Append(remote[run[p]], [seq |-> seq[p] - 1, type |-> ev[p]])
<1>1. [seq |-> seq[p] - 1, type |-> ev[p]] \in Line
  BY DEF TypeOK, Line
<1>2. remote \in [Runs -> Seq(Line)]
  BY DEF TypeOK
<1>3. new \in Seq(Line)
  BY <1>1, <1>2
<1>4. remote' = [remote EXCEPT ![run[p]] = new]
  BY DEF Accept
<1> HIDE DEF new
<1> QED
  BY <1>2, <1>3, <1>4

LEMMA PublishEventType ==
  ASSUME TypeOK, NEW p \in Executors, run[p] \in Runs, seq[p] > 0, PublishEvent(p)
  PROVE  TypeOK'
<1>1. p \in Procs
  BY DEF Procs
<1>2. pc' \in [Procs -> Locations] /\ caller' \in [Procs -> Callers]
  BY <1>1, Names, GotoType, EmitFailsType DEF PublishEvent, TypeOK
<1>3. {diskFaults, indexFaults, remoteFaults, cancels, crashes}' \subseteq Nat
  BY <1>1, FaultsType DEF PublishEvent, Local, TypeOK, faultVars
<1>4. remote' \in [Runs -> Seq(Line)]
  BY <1>1, AcceptType DEF PublishEvent, TypeOK
<1> QED
  BY <1>2, <1>3, <1>4 DEF PublishEvent, TypeOK, StoreTypeOK, storeVars, remoteVars, faultVars

LEMMA ExecuteStepType ==
  ASSUME TypeOK, NEW p \in Executors, ExecuteStep(p)
  PROVE  TypeOK'
<1>1. /\ p \in Procs
      /\ step \in [Procs -> Nat]
      /\ {"run_created", "step_succeeded", "step_failed"} \subseteq EventTypes
  BY DEF Procs, TypeOK, StoreTypeOK, EventTypes
<1>2. pc' \in [Procs -> Locations] /\ caller' \in [Procs -> Callers]
  BY <1>1, Names, GotoType, EmitType DEF ExecuteStep, TypeOK
<1>3. {diskFaults, indexFaults, remoteFaults, cancels, crashes}' \subseteq Nat
  BY <1>1, FaultsType DEF ExecuteStep, Local, TypeOK, faultVars
<1>4. ev' \in [Procs -> EventTypes] /\ next' \in [Procs -> Locations]
  BY <1>1, Names, EmitType DEF ExecuteStep, TypeOK
<1>5. step' \in [Procs -> Nat]
  BY <1>1 DEF ExecuteStep
<1> QED
  BY <1>2, <1>3, <1>4, <1>5 DEF ExecuteStep, TypeOK, StoreTypeOK, storeVars, remoteVars, faultVars

LEMMA ManualType ==
  ASSUME TypeOK, NEW p \in Executors, Manual(p)
  PROVE  TypeOK'
<1>1. p \in Procs /\ status \in [Procs -> RunStatuses]
  BY DEF Procs, TypeOK
<1>2. CASE \E l \in Locations : Local(p, l)
  BY <1>1, <1>2, LocalType
<1>3. CASE IndexRun(p, "manual") /\ status' = [status EXCEPT ![p] = "pending_manual"]
  <2>1. pc' \in [Procs -> Locations] /\ caller' \in [Procs -> Callers]
    BY <1>1, <1>3, Names, IndexRunType
  <2>2. status' \in [Procs -> RunStatuses]
    BY <1>1, <1>3 DEF RunStatuses
  <2>3. UNCHANGED <<storeVars, run, shared, seq, ev, next, step, scan, found, cancelled,
                    remoteVars, faultVars>>
    BY <1>1, <1>3 DEF Manual, Local
  <2> QED
    BY <2>1, <2>2, <2>3 DEF TypeOK, StoreTypeOK, storeVars, remoteVars, faultVars
<1> QED
  BY <1>2, <1>3, Names DEF Manual

LEMMA CancelType ==
  ASSUME TypeOK, NEW p \in Executors, Cancel(p)
  PROVE  TypeOK'
<1>1. /\ p \in Procs
      /\ cancelled \in [Procs -> BOOLEAN]
  BY DEF Procs, TypeOK, StoreTypeOK
<1>2. pc' \in [Procs -> Locations] /\ caller' \in [Procs -> Callers]
  BY <1>1, Names, GotoType DEF Cancel, TypeOK
<1>3. {diskFaults, indexFaults, remoteFaults, cancels, crashes}' \subseteq Nat
  BY <1>1, FaultsType DEF Cancel, Local, TypeOK, faultVars
<1>4. cancelled' \in [Procs -> BOOLEAN]
  BY <1>1 DEF Cancel
<1> QED
  BY <1>2, <1>3, <1>4 DEF Cancel, TypeOK, StoreTypeOK, storeVars, remoteVars, faultVars

LEMMA CrashType ==
  ASSUME TypeOK, NEW p \in Executors, Crash(p)
  PROVE  TypeOK'
<1>1. p \in Procs
  BY DEF Procs
<1>2. pc' \in [Procs -> Locations] /\ caller' \in [Procs -> Callers]
  BY <1>1, Names, GotoType DEF Crash, TypeOK
<1>3. {diskFaults, indexFaults, remoteFaults, cancels, crashes}' \subseteq Nat
  BY <1>1, FaultsType DEF Crash, Local, TypeOK, faultVars
<1> QED
  BY <1>2, <1>3 DEF Crash, TypeOK, StoreTypeOK, storeVars, remoteVars, faultVars

LEMMA ListType ==
  ASSUME TypeOK, NEW p \in Readers, List(p)
  PROVE  TypeOK'
<1>1. p \in Procs
  BY DEF Procs
<1>2. pc' \in [Procs -> Locations] /\ caller' \in [Procs -> Callers]
  BY <1>1, Names, GotoType, IndexRunType DEF List, TypeOK
<1>3. {diskFaults, indexFaults, remoteFaults, cancels, crashes}' \subseteq Nat
  BY <1>1, FaultsType DEF List, Local, TypeOK, faultVars
<1> QED
  BY <1>2, <1>3 DEF List, TypeOK, StoreTypeOK, storeVars, remoteVars, faultVars

-----------------------------------------------------------------------------
(* What a step of p leaves alone *)

(* The variables of the other processes.                                    *)
Frame(p) ==
  \A q \in Procs : q # p =>
    /\ pc'[q] = pc[q] /\ run'[q] = run[q] /\ status'[q] = status[q] /\ seq'[q] = seq[q]
    /\ ev'[q] = ev[q] /\ next'[q] = next[q] /\ caller'[q] = caller[q]
    /\ found'[q] = found[q]

(* Every change of control is a change of the process that steps.           *)
LEMMA ControlFrame ==
  ASSUME TypeOK, NEW p \in Procs, NEW q \in Procs, q # p
  PROVE  /\ \A l : Goto(p, l) => pc'[q] = pc[q]
         /\ \A c : IndexRun(p, c) => pc'[q] = pc[q] /\ caller'[q] = caller[q]
         /\ \A e, l : Emit(p, e, l) => pc'[q] = pc[q] /\ ev'[q] = ev[q] /\ next'[q] = next[q]
         /\ EmitFails(p) => pc'[q] = pc[q] /\ caller'[q] = caller[q]
         /\ IndexFails(p) => pc'[q] = pc[q] /\ caller'[q] = caller[q]
         /\ IndexDone(p) => pc'[q] = pc[q]
<1>1. pc \in [Procs -> Locations] /\ caller \in [Procs -> Callers]
      /\ ev \in [Procs -> EventTypes] /\ next \in [Procs -> Locations]
  BY DEF TypeOK
<1>2. \A l : Goto(p, l) => pc'[q] = pc[q]
  BY <1>1 DEF Goto
<1>3. \A c : IndexRun(p, c) => pc'[q] = pc[q] /\ caller'[q] = caller[q]
  BY <1>1, <1>2 DEF IndexRun
<1>4. \A e, l : Emit(p, e, l) => pc'[q] = pc[q] /\ ev'[q] = ev[q] /\ next'[q] = next[q]
  BY <1>1, <1>2 DEF Emit
<1>5. EmitFails(p) => pc'[q] = pc[q] /\ caller'[q] = caller[q]
  BY <1>2, <1>3 DEF EmitFails
<1>6. IndexFails(p) => pc'[q] = pc[q] /\ caller'[q] = caller[q]
  BY <1>2, <1>5 DEF IndexFails
<1>7. IndexDone(p) => pc'[q] = pc[q]
  BY <1>2 DEF IndexDone
<1> QED
  BY <1>2, <1>3, <1>4, <1>5, <1>6, <1>7

(* A step of Open, Backfill or indexRun is a step of one process.           *)
LEMMA IndexingFrame ==
  ASSUME TypeOK, NEW p \in Procs, Indexing(p)
  PROVE  Frame(p)
<1> SUFFICES ASSUME NEW q \in Procs, q # p
             PROVE  /\ pc'[q] = pc[q] /\ caller'[q] = caller[q] /\ found'[q] = found[q]
                    /\ UNCHANGED <<run, status, seq, ev, next>>
  BY DEF Frame
<1>0. found \in [Procs -> [run : Runs \union {NoRun}, status : RunStatuses]]
  BY DEF TypeOK
<1>1. CASE OpenIndex(p)
  BY <1>1, ControlFrame DEF OpenIndex
<1>2. ASSUME NEW r \in Runs, BackfillLookup(p, r)
      PROVE  /\ pc'[q] = pc[q] /\ caller'[q] = caller[q] /\ found'[q] = found[q]
             /\ UNCHANGED <<run, status, seq, ev, next>>
  BY <1>0, <1>2, ControlFrame DEF BackfillLookup
<1>3. CASE BackfillImport(p)
  BY <1>3, ControlFrame DEF BackfillImport
<1>4. CASE BackfillDone(p)
  BY <1>4, ControlFrame DEF BackfillDone, Local
<1>5. CASE UpsertRow(p)
  BY <1>5, ControlFrame DEF UpsertRow
<1>6. CASE EnqueueOutbox(p)
  BY <1>6, ControlFrame DEF EnqueueOutbox
<1>7. CASE MarkPending(p)
  BY <1>7, ControlFrame DEF MarkPending
<1>8. CASE BackfillRead(p)
  BY <1>0, <1>8, ControlFrame DEF BackfillRead
<1> QED
  BY <1>1, <1>2, <1>3, <1>4, <1>5, <1>6, <1>7, <1>8 DEF Indexing

(* So are the three forms of a step between emits.                          *)
LEMMA FormFrame ==
  ASSUME TypeOK, NEW p \in Procs
  PROVE  /\ \A l : Local(p, l) => Frame(p)
         /\ \A e, l : Announce(p, e, l) => Frame(p)
         /\ \A s, e : Conclude(p, s, e) => Frame(p)
<1> SUFFICES ASSUME NEW q \in Procs, q # p
             PROVE  /\ \A l : Local(p, l) =>
                         /\ pc'[q] = pc[q]
                         /\ UNCHANGED <<run, status, seq, ev, next, caller, found>>
                    /\ \A e, l : Announce(p, e, l) =>
                         /\ pc'[q] = pc[q] /\ ev'[q] = ev[q] /\ next'[q] = next[q]
                         /\ UNCHANGED <<run, status, seq, caller, found>>
                    /\ \A s, e : Conclude(p, s, e) =>
                         /\ pc'[q] = pc[q] /\ ev'[q] = ev[q] /\ next'[q] = next[q]
                         /\ status'[q] = status[q]
                         /\ UNCHANGED <<run, seq, caller, found>>
  BY DEF Frame
<1>1. status \in [Procs -> RunStatuses]
  BY DEF TypeOK
<1> QED
  BY <1>1, ControlFrame DEF Local, Announce, Conclude

(* So is every other action.                                                *)
LEMMA ExecutingFrame ==
  ASSUME TypeOK, NEW p \in Procs,
         Executing(p) \/ Cancel(p) \/ Crash(p) \/ List(p)
         \/ (\E r \in Runs : Reserve(p, r) \/ Refuse(p, r))
  PROVE  Frame(p)
<1>1. CASE \/ Preflight(p) \/ Fulfill(p) \/ NextStep(p) \/ Approve(p) \/ PrepareStep(p)
           \/ Succeed(p) \/ CancelRun(p) \/ Fail(p) \/ Interrupt(p) \/ SealAfterError(p)
           \/ \E r \in Runs : Refuse(p, r)
  BY <1>1, FormFrame DEF Preflight, Fulfill, NextStep, Approve, PrepareStep,
     Succeed, CancelRun, Fail, Interrupt, SealAfterError, Refuse
<1>2. ASSUME NEW q \in Procs, q # p,
             \/ WriteRequest(p) \/ WriteRun(p) \/ PublishRun(p) \/ AppendEvent(p)
             \/ PublishEvent(p) \/ ExecuteStep(p) \/ Manual(p) \/ Cancel(p) \/ Crash(p)
             \/ List(p) \/ \E r \in Runs : Reserve(p, r)
      PROVE  /\ pc'[q] = pc[q] /\ run'[q] = run[q] /\ status'[q] = status[q]
             /\ seq'[q] = seq[q] /\ ev'[q] = ev[q] /\ next'[q] = next[q]
             /\ caller'[q] = caller[q] /\ found'[q] = found[q]
  <2>1. /\ run \in [Procs -> Runs \union {NoRun}] /\ status \in [Procs -> RunStatuses]
        /\ seq \in [Procs -> Nat]
    BY DEF TypeOK
  <2>2. CASE WriteRequest(p) \/ WriteRun(p)
    BY <1>2, <2>2, ControlFrame DEF WriteRequest, WriteRun, WriteDocument
  <2>3. CASE PublishRun(p)
    BY <1>2, <2>3, ControlFrame DEF PublishRun
  <2>4. CASE AppendEvent(p)
    BY <1>2, <2>1, <2>4, ControlFrame DEF AppendEvent
  <2>5. CASE PublishEvent(p)
    BY <1>2, <2>5, ControlFrame DEF PublishEvent
  <2>6. CASE ExecuteStep(p)
    BY <1>2, <2>6, ControlFrame DEF ExecuteStep
  <2>7. CASE Manual(p)
    BY <1>2, <2>1, <2>7, ControlFrame DEF Manual, Local
  <2>8. CASE Cancel(p) \/ Crash(p) \/ List(p)
    BY <1>2, <2>8, ControlFrame DEF Cancel, Crash, List
  <2>9. CASE \E r \in Runs : Reserve(p, r)
    BY <1>2, <2>1, <2>9, ControlFrame DEF Reserve
  <2> QED
    BY <1>2, <2>2, <2>3, <2>4, <2>5, <2>6, <2>7, <2>8, <2>9
<1> QED
  BY <1>1, <1>2 DEF Executing, Frame

-----------------------------------------------------------------------------
(* Steps that leave trails, rows and the outbox alone *)

(* IInv without its type part. *)
Agree ==
  /\ \A p \in Readers : ReaderOK(p)
  /\ \A p \in Executors : ExecutorOK(p)
  /\ Owned
  /\ \A p \in Executors : run[p] # NoRun => StatusWritten(p)
  /\ \A p \in Procs : FoundTrue(p)

(* The other processes stay well placed, whatever happens to the store.     *)
LEMMA OthersPlaced ==
  ASSUME IInv, NEW p \in Procs, Frame(p)
  PROVE  /\ \A q \in Readers : q # p => ReaderOK(q)'
         /\ \A q \in Executors : q # p => ExecutorOK(q)'
<1>1. ASSUME NEW q \in Readers, q # p
      PROVE  ReaderOK(q)'
  <2>1. ReaderOK(q) /\ pc'[q] = pc[q] /\ caller'[q] = caller[q]
    BY <1>1 DEF IInv, Frame, Procs
  <2> QED
    BY <2>1 DEF ReaderOK
<1>2. ASSUME NEW q \in Executors, q # p
      PROVE  ExecutorOK(q)'
  <2>1. /\ ExecutorOK(q)
        /\ pc'[q] = pc[q] /\ caller'[q] = caller[q] /\ run'[q] = run[q] /\ status'[q] = status[q]
        /\ seq'[q] = seq[q] /\ ev'[q] = ev[q] /\ next'[q] = next[q]
    BY <1>2 DEF IInv, Frame, Procs
  <2> QED
    BY <2>1 DEF ExecutorOK, ExecutorPlaced, StatusPlaced, Emitting
<1> QED
  BY <1>1, <1>2

(* What the step of p must show about p itself.                             *)
Self(p) ==
  /\ p \in Readers => ReaderOK(p)
  /\ p \in Executors => ExecutorOK(p) /\ (run[p] # NoRun => StatusWritten(p))
  /\ FoundTrue(p)

(* Then the rest of the invariant follows.                                  *)
LEMMA QuietKeeps ==
  ASSUME IInv, NEW p \in Procs, Frame(p), Self(p)',
         UNCHANGED <<dir, journal, row, outbox, run>>
  PROVE  Agree'
<1>1. (\A q \in Readers : ReaderOK(q)') /\ (\A q \in Executors : ExecutorOK(q)')
  BY OthersPlaced DEF Self
<1>2. Owned'
  BY DEF IInv, Owned, Queued, SingleWriter
<1>3. ASSUME NEW q \in Executors, run'[q] # NoRun
      PROVE  StatusWritten(q)'
  <2>1. CASE q = p
    BY <1>3, <2>1 DEF Self
  <2>2. CASE q # p
    <3>1. StatusWritten(q) /\ pc'[q] = pc[q] /\ run'[q] = run[q] /\ status'[q] = status[q]
      BY <1>3, <2>2 DEF IInv, Frame, Procs
    <3> QED
      BY <3>1 DEF StatusWritten, Queued
  <2> QED
    BY <2>1, <2>2
<1>4. ASSUME NEW q \in Procs
      PROVE  FoundTrue(q)'
  <2>1. CASE q = p
    BY <2>1 DEF Self
  <2>2. CASE q # p
    <3>1. FoundTrue(q) /\ pc'[q] = pc[q] /\ found'[q] = found[q]
      BY <1>4, <2>2 DEF IInv, Frame
    <3> QED
      BY <3>1 DEF FoundTrue
  <2> QED
    BY <2>1, <2>2
<1> QED
  BY <1>1, <1>2, <1>3, <1>4 DEF Agree

(* A step of Execute that only moves the process, which stays inside the    *)
(* body, or gives up.                                                       *)
LEMMA MoveKeeps ==
  ASSUME IInv, NEW p \in Executors, NEW l, Goto(p, l), Frame(p),
         \/ pc[p] \in BodyLocs /\ l \in BodyLocs
         \/ pc[p] = "idle" /\ l = "refused"
         \/ pc[p] \notin {"idle", "refused"} /\ l \in {"returned", "crashed"},
         UNCHANGED <<dir, journal, row, outbox, run, status, ev, caller, next, found>>
  PROVE  Agree'
<1>1. p \in Procs /\ p \notin Readers
  BY RunExecutionAssumption DEF Procs
<1>2. /\ pc'[p] = l
      /\ ExecutorOK(p)
      /\ run[p] # NoRun => StatusWritten(p)
  BY <1>1 DEF IInv, TypeOK, Goto
<1>3. ExecutorOK(p)'
  BY <1>2 DEF ExecutorOK, ExecutorPlaced, StatusPlaced, Emitting,
     BodyLocs, OpenLocs, IndexLocs
<1>4. run'[p] # NoRun => StatusWritten(p)'
  BY <1>2 DEF StatusWritten, Queued, BodyLocs
<1>5. FoundTrue(p)'
  BY <1>2 DEF FoundTrue, BodyLocs
<1> QED
  BY <1>1, <1>3, <1>4, <1>5, QuietKeeps DEF Self

(* The same for the form Local.                                             *)
LEMMA LocalKeeps ==
  ASSUME IInv, NEW p \in Executors, NEW l, Local(p, l),
         \/ pc[p] \in BodyLocs /\ l \in BodyLocs
         \/ pc[p] = "idle" /\ l = "refused"
         \/ pc[p] \notin {"idle", "refused"} /\ l \in {"returned", "crashed"}
  PROVE  Agree'
<1>1. p \in Procs /\ TypeOK
  BY DEF Procs, IInv
<1>2. Frame(p)
  BY <1>1, FormFrame
<1> QED
  BY <1>2, MoveKeeps DEF Local, storeVars

(* Emitting an event that ends nothing.                                     *)
LEMMA EmitKeeps ==
  ASSUME IInv, NEW p \in Executors, NEW e \in EventTypes \ TerminalEvents, NEW l \in BodyLocs,
         pc[p] \in BodyLocs \union {"publishRun"}, Emit(p, e, l), Frame(p),
         UNCHANGED <<dir, journal, row, outbox, run, status, seq, caller, found>>
  PROVE  Agree'
<1>1. p \in Procs /\ p \notin Readers
  BY RunExecutionAssumption DEF Procs
<1>2. /\ pc'[p] = "append" /\ ev'[p] = e /\ next'[p] = l
      /\ ExecutorOK(p)
      /\ run[p] # NoRun => StatusWritten(p)
  BY <1>1 DEF IInv, TypeOK, Goto, Emit
<1>3. status[p] = "running" /\ "running" \notin Outcomes
  BY <1>2 DEF ExecutorOK, StatusPlaced, OpenLocs, Outcomes
<1>4. ExecutorOK(p)'
  BY <1>2, <1>3 DEF ExecutorOK, ExecutorPlaced, StatusPlaced, Emitting,
     BodyLocs, OpenLocs, IndexLocs
<1>5. run'[p] # NoRun => StatusWritten(p)'
  BY <1>2, <1>3 DEF StatusWritten, Queued
<1>6. FoundTrue(p)'
  BY <1>2 DEF FoundTrue
<1> QED
  BY <1>1, <1>4, <1>5, <1>6, QuietKeeps DEF Self

(* The same for the form Announce.                                          *)
LEMMA AnnounceKeeps ==
  ASSUME IInv, NEW p \in Executors, NEW e \in EventTypes \ TerminalEvents, NEW l \in BodyLocs,
         pc[p] \in BodyLocs, Announce(p, e, l)
  PROVE  Agree'
<1>1. p \in Procs /\ TypeOK
  BY DEF Procs, IInv
<1>2. Frame(p)
  BY <1>1, FormFrame
<1> QED
  BY <1>2, EmitKeeps DEF Announce, storeVars

(* The only step that takes the status to an outcome.                       *)
LEMMA ConcludeKeeps ==
  ASSUME IInv, NEW p \in Executors, NEW e \in TerminalEvents,
         pc[p] \notin {"idle", "refused"}, status[p] = "running", Conclude(p, StatusOf[e], e)
  PROVE  Agree'
<1>1. p \in Procs /\ p \notin Readers /\ TypeOK
  BY RunExecutionAssumption DEF Procs, IInv
<1>2. Frame(p)
  BY <1>1, FormFrame
<1>3. /\ pc'[p] = "append" /\ ev'[p] = e /\ next'[p] = "returned" /\ status'[p] = StatusOf[e]
      /\ ExecutorOK(p)
      /\ run[p] # NoRun => StatusWritten(p)
      /\ UNCHANGED <<dir, journal, row, outbox, run, seq, caller, found>>
  BY <1>1 DEF IInv, TypeOK, Goto, Emit, Conclude, storeVars
<1>4. "running" \notin Outcomes /\ StatusOf[e] \in Outcomes /\ "pending_manual" \notin Outcomes
  BY StatusOfType DEF Outcomes
<1>5. ExecutorOK(p)'
  BY <1>3, <1>4 DEF ExecutorOK, ExecutorPlaced, StatusPlaced, Emitting,
     OpenLocs, BodyLocs, IndexLocs
<1>6. run'[p] # NoRun => StatusWritten(p)'
  BY <1>3, <1>4 DEF StatusWritten, Queued
<1>7. FoundTrue(p)'
  BY <1>3 DEF FoundTrue
<1> QED
  BY <1>1, <1>2, <1>3, <1>5, <1>6, <1>7, QuietKeeps DEF Self

(* The steps of the body of Execute.                                        *)
LEMMA BodyKeeps ==
  ASSUME IInv, NEW p \in Executors,
         \/ Preflight(p) \/ Fulfill(p) \/ NextStep(p) \/ Approve(p) \/ PrepareStep(p)
         \/ Succeed(p) \/ CancelRun(p) \/ Fail(p) \/ Interrupt(p) \/ SealAfterError(p)
  PROVE  Agree'
<1>1. ExecutorOK(p)
  BY DEF IInv
<1>2. CASE Preflight(p) \/ Fulfill(p) \/ NextStep(p) \/ Approve(p) \/ PrepareStep(p)
  <2>1. /\ pc[p] \in BodyLocs
        /\ \/ \E l \in BodyLocs : Local(p, l)
           \/ \E e \in EventTypes \ TerminalEvents, l \in BodyLocs : Announce(p, e, l)
    BY <1>2 DEF Preflight, Fulfill, NextStep, Approve, PrepareStep, BodyLocs, EventTypes, TerminalEvents
  <2> QED
    BY <2>1, LocalKeeps, AnnounceKeeps
<1>3. CASE Succeed(p) \/ CancelRun(p) \/ Fail(p) \/ Interrupt(p)
  <2>1. /\ pc[p] \in BodyLocs /\ pc[p] \notin {"idle", "refused"}
        /\ \/ \E l \in BodyLocs : Local(p, l)
           \/ \E e \in TerminalEvents : Conclude(p, StatusOf[e], e)
    BY <1>3 DEF Succeed, CancelRun, Fail, Interrupt, BodyLocs, StatusOf, TerminalEvents
  <2>2. status[p] = "running"
    BY <1>1, <2>1 DEF ExecutorOK, StatusPlaced, OpenLocs
  <2> QED
    BY <2>1, <2>2, LocalKeeps, ConcludeKeeps
<1>4. CASE SealAfterError(p)
  <2>1. pc[p] = "sealing"
    BY <1>4 DEF SealAfterError
  <2>2. CASE Local(p, "returned")
    BY <2>1, <2>2, LocalKeeps
  <2>3. CASE ~isTerminalStatus(status[p]) /\ Conclude(p, "failed", "run_failed")
    <3>1. status[p] = "running"
      BY <2>3 DEF IInv, TypeOK, Procs, isTerminalStatus, RunStatuses
    <3>2. "run_failed" \in TerminalEvents /\ StatusOf["run_failed"] = "failed"
      BY DEF TerminalEvents, StatusOf
    <3> QED
      BY <2>1, <2>3, <3>1, <3>2, ConcludeKeeps
  <2> QED
    BY <1>4, <2>2, <2>3 DEF SealAfterError
<1> QED
  BY <1>2, <1>3, <1>4

-----------------------------------------------------------------------------
(* Control of indexRun and of emit *)

(* A rejected event leads to the retry of indexRun or to sealAfterError.    *)
LEMMA EmitFailsOK ==
  ASSUME IInv, NEW p \in Executors, Emitting(p), EmitFails(p),
         UNCHANGED <<run, status, seq, ev, next>>
  PROVE  ExecutorOK(p)' /\ pc'[p] \in {"open", "sealing"}
<1>1. ExecutorOK(p) /\ p \in Procs
  BY DEF IInv, Procs
<1>2. \/ ev[p] \in TerminalEvents /\ pc'[p] = "open" /\ caller'[p] = "reseal"
      \/ pc'[p] = "sealing" /\ caller'[p] = caller[p]
  BY <1>1 DEF EmitFails, IInv, TypeOK, Goto, IndexRun, TerminalEvents
<1>3. status[p] # "pending_manual" /\ (ev[p] \in TerminalEvents => status[p] \in Outcomes)
  BY <1>1, StatusOfType DEF Emitting, ExecutorOK, StatusPlaced, IndexLocs, Outcomes
<1> QED
  BY <1>1, <1>2, <1>3 DEF ExecutorOK, ExecutorPlaced, StatusPlaced, Emitting,
     OpenLocs, BodyLocs, IndexLocs

(* A failing indexRun leads there too, or ends Execute.                     *)
LEMMA IndexFailsOK ==
  ASSUME IInv, NEW p \in Executors, pc[p] \in IndexLocs, IndexFails(p),
         UNCHANGED <<run, status, seq, ev, next>>
  PROVE  ExecutorOK(p)' /\ pc'[p] \in {"open", "sealing", "returned"}
<1>1. ExecutorOK(p) /\ p \in Procs
  BY DEF IInv, Procs
<1>2. CASE caller[p] = "emit" /\ EmitFails(p)
  BY <1>2, EmitFailsOK DEF Emitting
<1>3. CASE pc'[p] = "returned" /\ caller'[p] = caller[p]
  BY <1>1, <1>3 DEF ExecutorOK, ExecutorPlaced, StatusPlaced, Emitting,
     OpenLocs, BodyLocs, IndexLocs
<1> QED
  BY <1>1, <1>2, <1>3 DEF IndexFails, ExecutorOK, ExecutorPlaced, IInv, TypeOK, Goto

(* A failing Open ends a listing.                                           *)
LEMMA ReaderFailsOK ==
  ASSUME IInv, NEW p \in Readers, pc[p] \in IndexLocs, IndexFails(p)
  PROVE  ReaderOK(p)' /\ pc'[p] = "listFailed"
  BY DEF IInv, TypeOK, Procs, ReaderOK, IndexFails, Goto, IndexLocs

(* A successful indexRun returns to its caller.                             *)
LEMMA IndexDoneOK ==
  ASSUME IInv, NEW p \in Executors, pc[p] \in IndexLocs, IndexDone(p),
         UNCHANGED <<run, status, seq, ev, next, caller>>
  PROVE  ExecutorOK(p)' /\ pc'[p] \in {"publishRun", "publish", "returned"}
<1>1. ExecutorOK(p) /\ p \in Procs
  BY DEF IInv, Procs
<1>2. pc'[p] = CASE caller[p] = "initialize" -> "publishRun"
                 [] caller[p] = "emit" -> "publish"
                 [] OTHER -> "returned"
  BY <1>1 DEF IInv, TypeOK, IndexDone, Goto
<1>3. CASE caller[p] = "initialize"
  BY <1>1, <1>2, <1>3 DEF ExecutorOK, ExecutorPlaced, StatusPlaced, Emitting,
     OpenLocs, BodyLocs, IndexLocs
<1>4. CASE caller[p] = "emit"
  BY <1>1, <1>2, <1>4 DEF ExecutorOK, ExecutorPlaced, StatusPlaced, Emitting,
     OpenLocs, BodyLocs, IndexLocs, Outcomes
<1>5. CASE caller[p] \notin {"initialize", "emit"}
  <2>1. pc'[p] = "returned"
    BY <1>2, <1>5
  <2> QED
    BY <1>1, <2>1 DEF ExecutorOK, ExecutorPlaced, StatusPlaced, Emitting,
     OpenLocs, BodyLocs, IndexLocs
<1> QED
  BY <1>3, <1>4, <1>5

(* Starting indexRun.                                                       *)
LEMMA IndexRunOK ==
  ASSUME IInv, NEW p \in Executors, NEW c \in {"initialize", "emit", "manual"}, IndexRun(p, c),
         pc[p] \notin {"idle", "refused"},
         UNCHANGED <<run, ev, next>>,
         c = "initialize" => status'[p] = "running",
         c = "manual" => status'[p] = "pending_manual" /\ status[p] = "running",
         c = "emit" => pc[p] = "append" /\ ev[p] \in TerminalEvents /\ status' = status /\ seq'[p] > 0,
         c # "manual" => status' = status
  PROVE  ExecutorOK(p)' /\ pc'[p] = "open"
<1>1. ExecutorOK(p) /\ p \in Procs
  BY DEF IInv, Procs
<1>2. pc'[p] = "open" /\ caller'[p] = c
  BY <1>1 DEF IInv, TypeOK, IndexRun, Goto
<1>3. ExecutorPlaced(p)'
  BY <1>1, <1>2 DEF ExecutorOK, ExecutorPlaced, Emitting, IndexLocs
<1>4. StatusPlaced(p)'
  <2>1. "running" \notin Outcomes /\ "pending_manual" \notin Outcomes
        /\ \A e \in TerminalEvents : StatusOf[e] \in Outcomes
    BY StatusOfType DEF Outcomes
  <2> QED
    BY <1>1, <1>2, <2>1 DEF ExecutorOK, StatusPlaced, OpenLocs, BodyLocs, IndexLocs
<1> QED
  BY <1>2, <1>3, <1>4 DEF ExecutorOK

-----------------------------------------------------------------------------
(* Steps that write only runs.db's bookkeeping, or nothing *)

(* What the process itself must show when trails, rows and the outbox stay. *)
LEMMA ExecutorKeeps ==
  ASSUME IInv, NEW p \in Executors, Frame(p), ExecutorOK(p)',
         pc'[p] \notin {"append", "read", "import", "enqueue", "mark"},
         UNCHANGED <<dir, journal, row, outbox, run, status>>
  PROVE  Agree'
<1>1. p \in Procs /\ p \notin Readers /\ (run[p] # NoRun => StatusWritten(p))
  BY RunExecutionAssumption DEF Procs, IInv
<1>2. run'[p] # NoRun => StatusWritten(p)'
  BY <1>1 DEF StatusWritten, Queued
<1>3. FoundTrue(p)'
  BY DEF FoundTrue
<1> QED
  BY <1>1, <1>2, <1>3, QuietKeeps DEF Self

(* The same for a reader.                                                   *)
LEMMA ReaderKeeps ==
  ASSUME IInv, NEW p \in Readers, Frame(p), ReaderOK(p)', pc'[p] \notin {"read", "import"},
         UNCHANGED <<dir, journal, row, outbox, run>>
  PROVE  Agree'
<1>1. p \in Procs /\ p \notin Executors
  BY RunExecutionAssumption DEF Procs
<1>2. FoundTrue(p)'
  BY DEF FoundTrue
<1> QED
  BY <1>1, <1>2, QuietKeeps DEF Self

(* Opening the index only lists directories.                                *)
LEMMA OpenIndexKeeps ==
  ASSUME IInv, NEW p \in Procs, OpenIndex(p), Frame(p)
  PROVE  Agree'
<1>1. /\ pc[p] = "open" /\ TypeOK
      /\ UNCHANGED <<dir, journal, row, outbox, run, status, seq, ev, next>>
  BY DEF OpenIndex, storeVars, IInv
<1>2. CASE IndexFails(p)
  <2>1. CASE p \in Executors
    BY <1>1, <1>2, <2>1, IndexFailsOK, ExecutorKeeps DEF IndexLocs
  <2>2. CASE p \in Readers
    BY <1>1, <1>2, <2>2, ReaderFailsOK, ReaderKeeps DEF IndexLocs
  <2> QED
    BY <2>1, <2>2 DEF Procs
<1>3. CASE pc'[p] = "backfill" /\ caller' = caller
  <2>1. CASE p \in Executors
    <3>1. ExecutorOK(p)'
      BY <1>1, <1>3, <2>1 DEF IInv, ExecutorOK, ExecutorPlaced, StatusPlaced, Emitting,
     OpenLocs, BodyLocs, IndexLocs
    <3> QED
      BY <1>1, <1>3, <2>1, <3>1, ExecutorKeeps
  <2>2. CASE p \in Readers
    <3>1. ReaderOK(p)'
      BY <1>1, <1>3, <2>2 DEF IInv, ReaderOK, IndexLocs
    <3> QED
      BY <1>1, <1>3, <2>2, <3>1, ReaderKeeps
  <2> QED
    BY <2>1, <2>2 DEF Procs
<1> QED
  BY <1>1, <1>2, <1>3 DEF OpenIndex, Goto, TypeOK

(* A failing statement changes nothing but the place.                       *)
LEMMA IndexFailsKeeps ==
  ASSUME IInv, NEW p \in Procs, pc[p] \in IndexLocs, IndexFails(p), Frame(p),
         UNCHANGED <<dir, journal, row, outbox, run, status, seq, ev, next>>
  PROVE  Agree'
<1>1. CASE p \in Executors
  BY <1>1, IndexFailsOK, ExecutorKeeps
<1>2. CASE p \in Readers
  BY <1>2, ReaderFailsOK, ReaderKeeps
<1> QED
  BY <1>1, <1>2 DEF Procs

(* What the process itself must show when it goes on inside Backfill.       *)
LEMMA BackfillKeeps ==
  ASSUME IInv, NEW p \in Procs, Frame(p), pc[p] \in {"backfill", "read"},
         pc'[p] \in {"backfill", "read", "import"}, UNCHANGED caller, FoundTrue(p)',
         UNCHANGED <<dir, journal, row, outbox, run, status, seq, ev, next>>
  PROVE  Agree'
<1>1. p \in Executors => ExecutorOK(p)'
  BY DEF IInv, ExecutorOK, ExecutorPlaced, StatusPlaced, Emitting, OpenLocs, BodyLocs, IndexLocs
<1>2. p \in Readers => ReaderOK(p)'
  BY DEF IInv, ReaderOK, IndexLocs
<1>3. p \in Executors /\ run'[p] # NoRun => StatusWritten(p)'
  BY DEF IInv, StatusWritten, Queued
<1> QED
  BY <1>1, <1>2, <1>3, QuietKeeps DEF Self

(* A directory without a row is remembered.                                 *)
LEMMA BackfillLookupKeeps ==
  ASSUME IInv, NEW p \in Procs, NEW r \in Runs, BackfillLookup(p, r), Frame(p)
  PROVE  Agree'
<1>1. /\ pc[p] = "backfill" /\ TypeOK
      /\ UNCHANGED <<dir, journal, row, outbox, run, status, seq, ev, next>>
  BY DEF BackfillLookup, storeVars, IInv
<1>2. CASE UNCHANGED <<pc, caller, found>>
  BY <1>1, <1>2, BackfillKeeps DEF FoundTrue
<1>3. CASE found' = [found EXCEPT ![p].run = r] /\ Goto(p, "read") /\ UNCHANGED caller
  <2>1. pc'[p] = "read" /\ found'[p].run = r
    BY <1>1, <1>3 DEF TypeOK, Goto
  <2> QED
    BY <1>1, <1>3, <2>1, BackfillKeeps DEF FoundTrue
<1>4. CASE IndexFails(p)
  BY <1>1, <1>4, IndexFailsKeeps DEF IndexLocs
<1> QED
  BY <1>2, <1>3, <1>4 DEF BackfillLookup

(* The record Backfill builds is what the trail says now.                   *)
LEMMA BackfillReadKeeps ==
  ASSUME IInv, NEW p \in Procs, BackfillRead(p), Frame(p)
  PROVE  Agree'
<1>1. /\ pc[p] = "read" /\ TypeOK /\ found[p].run \in Runs
      /\ UNCHANGED <<dir, journal, row, outbox, run, status, seq, ev, next>>
  BY DEF BackfillRead, storeVars, IInv, FoundTrue
<1>2. CASE /\ dir[found[p].run] = "complete" /\ Goto(p, "import") /\ UNCHANGED caller
           /\ found' = [found EXCEPT ![p].status = StatusFromEvents(journal[found[p].run])]
  <2>1. /\ pc'[p] = "import" /\ found'[p].run = found[p].run
        /\ found'[p].status = StatusFromEvents(journal[found[p].run])
    BY <1>1, <1>2 DEF TypeOK, Goto
  <2>2. FoundTrue(p)'
    BY <1>1, <1>2, <2>1, OpenReadsRunning DEF FoundTrue
  <2> QED
    BY <1>1, <1>2, <2>1, <2>2, BackfillKeeps
<1>3. CASE IndexFails(p)
  BY <1>1, <1>3, IndexFailsKeeps DEF IndexLocs
<1> QED
  BY <1>2, <1>3 DEF BackfillRead

(* After the last directory the caller's own statement follows.             *)
LEMMA BackfillDoneKeeps ==
  ASSUME IInv, NEW p \in Procs, BackfillDone(p), Frame(p)
  PROVE  Agree'
<1>1. /\ pc[p] = "backfill" /\ TypeOK
      /\ UNCHANGED <<dir, journal, row, outbox, run, status, seq, ev, next, caller>>
  BY DEF BackfillDone, Local, storeVars, IInv
<1>2. pc'[p] = IF caller[p] = "list" THEN "listed" ELSE "upsert"
  BY <1>1 DEF BackfillDone, Local, Goto, TypeOK
<1>3. CASE p \in Executors
  <2>1. ExecutorOK(p)' /\ pc'[p] = "upsert"
    BY <1>1, <1>2, <1>3 DEF IInv, ExecutorOK, ExecutorPlaced, StatusPlaced, Emitting,
     OpenLocs, BodyLocs, IndexLocs
  <2> QED
    BY <1>1, <1>3, <2>1, ExecutorKeeps
<1>4. CASE p \in Readers
  <2>1. ReaderOK(p)' /\ pc'[p] = "listed"
    BY <1>1, <1>2, <1>4 DEF IInv, ReaderOK, IndexLocs
  <2> QED
    BY <1>1, <1>4, <2>1, ReaderKeeps
<1> QED
  BY <1>3, <1>4 DEF Procs

(* Only executors get past backfill.                                        *)
LEMMA PastBackfill ==
  ASSUME IInv, NEW p \in Procs, pc[p] \in {"upsert", "enqueue", "mark"}
  PROVE  p \in Executors /\ run[p] \in Runs
  BY DEF IInv, ReaderOK, ExecutorOK, ExecutorPlaced, Procs, TypeOK

(* sync_status is not spoken of by the invariant.                           *)
LEMMA MarkPendingKeeps ==
  ASSUME IInv, NEW p \in Procs, MarkPending(p), Frame(p)
  PROVE  Agree'
<1>1. /\ pc[p] = "mark" /\ p \in Executors
      /\ UNCHANGED <<dir, journal, row, outbox, run, status, seq, ev, next>>
  BY PastBackfill DEF MarkPending
<1>2. CASE IndexDone(p) /\ UNCHANGED caller
  BY <1>1, <1>2, IndexDoneOK, ExecutorKeeps DEF IndexLocs
<1>3. CASE IndexFails(p)
  BY <1>1, <1>3, IndexFailsOK, ExecutorKeeps DEF IndexLocs
<1> QED
  BY <1>2, <1>3 DEF MarkPending

-----------------------------------------------------------------------------
(* Steps that write rows and the outbox *)

(* A row takes a status that is true of its Run: "running", or the one its  *)
(* process holds.                                                           *)
RowTrue(r, s) ==
  \/ s = "running"
  \/ \A q \in Executors : run[q] = r => status[q] = s

(* Writing a true status keeps the invariant.                               *)
LEMMA RowKeeps ==
  ASSUME IInv, NEW p \in Procs, Frame(p),
         p \in Executors => ExecutorOK(p)', p \in Readers => ReaderOK(p)',
         pc'[p] \notin {"append", "read", "import", "mark"},
         NEW r \in Runs, NEW s \in RunStatuses, dir[r] # "absent", RowTrue(r, s),
         row' = [row EXCEPT ![r] = s],
         p \in Executors /\ pc'[p] = "enqueue" => run[p] = r,
         UNCHANGED <<dir, journal, outbox, run, status>>
  PROVE  Agree'
<1>0. row \in [Runs -> RunStatuses \union {"absent"}] /\ s # "absent"
  BY DEF IInv, TypeOK, StoreTypeOK, RunStatuses, Outcomes
<1>1. (\A q \in Readers : ReaderOK(q)') /\ (\A q \in Executors : ExecutorOK(q)')
  BY OthersPlaced
<1>2. Owned'
  BY <1>0 DEF IInv, Owned, Queued, SingleWriter
<1>3. ASSUME NEW q \in Executors, run'[q] # NoRun
      PROVE  StatusWritten(q)'
  <2>1. /\ StatusWritten(q) /\ run[q] \in Runs
        /\ pc'[q] = pc[q] \/ (q = p /\ pc'[q] \notin {"append", "read", "import", "mark"})
    BY <1>3 DEF IInv, Frame, Procs, TypeOK
  <2>2. row'[run[q]] = row[run[q]] \/ (run[q] = r /\ row'[run[q]] = s)
    BY <1>0, <2>1
  <2>3. "running" \notin Outcomes \union {"pending_manual"}
    BY DEF Outcomes
  <2>4. row'[run[q]] \in Outcomes \union {"pending_manual"} => row'[run[q]] = status[q]
    BY <2>1, <2>2, <2>3 DEF StatusWritten, RowTrue
  <2>5. pc'[q] \in {"enqueue", "mark"} => row'[run[q]] # "absent"
    BY <1>0, <2>1, <2>2 DEF StatusWritten
  <2> QED
    BY <2>1, <2>4, <2>5 DEF StatusWritten, Queued
<1>4. ASSUME NEW q \in Procs
      PROVE  FoundTrue(q)'
  <2>1. CASE q = p
    BY <2>1 DEF FoundTrue
  <2>2. CASE q # p
    BY <1>4, <2>2 DEF IInv, Frame, FoundTrue
  <2> QED
    BY <2>1, <2>2
<1> QED
  BY <1>1, <1>2, <1>3, <1>4 DEF Agree

(* The record is out of date at most in saying "running".                   *)
LEMMA BackfillImportKeeps ==
  ASSUME IInv, NEW p \in Procs, BackfillImport(p), Frame(p)
  PROVE  Agree'
<1>1. /\ pc[p] = "import" /\ TypeOK /\ FoundTrue(p)
      /\ UNCHANGED <<dir, journal, outbox, run, status, seq, ev, next>>
  BY DEF BackfillImport, IInv
<1>2. CASE IndexFails(p) /\ UNCHANGED <<row, sync>>
  BY <1>1, <1>2, IndexFailsKeeps DEF IndexLocs
<1>3. CASE Upsert(found[p].run, found[p].status) /\ Goto(p, "backfill") /\ UNCHANGED caller
  <2> DEFINE r == found[p].run
             s == found[p].status
  <2>1. pc'[p] = "backfill" /\ r \in Runs /\ dir[r] # "absent" /\ s \in RunStatuses
    BY <1>1, <1>3 DEF FoundTrue, TypeOK, Goto
  <2>2. RowTrue(r, s)
    <3>1. CASE s = "running"
      BY <3>1 DEF RowTrue
    <3>2. ASSUME NEW q \in Executors, run[q] = r, s # "running"
          PROVE  status[q] = s
      <4>1. StatusWritten(q)
        BY <2>1, <3>2, RunExecutionAssumption DEF IInv
      <4> QED
        BY <1>1, <3>2, <4>1 DEF FoundTrue, StatusWritten
    <3> QED
      BY <3>1, <3>2 DEF RowTrue
  <2>3. p \in Executors => ExecutorOK(p)'
    BY <1>1, <1>3, <2>1 DEF IInv, ExecutorOK, ExecutorPlaced, StatusPlaced, Emitting,
     OpenLocs, BodyLocs, IndexLocs
  <2>4. p \in Readers => ReaderOK(p)'
    BY <1>1, <1>3, <2>1 DEF IInv, ReaderOK, IndexLocs
  <2>5. row' = [row EXCEPT ![r] = s]
    BY <1>3 DEF Upsert
  <2> HIDE DEF r, s
  <2> QED
    BY <1>1, <2>1, <2>2, <2>3, <2>4, <2>5, RowKeeps
<1> QED
  BY <1>2, <1>3 DEF BackfillImport

(* indexRun writes the status the process holds.                            *)
LEMMA IndexStatusHeld ==
  ASSUME IInv, NEW p \in Executors, pc[p] \in IndexLocs
  PROVE  IndexStatus(p) = status[p] /\ status[p] \in RunStatuses
  BY DEF IInv, IndexStatus, ExecutorOK, ExecutorPlaced, StatusPlaced, TypeOK, Procs, Outcomes

(* indexRun's own row.                                                      *)
LEMMA UpsertRowKeeps ==
  ASSUME IInv, NEW p \in Procs, UpsertRow(p), Frame(p)
  PROVE  Agree'
<1>1. /\ pc[p] = "upsert" /\ p \in Executors /\ run[p] \in Runs /\ run[p] # NoRun
      /\ UNCHANGED <<dir, journal, outbox, run, status, seq, ev, next>>
  BY PastBackfill, RunExecutionAssumption DEF UpsertRow
<1>2. CASE IndexFails(p) /\ UNCHANGED <<row, sync>>
  BY <1>1, <1>2, IndexFailsKeeps DEF IndexLocs
<1>3. CASE /\ Upsert(run[p], IndexStatus(p)) /\ UNCHANGED caller
           /\ IF caller[p] \in {"emit", "reseal"} THEN Goto(p, "enqueue") ELSE IndexDone(p)
  <2>1. RowTrue(run[p], status[p]) /\ dir[run[p]] # "absent"
    BY <1>1 DEF RowTrue, IInv, Owned, SingleWriter
  <2>2. row' = [row EXCEPT ![run[p]] = status[p]] /\ status[p] \in RunStatuses
    BY <1>1, <1>3, IndexStatusHeld DEF Upsert, IndexLocs
  <2>3. ExecutorOK(p)' /\ pc'[p] \in {"enqueue", "publishRun", "publish", "returned"}
    <3>1. CASE IndexDone(p)
      BY <1>1, <1>3, <3>1, IndexDoneOK DEF IndexLocs
    <3>2. CASE caller[p] \in {"emit", "reseal"} /\ Goto(p, "enqueue")
      <4>1. pc'[p] = "enqueue"
        BY <3>2 DEF IInv, TypeOK, Goto, Procs
      <4> QED
        BY <1>1, <1>3, <3>2, <4>1 DEF IInv, ExecutorOK, ExecutorPlaced, StatusPlaced, Emitting,
     OpenLocs, BodyLocs, IndexLocs
    <3> QED
      BY <1>3, <3>1, <3>2
  <2> QED
    BY <1>1, <2>1, <2>2, <2>3, RowKeeps, RunExecutionAssumption DEF Procs
<1> QED
  BY <1>2, <1>3 DEF UpsertRow

(* Only a Run that ended is enqueued.                                       *)
LEMMA EnqueueOutboxKeeps ==
  ASSUME IInv, NEW p \in Procs, EnqueueOutbox(p), Frame(p)
  PROVE  Agree'
<1>1. /\ pc[p] = "enqueue" /\ p \in Executors /\ p \notin Readers
      /\ run[p] \in Runs /\ run[p] # NoRun
      /\ UNCHANGED <<dir, journal, row, run, status, seq, ev, next>>
  BY PastBackfill, RunExecutionAssumption DEF EnqueueOutbox
<1>2. CASE IndexFails(p) /\ UNCHANGED <<outbox, nextRow>>
  BY <1>1, <1>2, IndexFailsKeeps DEF IndexLocs
<1>3. CASE InsertOutbox(run[p]) /\ Goto(p, "mark") /\ UNCHANGED caller
  <2>1. \A r \in Runs : Queued(r)' => Queued(r) \/ r = run[p]
    BY <1>3 DEF InsertOutbox, Queued
  <2>2. pc'[p] = "mark"
    BY <1>3 DEF IInv, TypeOK, Goto, Procs
  <2>3. StatusWritten(p) /\ status[p] \in Outcomes /\ row[run[p]] # "absent"
    BY <1>1 DEF IInv, ExecutorOK, ExecutorPlaced, StatusPlaced, IndexLocs, StatusWritten
  <2>4. ExecutorOK(p)'
    BY <1>1, <1>3, <2>2 DEF IInv, ExecutorOK, ExecutorPlaced, StatusPlaced, Emitting,
     OpenLocs, BodyLocs, IndexLocs
  <2>5. (\A q \in Readers : ReaderOK(q)') /\ (\A q \in Executors : ExecutorOK(q)')
    BY <1>1, <2>4, OthersPlaced
  <2>6. Owned'
    BY <1>1, <2>1, <2>3 DEF IInv, Owned, SingleWriter
  <2>7. ASSUME NEW q \in Executors, run'[q] # NoRun
        PROVE  StatusWritten(q)'
    <3>1. CASE q = p
      BY <1>1, <2>2, <2>3, <3>1 DEF StatusWritten
    <3>2. CASE q # p
      <4>1. StatusWritten(q) /\ run[q] \in Runs /\ run[q] # run[p] /\ pc'[q] = pc[q]
        BY <1>1, <2>7, <3>2 DEF IInv, Owned, SingleWriter, TypeOK, Frame, Procs
      <4> QED
        BY <1>1, <2>1, <4>1 DEF StatusWritten
    <3> QED
      BY <3>1, <3>2
  <2>8. ASSUME NEW q \in Procs
        PROVE  FoundTrue(q)'
    BY <1>1, <2>2, <2>8 DEF IInv, Frame, FoundTrue
  <2> QED
    BY <2>5, <2>6, <2>7, <2>8 DEF Agree
<1> QED
  BY <1>2, <1>3 DEF EnqueueOutbox

-----------------------------------------------------------------------------
(* Steps that write directories and trails *)

(* Mkdir gives a new directory to one process.                              *)
LEMMA ReserveKeeps ==
  ASSUME IInv, NEW p \in Executors, NEW r \in Runs, Reserve(p, r), Frame(p)
  PROVE  Agree'
<1>1. /\ p \in Procs /\ p \notin Readers /\ TypeOK /\ r # NoRun
      /\ pc[p] = "idle" /\ dir[r] = "absent"
      /\ UNCHANGED <<journal, row, outbox, status, seq, ev, next, caller, found>>
  BY RunExecutionAssumption DEF IInv, Procs, Reserve
<1>2. /\ pc'[p] = "request" /\ run'[p] = r
      /\ dir'[r] = "reserved" /\ \A o \in Runs : o # r => dir'[o] = dir[o]
  BY <1>1 DEF Reserve, TypeOK, StoreTypeOK, Goto
<1>3. run[p] = NoRun /\ \A q \in Executors : run[q] # r
  BY <1>1 DEF IInv, Owned, ExecutorOK, ExecutorPlaced
<1>4. \A q \in Executors : q # p => run'[q] = run[q]
  BY DEF Frame, Procs
<1>5. ExecutorOK(p)'
  BY <1>1, <1>2 DEF IInv, ExecutorOK, ExecutorPlaced, StatusPlaced, Emitting,
     OpenLocs, BodyLocs, IndexLocs
<1>6. (\A q \in Readers : ReaderOK(q)') /\ (\A q \in Executors : ExecutorOK(q)')
  BY <1>1, <1>5, OthersPlaced
<1>7. Owned'
  <2>1. \A q \in Executors : run[q] \in Runs \union {NoRun}
    BY <1>1 DEF TypeOK, Procs
  <2>2. \A q \in Executors : run'[q] # NoRun => dir'[run'[q]] # "absent"
    BY <1>2, <1>4, <2>1 DEF IInv, Owned
  <2>3. \A o \in Runs : dir'[o] # "absent" => \E q \in Executors : run'[q] = o
    <3> SUFFICES ASSUME NEW o \in Runs, dir'[o] # "absent"
                 PROVE  \E q \in Executors : run'[q] = o
      OBVIOUS
    <3>1. CASE o = r
      BY <1>2, <3>1
    <3>2. CASE o # r
      <4>1. PICK q \in Executors : run[q] = o
        BY <1>2, <3>2 DEF IInv, Owned
      <4>2. q # p
        BY <1>3, <4>1, RunExecutionAssumption
      <4> QED
        BY <1>4, <4>1, <4>2
    <3> QED
      BY <3>1, <3>2
  <2>4. \A o \in Runs : dir'[o] = "absent" => journal'[o] = << >> /\ row'[o] = "absent"
    BY <1>1, <1>2 DEF IInv, Owned
  <2>5. \A o \in Runs : Queued(o)' => row'[o] # "absent"
    BY <1>1 DEF IInv, Owned, Queued
  <2>6. SingleWriter'
    BY <1>2, <1>3, <1>4 DEF IInv, Owned, SingleWriter
  <2> QED
    BY <2>2, <2>3, <2>4, <2>5, <2>6 DEF Owned
<1>8. ASSUME NEW q \in Executors, run'[q] # NoRun
      PROVE  StatusWritten(q)'
  <2>1. CASE q = p
    <3>1. journal[r] = << >> /\ row[r] = "absent" /\ ~Queued(r)
      BY <1>1 DEF IInv, Owned
    <3>2. TerminalLines(journal[r]) = {}
      BY <3>1 DEF TerminalLines
    <3>3. "absent" \notin Outcomes
      BY DEF Outcomes
    <3> QED
      BY <1>1, <1>2, <2>1, <3>1, <3>2, <3>3 DEF StatusWritten, Queued
  <2>2. CASE q # p
    <3>1. StatusWritten(q) /\ pc'[q] = pc[q] /\ run'[q] = run[q]
      BY <1>8, <2>2 DEF IInv, Frame, Procs
    <3> QED
      BY <1>1, <3>1 DEF StatusWritten, Queued
  <2> QED
    BY <2>1, <2>2
<1>9. ASSUME NEW q \in Procs
      PROVE  FoundTrue(q)'
  BY <1>1, <1>2, <1>9 DEF IInv, Frame, FoundTrue
<1> QED
  BY <1>6, <1>7, <1>8, <1>9 DEF Agree

(* request.json and run.json change no trail.                               *)
LEMMA WriteKeeps ==
  ASSUME IInv, NEW p \in Executors, WriteRequest(p) \/ WriteRun(p), Frame(p)
  PROVE  Agree'
<1>1. /\ p \in Procs /\ p \notin Readers /\ TypeOK /\ ExecutorOK(p)
      /\ pc[p] \in {"request", "record"} /\ run[p] # NoRun /\ status[p] = "running"
      /\ UNCHANGED <<journal, row, outbox, run, status, seq, ev, next, found>>
  BY RunExecutionAssumption DEF IInv, Procs, WriteRequest, WriteRun, ExecutorOK, ExecutorPlaced,
     StatusPlaced, OpenLocs
<1>2. \E d \in {"requested", "complete", dir[run[p]]} : dir' = [dir EXCEPT ![run[p]] = d]
  BY <1>1 DEF WriteRequest, WriteRun, WriteDocument, TypeOK, StoreTypeOK
<1>3. \A o \in Runs : dir'[o] = "absent" <=> dir[o] = "absent"
  BY <1>1, <1>2 DEF IInv, Owned, TypeOK, StoreTypeOK
<1>4. ExecutorOK(p)' /\ pc'[p] \in {"record", "open", "returned"}
  <2>1. CASE (Goto(p, "record") \/ Goto(p, "returned")) /\ UNCHANGED caller
    <3>1. pc'[p] \in {"record", "returned"} /\ caller' = caller
      BY <1>1, <2>1 DEF TypeOK, Goto
    <3> QED
      BY <1>1, <3>1 DEF ExecutorOK, ExecutorPlaced, StatusPlaced, Emitting,
     OpenLocs, BodyLocs, IndexLocs
  <2>2. CASE IndexRun(p, "initialize")
    BY <1>1, <2>2, IndexRunOK
  <2> QED
    BY <2>1, <2>2 DEF WriteRequest, WriteRun, WriteDocument
<1>5. (\A q \in Readers : ReaderOK(q)') /\ (\A q \in Executors : ExecutorOK(q)')
  BY <1>1, <1>4, OthersPlaced
<1>6. Owned'
  <2>1. \A q \in Executors : run[q] \in Runs \union {NoRun}
    BY <1>1 DEF TypeOK, Procs
  <2> QED
    BY <1>1, <1>3, <2>1 DEF IInv, Owned, SingleWriter, Queued
<1>7. ASSUME NEW q \in Executors, run'[q] # NoRun
      PROVE  StatusWritten(q)'
  <2>1. StatusWritten(q) /\ (pc'[q] = pc[q] \/ pc'[q] \in {"record", "open", "returned"})
    BY <1>1, <1>4, <1>7 DEF IInv, Frame, Procs
  <2> QED
    BY <1>1, <2>1 DEF StatusWritten, Queued
<1>8. ASSUME NEW q \in Procs
      PROVE  FoundTrue(q)'
  BY <1>1, <1>3, <1>4, <1>8 DEF IInv, Frame, FoundTrue
<1> QED
  BY <1>5, <1>6, <1>7, <1>8 DEF Agree

(* A trail is written only while it is open, by the process that owns it,   *)
(* and it closes with the status that process holds.                        *)
LEMMA AppendedTrail ==
  ASSUME IInv, NEW p \in Executors, AppendEvent(p)
  PROVE  /\ run[p] \in Runs
         /\ TerminalLines(journal[run[p]]) = {}
         /\ \A r \in Runs : r # run[p] => journal'[r] = journal[r]
         /\ TerminalLines(journal'[run[p]]) # {} =>
              /\ status[p] \in Outcomes
              /\ StatusFromEvents(journal'[run[p]]) = status[p]
<1>1. /\ TypeOK /\ StoreTypeOK /\ p \in Procs /\ ExecutorOK(p) /\ pc[p] = "append"
      /\ run[p] \in Runs /\ StatusWritten(p)
  BY RunExecutionAssumption DEF IInv, TypeOK, Procs, AppendEvent, ExecutorOK, ExecutorPlaced
<1> DEFINE old == journal[run[p]]
           l   == CurrentLine(p)
<1>2. old \in Seq(Line) /\ l \in Line /\ Torn \in Line /\ l.type = ev[p] /\ TerminalLines(old) = {}
  BY <1>1, CurrentLineType DEF StoreTypeOK, CurrentLine, StatusWritten, Line
<1>3. PICK new \in {old, WithLine(old, l), WithLine(old, Torn)} : journal' = [journal EXCEPT ![run[p]] = new]
  BY <1>1, <1>2, Appended DEF AppendEvent
<1>4. /\ journal'[run[p]] = new
      /\ \A r \in Runs : r # run[p] => journal'[r] = journal[r]
  BY <1>1, <1>3 DEF StoreTypeOK
<1>5. TerminalLines(new) # {} => ev[p] \in TerminalEvents /\ StatusFromEvents(new) = StatusOf[ev[p]]
  BY <1>2, <1>3, TornOpen, OpenAppend, ClosingAppend
<1>6. ev[p] \in TerminalEvents => status[p] = StatusOf[ev[p]] /\ status[p] \in Outcomes
  BY <1>1, StatusOfType DEF ExecutorOK, StatusPlaced
<1> QED
  BY <1>1, <1>2, <1>4, <1>5, <1>6

(* The step that writes events.jsonl.                                       *)
LEMMA AppendEventKeeps ==
  ASSUME IInv, NEW p \in Executors, AppendEvent(p), Frame(p)
  PROVE  Agree'
<1>1. /\ p \in Procs /\ p \notin Readers /\ TypeOK /\ ExecutorOK(p)
      /\ pc[p] = "append" /\ run[p] # NoRun /\ run[p] \in Runs
      /\ UNCHANGED <<dir, row, outbox, run, status, ev, next, found>>
  BY RunExecutionAssumption DEF IInv, Procs, AppendEvent, ExecutorOK, ExecutorPlaced, TypeOK
<1>2. /\ TerminalLines(journal[run[p]]) = {}
      /\ \A r \in Runs : r # run[p] => journal'[r] = journal[r]
      /\ TerminalLines(journal'[run[p]]) # {} =>
           status[p] \in Outcomes /\ StatusFromEvents(journal'[run[p]]) = status[p]
  BY AppendedTrail
<1>3. ExecutorOK(p)' /\ pc'[p] \in {"open", "publish", "sealing"}
  <2>1. CASE EmitFails(p) /\ UNCHANGED seq
    BY <1>1, <2>1, EmitFailsOK DEF Emitting
  <2>2. CASE seq' = [seq EXCEPT ![p] = @ + 1] /\ ev[p] \in TerminalEvents /\ IndexRun(p, "emit")
    <3>1. seq'[p] > 0
      BY <1>1, <2>2 DEF TypeOK
    <3> QED
      BY <1>1, <2>2, <3>1, IndexRunOK
  <2>3. CASE /\ seq' = [seq EXCEPT ![p] = @ + 1] /\ ev[p] \notin TerminalEvents
             /\ Goto(p, "publish") /\ UNCHANGED caller
    <3>1. seq'[p] > 0 /\ pc'[p] = "publish"
      BY <1>1, <2>3 DEF TypeOK, Goto
    <3> QED
      BY <1>1, <2>3, <3>1 DEF ExecutorOK, ExecutorPlaced, StatusPlaced, Emitting,
     OpenLocs, BodyLocs, IndexLocs
  <2> QED
    BY <2>1, <2>2, <2>3 DEF AppendEvent
<1>4. (\A q \in Readers : ReaderOK(q)') /\ (\A q \in Executors : ExecutorOK(q)')
  BY <1>1, <1>3, OthersPlaced
<1>5. Owned'
  <2>1. dir[run[p]] # "absent"
    BY <1>1 DEF IInv, Owned
  <2> QED
    BY <1>1, <1>2, <2>1 DEF IInv, Owned, SingleWriter, Queued
<1>6. ASSUME NEW q \in Executors, run'[q] # NoRun
      PROVE  StatusWritten(q)'
  <2>1. CASE q = p
    <3>1. StatusWritten(p)
      BY <1>1 DEF IInv
    <3> QED
      BY <1>1, <1>2, <1>3, <2>1, <3>1 DEF StatusWritten, Queued
  <2>2. CASE q # p
    <3>1. StatusWritten(q) /\ run[q] \in Runs /\ run[q] # run[p] /\ pc'[q] = pc[q]
      BY <1>1, <1>6, <2>2 DEF IInv, Owned, SingleWriter, TypeOK, Frame, Procs
    <3> QED
      BY <1>1, <1>2, <3>1 DEF StatusWritten, Queued
  <2> QED
    BY <2>1, <2>2
<1>7. ASSUME NEW q \in Procs
      PROVE  FoundTrue(q)'
  <2>1. FoundTrue(q)
    BY <1>7 DEF IInv
  <2>2. pc'[q] \in {"read", "import"} => pc'[q] = pc[q] /\ found'[q] = found[q]
    BY <1>1, <1>3, <1>7 DEF Frame
  <2> QED
    BY <1>1, <1>2, <2>1, <2>2 DEF FoundTrue
<1> QED
  BY <1>4, <1>5, <1>6, <1>7 DEF Agree

-----------------------------------------------------------------------------
(* Remaining steps of a process *)

(* OnRun, then run_created.                                                 *)
LEMMA PublishRunKeeps ==
  ASSUME IInv, NEW p \in Executors, PublishRun(p), Frame(p)
  PROVE  Agree'
<1>1. /\ p \in Procs /\ TypeOK /\ ExecutorOK(p) /\ pc[p] = "publishRun"
      /\ UNCHANGED <<dir, journal, row, outbox, run, status, seq, caller, found>>
  BY DEF IInv, Procs, PublishRun, storeVars
<1>2. CASE Emit(p, "run_created", "preflight")
  <2>1. "run_created" \in EventTypes \ TerminalEvents /\ "preflight" \in BodyLocs
    BY DEF EventTypes, TerminalEvents, BodyLocs
  <2> QED
    BY <1>1, <1>2, <2>1, EmitKeeps
<1>3. CASE Goto(p, "sealing") /\ UNCHANGED <<ev, next>>
  <2>1. pc'[p] = "sealing"
    BY <1>1, <1>3 DEF TypeOK, Goto
  <2>2. ExecutorOK(p)'
    BY <1>1, <1>3, <2>1 DEF ExecutorOK, ExecutorPlaced, StatusPlaced, Emitting,
     OpenLocs, BodyLocs, IndexLocs
  <2> QED
    BY <1>1, <2>1, <2>2, ExecutorKeeps
<1> QED
  BY <1>2, <1>3 DEF PublishRun

(* OnEvent, then where emit returns to.                                     *)
LEMMA PublishEventKeeps ==
  ASSUME IInv, NEW p \in Executors, PublishEvent(p), Frame(p)
  PROVE  Agree'
<1>1. /\ p \in Procs /\ TypeOK /\ ExecutorOK(p) /\ pc[p] = "publish"
      /\ UNCHANGED <<dir, journal, row, outbox, run, status, seq, ev, next, found>>
  BY DEF IInv, Procs, PublishEvent, storeVars
<1>2. CASE EmitFails(p)
  BY <1>1, <1>2, EmitFailsOK, ExecutorKeeps DEF Emitting
<1>3. CASE Goto(p, next[p]) /\ UNCHANGED caller
  <2>1. pc'[p] = next[p]
    BY <1>1, <1>3 DEF TypeOK, Goto
  <2>2. next[p] \in IF ev[p] \in TerminalEvents THEN {"returned"} ELSE BodyLocs
    BY <1>1 DEF ExecutorOK, ExecutorPlaced, Emitting
  <2>3. next[p] \in BodyLocs => status[p] = "running"
    <3>1. next[p] \in BodyLocs => ev[p] \notin TerminalEvents
      BY <2>2 DEF BodyLocs
    <3>2. status[p] \notin Outcomes \union {"pending_manual"} \/ ev[p] \in TerminalEvents
      BY <1>1 DEF ExecutorOK, StatusPlaced
    <3> QED
      BY <1>1, <3>1, <3>2 DEF TypeOK, RunStatuses
  <2>4. ExecutorOK(p)'
    BY <1>1, <1>3, <2>1, <2>2, <2>3 DEF ExecutorOK, ExecutorPlaced, StatusPlaced, Emitting,
     OpenLocs, BodyLocs, IndexLocs
  <2>5. pc'[p] \notin {"append", "read", "import", "enqueue", "mark"}
    BY <2>1, <2>2 DEF BodyLocs
  <2> QED
    BY <1>1, <2>4, <2>5, ExecutorKeeps
<1> QED
  BY <1>2, <1>3 DEF PublishEvent

(* The script's outcome is announced, not concluded.                        *)
LEMMA ExecuteStepKeeps ==
  ASSUME IInv, NEW p \in Executors, ExecuteStep(p), Frame(p)
  PROVE  Agree'
<1>1. /\ pc[p] \in BodyLocs
      /\ \E e \in EventTypes \ TerminalEvents, l \in BodyLocs : Emit(p, e, l)
      /\ UNCHANGED <<dir, journal, row, outbox, run, status, seq, caller, found>>
  BY DEF ExecuteStep, storeVars, BodyLocs, EventTypes, TerminalEvents
<1> QED
  BY <1>1, EmitKeeps

(* pending_manual is set where nothing is recorded any more.                *)
LEMMA ManualKeeps ==
  ASSUME IInv, NEW p \in Executors, Manual(p), Frame(p)
  PROVE  Agree'
<1>1. /\ p \in Procs /\ p \notin Readers /\ TypeOK /\ ExecutorOK(p) /\ pc[p] = "manual"
      /\ run[p] # NoRun => StatusWritten(p)
  BY RunExecutionAssumption DEF IInv, Procs, Manual
<1>2. status[p] = "running" /\ "running" \notin Outcomes
  BY <1>1 DEF ExecutorOK, StatusPlaced, OpenLocs, BodyLocs, Outcomes
<1>3. CASE \E l \in BodyLocs : Local(p, l)
  BY <1>1, <1>3, LocalKeeps DEF BodyLocs
<1>4. CASE /\ status' = [status EXCEPT ![p] = "pending_manual"]
           /\ IndexRun(p, "manual")
           /\ UNCHANGED <<storeVars, run, shared, seq, ev, next, step, scan, found, cancelled,
                          remoteVars, faultVars>>
  <2>1. status'[p] = "pending_manual"
    BY <1>1, <1>4 DEF TypeOK
  <2>2. ExecutorOK(p)' /\ pc'[p] = "open"
    BY <1>1, <1>2, <1>4, <2>1, IndexRunOK
  <2>3. run'[p] # NoRun => StatusWritten(p)'
    BY <1>1, <1>2, <1>4, <2>2 DEF StatusWritten, Queued, storeVars
  <2>4. FoundTrue(p)'
    BY <2>2 DEF FoundTrue
  <2> QED
    BY <1>1, <1>4, <2>2, <2>3, <2>4, QuietKeeps DEF Self, storeVars
<1> QED
  BY <1>3, <1>4 DEF Manual, BodyLocs

(* A step that touches nothing the invariant speaks of.                     *)
LEMMA StutterKeeps ==
  ASSUME IInv, UNCHANGED <<dir, journal, row, outbox, pc, run, status, seq, ev, next, caller, found>>
  PROVE  Agree'
<1>1. \A q \in Readers : ReaderOK(q)'
  BY DEF IInv, ReaderOK
<1>2. \A q \in Executors : ExecutorOK(q)'
  BY DEF IInv, ExecutorOK, ExecutorPlaced, StatusPlaced, Emitting
<1>3. Owned'
  BY DEF IInv, Owned, Queued, SingleWriter
<1>4. \A q \in Executors : run'[q] # NoRun => StatusWritten(q)'
  BY DEF IInv, StatusWritten, Queued
<1>5. \A q \in Procs : FoundTrue(q)'
  BY DEF IInv, FoundTrue
<1> QED
  BY <1>1, <1>2, <1>3, <1>4, <1>5 DEF Agree

(* A crash leaves everything as it is.                                      *)
LEMMA CrashKeeps ==
  ASSUME IInv, NEW p \in Executors, Crash(p), Frame(p)
  PROVE  Agree'
  BY MoveKeeps DEF Crash, storeVars, Resting

(* A listing starts.                                                        *)
LEMMA ListKeeps ==
  ASSUME IInv, NEW p \in Readers, List(p), Frame(p)
  PROVE  Agree'
<1>1. pc'[p] = "open" /\ caller'[p] = "list"
  BY DEF IInv, TypeOK, Procs, List, IndexRun, Goto
<1>2. ReaderOK(p)'
  BY <1>1 DEF ReaderOK, IndexLocs
<1> QED
  BY <1>1, <1>2, ReaderKeeps DEF List, storeVars

-----------------------------------------------------------------------------
(* IInv is inductive *)

(* Nothing is reserved at first.                                            *)
LEMMA IInvInit == Init => IInv
<1> SUFFICES ASSUME Init PROVE IInv
  OBVIOUS
<1> USE DEF Init
<1>1. StoreTypeOK
  BY DEF StoreInit, StoreTypeOK
<1>2. /\ "idle" \in Locations /\ "initialize" \in Callers /\ "running" \in RunStatuses
      /\ "run_created" \in EventTypes \ TerminalEvents
  BY Names DEF RunStatuses, EventTypes, TerminalEvents
<1>3. TypeOK
  BY <1>1, <1>2 DEF TypeOK
<1>4. \A p \in Readers : ReaderOK(p)
  BY DEF ReaderOK, IndexLocs, Procs
<1>5. ASSUME NEW p \in Executors
      PROVE  ExecutorOK(p)
  <2>1. /\ pc[p] = "idle" /\ run[p] = NoRun /\ status[p] = "running" /\ caller[p] = "initialize"
        /\ ev[p] \notin TerminalEvents
    BY <1>2 DEF Procs
  <2> QED
    BY <2>1 DEF ExecutorOK, ExecutorPlaced, StatusPlaced, Emitting, IndexLocs, Outcomes
<1>6. Owned
  BY DEF Owned, StoreInit, SingleWriter, Queued, Procs
<1>7. \A p \in Executors : run[p] = NoRun
  BY DEF Procs
<1>8. \A p \in Procs : FoundTrue(p)
  BY DEF FoundTrue
<1> QED
  BY <1>3, <1>4, <1>5, <1>6, <1>7, <1>8 DEF IInv

(* A step of Execute outside indexRun.                                      *)
LEMMA ExecutingKeeps ==
  ASSUME IInv, NEW p \in Executors, Executing(p)
  PROVE  TypeOK' /\ Agree'
<1>1. /\ TypeOK /\ p \in Procs /\ ExecutorOK(p)
      /\ pc[p] \notin {"idle", "refused"} => run[p] \in Runs
  BY DEF IInv, Procs, ExecutorOK, ExecutorPlaced, TypeOK
<1>2. Frame(p)
  BY <1>1, ExecutingFrame
<1>3. CASE WriteRequest(p) \/ WriteRun(p)
  BY <1>1, <1>2, <1>3, WriteKeeps, WriteRequestType, WriteRunType
<1>4. CASE PublishRun(p)
  BY <1>1, <1>2, <1>4, PublishRunKeeps, PublishRunType DEF PublishRun
<1>5. CASE AppendEvent(p)
  BY <1>1, <1>2, <1>5, AppendEventKeeps, AppendEventType DEF AppendEvent
<1>6. CASE PublishEvent(p)
  <2>1. run[p] \in Runs /\ seq[p] > 0
    BY <1>1, <1>6 DEF PublishEvent, ExecutorOK, ExecutorPlaced, Emitting
  <2> QED
    BY <1>1, <1>2, <1>6, <2>1, PublishEventKeeps, PublishEventType
<1>7. CASE ExecuteStep(p)
  BY <1>1, <1>2, <1>7, ExecuteStepKeeps, ExecuteStepType
<1>8. CASE Manual(p)
  BY <1>1, <1>2, <1>8, ManualKeeps, ManualType
<1>9. CASE \/ Preflight(p) \/ Fulfill(p) \/ NextStep(p) \/ Approve(p) \/ PrepareStep(p)
           \/ Succeed(p) \/ CancelRun(p) \/ Fail(p) \/ Interrupt(p) \/ SealAfterError(p)
  BY <1>1, <1>9, BodyKeeps, BodyType
<1> QED
  BY <1>3, <1>4, <1>5, <1>6, <1>7, <1>8, <1>9 DEF Executing

(* A step of Open, Backfill or indexRun.                                    *)
LEMMA IndexingKeeps ==
  ASSUME IInv, NEW p \in Procs, Indexing(p)
  PROVE  TypeOK' /\ Agree'
<1>1. TypeOK /\ Frame(p)
  BY IndexingFrame DEF IInv
<1>2. CASE OpenIndex(p)
  BY <1>1, <1>2, OpenIndexType, OpenIndexKeeps
<1>3. ASSUME NEW r \in Runs, BackfillLookup(p, r)
      PROVE  TypeOK' /\ Agree'
  BY <1>1, <1>3, BackfillLookupType, BackfillLookupKeeps
<1>9. CASE BackfillRead(p)
  <2>1. found[p].run \in Runs
    BY <1>9 DEF BackfillRead, IInv, FoundTrue
  <2> QED
    BY <1>1, <1>9, <2>1, BackfillReadType, BackfillReadKeeps
<1>4. CASE BackfillImport(p)
  BY <1>1, <1>4, BackfillImportType, BackfillImportKeeps
<1>5. CASE BackfillDone(p)
  BY <1>1, <1>5, BackfillDoneKeeps, LocalType, Names DEF BackfillDone
<1>6. CASE UpsertRow(p)
  <2>1. IndexStatus(p) \in RunStatuses
    BY <1>6, PastBackfill, IndexStatusHeld DEF UpsertRow, IndexLocs
  <2> QED
    BY <1>1, <1>6, <2>1, UpsertRowType, UpsertRowKeeps
<1>7. CASE EnqueueOutbox(p)
  <2>1. run[p] \in Runs
    BY <1>7, PastBackfill DEF EnqueueOutbox
  <2> QED
    BY <1>1, <1>7, <2>1, EnqueueOutboxType, EnqueueOutboxKeeps
<1>8. CASE MarkPending(p)
  BY <1>1, <1>8, MarkPendingType, MarkPendingKeeps
<1> QED
  BY <1>2, <1>3, <1>4, <1>5, <1>6, <1>7, <1>8, <1>9 DEF Indexing

(* Every step.                                                              *)
LEMMA IInvNext == IInv /\ [Next]_vars => IInv'
<1> SUFFICES ASSUME IInv, [Next]_vars PROVE TypeOK' /\ Agree'
  BY DEF IInv, Agree
<1>1. TypeOK
  BY DEF IInv
<1>2. ASSUME NEW p \in Executors, NEW r \in Runs, Reserve(p, r)
      PROVE  TypeOK' /\ Agree'
  BY <1>1, <1>2, ReserveType, ReserveKeeps, ExecutingFrame DEF Procs
<1>3. ASSUME NEW p \in Executors, NEW r \in Runs, Refuse(p, r)
      PROVE  TypeOK' /\ Agree'
  BY <1>1, <1>3, LocalType, LocalKeeps, Names DEF Refuse, Procs
<1>4. ASSUME NEW p \in Executors, Executing(p)
      PROVE  TypeOK' /\ Agree'
  BY <1>4, ExecutingKeeps
<1>5. ASSUME NEW p \in Executors, Cancel(p)
      PROVE  TypeOK' /\ Agree'
  BY <1>1, <1>5, CancelType, StutterKeeps DEF Cancel, storeVars
<1>6. ASSUME NEW p \in Executors, Crash(p)
      PROVE  TypeOK' /\ Agree'
  BY <1>1, <1>6, CrashType, CrashKeeps, ExecutingFrame DEF Procs
<1>7. ASSUME NEW p \in Procs, Indexing(p)
      PROVE  TypeOK' /\ Agree'
  BY <1>7, IndexingKeeps
<1>8. ASSUME NEW p \in Readers, List(p)
      PROVE  TypeOK' /\ Agree'
  BY <1>1, <1>8, ListType, ListKeeps, ExecutingFrame DEF Procs
<1>9. CASE UNCHANGED vars
  <2>1. TypeOK'
    BY <1>1, <1>9 DEF vars, procVars, TypeOK, StoreTypeOK, storeVars, remoteVars, faultVars
  <2> QED
    BY <1>9, <2>1, StutterKeeps DEF vars, procVars, storeVars
<1> QED
  BY <1>2, <1>3, <1>4, <1>5, <1>6, <1>7, <1>8, <1>9 DEF Next

-----------------------------------------------------------------------------
(* What a step is to a Run and to the process that executes it *)

(* The process has its outcome and the one attempt to record it is over.   *)
Closing(p) == status[p] \in Outcomes /\ pc[p] # "append"

(* Only emit writes events.jsonl.                                          *)
LEMMA JournalSteps ==
  ASSUME [Next]_vars
  PROVE  UNCHANGED <<journal, diskFaults>> \/ (UNCHANGED journal /\ DiskFault)
         \/ \E p \in Executors : AppendEvent(p)
<1> USE DEF storeVars, faultVars, IndexFault, RemoteFault, Local, Announce, Conclude
<1>1. ASSUME NEW p \in Procs, Indexing(p)
      PROVE  UNCHANGED <<journal, diskFaults>>
  BY <1>1 DEF Indexing, OpenIndex, BackfillLookup, BackfillRead, BackfillImport, BackfillDone, UpsertRow,
              EnqueueOutbox, MarkPending
<1>2. ASSUME NEW p \in Executors, Executing(p), ~AppendEvent(p)
      PROVE  UNCHANGED <<journal, diskFaults>> \/ (UNCHANGED journal /\ DiskFault)
  <2>1. CASE WriteRequest(p) \/ WriteRun(p) \/ PublishRun(p) \/ PublishEvent(p)
    BY <2>1 DEF WriteRequest, WriteRun, WriteDocument, PublishRun, PublishEvent
  <2>2. CASE \/ Preflight(p) \/ Fulfill(p) \/ NextStep(p) \/ Approve(p) \/ PrepareStep(p)
             \/ ExecuteStep(p) \/ Manual(p)
    BY <2>2 DEF Preflight, Fulfill, NextStep, Approve, PrepareStep, ExecuteStep, Manual
  <2>3. CASE Succeed(p) \/ CancelRun(p) \/ Fail(p) \/ Interrupt(p) \/ SealAfterError(p)
    BY <2>3 DEF Succeed, CancelRun, Fail, Interrupt, SealAfterError
  <2> QED
    BY <1>2, <2>1, <2>2, <2>3 DEF Executing
<1>3. CASE \/ \E p \in Executors, r \in Runs : Reserve(p, r) \/ Refuse(p, r)
           \/ \E p \in Executors : Cancel(p) \/ Crash(p)
           \/ \E p \in Readers : List(p)
           \/ UNCHANGED vars
  BY <1>3 DEF Reserve, Refuse, Cancel, Crash, List, vars
<1> QED
  BY <1>1, <1>2, <1>3 DEF Next

(* The trail of a Run changes only when its own process appends.           *)
LEMMA TrailStays ==
  ASSUME IInv, [Next]_vars, NEW r \in Runs,
         \A p \in Executors : run[p] = r => pc[p] # "append"
  PROVE  journal'[r] = journal[r]
<1>1. CASE \E p \in Executors : AppendEvent(p)
  <2>1. PICK p \in Executors : AppendEvent(p)
    BY <1>1
  <2>2. run[p] # r
    BY <2>1 DEF AppendEvent
  <2> QED
    BY <2>1, <2>2, AppendedTrail
<1> QED
  BY <1>1, JournalSteps

(* A directory that was made stays.                                        *)
LEMMA DirStays ==
  ASSUME IInv, [Next]_vars, NEW r \in Runs, dir[r] # "absent"
  PROVE  dir'[r] # "absent"
<1> USE DEF storeVars, faultVars, Local, Announce, Conclude
<1>1. ASSUME NEW p \in Procs, Indexing(p)
      PROVE  UNCHANGED dir
  BY <1>1 DEF Indexing, OpenIndex, BackfillLookup, BackfillRead, BackfillImport, BackfillDone, UpsertRow,
              EnqueueOutbox, MarkPending
<1>2. ASSUME NEW p \in Executors, Executing(p)
      PROVE  dir'[r] # "absent"
  <2>1. CASE WriteRequest(p) \/ WriteRun(p)
    BY <2>1 DEF WriteRequest, WriteRun, WriteDocument, IInv, TypeOK, StoreTypeOK
  <2>2. CASE \/ AppendEvent(p) \/ PublishRun(p) \/ PublishEvent(p)
             \/ Preflight(p) \/ Fulfill(p) \/ NextStep(p) \/ Approve(p) \/ PrepareStep(p)
             \/ ExecuteStep(p) \/ Manual(p)
    BY <2>2 DEF AppendEvent, PublishRun, PublishEvent, Preflight, Fulfill, NextStep, Approve,
                PrepareStep, ExecuteStep, Manual
  <2>3. CASE Succeed(p) \/ CancelRun(p) \/ Fail(p) \/ Interrupt(p) \/ SealAfterError(p)
    BY <2>3 DEF Succeed, CancelRun, Fail, Interrupt, SealAfterError
  <2> QED
    BY <1>2, <2>1, <2>2, <2>3 DEF Executing
<1>3. CASE \/ \E p \in Executors, x \in Runs : Reserve(p, x) \/ Refuse(p, x)
           \/ \E p \in Executors : Cancel(p) \/ Crash(p)
           \/ \E p \in Readers : List(p)
           \/ UNCHANGED vars
  BY <1>3 DEF Reserve, Refuse, Cancel, Crash, List, vars, IInv, TypeOK, StoreTypeOK
<1> QED
  BY <1>1, <1>2, <1>3 DEF Next

(* What a step is to a process: another one's, or its own.                 *)
LEMMA OwnSteps ==
  ASSUME IInv, [Next]_vars, NEW p \in Executors
  PROVE  \/ /\ pc'[p] = pc[p] /\ run'[p] = run[p] /\ status'[p] = status[p]
         \/ \E r \in Runs : Reserve(p, r) \/ Refuse(p, r)
         \/ Executing(p) \/ Indexing(p) \/ Crash(p)
<1>1. /\ TypeOK /\ p \in Procs /\ p \notin Readers
  BY RunExecutionAssumption DEF IInv, Procs
<1>2. ASSUME NEW q \in Procs, q # p, Frame(q)
      PROVE  pc'[p] = pc[p] /\ run'[p] = run[p] /\ status'[p] = status[p]
  BY <1>1, <1>2 DEF Frame
<1>3. ASSUME NEW q \in Procs, Indexing(q)
      PROVE  q = p \/ (pc'[p] = pc[p] /\ run'[p] = run[p] /\ status'[p] = status[p])
  BY <1>1, <1>2, <1>3, IndexingFrame
<1>4. ASSUME NEW q \in Procs,
             \/ \E r \in Runs : Reserve(q, r) \/ Refuse(q, r)
             \/ Executing(q) \/ Cancel(q) \/ Crash(q) \/ List(q)
      PROVE  q = p \/ (pc'[p] = pc[p] /\ run'[p] = run[p] /\ status'[p] = status[p])
  BY <1>1, <1>2, <1>4, ExecutingFrame
<1>5. CASE Cancel(p) \/ UNCHANGED vars
  BY <1>5 DEF Cancel, vars, procVars
<1> QED
  BY <1>1, <1>3, <1>4, <1>5 DEF Next, Procs

(* An outcome is set where the append of the closing event comes next.     *)
LEMMA StatusSteps ==
  ASSUME IInv, [Next]_vars, NEW p \in Executors
  PROVE  status'[p] = status[p] \/ pc'[p] = "append" \/ status'[p] = "pending_manual"
<1>1. pc \in [Procs -> Locations] /\ status \in [Procs -> RunStatuses] /\ p \in Procs
  BY DEF IInv, TypeOK, Procs
<1> USE DEF Local, Announce, Conclude, Emit, Goto
<1>2. CASE Indexing(p)
  BY <1>2 DEF Indexing, OpenIndex, BackfillLookup, BackfillRead, BackfillImport, BackfillDone, UpsertRow,
              EnqueueOutbox, MarkPending
<1>3. CASE \/ WriteRequest(p) \/ WriteRun(p) \/ AppendEvent(p) \/ PublishRun(p) \/ PublishEvent(p)
           \/ Preflight(p) \/ Fulfill(p) \/ NextStep(p) \/ Approve(p) \/ PrepareStep(p)
           \/ ExecuteStep(p)
  BY <1>3 DEF WriteRequest, WriteRun, AppendEvent, PublishRun, PublishEvent, Preflight, Fulfill,
              NextStep, Approve, PrepareStep, ExecuteStep
<1>4. CASE Manual(p)
  BY <1>1, <1>4 DEF Manual
<1>5. CASE Succeed(p) \/ CancelRun(p) \/ Fail(p) \/ Interrupt(p) \/ SealAfterError(p)
  BY <1>1, <1>5 DEF Succeed, CancelRun, Fail, Interrupt, SealAfterError
<1>6. CASE Crash(p) \/ \E r \in Runs : Reserve(p, r) \/ Refuse(p, r)
  BY <1>6 DEF Crash, Reserve, Refuse
<1> QED
  BY <1>2, <1>3, <1>4, <1>5, <1>6, OwnSteps DEF Executing

(* A process that is past its closing append never appends again.          *)
LEMMA ClosingStays ==
  ASSUME IInv, [Next]_vars, NEW p \in Executors, Closing(p)
  PROVE  Closing(p)' /\ run'[p] = run[p] /\ (pc[p] = "crashed" => pc'[p] = "crashed")
<1>1. /\ TypeOK /\ p \in Procs /\ ExecutorOK(p)
      /\ pc \in [Procs -> Locations] /\ caller \in [Procs -> Callers]
  BY DEF IInv, TypeOK, Procs
<1>2. /\ status[p] \in Outcomes /\ ev[p] \in TerminalEvents
      /\ pc[p] \notin OpenLocs \union {"append"}
  BY <1>1 DEF Closing, ExecutorOK, StatusPlaced, Outcomes
<1>3. Emitting(p) => next[p] = "returned"
  BY <1>1, <1>2 DEF ExecutorOK, ExecutorPlaced
<1>4. isTerminalStatus(status[p])
  BY <1>2 DEF isTerminalStatus
<1>5. CASE Indexing(p)
  <2>1. pc[p] \in IndexLocs /\ UNCHANGED <<run, status>>
    BY <1>5 DEF Indexing, OpenIndex, BackfillLookup, BackfillRead, BackfillImport, BackfillDone, UpsertRow,
                EnqueueOutbox, MarkPending, IndexLocs, Local
  <2>2. /\ \A l : Goto(p, l) => pc'[p] = l
        /\ IndexFails(p) => pc'[p] \in {"open", "sealing", "listFailed", "returned"}
        /\ IndexDone(p) => pc'[p] \in {"publishRun", "publish", "returned"}
    BY <1>1 DEF Goto, IndexFails, EmitFails, IndexRun, IndexDone
  <2>3. pc'[p] # "append"
    BY <1>2, <1>5, <2>2 DEF Indexing, OpenIndex, BackfillLookup, BackfillRead, BackfillImport, BackfillDone,
                UpsertRow, EnqueueOutbox, MarkPending, Local
  <2> QED
    BY <1>2, <2>1, <2>3 DEF Closing, IndexLocs
<1>6. CASE PublishEvent(p)
  <2>1. /\ pc[p] = "publish" /\ UNCHANGED <<run, status>>
        /\ \/ Goto(p, "returned")
           \/ EmitFails(p)
    BY <1>3, <1>6 DEF PublishEvent, Emitting
  <2>2. pc'[p] \in {"returned", "open", "sealing"}
    BY <1>1, <2>1 DEF Goto, EmitFails, IndexRun
  <2> QED
    BY <1>2, <2>1, <2>2 DEF Closing
<1>7. CASE SealAfterError(p)
  BY <1>1, <1>2, <1>4, <1>7 DEF SealAfterError, Local, Goto, Closing
<1>8. CASE Crash(p)
  BY <1>1, <1>2, <1>8 DEF Crash, Goto, Closing
<1>9. ~ \E r \in Runs : Reserve(p, r) \/ Refuse(p, r)
  BY <1>2 DEF Reserve, Refuse, OpenLocs
<1>10. CASE Executing(p)
  <2>1. PublishEvent(p) \/ SealAfterError(p)
    BY <1>2, <1>10 DEF Executing, WriteRequest, WriteRun, AppendEvent, PublishRun, Preflight,
         Fulfill, NextStep, Approve, PrepareStep, ExecuteStep, Manual, Succeed, CancelRun, Fail,
         Interrupt, OpenLocs, BodyLocs
  <2> QED
    BY <1>6, <1>7, <2>1
<1> QED
  BY <1>2, <1>5, <1>8, <1>9, <1>10, OwnSteps DEF Closing

(* It gets there by the append of its closing event.                       *)
LEMMA NewlyClosing ==
  ASSUME IInv, [Next]_vars, NEW p \in Executors, ~Closing(p), Closing(p)', pc'[p] # "crashed"
  PROVE  AppendEvent(p) /\ ev[p] \in TerminalEvents
<1>1. status[p] \in Outcomes /\ pc[p] = "append"
  BY StatusSteps DEF Closing, Outcomes
<1>2. pc'[p] # "append"
  BY DEF Closing
<1>3. ev[p] \in TerminalEvents
  BY <1>1 DEF IInv, ExecutorOK, StatusPlaced
<1>4. ~Indexing(p) /\ ~(\E r \in Runs : Reserve(p, r) \/ Refuse(p, r))
  BY <1>1 DEF Indexing, OpenIndex, BackfillLookup, BackfillRead, BackfillImport, BackfillDone, UpsertRow,
              EnqueueOutbox, MarkPending, Reserve, Refuse
<1>5. ~Crash(p)
  BY DEF Crash, Goto, IInv, TypeOK, Procs
<1>6. Executing(p)
  BY <1>1, <1>2, <1>4, <1>5, OwnSteps
<1>7. AppendEvent(p)
  BY <1>1, <1>6 DEF Executing, WriteRequest, WriteRun, PublishRun, PublishEvent, Preflight,
         Fulfill, NextStep, Approve, PrepareStep, ExecuteStep, Manual, Succeed, CancelRun, Fail,
         Interrupt, SealAfterError
<1> QED
  BY <1>3, <1>7

(* Only a process without a Run gets one, and its directory is new.        *)
LEMMA RunStays ==
  ASSUME IInv, [Next]_vars, NEW p \in Executors, NEW r \in Runs, run'[p] = r, run[p] # r
  PROVE  dir[r] = "absent"
<1> USE DEF Local, Announce, Conclude
<1>1. run \in [Procs -> Runs \union {NoRun}] /\ p \in Procs
  BY DEF IInv, TypeOK, Procs
<1>2. ~Indexing(p)
  BY DEF Indexing, OpenIndex, BackfillLookup, BackfillRead, BackfillImport, BackfillDone, UpsertRow,
         EnqueueOutbox, MarkPending
<1>3. ~ (\/ WriteRequest(p) \/ WriteRun(p) \/ AppendEvent(p) \/ PublishRun(p) \/ PublishEvent(p)
         \/ Preflight(p) \/ Fulfill(p) \/ NextStep(p) \/ Approve(p) \/ PrepareStep(p)
         \/ ExecuteStep(p) \/ Manual(p))
  BY DEF WriteRequest, WriteRun, AppendEvent, PublishRun, PublishEvent, Preflight, Fulfill,
         NextStep, Approve, PrepareStep, ExecuteStep, Manual
<1>4. ~ (Succeed(p) \/ CancelRun(p) \/ Fail(p) \/ Interrupt(p) \/ SealAfterError(p))
  BY DEF Succeed, CancelRun, Fail, Interrupt, SealAfterError
<1>5. ~Crash(p) /\ \A x \in Runs : ~Refuse(p, x)
  BY DEF Crash, Refuse
<1>6. PICK x \in Runs : Reserve(p, x)
  BY <1>2, <1>3, <1>4, <1>5, OwnSteps DEF Executing
<1> QED
  BY <1>1, <1>6 DEF Reserve

(* A trail that holds a terminal event stays as it is.                      *)
LEMMA ClosedStays ==
  ASSUME IInv, [Next]_vars, NEW r \in Runs, TerminalLines(journal[r]) # {}
  PROVE  journal'[r] = journal[r]
<1>1. CASE \E p \in Executors : AppendEvent(p)
  BY <1>1, AppendedTrail
<1> QED
  BY <1>1, JournalSteps

(* What the index and the outbox say of a Run is true of its trail.         *)
LEMMA IndexAgreesNow == IInv => IndexNeverContradicts
<1>1. ASSUME IInv, NEW r \in Runs
      PROVE  /\ row[r] \in Outcomes /\ TerminalLines(journal[r]) # {}
                  => row[r] = StatusFromEvents(journal[r])
             /\ row[r] = "pending_manual" => TerminalLines(journal[r]) = {}
             /\ Queued(r) => row[r] # "absent" /\ row[r] # "pending_manual"
  <2>1. CASE dir[r] = "absent"
    <3>1. journal[r] = << >> /\ row[r] = "absent" /\ ~Queued(r)
      BY <1>1, <2>1 DEF IInv, Owned
    <3> QED
      BY <3>1 DEF Outcomes
  <2>2. CASE dir[r] # "absent"
    <3>1. PICK p \in Executors : run[p] = r
      BY <1>1, <2>2 DEF IInv, Owned
    <3>2. StatusWritten(p) /\ (Queued(r) => row[r] # "absent") /\ "pending_manual" \notin Outcomes
      BY <1>1, <3>1, RunExecutionAssumption DEF IInv, Owned, Outcomes
    <3> QED
      BY <3>1, <3>2 DEF StatusWritten
  <2> QED
    BY <2>1, <2>2
<1> QED
  BY <1>1 DEF IndexNeverContradicts

-----------------------------------------------------------------------------
(* Theorems *)

(* So IInv always holds.                                                    *)
LEMMA Inductive == Spec => []IInv
  BY IInvInit, IInvNext, PTL DEF Spec

(* Every variable keeps its type: no step of Execute, of indexRun or of     *)
(* Backfill stores a status, an event or a place the code does not know.    *)
THEOREM TypeCorrect == Spec => []TypeOK
<1>1. IInv => TypeOK
  BY DEF IInv
<1> QED
  BY <1>1, Inductive, PTL

(* However many processes reserve, crash and are interrupted, a Run         *)
(* directory has one process that writes it (localstate.Open).              *)
THEOREM OneWriter == Spec => []SingleWriter
<1>1. IInv => SingleWriter
  BY DEF IInv, Owned
<1> QED
  BY <1>1, Inductive, PTL

(* Once events.jsonl holds a terminal event it never changes again,         *)
(* whatever failed while that event was appended, indexed or published.     *)
THEOREM TrailIsFinal == Spec => TerminalIsFinal
<1>1. IInv /\ [Next]_vars =>
        [\A r \in Runs : TerminalLines(journal[r]) # {} => journal'[r] = journal[r]]_vars
  BY ClosedStays
<1> QED
  BY <1>1, Inductive, PTL DEF Spec, TerminalIsFinal

(* The index never claims another outcome than the trail, whoever wrote the *)
(* row last: the Run's own process, a retry of indexRun, or a Backfill that *)
(* read the directory before it changed.                                    *)
THEOREM IndexAgrees == Spec => []IndexNeverContradicts
  BY IndexAgreesNow, Inductive, PTL
=============================================================================
