-------------------------- MODULE RunReaders_proofs --------------------------
(***************************************************************************)
(* Proofs about the commands that read the Runs of other processes: those  *)
(* that flush the outbox (RunSync) and those that follow the logs          *)
(* (RunFollow).                                                            *)
(***************************************************************************)
EXTENDS RunSync, RunFollow, RunExecution_proofs

-----------------------------------------------------------------------------
(***************************************************************************)
(* Proofs about RunSync, for any number of processes that execute Runs and *)
(* of commands that flush the outbox, any failures and crashes.            *)
(*                                                                         *)
(* A command deletes a row by its id, long after it has read it, and       *)
(* others may have deleted it or added rows since.  SyncInv says that an   *)
(* id has meant one Run from the moment its row was inserted, in the table *)
(* and in what every command still remembers of it, and that a command is  *)
(* about to delete only what the Space has.                                *)
(*                                                                         *)
(* SentInv and BodyInv say that a Run that was ever queued is settled: its *)
(* process is past its last append, so what commands read of it, at any    *)
(* later time, is what stays on disk.                                      *)
(***************************************************************************)

(* The rows there are and those that a command remembers.                  *)
Known(o) ==
  o = NoItem \/ o \in outbox \/ \E f \in Readers : o \in items[f] \/ o = item[f]

OneMeaning == \A o, x : Known(o) /\ Known(x) /\ o.id = x.id => o.run = x.run

SyncInv ==
  /\ nextRow \in Nat \ {0}
  /\ fpc = [f \in Readers |-> fpc[f]]
  /\ items = [f \in Readers |-> items[f]]
  /\ item = [f \in Readers |-> item[f]]
  /\ \A o : Known(o) => o.id \in Nat /\ o.id < nextRow
  /\ OneMeaning
  /\ \A f \in Readers : fpc[f] = "delete" => Taken(item[f].run)

(* Executing a Run and listing the index change the outbox only by adding  *)
(* a row under a new id.                                                   *)
LEMMA RowsAdded ==
  ASSUME NEW p \in Procs,
         \/ \E r \in Runs : Reserve(p, r) \/ Refuse(p, r)
         \/ Executing(p) \/ Indexing(p) \/ Cancel(p) \/ Crash(p) \/ List(p)
  PROVE  UNCHANGED <<outbox, nextRow>> \/ (pc[p] = "enqueue" /\ InsertOutbox(run[p]))
<1> USE DEF storeVars, Local, Announce, Conclude
<1>1. CASE Indexing(p)
  BY <1>1 DEF Indexing, OpenIndex, BackfillLookup, BackfillRead, BackfillImport, BackfillDone, UpsertRow,
              EnqueueOutbox, MarkPending
<1>2. CASE \/ WriteRequest(p) \/ WriteRun(p) \/ PublishRun(p) \/ AppendEvent(p) \/ PublishEvent(p)
  BY <1>2 DEF WriteRequest, WriteRun, PublishRun, AppendEvent, PublishEvent
<1>3. CASE \/ Preflight(p) \/ Fulfill(p) \/ NextStep(p) \/ Approve(p) \/ PrepareStep(p)
           \/ ExecuteStep(p) \/ Manual(p)
  BY <1>3 DEF Preflight, Fulfill, NextStep, Approve, PrepareStep, ExecuteStep, Manual
<1>4. CASE Succeed(p) \/ CancelRun(p) \/ Fail(p) \/ Interrupt(p) \/ SealAfterError(p)
  BY <1>4 DEF Succeed, CancelRun, Fail, Interrupt, SealAfterError
<1>5. CASE Cancel(p) \/ Crash(p) \/ List(p) \/ \E r \in Runs : Reserve(p, r) \/ Refuse(p, r)
  BY <1>5 DEF Cancel, Crash, List, Reserve, Refuse
<1> QED
  BY <1>1, <1>2, <1>3, <1>4, <1>5 DEF Executing

(* A new row has a new id, so every id keeps its meaning.                  *)
LEMMA AddedKeeps ==
  ASSUME SyncInv, UNCHANGED flushVars,
         UNCHANGED <<outbox, nextRow>> \/ \E r : InsertOutbox(r)
  PROVE  SyncInv'
<1>1. CASE UNCHANGED <<outbox, nextRow>>
  BY <1>1 DEF SyncInv, flushVars, Known, OneMeaning, Taken
<1>2. ASSUME NEW r, InsertOutbox(r)
      PROVE  SyncInv'
  <2> DEFINE new == [id |-> nextRow, run |-> r]
  <2>1. (\A o : Known(o)' <=> Known(o) \/ o = new) /\ nextRow' = nextRow + 1
    BY <1>2 DEF InsertOutbox, Known, flushVars
  <2>2. nextRow \in Nat \ {0} /\ \A o : Known(o) => o.id \in Nat /\ o.id < nextRow
    BY DEF SyncInv
  <2>3. nextRow' \in Nat \ {0} /\ \A o : Known(o)' => o.id \in Nat /\ o.id < nextRow'
    BY <2>1, <2>2
  <2>4. OneMeaning'
    BY <2>1, <2>2 DEF SyncInv, OneMeaning
  <2> QED
    BY <2>3, <2>4 DEF SyncInv, flushVars, Taken
<1> QED
  BY <1>1, <1>2

(* The row with the smallest id exists.                                    *)
LEMMA HeadExists ==
  ASSUME NEW S, S # {}, \A o \in S : o.id \in Nat
  PROVE  (CHOOSE o \in S : \A x \in S : o.id <= x.id) \in S
<1> DEFINE I == {o.id : o \in S}
<1>1. I \subseteq Nat /\ I # {}
  OBVIOUS
<1>2. \E i \in I : \A j \in I : ~ (<<j, i>> \in OpToRel(<, Nat))
  BY <1>1, WFMin, NatLessThanWellFounded
<1>3. PICK i \in I : \A j \in I : ~ (j < i)
  BY <1>1, <1>2 DEF OpToRel
<1>4. PICK o \in S : o.id = i
  BY <1>3
<1>5. ASSUME NEW x \in S
      PROVE  o.id <= x.id
  <2>1. ~ (x.id < o.id) /\ x.id \in Nat /\ o.id \in Nat
    BY <1>3, <1>4
  <2> HIDE DEF I
  <2> QED
    BY <2>1
<1>6. \E h \in S : \A x \in S : h.id <= x.id
  BY <1>5
<1> QED
  BY <1>6

(* A command never remembers a row that was not in the outbox, and may     *)
(* forget any; if it goes on to delete, the Space has the Run.             *)
LEMMA RemembersKeeps ==
  ASSUME SyncInv, nextRow' = nextRow, outbox' \subseteq outbox,
         fpc' = [g \in Readers |-> fpc'[g]], items' = [g \in Readers |-> items'[g]],
         item' = [g \in Readers |-> item'[g]],
         \A g \in Readers :
           /\ (\A o \in items'[g] : Known(o)) /\ Known(item'[g])
           /\ fpc'[g] = "delete" => \E x \in ingested' : x.run = item'[g].run
  PROVE  SyncInv'
<1>1. \A o : Known(o)' => Known(o)
  BY DEF Known
<1>2. OneMeaning'
  BY <1>1 DEF SyncInv, OneMeaning
<1>3. \A o : Known(o)' => o.id \in Nat /\ o.id < nextRow'
  BY <1>1 DEF SyncInv
<1> QED
  BY <1>2, <1>3 DEF SyncInv, Taken

(* Every step of Flush remembers only rows of the outbox.                  *)
LEMMA FlushKeeps ==
  ASSUME SyncInv, NEW f \in Readers, Flush(f) \/ FlushCrash(f)
  PROVE  SyncInv'
<1> USE DEF vars, storeVars, FlushGoto
<1>0. /\ Known(NoItem) /\ \A o \in outbox : Known(o)
      /\ \A g \in Readers : (\A o \in items[g] : Known(o)) /\ Known(item[g])
      /\ \A o : Known(o) => o.id \in Nat
      /\ fpc = [g \in Readers |-> fpc[g]] /\ items = [g \in Readers |-> items[g]]
      /\ item = [g \in Readers |-> item[g]]
      /\ \A g \in Readers : fpc[g] = "delete" => \E x \in ingested : x.run = item[g].run
  BY DEF SyncInv, Known, Taken
<1>1. CASE FlushList(f)
  <2>1. /\ fpc' = [fpc EXCEPT ![f] = "next"] /\ items' = [items EXCEPT ![f] = outbox]
        /\ UNCHANGED <<outbox, nextRow, item, ingested>>
    BY <1>1 DEF FlushList
  <2> QED
    BY <1>0, <2>1, RemembersKeeps
<1>2. CASE FlushNext(f)
  <2> DEFINE head == CHOOSE o \in items[f] : \A x \in items[f] : o.id <= x.id
  <2>1. head \in items[f]
    BY <1>0, <1>2, HeadExists DEF FlushNext
  <2>2. /\ items' = [items EXCEPT ![f] = items[f] \ {head}]
        /\ UNCHANGED <<outbox, nextRow, ingested>>
        /\ \/ item' = [item EXCEPT ![f] = head] /\ fpc' = [fpc EXCEPT ![f] = "ingest"]
           \/ UNCHANGED <<item, fpc>> /\ fpc[f] = "next"
    BY <1>0, <1>2 DEF FlushNext
  <2>3. (\A o \in items[f] \ {head} : Known(o)) /\ Known(head)
    BY <1>0, <2>1
  <2> HIDE DEF head
  <2>4. CASE item' = [item EXCEPT ![f] = head] /\ fpc' = [fpc EXCEPT ![f] = "ingest"]
    <3>1. \A g \in Readers :
            /\ \A o \in items'[g] : Known(o)
            /\ Known(item'[g])
            /\ fpc'[g] = "delete" => g # f /\ fpc[g] = "delete" /\ item'[g] = item[g]
      BY <1>0, <2>2, <2>3, <2>4
    <3> QED
      BY <1>0, <2>2, <2>4, <3>1, RemembersKeeps
  <2>5. CASE UNCHANGED <<item, fpc>> /\ fpc[f] = "next"
    BY <1>0, <2>2, <2>3, <2>5, RemembersKeeps
  <2> QED
    BY <2>2, <2>4, <2>5
<1>3. CASE FlushDone(f)
  <2>1. /\ fpc' = [fpc EXCEPT ![f] = "idle"] /\ items' = [items EXCEPT ![f] = {}]
        /\ item' = [item EXCEPT ![f] = NoItem] /\ UNCHANGED <<outbox, nextRow, ingested>>
    BY <1>3 DEF FlushDone, FlushReturn
  <2> QED
    BY <1>0, <2>1, RemembersKeeps
<1>4. CASE FlushIngest(f)
  <2>1. /\ UNCHANGED <<outbox, nextRow, items, item>> /\ ingested \subseteq ingested'
        /\ \/ /\ fpc' = [fpc EXCEPT ![f] = "delete"]
              /\ ingested' = ingested \union {Payload(f)}
           \/ fpc' = [fpc EXCEPT ![f] = "next"]
    BY <1>4 DEF FlushIngest
  <2>2. Payload(f).run = item[f].run
    BY DEF Payload
  <2> QED
    BY <1>0, <2>1, <2>2, RemembersKeeps
<1>5. CASE AckDelete(f)
  <2>1. /\ outbox' \subseteq outbox /\ UNCHANGED <<nextRow, ingested>>
        /\ \/ fpc' = [fpc EXCEPT ![f] = "mark"] /\ UNCHANGED <<items, item>>
           \/ /\ fpc' = [fpc EXCEPT ![f] = "idle"] /\ items' = [items EXCEPT ![f] = {}]
              /\ item' = [item EXCEPT ![f] = NoItem]
    BY <1>5 DEF AckDelete, DeleteOutbox, FlushReturn
  <2> QED
    BY <1>0, <2>1, RemembersKeeps
<1>6. CASE AckMark(f)
  <2>1. /\ UNCHANGED <<outbox, nextRow, ingested>>
        /\ \/ fpc' = [fpc EXCEPT ![f] = "next"] /\ UNCHANGED <<items, item>>
           \/ /\ fpc' = [fpc EXCEPT ![f] = "idle"] /\ items' = [items EXCEPT ![f] = {}]
              /\ item' = [item EXCEPT ![f] = NoItem]
    BY <1>6 DEF AckMark, FlushReturn
  <2> QED
    BY <1>0, <2>1, RemembersKeeps
<1>7. CASE FlushCrash(f)
  <2>1. /\ fpc' = [fpc EXCEPT ![f] = "idle"] /\ items' = [items EXCEPT ![f] = {}]
        /\ item' = [item EXCEPT ![f] = NoItem] /\ UNCHANGED <<outbox, nextRow, ingested>>
    BY <1>7 DEF FlushCrash, FlushReturn
  <2> QED
    BY <1>0, <2>1, RemembersKeeps
<1> QED
  BY <1>1, <1>2, <1>3, <1>4, <1>5, <1>6, <1>7 DEF Flush

(* Nothing is remembered before the first command.                         *)
LEMMA SyncInitHolds == SyncInit => SyncInv
<1> SUFFICES ASSUME SyncInit PROVE SyncInv
  OBVIOUS
<1>1. nextRow = 1 /\ \A o : Known(o) => o = NoItem
  <2>1. nextRow = 1 /\ outbox = {} /\ \A f \in Readers : items[f] = {} /\ item[f] = NoItem
    BY DEF SyncInit, Init, StoreInit
  <2> QED
    BY <2>1 DEF Known
<1>2. NoItem.id = 0
  BY DEF NoItem
<1> QED
  BY <1>1, <1>2 DEF SyncInit, SyncInv, OneMeaning

(* What a step is to the outbox: a Run or a reader at work, or Flush.      *)
LEMMA SyncSteps ==
  ASSUME [SyncNext]_syncVars
  PROVE  \/ UNCHANGED flushVars /\ (UNCHANGED <<outbox, nextRow>> \/ \E r : InsertOutbox(r))
         \/ \E f \in Readers : Flush(f) \/ FlushCrash(f)
<1>1. CASE UNCHANGED syncVars
  BY <1>1 DEF syncVars, vars, storeVars
<1>2. CASE RunStep
  <2>1. PICK p \in Executors :
          \/ \E r \in Runs : Reserve(p, r) \/ Refuse(p, r)
          \/ Executing(p) \/ Indexing(p) \/ Cancel(p) \/ Crash(p)
    BY <1>2 DEF RunStep
  <2> QED
    BY <1>2, <2>1, RowsAdded DEF RunStep, Procs
<1>3. ASSUME NEW f \in Readers, Command(f) \/ FlushCrash(f)
      PROVE  \/ UNCHANGED flushVars /\ (UNCHANGED <<outbox, nextRow>> \/ \E r : InsertOutbox(r))
             \/ Flush(f) \/ FlushCrash(f)
  <2>1. CASE (List(f) \/ Indexing(f)) /\ UNCHANGED flushVars
    BY <2>1, RowsAdded DEF Procs
  <2> QED
    BY <1>3, <2>1 DEF Command
<1> QED
  BY <1>1, <1>2, <1>3 DEF SyncNext

(* A Run leaves the outbox only when the Space has it.                     *)
THEOREM QueueIsKept == SyncSpec => QueuedUntilTaken
<1>1. SyncInv /\ [SyncNext]_syncVars => SyncInv'
  BY SyncSteps, AddedKeeps, FlushKeeps
<1>2. SyncInv /\ [SyncNext]_syncVars =>
        \A r \in Runs : Queued(r) /\ ~Queued(r)' => Taken(r)
  <2> SUFFICES ASSUME SyncInv, [SyncNext]_syncVars, NEW r \in Runs, Queued(r), ~Queued(r)'
               PROVE  Taken(r)
    OBVIOUS
  <2>1. PICK o \in outbox : o.run = r /\ o \notin outbox'
    BY DEF Queued
  <2>2. \A x : ~ InsertOutbox(x)
    BY <2>1 DEF InsertOutbox
  <2>3. PICK f \in Readers : Flush(f) \/ FlushCrash(f)
    BY <2>1, <2>2, SyncSteps
  <2>4. fpc[f] = "delete" /\ o.id = item[f].id
    <3>1. CASE AckDelete(f)
      BY <2>1, <3>1 DEF AckDelete, DeleteOutbox
    <3>2. CASE ~AckDelete(f)
      BY <2>1, <2>3, <3>2 DEF Flush, FlushList, FlushNext, FlushDone, FlushIngest, AckMark,
                              FlushCrash, vars, storeVars
    <3> QED
      BY <3>1, <3>2
  <2>5. Known(o) /\ Known(item[f])
    BY DEF Known
  <2>6. o.run = item[f].run
    BY <2>4, <2>5 DEF SyncInv, OneMeaning
  <2> QED
    BY <2>1, <2>4, <2>6 DEF SyncInv
<1> QED
  BY <1>1, <1>2, SyncInitHolds, PTL DEF SyncSpec, QueuedUntilTaken

-----------------------------------------------------------------------------
(* What the Space gets.  A process about to queue its Run has reached its  *)
(* outcome and appends no more, so what a command reads of the Run then is *)
(* what stays on disk.                                                     *)

(* A Run that was queued, though it may have been deleted since.           *)
Sent(r) == r \in Runs /\ (Taken(r) \/ \E o : Known(o) /\ o.run = r)

Unwritten(r) == diskFaults = 0 /\ TerminalLines(journal[r]) = {}

(* Its trail is what it will always be.                                    *)
Settled(r) ==
  /\ dir[r] # "absent" /\ ~Unwritten(r)
  /\ \A p \in Executors : run[p] = r => Closing(p)

SentInv ==
  /\ \A r : Sent(r) => Settled(r)
  /\ \A p \in Executors : Closing(p) /\ pc[p] # "crashed" => ~Unwritten(run[p])
  /\ diskFaults = 0 => \A r \in Runs : ~EndsTorn(journal[r])

(* What commands have read of Runs and what the Space has.                 *)
BodyInv ==
  /\ body = [f \in Readers |-> body[f]]
  /\ \A f \in Readers :
       /\ fpc[f] = "ingest" => item[f].run \in Runs /\ body[f] = journal[item[f].run]
       /\ \A o \in items[f] : o.run \in Runs
  /\ \A x \in ingested : x.run \in Runs /\ x.events = journal[x.run]

(* The trail of a settled Run does not change, and it stays settled.       *)
LEMMA SettledStays ==
  ASSUME IInv, [Next]_vars, NEW r \in Runs, Settled(r)
  PROVE  journal'[r] = journal[r] /\ Settled(r)'
<1>1. journal'[r] = journal[r]
  BY TrailStays DEF Settled, Closing
<1>2. dir'[r] # "absent"
  BY DirStays DEF Settled
<1>3. diskFaults' = 0 => diskFaults = 0
  <2>1. diskFaults \in Nat
    BY DEF IInv, TypeOK
  <2> QED
    BY <2>1, JournalSteps DEF DiskFault, AppendEvent, faultVars
<1>4. ASSUME NEW p \in Executors, run'[p] = r
      PROVE  Closing(p)'
  BY <1>4, RunStays, ClosingStays DEF Settled
<1> QED
  BY <1>1, <1>2, <1>3, <1>4 DEF Settled, Unwritten

(* Without a failing write every line is whole.                            *)
LEMMA LinesWhole ==
  ASSUME IInv, SentInv, NEW p \in Executors, AppendEvent(p), diskFaults' = 0
  PROVE  /\ \A r \in Runs : ~EndsTorn(journal'[r])
         /\ ev[p] \in TerminalEvents => TerminalLines(journal'[run[p]]) # {}
<1>1. /\ TypeOK /\ p \in Procs /\ run[p] \in Runs /\ diskFaults \in Nat
      /\ journal \in [Runs -> Seq(Line)] /\ seq[p] \in Nat
  BY AppendedTrail DEF IInv, TypeOK, StoreTypeOK, Procs
<1> DEFINE old == journal[run[p]]
           l   == CurrentLine(p)
           new == Append(old, l)
<1>2. diskFaults = 0 /\ AppendOK(run[p], l)
  BY <1>1 DEF AppendEvent, DiskFault, faultVars
<1>3. ~EndsTorn(old)
  BY <1>1, <1>2 DEF SentInv
<1>4. journal' = [journal EXCEPT ![run[p]] = new]
  BY <1>2, <1>3 DEF AppendOK, WithLine
<1>5. l \in Line /\ l # Torn /\ l.type = ev[p] /\ old \in Seq(Line)
  BY <1>1, CurrentLineType DEF CurrentLine, Torn
<1>6. /\ Len(new) = Len(old) + 1 /\ new[Len(old) + 1] = l /\ DOMAIN new = 1 .. (Len(old) + 1)
      /\ Len(old) \in Nat
  BY <1>5
<1> HIDE DEF new, l, old
<1>7. ~EndsTorn(new)
  BY <1>5, <1>6 DEF EndsTorn
<1>8. ev[p] \in TerminalEvents => TerminalLines(new) # {}
  BY <1>5, <1>6 DEF TerminalLines
<1> QED
  BY <1>1, <1>2, <1>4, <1>7, <1>8 DEF SentInv

(* A Run is queued by the process that has closed it.                      *)
LEMMA RunSentKeeps ==
  ASSUME IInv, SentInv, BodyInv, [Next]_vars, UNCHANGED flushVars
  PROVE  SentInv' /\ BodyInv'
<1>1. ASSUME NEW p \in Executors, Closing(p)
      PROVE  run[p] \in Runs /\ \A q \in Executors : run[q] = run[p] => q = p
  <2>1. ExecutorOK(p) /\ pc[p] \notin {"idle", "refused"} /\ p \in Procs /\ TypeOK
    BY <1>1 DEF IInv, Closing, ExecutorOK, StatusPlaced, OpenLocs, Outcomes, Procs
  <2> QED
    BY <2>1, <1>1 DEF IInv, ExecutorOK, ExecutorPlaced, TypeOK, Owned, SingleWriter
<1>2. ASSUME NEW r, Sent(r)'
      PROVE  r \in Runs /\ Settled(r)
  <2>1. r \in Runs
    BY <1>2 DEF Sent
  <2>2. CASE Sent(r)
    BY <2>1, <2>2 DEF SentInv
  <2>3. CASE ~Sent(r)
    <3>1. PICK o : o \in outbox' /\ o \notin outbox /\ o.run = r
      BY <1>2, <2>3 DEF Sent, Known, Taken, flushVars
    <3>2. PICK p \in Procs : pc[p] = "enqueue" /\ InsertOutbox(run[p])
      BY <3>1, RowsAdded DEF Next, Procs, vars, storeVars
    <3>3. /\ p \in Executors /\ run[p] = r /\ ExecutorOK(p) /\ status[p] \in Outcomes
      <4>1. p \in Executors
        BY <3>2 DEF IInv, ReaderOK, Procs
      <4>2. ExecutorOK(p) /\ run[p] = r
        BY <3>1, <3>2, <4>1 DEF IInv, InsertOutbox
      <4> QED
        BY <3>2, <4>1, <4>2 DEF ExecutorOK, ExecutorPlaced, StatusPlaced, IndexLocs
    <3>4. Closing(p) /\ ~Unwritten(r)
      BY <3>2, <3>3 DEF Closing, SentInv
    <3>5. dir[r] # "absent"
      BY <3>3, <2>1, RunExecutionAssumption DEF IInv, Owned
    <3> QED
      BY <1>1, <2>1, <3>3, <3>4, <3>5 DEF Settled
  <2> QED
    BY <2>2, <2>3
<1>3. ASSUME NEW p \in Executors, Closing(p)', pc'[p] # "crashed"
      PROVE  ~Unwritten(run[p])'
  <2>1. CASE Closing(p)
    <3>1. run'[p] = run[p] /\ pc[p] # "crashed" /\ ~Unwritten(run[p])
      BY <1>3, <2>1, ClosingStays DEF SentInv
    <3>2. journal'[run[p]] = journal[run[p]]
      BY <1>1, <2>1, TrailStays DEF Closing
    <3>3. diskFaults' = 0 => diskFaults = 0
      BY JournalSteps DEF DiskFault, AppendEvent, faultVars, IInv, TypeOK
    <3> QED
      BY <3>1, <3>2, <3>3 DEF Unwritten
  <2>2. CASE ~Closing(p)
    <3>1. AppendEvent(p) /\ ev[p] \in TerminalEvents
      BY <1>3, <2>2, NewlyClosing
    <3>2. run' = run
      BY <3>1 DEF AppendEvent
    <3> QED
      BY <3>1, <3>2, LinesWhole DEF Unwritten
  <2> QED
    BY <2>1, <2>2
<1>4. diskFaults' = 0 => \A r \in Runs : ~EndsTorn(journal'[r])
  <2>1. CASE \E p \in Executors : AppendEvent(p)
    BY <2>1, LinesWhole
  <2>2. CASE UNCHANGED <<journal, diskFaults>> \/ (UNCHANGED journal /\ DiskFault)
    BY <2>2 DEF SentInv, DiskFault, IInv, TypeOK
  <2> QED
    BY <2>1, <2>2, JournalSteps
<1>5. SentInv'
  BY <1>2, <1>3, <1>4, SettledStays DEF SentInv
<1>6. \A r \in Runs : (Taken(r) \/ \E o : Known(o) /\ o.run = r) => journal'[r] = journal[r]
  BY SettledStays DEF SentInv, Sent
<1>7. BodyInv'
  <2>1. \A f \in Readers : fpc[f] = "ingest" => journal'[item[f].run] = journal[item[f].run]
    BY <1>6 DEF BodyInv, Known
  <2>2. \A x \in ingested : journal'[x.run] = journal[x.run]
    BY <1>6 DEF BodyInv, Taken
  <2> QED
    BY <2>1, <2>2 DEF BodyInv, flushVars
<1> QED
  BY <1>5, <1>7

(* Flush leaves the Runs and the processes that execute them alone.        *)
LEMMA FlushQuiet ==
  ASSUME IInv, SyncInv, BodyInv, NEW f \in Readers, Flush(f) \/ FlushCrash(f)
  PROVE  /\ UNCHANGED <<dir, journal, row, nextRow, procVars, remoteVars, diskFaults>>
         /\ outbox' \subseteq outbox
         /\ sync' \in [Runs -> {"none", "pending", "synced"}]
         /\ {indexFaults, remoteFaults, cancels, crashes}' \subseteq Nat
<1>1. /\ {indexFaults, remoteFaults, cancels, crashes} \subseteq Nat
      /\ sync \in [Runs -> {"none", "pending", "synced"}]
  BY DEF IInv, TypeOK, StoreTypeOK
<1> USE DEF vars, storeVars, faultVars
<1>2. CASE FlushList(f) \/ FlushNext(f) \/ FlushDone(f)
  BY <1>1, <1>2 DEF FlushList, FlushNext, FlushDone
<1>3. CASE FlushIngest(f)
  BY <1>1, <1>3 DEF FlushIngest, RemoteFault
<1>4. CASE AckDelete(f)
  BY <1>1, <1>4 DEF AckDelete, DeleteOutbox, IndexFault
<1>5. CASE AckMark(f)
  BY <1>1, <1>5 DEF AckMark, SetSync, IndexFault
<1>6. CASE FlushCrash(f)
  BY <1>1, <1>6 DEF FlushCrash
<1> QED
  BY <1>2, <1>3, <1>4, <1>5, <1>6 DEF Flush

LEMMA FlushKeepsRuns ==
  ASSUME IInv, SyncInv, BodyInv, NEW f \in Readers, Flush(f) \/ FlushCrash(f)
  PROVE  IInv'
<1>1. /\ UNCHANGED <<dir, journal, row, nextRow, procVars, remoteVars, diskFaults>>
      /\ outbox' \subseteq outbox
      /\ sync' \in [Runs -> {"none", "pending", "synced"}]
      /\ {indexFaults, remoteFaults, cancels, crashes}' \subseteq Nat
  BY FlushQuiet
<1> USE DEF procVars, remoteVars
<1>2. TypeOK'
  BY <1>1 DEF IInv, TypeOK, StoreTypeOK
<1>3. \A q \in Readers : ReaderOK(q)'
  BY <1>1 DEF IInv, ReaderOK
<1>4. \A q \in Executors : ExecutorOK(q)'
  BY <1>1 DEF IInv, ExecutorOK, ExecutorPlaced, StatusPlaced, Emitting
<1>5. Owned'
  BY <1>1 DEF IInv, Owned, Queued, SingleWriter
<1>6. \A q \in Executors : run'[q] # NoRun => StatusWritten(q)'
  BY <1>1 DEF IInv, StatusWritten, Queued
<1>7. \A q \in Procs : FoundTrue(q)'
  BY <1>1 DEF IInv, FoundTrue
<1> QED
  BY <1>2, <1>3, <1>4, <1>5, <1>6, <1>7 DEF IInv

(* Flush reads, sends and forgets only Runs that were sent to it.          *)
LEMMA FlushSentKeeps ==
  ASSUME IInv, SyncInv, SentInv, BodyInv, NEW f \in Readers, Flush(f) \/ FlushCrash(f)
  PROVE  SentInv' /\ BodyInv'
<1>1. /\ UNCHANGED <<dir, journal, run, status, pc, diskFaults>>
      /\ outbox' \subseteq outbox
  BY FlushQuiet DEF procVars
<1>2. /\ fpc = [g \in Readers |-> fpc[g]] /\ items = [g \in Readers |-> items[g]]
      /\ item = [g \in Readers |-> item[g]] /\ body = [g \in Readers |-> body[g]]
      /\ \A o \in outbox : o.run \in Runs
      /\ \A g \in Readers : \A o \in items[g] : o.id \in Nat /\ o.run \in Runs
  BY DEF SyncInv, BodyInv, Known, IInv, TypeOK, StoreTypeOK
<1> USE DEF FlushGoto
<1>3. CASE FlushList(f)
  <2>1. /\ fpc' = [fpc EXCEPT ![f] = "next"] /\ items' = [items EXCEPT ![f] = outbox]
        /\ UNCHANGED <<item, body, ingested>>
    BY <1>3 DEF FlushList
  <2>2. \A o : Known(o)' => Known(o)
    BY <1>1, <1>2, <2>1 DEF Known
  <2>3. BodyInv'
    BY <1>1, <1>2, <2>1 DEF BodyInv
  <2> QED
    BY <1>1, <2>1, <2>2, <2>3 DEF SentInv, Sent, Taken, Settled, Closing, Unwritten
<1>4. CASE FlushNext(f)
  <2> DEFINE head == CHOOSE o \in items[f] : \A x \in items[f] : o.id <= x.id
  <2>1. head \in items[f]
    BY <1>2, <1>4, HeadExists DEF FlushNext
  <2>2. /\ items' = [items EXCEPT ![f] = items[f] \ {head}] /\ UNCHANGED ingested
        /\ \/ /\ item' = [item EXCEPT ![f] = head] /\ fpc' = [fpc EXCEPT ![f] = "ingest"]
              /\ body' = [body EXCEPT ![f] = journal[head.run]]
           \/ UNCHANGED <<item, fpc, body>>
    BY <1>2, <1>4 DEF FlushNext
  <2> HIDE DEF head
  <2>3. \A o : Known(o)' => Known(o)
    BY <1>1, <1>2, <2>1, <2>2 DEF Known
  <2>4. BodyInv'
    BY <1>1, <1>2, <2>1, <2>2 DEF BodyInv
  <2> QED
    BY <1>1, <2>2, <2>3, <2>4 DEF SentInv, Sent, Taken, Settled, Closing, Unwritten
<1>5. CASE FlushIngest(f)
  <2>1. /\ UNCHANGED <<items, item, body>> /\ fpc[f] = "ingest"
        /\ ingested' \in {ingested, ingested \union {Payload(f)}}
        /\ \E l \in {"delete", "next"} : fpc' = [fpc EXCEPT ![f] = l]
    BY <1>5 DEF FlushIngest
  <2>2. /\ Payload(f).run = item[f].run /\ Payload(f).events = body[f]
        /\ item[f].run \in Runs /\ body[f] = journal[item[f].run] /\ Known(item[f])
    BY <2>1 DEF Payload, BodyInv, Known
  <2>3. \A o : Known(o)' => Known(o)
    BY <1>1, <2>1 DEF Known
  <2>4. \A r : Taken(r)' => Taken(r) \/ r = item[f].run
    BY <2>1, <2>2 DEF Taken
  <2>5. BodyInv'
    BY <1>1, <1>2, <2>1, <2>2 DEF BodyInv
  <2> QED
    BY <1>1, <2>2, <2>3, <2>4, <2>5 DEF SentInv, Sent, Settled, Closing, Unwritten
<1>6. CASE FlushDone(f) \/ AckDelete(f) \/ AckMark(f) \/ FlushCrash(f)
  <2>1. /\ UNCHANGED ingested
        /\ \/ /\ UNCHANGED <<items, item, body>>
              /\ \E l \in {"mark", "next"} : fpc' = [fpc EXCEPT ![f] = l]
           \/ /\ fpc' = [fpc EXCEPT ![f] = "idle"] /\ items' = [items EXCEPT ![f] = {}]
              /\ item' = [item EXCEPT ![f] = NoItem] /\ body' = [body EXCEPT ![f] = << >>]
    BY <1>6 DEF FlushDone, AckDelete, AckMark, FlushCrash, FlushReturn
  <2>2. \A o : Known(o)' => Known(o)
    BY <1>1, <1>2, <2>1 DEF Known
  <2>3. BodyInv'
    BY <1>1, <1>2, <2>1 DEF BodyInv
  <2> QED
    BY <1>1, <2>1, <2>2, <2>3 DEF SentInv, Sent, Taken, Settled, Closing, Unwritten
<1> QED
  BY <1>3, <1>4, <1>5, <1>6 DEF Flush

(* At first nothing is queued, read or sent.                               *)
LEMMA SentInitHolds == SyncInit => IInv /\ SentInv /\ BodyInv
<1> SUFFICES ASSUME SyncInit PROVE IInv /\ SentInv /\ BodyInv
  OBVIOUS
<1>1. Init /\ IInv
  BY IInvInit DEF SyncInit
<1>2. NoRun \notin Runs /\ "running" \notin Outcomes
  BY RunExecutionAssumption DEF Outcomes
<1>3. \A r : ~Sent(r)
  BY <1>1, <1>2 DEF SyncInit, Init, StoreInit, Sent, Known, Taken, NoItem
<1>4. \A p \in Executors : ~Closing(p)
  BY <1>1, <1>2 DEF Init, Closing, Procs
<1>5. \A r \in Runs : ~EndsTorn(journal[r])
  BY <1>1 DEF Init, StoreInit, EndsTorn
<1> QED
  BY <1>1, <1>3, <1>4, <1>5 DEF SentInv, BodyInv, SyncInit

(* The Space gets a Run as its trail stays, and with its outcome unless    *)
(* the disk refused a write, with any number of commands flushing it.      *)
THEOREM WholeRunsAreSent == SyncSpec => []TakenIsComplete
<1> DEFINE Inv == IInv /\ SyncInv /\ SentInv /\ BodyInv
<1>1. SyncInit => Inv
  BY SentInitHolds, SyncInitHolds
<1>2. Inv /\ [SyncNext]_syncVars => Inv'
  <2> SUFFICES ASSUME Inv, [SyncNext]_syncVars PROVE Inv'
    OBVIOUS
  <2>1. SyncInv'
    BY SyncSteps, AddedKeeps, FlushKeeps
  <2>2. CASE UNCHANGED flushVars /\ [Next]_vars
    BY <2>1, <2>2, RunSentKeeps, IInvNext
  <2>3. CASE \E f \in Readers : Flush(f) \/ FlushCrash(f)
    BY <2>1, <2>3, FlushSentKeeps, FlushKeepsRuns
  <2>4. (UNCHANGED flushVars /\ [Next]_vars) \/ \E f \in Readers : Flush(f) \/ FlushCrash(f)
    BY DEF SyncNext, RunStep, Command, Next, Procs, syncVars
  <2> QED
    BY <2>2, <2>3, <2>4
<1>3. Inv => TakenIsComplete
  BY DEF BodyInv, SentInv, Sent, Settled, Unwritten, Taken, TakenIsComplete
<1> QED
  BY <1>1, <1>2, <1>3, PTL DEF SyncSpec

-----------------------------------------------------------------------------
(***************************************************************************)
(* Proofs about RunFollow, for any number of Runs, of processes that       *)
(* execute them and of commands that follow them, any failures, crashes    *)
(* and Ctrl-C.                                                             *)
(*                                                                         *)
(* A follow takes the status it has read in a round for an excuse to stop  *)
(* after the logs of that round.  FollowInv says why this is right: once   *)
(* an outcome can be read anywhere, in the trail or in the index, the      *)
(* process of the Run is past its last append (Ended), so the logs named   *)
(* by then are all there will ever be.                                     *)
(*                                                                         *)
(* The steps of RunFollow are those of RunExecution and two more: a        *)
(* failure that only counts, and a command that gives up before it has a   *)
(* Run.  Each lemma about steps first says what it needs of either kind.   *)
(***************************************************************************)

(* The process has an outcome, or left the Run to a person, and does not   *)
(* append any more.                                                        *)
Through(p) == isTerminalStatus(status[p]) /\ pc[p] # "append"

(* Nobody is going to write the trail of the Run.                          *)
Ended(r) ==
  /\ r \in Runs /\ dir[r] # "absent"
  /\ \A p \in Executors : run[p] = r => Through(p)

(* An outcome in the index is one that was reached.                        *)
RowsEnded == \A r \in Runs : isTerminalStatus(row[r]) => Ended(r)

(* Where a follower waits for the index it has opened.                     *)
Opening == {"resolve", "enrich", "again"}

(* What a follower has read of its Run.                                    *)
FollowerOK(f) ==
  /\ look[f] \notin Opening => pc[f] \in {"idle", "listed", "listFailed"}
  /\ look[f] # "away" => target[f] \in Runs
  /\ look[f] = "enrich" => ~runFollowDone(seen[f])
  /\ look[f] \in {"logs", "again", "list", "read"} /\ runFollowDone(seen[f]) => Ended(target[f])
  /\ look[f] \in {"again", "list", "read"} /\ runFollowDone(seen[f]) =>
       named[target[f]] \subseteq paths[f]
  /\ look[f] = "success" => Ended(target[f]) /\ named[target[f]] \subseteq shown[f]

(* A worker that is not started yet has done nothing.                      *)
LaunchOK(p) == launch[p] = "logged" => pc[p] = "idle"

FollowInv ==
  /\ launch = [p \in Executors |-> launch[p]]
  /\ look = [f \in Followers |-> look[f]]
  /\ target = [f \in Followers |-> target[f]]
  /\ seen = [f \in Followers |-> seen[f]]
  /\ paths = [f \in Followers |-> paths[f]]
  /\ shown = [f \in Followers |-> shown[f]]
  /\ named = [r \in Runs |-> named[r]]
  /\ RowsEnded
  /\ \A p \in Executors : LaunchOK(p)
  /\ \A f \in Followers : FollowerOK(f)

-----------------------------------------------------------------------------
(* Steps of RunFollow as steps of RunExecution.                            *)

(* A failure of the disk or a Ctrl-C that changes nothing else.            *)
Counting ==
  /\ UNCHANGED <<storeVars, procVars, remoteVars>>
  /\ {diskFaults, indexFaults, remoteFaults, cancels, crashes}' \subseteq Nat

(* A command that ends before it has a Run.                                *)
GivesUp(p) == pc[p] = "idle" /\ Local(p, "refused")

RunSteps == [Next]_vars \/ Counting \/ \E p \in Executors : GivesUp(p)

(* What the process of a Run does.                                         *)
Works(p) ==
  \/ \E r \in Runs : Reserve(p, r)
  \/ Executing(p) \/ Cancel(p) \/ Crash(p) \/ Counting \/ GivesUp(p) \/ UNCHANGED vars

(* Listing the index is what any reader does.                              *)
LEMMA ListingLists ==
  ASSUME FollowInv, NEW f \in Followers, NEW place, look[f] \notin Opening, Listing(f, place)
  PROVE  List(f)
  BY DEF FollowInv, FollowerOK, Listing, List

(* A write that the disk refuses is counted.                               *)
LEMMA FaultCounts ==
  ASSUME IInv, DiskFault, UNCHANGED <<storeVars, procVars, remoteVars>>
  PROVE  Counting
  BY FaultsType DEF IInv, Counting

(* Who steps: the process of a Run, one that lists the index, or a         *)
(* follower.                                                               *)
LEMMA WhoSteps ==
  ASSUME IInv, FollowInv, FollowNext
  PROVE  \/ UNCHANGED followVars /\ \E p \in Executors : Works(p)
         \/ UNCHANGED followVars /\ \E p \in Procs : Indexing(p)
         \/ UNCHANGED followVars /\ \E q \in Readers \ Followers : List(q)
         \/ \E f \in Followers : Following(f) \/ Interrupted(f) \/ \E r \in Runs : Follow(f, r)
<1>1. \A p \in Executors : Given[p] \in Runs
  BY RunFollowAssumption
<1>2. ASSUME NEW p \in Executors, RunLocal(p) \/ StartDetached(p) \/ Launching(p)
      PROVE  UNCHANGED followVars /\ Works(p)
  BY <1>1, <1>2 DEF RunLocal, StartDetached, Launching, StartWorker, ReportRun, RunWorker, Works,
                    GivesUp, FollowInv, LaunchOK, Launch
<1>3. ASSUME NEW p \in Executors, CreateTemporary(p) \/ WriteLog(p)
      PROVE  UNCHANGED followVars /\ Works(p)
  BY <1>3, FaultCounts DEF CreateTemporary, WriteLog, Works
<1>4. ASSUME NEW p \in Executors, EndStep(p) \/ Work(p)
      PROVE  UNCHANGED followVars /\ Works(p)
  BY <1>4 DEF EndStep, Work, Works, Executing
<1> QED
  BY <1>2, <1>3, <1>4 DEF FollowNext, FollowStep, Indexes, Works

(* What a follower does to the Runs: nothing, or it lists the index.       *)
LEMMA FollowerSteps ==
  ASSUME IInv, FollowInv, NEW f \in Followers,
         Following(f) \/ Interrupted(f) \/ \E r \in Runs : Follow(f, r)
  PROVE  UNCHANGED logVars /\ (UNCHANGED vars \/ List(f) \/ Counting)
<1>1. CASE \/ ResolveRunID(f) \/ EnrichStatus(f) \/ ListLogs(f) \/ ReadLogs(f) \/ Sleep(f)
  BY <1>1 DEF ResolveRunID, EnrichStatus, ListLogs, ReadLogs, Sleep
<1>2. CASE LoadDetail(f)
  BY <1>2, ListingLists DEF LoadDetail, Opening
<1>3. CASE Logs(f)
  BY <1>3, ListingLists DEF Logs, Opening
<1>4. CASE \E r \in Runs : Follow(f, r)
  BY <1>4, ListingLists DEF Follow, Opening
<1>5. CASE Interrupted(f)
  BY <1>5 DEF Interrupted, Counting, IInv, TypeOK
<1> QED
  BY <1>1, <1>2, <1>3, <1>4, <1>5 DEF Following

(* Every step of the system is one that the Runs' part allows.             *)
LEMMA AllRunSteps ==
  ASSUME IInv, FollowInv, [FollowNext]_allVars
  PROVE  RunSteps
<1>1. CASE UNCHANGED allVars
  BY <1>1 DEF allVars, RunSteps
<1>2. ASSUME NEW p \in Executors, Works(p)
      PROVE  RunSteps
  BY <1>2 DEF Works, RunSteps, Next
<1>3. ASSUME NEW f \in Followers, UNCHANGED vars \/ List(f) \/ Counting
      PROVE  RunSteps
  BY <1>3, RunFollowAssumption DEF RunSteps, Next
<1> QED
  BY <1>1, <1>2, <1>3, WhoSteps, FollowerSteps DEF RunSteps, Next

(* They keep the invariant of RunExecution.                                *)
LEMMA RunsKeep ==
  ASSUME IInv, RunSteps
  PROVE  IInv'
<1>1. CASE Counting
  <2>1. TypeOK'
    BY <1>1 DEF Counting, IInv, TypeOK, StoreTypeOK, storeVars, procVars, remoteVars
  <2>2. Agree'
    BY <1>1, StutterKeeps DEF Counting, storeVars, procVars
  <2> QED
    BY <2>1, <2>2 DEF IInv, Agree
<1>2. ASSUME NEW p \in Executors, GivesUp(p)
      PROVE  IInv'
  <2>1. TypeOK' /\ Agree'
    BY <1>2, LocalType, LocalKeeps, Names DEF GivesUp, Procs, IInv
  <2> QED
    BY <2>1 DEF IInv, Agree
<1> QED
  BY <1>1, <1>2, IInvNext DEF RunSteps

-----------------------------------------------------------------------------
(* A Run that has ended stays as it is.                                    *)

(* A process that is through writes no line, and keeps its Run.            *)
LEMMA ThroughStays ==
  ASSUME IInv, [Next]_vars, NEW p \in Executors, Through(p)
  PROVE  Through(p)' /\ run'[p] = run[p]
<1>1. /\ TypeOK /\ p \in Procs /\ ExecutorOK(p)
      /\ pc \in [Procs -> Locations] /\ caller \in [Procs -> Callers]
  BY DEF IInv, TypeOK, Procs
<1>2. CASE status[p] \in Outcomes
  BY <1>2, ClosingStays DEF Through, Closing, isTerminalStatus
<1>3. CASE status[p] = "pending_manual"
  <2>1. pc[p] \notin OpenLocs \union {"append", "publish", "sealing"}
    BY <1>1, <1>3 DEF ExecutorOK, StatusPlaced
  <2>2. pc[p] \in IndexLocs => caller[p] = "manual"
    BY <1>1, <1>3 DEF ExecutorOK, StatusPlaced, Outcomes
  <2>3. ~Executing(p) /\ ~ \E r \in Runs : Reserve(p, r) \/ Refuse(p, r)
    BY <2>1 DEF Executing, WriteRequest, WriteRun, PublishRun, AppendEvent, PublishEvent,
         Preflight, Fulfill, NextStep, Approve, PrepareStep, ExecuteStep, Manual, Succeed,
         CancelRun, Fail, Interrupt, SealAfterError, Reserve, Refuse, OpenLocs, BodyLocs
  <2>4. CASE Indexing(p)
    <3>1. pc[p] \in IndexLocs /\ UNCHANGED <<run, status>>
      BY <2>4 DEF Indexing, OpenIndex, BackfillLookup, BackfillRead, BackfillImport, BackfillDone, UpsertRow,
                  EnqueueOutbox, MarkPending, IndexLocs, Local
    <3>2. /\ \A l : Goto(p, l) => pc'[p] = l
          /\ IndexFails(p) => pc'[p] = "returned"
          /\ IndexDone(p) => pc'[p] = "returned"
      BY <1>1, <2>2, <3>1 DEF Goto, IndexFails, IndexDone
    <3>3. pc'[p] # "append"
      BY <2>4, <3>1, <3>2 DEF Indexing, OpenIndex, BackfillLookup, BackfillRead, BackfillImport, BackfillDone,
                  UpsertRow, EnqueueOutbox, MarkPending, Local, IndexLocs
    <3> QED
      BY <3>1, <3>3 DEF Through
  <2>5. CASE Crash(p)
    BY <1>1, <2>5 DEF Crash, Goto, Through
  <2> QED
    BY <2>3, <2>4, <2>5, OwnSteps DEF Through
<1> QED
  BY <1>2, <1>3 DEF Through, isTerminalStatus

(* A Run that has ended stays so.                                          *)
LEMMA EndedStays ==
  ASSUME IInv, RunSteps, NEW r, Ended(r)
  PROVE  Ended(r)'
<1>1. CASE [Next]_vars
  <2>1. dir'[r] # "absent"
    BY <1>1, DirStays DEF Ended
  <2>2. ASSUME NEW p \in Executors, run'[p] = r
        PROVE  Through(p)'
    BY <1>1, <2>2, RunStays, ThroughStays DEF Ended
  <2> QED
    BY <2>1, <2>2 DEF Ended
<1>2. CASE Counting
  BY <1>2 DEF Counting, storeVars, procVars, Ended, Through
<1>3. ASSUME NEW q \in Executors, GivesUp(q)
      PROVE  Ended(r)'
  <2>1. run' = run /\ status' = status /\ dir' = dir /\ pc' = [pc EXCEPT ![q] = "refused"]
    BY <1>3 DEF GivesUp, Local, Goto, storeVars
  <2>2. \A p \in Executors : Through(p) => Through(p)'
    BY <2>1, "refused" # "append" DEF Through, IInv, TypeOK, Procs
  <2> QED
    BY <2>1, <2>2 DEF Ended
<1> QED
  BY <1>1, <1>2, <1>3 DEF RunSteps

(* The Run of a process that is through has ended: it has no other.        *)
LEMMA ThroughEnds ==
  ASSUME IInv, NEW p \in Executors, Through(p), run[p] \in Runs
  PROVE  Ended(run[p])
  BY RunExecutionAssumption DEF IInv, Owned, SingleWriter, Ended

(* A trail with an outcome belongs to a Run that has ended.                *)
LEMMA ClosedEnds ==
  ASSUME IInv, NEW r \in Runs, TerminalLines(journal[r]) # {}
  PROVE  Ended(r)
<1>1. dir[r] # "absent"
  BY DEF IInv, Owned, TerminalLines
<1>2. PICK p \in Executors : run[p] = r
  BY <1>1 DEF IInv, Owned
<1>3. StatusWritten(p)
  BY <1>2, RunExecutionAssumption DEF IInv
<1>4. Through(p)
  BY <1>2, <1>3 DEF StatusWritten, Through, isTerminalStatus
<1> QED
  BY <1>2, <1>4, ThroughEnds

(* Who writes a row: the process of the Run, or Backfill what it has read. *)
LEMMA RowSteps ==
  ASSUME IInv, [Next]_vars, NEW r \in Runs, row'[r] # row[r]
  PROVE  \E p \in Procs : \/ UpsertRow(p) /\ run[p] = r /\ row'[r] = IndexStatus(p)
                          \/ BackfillImport(p) /\ found[p].run = r /\ row'[r] = found[p].status
<1> USE DEF storeVars, Local, Announce, Conclude
<1>1. row \in [Runs -> RunStatuses \union {"absent"}]
  BY DEF IInv, TypeOK, StoreTypeOK
<1>2. ASSUME NEW p \in Procs, Indexing(p)
      PROVE  \/ UpsertRow(p) /\ run[p] = r /\ row'[r] = IndexStatus(p)
             \/ BackfillImport(p) /\ found[p].run = r /\ row'[r] = found[p].status
  <2>1. UpsertRow(p) \/ BackfillImport(p)
    BY <1>2 DEF Indexing, OpenIndex, BackfillLookup, BackfillRead, BackfillDone, EnqueueOutbox, MarkPending
  <2> QED
    BY <1>1, <2>1 DEF UpsertRow, BackfillImport, Upsert
<1>3. ASSUME NEW p \in Executors, Executing(p)
      PROVE  UNCHANGED row
  <2>1. CASE WriteRequest(p) \/ WriteRun(p) \/ PublishRun(p) \/ AppendEvent(p) \/ PublishEvent(p)
    BY <2>1 DEF WriteRequest, WriteRun, PublishRun, AppendEvent, PublishEvent
  <2>2. CASE \/ Preflight(p) \/ Fulfill(p) \/ NextStep(p) \/ Approve(p) \/ PrepareStep(p)
             \/ ExecuteStep(p) \/ Manual(p)
    BY <2>2 DEF Preflight, Fulfill, NextStep, Approve, PrepareStep, ExecuteStep, Manual
  <2>3. CASE Succeed(p) \/ CancelRun(p) \/ Fail(p) \/ Interrupt(p) \/ SealAfterError(p)
    BY <2>3 DEF Succeed, CancelRun, Fail, Interrupt, SealAfterError
  <2> QED
    BY <1>3, <2>1, <2>2, <2>3 DEF Executing
<1>4. CASE \/ \E p \in Executors, x \in Runs : Reserve(p, x) \/ Refuse(p, x)
           \/ \E p \in Executors : Cancel(p) \/ Crash(p)
           \/ \E p \in Readers : List(p)
           \/ UNCHANGED vars
  BY <1>4 DEF Reserve, Refuse, Cancel, Crash, List, vars
<1> QED
  BY <1>2, <1>3, <1>4 DEF Next

(* An outcome gets into the index only when it has been reached.           *)
LEMMA RowsKeep ==
  ASSUME IInv, RowsEnded, RunSteps
  PROVE  RowsEnded'
<1> SUFFICES ASSUME NEW r \in Runs, isTerminalStatus(row'[r])
             PROVE  Ended(r)
  BY EndedStays DEF RowsEnded
<1>1. CASE row'[r] = row[r]
  BY <1>1 DEF RowsEnded
<1>2. CASE row'[r] # row[r]
  <2>1. [Next]_vars
    BY <1>2 DEF RunSteps, Counting, GivesUp, Local, storeVars
  <2>2. PICK p \in Procs : \/ UpsertRow(p) /\ run[p] = r /\ row'[r] = IndexStatus(p)
                           \/ BackfillImport(p) /\ found[p].run = r /\ row'[r] = found[p].status
    BY <1>2, <2>1, RowSteps
  <2>3. CASE UpsertRow(p) /\ run[p] = r /\ row'[r] = IndexStatus(p)
    <3>1. pc[p] = "upsert"
      BY <2>3 DEF UpsertRow
    <3>2. p \in Executors /\ IndexStatus(p) = status[p]
      BY <3>1, PastBackfill, IndexStatusHeld DEF IndexLocs
    <3> QED
      BY <2>3, <3>1, <3>2, ThroughEnds DEF Through
  <2>4. CASE BackfillImport(p) /\ found[p].run = r /\ row'[r] = found[p].status
    <3>1. pc[p] = "import" /\ FoundTrue(p) /\ ~isTerminalStatus("running")
      BY <2>4 DEF BackfillImport, IInv, isTerminalStatus, Outcomes
    <3>2. TerminalLines(journal[r]) # {}
      BY <2>4, <3>1 DEF FoundTrue
    <3> QED
      BY <3>2, ClosedEnds
  <2> QED
    BY <2>2, <2>3, <2>4
<1> QED
  BY <1>1, <1>2

(* The logs of a Run that has ended are all named.                         *)
LEMMA NamedStays ==
  ASSUME IInv, FollowInv, [FollowNext]_allVars, NEW r, Ended(r)
  PROVE  named'[r] = named[r]
<1>1. ASSUME NEW p \in Executors, Work(p)
      PROVE  named'[r] = named[r]
  <2>1. CASE UNCHANGED named
    BY <2>1
  <2>2. CASE pc[p] = "append" /\ \E new : named' = [named EXCEPT ![run[p]] = new]
    <3>1. run[p] # r
      BY <2>2 DEF Ended, Through
    <3> QED
      BY <2>2, <3>1 DEF FollowInv, Ended
  <2> QED
    BY <1>1, <2>1, <2>2 DEF Work, NameLogs
<1>2. ASSUME NEW p \in Executors, RunLocal(p) \/ StartDetached(p) \/ Launching(p)
      PROVE  UNCHANGED named
  BY <1>2 DEF RunLocal, StartDetached, Launching, StartWorker, ReportRun, RunWorker, logVars
<1>3. ASSUME NEW p \in Executors, CreateTemporary(p) \/ WriteLog(p) \/ EndStep(p)
      PROVE  UNCHANGED named
  BY <1>3 DEF CreateTemporary, WriteLog, EndStep
<1>4. ASSUME NEW f \in Followers,
             Following(f) \/ Interrupted(f) \/ \E x \in Runs : Follow(f, x)
      PROVE  UNCHANGED named
  BY <1>4, FollowerSteps DEF logVars
<1> QED
  BY <1>1, <1>2, <1>3, <1>4 DEF FollowNext, FollowStep, Indexes, allVars, logVars

-----------------------------------------------------------------------------
(* What a follower has read stays true.                                    *)

(* While others step, or while it waits for the index.                     *)
LEMMA WaitKeeps ==
  ASSUME IInv, FollowInv, [FollowNext]_allVars, NEW g \in Followers,
         look'[g] = look[g], target'[g] = target[g], seen'[g] = seen[g],
         paths'[g] = paths[g], shown'[g] = shown[g],
         pc'[g] = pc[g] \/ look[g] \in Opening
  PROVE  FollowerOK(g)'
<1>1. FollowerOK(g) /\ RunSteps
  BY AllRunSteps DEF FollowInv
<1>2. ASSUME NEW r, r = target[g], Ended(r)
      PROVE  Ended(target[g])' /\ named'[r] = named[r]
  <2>1. Ended(r)' /\ named'[r] = named[r] /\ target'[g] = r
    BY <1>1, <1>2, EndedStays, NamedStays
  <2> QED
    BY <2>1 DEF Ended
<1> QED
  BY <1>1, <1>2 DEF FollowerOK

(* A step of another process does not move it.                             *)
LEMMA OthersStep ==
  ASSUME IInv, FollowInv, FollowNext, UNCHANGED followVars, NEW g \in Followers,
         \/ \E p \in Executors : Works(p)
         \/ \E p \in Procs : Indexing(p)
         \/ \E q \in Readers \ Followers : List(q)
  PROVE  FollowerOK(g)'
<1>1. /\ g \in Readers /\ g \in Procs /\ g \notin Executors /\ TypeOK /\ FollowerOK(g)
      /\ pc \in [Procs -> Locations]
  BY RunFollowAssumption, RunExecutionAssumption DEF Procs, IInv, FollowInv, TypeOK
<1>2. ASSUME NEW p \in Procs, p # g, Frame(p)
      PROVE  pc'[g] = pc[g]
  BY <1>1, <1>2 DEF Frame
<1>3. ASSUME NEW p \in Executors, Works(p)
      PROVE  pc'[g] = pc[g]
  <2>1. p \in Procs /\ p # g
    BY <1>1 DEF Procs
  <2>2. CASE Counting \/ UNCHANGED vars
    BY <2>2 DEF Counting, vars, procVars
  <2>3. CASE GivesUp(p)
    BY <1>1, <1>2, <2>1, <2>3, FormFrame DEF GivesUp
  <2>4. CASE (\E r \in Runs : Reserve(p, r)) \/ Executing(p) \/ Cancel(p) \/ Crash(p)
    BY <1>1, <1>2, <2>1, <2>4, ExecutingFrame
  <2> QED
    BY <1>3, <2>2, <2>3, <2>4 DEF Works
<1>4. ASSUME NEW p \in Procs, Indexing(p)
      PROVE  pc'[g] = pc[g] \/ look[g] \in Opening
  <2>1. CASE p = g
    <3>1. pc[g] \notin {"idle", "listed", "listFailed"}
      BY <1>4, <2>1 DEF Indexing, OpenIndex, BackfillLookup, BackfillRead, BackfillImport, BackfillDone,
                        UpsertRow, EnqueueOutbox, MarkPending
    <3> QED
      BY <1>1, <3>1 DEF FollowerOK
  <2>2. CASE p # g
    BY <1>1, <1>2, <1>4, <2>2, IndexingFrame
  <2> QED
    BY <2>1, <2>2
<1>5. ASSUME NEW q \in Readers \ Followers, List(q)
      PROVE  pc'[g] = pc[g]
  BY <1>1, <1>2, <1>5, ExecutingFrame DEF Procs
<1>6. pc'[g] = pc[g] \/ look[g] \in Opening
  BY <1>3, <1>4, <1>5
<1> QED
  BY <1>6, WaitKeeps DEF followVars

(* Of the followers only the one that steps changes what it has read.      *)
LEMMA OtherFollower ==
  ASSUME IInv, FollowInv, NEW f \in Followers, NEW g \in Followers, g # f,
         Following(f) \/ Interrupted(f) \/ \E r \in Runs : Follow(f, r)
  PROVE  /\ look'[g] = look[g] /\ target'[g] = target[g] /\ seen'[g] = seen[g]
         /\ paths'[g] = paths[g] /\ shown'[g] = shown[g] /\ pc'[g] = pc[g]
<1>1. f \in Procs /\ g \in Procs /\ f \in Readers /\ TypeOK
  BY RunFollowAssumption DEF Procs, IInv
<1>2. pc'[g] = pc[g]
  <2>1. CASE UNCHANGED vars \/ Counting
    BY <2>1 DEF Counting, vars, procVars
  <2>2. CASE List(f)
    BY <1>1, <2>2, ExecutingFrame DEF Frame
  <2> QED
    BY <2>1, <2>2, FollowerSteps
<1> USE DEF FollowInv, Look, Listing
<1>3. CASE ResolveRunID(f) \/ EnrichStatus(f) \/ ListLogs(f) \/ ReadLogs(f) \/ Sleep(f)
  BY <1>2, <1>3 DEF ResolveRunID, EnrichStatus, ListLogs, ReadLogs, Sleep
<1>4. CASE LoadDetail(f)
  BY <1>2, <1>4 DEF LoadDetail
<1>5. CASE Logs(f)
  BY <1>2, <1>5 DEF Logs
<1>6. CASE Interrupted(f) \/ \E r \in Runs : Follow(f, r)
  BY <1>2, <1>6 DEF Interrupted, Follow
<1> QED
  BY <1>3, <1>4, <1>5, <1>6 DEF Following

(* The step of the follower itself.                                        *)
LEMMA OwnRound ==
  ASSUME IInv, FollowInv, [FollowNext]_allVars, NEW f \in Followers,
         Following(f) \/ Interrupted(f) \/ \E r \in Runs : Follow(f, r)
  PROVE  FollowerOK(f)'
<1>1. /\ FollowerOK(f) /\ f \in Procs /\ f \in Readers /\ pc \in [Procs -> Locations]
      /\ TypeOK /\ RunSteps
  BY RunFollowAssumption, AllRunSteps DEF Procs, IInv, FollowInv, TypeOK
<1>2. /\ look = [g \in Followers |-> look[g]] /\ target = [g \in Followers |-> target[g]]
      /\ seen = [g \in Followers |-> seen[g]] /\ paths = [g \in Followers |-> paths[g]]
      /\ shown = [g \in Followers |-> shown[g]]
  BY DEF FollowInv
<1>3. PICK r : r = target[f]
  OBVIOUS
<1>4. Ended(r) => Ended(r)' /\ named'[r] = named[r]
  BY <1>1, EndedStays, NamedStays
<1>5. target'[f] = r /\ Ended(r)' => Ended(target[f])'
  BY DEF Ended
<1>6. \A place : Listing(f, place) => look'[f] = place /\ pc'[f] = "open"
  BY <1>1, <1>2 DEF Listing, Look, IndexRun, Goto
<1>7. \A place : Look(f, place) => look'[f] = place
  BY <1>2 DEF Look
<1>8. ~runFollowDone("running")
  BY DEF runFollowDone, Outcomes
<1>9. CASE ResolveRunID(f)
  <2>1. /\ pc'[f] = pc[f] /\ target'[f] = r /\ r \in Runs /\ pc[f] \in {"listed", "listFailed"}
        /\ look'[f] \in {"contract", "load", "operational"}
    BY <1>1, <1>3, <1>7, <1>9 DEF ResolveRunID, Listed, FollowerOK, vars, procVars
  <2> QED
    BY <2>1 DEF FollowerOK, Opening
<1>10. CASE LoadDetail(f)
  <2>1. target'[f] = r /\ r \in Runs /\ pc[f] \in {"idle", "listed", "listFailed"}
    BY <1>1, <1>3, <1>10 DEF LoadDetail, FollowerOK, Opening
  <2>2. CASE look'[f] = "enrich" /\ seen'[f] = "running"
    BY <1>8, <2>1, <2>2 DEF FollowerOK, Opening
  <2>3. CASE /\ look'[f] = "logs" /\ pc' = pc
             /\ seen'[f] = StatusFromEvents(journal[r]) /\ seen'[f] # "running"
    <3>1. Ended(r)
      BY <2>1, <2>3, OpenReadsRunning, ClosedEnds
    <3> QED
      BY <1>4, <1>5, <2>1, <2>3, <3>1 DEF FollowerOK, Opening
  <2>4. CASE look'[f] \in {"interrupted", "operational"} /\ pc' = pc
    BY <2>1, <2>4 DEF FollowerOK, Opening
  <2> QED
    BY <1>2, <1>3, <1>6, <1>7, <1>10, <2>2, <2>3, <2>4 DEF LoadDetail, vars, procVars
<1>11. CASE EnrichStatus(f)
  <2>1. /\ target'[f] = r /\ r \in Runs /\ pc[f] \in {"listed", "listFailed"} /\ pc' = pc
        /\ look'[f] = "logs" /\ ~runFollowDone(seen[f])
    BY <1>1, <1>3, <1>7, <1>11 DEF EnrichStatus, Listed, FollowerOK, vars, procVars
  <2>2. seen'[f] = seen[f] \/ seen'[f] = row[r]
    BY <1>2, <1>3, <1>11 DEF EnrichStatus
  <2>3. runFollowDone(seen'[f]) => Ended(r)
    BY <2>1, <2>2 DEF FollowInv, RowsEnded, runFollowDone, isTerminalStatus
  <2> QED
    BY <1>4, <1>5, <2>1, <2>3 DEF FollowerOK, Opening
<1>12. CASE Logs(f)
  <2>1. /\ target'[f] = r /\ r \in Runs /\ pc[f] \in {"idle", "listed", "listFailed"}
        /\ look[f] = "logs" /\ seen'[f] = seen[f]
    BY <1>1, <1>3, <1>12 DEF Logs, FollowerOK, Opening
  <2>2. CASE look'[f] = "operational" /\ pc' = pc
    BY <2>1, <2>2 DEF FollowerOK, Opening
  <2>3. CASE /\ look'[f] = "again" \/ (look'[f] = "list" /\ pc' = pc)
             /\ paths'[f] = named[r]
    <3>1. runFollowDone(seen[f]) => Ended(r)
      BY <1>1, <1>3, <2>1 DEF FollowerOK
    <3> QED
      BY <1>4, <1>5, <2>1, <2>3, <3>1 DEF FollowerOK, Opening
  <2> QED
    BY <1>2, <1>3, <1>6, <1>7, <1>12, <2>2, <2>3 DEF Logs, vars, procVars
<1>13. CASE ListLogs(f)
  <2>1. /\ target'[f] = r /\ r \in Runs /\ pc[f] \in {"idle", "listed", "listFailed"} /\ pc' = pc
        /\ look[f] \in {"list", "again"} /\ look'[f] = "read" /\ seen'[f] = seen[f]
    BY <1>1, <1>3, <1>7, <1>13 DEF ListLogs, Listed, FollowerOK, Opening, vars, procVars
  <2>2. paths'[f] = paths[f] \/ paths[f] = {}
    BY <1>2, <1>13 DEF ListLogs
  <2>3. runFollowDone(seen[f]) => Ended(r) /\ named[r] \subseteq paths'[f]
    BY <1>1, <1>3, <2>1, <2>2 DEF FollowerOK
  <2> QED
    BY <1>4, <1>5, <2>1, <2>3 DEF FollowerOK, Opening
<1>14. CASE ReadLogs(f)
  <2>1. /\ target'[f] = r /\ r \in Runs /\ pc[f] \in {"idle", "listed", "listFailed"} /\ pc' = pc
        /\ look[f] = "read"
        /\ \/ look'[f] \in {"operational", "sleep"}
           \/ /\ look'[f] = "success" /\ runFollowDone(seen[f])
              /\ shown'[f] = shown[f] \union paths[f]
    BY <1>1, <1>2, <1>3, <1>7, <1>14 DEF ReadLogs, FollowerOK, Opening, vars, procVars
  <2>2. runFollowDone(seen[f]) => Ended(r) /\ named[r] \subseteq paths[f]
    BY <1>1, <1>3, <2>1 DEF FollowerOK
  <2> QED
    BY <1>4, <1>5, <2>1, <2>2 DEF FollowerOK, Opening
<1>15. CASE Sleep(f)
  <2>1. /\ pc'[f] = pc[f] /\ target'[f] = r /\ r \in Runs
        /\ pc[f] \in {"idle", "listed", "listFailed"} /\ look'[f] = "load"
    BY <1>1, <1>3, <1>7, <1>15 DEF Sleep, FollowerOK, Opening, vars, procVars
  <2> QED
    BY <2>1 DEF FollowerOK, Opening
<1>16. CASE Interrupted(f)
  BY <1>16, WaitKeeps DEF Interrupted, procVars
<1>17. ASSUME NEW x \in Runs, Follow(f, x)
       PROVE  FollowerOK(f)'
  <2>1. target'[f] = x /\ look'[f] = "resolve"
    BY <1>2, <1>6, <1>17 DEF Follow
  <2> QED
    BY <2>1 DEF FollowerOK, Opening
<1> QED
  BY <1>9, <1>10, <1>11, <1>12, <1>13, <1>14, <1>15, <1>16, <1>17 DEF Following

-----------------------------------------------------------------------------
(* FollowInv is inductive.                                                 *)

(* The maps of RunFollow stay maps.                                        *)
Maps ==
  /\ launch = [p \in Executors |-> launch[p]]
  /\ look = [f \in Followers |-> look[f]]
  /\ target = [f \in Followers |-> target[f]]
  /\ seen = [f \in Followers |-> seen[f]]
  /\ paths = [f \in Followers |-> paths[f]]
  /\ shown = [f \in Followers |-> shown[f]]
  /\ named = [r \in Runs |-> named[r]]

(* What is kept by file, reader or Run stays a function of them.           *)
LEMMA MapsKeep ==
  ASSUME Maps, [FollowNext]_allVars
  PROVE  Maps'
<1> USE DEF Maps, Launch, Look, Listing, followVars, logVars
<1>1. ASSUME NEW p \in Executors, RunLocal(p) \/ StartDetached(p) \/ Launching(p)
      PROVE  Maps'
  BY <1>1 DEF RunLocal, StartDetached, Launching, StartWorker, ReportRun, RunWorker
<1>2. ASSUME NEW p \in Executors, CreateTemporary(p) \/ WriteLog(p) \/ EndStep(p)
      PROVE  Maps'
  BY <1>2 DEF CreateTemporary, WriteLog, EndStep
<1>3. ASSUME NEW p \in Executors, Work(p)
      PROVE  Maps'
  <2>1. UNCHANGED named \/ \E new : named' = [named EXCEPT ![run[p]] = new]
    BY <1>3 DEF Work, NameLogs
  <2> QED
    BY <1>3, <2>1 DEF Work
<1>4. ASSUME NEW f \in Followers,
             ResolveRunID(f) \/ LoadDetail(f) \/ EnrichStatus(f) \/ Logs(f)
      PROVE  Maps'
  BY <1>4 DEF ResolveRunID, LoadDetail, EnrichStatus, Logs
<1>5. ASSUME NEW f \in Followers, ListLogs(f) \/ ReadLogs(f) \/ Sleep(f) \/ Interrupted(f)
      PROVE  Maps'
  BY <1>5 DEF ListLogs, ReadLogs, Sleep, Interrupted
<1>6. ASSUME NEW f \in Followers, NEW r \in Runs, Follow(f, r)
      PROVE  Maps'
  BY <1>6 DEF Follow
<1>7. CASE UNCHANGED <<launch, logVars, followVars>>
  BY <1>7
<1> QED
  BY <1>1, <1>2, <1>3, <1>4, <1>5, <1>6, <1>7
     DEF FollowNext, FollowStep, Indexes, Following, allVars

(* A worker leaves its place only when it is started or fails to.          *)
LEMMA LaunchKeeps ==
  ASSUME IInv, FollowInv, [FollowNext]_allVars, NEW q \in Executors
  PROVE  LaunchOK(q)'
<1>1. /\ q \in Procs /\ q \notin Readers /\ TypeOK /\ LaunchOK(q)
      /\ launch = [p \in Executors |-> launch[p]] /\ \A p \in Executors : Given[p] \in Runs
  BY RunExecutionAssumption, RunFollowAssumption DEF Procs, IInv, FollowInv
<1>2. ASSUME NEW p \in Procs, Frame(p), p # q
      PROVE  pc'[q] = pc[q]
  BY <1>1, <1>2 DEF Frame
<1>3. ASSUME NEW p \in Procs,
             \/ \E r \in Runs : Reserve(p, r) \/ Refuse(p, r)
             \/ Executing(p) \/ Cancel(p) \/ Crash(p) \/ List(p) \/ Indexing(p) \/ GivesUp(p)
      PROVE  Frame(p)
  BY <1>1, <1>3, ExecutingFrame, IndexingFrame, FormFrame DEF GivesUp
<1>4. ASSUME NEW p \in Executors, RunLocal(p) \/ StartDetached(p) \/ Launching(p)
      PROVE  LaunchOK(q)'
  <2>1. CASE p = q
    BY <1>1, <1>4, <2>1 DEF RunLocal, StartDetached, Launching, StartWorker, ReportRun, RunWorker,
                            Launch, LaunchOK, Reserve, vars, procVars
  <2>2. CASE p # q
    <3>1. launch'[q] = launch[q]
      BY <1>1, <1>4, <2>2 DEF RunLocal, StartDetached, Launching, StartWorker, ReportRun,
                              RunWorker, Launch
    <3>2. (\E r \in Runs : Reserve(p, r)) \/ GivesUp(p) \/ UNCHANGED vars
      BY <1>1, <1>4 DEF RunLocal, StartDetached, Launching, StartWorker, ReportRun, RunWorker,
                        GivesUp, FollowInv, LaunchOK, Launch
    <3>3. pc'[q] = pc[q]
      BY <1>2, <1>3, <2>2, <3>2 DEF Procs, vars, procVars
    <3> QED
      BY <1>1, <3>1, <3>3 DEF LaunchOK
  <2> QED
    BY <2>1, <2>2
<1>5. ASSUME NEW p \in Executors, UNCHANGED launch,
             Executing(p) \/ Cancel(p) \/ Crash(p) \/ Counting \/ UNCHANGED vars
      PROVE  LaunchOK(q)'
  <2>1. CASE Counting \/ UNCHANGED vars
    BY <1>1, <1>5, <2>1 DEF Counting, vars, procVars, LaunchOK
  <2>2. CASE p # q /\ (Executing(p) \/ Cancel(p) \/ Crash(p))
    BY <1>1, <1>2, <1>3, <1>5, <2>2 DEF LaunchOK, Procs
  <2>3. CASE p = q /\ (Executing(p) \/ Cancel(p) \/ Crash(p))
    <3>1. pc[q] # "idle"
      BY <2>3 DEF Executing, WriteRequest, WriteRun, PublishRun, AppendEvent, PublishEvent,
           Preflight, Fulfill, NextStep, Approve, PrepareStep, ExecuteStep, Manual, Succeed,
           CancelRun, Fail, Interrupt, SealAfterError, Cancel, Crash, Resting
    <3> QED
      BY <1>1, <1>5, <3>1 DEF LaunchOK
  <2> QED
    BY <1>5, <2>1, <2>2, <2>3
<1>6. ASSUME NEW p \in Executors, CreateTemporary(p) \/ WriteLog(p) \/ EndStep(p) \/ Work(p)
      PROVE  LaunchOK(q)'
  BY <1>5, <1>6, FaultCounts DEF CreateTemporary, WriteLog, EndStep, Work, Executing
<1>7. ASSUME NEW p \in Procs, Indexing(p), UNCHANGED launch
      PROVE  LaunchOK(q)'
  <2>1. pc[p] # "idle"
    BY <1>7 DEF Indexing, OpenIndex, BackfillLookup, BackfillRead, BackfillImport, BackfillDone, UpsertRow,
                EnqueueOutbox, MarkPending
  <2> QED
    BY <1>1, <1>2, <1>3, <1>7, <2>1 DEF LaunchOK
<1>8. ASSUME NEW f \in Readers, UNCHANGED launch, List(f) \/ Counting \/ UNCHANGED vars
      PROVE  LaunchOK(q)'
  BY <1>1, <1>2, <1>3, <1>8 DEF LaunchOK, Counting, vars, procVars, Procs
<1>9. ASSUME NEW f \in Followers,
             Following(f) \/ Interrupted(f) \/ \E r \in Runs : Follow(f, r)
      PROVE  LaunchOK(q)'
  <2>1. UNCHANGED launch
    BY <1>9 DEF Following, ResolveRunID, LoadDetail, EnrichStatus, Logs, ListLogs, ReadLogs,
                Sleep, Interrupted, Follow
  <2> QED
    BY <1>8, <1>9, <2>1, FollowerSteps, RunFollowAssumption
<1>10. CASE UNCHANGED allVars
  BY <1>1, <1>10 DEF allVars, vars, procVars, LaunchOK
<1> QED
  BY <1>4, <1>5, <1>6, <1>7, <1>8, <1>9, <1>10 DEF FollowNext, FollowStep, Indexes

(* Both invariants hold at first.                                          *)
LEMMA FollowInvInit == FollowInit => IInv /\ FollowInv
<1> SUFFICES ASSUME FollowInit PROVE IInv /\ FollowInv
  OBVIOUS
<1>1. Init /\ IInv
  BY IInvInit DEF FollowInit
<1>2. \A f \in Followers : f \in Procs
  BY RunFollowAssumption DEF Procs
<1>3. RowsEnded
  BY <1>1 DEF Init, StoreInit, RowsEnded, isTerminalStatus, Outcomes
<1>4. \A p \in Executors : LaunchOK(p)
  BY DEF FollowInit, LaunchOK
<1>5. \A f \in Followers : FollowerOK(f)
  BY <1>1, <1>2 DEF FollowInit, Init, FollowerOK, Opening
<1> QED
  BY <1>1, <1>3, <1>4, <1>5 DEF FollowInit, FollowInv

(* Every step keeps both.                                                  *)
LEMMA FollowInvNext == IInv /\ FollowInv /\ [FollowNext]_allVars => IInv' /\ FollowInv'
<1> SUFFICES ASSUME IInv, FollowInv, [FollowNext]_allVars PROVE IInv' /\ FollowInv'
  OBVIOUS
<1>1. RunSteps /\ IInv'
  BY AllRunSteps, RunsKeep
<1>2. Maps'
  BY MapsKeep DEF FollowInv, Maps
<1>3. RowsEnded'
  BY <1>1, RowsKeep DEF FollowInv
<1>4. \A p \in Executors : LaunchOK(p)'
  BY LaunchKeeps
<1>5. ASSUME NEW g \in Followers
      PROVE  FollowerOK(g)'
  <2>1. CASE UNCHANGED allVars
    BY <2>1, WaitKeeps DEF allVars, vars, procVars, followVars
  <2>2. CASE /\ FollowNext /\ UNCHANGED followVars
             /\ \/ \E p \in Executors : Works(p)
                \/ \E p \in Procs : Indexing(p)
                \/ \E q \in Readers \ Followers : List(q)
    BY <2>2, OthersStep
  <2>3. ASSUME NEW f \in Followers,
               Following(f) \/ Interrupted(f) \/ \E r \in Runs : Follow(f, r)
        PROVE  FollowerOK(g)'
    BY <2>3, OwnRound, OtherFollower, WaitKeeps
  <2> QED
    BY <2>1, <2>2, <2>3, WhoSteps
<1> QED
  BY <1>1, <1>2, <1>3, <1>4, <1>5 DEF FollowInv, Maps

(* So they hold at every step of every behavior.                           *)
LEMMA FollowInductive == FollowSpec => [](IInv /\ FollowInv)
  BY FollowInvInit, FollowInvNext, PTL DEF FollowSpec

-----------------------------------------------------------------------------
(* Theorems *)

(* A follow that ends with success has printed every log that the events   *)
(* of the Run will ever name, however its rounds fall between the writes   *)
(* of the process and of other commands that import the Run.               *)
THEOREM FollowIsComplete == FollowSpec => []FollowShowsAll
<1>1. IInv /\ FollowInv => FollowShowsAll
  BY DEF FollowInv, FollowerOK, FollowShowsAll
<1> QED
  BY <1>1, FollowInductive, PTL

(* The index agrees with the trail also beside logs, workers, detached     *)
(* Runs and commands that follow them.                                     *)
THEOREM FollowIndexAgrees == FollowSpec => []IndexNeverContradicts
  BY FollowInductive, IndexAgreesNow, PTL

(* Nor do these write anything after the terminal event of a Run.          *)
THEOREM FollowTrailIsFinal == FollowSpec => TerminalIsFinal
<1>1. IInv /\ FollowInv /\ [FollowNext]_allVars =>
        [\A r \in Runs : TerminalLines(journal[r]) # {} => journal'[r] = journal[r]]_vars
  <2> SUFFICES ASSUME IInv, FollowInv, [FollowNext]_allVars, NEW r \in Runs,
                      TerminalLines(journal[r]) # {}
               PROVE  journal'[r] = journal[r]
    OBVIOUS
  <2>1. CASE [Next]_vars
    BY <2>1, ClosedStays
  <2>2. CASE Counting \/ \E p \in Executors : GivesUp(p)
    BY <2>2 DEF Counting, GivesUp, Local, storeVars
  <2> QED
    BY <2>1, <2>2, AllRunSteps DEF RunSteps
<1> QED
  BY <1>1, FollowInductive, PTL DEF FollowSpec, TerminalIsFinal
=============================================================================
