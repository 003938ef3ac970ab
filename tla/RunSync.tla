------------------------------- MODULE RunSync -------------------------------
(***************************************************************************)
(* runsync.Flush beside the Runs of RunExecution: a command that has       *)
(* opened the index (a reader of RunExecution) sends every row of the      *)
(* outbox to the Space of its Context and deletes the rows the Space took. *)
(* Several commands may flush the same project root at the same time, and  *)
(* while Runs are still being executed.                                    *)
(*                                                                         *)
(* The counter attempts of a row is only shown, never read: a failed try   *)
(* (BumpOutboxAttempt) leaves the row as it was.                           *)
(***************************************************************************)
EXTENDS RunExecution

VARIABLES
  fpc,        (* where the reader is in Flush                               *)
  items,      (* rows ListOutbox returned and the loop has not reached      *)
  item,       (* row of the current iteration                               *)
  body,       (* RunEvents of the payload built for it                      *)
  ingested    (* what the Space accepted at .../runs/ingest                 *)

flushVars == <<fpc, items, item, body, ingested>>
syncVars  == <<vars, flushVars>>

NoItem == [id |-> 0, run |-> NoRun]

SyncInit ==
  /\ Init
  /\ fpc = [f \in Readers |-> "idle"]
  /\ items = [f \in Readers |-> {}]
  /\ item = [f \in Readers |-> NoItem]
  /\ body = [f \in Readers |-> << >>]
  /\ ingested = {}

-----------------------------------------------------------------------------

FlushGoto(f, l) == fpc' = [fpc EXCEPT ![f] = l]

(* Flush returns: the process is done with the index.                      *)
FlushReturn(f) ==
  /\ FlushGoto(f, "idle")
  /\ items' = [items EXCEPT ![f] = {}]
  /\ item' = [item EXCEPT ![f] = NoItem]
  /\ body' = [body EXCEPT ![f] = << >>]

FlushList(f) ==
  /\ pc[f] = "listed"
  /\ fpc[f] = "idle"
  /\ outbox # {}
  /\ items' = [items EXCEPT ![f] = outbox]
  /\ FlushGoto(f, "next")
  /\ UNCHANGED <<vars, item, body, ingested>>

(* Mutant: only rows whose Run is marked pending are sent.                  *)
SendMarkedOnly(f) ==
  /\ fpc[f] = "next"
  /\ items[f] # {}
  /\ LET head  == CHOOSE o \in items[f] : \A x \in items[f] : o.id <= x.id
     IN /\ items' = [items EXCEPT ![f] = @ \ {head}]
        /\ IF sync[head.run] = "pending"
           THEN /\ item' = [item EXCEPT ![f] = head]
                /\ body' = [body EXCEPT ![f] = journal[head.run]]
                /\ FlushGoto(f, "ingest")
           ELSE UNCHANGED <<item, body, fpc>>
  /\ UNCHANGED <<vars, ingested>>

(* The head of the loop: the row with the smallest id, for which           *)
(* buildPayload reads the Run from disk.  A record that does not load or   *)
(* has no events costs the row an attempt.                                 *)
FlushNext(f) ==
  /\ fpc[f] = "next"
  /\ items[f] # {}
  /\ LET head  == CHOOSE o \in items[f] : \A x \in items[f] : o.id <= x.id
         lines == journal[head.run]
     IN /\ items' = [items EXCEPT ![f] = @ \ {head}]
        /\ IF Readable(lines) /\ lines # << >>
           THEN /\ item' = [item EXCEPT ![f] = head]
                /\ body' = [body EXCEPT ![f] = lines]
                /\ FlushGoto(f, "ingest")
           ELSE UNCHANGED <<item, body, fpc>>
  /\ UNCHANGED <<vars, ingested>>

FlushDone(f) ==
  /\ fpc[f] = "next"
  /\ items[f] = {}
  /\ FlushReturn(f)
  /\ UNCHANGED <<vars, ingested>>

Payload(f) == [run |-> item[f].run, events |-> body[f]]

(* Mutant: the row is acknowledged whatever the Space answered.             *)
AcknowledgeAnyway(f) ==
  /\ fpc[f] = "ingest"
  /\ \/ ingested' = ingested \union {Payload(f)} /\ UNCHANGED vars
     \/ RemoteFault(f) /\ UNCHANGED <<ingested, storeVars, procVars, remoteVars>>
  /\ FlushGoto(f, "delete")
  /\ UNCHANGED <<items, item, body>>

(* client.IngestRun: accepted, refused, or accepted with the answer lost.  *)
FlushIngest(f) ==
  /\ fpc[f] = "ingest"
  /\ \/ /\ ingested' = ingested \union {Payload(f)}
        /\ FlushGoto(f, "delete")
        /\ UNCHANGED vars
     \/ /\ RemoteFault(f)
        /\ ingested' \in {ingested, ingested \union {Payload(f)}}
        /\ FlushGoto(f, "next")
        /\ UNCHANGED <<storeVars, procVars, remoteVars>>
  /\ UNCHANGED <<items, item, body>>

(* AckOutbox: DELETE, then UPDATE of sync_status; an error ends Flush.      *)
AckDelete(f) ==
  /\ fpc[f] = "delete"
  /\ \/ /\ DeleteOutbox(item[f].id)
        /\ FlushGoto(f, "mark")
        /\ UNCHANGED <<items, item, body, faultVars>>
     \/ /\ IndexFault
        /\ FlushReturn(f)
        /\ UNCHANGED outbox
  /\ UNCHANGED <<dir, journal, row, sync, nextRow, procVars, remoteVars, ingested>>

AckMark(f) ==
  /\ fpc[f] = "mark"
  /\ \/ /\ SetSync(item[f].run, "synced")
        /\ FlushGoto(f, "next")
        /\ UNCHANGED <<items, item, body, faultVars>>
     \/ /\ IndexFault
        /\ FlushReturn(f)
        /\ UNCHANGED sync
  /\ UNCHANGED <<dir, journal, row, outbox, nextRow, procVars, remoteVars, ingested>>

(* The process dies in the middle of Flush; another command takes its place. *)
FlushCrash(f) ==
  /\ fpc[f] # "idle"
  /\ crashes < MaxCrashes
  /\ crashes' = crashes + 1
  /\ FlushReturn(f)
  /\ UNCHANGED <<storeVars, procVars, remoteVars, ingested, diskFaults, indexFaults,
                 remoteFaults, cancels>>

Flush(f) ==
  \/ FlushList(f) \/ FlushNext(f) \/ FlushDone(f)
  \/ FlushIngest(f) \/ AckDelete(f) \/ AckMark(f)

(* A reader lists the index again once it does not flush any more.          *)
Command(f) ==
  \/ fpc[f] = "idle" /\ List(f) /\ UNCHANGED flushVars
  \/ Indexing(f) /\ UNCHANGED flushVars
  \/ Flush(f)

RunStep ==
  /\ \/ \E p \in Executors, r \in Runs : Reserve(p, r) \/ Refuse(p, r)
     \/ \E p \in Executors : Executing(p) \/ Indexing(p) \/ Cancel(p) \/ Crash(p)
  /\ UNCHANGED flushVars

SyncNext ==
  \/ RunStep
  \/ \E f \in Readers : Command(f) \/ FlushCrash(f)

(* Somebody keeps running commands in the project root.  A command that     *)
(* finds rows in the outbox does not for ever skip the flush: every second  *)
(* command may be one without it, so FlushList is enabled again and again.  *)
(* A process that executes a Run goes on unless it crashes.                 *)
SyncFairness ==
  /\ \A f \in Readers :
       /\ WF_syncVars(fpc[f] = "idle" /\ List(f) /\ UNCHANGED flushVars)
       /\ WF_syncVars(Indexing(f) /\ UNCHANGED flushVars)
       /\ SF_syncVars(FlushList(f))
       /\ WF_syncVars(FlushNext(f) \/ FlushDone(f))
       /\ WF_syncVars(FlushIngest(f))
       /\ WF_syncVars(AckDelete(f) \/ AckMark(f))
  /\ \A p \in Executors :
       /\ WF_syncVars(Indexing(p) /\ UNCHANGED flushVars)
       /\ WF_syncVars(Progress(p) /\ UNCHANGED flushVars)

SyncSpec == SyncInit /\ [][SyncNext]_syncVars /\ SyncFairness

-----------------------------------------------------------------------------
(* Properties *)

Taken(r) == \E x \in ingested : x.run = r

(* "Pending items stay queued on failure": a row leaves the outbox only for *)
(* a Run the Space has, whatever refuses, gets lost or crashes, and with    *)
(* other commands flushing the same row.                                    *)
QueuedUntilTaken ==
  [][\A r \in Runs : Queued(r) /\ ~Queued(r)' => Taken(r)]_syncVars

(* The Space gets the trail of a Run as it stays on disk, never the part of *)
(* one that is still being written; it ends in an outcome unless the disk   *)
(* refused a write, after which fail and interrupt queue what there is.     *)
TakenIsComplete ==
  \A x \in ingested :
    /\ x.events = journal[x.run]
    /\ diskFaults = 0 => TerminalLines(x.events) # {}

(* A queued Run reaches the Space.                                          *)
OutboxDrains == \A r \in Runs : Queued(r) ~> Taken(r)
=============================================================================
