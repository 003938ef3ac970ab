------------------------------ MODULE RunStore ------------------------------
(***************************************************************************)
(* What one project root persists about its Runs, and the operations on    *)
(* it: the directory .doppels/runs/<id> of each Run (localstate) with its  *)
(* append-only events.jsonl, and the SQLite index .doppels/runs.db with    *)
(* its outbox (runindex).  Every CLI process that works in the project     *)
(* shares this state; no lock spans two of the operations below.           *)
(*                                                                         *)
(* A Run id is an element of Runs; a line of events.jsonl keeps the        *)
(* sequence number and the type of its RunEvent; identifiers of rows are   *)
(* kept because the outbox is read in their order.                         *)
(***************************************************************************)
EXTENDS Integers, Sequences, FiniteSets

CONSTANTS
  Runs,          (* Run ids, the names of directories in .doppels/runs      *)
  AppendFaults   (* how a failing AppendEvent may leave events.jsonl        *)

(* A write that fails leaves nothing ("clean"), a fragment without its     *)
(* newline ("torn"), or the whole line whose fsync then failed ("synced"). *)
ASSUME RunStoreAssumption == AppendFaults \subseteq {"clean", "torn", "synced"}

VARIABLES
  dir,       (* what the Run's directory holds                              *)
  journal,   (* the lines of the Run's events.jsonl                         *)
  row,       (* status column of the Run's row in runs, "absent" if none    *)
  sync,      (* sync_status column of the same row                          *)
  outbox,    (* rows of the outbox table                                    *)
  nextRow    (* AUTOINCREMENT of the outbox table                           *)

storeVars == <<dir, journal, row, sync, outbox, nextRow>>

TerminalEvents == {"run_succeeded", "run_failed", "run_cancelled", "run_interrupted"}

EventTypes == TerminalEvents \union
  {"run_created", "validation_succeeded", "validation_failed",
   "approval_requested", "approval_approved", "approval_rejected",
   "step_started", "step_succeeded", "step_failed"}

(* strings.TrimPrefix(eventType, "run_") of a terminal event. *)
StatusOf == [run_succeeded   |-> "succeeded",
             run_failed      |-> "failed",
             run_cancelled   |-> "cancelled",
             run_interrupted |-> "interrupted"]

Outcomes    == {"succeeded", "failed", "cancelled", "interrupted"}
RunStatuses == Outcomes \union {"running", "pending_manual"}

Torn == [seq |-> -1, type |-> "torn"]
Line == [seq : Nat, type : EventTypes] \union {Torn}

StoreTypeOK ==
  /\ dir \in [Runs -> {"absent", "reserved", "requested", "complete"}]
  /\ journal \in [Runs -> Seq(Line)]
  /\ row \in [Runs -> RunStatuses \union {"absent"}]
  /\ sync \in [Runs -> {"none", "pending", "synced"}]
  /\ nextRow \in Nat
  /\ outbox \subseteq [id : Nat, run : Runs]

StoreInit ==
  /\ dir = [r \in Runs |-> "absent"]
  /\ journal = [r \in Runs |-> << >>]
  /\ row = [r \in Runs |-> "absent"]
  /\ sync = [r \in Runs |-> "none"]
  /\ outbox = {}
  /\ nextRow = 1

-----------------------------------------------------------------------------
(* events.jsonl *)

EndsTorn(lines) == lines # << >> /\ lines[Len(lines)] = Torn

(* O_APPEND after a fragment lands on the fragment's own line, which stays *)
(* undecodable.                                                            *)
WithLine(lines, l) == IF EndsTorn(lines) THEN lines ELSE Append(lines, l)

AppendOK(r, l) == journal' = [journal EXCEPT ![r] = WithLine(@, l)]

AppendFails(r, l) ==
  \/ "clean" \in AppendFaults /\ UNCHANGED journal
  \/ "torn" \in AppendFaults /\ journal' = [journal EXCEPT ![r] = WithLine(@, Torn)]
  \/ "synced" \in AppendFaults /\ AppendOK(r, l)

TerminalLines(lines) == {i \in DOMAIN lines : lines[i].type \in TerminalEvents}

(* The status a reader derives from the lines: the last terminal event.    *)
StatusFromEvents(lines) ==
  IF TerminalLines(lines) = {}
  THEN "running"
  ELSE StatusOf[lines[CHOOSE i \in TerminalLines(lines) :
                        \A j \in TerminalLines(lines) : j <= i].type]

(* readEvents accepts the file only if every line decodes and line i       *)
(* carries sequence number i (counted from zero).                          *)
Readable(lines) == \A i \in DOMAIN lines : lines[i] # Torn /\ lines[i].seq = i - 1

-----------------------------------------------------------------------------
(* runs.db *)

(* Directories on which Backfill gives up: no row, and no run.json.        *)
Broken == {r \in Runs : dir[r] \in {"reserved", "requested"} /\ row[r] = "absent"}

Upsert(r, s) ==
  /\ row' = [row EXCEPT ![r] = s]
  /\ sync' = [sync EXCEPT ![r] = "none"]

InsertOutbox(r) ==
  /\ outbox' = outbox \union {[id |-> nextRow, run |-> r]}
  /\ nextRow' = nextRow + 1

DeleteOutbox(id) == outbox' = {o \in outbox : o.id # id}

(* UPDATE runs SET sync_status = ? WHERE id = ?: no effect without a row.  *)
SetSync(r, s) == sync' = [sync EXCEPT ![r] = IF row[r] = "absent" THEN @ ELSE s]

Queued(r) == \E o \in outbox : o.run = r
=============================================================================
