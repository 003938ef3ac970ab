---------------------------- MODULE ShareChannel -----------------------------
(***************************************************************************)
(* shareclient.Channel: one logical channel to a Share over a succession   *)
(* of WebSocket connections.  Callers of Next and of SubmitRun /           *)
(* SubmitRunEvent run beside the read loop and the heartbeat of every      *)
(* connection; whoever meets a broken connection replaces it, one at a     *)
(* time, and asks the coordinator for the state of the Share.              *)
(*                                                                         *)
(* The coordinator and the network are external: frames travel in order on *)
(* a connection and are lost with it; the coordinator persists an envelope *)
(* before it confirms it, and a message id only once.                      *)
(***************************************************************************)
EXTENDS Integers, Sequences, FiniteSets

CONSTANTS
  Waiters,          (* goroutines that call Next                            *)
  Submitters,       (* goroutines that call SubmitRun, SubmitRunEvent       *)
  Messages,         (* request_available and share_closed of the Share      *)
  Buffer,           (* capacity of connection.inbound: 64 in the code       *)
  MaxSubmissions,   (* calls per submitter                                  *)
  MaxFaults,        (* disturbances in a behaviour: failures of the network *)
                    (* and the coordinator, and contexts that end           *)
  MaxCancels,       (* contexts that end in a behaviour                     *)
  MaxCloses,        (* calls of Close in a behaviour                        *)
  None              (* no caller, no connection                             *)

ASSUME ShareChannelAssumption ==
  /\ Buffer \in Nat \ {0}
  /\ MaxSubmissions \in Nat
  /\ MaxFaults \in Nat
  /\ MaxCancels \in Nat
  /\ MaxCloses \in Nat
  /\ None \notin Waiters \union Submitters \union Nat
  /\ Messages \cap {"none", "reading", "ended"} = {}

Callers == Waiters \union Submitters

(* A connection is made by OpenChannel and after every disturbance, so     *)
(* there are at most this many.                                            *)
Conns == 1 .. (1 + MaxFaults + MaxCloses)

Submissions == Submitters \X (1 .. MaxSubmissions)

VARIABLES
  pc,          (* where the call is; "idle" between calls                   *)
  op,          (* the call in progress: Next or submit                      *)
  conn,        (* connection the call works with                            *)
  held,        (* connection a reconnection is setting up                   *)
  wait,        (* what arrived on the wait channel of the caller's push     *)
  answer,      (* state of the Share that Pending returned                  *)
  envelope,    (* the ShareMessage being submitted                          *)
  cancelled,   (* the caller's context is done                              *)
  calls        (* state of each submission                                  *)

callVars == <<pc, op, conn, held, wait, answer, envelope, cancelled, calls>>

VARIABLES
  current,     (* channel.connection                                        *)
  lock,        (* holder of reconnectMu                                     *)
  recoveries,  (* channel.recoveries                                        *)
  seen,        (* channel.seen                                              *)
  closed       (* channel.ctx is done                                       *)

chanVars == <<current, lock, recoveries, seen, closed>>

VARIABLES
  link,        (* the socket: not there, up, or down                        *)
  done,        (* connection.done is closed                                 *)
  failure,     (* connection.failure holds a value                          *)
  reader,      (* read loop: reading, ended, or a message it cannot queue   *)
  inbound,     (* connection.inbound                                        *)
  up, down     (* frames travelling to the coordinator and back             *)

connVars == <<link, done, failure, reader, inbound, up, down>>

VARIABLES
  joined,      (* connections subscribed to the topic                       *)
  posted,      (* messages of the Share that happened                       *)
  recorded,    (* envelopes persisted, in their order                       *)
  delivered,   (* messages handed to a caller, by broadcast or recovery     *)
  minted,      (* message ids drawn so far                                  *)
  faults, cancels

cloudVars == <<joined, posted, recorded>>
restVars  == <<delivered, minted>>
faultVars == <<faults, cancels>>
vars == <<callVars, chanVars, connVars, cloudVars, restVars, faultVars>>

(* A push is told from the others by its envelope; the join has none.      *)
JoinRef   == [by |-> None, no |-> 0, id |-> 0]
Envelopes == [by : Submitters, no : 1 .. MaxSubmissions, id : Nat]
Refs      == Envelopes \union {JoinRef}
Replies    == {"ok", "rejected", "garbled", "changed"}
Frames     == [type : Replies, of : Refs] \union [type : {"own"}, of : Envelopes]
                \union [type : {"message"}, of : Messages]

TypeOK ==
  /\ pc \in [Callers -> {"idle", "look", "select", "push", "reply",
                         "lock", "late", "dial", "join", "query", "install"}]
  /\ op \in [Callers -> {"none", "next", "submit"}]
  /\ conn \in [Callers -> Conns \union {None}]
  /\ held \in [Callers -> Conns \union {None}]
  /\ wait \in [Callers -> Replies \union {"none"}]
  /\ answer \in [Callers -> SUBSET Messages]
  /\ envelope \in [Callers -> Envelopes \union {JoinRef}]
  /\ cancelled \in [Callers -> BOOLEAN]
  /\ calls \in [Submissions -> {"unsent", "open", "ok", "failed"}]
  /\ current \in Conns
  /\ lock \in Callers \union {None}
  /\ recoveries \in Seq(SUBSET Messages)
  /\ seen \subseteq Messages
  /\ closed \in BOOLEAN
  /\ link \in [Conns -> {"none", "up", "down"}]
  /\ done \in [Conns -> BOOLEAN]
  /\ failure \in [Conns -> BOOLEAN]
  /\ reader \in [Conns -> {"none", "reading", "ended"} \union Messages]
  /\ inbound \in [Conns -> Seq(Messages)]
  /\ up \in [Conns -> Seq(Refs)]
  /\ down \in [Conns -> Seq(Frames)]
  /\ joined \subseteq Conns
  /\ posted \subseteq Messages
  /\ recorded \in Seq(Envelopes)
  /\ delivered \subseteq Messages
  /\ minted \in Nat
  /\ faults \in 0 .. MaxFaults
  /\ cancels \in 0 .. MaxCancels

(* OpenChannel has connected, and its caller has the state the join told.  *)
Init ==
  /\ pc = [p \in Callers |-> "idle"]
  /\ op = [p \in Callers |-> "none"]
  /\ conn = [p \in Callers |-> None]
  /\ held = [p \in Callers |-> None]
  /\ wait = [p \in Callers |-> "none"]
  /\ answer = [p \in Callers |-> {}]
  /\ envelope = [p \in Callers |-> JoinRef]
  /\ cancelled = [p \in Callers |-> FALSE]
  /\ calls = [s \in Submissions |-> "unsent"]
  /\ current = 1
  /\ lock = None
  /\ recoveries = << >>
  /\ seen = {}
  /\ closed = FALSE
  /\ link = [c \in Conns |-> IF c = 1 THEN "up" ELSE "none"]
  /\ done = [c \in Conns |-> FALSE]
  /\ failure = [c \in Conns |-> FALSE]
  /\ reader = [c \in Conns |-> IF c = 1 THEN "reading" ELSE "none"]
  /\ inbound = [c \in Conns |-> << >>]
  /\ up = [c \in Conns |-> << >>]
  /\ down = [c \in Conns |-> << >>]
  /\ joined = {1}
  /\ posted \in SUBSET Messages
  /\ delivered = posted
  /\ recorded = << >>
  /\ minted = 0
  /\ faults = 0
  /\ cancels = 0

-----------------------------------------------------------------------------

CtxDone(p) == cancelled[p] \/ closed

Goto(p, l) == pc' = [pc EXCEPT ![p] = l]

(* The call is over.                                                       *)
Leave(p) ==
  /\ Goto(p, "idle")
  /\ op' = [op EXCEPT ![p] = "none"]
  /\ conn' = [conn EXCEPT ![p] = None]
  /\ held' = [held EXCEPT ![p] = None]
  /\ wait' = [wait EXCEPT ![p] = "none"]
  /\ answer' = [answer EXCEPT ![p] = {}]
  /\ envelope' = [envelope EXCEPT ![p] = JoinRef]
  /\ cancelled' = [cancelled EXCEPT ![p] = FALSE]

(* Next returns an Update that tells its caller about the messages ms.     *)
ReturnUpdate(p, ms) ==
  /\ Leave(p)
  /\ delivered' = delivered \union ms
  /\ UNCHANGED calls

ReturnResult(p, result) ==
  /\ Leave(p)
  /\ calls' = [calls EXCEPT ![<<p, envelope[p].no>>] = result]
  /\ UNCHANGED delivered

ReturnError(p) ==
  IF op[p] = "submit"
  THEN ReturnResult(p, "failed")
  ELSE ReturnUpdate(p, {})

(* connection.fail: closeOnce also puts the error into connection.failure. *)
fail(c) ==
  /\ failure' = [failure EXCEPT ![c] = @ \/ ~done[c]]
  /\ done' = [done EXCEPT ![c] = TRUE]
  /\ link' = [link EXCEPT ![c] = "down"]

(* connection.close and connection.abort: nothing is put into failure.     *)
close(c) ==
  /\ done' = [done EXCEPT ![c] = TRUE]
  /\ link' = [link EXCEPT ![c] = "down"]
  /\ UNCHANGED failure

Fault == faults < MaxFaults /\ faults' = faults + 1

(* ------------------------------- Next ---------------------------------- *)

CallNext(p) ==
  /\ p \in Waiters
  /\ pc[p] = "idle"
  /\ Goto(p, "look")
  /\ op' = [op EXCEPT ![p] = "next"]
  /\ UNCHANGED <<conn, held, wait, answer, envelope, cancelled, calls,
                 chanVars, connVars, cloudVars, restVars, faultVars>>

(* The head of the loop: a recovery that a submission has queued goes      *)
(* first; without one Next reads channel.connection.                       *)
Look(p) ==
  /\ pc[p] = "look"
  /\ lock = None
  /\ IF recoveries # << >>
     THEN /\ recoveries' = Tail(recoveries)
          /\ ReturnUpdate(p, Head(recoveries))
     ELSE /\ Goto(p, "select")
          /\ UNCHANGED <<op, conn, held, wait, answer, envelope, cancelled, calls,
                         delivered, recoveries>>
  /\ UNCHANGED <<current, lock, seen, closed, connVars, cloudVars, minted, faultVars>>

(* connection := channel.current()                                         *)
UseCurrent(p) ==
  /\ pc[p] = "select"
  /\ conn[p] = None
  /\ conn' = [conn EXCEPT ![p] = current]
  /\ UNCHANGED <<pc, op, held, wait, answer, envelope, cancelled, calls,
                 chanVars, connVars, cloudVars, restVars, faultVars>>

TakeMessage(p) ==
  /\ pc[p] = "select"
  /\ conn[p] # None
  /\ inbound[conn[p]] # << >>
  /\ inbound' = [inbound EXCEPT ![conn[p]] = Tail(@)]
  /\ LET m == Head(inbound[conn[p]])
     IN /\ seen' = seen \union {m}
        /\ IF m \notin seen
           THEN ReturnUpdate(p, {m})
           ELSE /\ Goto(p, "look")
                /\ conn' = [conn EXCEPT ![p] = None]
                /\ UNCHANGED <<op, held, wait, answer, envelope, cancelled, calls, delivered>>
  /\ UNCHANGED <<current, lock, recoveries, closed, link, done, failure, reader, up, down,
                 cloudVars, minted, faultVars>>

TakeFailure(p) ==
  /\ pc[p] = "select"
  /\ conn[p] # None
  /\ failure[conn[p]]
  /\ failure' = [failure EXCEPT ![conn[p]] = FALSE]
  /\ Goto(p, "lock")
  /\ UNCHANGED <<op, conn, held, wait, answer, envelope, cancelled, calls, chanVars,
                 link, done, reader, inbound, up, down, cloudVars, restVars, faultVars>>

StopWaiting(p) ==
  /\ pc[p] = "select"
  /\ conn[p] # None
  /\ CtxDone(p)
  /\ ReturnError(p)
  /\ UNCHANGED <<chanVars, connVars, cloudVars, minted, faultVars>>

(* ------------------------ SubmitRun, SubmitRunEvent -------------------- *)

(* newShareMessage: one envelope, with a message id of its own, per call.  *)
CallSubmit(p, n) ==
  /\ p \in Submitters
  /\ pc[p] = "idle"
  /\ calls[<<p, n>>] = "unsent"
  /\ \A k \in 1 .. (n - 1) : calls[<<p, k>>] # "unsent"
  /\ calls' = [calls EXCEPT ![<<p, n>>] = "open"]
  /\ minted' = minted + 1
  /\ envelope' = [envelope EXCEPT ![p] = [by |-> p, no |-> n, id |-> minted]]
  /\ op' = [op EXCEPT ![p] = "submit"]
  /\ Goto(p, "push")
  /\ UNCHANGED <<conn, held, wait, answer, cancelled, chanVars, connVars, cloudVars,
                 delivered, faultVars>>

(* The frame is written on channel.current().  A socket that is down and   *)
(* not closed yet may take the frame without an error; it is lost.         *)
Push(p) ==
  /\ pc[p] = "push"
  /\ ~CtxDone(p)
  /\ conn' = [conn EXCEPT ![p] = current]
  /\ wait' = [wait EXCEPT ![p] = "none"]
  /\ \/ /\ ~done[current]
        /\ Goto(p, "reply")
        /\ up' = IF link[current] = "up"
                 THEN [up EXCEPT ![current] = Append(@, envelope[p])]
                 ELSE up
     \/ /\ link[current] = "down"
        /\ Goto(p, "lock")
        /\ UNCHANGED up
  /\ UNCHANGED <<op, held, answer, envelope, cancelled, calls, chanVars,
                 link, done, failure, reader, inbound, down, cloudVars, restVars, faultVars>>

(* Mutant: the status of the reply is taken for the result of the call.    *)
(* The select of push.  validateAcknowledgement refuses a confirmation     *)
(* that is not of the submitted payload; an undecodable reply counts as a  *)
(* broken connection.                                                      *)
Acknowledged(p) ==
  /\ pc[p] = "reply"
  /\ wait[p] \in {"ok", "changed", "rejected"}
  /\ ReturnResult(p, IF wait[p] = "ok" THEN "ok" ELSE "failed")
  /\ UNCHANGED <<chanVars, connVars, cloudVars, minted, faultVars>>

Disconnected(p) ==
  /\ pc[p] = "reply"
  /\ wait[p] = "garbled" \/ done[conn[p]]
  /\ Goto(p, "lock")
  /\ UNCHANGED <<op, conn, held, wait, answer, envelope, cancelled, calls,
                 chanVars, connVars, cloudVars, restVars, faultVars>>

AbandonPush(p) ==
  /\ pc[p] \in {"push", "reply"}
  /\ CtxDone(p)
  /\ ReturnError(p)
  /\ UNCHANGED <<chanVars, connVars, cloudVars, minted, faultVars>>

(* ------------------------------ reconnect ------------------------------ *)

(* The caller holds reconnectMu and gives it back.                         *)
Unlock == lock' = None

(* Take reconnectMu.  Whoever finds its connection still current replaces  *)
(* it; otherwise somebody has, and a Next takes the recovery queued then.  *)
Lock(p) ==
  /\ pc[p] = "lock"
  /\ lock = None
  /\ \/ /\ current = conn[p]
        /\ close(current)
        /\ lock' = p
        /\ Goto(p, "dial")
        /\ UNCHANGED <<op, conn, held, wait, answer, envelope, cancelled, calls,
                       delivered, recoveries>>
     \/ /\ current # conn[p]
        /\ op[p] = "next"
        /\ recoveries # << >>
        /\ recoveries' = Tail(recoveries)
        /\ ReturnUpdate(p, Head(recoveries))
        /\ UNCHANGED <<lock, link, done, failure>>
     \/ /\ current # conn[p]
        /\ op[p] = "submit" \/ recoveries = << >>
        /\ lock' = p
        /\ Goto(p, "late")
        /\ UNCHANGED <<op, conn, held, wait, answer, envelope, cancelled, calls,
                       delivered, recoveries, link, done, failure>>
  /\ UNCHANGED <<current, seen, closed, reader, inbound, up, down, cloudVars, minted, faultVars>>

(* Mutant: only Next keeps what it learns by reconnecting.                  *)
RecoverForNext(p, state) ==
  /\ Unlock
  /\ UNCHANGED recoveries
  /\ IF op[p] = "submit"
     THEN /\ Goto(p, "push")
          /\ held' = [held EXCEPT ![p] = None]
          /\ wait' = [wait EXCEPT ![p] = "none"]
          /\ answer' = [answer EXCEPT ![p] = {}]
          /\ UNCHANGED <<op, conn, envelope, cancelled, calls, delivered>>
     ELSE ReturnUpdate(p, state)

(* Mutant: the retry is made with a new envelope.                           *)
RecoverAfresh(p, state) ==
  /\ Unlock
  /\ IF op[p] = "submit"
     THEN /\ recoveries' = Append(recoveries, state)
          /\ Goto(p, "push")
          /\ held' = [held EXCEPT ![p] = None]
          /\ wait' = [wait EXCEPT ![p] = "none"]
          /\ answer' = [answer EXCEPT ![p] = {}]
          /\ envelope' = [envelope EXCEPT ![p].id = @ + MaxSubmissions * Cardinality(Submitters)]
          /\ UNCHANGED <<op, conn, cancelled, calls, delivered>>
     ELSE /\ ReturnUpdate(p, state)
          /\ UNCHANGED recoveries

(* The recovery goes to Next directly, or is queued for it by a submission *)
(* that goes back to its loop with the same envelope.                      *)
Recover(p, state) ==
  /\ Unlock
  /\ IF op[p] = "submit"
     THEN /\ recoveries' = Append(recoveries, state)
          /\ Goto(p, "push")
          /\ held' = [held EXCEPT ![p] = None]
          /\ wait' = [wait EXCEPT ![p] = "none"]
          /\ answer' = [answer EXCEPT ![p] = {}]
          /\ UNCHANGED <<op, conn, envelope, cancelled, calls, delivered>>
     ELSE /\ ReturnUpdate(p, state)
          /\ UNCHANGED recoveries

(* Somebody else has reconnected: Pending is asked once, without retries.  *)
LatePending(p) ==
  /\ pc[p] = "late"
  /\ ~CtxDone(p)
  /\ Recover(p, posted)
  /\ UNCHANGED <<current, seen, closed, connVars, cloudVars, minted, faultVars>>

LatePendingFails(p) ==
  /\ pc[p] = "late"
  /\ \/ CtxDone(p) /\ UNCHANGED faults
     \/ Fault
  /\ ReturnError(p)
  /\ Unlock
  /\ UNCHANGED <<current, recoveries, seen, closed, connVars, cloudVars, minted, cancels>>

(* connect: a new socket with its read loop, and phx_join written on it.   *)
(* A dial or a join write that fails for a while is a later Dial.          *)
Dial(p) ==
  /\ pc[p] = "dial"
  /\ ~CtxDone(p)
  /\ \E c \in Conns :
       /\ link[c] = "none"
       /\ \A b \in 1 .. (c - 1) : link[b] # "none"
       /\ link' = [link EXCEPT ![c] = "up"]
       /\ reader' = [reader EXCEPT ![c] = "reading"]
       /\ up' = [up EXCEPT ![c] = << JoinRef >>]
       /\ held' = [held EXCEPT ![p] = c]
  /\ wait' = [wait EXCEPT ![p] = "none"]
  /\ Goto(p, "join")
  /\ UNCHANGED <<op, conn, answer, envelope, cancelled, calls, chanVars,
                 done, failure, inbound, down, cloudVars, restVars, faultVars>>

Join(p) ==
  /\ pc[p] = "join"
  /\ wait[p] = "ok"
  /\ Goto(p, "query")
  /\ UNCHANGED <<op, conn, held, wait, answer, envelope, cancelled, calls,
                 chanVars, connVars, cloudVars, restVars, faultVars>>

(* GET .../pending answers with the state at this moment.                  *)
Query(p) ==
  /\ pc[p] = "query"
  /\ ~CtxDone(p)
  /\ answer' = [answer EXCEPT ![p] = posted]
  /\ Goto(p, "install")
  /\ UNCHANGED <<op, conn, held, wait, envelope, cancelled, calls,
                 chanVars, connVars, cloudVars, restVars, faultVars>>

Install(p) ==
  /\ pc[p] = "install"
  /\ current' = held[p]
  /\ Recover(p, answer[p])
  /\ UNCHANGED <<seen, closed, connVars, cloudVars, minted, faultVars>>

(* Mutant: a connection that joined is left open when Pending fails.        *)
RetryLeavingOpen(p) ==
  /\ \/ pc[p] = "join" /\ (wait[p] = "garbled" \/ done[held[p]]) /\ UNCHANGED faults
     \/ pc[p] = "query" /\ Fault
  /\ IF pc[p] = "join" THEN close(held[p]) ELSE UNCHANGED <<done, link, failure>>
  /\ held' = [held EXCEPT ![p] = None]
  /\ Goto(p, "dial")
  /\ UNCHANGED <<op, conn, wait, answer, envelope, cancelled, calls, chanVars,
                 reader, inbound, up, down, cloudVars, restVars, cancels>>

(* The join or Pending failed for a while: the new connection is closed    *)
(* and, after the delay, another one is dialled.                           *)
Retry(p) ==
  /\ \/ pc[p] = "join" /\ (wait[p] = "garbled" \/ done[held[p]]) /\ UNCHANGED faults
     \/ pc[p] = "query" /\ Fault
  /\ close(held[p])
  /\ held' = [held EXCEPT ![p] = None]
  /\ Goto(p, "dial")
  /\ UNCHANGED <<op, conn, wait, answer, envelope, cancelled, calls, chanVars,
                 reader, inbound, up, down, cloudVars, restVars, cancels>>

(* Mutant: the delay between attempts does not watch the context.           *)
GiveUpOnErrors(p) ==
  /\ \/ pc[p] \in {"join", "query"} /\ CtxDone(p) /\ UNCHANGED faults
     \/ pc[p] = "join" /\ wait[p] = "rejected" /\ UNCHANGED faults
     \/ pc[p] \in {"dial", "query"} /\ Fault
  /\ IF held[p] = None THEN UNCHANGED <<done, link, failure>> ELSE close(held[p])
  /\ ReturnError(p)
  /\ Unlock
  /\ UNCHANGED <<current, recoveries, seen, closed, reader, inbound, up, down,
                 cloudVars, minted, cancels>>

(* reconnect returns an error: a permanent HTTP answer, a rejected join,   *)
(* or the context is done.                                                 *)
GiveUp(p) ==
  /\ \/ pc[p] \in {"dial", "join", "query"} /\ CtxDone(p) /\ UNCHANGED faults
     \/ pc[p] = "join" /\ wait[p] = "rejected" /\ UNCHANGED faults
     \/ pc[p] \in {"dial", "query"} /\ Fault
  /\ IF held[p] = None THEN UNCHANGED <<done, link, failure>> ELSE close(held[p])
  /\ ReturnError(p)
  /\ Unlock
  /\ UNCHANGED <<current, recoveries, seen, closed, reader, inbound, up, down,
                 cloudVars, minted, cancels>>

(* ------------------------- one connection ------------------------------ *)

Awaits(p, c, ref) ==
  \/ pc[p] = "reply" /\ conn[p] = c /\ envelope[p] = ref
  \/ pc[p] = "join" /\ held[p] = c /\ ref = JoinRef

(* Mutant: the runner's own broadcasts are queued like notifications.       *)
ReadAll(c) ==
  /\ reader[c] = "reading"
  /\ ~done[c]
  /\ down[c] # << >>
  /\ down' = [down EXCEPT ![c] = Tail(@)]
  /\ LET f == Head(down[c]) IN
     /\ reader' = CASE f.type = "message" -> [reader EXCEPT ![c] = f.of]
                    [] f.type = "own" -> [reader EXCEPT ![c] = CHOOSE m \in Messages : TRUE]
                    [] OTHER -> reader
     /\ wait' = [p \in Callers |->
                   IF f.type \in Replies /\ Awaits(p, c, f.of) THEN f.type ELSE wait[p]]
  /\ UNCHANGED <<pc, op, conn, held, answer, envelope, cancelled, calls, chanVars,
                 link, done, failure, inbound, up, cloudVars, restVars, faultVars>>

(* The read loop takes a frame: a reply goes to the push that waits for    *)
(* its ref, if one still does; the Share's own broadcasts are ignored; a   *)
(* notification is kept for inbound.                                       *)
Read(c) ==
  /\ reader[c] = "reading"
  /\ ~done[c]
  /\ down[c] # << >>
  /\ down' = [down EXCEPT ![c] = Tail(@)]
  /\ LET f == Head(down[c]) IN
     /\ reader' = IF f.type = "message" THEN [reader EXCEPT ![c] = f.of] ELSE reader
     /\ wait' = [p \in Callers |->
                   IF f.type \in Replies /\ Awaits(p, c, f.of) THEN f.type ELSE wait[p]]
  /\ UNCHANGED <<pc, op, conn, held, answer, envelope, cancelled, calls, chanVars,
                 link, done, failure, inbound, up, cloudVars, restVars, faultVars>>

(* connection.inbound <- message blocks while the buffer is full.          *)
Enqueue(c) ==
  /\ reader[c] \in Messages
  /\ Len(inbound[c]) < Buffer
  /\ inbound' = [inbound EXCEPT ![c] = Append(@, reader[c])]
  /\ reader' = [reader EXCEPT ![c] = "reading"]
  /\ UNCHANGED <<callVars, chanVars, link, done, failure, up, down,
                 cloudVars, restVars, faultVars>>

StopReading(c) ==
  /\ reader[c] \in Messages
  /\ closed
  /\ reader' = [reader EXCEPT ![c] = "ended"]
  /\ UNCHANGED <<callVars, chanVars, link, done, failure, inbound, up, down,
                 cloudVars, restVars, faultVars>>

(* Mutant: a read error closes the connection without telling Next.         *)
ReadFailsSilently(c) ==
  /\ reader[c] = "reading"
  /\ link[c] = "down" \/ closed
  /\ close(c)
  /\ reader' = [reader EXCEPT ![c] = "ended"]
  /\ down' = [down EXCEPT ![c] = << >>]
  /\ UNCHANGED <<callVars, chanVars, inbound, up, cloudVars, restVars, faultVars>>

(* Read returns an error, or the frame is phx_error, phx_close or no valid *)
(* notification of this Share; frames behind it are lost.                  *)
ReadFails(c) ==
  /\ reader[c] = "reading"
  /\ link[c] = "down" \/ closed
  /\ fail(c)
  /\ reader' = [reader EXCEPT ![c] = "ended"]
  /\ down' = [down EXCEPT ![c] = << >>]
  /\ UNCHANGED <<callVars, chanVars, inbound, up, cloudVars, restVars, faultVars>>

HeartbeatFails(c) ==
  /\ link[c] = "down"
  /\ ~done[c]
  /\ ~closed
  /\ fail(c)
  /\ UNCHANGED <<callVars, chanVars, reader, inbound, up, down, cloudVars, restVars, faultVars>>

(* --------------------- context, coordinator, network ------------------- *)

ContextEnds(p) ==
  /\ pc[p] # "idle"
  /\ ~cancelled[p]
  /\ Fault
  /\ cancels < MaxCancels
  /\ cancels' = cancels + 1
  /\ cancelled' = [cancelled EXCEPT ![p] = TRUE]
  /\ UNCHANGED <<pc, op, conn, held, wait, answer, envelope, calls,
                 chanVars, connVars, cloudVars, restVars>>

Close ==
  /\ MaxCloses > 0
  /\ ~closed
  /\ closed' = TRUE
  /\ close(current)
  /\ UNCHANGED <<callVars, current, lock, recoveries, seen, reader, inbound, up, down,
                 cloudVars, restVars, faultVars>>

(* Frames the coordinator sends reach the runner while the socket is up.   *)
Send(c, frames) ==
  down' = IF link[c] = "up" THEN [down EXCEPT ![c] = @ \o frames] ELSE down

CloudJoins(c) ==
  /\ up[c] # << >>
  /\ Head(up[c]) = JoinRef
  /\ up' = [up EXCEPT ![c] = Tail(@)]
  /\ \/ /\ joined' = joined \union {c}
        /\ Send(c, << [type |-> "ok", of |-> JoinRef] >>)
        /\ UNCHANGED faults
     \/ /\ Fault
        /\ \E t \in {"rejected", "garbled"} : Send(c, << [type |-> t, of |-> JoinRef] >>)
        /\ UNCHANGED joined
  /\ UNCHANGED <<callVars, chanVars, link, done, failure, reader, inbound,
                 posted, recorded, restVars, cancels>>

(* An envelope is persisted once per message id, then broadcast to the     *)
(* runner itself and confirmed.                                            *)
CloudRecords(c) ==
  /\ up[c] # << >>
  /\ Head(up[c]) # JoinRef
  /\ up' = [up EXCEPT ![c] = Tail(@)]
  /\ LET e == Head(up[c])
         known == \E i \in DOMAIN recorded : recorded[i] = e
         Reply(t) == Send(c, << [type |-> "own", of |-> e], [type |-> t, of |-> e] >>)
     IN \/ /\ recorded' = IF known THEN recorded ELSE Append(recorded, e)
           /\ \/ Reply("ok") /\ UNCHANGED faults
              \/ Fault /\ \E t \in {"changed", "garbled"} : Reply(t)
        \/ /\ Fault
           /\ Send(c, << [type |-> "rejected", of |-> e] >>)
           /\ UNCHANGED recorded
  /\ UNCHANGED <<callVars, chanVars, link, done, failure, reader, inbound,
                 joined, posted, restVars, cancels>>

Broadcast(m) ==
  down' = [c \in Conns |-> IF c \in joined /\ link[c] = "up"
                           THEN Append(down[c], [type |-> "message", of |-> m])
                           ELSE down[c]]

(* A Request is persisted, or the Share is closed.                         *)
Post(m) ==
  /\ m \notin posted
  /\ posted' = posted \union {m}
  /\ Broadcast(m)
  /\ UNCHANGED <<callVars, chanVars, link, done, failure, reader, inbound, up,
                 joined, recorded, restVars, faultVars>>

(* The coordinator broadcasts a message again.                             *)
PostAgain(m) ==
  /\ m \in posted
  /\ Fault
  /\ Broadcast(m)
  /\ UNCHANGED <<callVars, chanVars, link, done, failure, reader, inbound, up,
                 cloudVars, restVars, cancels>>

Break(c) ==
  /\ link[c] = "up"
  /\ Fault
  /\ link' = [link EXCEPT ![c] = "down"]
  /\ UNCHANGED <<callVars, chanVars, done, failure, reader, inbound, up, down,
                 cloudVars, restVars, cancels>>

-----------------------------------------------------------------------------

CallStep(p) ==
  \/ Look(p) \/ UseCurrent(p) \/ TakeMessage(p) \/ TakeFailure(p) \/ StopWaiting(p)
  \/ Push(p) \/ Acknowledged(p) \/ Disconnected(p) \/ AbandonPush(p)
  \/ Lock(p) \/ LatePending(p) \/ LatePendingFails(p)
  \/ Dial(p) \/ Join(p) \/ Query(p) \/ Install(p) \/ Retry(p) \/ GiveUp(p)

ReaderStep(c) == Read(c) \/ Enqueue(c) \/ StopReading(c) \/ ReadFails(c)
CloudStep(c)  == CloudJoins(c) \/ CloudRecords(c)

Next ==
  \/ \E p \in Callers : CallStep(p) \/ ContextEnds(p) \/ CallNext(p)
  \/ \E p \in Submitters, n \in 1 .. MaxSubmissions : CallSubmit(p, n)
  \/ \E c \in Conns : ReaderStep(c) \/ HeartbeatFails(c) \/ CloudStep(c) \/ Break(c)
  \/ \E m \in Messages : Post(m) \/ PostAgain(m)
  \/ Close

Spec == Init /\ [][Next]_vars

(* Every goroutine that can go on does, and so does the coordinator with   *)
(* what reaches it on a socket that is up.  Failures, contexts, messages   *)
(* and new calls are not owed to anyone.                                   *)
Fairness ==
  /\ \A p \in Callers : WF_vars(CallStep(p))
  /\ \A c \in Conns :
       /\ WF_vars(ReaderStep(c))
       /\ WF_vars(HeartbeatFails(c))
       /\ WF_vars(link[c] = "up" /\ CloudStep(c))

FairSpec == Spec /\ Fairness

(* awaitSharedRequest calls Next again and again.                          *)
AwaitSpec == FairSpec /\ \A p \in Waiters : WF_vars(CallNext(p))

-----------------------------------------------------------------------------

(* A connection that carries no call is never left open: besides the       *)
(* current one only the one a reconnection is setting up is alive, however *)
(* joins and Pending fail and whoever comes second to reconnect.           *)
NoStrayConnection ==
  \A c \in Conns : link[c] # "none" /\ ~done[c] =>
    c = current \/ (lock # None /\ held[lock] = c)

(* No message of the Share falls between two connections: one that nobody  *)
(* was told about is on its way on the current connection, waits in a      *)
(* recovery, or the connection is broken and the next Pending will tell.   *)
(* Only Close gives it up.                                                 *)
NothingMissed ==
  \A m \in posted \ delivered :
    \/ closed
    \/ link[current] = "down"
    \/ \E i \in DOMAIN recoveries : m \in recoveries[i]
    \/ reader[current] = m
    \/ \E i \in DOMAIN inbound[current] : inbound[current][i] = m
    \/ \E i \in DOMAIN down[current] : down[current][i] = [type |-> "message", of |-> m]

(* The submissions implement the log: recorded once however often they are *)
(* retried, in the order of the calls, and confirmed only when recorded.   *)
Log == INSTANCE ShareLog WITH
         log <- [i \in DOMAIN recorded |-> <<recorded[i].by, recorded[i].no>>]

ImplementsLog == Log!Spec

(* A submission returns, however connections fail and whatever is          *)
(* broadcast to the runner meanwhile.                                      *)
SubmissionReturns ==
  \A s \in Submissions : calls[s] = "open" ~> calls[s] # "open"

(* Close ends every call, also one that waits for a reconnection.          *)
CloseEndsCalls ==
  closed ~> (\A p \in Callers : pc[p] = "idle")

(* A message of the Share reaches whoever calls Next, unless the channel   *)
(* is closed.                                                              *)
MessageArrives ==
  \A m \in Messages : m \in posted ~> (m \in delivered \/ closed)
=============================================================================
