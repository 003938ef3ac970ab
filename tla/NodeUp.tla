------------------------------- MODULE NodeUp --------------------------------
(***************************************************************************)
(* `doppels node up` (runListen): a producer polls the inbox, one watcher  *)
(* per Share waits for its Request, a bounded channel takes the Requests   *)
(* to the main loop, which asks the operator and carries each one out,     *)
(* itself or in a background goroutine, until Ctrl-C or a failure.         *)
(*                                                                         *)
(* The Space and the Share coordinator are external, and so is the person  *)
(* at the terminal, whose lines go to whichever goroutine reads them.      *)
(***************************************************************************)
EXTENDS Integers, Sequences, FiniteSets

CONSTANTS
  Shares,        (* Shares of this Identity; each gets at most one Request  *)
  Requests,      (* Requests of the Spaces in scope                         *)
  Manual,        (* items whose fulfillment asks for outputs at the terminal *)
  Backgrounded,  (* items the operator may send to the background           *)
  Slots,         (* capacity of the jobs channel: 16 in the code            *)
  ApproveAll,    (* --yes                                                   *)
  MaxFaults,     (* failing requests, connections and Runs in a behaviour   *)
  MaxStops,      (* 1 if there may be a Ctrl-C                              *)
  None           (* no item                                                 *)

ASSUME NodeUpAssumption ==
  /\ Shares \cap Requests = {}
  /\ None \notin Shares \union Requests
  /\ Manual \union Backgrounded \subseteq Shares \union Requests
  /\ Slots \in Nat \ {0}
  /\ ApproveAll \in BOOLEAN
  /\ MaxFaults \in Nat
  /\ MaxStops \in {0, 1}

Items == Shares \union Requests

VARIABLES
  main,        (* where the main loop is                                    *)
  job,         (* the job it works on                                       *)
  held,        (* jobs taken from the channel and not decided yet           *)
  nilled       (* its variable jobs has been set to nil                     *)

mainVars == <<main, job, held, nilled>>

VARIABLES
  jobs,        (* the jobs channel                                          *)
  jobsClosed,
  errs         (* producerErr, a channel of one                             *)

chanVars == <<jobs, jobsClosed, errs>>

VARIABLES
  producer,    (* where the inbox producer is                               *)
  news,        (* the error it reports                                      *)
  listing,     (* items of the last inbox it has not looked at yet          *)
  claimed,     (* claimedShares and claimedRequests                         *)
  watcher,     (* where the watcher of a Share is                           *)
  channel,     (* the Share's channel is open                               *)
  known        (* OperatorDecision in the job's copy of the Request         *)

pollVars == <<producer, news, listing, claimed, watcher, channel, known>>

VARIABLES
  stage,       (* how far an item has been carried out                      *)
  background   (* items carried out by a background goroutine               *)

workVars == <<stage, background>>

VARIABLES
  stopped,     (* Ctrl-C: the command's context is done                     *)
  state,       (* the item's Request at the coordinator                     *)
  decision,    (* what the console decided about it                         *)
  expired,     (* Shares past ExpiresAt                                     *)
  executed,    (* how often Execute was called for the item                 *)
  reviewed,    (* what the operator answered about the item                 *)
  faults

cloudVars == <<state, decision, expired>>
pastVars  == <<executed, reviewed>>
vars == <<mainVars, chanVars, pollVars, workVars, stopped, cloudVars, pastVars, faults>>

Decisions == {"approve", "reject", "skip", "background"}
Carrying  == {"resolve", "decide", "execute", "manual", "run"}

TypeOK ==
  /\ main \in {"wait", "drain", "ask", "prompt", "reject", "work",
               "stopping", "failing", "ended", "panicked"}
  /\ job \in Items \union {None}
  /\ held \in Seq(Items)
  /\ nilled \in BOOLEAN
  /\ jobs \in Seq(Items) /\ Len(jobs) <= Slots
  /\ jobsClosed \in BOOLEAN
  /\ errs \in {<< >>, <<"failure">>, <<"cancelled">>}
  /\ producer \in {"first", "offer", "tick", "tell", "close", "ended"}
  /\ news \in {"none", "failure", "cancelled"}
  /\ listing \subseteq Items
  /\ claimed \subseteq Items
  /\ watcher \in [Shares -> {"none", "connect", "await", "send"}]
  /\ channel \in [Shares -> BOOLEAN]
  /\ known \in [Items -> {"none", "approve", "reject"}]
  /\ stage \in [Items -> Carrying \union {"none", "done"}]
  /\ background \subseteq Items
  /\ stopped \in BOOLEAN
  /\ state \in [Items -> {"none", "requested", "running", "over"}]
  /\ decision \in [Items -> {"none", "approve", "reject"}]
  /\ expired \subseteq Shares
  /\ executed \in [Items -> Nat]
  /\ reviewed \in [Items -> Decisions \union {"none"}]
  /\ faults \in 0 .. MaxFaults

Init ==
  /\ main = "wait" /\ job = None /\ held = << >> /\ nilled = FALSE
  /\ jobs = << >> /\ jobsClosed = FALSE /\ errs = << >>
  /\ producer = "first" /\ news = "none" /\ listing = {} /\ claimed = {}
  /\ watcher = [s \in Shares |-> "none"]
  /\ channel = [s \in Shares |-> FALSE]
  /\ known = [i \in Items |-> "none"]
  /\ stage = [i \in Items |-> "none"]
  /\ background = {}
  /\ stopped = FALSE
  /\ state = [i \in Items |-> "none"]
  /\ decision = [i \in Items |-> "none"]
  /\ expired = {}
  /\ executed = [i \in Items |-> 0]
  /\ reviewed = [i \in Items |-> "none"]
  /\ faults = 0

-----------------------------------------------------------------------------

Alive == main \notin {"ended", "panicked"}

Fault == faults < MaxFaults /\ faults' = faults + 1

(* A call that fails because the context is done, or for another reason.   *)
CallFails ==
  \/ stopped /\ UNCHANGED faults
  \/ Fault

(* Closing a job's channel; jobs of a Space have none.                     *)
CloseChannel(i) ==
  channel' = [s \in Shares |-> channel[s] /\ s # i]

(* ------------------------- the inbox producer -------------------------- *)

(* The inbox lists a Share that waits for its Request or for its Run, and  *)
(* the Requests of a Space until their Run has been ingested or they are   *)
(* rejected.                                                               *)
Inbox ==
  {s \in Shares : state[s] = "requested" \/ (state[s] = "none" /\ s \notin expired)}
    \union {r \in Requests : state[r] = "requested"}

(* poll: the answer is worked off item by item; its copies of the Requests *)
(* are the ones the jobs are made of.                                      *)
Poll ==
  /\ Alive
  /\ ~stopped
  /\ producer \in {"first", "tick"}
  /\ listing' = Inbox
  /\ known' = [i \in Items |-> IF i \in Inbox \cap Requests /\ i \notin claimed
                               THEN decision[i] ELSE known[i]]
  /\ producer' = "offer"
  /\ UNCHANGED <<mainVars, chanVars, news, claimed, watcher, channel, workVars,
                 stopped, cloudVars, pastVars, faults>>

(* The inbox cannot be read, or the ticker's select sees the context.      *)
Tell(what) ==
  /\ producer' = "tell"
  /\ news' = what
  /\ listing' = {}

PollFails ==
  /\ Alive
  /\ producer \in {"first", "tick"}
  /\ CallFails
  /\ Tell(IF stopped THEN "cancelled" ELSE "failure")
  /\ UNCHANGED <<mainVars, chanVars, claimed, watcher, channel, known, workVars,
                 stopped, cloudVars, pastVars>>

(* Shares come first; claimShare, and a watcher for a new one.             *)
ClaimShare(s) ==
  /\ Alive
  /\ producer = "offer"
  /\ s \in listing
  /\ listing' = listing \ {s}
  /\ claimed' = claimed \union {s}
  /\ watcher' = IF s \in claimed THEN watcher ELSE [watcher EXCEPT ![s] = "connect"]
  /\ UNCHANGED <<mainVars, chanVars, producer, news, channel, known, workVars,
                 stopped, cloudVars, pastVars, faults>>

(* claimRequest and the select of its three cases: into the channel, given *)
(* back because the channel is full, or stopped.                           *)
OfferRequest(r) ==
  /\ Alive
  /\ producer = "offer"
  /\ listing \cap Shares = {}
  /\ r \in listing
  /\ \/ /\ r \in claimed
        /\ listing' = listing \ {r}
        /\ UNCHANGED <<claimed, jobs, producer, news>>
     \/ /\ r \notin claimed
        /\ Len(jobs) < Slots
        /\ jobs' = Append(jobs, r)
        /\ claimed' = claimed \union {r}
        /\ listing' = listing \ {r}
        /\ UNCHANGED <<producer, news>>
     \/ /\ r \notin claimed
        /\ Len(jobs) = Slots
        /\ ~stopped
        /\ listing' = listing \ {r}
        /\ UNCHANGED <<claimed, jobs, producer, news>>
     \/ /\ r \notin claimed
        /\ stopped
        /\ Tell("cancelled")
        /\ UNCHANGED <<claimed, jobs>>
  /\ UNCHANGED <<mainVars, jobsClosed, errs, watcher, channel, known, workVars,
                 stopped, cloudVars, pastVars, faults>>

(* Mutant: the ticker is not armed.                                       *)
PollOnce ==
  /\ Alive
  /\ producer = "offer"
  /\ listing = {}
  /\ producer' = "ended"
  /\ UNCHANGED <<mainVars, chanVars, news, listing, claimed, watcher, channel, known,
                 workVars, stopped, cloudVars, pastVars, faults>>

AwaitTick ==
  /\ Alive
  /\ producer = "offer"
  /\ listing = {}
  /\ producer' = "tick"
  /\ UNCHANGED <<mainVars, chanVars, news, listing, claimed, watcher, channel, known,
                 workVars, stopped, cloudVars, pastVars, faults>>

(* cfg.errCh <- err blocks while an error of a watcher is in it.           *)
TellMain ==
  /\ Alive
  /\ producer = "tell"
  /\ errs = << >>
  /\ errs' = <<news>>
  /\ producer' = "close"
  /\ UNCHANGED <<mainVars, jobs, jobsClosed, news, listing, claimed, watcher, channel, known,
                 workVars, stopped, cloudVars, pastVars, faults>>

(* defer close(cfg.jobs), whatever the watchers are doing.                 *)
CloseJobs ==
  /\ Alive
  /\ producer = "close"
  /\ jobsClosed' = TRUE
  /\ producer' = "ended"
  /\ UNCHANGED <<mainVars, jobs, errs, news, listing, claimed, watcher, channel, known,
                 workVars, stopped, cloudVars, pastVars, faults>>

(* --------------------- one watcher per claimed Share -------------------- *)

(* The watcher's claim and channel are given back.                         *)
LetGo(s) ==
  /\ watcher' = [watcher EXCEPT ![s] = "none"]
  /\ claimed' = claimed \ {s}
  /\ CloseChannel(s)

(* OpenChannel, whose answer may hold the Request already, or a Request    *)
(* that arrives: the job is made of the copy received.                     *)
HasRequest(s) ==
  /\ watcher' = [watcher EXCEPT ![s] = "send"]
  /\ known' = [known EXCEPT ![s] = decision[s]]

Connect(s) ==
  /\ Alive
  /\ ~stopped
  /\ watcher[s] = "connect"
  /\ channel' = [channel EXCEPT ![s] = TRUE]
  /\ IF state[s] = "requested"
     THEN HasRequest(s)
     ELSE watcher' = [watcher EXCEPT ![s] = "await"] /\ UNCHANGED known
  /\ UNCHANGED <<mainVars, chanVars, producer, news, listing, claimed, workVars,
                 stopped, cloudVars, pastVars, faults>>

RequestArrives(s) ==
  /\ Alive
  /\ watcher[s] = "await"
  /\ state[s] = "requested"
  /\ HasRequest(s)
  /\ UNCHANGED <<mainVars, chanVars, producer, news, listing, claimed, channel, workVars,
                 stopped, cloudVars, pastVars, faults>>

(* Mutant: the claim is kept at the deadline.                             *)
WatchEndsClaimed(s) ==
  /\ Alive
  /\ watcher[s] = "await"
  /\ (s \in expired /\ ~stopped) \/ state[s] = "over"
  /\ watcher' = [watcher EXCEPT ![s] = "none"]
  /\ CloseChannel(s)
  /\ UNCHANGED claimed
  /\ UNCHANGED <<mainVars, chanVars, producer, news, listing, known, workVars,
                 stopped, cloudVars, pastVars, faults>>

(* The deadline of the Share, or its Request was fulfilled elsewhere.      *)
WatchEnds(s) ==
  /\ Alive
  /\ watcher[s] = "await"
  /\ (s \in expired /\ ~stopped) \/ state[s] = "over"
  /\ LetGo(s)
  /\ UNCHANGED <<mainVars, chanVars, producer, news, listing, known, workVars,
                 stopped, cloudVars, pastVars, faults>>

(* A connection error, a Run of somebody else that failed or is unfinished: *)
(* producerErr gets the error unless it holds one or the node is stopped.  *)
WatchFails(s) ==
  /\ Alive
  /\ watcher[s] \in {"connect", "await"}
  /\ \/ CallFails
     \/ watcher[s] = "await" /\ state[s] \in {"running", "over"} /\ UNCHANGED faults
  /\ LetGo(s)
  /\ errs' = IF stopped \/ errs # << >> THEN errs ELSE <<"failure">>
  /\ UNCHANGED <<mainVars, jobs, jobsClosed, producer, news, listing, known, workVars,
                 stopped, cloudVars, pastVars>>

(* Mutant: a Share that was handed off is released.                       *)
HandOffReleasing(s) ==
  /\ Alive
  /\ watcher[s] = "send"
  /\ ~jobsClosed
  /\ Len(jobs) < Slots
  /\ jobs' = Append(jobs, s)
  /\ watcher' = [watcher EXCEPT ![s] = "none"]
  /\ claimed' = claimed \ {s}
  /\ UNCHANGED <<mainVars, jobsClosed, errs, producer, news, listing, channel, known,
                 workVars, stopped, cloudVars, pastVars, faults>>

(* The three outcomes of the select at the end of watchInboxShare; the     *)
(* claim of a Share that was handed off is kept.                           *)
HandOff(s) ==
  /\ Alive
  /\ watcher[s] = "send"
  /\ ~jobsClosed
  /\ Len(jobs) < Slots
  /\ jobs' = Append(jobs, s)
  /\ watcher' = [watcher EXCEPT ![s] = "none"]
  /\ UNCHANGED <<mainVars, jobsClosed, errs, producer, news, listing, claimed, channel, known,
                 workVars, stopped, cloudVars, pastVars, faults>>

StopHandingOff(s) ==
  /\ Alive
  /\ watcher[s] = "send"
  /\ stopped
  /\ LetGo(s)
  /\ UNCHANGED <<mainVars, chanVars, producer, news, listing, known, workVars,
                 stopped, cloudVars, pastVars, faults>>

(* A send on the channel the producer has closed ends the process.         *)
SendOnClosed(s) ==
  /\ Alive
  /\ watcher[s] = "send"
  /\ jobsClosed
  /\ main' = "panicked"
  /\ UNCHANGED <<job, held, nilled, chanVars, pollVars, workVars,
                 stopped, cloudVars, pastVars, faults>>

(* ---------------------------- the main loop ----------------------------- *)

(* Back to the head of the loop.                                           *)
Rest == main' = "wait" /\ job' = None

TakeHeld ==
  /\ main = "wait"
  /\ held # << >>
  /\ job' = Head(held)
  /\ held' = Tail(held)
  /\ main' = "drain"
  /\ UNCHANGED <<nilled, chanVars, pollVars, workVars, stopped, cloudVars, pastVars, faults>>

(* The select of the main loop, whose ready cases are taken in any order.  *)
TakeJob ==
  /\ main = "wait"
  /\ held = << >>
  /\ ~nilled
  /\ jobs # << >>
  /\ job' = Head(jobs)
  /\ jobs' = Tail(jobs)
  /\ main' = "drain"
  /\ UNCHANGED <<held, nilled, jobsClosed, errs, pollVars, workVars,
                 stopped, cloudVars, pastVars, faults>>

GoOffline ==
  /\ main = "wait"
  /\ held = << >>
  /\ \/ stopped /\ main' = "stopping" /\ UNCHANGED errs
     \/ jobsClosed /\ jobs = << >> /\ ~nilled /\ main' = "stopping" /\ UNCHANGED errs
     \/ /\ errs # << >>
        /\ errs' = << >>
        /\ main' = IF Head(errs) = "cancelled" THEN "stopping" ELSE "failing"
  /\ UNCHANGED <<job, held, nilled, jobs, jobsClosed, pollVars, workVars,
                 stopped, cloudVars, pastVars, faults>>

(* What else is in the channel is put aside before the operator is asked.  *)
Drain ==
  /\ main = "drain"
  /\ IF ~nilled /\ jobs # << >>
     THEN /\ held' = Append(held, Head(jobs))
          /\ jobs' = Tail(jobs)
          /\ UNCHANGED <<main, nilled>>
     ELSE /\ main' = "ask"
          /\ nilled' = (nilled \/ jobsClosed)
          /\ UNCHANGED <<held, jobs>>
  /\ UNCHANGED <<job, jobsClosed, errs, pollVars, workVars,
                 stopped, cloudVars, pastVars, faults>>

(* The job is carried out by this goroutine or by one of its own.          *)
Begin(inBackground) ==
  /\ stage' = [stage EXCEPT ![job] = "resolve"]
  /\ IF inBackground
     THEN Rest /\ background' = background \union {job}
     ELSE main' = "work" /\ UNCHANGED <<job, background>>

(* Mutant: any decision of the console counts as approval.                *)
AskAnyDecision ==
  /\ main = "ask"
  /\ \/ /\ job \in Shares /\ ~stopped
        /\ known' = [known EXCEPT ![job] = decision[job]]
        /\ UNCHANGED faults
     \/ job \in Shares /\ CallFails /\ UNCHANGED known
     \/ job \in Requests /\ UNCHANGED <<known, faults>>
  /\ \/ (ApproveAll \/ known'[job] # "none") /\ Begin(FALSE)
     \/ ~ApproveAll /\ known'[job] = "reject" /\ main' = "reject" /\ UNCHANGED <<job, workVars>>
     \/ ~ApproveAll /\ known'[job] = "none" /\ main' = "prompt" /\ UNCHANGED <<job, workVars>>
  /\ UNCHANGED <<held, nilled, chanVars, producer, news, listing, claimed, watcher, channel,
                 stopped, cloudVars, pastVars>>

(* A Share's Request is read once more; without --yes the console's        *)
(* decision comes before the operator's.                                   *)
Ask ==
  /\ main = "ask"
  /\ \/ /\ job \in Shares /\ ~stopped
        /\ known' = [known EXCEPT ![job] = decision[job]]
        /\ UNCHANGED faults
     \/ job \in Shares /\ CallFails /\ UNCHANGED known
     \/ job \in Requests /\ UNCHANGED <<known, faults>>
  /\ \/ (ApproveAll \/ known'[job] = "approve") /\ Begin(FALSE)
     \/ ~ApproveAll /\ known'[job] = "reject" /\ main' = "reject" /\ UNCHANGED <<job, workVars>>
     \/ ~ApproveAll /\ known'[job] = "none" /\ main' = "prompt" /\ UNCHANGED <<job, workVars>>
  /\ UNCHANGED <<held, nilled, chanVars, producer, news, listing, claimed, watcher, channel,
                 stopped, cloudVars, pastVars>>

(* Who reads the terminal: the prompt about a job and the manual Recipes.  *)
Reading == {i \in Items : stage[i] = "manual" \/ (main = "prompt" /\ job = i)}

(* The operator answers one of them, with an output that may read like a    *)
(* decision or with a decision.  Which of the readers gets the line is left *)
(* open, as all of them are in one bufio.Reader.                            *)
Typed(i, says) ==
  /\ i \in Reading
  /\ IF stage[i] = "manual"
     THEN says \in {"approve", "other"} /\ UNCHANGED reviewed
     ELSE /\ says \in Decisions
          /\ says = "background" => i \in Backgrounded
          /\ reviewed' = [reviewed EXCEPT ![i] = says]

(* decideFulfillment; what it does not recognise makes it ask again.       *)
Decide(says) ==
  /\ main = "prompt"
  /\ \E i \in Items : Typed(i, says)
  /\ CASE says = "approve" -> Begin(FALSE) /\ UNCHANGED channel
       [] says = "background" -> Begin(TRUE) /\ UNCHANGED channel
       [] says = "reject" -> main' = "reject" /\ UNCHANGED <<job, workVars, channel>>
       [] says = "skip" -> /\ Rest
                           /\ stage' = [stage EXCEPT ![job] = "done"]
                           /\ CloseChannel(job)
                           /\ UNCHANGED background
       [] OTHER -> UNCHANGED <<main, job, workVars, channel>>
  /\ UNCHANGED <<held, nilled, chanVars, producer, news, listing, claimed, watcher, known,
                 stopped, cloudVars, executed, faults>>

(* The terminal is closed.                                                 *)
PromptFails ==
  /\ main = "prompt"
  /\ Fault
  /\ CloseChannel(job)
  /\ main' = "stopping"
  /\ UNCHANGED <<job, held, nilled, chanVars, producer, news, listing, claimed, watcher, known,
                 workVars, stopped, cloudVars, pastVars>>

(* A cancelled Run is submitted for a Share, or the Space is told.         *)
Reject ==
  /\ main = "reject"
  /\ \/ /\ state[job] = "requested" /\ ~stopped
        /\ Rest
        /\ state' = [state EXCEPT ![job] = "over"]
        /\ UNCHANGED faults
     \/ /\ CallFails \/ (state[job] # "requested" /\ UNCHANGED faults)
        /\ main' = "failing"
        /\ UNCHANGED <<job, state>>
  /\ CloseChannel(job)
  /\ stage' = [stage EXCEPT ![job] = "done"]
  /\ UNCHANGED <<held, nilled, chanVars, producer, news, listing, claimed, watcher, known,
                 background, stopped, decision, expired, pastVars>>

(* Mutant: the producer is waited for as well.                            *)
ReturnAfterProducer ==
  /\ main \in {"stopping", "failing"}
  /\ background = {}
  /\ producer = "ended"
  /\ main' = "ended"
  /\ UNCHANGED <<job, held, nilled, chanVars, pollVars, workVars,
                 stopped, cloudVars, pastVars, faults>>

(* Every return waits for the background goroutines; then the process and  *)
(* with it every socket is gone.                                           *)
Return ==
  /\ main \in {"stopping", "failing"}
  /\ background = {}
  /\ main' = "ended"
  /\ UNCHANGED <<job, held, nilled, chanVars, pollVars, workVars,
                 stopped, cloudVars, pastVars, faults>>

(* ------------------------ carrying out a Request ------------------------ *)

(* runJob returns: a failure in the foreground ends the node.              *)
Finish(i, ok) ==
  /\ stage' = [stage EXCEPT ![i] = "done"]
  /\ CloseChannel(i)
  /\ background' = background \ {i}
  /\ IF i \in background THEN UNCHANGED <<main, job>>
     ELSE job' = None /\ main' = IF ok THEN "wait" ELSE "failing"

GoOn(i, next) ==
  /\ stage' = [stage EXCEPT ![i] = next]
  /\ UNCHANGED <<main, job, background, channel>>

(* The project, the Capability, the Recipe and the host are looked up.     *)
Resolve(i) ==
  /\ Alive
  /\ stage[i] = "resolve"
  /\ \/ GoOn(i, IF i \in Requests /\ known[i] # "approve" THEN "decide" ELSE "execute")
        /\ UNCHANGED faults
     \/ Fault /\ Finish(i, FALSE)
  /\ UNCHANGED <<held, nilled, chanVars, producer, news, listing, claimed, watcher, known,
                 stopped, cloudVars, pastVars>>

(* DecideRequest(approve), before the first Step of a Space's Request.     *)
ApproveRequest(i) ==
  /\ Alive
  /\ stage[i] = "decide"
  /\ \/ /\ state[i] = "requested" /\ ~stopped
        /\ decision' = [decision EXCEPT ![i] = "approve"]
        /\ GoOn(i, "execute")
        /\ UNCHANGED faults
     \/ /\ CallFails \/ (state[i] # "requested" /\ UNCHANGED faults)
        /\ Finish(i, FALSE)
        /\ UNCHANGED decision
  /\ UNCHANGED <<held, nilled, chanVars, producer, news, listing, claimed, watcher, known,
                 stopped, state, expired, pastVars>>

(* Execute; the coordinator of a Share takes one Run.                      *)
Execute(i) ==
  /\ Alive
  /\ stage[i] = "execute"
  /\ executed' = [executed EXCEPT ![i] = @ + 1]
  /\ \/ /\ i \in Requests \/ (state[i] = "requested" /\ ~stopped)
        /\ state' = IF i \in Shares THEN [state EXCEPT ![i] = "running"] ELSE state
        /\ GoOn(i, IF i \in Manual THEN "manual" ELSE "run")
        /\ UNCHANGED faults
     \/ /\ i \in Shares
        /\ CallFails \/ (state[i] # "requested" /\ UNCHANGED faults)
        /\ Finish(i, FALSE)
        /\ UNCHANGED state
  /\ UNCHANGED <<held, nilled, chanVars, producer, news, listing, claimed, watcher, known,
                 stopped, decision, expired, reviewed>>

(* A manual Recipe takes the next line for its output.                     *)
ReadOutput(i) ==
  /\ Alive
  /\ stage[i] = "manual"
  /\ \E j \in Items, says \in Decisions \union {"other"} : Typed(j, says)
  /\ GoOn(i, "run")
  /\ UNCHANGED <<held, nilled, chanVars, producer, news, listing, claimed, watcher, known,
                 stopped, cloudVars, executed, faults>>

(* The Run ends.  A Share is told by its last event, a Space by a flush of *)
(* the outbox, whose failure is only a warning.                            *)
EndRun(i) ==
  /\ Alive
  /\ stage[i] = "run"
  /\ \/ ~stopped /\ Finish(i, TRUE) /\ state' = [state EXCEPT ![i] = "over"] /\ UNCHANGED faults
     \/ i \in Requests /\ CallFails /\ Finish(i, TRUE) /\ UNCHANGED state
     \/ /\ CallFails
        /\ Finish(i, FALSE)
        /\ \/ state' = [state EXCEPT ![i] = "over"]
           \/ UNCHANGED state
  /\ UNCHANGED <<held, nilled, chanVars, producer, news, listing, claimed, watcher, known,
                 stopped, decision, expired, pastVars>>

(* ---------------------- Ctrl-C, the Space, the clock -------------------- *)

Stop ==
  /\ Alive
  /\ MaxStops > 0
  /\ ~stopped
  /\ stopped' = TRUE
  /\ UNCHANGED <<mainVars, chanVars, pollVars, workVars, cloudVars, pastVars, faults>>

NewRequest(i) ==
  /\ Alive
  /\ state[i] = "none"
  /\ i \notin expired
  /\ state' = [state EXCEPT ![i] = "requested"]
  /\ UNCHANGED <<mainVars, chanVars, pollVars, workVars, stopped,
                 decision, expired, pastVars, faults>>

(* The console decides; a Space's rejected Request leaves the inbox.       *)
ConsoleDecides(i, d) ==
  /\ Alive
  /\ state[i] = "requested"
  /\ decision[i] = "none"
  /\ decision' = [decision EXCEPT ![i] = d]
  /\ state' = IF d = "reject" /\ i \in Requests THEN [state EXCEPT ![i] = "over"] ELSE state
  /\ UNCHANGED <<mainVars, chanVars, pollVars, workVars, stopped,
                 expired, pastVars, faults>>

(* Another process of this Identity, a `doppels share`, carries it out.    *)
RunElsewhere(s) ==
  /\ Alive
  /\ state[s] = "requested"
  /\ Fault
  /\ state' = [state EXCEPT ![s] = "over"]
  /\ UNCHANGED <<mainVars, chanVars, pollVars, workVars, stopped,
                 decision, expired, pastVars>>

Expire(s) ==
  /\ Alive
  /\ s \notin expired
  /\ expired' = expired \union {s}
  /\ UNCHANGED <<mainVars, chanVars, pollVars, workVars, stopped,
                 state, decision, pastVars, faults>>

-----------------------------------------------------------------------------

Producing ==
  \/ Poll \/ PollFails \/ AwaitTick \/ TellMain \/ CloseJobs
  \/ \E s \in Shares : ClaimShare(s)
  \/ \E r \in Requests : OfferRequest(r)

Watching(s) ==
  \/ Connect(s) \/ RequestArrives(s) \/ WatchEnds(s) \/ WatchFails(s)
  \/ HandOff(s) \/ StopHandingOff(s) \/ SendOnClosed(s)

Looping ==
  \/ TakeHeld \/ TakeJob \/ GoOffline \/ Drain
  \/ Ask \/ (\E says \in Decisions \union {"other"} : Decide(says)) \/ PromptFails \/ Reject \/ Return

Working(i) ==
  \/ Resolve(i) \/ ApproveRequest(i) \/ Execute(i) \/ ReadOutput(i) \/ EndRun(i)

Next ==
  \/ Producing \/ Looping \/ Stop
  \/ \E s \in Shares : Watching(s) \/ RunElsewhere(s) \/ Expire(s)
  \/ \E i \in Items :
       \/ Working(i) \/ NewRequest(i)
       \/ \E d \in {"approve", "reject"} : ConsoleDecides(i, d)

Spec == Init /\ [][Next]_vars

(* The goroutines go on, Runs end (a cancelled one because its process     *)
(* group is killed), and the operator answers.  Nothing else is owed.      *)
Fairness ==
  /\ WF_vars(Producing)
  /\ WF_vars(Looping)
  /\ \A s \in Shares : WF_vars(Watching(s))
  /\ \A i \in Items : WF_vars(Working(i))

FairSpec == Spec /\ Fairness

-----------------------------------------------------------------------------
(* Properties *)

(* "You review shared Requests before fulfillment": without --yes nothing   *)
(* is executed that neither the operator nor the console approved.          *)
ReviewedBeforeRun ==
  \A i \in Items : executed[i] > 0 =>
    ApproveAll \/ known[i] = "approve" \/ reviewed[i] \in {"approve", "background"}

(* One process carries out a Request at most once, although the inbox goes *)
(* on listing it while it runs and, when the flush fails, afterwards.      *)
RunsOnce == \A i \in Items : executed[i] <= 1

(* Nothing is forgotten: what this process has claimed is watched, queued, *)
(* put aside, being decided, carried out, or done with.                    *)
ClaimsAreHeld ==
  Alive => \A i \in claimed :
    \/ i \in Shares /\ watcher[i] # "none"
    \/ \E k \in DOMAIN jobs : jobs[k] = i
    \/ \E k \in DOMAIN held : held[k] = i
    \/ job = i
    \/ stage[i] # "none"

(* A Request is offered to the operator, or the node does not go on.        *)
RequestIsTaken ==
  \A i \in Items :
    state[i] = "requested" ~> (job = i \/ stage[i] # "none" \/ state[i] # "requested" \/ ~Alive)

(* "Ctrl-C stops it", once the operator has answered what is asked.         *)
StopEnds == stopped ~> ~Alive
=============================================================================
