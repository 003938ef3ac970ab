----------------------------- MODULE NodeUp_proofs ----------------------------
(***************************************************************************)
(* Proofs about NodeUp, for any number of Shares, Requests, slots of the   *)
(* channel and failures.                                                   *)
(*                                                                         *)
(* The inductive invariant IInv follows a claimed item through the node:   *)
(* it is with its watcher, in the jobs channel, put aside, the job being   *)
(* decided, or carried out, never in two of these places, and it stays     *)
(* claimed as long as it is in one.  So a watcher that gives its claim     *)
(* back leaves nothing behind, the inbox cannot bring an item in twice,    *)
(* and an item enters its execution once.                                  *)
(***************************************************************************)
EXTENDS NodeUp, TLAPS

Holds(q, i) == \E k \in 1 .. Len(q) : q[k] = i

Queued(i)  == Holds(jobs, i)
Aside(i)   == Holds(held, i)
Watched(i) == i \in Shares /\ watcher[i] # "none"

NoTwice(q) == \A j, k \in 1 .. Len(q) : q[j] = q[k] => j = k

Deciding == {"drain", "ask", "prompt", "reject"}
Before   == {"none", "resolve", "decide", "execute"}

(* An item is in one place, and then it is claimed.                        *)
Apart(i) ==
  /\ Queued(i) => ~Aside(i) /\ ~Watched(i) /\ job # i /\ stage[i] = "none"
  /\ Aside(i) => ~Watched(i) /\ job # i /\ stage[i] = "none"
  /\ Watched(i) => job # i /\ stage[i] = "none"
  /\ Queued(i) \/ Aside(i) \/ Watched(i) \/ job = i \/ stage[i] # "none" => i \in claimed

(* And a claimed item is in one of the places.                             *)
Somewhere(i) ==
  i \in claimed => Queued(i) \/ Aside(i) \/ Watched(i) \/ job = i \/ stage[i] # "none"

(* The job of the main loop.                                               *)
MainPlaced ==
  /\ main = "wait" => job = None
  /\ main \in Deciding => job \in Items /\ stage[job] = "none"

(* Who carries an item out, and how often it has been executed.            *)
StagePlaced(i) ==
  /\ Alive /\ stage[i] \in Carrying => i \in background \/ (job = i /\ main = "work")
  /\ executed[i] <= 1
  /\ stage[i] \in Before => executed[i] = 0

(* The producer stops with an error.                                       *)
NewsPlaced == producer = "tell" => news # "none"

IInv ==
  /\ TypeOK
  /\ NewsPlaced
  /\ NoTwice(jobs) /\ NoTwice(held)
  /\ MainPlaced
  /\ \A i \in Items : Apart(i) /\ Somewhere(i) /\ StagePlaced(i)

(* What was reviewed, if no item that takes its outputs from the terminal  *)
(* can be in the background, where it would share the operator's lines     *)
(* with the prompt.                                                        *)
Reviewed(i) == ApproveAll \/ known[i] = "approve" \/ reviewed[i] \in {"approve", "background"}

ReviewPlaced(i) ==
  /\ stage[i] \in Carrying \/ executed[i] > 0 => Reviewed(i)
  /\ stage[i] = "manual" => i \in Manual
  /\ i \in background => i \in Backgrounded

RInv == \A i \in Items : ReviewPlaced(i)

-----------------------------------------------------------------------------
(* Queues.                                                                 *)

(* An item that is appended to a queue it is not in is in it once.         *)
LEMMA HeldTwice ==
  ASSUME NEW S, NEW q \in Seq(S), NEW x \in S, NoTwice(q), ~Holds(q, x)
  PROVE  /\ NoTwice(Append(q, x))
         /\ \A i : Holds(Append(q, x), i) <=> Holds(q, i) \/ i = x
<1> DEFINE r == Append(q, x)
<1>1. /\ Len(r) = Len(q) + 1 /\ Len(q) \in Nat
      /\ r[Len(q) + 1] = x
      /\ \A k \in 1 .. Len(q) : r[k] = q[k]
  OBVIOUS
<1> HIDE DEF r
<1>2. NoTwice(r)
  BY <1>1 DEF NoTwice, Holds
<1>3. \A i : Holds(r, i) <=> Holds(q, i) \/ i = x
  BY <1>1 DEF Holds
<1> QED
  BY <1>2, <1>3 DEF r

(* The head of a queue leaves it altogether, for it is in it once.         *)
LEMMA HeadTaken ==
  ASSUME NEW S, NEW q \in Seq(S), q # << >>, NoTwice(q)
  PROVE  /\ Head(q) \in S /\ Tail(q) \in Seq(S)
         /\ Holds(q, Head(q))
         /\ NoTwice(Tail(q))
         /\ \A i : Holds(Tail(q), i) <=> Holds(q, i) /\ i # Head(q)
<1> DEFINE r == Tail(q)
           h == Head(q)
<1>1. /\ Len(r) = Len(q) - 1 /\ Len(q) \in Nat /\ Len(q) > 0
      /\ h = q[1] /\ h \in S /\ r \in Seq(S)
      /\ \A k \in 1 .. Len(r) : r[k] = q[k + 1]
  OBVIOUS
<1> HIDE DEF r, h
<1>2. NoTwice(r) /\ Holds(q, h)
  BY <1>1 DEF NoTwice, Holds
<1>3. ASSUME NEW i
      PROVE  Holds(r, i) <=> Holds(q, i) /\ i # h
  <2>1. ASSUME NEW k \in 1 .. Len(r), r[k] = i
        PROVE  Holds(q, i) /\ i # h
    BY <1>1, <2>1 DEF NoTwice, Holds
  <2>2. ASSUME NEW k \in 1 .. Len(q), q[k] = i, i # h
        PROVE  Holds(r, i)
    <3>1. k - 1 \in 1 .. Len(r) /\ r[k - 1] = i
      BY <1>1, <2>2
    <3> QED
      BY <3>1 DEF Holds
  <2> QED
    BY <2>1, <2>2 DEF Holds
<1> QED
  BY <1>1, <1>2, <1>3 DEF r, h

-----------------------------------------------------------------------------
(* Kinds of steps.                                                         *)

(* No item changes its place.                                              *)
Quiet ==
  /\ UNCHANGED <<jobs, held, job, stage, claimed, executed, background>>
  /\ \A s \in Shares : watcher'[s] = "none" <=> watcher[s] = "none"
  /\ \/ main' = main
     \/ main \in Deciding /\ main' \in Deciding
     \/ main \in {"wait"} \union Deciding /\ main' \in {"stopping", "failing"}
     \/ main' \in {"ended", "panicked"}

(* No item but i changes its place.                                        *)
Elsewhere(i) ==
  \A j \in Items \ {i} :
    /\ (Queued(j)' <=> Queued(j)) /\ (Aside(j)' <=> Aside(j)) /\ (Watched(j)' <=> Watched(j))
    /\ (job' = j) <=> (job = j)
    /\ (j \in claimed') <=> (j \in claimed)
    /\ (j \in background') <=> (j \in background)
    /\ stage'[j] = stage[j] /\ executed'[j] = executed[j]

(* IInv survives a step that moves no item.                                *)
LEMMA QuietKeeps ==
  ASSUME IInv, Quiet, TypeOK', NewsPlaced'
  PROVE  IInv'
<1>1. NoTwice(jobs)' /\ NoTwice(held)'
  BY DEF Quiet, IInv, NoTwice
<1>2. MainPlaced'
  BY DEF Quiet, IInv, MainPlaced, Deciding
<1>3. ASSUME NEW i \in Items
      PROVE  (Apart(i) /\ Somewhere(i) /\ StagePlaced(i))'
  <2>1. /\ Queued(i)' = Queued(i) /\ Aside(i)' = Aside(i)
        /\ (Watched(i)' <=> Watched(i))
    BY DEF Quiet, Queued, Aside, Watched, Holds
  <2>2. Apart(i)' /\ Somewhere(i)'
    BY <2>1 DEF Quiet, IInv, Apart, Somewhere
  <2>3. StagePlaced(i)'
    BY DEF Quiet, IInv, StagePlaced, MainPlaced, Alive, Deciding
  <2> QED
    BY <2>2, <2>3
<1> QED
  BY <1>1, <1>2, <1>3 DEF IInv

(* A step that moves one item only has to answer for that item.            *)
LEMMA OneKeeps ==
  ASSUME IInv, TypeOK', NewsPlaced', NEW i \in Items, Elsewhere(i),
         Alive, main = "work" /\ job # i => main' = main,
         (NoTwice(jobs) /\ NoTwice(held) /\ MainPlaced)',
         (Apart(i) /\ Somewhere(i) /\ StagePlaced(i))'
  PROVE  IInv'
<1>1. ASSUME NEW j \in Items, j # i
      PROVE  (Apart(j) /\ Somewhere(j) /\ StagePlaced(j))'
  <2>1. Apart(j)' /\ Somewhere(j)'
    BY <1>1 DEF Elsewhere, IInv, Apart, Somewhere
  <2>2. StagePlaced(j)'
    BY <1>1 DEF Elsewhere, IInv, StagePlaced
  <2> QED
    BY <2>1, <2>2
<1> QED
  BY <1>1 DEF IInv

-----------------------------------------------------------------------------
(* The types.                                                              *)

(* Closing a channel keeps the type of the channels.                       *)
LEMMA ClosedChannel ==
  ASSUME channel \in [Shares -> BOOLEAN], NEW i, CloseChannel(i)
  PROVE  channel' \in [Shares -> BOOLEAN]
<1>1. \A s \in Shares : (channel[s] /\ s # i) \in BOOLEAN
  OBVIOUS
<1> QED
  BY <1>1 DEF CloseChannel

(* A call that may fail counts at most one failure.                        *)
LEMMA FailedCall ==
  ASSUME TypeOK, Fault \/ UNCHANGED faults \/ CallFails
  PROVE  faults' \in 0 .. MaxFaults
  BY NodeUpAssumption DEF Fault, CallFails, TypeOK

(* The producer keeps the types.                                           *)
LEMMA ProducingType ==
  ASSUME TypeOK, NewsPlaced, Producing
  PROVE  TypeOK' /\ NewsPlaced'
<1> USE NodeUpAssumption DEF mainVars, chanVars, pollVars, workVars, cloudVars, pastVars
<1>1. CASE Poll
  BY <1>1 DEF Poll, TypeOK, NewsPlaced, Inbox, Items
<1>2. CASE PollFails
  BY <1>2 DEF PollFails, CallFails, Fault, Tell, TypeOK, NewsPlaced
<1>3. CASE AwaitTick
  BY <1>3 DEF AwaitTick, TypeOK, NewsPlaced
<1>4. CASE TellMain
  BY <1>4 DEF TellMain, TypeOK, NewsPlaced
<1>5. CASE CloseJobs
  BY <1>5 DEF CloseJobs, TypeOK, NewsPlaced
<1>6. ASSUME NEW s \in Shares, ClaimShare(s)
      PROVE  TypeOK' /\ NewsPlaced'
  BY <1>6 DEF ClaimShare, TypeOK, NewsPlaced, Items
<1>7. ASSUME NEW r \in Requests, OfferRequest(r)
      PROVE  TypeOK' /\ NewsPlaced'
  <2>1. jobs' = jobs \/ (jobs' = Append(jobs, r) /\ Len(jobs) < Slots)
    BY <1>7 DEF OfferRequest
  <2>2. r \in Items /\ jobs \in Seq(Items) /\ Len(jobs) <= Slots
    BY DEF TypeOK, Items
  <2>3. jobs' \in Seq(Items) /\ Len(jobs') <= Slots
    BY <2>1, <2>2
  <2> QED
    BY <1>7, <2>3 DEF OfferRequest, Tell, TypeOK, NewsPlaced, Items
<1> QED
  BY <1>1, <1>2, <1>3, <1>4, <1>5, <1>6, <1>7 DEF Producing

(* So does a watcher,                                                      *)
LEMMA WatchingType ==
  ASSUME TypeOK, NEW s \in Shares, Watching(s)
  PROVE  TypeOK'
<1> USE NodeUpAssumption DEF mainVars, chanVars, pollVars, workVars, cloudVars, pastVars
<1>1. CASE Connect(s)
  <2>1. /\ channel' = [channel EXCEPT ![s] = TRUE]
        /\ watcher' = [watcher EXCEPT ![s] = "send"] \/ watcher' = [watcher EXCEPT ![s] = "await"]
        /\ known' = known \/ known' = [known EXCEPT ![s] = decision[s]]
    BY <1>1 DEF Connect, HasRequest
  <2>2. /\ channel' \in [Shares -> BOOLEAN]
        /\ watcher' \in [Shares -> {"none", "connect", "await", "send"}]
        /\ known' \in [Items -> {"none", "approve", "reject"}]
    <3>1. known' \in [Items -> {"none", "approve", "reject"}]
      <4>1. s \in Items /\ decision[s] \in {"none", "approve", "reject"}
        BY DEF TypeOK, Items
      <4> QED
        BY <2>1, <4>1 DEF TypeOK
    <3>2. channel' \in [Shares -> BOOLEAN]
      BY <2>1 DEF TypeOK
    <3>3. watcher' \in [Shares -> {"none", "connect", "await", "send"}]
      BY <2>1 DEF TypeOK
    <3> QED
      BY <3>1, <3>2, <3>3
  <2> QED
    BY <1>1, <2>2 DEF Connect, TypeOK
<1>2. CASE RequestArrives(s)
  BY <1>2 DEF RequestArrives, HasRequest, TypeOK, Items
<1>3. CASE WatchEnds(s)
  BY <1>3 DEF WatchEnds, LetGo, CloseChannel, TypeOK
<1>4. CASE WatchFails(s)
  BY <1>4 DEF WatchFails, CallFails, Fault, LetGo, CloseChannel, TypeOK
<1>5. CASE HandOff(s)
  <2>1. jobs' = Append(jobs, s) /\ Len(jobs) < Slots
    BY <1>5 DEF HandOff
  <2>2. jobs' \in Seq(Items) /\ Len(jobs') <= Slots
    BY <2>1 DEF TypeOK, Items
  <2> QED
    BY <1>5, <2>2 DEF HandOff, TypeOK
<1>6. CASE StopHandingOff(s)
  BY <1>6 DEF StopHandingOff, LetGo, CloseChannel, TypeOK
<1>7. CASE SendOnClosed(s)
  BY <1>7 DEF SendOnClosed, TypeOK
<1> QED
  BY <1>1, <1>2, <1>3, <1>4, <1>5, <1>6, <1>7 DEF Watching

(* the main loop,                                                          *)
LEMMA LoopingType ==
  ASSUME IInv, Looping
  PROVE  TypeOK'
<1> USE NodeUpAssumption DEF mainVars, chanVars, pollVars, workVars, cloudVars, pastVars
<1>0. TypeOK /\ (main \in Deciding => job \in Items)
  BY DEF IInv, MainPlaced
<1>1. CASE TakeHeld
  <2>1. Head(held) \in Items /\ Tail(held) \in Seq(Items)
    BY <1>0, <1>1 DEF TakeHeld, TypeOK
  <2> QED
    BY <1>0, <1>1, <2>1 DEF TakeHeld, TypeOK
<1>2. CASE TakeJob
  <2>1. Head(jobs) \in Items /\ Tail(jobs) \in Seq(Items) /\ Len(Tail(jobs)) <= Slots
    BY <1>0, <1>2 DEF TakeJob, TypeOK
  <2> QED
    BY <1>0, <1>2, <2>1 DEF TakeJob, TypeOK
<1>3. CASE GoOffline
  BY <1>0, <1>3 DEF GoOffline, TypeOK
<1>4. CASE Drain
  <2>1. CASE ~nilled /\ jobs # << >>
    <3>1. /\ Head(jobs) \in Items /\ Tail(jobs) \in Seq(Items) /\ Len(Tail(jobs)) <= Slots
          /\ Append(held, Head(jobs)) \in Seq(Items)
      BY <1>0, <2>1 DEF TypeOK
    <3> QED
      BY <1>0, <1>4, <2>1, <3>1 DEF Drain, TypeOK
  <2>2. CASE ~(~nilled /\ jobs # << >>)
    BY <1>0, <1>4, <2>2 DEF Drain, TypeOK
  <2> QED
    BY <2>1, <2>2
<1>5. CASE Ask
  <2>1. /\ job \in Items
        /\ known' = known \/ known' = [known EXCEPT ![job] = decision[job]]
        /\ faults' = faults \/ Fault
    BY <1>0, <1>5 DEF Ask, CallFails, Deciding
  <2>2. known' \in [Items -> {"none", "approve", "reject"}] /\ faults' \in 0 .. MaxFaults
    <3>1. known' \in [Items -> {"none", "approve", "reject"}]
      <4>1. /\ job \in Items /\ decision[job] \in {"none", "approve", "reject"}
            /\ known \in [Items -> {"none", "approve", "reject"}]
        BY <1>0, <2>1 DEF TypeOK, Items
      <4>2. known' = known \/ known' = [known EXCEPT ![job] = decision[job]]
        BY <2>1
      <4> QED
        BY ONLY <4>1, <4>2
    <3>2. faults' \in 0 .. MaxFaults
      BY <1>0, <2>1, FailedCall
    <3> QED
      BY <3>1, <3>2
  <2>3. \/ Begin(FALSE)
        \/ main' \in {"reject", "prompt"} /\ UNCHANGED <<job, workVars>>
    BY <1>5 DEF Ask
  <2>4. /\ main' \in {"work", "reject", "prompt"} /\ job' = job
        /\ stage' \in [Items -> Carrying \union {"none", "done"}]
        /\ background' = background
    BY <1>0, <2>1, <2>3 DEF Begin, TypeOK, Carrying
  <2> QED
    BY <1>0, <1>5, <2>1, <2>2, <2>4 DEF Ask, TypeOK
<1>6. ASSUME NEW says \in Decisions \union {"other"}, Decide(says)
      PROVE  TypeOK'
  <2>1. job \in Items
    BY <1>0, <1>6 DEF Decide, Deciding
  <2>2. reviewed' \in [Items -> Decisions \union {"none"}]
    BY <1>0, <1>6 DEF Decide, Typed, TypeOK
  <2>3. \/ Begin(FALSE) /\ UNCHANGED channel
        \/ Begin(TRUE) /\ UNCHANGED channel
        \/ main' = "reject" /\ UNCHANGED <<job, workVars, channel>>
        \/ Rest /\ stage' = [stage EXCEPT ![job] = "done"] /\ CloseChannel(job)
             /\ UNCHANGED background
        \/ UNCHANGED <<main, job, workVars, channel>>
    BY <1>6 DEF Decide
  <2>4. /\ main' \in {"work", "wait", "reject", "prompt"} /\ job' \in Items \union {None}
        /\ stage' \in [Items -> Carrying \union {"none", "done"}]
        /\ background' \subseteq Items
        /\ channel' \in [Shares -> BOOLEAN]
    <3>1. channel' \in [Shares -> BOOLEAN]
      BY <1>0, <2>3, ClosedChannel DEF TypeOK
    <3>2. main = "prompt"
      BY <1>6 DEF Decide
    <3>3. /\ main' \in {"work", "wait", "reject", "prompt"} /\ job' \in {job, None}
          /\ \/ stage' = stage
             \/ stage' = [stage EXCEPT ![job] = "resolve"]
             \/ stage' = [stage EXCEPT ![job] = "done"]
          /\ background' \in {background, background \union {job}}
      BY <2>3, <3>2 DEF Begin, Rest
    <3>4. stage' \in [Items -> Carrying \union {"none", "done"}]
      BY <1>0, <2>1, <3>3 DEF TypeOK, Carrying
    <3> QED
      BY <1>0, <2>1, <3>1, <3>3, <3>4 DEF TypeOK
  <2> QED
    BY <1>0, <1>6, <2>2, <2>4 DEF Decide, TypeOK
<1>7. CASE PromptFails
  BY <1>0, <1>7 DEF PromptFails, Fault, CloseChannel, TypeOK
<1>8. CASE Reject
  <2>1. job \in Items
    BY <1>0, <1>8 DEF Reject, Deciding
  <2>2. /\ main' \in {"wait", "failing"} /\ job' \in {job, None}
        /\ state' = state \/ state' = [state EXCEPT ![job] = "over"]
        /\ faults' = faults \/ Fault
        /\ stage' = [stage EXCEPT ![job] = "done"] /\ CloseChannel(job)
    BY <1>8 DEF Reject, Rest, CallFails
  <2>3. /\ faults' \in 0 .. MaxFaults /\ job' \in Items \union {None}
        /\ state' \in [Items -> {"none", "requested", "running", "over"}]
        /\ stage' \in [Items -> Carrying \union {"none", "done"}]
        /\ channel' \in [Shares -> BOOLEAN]
    <3>1. channel' \in [Shares -> BOOLEAN] /\ faults' \in 0 .. MaxFaults
      BY <1>0, <2>2, ClosedChannel, FailedCall DEF TypeOK
    <3> QED
      BY <1>0, <2>1, <2>2, <3>1 DEF TypeOK
  <2> QED
    BY <1>0, <1>8, <2>2, <2>3 DEF Reject, TypeOK
<1>9. CASE Return
  BY <1>0, <1>9 DEF Return, TypeOK
<1> QED
  BY <1>1, <1>2, <1>3, <1>4, <1>5, <1>6, <1>7, <1>8, <1>9 DEF Looping

(* who carries an item out,                                                *)
LEMMA WorkingType ==
  ASSUME TypeOK, NEW i \in Items, Working(i)
  PROVE  TypeOK'
<1> USE NodeUpAssumption DEF mainVars, chanVars, pollVars, workVars, cloudVars, pastVars
<1>1. ASSUME Finish(i, TRUE) \/ Finish(i, FALSE)
      PROVE  /\ main' \in {main, "wait", "failing"} /\ job' \in Items \union {None}
             /\ stage' \in [Items -> Carrying \union {"none", "done"}]
             /\ background' \subseteq Items
             /\ channel' \in [Shares -> BOOLEAN]
  <2>1. channel' \in [Shares -> BOOLEAN]
    BY <1>1, ClosedChannel DEF Finish, TypeOK
  <2>2. \/ UNCHANGED <<main, job>>
        \/ job' = None /\ main' \in {"wait", "failing"}
    BY <1>1 DEF Finish
  <2>3. /\ stage' = [stage EXCEPT ![i] = "done"]
        /\ background' = background \ {i}
    BY <1>1 DEF Finish
  <2> QED
    BY <2>1, <2>2, <2>3 DEF TypeOK
<1>2. ASSUME NEW next \in Carrying, GoOn(i, next)
      PROVE  /\ UNCHANGED <<main, job, background, channel>>
             /\ stage' \in [Items -> Carrying \union {"none", "done"}]
  BY <1>2 DEF GoOn, TypeOK
<1>3. ASSUME (\E next \in Carrying : GoOn(i, next)) \/ Finish(i, TRUE) \/ Finish(i, FALSE)
      PROVE  /\ main' \in {"wait", "drain", "ask", "prompt", "reject", "work",
                           "stopping", "failing", "ended", "panicked"}
             /\ job' \in Items \union {None}
             /\ stage' \in [Items -> Carrying \union {"none", "done"}]
             /\ background' \subseteq Items
             /\ channel' \in [Shares -> BOOLEAN]
  BY <1>1, <1>2, <1>3 DEF TypeOK
<1>4. CASE Resolve(i)
  <2>1. (\E next \in Carrying : GoOn(i, next)) \/ Finish(i, FALSE)
    BY <1>4 DEF Resolve, Carrying
  <2> QED
    BY <1>3, <1>4, <2>1, FailedCall DEF Resolve, TypeOK
<1>5. CASE ApproveRequest(i)
  <2>1. (\E next \in Carrying : GoOn(i, next)) \/ Finish(i, FALSE)
    BY <1>5 DEF ApproveRequest, Carrying
  <2>2. decision' \in [Items -> {"none", "approve", "reject"}] /\ faults' \in 0 .. MaxFaults
    BY <1>5, FailedCall DEF ApproveRequest, TypeOK
  <2> QED
    BY <1>3, <1>5, <2>1, <2>2 DEF ApproveRequest, TypeOK
<1>6. CASE Execute(i)
  <2>1. (\E next \in Carrying : GoOn(i, next)) \/ Finish(i, FALSE)
    BY <1>6 DEF Execute, Carrying
  <2>2. /\ state' \in [Items -> {"none", "requested", "running", "over"}]
        /\ executed' \in [Items -> Nat] /\ faults' \in 0 .. MaxFaults
    <3>1. state' \in {state, [state EXCEPT ![i] = "running"]}
      BY <1>6 DEF Execute
    <3>2. executed' = [executed EXCEPT ![i] = executed[i] + 1]
      BY <1>6 DEF Execute
    <3>3. faults' \in 0 .. MaxFaults
      BY <1>6, FailedCall DEF Execute
    <3>4. state' \in [Items -> {"none", "requested", "running", "over"}]
      BY <3>1 DEF TypeOK
    <3>5. executed' \in [Items -> Nat]
      BY <3>2 DEF TypeOK
    <3> QED
      BY <3>3, <3>4, <3>5
  <2> QED
    BY <1>3, <1>6, <2>1, <2>2 DEF Execute, TypeOK
<1>7. CASE ReadOutput(i)
  <2>1. reviewed' \in [Items -> Decisions \union {"none"}]
    BY <1>7 DEF ReadOutput, Typed, TypeOK
  <2>2. GoOn(i, "run") /\ "run" \in Carrying
    BY <1>7 DEF ReadOutput, Carrying
  <2> QED
    BY <1>3, <1>7, <2>1, <2>2 DEF ReadOutput, TypeOK
<1>8. CASE EndRun(i)
  <2>1. Finish(i, TRUE) \/ Finish(i, FALSE)
    BY <1>8 DEF EndRun
  <2>2. /\ state' \in [Items -> {"none", "requested", "running", "over"}]
        /\ faults' \in 0 .. MaxFaults
    BY <1>8, FailedCall DEF EndRun, TypeOK
  <2> QED
    BY <1>3, <1>8, <2>1, <2>2 DEF EndRun, TypeOK
<1> QED
  BY <1>4, <1>5, <1>6, <1>7, <1>8 DEF Working

(* Ctrl-C, new Requests, the console, other processes and the clock.       *)
World ==
  \/ Stop
  \/ \E s \in Shares : RunElsewhere(s) \/ Expire(s)
  \/ \E i \in Items : NewRequest(i) \/ \E d \in {"approve", "reject"} : ConsoleDecides(i, d)

(* and everybody else.                                                     *)
LEMMA WorldType ==
  ASSUME TypeOK, World
  PROVE  TypeOK'
<1> USE NodeUpAssumption DEF mainVars, chanVars, pollVars, workVars, cloudVars, pastVars
<1>1. CASE Stop
  BY <1>1 DEF Stop, TypeOK
<1>2. ASSUME NEW s \in Shares, RunElsewhere(s) \/ Expire(s)
      PROVE  TypeOK'
  <2>1. CASE RunElsewhere(s)
    BY <2>1, FailedCall DEF RunElsewhere, TypeOK, Items
  <2>2. CASE Expire(s)
    BY <2>2 DEF Expire, TypeOK
  <2> QED
    BY <1>2, <2>1, <2>2
<1>3. ASSUME NEW i \in Items, NewRequest(i)
      PROVE  TypeOK'
  BY <1>3 DEF NewRequest, TypeOK
<1>4. ASSUME NEW i \in Items, NEW d \in {"approve", "reject"}, ConsoleDecides(i, d)
      PROVE  TypeOK'
  BY <1>4 DEF ConsoleDecides, TypeOK
<1> QED
  BY <1>1, <1>2, <1>3, <1>4 DEF World

-----------------------------------------------------------------------------
(* One lemma per kind of step.                                             *)

(* What the producer does except for claiming.                             *)
LEMMA ProducerQuiet ==
  ASSUME IInv, Poll \/ PollFails \/ AwaitTick \/ TellMain \/ CloseJobs
  PROVE  Quiet
  BY DEF Poll, PollFails, AwaitTick, TellMain, CloseJobs, mainVars, chanVars, pollVars, workVars,
         pastVars, Quiet

(* What a watcher does before it hands off or lets go.                     *)
LEMMA WatcherQuiet ==
  ASSUME IInv, NEW s \in Shares, Connect(s) \/ RequestArrives(s) \/ SendOnClosed(s)
  PROVE  Quiet
<1>1. CASE Connect(s)
  <2>1. watcher[s] = "connect"
        /\ watcher' \in {[watcher EXCEPT ![s] = "send"], [watcher EXCEPT ![s] = "await"]}
    BY <1>1 DEF Connect, HasRequest
  <2>2. \A t \in Shares : watcher'[t] = "none" <=> watcher[t] = "none"
    BY <2>1 DEF IInv, TypeOK
  <2> QED
    BY <1>1, <2>2 DEF Connect, mainVars, chanVars, workVars, pastVars, Quiet
<1>2. CASE RequestArrives(s)
  <2>1. \A t \in Shares : watcher'[t] = "none" <=> watcher[t] = "none"
    BY <1>2 DEF RequestArrives, HasRequest, IInv, TypeOK
  <2> QED
    BY <1>2, <2>1 DEF RequestArrives, mainVars, chanVars, workVars, pastVars, Quiet
<1>3. CASE SendOnClosed(s)
  BY <1>3 DEF SendOnClosed, chanVars, pollVars, workVars, pastVars, Quiet
<1> QED
  BY <1>1, <1>2, <1>3

(* What the main loop does without moving an item.                         *)
LEMMA LoopQuiet ==
  ASSUME IInv, GoOffline \/ PromptFails \/ Return
  PROVE  Quiet
  BY DEF GoOffline, PromptFails, Return, mainVars, chanVars, pollVars, workVars, pastVars, Quiet,
         Deciding

(* The console, the clock and the guests move no item.                     *)
LEMMA WorldQuiet ==
  ASSUME IInv, World \/ UNCHANGED vars
  PROVE  Quiet
  BY DEF World, Stop, RunElsewhere, Expire, NewRequest, ConsoleDecides, vars, mainVars, chanVars,
         pollVars, workVars, pastVars, Quiet

(* A claim is only ever taken on an item that is in no place.              *)
LEMMA ClaimKeeps ==
  ASSUME IInv, TypeOK', NewsPlaced', NEW s \in Shares, ClaimShare(s)
  PROVE  IInv'
<1> USE NodeUpAssumption DEF mainVars, chanVars, workVars, pastVars
<1>0. s \in Items /\ TypeOK /\ Apart(s) /\ Somewhere(s) /\ StagePlaced(s)
  BY DEF IInv, Items
<1>1. CASE s \in claimed
  <2>1. claimed' = claimed
    BY <1>1 DEF ClaimShare
  <2>2. Quiet
    BY <1>1, <2>1 DEF ClaimShare, Quiet
  <2> QED
    BY <2>2, QuietKeeps
<1>2. CASE s \notin claimed
  <2>1. /\ Alive /\ UNCHANGED <<main, job, held, jobs, stage, background, executed>>
        /\ claimed' = claimed \union {s}
        /\ watcher' = [watcher EXCEPT ![s] = "connect"]
    BY <1>2 DEF ClaimShare
  <2>2. /\ \A j \in Items : Queued(j)' = Queued(j) /\ Aside(j)' = Aside(j)
        /\ \A j \in Items \ {s} : Watched(j)' <=> Watched(j)
        /\ Watched(s)'
    BY <1>0, <2>1 DEF Queued, Aside, Watched, TypeOK
  <2>3. Elsewhere(s)
    BY <2>1, <2>2 DEF Elsewhere
  <2>4. (Apart(s) /\ Somewhere(s))'
    BY <1>0, <1>2, <2>1, <2>2 DEF Apart, Somewhere
  <2>5. (NoTwice(jobs) /\ NoTwice(held) /\ MainPlaced /\ StagePlaced(s))'
    BY <1>0, <2>1 DEF IInv, NoTwice, MainPlaced, StagePlaced, Alive
  <2> QED
    BY <1>0, <2>1, <2>3, <2>4, <2>5, OneKeeps
<1> QED
  BY <1>1, <1>2

(* A Request goes from the inbox into the channel, or stays in the inbox.  *)
LEMMA OfferKeeps ==
  ASSUME IInv, TypeOK', NewsPlaced', NEW r \in Requests, OfferRequest(r)
  PROVE  IInv'
<1> USE NodeUpAssumption DEF mainVars, workVars, pastVars
<1>0. r \in Items /\ TypeOK /\ Apart(r) /\ Somewhere(r) /\ StagePlaced(r) /\ NoTwice(jobs)
  BY DEF IInv, Items
<1>1. CASE UNCHANGED <<jobs, claimed>>
  <2>1. Quiet
    BY <1>1 DEF OfferRequest, Quiet
  <2> QED
    BY <2>1, QuietKeeps
<1>2. CASE r \notin claimed /\ jobs' = Append(jobs, r) /\ claimed' = claimed \union {r}
  <2>1. Alive /\ UNCHANGED <<main, job, held, stage, background, executed, watcher>>
    BY DEF OfferRequest
  <2>2. ~Queued(r) /\ ~Aside(r) /\ ~Watched(r) /\ job # r /\ stage[r] = "none"
    BY <1>0, <1>2 DEF Apart
  <2>3. /\ NoTwice(jobs)'
        /\ \A j : Holds(jobs', j) <=> Holds(jobs, j) \/ j = r
    BY <1>0, <1>2, <2>2, HeldTwice DEF Queued, TypeOK
  <2>4. /\ \A j \in Items : (Aside(j)' = Aside(j)) /\ (Watched(j)' = Watched(j))
        /\ \A j \in Items : Queued(j)' <=> Queued(j) \/ j = r
    BY <2>1, <2>3 DEF Queued, Aside, Watched
  <2>5. Elsewhere(r)
    BY <1>2, <2>1, <2>4 DEF Elsewhere
  <2>6. (Apart(r) /\ Somewhere(r))'
    BY <1>0, <1>2, <2>1, <2>2, <2>4 DEF Apart, Somewhere
  <2>7. (NoTwice(held) /\ MainPlaced /\ StagePlaced(r))'
    BY <1>0, <2>1 DEF IInv, NoTwice, MainPlaced, StagePlaced, Alive
  <2> QED
    BY <1>0, <2>1, <2>3, <2>5, <2>6, <2>7, OneKeeps
<1> QED
  BY <1>1, <1>2 DEF OfferRequest

(* A watched item is nowhere else, so its claim may be given back.         *)
LEMMA LetGoKeeps ==
  ASSUME IInv, TypeOK', NewsPlaced', NEW s \in Shares, watcher[s] # "none", LetGo(s), Alive,
         UNCHANGED <<main, job, held, jobs, stage, background, executed>>
  PROVE  IInv'
<1> USE NodeUpAssumption
<1>0. s \in Items /\ TypeOK /\ Apart(s) /\ StagePlaced(s) /\ Watched(s)
  BY DEF IInv, Items, Watched
<1>1. /\ claimed' = claimed \ {s}
      /\ watcher' = [watcher EXCEPT ![s] = "none"]
  BY DEF LetGo
<1>2. /\ \A j \in Items : Queued(j)' = Queued(j) /\ Aside(j)' = Aside(j)
      /\ \A j \in Items \ {s} : Watched(j)' <=> Watched(j)
      /\ ~Watched(s)'
  BY <1>0, <1>1 DEF Queued, Aside, Watched, TypeOK
<1>3. Elsewhere(s)
  BY <1>1, <1>2 DEF Elsewhere
<1>4. (Apart(s) /\ Somewhere(s))'
  BY <1>0, <1>1, <1>2 DEF Apart, Somewhere
<1>5. (NoTwice(jobs) /\ NoTwice(held) /\ MainPlaced /\ StagePlaced(s))'
  BY <1>0 DEF IInv, NoTwice, MainPlaced, StagePlaced, Alive
<1> QED
  BY <1>0, <1>3, <1>4, <1>5, OneKeeps

(* A watched item goes into the channel and its watcher ends.              *)
LEMMA HandOffKeeps ==
  ASSUME IInv, TypeOK', NewsPlaced', NEW s \in Shares, HandOff(s)
  PROVE  IInv'
<1> USE NodeUpAssumption DEF mainVars, workVars, pastVars
<1>0. s \in Items /\ TypeOK /\ Apart(s) /\ StagePlaced(s) /\ Watched(s) /\ NoTwice(jobs)
  BY DEF IInv, Items, Watched, HandOff
<1>1. /\ Alive /\ UNCHANGED <<main, job, held, stage, background, executed, claimed>>
      /\ jobs' = Append(jobs, s)
      /\ watcher' = [watcher EXCEPT ![s] = "none"]
  BY DEF HandOff
<1>2. /\ ~Queued(s) /\ ~Aside(s) /\ job # s /\ stage[s] = "none" /\ s \in claimed
  BY <1>0 DEF Apart
<1>3. /\ NoTwice(jobs)'
      /\ \A j : Holds(jobs', j) <=> Holds(jobs, j) \/ j = s
  BY <1>0, <1>1, <1>2, HeldTwice DEF Queued, TypeOK
<1>4. /\ \A j \in Items : Aside(j)' = Aside(j)
      /\ \A j \in Items \ {s} : Watched(j)' <=> Watched(j)
      /\ ~Watched(s)'
      /\ \A j \in Items : Queued(j)' <=> Queued(j) \/ j = s
  BY <1>0, <1>1, <1>3 DEF Queued, Aside, Watched, TypeOK
<1>5. Elsewhere(s)
  BY <1>1, <1>4 DEF Elsewhere
<1>6. (Apart(s) /\ Somewhere(s))'
  BY <1>0, <1>1, <1>2, <1>4 DEF Apart, Somewhere
<1>7. (NoTwice(held) /\ MainPlaced /\ StagePlaced(s))'
  BY <1>0, <1>1 DEF IInv, NoTwice, MainPlaced, StagePlaced, Alive
<1> QED
  BY <1>0, <1>1, <1>3, <1>5, <1>6, <1>7, OneKeeps

(* The head of a queue becomes the job.                                    *)
LEMMA TakeKeeps ==
  ASSUME IInv, TypeOK', NewsPlaced', TakeHeld \/ TakeJob
  PROVE  IInv'
<1> USE NodeUpAssumption DEF chanVars, pollVars, workVars, pastVars
<1>0. /\ TypeOK /\ main = "wait" /\ job = None /\ NoTwice(held) /\ NoTwice(jobs)
      /\ Alive /\ None \notin Items
  BY DEF IInv, MainPlaced, TakeHeld, TakeJob, Alive, Items
<1>1. CASE TakeHeld
  <2>0. PICK i \in Items : i = Head(held)
    BY <1>0, <1>1, HeadTaken DEF TakeHeld, TypeOK
  <2>1. /\ UNCHANGED <<jobs, stage, background, executed, claimed, watcher>>
        /\ held # << >> /\ job' = i /\ held' = Tail(held) /\ main' = "drain"
    BY <1>1, <2>0 DEF TakeHeld
  <2>2. /\ i \in Items /\ Holds(held, i)
        /\ NoTwice(held)'
        /\ \A j : Holds(held', j) <=> Holds(held, j) /\ j # i
    BY <1>0, <2>0, <2>1, HeadTaken DEF TypeOK
  <2>3. Apart(i) /\ StagePlaced(i) /\ Aside(i)
    BY <2>2 DEF IInv, Aside
  <2>4. \A j \in Items : /\ Queued(j)' = Queued(j) /\ Watched(j)' = Watched(j)
                         /\ Aside(j)' <=> Aside(j) /\ j # i
    BY <2>1, <2>2 DEF Queued, Aside, Watched
  <2>5. Elsewhere(i)
    BY <1>0, <2>1, <2>4 DEF Elsewhere
  <2>6. (Apart(i) /\ Somewhere(i) /\ StagePlaced(i))'
    BY <1>0, <2>1, <2>2, <2>3, <2>4 DEF Apart, Somewhere, StagePlaced, Alive, Carrying
  <2>7. (NoTwice(jobs) /\ MainPlaced)'
    BY <1>0, <2>1, <2>2, <2>3 DEF NoTwice, MainPlaced, Apart, Deciding
  <2> QED
    BY <1>0, <2>2, <2>5, <2>6, <2>7, OneKeeps
<1>2. CASE TakeJob
  <2>0. PICK i \in Items : i = Head(jobs)
    BY <1>0, <1>2, HeadTaken DEF TakeJob, TypeOK
  <2>1. /\ UNCHANGED <<held, stage, background, executed, claimed, watcher>>
        /\ jobs # << >> /\ job' = i /\ jobs' = Tail(jobs) /\ main' = "drain"
    BY <1>2, <2>0 DEF TakeJob
  <2>2. /\ i \in Items /\ Holds(jobs, i)
        /\ NoTwice(jobs)'
        /\ \A j : Holds(jobs', j) <=> Holds(jobs, j) /\ j # i
    BY <1>0, <2>0, <2>1, HeadTaken DEF TypeOK
  <2>3. Apart(i) /\ StagePlaced(i) /\ Queued(i)
    BY <2>2 DEF IInv, Queued
  <2>4. \A j \in Items : /\ Aside(j)' = Aside(j) /\ Watched(j)' = Watched(j)
                         /\ Queued(j)' <=> Queued(j) /\ j # i
    BY <2>1, <2>2 DEF Queued, Aside, Watched
  <2>5. Elsewhere(i)
    BY <1>0, <2>1, <2>4 DEF Elsewhere
  <2>6. (Apart(i) /\ Somewhere(i) /\ StagePlaced(i))'
    BY <1>0, <2>1, <2>2, <2>3, <2>4 DEF Apart, Somewhere, StagePlaced, Alive, Carrying
  <2>7. (NoTwice(held) /\ MainPlaced)'
    BY <1>0, <2>1, <2>2, <2>3 DEF NoTwice, MainPlaced, Apart, Deciding
  <2> QED
    BY <1>0, <2>2, <2>5, <2>6, <2>7, OneKeeps
<1> QED
  BY <1>1, <1>2

(* What is in the channel is put aside.                                    *)
LEMMA DrainKeeps ==
  ASSUME IInv, TypeOK', NewsPlaced', Drain
  PROVE  IInv'
<1> USE NodeUpAssumption DEF pollVars, workVars, pastVars
<1>0. /\ TypeOK /\ main = "drain" /\ NoTwice(held) /\ NoTwice(jobs) /\ MainPlaced /\ Alive
  BY DEF IInv, Drain, Alive
<1>1. UNCHANGED <<job, stage, background, executed, claimed, watcher>>
  BY DEF Drain
<1>2. CASE ~nilled /\ jobs # << >>
  <2>0. PICK i \in Items : i = Head(jobs)
    BY <1>0, <1>2, HeadTaken DEF TypeOK
  <2>1. jobs' = Tail(jobs) /\ held' = Append(held, i) /\ main' = main
    BY <1>2, <2>0 DEF Drain
  <2>2. /\ i \in Items /\ Holds(jobs, i)
        /\ NoTwice(jobs)'
        /\ \A j : Holds(jobs', j) <=> Holds(jobs, j) /\ j # i
    BY <1>0, <1>2, <2>0, <2>1, HeadTaken DEF TypeOK
  <2>3. Apart(i) /\ StagePlaced(i) /\ Queued(i)
    BY <2>2 DEF IInv, Queued
  <2>4. ~Holds(held, i)
    BY <2>3 DEF Apart, Aside
  <2>5. /\ NoTwice(held)'
        /\ \A j : Holds(held', j) <=> Holds(held, j) \/ j = i
    BY <1>0, <2>1, <2>2, <2>4, HeldTwice DEF TypeOK
  <2>6. \A j \in Items : /\ Watched(j)' = Watched(j)
                         /\ Queued(j)' <=> Queued(j) /\ j # i
                         /\ Aside(j)' <=> Aside(j) \/ j = i
    BY <1>1, <2>2, <2>5 DEF Queued, Aside, Watched
  <2>7. Elsewhere(i)
    BY <1>1, <2>6 DEF Elsewhere
  <2>8. (Apart(i) /\ Somewhere(i) /\ StagePlaced(i))'
    BY <1>0, <1>1, <2>1, <2>2, <2>3, <2>6 DEF Apart, Somewhere, StagePlaced, Alive
  <2>9. MainPlaced'
    BY <1>0, <1>1, <2>1 DEF MainPlaced
  <2> QED
    BY <1>0, <2>1, <2>2, <2>5, <2>7, <2>8, <2>9, OneKeeps
<1>3. CASE ~(~nilled /\ jobs # << >>)
  <2>1. Quiet
    BY <1>0, <1>1, <1>3 DEF Drain, Quiet, Deciding
  <2> QED
    BY <2>1, QuietKeeps
<1> QED
  BY <1>2, <1>3

(* The job is carried out, skipped or rejected: its stage is set at last.  *)
LEMMA DecidedKeeps ==
  ASSUME IInv, TypeOK', NewsPlaced', main \in Deciding,
         UNCHANGED <<jobs, held, claimed, executed, watcher>>,
         \/ Begin(TRUE) \/ Begin(FALSE)
         \/ /\ stage' = [stage EXCEPT ![job] = "done"] /\ background' = background
            /\ Rest \/ (main' = "failing" /\ job' = job)
  PROVE  IInv'
<1> USE NodeUpAssumption
<1>a. PICK i \in Items : i = job
  BY DEF IInv, MainPlaced
<1>0. /\ i = job /\ stage[i] = "none" /\ TypeOK /\ Alive /\ None \notin Items
      /\ NoTwice(jobs) /\ NoTwice(held) /\ Apart(i) /\ StagePlaced(i)
  BY <1>a DEF IInv, MainPlaced, Alive, Deciding, Items
<1>1. /\ \/ main' = "work" /\ job' = i /\ stage' = [stage EXCEPT ![i] = "resolve"]
         \/ /\ job' = None /\ main' = "wait" /\ i \in background'
            /\ stage' = [stage EXCEPT ![i] = "resolve"]
         \/ /\ job' = None /\ main' = "wait"
            /\ stage' = [stage EXCEPT ![i] = "done"]
         \/ job' = i /\ main' = "failing" /\ stage' = [stage EXCEPT ![i] = "done"]
      /\ background' \in {background, background \union {i}}
  BY <1>0 DEF Begin, Rest
<1>2. \A j \in Items : /\ Queued(j)' = Queued(j) /\ Aside(j)' = Aside(j)
                       /\ Watched(j)' = Watched(j)
  BY DEF Queued, Aside, Watched
<1>3. Elsewhere(i)
  <2>1. \A j \in Items \ {i} : stage'[j] = stage[j] /\ (j \in background' <=> j \in background)
    BY <1>0, <1>1 DEF TypeOK
  <2>2. \A j \in Items \ {i} : job # j /\ job' # j
    BY <1>0, <1>1
  <2> QED
    BY <1>2, <2>1, <2>2 DEF Elsewhere
<1>4. /\ stage'[i] \in {"resolve", "done"}
      /\ stage'[i] = "resolve" => (main' = "work" /\ job' = i) \/ i \in background'
  BY <1>0, <1>1 DEF TypeOK
<1>5. i \in claimed /\ ~Queued(i) /\ ~Aside(i) /\ ~Watched(i)
  BY <1>0 DEF Apart
<1>6. (Apart(i) /\ Somewhere(i))'
  BY <1>2, <1>0, <1>4, <1>5 DEF Apart, Somewhere
<1>7. StagePlaced(i)'
  BY <1>0, <1>4 DEF StagePlaced, Before, Carrying
<1>8. (NoTwice(jobs) /\ NoTwice(held) /\ MainPlaced)'
  BY <1>0, <1>1 DEF NoTwice, MainPlaced, Deciding
<1> QED
  BY <1>0, <1>3, <1>6, <1>7, <1>8, OneKeeps DEF Deciding

(* Who carries an item out may say how it went, and then never again.      *)
LEMMA CarriedKeeps ==
  ASSUME IInv, TypeOK', NewsPlaced', NEW i \in Items, Alive, stage[i] \in Carrying,
         UNCHANGED <<jobs, held, claimed, watcher>>,
         \/ Finish(i, TRUE) \/ Finish(i, FALSE)
         \/ \E next \in Carrying :
              /\ GoOn(i, next)
              /\ next \in Before => executed' = executed /\ stage[i] \in Before,
         \/ executed' = executed
         \/ stage[i] = "execute" /\ executed' = [executed EXCEPT ![i] = executed[i] + 1]
  PROVE  IInv'
<1>0. /\ TypeOK /\ Apart(i) /\ StagePlaced(i) /\ MainPlaced /\ NoTwice(jobs) /\ NoTwice(held)
      /\ stage[i] # "none"
  BY DEF IInv, Carrying
<1>1. \A j \in Items : /\ Queued(j)' = Queued(j) /\ Aside(j)' = Aside(j)
                       /\ Watched(j)' = Watched(j)
  BY DEF Queued, Aside, Watched
<1>2. ~Queued(i) /\ ~Aside(i) /\ ~Watched(i) /\ i \in claimed
  BY <1>0 DEF Apart
<1>3. /\ executed[i] \in Nat /\ executed'[i] \in {executed[i], executed[i] + 1}
      /\ executed'[i] <= 1
      /\ \A j \in Items \ {i} : executed'[j] = executed[j]
  <2>1. executed[i] \in Nat /\ executed[i] <= 1 /\ (stage[i] = "execute" => executed[i] = 0)
    BY <1>0 DEF TypeOK, StagePlaced, Before
  <2>2. CASE executed' = executed
    BY <2>1, <2>2
  <2>3. CASE stage[i] = "execute" /\ executed' = [executed EXCEPT ![i] = executed[i] + 1]
    BY <1>0, <2>1, <2>3 DEF TypeOK
  <2> QED
    BY <2>2, <2>3
<1>4. CASE Finish(i, TRUE) \/ Finish(i, FALSE)
  <2>1. /\ stage' = [stage EXCEPT ![i] = "done"] /\ background' = background \ {i}
        /\ \/ i \in background /\ UNCHANGED <<main, job>>
           \/ job = i /\ job' = None /\ main' \in {"wait", "failing"}
    BY <1>0, <1>4 DEF Finish, StagePlaced
  <2>2. stage'[i] = "done" /\ \A j \in Items \ {i} : stage'[j] = stage[j]
    BY <1>0, <2>1 DEF TypeOK
  <2>3. Elsewhere(i)
    BY <1>0, <1>1, <1>3, <2>1, <2>2, NodeUpAssumption DEF Elsewhere, Items
  <2>4. (Apart(i) /\ Somewhere(i) /\ StagePlaced(i))'
    BY <1>1, <1>2, <1>3, <2>2 DEF Apart, Somewhere, StagePlaced, Carrying, Before
  <2>5. (NoTwice(jobs) /\ NoTwice(held) /\ MainPlaced)'
    <3>1. CASE UNCHANGED <<main, job>>
      <4>1. main \in Deciding => job # i
        BY <1>0 DEF MainPlaced
      <4> QED
        BY <1>0, <2>2, <3>1, <4>1 DEF NoTwice, MainPlaced
    <3>2. CASE job' = None /\ main' \in {"wait", "failing"}
      BY <1>0, <3>2 DEF NoTwice, MainPlaced, Deciding
    <3> QED
      BY <2>1, <3>1, <3>2
  <2> QED
    BY <2>1, <2>3, <2>4, <2>5, OneKeeps
<1>5. ASSUME NEW next \in Carrying, GoOn(i, next),
             next \in Before => executed' = executed /\ stage[i] \in Before
      PROVE  IInv'
  <2>1. UNCHANGED <<main, job, background>> /\ stage' = [stage EXCEPT ![i] = next]
    BY <1>5 DEF GoOn
  <2>2. stage'[i] = next /\ \A j \in Items \ {i} : stage'[j] = stage[j]
    BY <1>0, <2>1 DEF TypeOK
  <2>3. Elsewhere(i)
    BY <1>1, <1>3, <2>1, <2>2 DEF Elsewhere
  <2>4. (Apart(i) /\ Somewhere(i))'
    BY <1>1, <1>2, <2>2, <1>5 DEF Apart, Somewhere, Carrying
  <2>5. StagePlaced(i)'
    BY <1>0, <1>3, <1>5, <2>1, <2>2 DEF StagePlaced, Alive
  <2>6. (NoTwice(jobs) /\ NoTwice(held) /\ MainPlaced)'
    <3>1. main \in Deciding => job # i
      BY <1>0 DEF MainPlaced
    <3> QED
      BY <1>0, <2>1, <2>2, <3>1 DEF NoTwice, MainPlaced
  <2> QED
    BY <2>1, <2>3, <2>4, <2>5, <2>6, OneKeeps
<1> QED
  BY <1>4, <1>5

(* IInv survives what carries an item out,                                 *)
LEMMA WorkingKeeps ==
  ASSUME IInv, TypeOK', NewsPlaced', NEW i \in Items, Working(i)
  PROVE  IInv'
<1> USE DEF pastVars, chanVars
<1>1. CASE Resolve(i)
  <2>1. /\ Alive /\ stage[i] \in Carrying /\ stage[i] \in Before
        /\ UNCHANGED <<jobs, held, claimed, watcher, executed>>
        /\ (\E next \in Carrying : GoOn(i, next)) \/ Finish(i, FALSE)
    BY <1>1 DEF Resolve, Carrying, Before
  <2> QED
    BY <2>1, CarriedKeeps
<1>2. CASE ApproveRequest(i)
  <2>1. /\ Alive /\ stage[i] \in Carrying /\ stage[i] \in Before
        /\ UNCHANGED <<jobs, held, claimed, watcher, executed>>
        /\ (\E next \in Carrying : GoOn(i, next)) \/ Finish(i, FALSE)
    BY <1>2 DEF ApproveRequest, Carrying, Before
  <2> QED
    BY <2>1, CarriedKeeps
<1>3. CASE Execute(i)
  <2>1. /\ Alive /\ stage[i] = "execute" /\ stage[i] \in Carrying
        /\ UNCHANGED <<jobs, held, claimed, watcher>>
        /\ (\E next \in Carrying \ Before : GoOn(i, next)) \/ Finish(i, FALSE)
        /\ executed' = [executed EXCEPT ![i] = executed[i] + 1]
    BY <1>3 DEF Execute, Carrying, Before
  <2> QED
    BY <2>1, CarriedKeeps
<1>4. CASE ReadOutput(i)
  <2>1. /\ Alive /\ stage[i] \in Carrying
        /\ UNCHANGED <<jobs, held, claimed, watcher, executed>>
        /\ (\E next \in Carrying \ Before : GoOn(i, next))
    BY <1>4 DEF ReadOutput, Carrying, Before
  <2> QED
    BY <2>1, CarriedKeeps
<1>5. CASE EndRun(i)
  <2>1. /\ Alive /\ stage[i] \in Carrying
        /\ UNCHANGED <<jobs, held, claimed, watcher, executed>>
        /\ Finish(i, TRUE) \/ Finish(i, FALSE)
    BY <1>5 DEF EndRun, Carrying
  <2> QED
    BY <2>1, CarriedKeeps
<1> QED
  BY <1>1, <1>2, <1>3, <1>4, <1>5 DEF Working

(* what a watcher does,                                                    *)
LEMMA WatchingKeeps ==
  ASSUME IInv, TypeOK', NewsPlaced', NEW s \in Shares, Watching(s)
  PROVE  IInv'
<1>1. CASE WatchEnds(s) \/ WatchFails(s) \/ StopHandingOff(s)
  <2>1. /\ watcher[s] # "none" /\ LetGo(s) /\ Alive
        /\ UNCHANGED <<main, job, held, jobs, stage, background, executed>>
    BY <1>1 DEF WatchEnds, WatchFails, StopHandingOff, mainVars, chanVars, workVars, pastVars
  <2> QED
    BY <2>1, LetGoKeeps
<1> QED
  BY <1>1, WatcherQuiet, QuietKeeps, HandOffKeeps DEF Watching

(* and what the main loop does.                                            *)
LEMMA LoopingKeeps ==
  ASSUME IInv, TypeOK', NewsPlaced', Looping
  PROVE  IInv'
<1>1. CASE Ask
  <2>1. /\ main = "ask"
        /\ UNCHANGED <<jobs, held, claimed, executed, watcher>>
        /\ \/ Begin(FALSE)
           \/ main' \in {"reject", "prompt"} /\ UNCHANGED <<job, workVars>>
    BY <1>1 DEF Ask, chanVars, pastVars
  <2>2. CASE Begin(FALSE)
    BY <2>1, <2>2, DecidedKeeps DEF Deciding
  <2>3. CASE main' \in {"reject", "prompt"} /\ UNCHANGED <<job, workVars>>
    <3>1. Quiet
      BY <2>1, <2>3 DEF Quiet, Deciding, workVars
    <3> QED
      BY <3>1, QuietKeeps
  <2> QED
    BY <2>1, <2>2, <2>3
<1>2. ASSUME NEW says \in Decisions \union {"other"}, Decide(says)
      PROVE  IInv'
  <2>1. /\ main = "prompt"
        /\ UNCHANGED <<jobs, held, claimed, executed, watcher>>
        /\ \/ Begin(FALSE) \/ Begin(TRUE)
           \/ stage' = [stage EXCEPT ![job] = "done"] /\ background' = background /\ Rest
           \/ main' \in {"reject", "prompt"} /\ UNCHANGED <<job, workVars>>
    BY <1>2 DEF Decide, chanVars
  <2>2. CASE main' \in {"reject", "prompt"} /\ UNCHANGED <<job, workVars>>
    <3>1. Quiet
      BY <2>1, <2>2 DEF Quiet, Deciding, workVars
    <3> QED
      BY <3>1, QuietKeeps
  <2>3. CASE ~(main' \in {"reject", "prompt"} /\ UNCHANGED <<job, workVars>>)
    BY <2>1, <2>3, DecidedKeeps DEF Deciding
  <2> QED
    BY <2>2, <2>3
<1>3. CASE Reject
  <2>1. /\ main \in Deciding
        /\ UNCHANGED <<jobs, held, claimed, executed, watcher, background>>
        /\ stage' = [stage EXCEPT ![job] = "done"]
        /\ Rest \/ (main' = "failing" /\ job' = job)
    BY <1>3 DEF Reject, Deciding, chanVars, pastVars
  <2> QED
    BY <2>1, DecidedKeeps
<1> QED
  BY <1>1, <1>2, <1>3, LoopQuiet, QuietKeeps, TakeKeeps, DrainKeeps DEF Looping

-----------------------------------------------------------------------------
(* The theorems.                                                           *)

(* IInv holds before the first poll,                                       *)
LEMMA InitHolds == Init => IInv
<1> SUFFICES ASSUME Init
             PROVE  IInv
  OBVIOUS
<1> USE NodeUpAssumption DEF Init
<1>1. TypeOK
  <2>1. jobs \in Seq(Items) /\ Len(jobs) <= Slots /\ held \in Seq(Items)
    OBVIOUS
  <2>2. /\ watcher \in [Shares -> {"none", "connect", "await", "send"}]
        /\ channel \in [Shares -> BOOLEAN]
        /\ known \in [Items -> {"none", "approve", "reject"}]
        /\ stage \in [Items -> Carrying \union {"none", "done"}]
        /\ state \in [Items -> {"none", "requested", "running", "over"}]
        /\ decision \in [Items -> {"none", "approve", "reject"}]
        /\ executed \in [Items -> Nat]
        /\ reviewed \in [Items -> Decisions \union {"none"}]
    OBVIOUS
  <2>3. faults \in 0 .. MaxFaults /\ errs \in {<< >>, <<"failure">>, <<"cancelled">>}
    OBVIOUS
  <2>4. /\ main = "wait" /\ job = None /\ nilled = FALSE /\ jobsClosed = FALSE
        /\ producer = "first" /\ news = "none" /\ listing = {} /\ claimed = {}
        /\ background = {} /\ stopped = FALSE /\ expired = {}
    OBVIOUS
  <2> HIDE DEF Init
  <2> QED
    BY <2>1, <2>2, <2>3, <2>4 DEF TypeOK
<1>2. NoTwice(jobs) /\ NoTwice(held) /\ MainPlaced /\ NewsPlaced
  BY DEF NoTwice, MainPlaced, NewsPlaced, Deciding
<1>3. ASSUME NEW i \in Items
      PROVE  Apart(i) /\ Somewhere(i) /\ StagePlaced(i)
  <2>1. ~Queued(i) /\ ~Aside(i) /\ ~Watched(i) /\ job # i /\ stage[i] = "none"
    BY DEF Queued, Aside, Watched, Holds, Items
  <2> QED
    BY <2>1 DEF Apart, Somewhere, StagePlaced, Carrying
<1> QED
  BY <1>1, <1>2, <1>3 DEF IInv

(* Only the producer says why it has stopped.                              *)
LEMMA NewsKeeps ==
  ASSUME NewsPlaced, [Next]_vars
  PROVE  NewsPlaced' \/ Producing
<1>1. CASE \E s \in Shares : Watching(s)
  BY <1>1 DEF Watching, Connect, RequestArrives, WatchEnds, WatchFails, HandOff, StopHandingOff,
         SendOnClosed, pollVars, NewsPlaced
<1>2. CASE Looping
  BY <1>2 DEF Looping, TakeHeld, TakeJob, GoOffline, Drain, Ask, Decide, PromptFails, Reject,
         Return, pollVars, NewsPlaced
<1>3. CASE \E i \in Items : Working(i)
  BY <1>3 DEF Working, Resolve, ApproveRequest, Execute, ReadOutput, EndRun, NewsPlaced
<1>4. CASE World \/ UNCHANGED vars
  BY <1>4 DEF World, Stop, RunElsewhere, Expire, NewRequest, ConsoleDecides, vars, pollVars,
         NewsPlaced
<1> QED
  BY <1>1, <1>2, <1>3, <1>4 DEF Next, World

(* IInv survives every step,                                               *)
LEMMA StepHolds == IInv /\ [Next]_vars => IInv'
<1> SUFFICES ASSUME IInv, [Next]_vars
             PROVE  IInv'
  OBVIOUS
<1>0. TypeOK /\ NewsPlaced
  BY DEF IInv
<1>1. CASE Producing
  <2>1. TypeOK' /\ NewsPlaced'
    BY <1>0, <1>1, ProducingType
  <2>2. CASE \E s \in Shares : ClaimShare(s)
    BY <2>1, <2>2, ClaimKeeps
  <2>3. CASE \E r \in Requests : OfferRequest(r)
    BY <2>1, <2>3, OfferKeeps
  <2>4. CASE Poll \/ PollFails \/ AwaitTick \/ TellMain \/ CloseJobs
    BY <2>1, <2>4, ProducerQuiet, QuietKeeps
  <2> QED
    BY <1>1, <2>2, <2>3, <2>4 DEF Producing
<1>2. CASE ~Producing
  <2>1. NewsPlaced'
    BY <1>0, <1>2, NewsKeeps
  <2>2. ASSUME NEW s \in Shares, Watching(s)
        PROVE  IInv'
    BY <1>0, <2>1, <2>2, WatchingType, WatchingKeeps
  <2>3. CASE Looping
    BY <2>1, <2>3, LoopingType, LoopingKeeps
  <2>4. ASSUME NEW i \in Items, Working(i)
        PROVE  IInv'
    BY <1>0, <2>1, <2>4, WorkingType, WorkingKeeps
  <2>5. CASE World
    BY <1>0, <2>1, <2>5, WorldType, WorldQuiet, QuietKeeps
  <2>6. CASE UNCHANGED vars
    <3>1. TypeOK'
      BY <1>0, <2>6 DEF vars, mainVars, chanVars, pollVars, workVars, cloudVars, pastVars, TypeOK
    <3> QED
      BY <2>1, <2>6, <3>1, WorldQuiet, QuietKeeps
  <2> QED
    BY <1>2, <2>2, <2>3, <2>4, <2>5, <2>6 DEF Next, World
<1> QED
  BY <1>1, <1>2

(* and so it always holds.                                                 *)
LEMMA Inductive == Spec => []IInv
  BY InitHolds, StepHolds, PTL DEF Spec

(* One process carries out a Request at most once, however often the inbox *)
(* lists it and however polls, watchers and the main loop interleave.      *)
THEOREM CarriedOutOnce == Spec => []RunsOnce
<1>1. IInv => RunsOnce
  BY DEF IInv, StagePlaced, RunsOnce
<1> QED
  BY <1>1, Inductive, PTL

(* What the process has claimed is with a watcher, in the channel, put     *)
(* aside, the job, or has been carried out: no claim is lost.              *)
THEOREM NothingIsForgotten == Spec => []ClaimsAreHeld
<1>1. IInv => ClaimsAreHeld
  <2> SUFFICES ASSUME IInv, NEW i \in claimed
               PROVE  \/ i \in Shares /\ watcher[i] # "none"
                      \/ \E k \in DOMAIN jobs : jobs[k] = i
                      \/ \E k \in DOMAIN held : held[k] = i
                      \/ job = i
                      \/ stage[i] # "none"
    BY DEF ClaimsAreHeld
  <2>1. i \in Items /\ Somewhere(i) /\ jobs \in Seq(Items) /\ held \in Seq(Items)
    BY DEF IInv, TypeOK
  <2> QED
    BY <2>1 DEF Somewhere, Queued, Aside, Watched, Holds
<1> QED
  BY <1>1, Inductive, PTL

-----------------------------------------------------------------------------
(* The review.                                                             *)

(* What the review of an item says does not change by itself.              *)
LEMMA SameReview ==
  ASSUME NEW i \in Items, ReviewPlaced(i),
         stage'[i] = stage[i] \/ stage'[i] = "done",
         executed'[i] = executed[i],
         stage[i] \in Carrying \/ executed[i] > 0 =>
           known'[i] = known[i] /\ reviewed'[i] = reviewed[i],
         i \in background' => i \in background
  PROVE  ReviewPlaced(i)'
  BY DEF ReviewPlaced, Reviewed, Carrying

(* Every step keeps what has been said of the review.                      *)
LEMMA ReviewKeeps ==
  ASSUME Manual \cap Backgrounded = {}, IInv, IInv', RInv, [Next]_vars
  PROVE  RInv'
<1> USE DEF mainVars, chanVars, pollVars, workVars, cloudVars, pastVars
<1>0. /\ TypeOK
      /\ \A i \in Items : ReviewPlaced(i) /\ Apart(i) /\ StagePlaced(i)
      /\ \A i \in Items : stage[i] = "none" => executed[i] = 0
  BY DEF IInv, RInv, StagePlaced, Before
<1>1. CASE UNCHANGED <<stage, background, executed, reviewed, known>>
  BY <1>0, <1>1, SameReview DEF RInv
<1>2. CASE Poll
  <2>1. UNCHANGED <<stage, background, executed, reviewed>>
    BY <1>2 DEF Poll
  <2>2. ASSUME NEW i \in Items, stage[i] \in Carrying \/ executed[i] > 0
        PROVE  known'[i] = known[i]
    <3>1. stage[i] # "none"
      BY <1>0, <2>2 DEF Carrying
    <3>2. i \in claimed
      BY <1>0, <3>1 DEF Apart
    <3> QED
      BY <1>2, <3>2 DEF Poll
  <2> QED
    BY <1>0, <2>1, <2>2, SameReview DEF RInv
<1>3. ASSUME NEW s \in Shares, Connect(s) \/ RequestArrives(s)
      PROVE  RInv'
  <2>1. /\ UNCHANGED <<stage, background, executed, reviewed>>
        /\ watcher[s] # "none"
        /\ known' = known \/ known' = [known EXCEPT ![s] = decision[s]]
    BY <1>3 DEF Connect, RequestArrives, HasRequest
  <2>2. s \in Items /\ stage[s] = "none" /\ executed[s] = 0
    BY <1>0, <2>1 DEF Apart, Watched, Items
  <2>3. \A i \in Items : i # s => known'[i] = known[i]
    BY <1>0, <2>1, <2>2 DEF TypeOK
  <2> QED
    BY <1>0, <2>1, <2>2, <2>3, SameReview DEF RInv, Carrying
<1>4. ASSUME Ask \/ Reject \/ \E says \in Decisions \union {"other"} : Decide(says)
      PROVE  RInv'
  <2>0. main \in Deciding
    BY <1>4 DEF Ask, Reject, Decide, Deciding
  <2>1. PICK i \in Items : i = job
    BY <2>0 DEF IInv, MainPlaced
  <2>2. stage[i] = "none" /\ executed[i] = 0
    BY <1>0, <2>0, <2>1 DEF IInv, MainPlaced
  <2>3. ASSUME UNCHANGED executed,
               \/ stage' = stage
               \/ stage' = [stage EXCEPT ![job] = "done"]
               \/ stage' = [stage EXCEPT ![job] = "resolve"] /\ Reviewed(i)',
               \A j \in Items \ {i} : known'[j] = known[j] /\ reviewed'[j] = reviewed[j],
               \/ background' = background
               \/ background' = background \union {job} /\ i \in Backgrounded
        PROVE  RInv'
    <3>1. ASSUME NEW j \in Items, j # i
          PROVE  ReviewPlaced(j)'
      <4>1. stage'[j] = stage[j] /\ (j \in background' => j \in background)
        BY <1>0, <2>1, <2>3, <3>1 DEF TypeOK
      <4> QED
        BY <1>0, <2>3, <3>1, <4>1, SameReview
    <3>2. ReviewPlaced(i)'
      <4>1. stage'[i] \in {"none", "resolve", "done"} /\ executed'[i] = 0
            /\ (stage'[i] = "resolve" => Reviewed(i)')
        BY <1>0, <2>1, <2>2, <2>3 DEF TypeOK
      <4>2. i \in background' => i \in Backgrounded
        BY <1>0, <2>1, <2>3 DEF ReviewPlaced
      <4> QED
        BY <4>1, <4>2 DEF ReviewPlaced, Carrying
    <3> QED
      BY <3>1, <3>2 DEF RInv
  <2>4. CASE Ask
    <3>1. /\ UNCHANGED <<executed, reviewed>> /\ background' = background
          /\ known' = known \/ known' = [known EXCEPT ![job] = decision[job]]
          /\ \/ /\ ApproveAll \/ known'[job] = "approve"
                /\ stage' = [stage EXCEPT ![job] = "resolve"]
             \/ stage' = stage
      BY <2>4 DEF Ask, Begin
    <3>2. \A j \in Items \ {i} : known'[j] = known[j]
      BY <1>0, <2>1, <3>1 DEF TypeOK
    <3>3. (ApproveAll \/ known'[job] = "approve") => Reviewed(i)'
      BY <2>1 DEF Reviewed
    <3> QED
      BY <2>3, <3>1, <3>2, <3>3
  <2>5. ASSUME NEW says \in Decisions \union {"other"}, Decide(says)
        PROVE  RInv'
    <3>1. PICK j \in Items : Typed(j, says)
      BY <2>5 DEF Decide
    <3>2. main = "prompt" /\ UNCHANGED <<executed, known>>
      BY <2>5 DEF Decide
    <3>3. stage[j] # "manual"
      <4>1. stage[j] = "manual" => j \in Manual /\ j \in background /\ j \in Backgrounded
        BY <1>0, <3>2 DEF ReviewPlaced, StagePlaced, Alive, Carrying
      <4> QED
        BY <1>0, <4>1
    <3>4. j = i /\ says \in Decisions /\ reviewed' = [reviewed EXCEPT ![i] = says]
          /\ (says = "background" => i \in Backgrounded)
      BY <2>1, <3>1, <3>3 DEF Typed, Reading
    <3>5. /\ \A k \in Items \ {i} : reviewed'[k] = reviewed[k]
          /\ reviewed'[i] = says
      BY <1>0, <3>4 DEF TypeOK
    <3>6. /\ \/ says \in {"approve", "background"} /\ stage' = [stage EXCEPT ![job] = "resolve"]
             \/ stage' = stage
             \/ stage' = [stage EXCEPT ![job] = "done"]
          /\ \/ background' = background
             \/ says = "background" /\ background' = background \union {job}
      BY <2>5 DEF Decide, Begin
    <3>7. says \in {"approve", "background"} => Reviewed(i)'
      BY <3>5 DEF Reviewed
    <3> QED
      BY <2>3, <3>2, <3>4, <3>5, <3>6, <3>7
  <2>6. CASE Reject
    <3>1. /\ UNCHANGED <<executed, reviewed, known, background>>
          /\ stage' = [stage EXCEPT ![job] = "done"]
      BY <2>6 DEF Reject
    <3> QED
      BY <2>3, <3>1
  <2> QED
    BY <1>4, <2>4, <2>5, <2>6
<1>5. ASSUME NEW i \in Items, Working(i)
      PROVE  RInv'
  <2>1. /\ stage[i] \in Carrying /\ known' = known
        /\ \/ executed' = executed
           \/ executed' = [executed EXCEPT ![i] = executed[i] + 1]
        /\ background' = background \/ background' = background \ {i}
    BY <1>5 DEF Working, Resolve, ApproveRequest, Execute, ReadOutput, EndRun, GoOn, Finish,
           Carrying
  <2>2. \/ UNCHANGED reviewed
        \/ \E j \in Items : /\ stage[j] = "none"
                            /\ \A k \in Items \ {j} : reviewed'[k] = reviewed[k]
    <3>1. CASE ReadOutput(i)
      <4>1. PICK j \in Items, says \in Decisions \union {"other"} : Typed(j, says)
        BY <3>1 DEF ReadOutput
      <4>2. CASE stage[j] = "manual"
        BY <4>1, <4>2 DEF Typed
      <4>3. CASE stage[j] # "manual"
        <5>1. main = "prompt" /\ job = j /\ reviewed' = [reviewed EXCEPT ![j] = says]
          BY <4>1, <4>3 DEF Typed, Reading
        <5>2. stage[j] = "none"
          BY <5>1 DEF IInv, MainPlaced, Deciding
        <5> QED
          BY <1>0, <5>1, <5>2 DEF TypeOK
      <4> QED
        BY <4>2, <4>3
    <3>2. CASE ~ReadOutput(i)
      BY <1>5, <3>2 DEF Working, Resolve, ApproveRequest, Execute, EndRun
    <3> QED
      BY <3>1, <3>2
  <2>3. /\ stage' = [stage EXCEPT ![i] = stage'[i]]
        /\ stage'[i] = "manual" => i \in Manual
    <3>1. \E next : GoOn(i, next) \/ Finish(i, TRUE) \/ Finish(i, FALSE)
      BY <1>5 DEF Working, Resolve, ApproveRequest, Execute, ReadOutput, EndRun
    <3>2. stage' = [stage EXCEPT ![i] = stage'[i]]
      BY <1>0, <3>1 DEF GoOn, Finish, TypeOK
    <3>3. stage'[i] \in {"decide", "execute", "run", "done"} \/ (stage'[i] = "manual" /\ i \in Manual)
      BY <1>0, <1>5 DEF Working, Resolve, ApproveRequest, Execute, ReadOutput, EndRun, GoOn, Finish,
             TypeOK
    <3> QED
      BY <3>2, <3>3
  <2>4. ASSUME NEW j \in Items, j # i
        PROVE  ReviewPlaced(j)'
    <3>1. /\ stage'[j] = stage[j] /\ executed'[j] = executed[j]
          /\ j \in background' => j \in background
      BY <1>0, <2>1, <2>3, <2>4 DEF TypeOK
    <3>2. stage[j] \in Carrying \/ executed[j] > 0 => stage[j] # "none"
      BY <1>0 DEF Carrying
    <3> QED
      BY <1>0, <2>1, <2>2, <3>1, <3>2, SameReview
  <2>5. ReviewPlaced(i)'
    <3>1. Reviewed(i)
      BY <1>0, <2>1 DEF ReviewPlaced
    <3>2. reviewed'[i] = reviewed[i]
      BY <2>1, <2>2 DEF Carrying
    <3>3. Reviewed(i)'
      BY <2>1, <3>1, <3>2 DEF Reviewed
    <3>4. stage'[i] = "manual" => i \in Manual
      BY <1>0, <2>3 DEF TypeOK
    <3>5. i \in background' => i \in Backgrounded
      BY <1>0, <2>1 DEF ReviewPlaced
    <3> QED
      BY <3>3, <3>4, <3>5 DEF ReviewPlaced
  <2> QED
    BY <2>4, <2>5 DEF RInv
<1>6. CASE Producing /\ ~Poll
  BY <1>1, <1>6 DEF Producing, PollFails, AwaitTick, TellMain, CloseJobs, ClaimShare, OfferRequest
<1>7. ASSUME NEW s \in Shares, Watching(s), ~Connect(s), ~RequestArrives(s)
      PROVE  RInv'
  BY <1>1, <1>7 DEF Watching, WatchEnds, WatchFails, HandOff, StopHandingOff, SendOnClosed
<1>8. CASE Looping
  BY <1>1, <1>4, <1>8 DEF Looping, TakeHeld, TakeJob, GoOffline, Drain, PromptFails, Return
<1>9. CASE World \/ UNCHANGED vars
  BY <1>1, <1>9 DEF World, Stop, RunElsewhere, Expire, NewRequest, ConsoleDecides, vars
<1> QED
  BY <1>2, <1>3, <1>5, <1>6, <1>7, <1>8, <1>9 DEF Next, World

(* Without --yes nothing is executed that neither the operator nor the     *)
(* console approved, provided no item takes its outputs from the terminal  *)
(* while it is in the background: there the operator's line may be taken   *)
(* for an answer to the prompt.                                            *)
THEOREM NothingUnreviewed ==
  Manual \cap Backgrounded = {} => (Spec => []ReviewedBeforeRun)
<1> SUFFICES ASSUME Manual \cap Backgrounded = {}
             PROVE  Spec => []ReviewedBeforeRun
  OBVIOUS
<1>1. Init => RInv
  BY DEF Init, RInv, ReviewPlaced, Carrying
<1>2. IInv /\ IInv' /\ RInv /\ [Next]_vars => RInv'
  BY ReviewKeeps
<1>3. RInv => ReviewedBeforeRun
  BY DEF RInv, ReviewPlaced, Reviewed, ReviewedBeforeRun
<1> QED
  BY <1>1, <1>2, <1>3, Inductive, PTL DEF Spec
=============================================================================
