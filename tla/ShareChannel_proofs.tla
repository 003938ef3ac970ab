------------------------- MODULE ShareChannel_proofs --------------------------
(***************************************************************************)
(* Proofs about ShareChannel, for any number of callers, messages,         *)
(* submissions, connections and failures: the submissions implement        *)
(* ShareLog, no connection is left open, and no message is missed.         *)
(*                                                                         *)
(* The invariant LogInv follows the envelope of a submission: it has one   *)
(* for all its attempts, on whatever connection a copy of it still         *)
(* travels; a submission that is open is the one its caller is making; and *)
(* a confirmation, on its way or taken, is of an envelope that has been    *)
(* recorded.  A step that records nothing and ends no submission is an     *)
(* instance of Quiet.  StrayInv says where a caller holds reconnectMu and  *)
(* a new connection; MissInv, that a connection being set up has what      *)
(* Pending did not tell.                                                   *)
(***************************************************************************)
EXTENDS ShareChannel, TLAPS

In(q, x) == \E i \in DOMAIN q : q[i] = x

Recorded(e) == In(recorded, e)
OnItsWay(e) == \E c \in Conns : In(up[c], e)
Carried(e)  == \E p \in Callers : envelope[p] = e
Known(e)    == e \in Envelopes /\ (Recorded(e) \/ OnItsWay(e) \/ Carried(e))

SubmissionOf(e) == <<e.by, e.no>>

(* A confirmation is of a recorded envelope; the join's needs none.        *)
Honest(f) == f.type = "ok" /\ f.of # JoinRef => Recorded(f.of)

LogTypes ==
  /\ pc = [p \in Callers |-> pc[p]]
  /\ op = [p \in Callers |-> op[p]]
  /\ wait = [p \in Callers |-> wait[p]]
  /\ envelope \in [Callers -> Envelopes \union {JoinRef}]
  /\ calls \in [Submissions -> {"unsent", "open", "ok", "failed"}]
  /\ recorded \in Seq(Envelopes)
  /\ up \in [Conns -> Seq(Refs)]
  /\ down \in [Conns -> Seq(Frames)]
  /\ minted \in Nat

(* The submission a caller makes is open.                                  *)
Submitting(p) ==
  /\ p \in Submitters
  /\ envelope[p] \in Envelopes
  /\ envelope[p].by = p
  /\ calls[<<p, envelope[p].no>>] = "open"

CallerOK(p) ==
  /\ pc[p] = "idle" => op[p] = "none"
  /\ pc[p] \in {"push", "reply"} => op[p] = "submit"
  /\ pc[p] \in {"look", "select"} => op[p] # "submit"
  /\ op[p] = "submit" => Submitting(p)
  /\ pc[p] = "reply" /\ wait[p] = "ok" => Recorded(envelope[p])

(* And the open ones are being made.                                       *)
Made(s) ==
  /\ calls[s] = "open" => op[s[1]] = "submit" /\ envelope[s[1]].no = s[2]
  /\ calls[s] = "ok" => \E e \in Envelopes : Recorded(e) /\ SubmissionOf(e) = s

LogInv ==
  /\ LogTypes
  /\ \A p \in Callers : CallerOK(p)
  /\ \A s \in Submissions : Made(s)
  /\ \A e \in Envelopes : Known(e) => calls[SubmissionOf(e)] # "unsent"
  /\ \A e, f \in Envelopes : Known(e) /\ Known(f) /\ SubmissionOf(e) = SubmissionOf(f) => e = f
  /\ \A c \in Conns, f \in Frames : In(down[c], f) => Honest(f)

-----------------------------------------------------------------------------
(* Lists of frames *)

LEMMA InAppend ==
  ASSUME NEW S, NEW q \in Seq(S), NEW x \in S
  PROVE  /\ Append(q, x) \in Seq(S)
         /\ \A y : In(Append(q, x), y) <=> In(q, y) \/ y = x
<1>1. /\ DOMAIN Append(q, x) = 1 .. (Len(q) + 1) /\ DOMAIN q = 1 .. Len(q) /\ Len(q) \in Nat
      /\ Append(q, x)[Len(q) + 1] = x /\ \A i \in 1 .. Len(q) : Append(q, x)[i] = q[i]
  OBVIOUS
<1>2. 1 .. (Len(q) + 1) = (1 .. Len(q)) \union {Len(q) + 1}
  BY <1>1
<1> QED
  BY <1>1, <1>2 DEF In

LEMMA InTail ==
  ASSUME NEW S, NEW q \in Seq(S), q # << >>
  PROVE  /\ Tail(q) \in Seq(S) /\ Head(q) \in S /\ In(q, Head(q))
         /\ \A y : In(Tail(q), y) => In(q, y)
<1>1. /\ DOMAIN Tail(q) = 1 .. (Len(q) - 1) /\ DOMAIN q = 1 .. Len(q) /\ Len(q) \in Nat \ {0}
      /\ Tail(q) \in Seq(S) /\ Head(q) = q[1]
      /\ \A i \in 1 .. (Len(q) - 1) : Tail(q)[i] = q[i + 1] /\ i + 1 \in 1 .. Len(q)
  OBVIOUS
<1>2. q[1] \in S
  BY <1>1
<1> QED
  BY <1>1, <1>2 DEF In

(* A reply that is sent behind what is sent already.                       *)
LEMMA InConcat ==
  ASSUME NEW S, NEW q \in Seq(S), NEW t \in Seq(S)
  PROVE  /\ q \o t \in Seq(S)
         /\ \A y : In(q \o t, y) => In(q, y) \/ In(t, y)
<1>1. /\ q \o t \in Seq(S) /\ Len(q) \in Nat /\ Len(t) \in Nat
      /\ DOMAIN (q \o t) = 1 .. (Len(q) + Len(t))
      /\ DOMAIN q = 1 .. Len(q) /\ DOMAIN t = 1 .. Len(t)
      /\ \A i \in 1 .. (Len(q) + Len(t)) :
           (q \o t)[i] = IF i <= Len(q) THEN q[i] ELSE t[i - Len(q)]
  OBVIOUS
<1>2. \A i \in 1 .. (Len(q) + Len(t)) : i \in 1 .. Len(q) \/ i - Len(q) \in 1 .. Len(t)
  BY <1>1
<1> QED
  BY <1>1, <1>2 DEF In

(* The join's reference is no envelope.                                    *)
LEMMA JoinApart == JoinRef \notin Envelopes /\ JoinRef \in Refs /\ Envelopes \subseteq Refs
<1>1. None \notin Submitters
  BY ShareChannelAssumption
<1> QED
  BY <1>1 DEF JoinRef, Envelopes, Refs

-----------------------------------------------------------------------------
(* Steps that neither record nor answer a submission *)

Quiet ==
  /\ UNCHANGED <<op, envelope, calls, recorded, minted>>
  /\ pc' = [p \in Callers |-> pc'[p]]
  /\ wait' = [p \in Callers |-> wait'[p]]
  /\ up' \in [Conns -> Seq(Refs)]
  /\ down' \in [Conns -> Seq(Frames)]
  /\ \A p \in Callers :
       /\ pc'[p] = "idle" => pc[p] = "idle"
       /\ pc'[p] \in {"push", "reply"} => op[p] = "submit"
       /\ pc'[p] \in {"look", "select"} => op[p] # "submit"
       /\ pc'[p] = "reply" /\ wait'[p] = "ok" => Recorded(envelope[p])
  /\ \A c \in Conns, e \in Envelopes : In(up'[c], e) => In(up[c], e) \/ Carried(e)
  /\ \A c \in Conns, f \in Frames : In(down'[c], f) => Honest(f)

LEMMA QuietKeeps == LogInv /\ Quiet => LogInv'
<1> SUFFICES ASSUME LogInv, Quiet PROVE LogInv'
  OBVIOUS
<1>1. \A e : (Recorded(e)' <=> Recorded(e)) /\ (Carried(e)' <=> Carried(e))
  BY DEF Quiet, Recorded, Carried
<1>2. \A e \in Envelopes : Known(e)' => Known(e)
  BY <1>1 DEF Known, OnItsWay, Quiet
<1>3. LogTypes'
  BY DEF LogInv, LogTypes, Quiet
<1>4. ASSUME NEW p \in Callers
      PROVE  CallerOK(p)'
  <2>1. CallerOK(p) /\ UNCHANGED <<op, envelope, calls>>
    BY DEF LogInv, Quiet
  <2>2. Submitting(p)' <=> Submitting(p)
    BY <2>1 DEF Submitting
  <2>3. pc'[p] = "reply" /\ wait'[p] = "ok" => Recorded(envelope[p])'
    BY <1>1, <2>1 DEF Quiet
  <2> QED
    BY <2>1, <2>2, <2>3 DEF CallerOK, Quiet
<1>5. \A s \in Submissions : Made(s)'
  BY <1>1 DEF LogInv, Made, Quiet
<1>6. \A e \in Envelopes : Known(e)' => calls'[SubmissionOf(e)] # "unsent"
  BY <1>2 DEF LogInv, Quiet
<1>7. \A e, f \in Envelopes :
        Known(e)' /\ Known(f)' /\ SubmissionOf(e) = SubmissionOf(f) => e = f
  BY <1>2 DEF LogInv
<1>8. \A c \in Conns, f \in Frames : In(down'[c], f) => Honest(f)'
  BY <1>1 DEF Quiet, Honest
<1> QED
  BY <1>3, <1>4, <1>5, <1>6, <1>7, <1>8 DEF LogInv

(* A step of one caller that stays in its call.                            *)
LEMMA MoveQuiet ==
  ASSUME LogInv, NEW p \in Callers, NEW l, Goto(p, l),
         UNCHANGED <<op, envelope, calls, recorded, minted, down>>,
         \/ UNCHANGED wait
         \/ wait' = [wait EXCEPT ![p] = "none"],
         l \notin {"idle", "look", "select"} \/ (l \in {"look", "select"} /\ op[p] # "submit"),
         l = "push" => op[p] = "submit",
         l = "reply" => op[p] = "submit" /\ wait'[p] = "none",
         up' \in [Conns -> Seq(Refs)],
         \A c \in Conns, e \in Envelopes : In(up'[c], e) => In(up[c], e) \/ Carried(e)
  PROVE  Quiet
<1>1. /\ pc = [q \in Callers |-> pc[q]] /\ wait = [q \in Callers |-> wait[q]]
      /\ down \in [Conns -> Seq(Frames)]
  BY DEF LogInv, LogTypes
<1>2. pc' = [q \in Callers |-> IF q = p THEN l ELSE pc[q]]
  BY <1>1 DEF Goto
<1>3. wait' = [q \in Callers |-> wait'[q]] /\ \A q \in Callers : q # p => wait'[q] = wait[q]
  BY <1>1
<1>4. ASSUME NEW q \in Callers
      PROVE  /\ pc'[q] = "idle" => pc[q] = "idle"
             /\ pc'[q] \in {"push", "reply"} => op[q] = "submit"
             /\ pc'[q] \in {"look", "select"} => op[q] # "submit"
             /\ pc'[q] = "reply" /\ wait'[q] = "ok" => Recorded(envelope[q])
  BY <1>2, <1>3 DEF LogInv, CallerOK
<1>5. \A c \in Conns, f \in Frames : In(down'[c], f) => Honest(f)
  BY DEF LogInv
<1>6. pc' = [q \in Callers |-> pc'[q]]
  BY <1>2
<1> QED
  BY <1>1, <1>3, <1>4, <1>5, <1>6 DEF Quiet

(* Steps that leave the frames alone.                                      *)
LEMMA MovesAreQuiet ==
  ASSUME LogInv, NEW p \in Callers,
         \/ UseCurrent(p) \/ TakeFailure(p) \/ Disconnected(p)
         \/ Join(p) \/ Query(p) \/ Retry(p)
  PROVE  Quiet
<1>1. /\ up \in [Conns -> Seq(Refs)] /\ CallerOK(p) /\ pc = [q \in Callers |-> pc[q]]
  BY DEF LogInv, LogTypes
<1>2. CASE UseCurrent(p)
  <2>1. Goto(p, "select") /\ op[p] # "submit"
    BY <1>1, <1>2 DEF UseCurrent, Goto, CallerOK
  <2> QED
    BY <1>1, <1>2, <2>1, MoveQuiet DEF UseCurrent, connVars, cloudVars, restVars
<1>3. CASE TakeFailure(p) \/ Disconnected(p)
  <2>1. /\ Goto(p, "lock")
        /\ UNCHANGED <<op, envelope, calls, recorded, minted, up, down, wait>>
    BY <1>3 DEF TakeFailure, Disconnected, connVars, cloudVars, restVars
  <2> QED
    BY <1>1, <2>1, MoveQuiet
<1>4. CASE Join(p) \/ Query(p) \/ Retry(p)
  <2>1. /\ \E l \in {"query", "install", "dial"} : Goto(p, l)
        /\ UNCHANGED <<op, envelope, calls, recorded, minted, up, down, wait>>
    BY <1>4 DEF Join, Query, Retry, connVars, cloudVars, restVars
  <2> QED
    BY <1>1, <2>1, MoveQuiet
<1> QED
  BY <1>2, <1>3, <1>4

(* Writing a frame: the caller's envelope, or the join of a new socket.    *)
LEMMA PushQuiet ==
  ASSUME LogInv, NEW p \in Callers, Push(p)
  PROVE  Quiet
<1>1. /\ up \in [Conns -> Seq(Refs)] /\ CallerOK(p) /\ op[p] = "submit"
      /\ envelope[p] \in Envelopes /\ envelope[p] \in Refs
      /\ wait = [q \in Callers |-> wait[q]]
  BY JoinApart DEF LogInv, LogTypes, Push, CallerOK, Submitting
<1>2. /\ \E l \in {"reply", "lock"} : Goto(p, l)
      /\ UNCHANGED <<op, envelope, calls, recorded, minted, down>>
      /\ wait' = [wait EXCEPT ![p] = "none"] /\ wait'[p] = "none"
  BY <1>1 DEF Push, cloudVars, restVars
<1>3. UNCHANGED up \/ up' = [up EXCEPT ![current] = Append(@, envelope[p])]
  BY DEF Push
<1>4. /\ up' \in [Conns -> Seq(Refs)]
      /\ \A c \in Conns, e \in Envelopes : In(up'[c], e) => In(up[c], e) \/ Carried(e)
  <2>1. CASE UNCHANGED up
    BY <1>1, <2>1
  <2>2. CASE up' = [up EXCEPT ![current] = Append(@, envelope[p])]
    <3>1. \A c \in Conns : /\ Append(up[c], envelope[p]) \in Seq(Refs)
                           /\ \A e : In(Append(up[c], envelope[p]), e)
                                       => In(up[c], e) \/ e = envelope[p]
      BY <1>1, InAppend
    <3>2. \A c \in Conns : up'[c] = up[c] \/ up'[c] = Append(up[c], envelope[p])
      BY <1>1, <2>2
    <3> QED
      BY <1>1, <2>2, <3>1, <3>2 DEF Carried
  <2> QED
    BY <1>3, <2>1, <2>2
<1> QED
  BY <1>1, <1>2, <1>4, MoveQuiet

LEMMA DialQuiet ==
  ASSUME LogInv, NEW p \in Callers, Dial(p)
  PROVE  Quiet
<1>1. up \in [Conns -> Seq(Refs)] /\ JoinRef \in Refs
  BY JoinApart DEF LogInv, LogTypes
<1>2. /\ Goto(p, "join")
      /\ UNCHANGED <<op, envelope, calls, recorded, minted, down>>
      /\ wait' = [wait EXCEPT ![p] = "none"]
      /\ \E c \in Conns : up' = [up EXCEPT ![c] = << JoinRef >>]
  BY DEF Dial, cloudVars, restVars
<1>3. << JoinRef >> \in Seq(Refs) /\ \A e \in Envelopes : ~In(<< JoinRef >>, e)
  BY <1>1, JoinApart DEF In
<1>4. /\ up' \in [Conns -> Seq(Refs)]
      /\ \A c \in Conns, e \in Envelopes : In(up'[c], e) => In(up[c], e)
  BY <1>1, <1>2, <1>3
<1> QED
  BY <1>1, <1>2, <1>4, MoveQuiet

(* A step of a connection or of the coordinator that confirms nothing new. *)
LEMMA SilentQuiet ==
  ASSUME LogInv, UNCHANGED <<pc, op, envelope, calls, wait, recorded, minted>>,
         up' \in [Conns -> Seq(Refs)],
         \A c \in Conns, e \in Envelopes : In(up'[c], e) => In(up[c], e),
         down' \in [Conns -> Seq(Frames)],
         \A c \in Conns, f \in Frames : In(down'[c], f) => Honest(f)
  PROVE  Quiet
<1>1. /\ pc = [q \in Callers |-> pc[q]] /\ wait = [q \in Callers |-> wait[q]]
      /\ \A q \in Callers : CallerOK(q)
  BY DEF LogInv, LogTypes
<1>2. pc' = [q \in Callers |-> pc'[q]] /\ wait' = [q \in Callers |-> wait'[q]]
  BY <1>1
<1> QED
  BY <1>1, <1>2 DEF Quiet, CallerOK

LEMMA ConnectionsAreQuiet ==
  ASSUME LogInv, NEW c \in Conns,
         Enqueue(c) \/ StopReading(c) \/ ReadFails(c) \/ HeartbeatFails(c) \/ Break(c)
  PROVE  Quiet
<1>1. UNCHANGED <<pc, op, envelope, calls, wait, recorded, minted, up>>
  BY DEF Enqueue, StopReading, ReadFails, HeartbeatFails, Break, callVars, cloudVars, restVars
<1>2. UNCHANGED down \/ down' = [down EXCEPT ![c] = << >>]
  BY DEF Enqueue, StopReading, ReadFails, HeartbeatFails, Break
<1>3. up \in [Conns -> Seq(Refs)] /\ down \in [Conns -> Seq(Frames)]
  BY DEF LogInv, LogTypes
<1>4. \A b \in Conns, f \in Frames : In(down[b], f) => Honest(f)
  BY DEF LogInv
<1>5. << >> \in Seq(Frames) /\ \A f : ~In(<< >>, f)
  BY DEF In
<1>6. /\ down' \in [Conns -> Seq(Frames)]
      /\ \A b \in Conns, f \in Frames : In(down'[b], f) => Honest(f)
  BY <1>2, <1>3, <1>4, <1>5
<1> QED
  BY <1>1, <1>3, <1>6, SilentQuiet

LEMMA OutsideIsQuiet ==
  ASSUME LogInv, Close \/ (\E p \in Callers : ContextEnds(p))
  PROVE  Quiet
<1>1. UNCHANGED <<pc, op, envelope, calls, wait, recorded, minted, up, down>>
  BY DEF Close, ContextEnds, callVars, connVars, cloudVars, restVars
<1>2. up \in [Conns -> Seq(Refs)] /\ down \in [Conns -> Seq(Frames)]
  BY DEF LogInv, LogTypes
<1>3. \A b \in Conns, f \in Frames : In(down[b], f) => Honest(f)
  BY DEF LogInv
<1> QED
  BY <1>1, <1>2, <1>3, SilentQuiet

(* A broadcast is no confirmation.                                         *)
LEMMA PostQuiet ==
  ASSUME LogInv, NEW m \in Messages, Post(m) \/ PostAgain(m)
  PROVE  Quiet
<1> DEFINE b == [type |-> "message", of |-> m]
<1>1. UNCHANGED <<pc, op, envelope, calls, wait, recorded, minted, up>> /\ Broadcast(m)
  BY DEF Post, PostAgain, callVars, cloudVars, restVars
<1>2. up \in [Conns -> Seq(Refs)] /\ down \in [Conns -> Seq(Frames)]
  BY DEF LogInv, LogTypes
<1>3. b \in Frames /\ Honest(b)
  BY DEF Frames, Honest
<1>4. \A c \in Conns : down'[c] = down[c] \/ down'[c] = Append(down[c], b)
  BY <1>1 DEF Broadcast
<1>5. \A c \in Conns : Append(down[c], b) \in Seq(Frames)
                       /\ \A f : In(Append(down[c], b), f) => In(down[c], f) \/ f = b
  BY <1>2, <1>3, InAppend
<1>6. down' \in [Conns -> Seq(Frames)]
  <2>1. \A c \in Conns : down'[c] \in Seq(Frames)
    BY <1>2, <1>4, <1>5
  <2>2. down' = [c \in Conns |-> down'[c]]
    BY <1>1 DEF Broadcast
  <2> QED
    BY <2>1, <2>2
<1>7. \A c \in Conns, f \in Frames : In(down'[c], f) => Honest(f)
  BY <1>3, <1>4, <1>5 DEF LogInv
<1> QED
  BY <1>1, <1>2, <1>6, <1>7, SilentQuiet

(* What a reply adds to the frames on their way.                           *)
LEMMA SendKeeps ==
  ASSUME LogInv, NEW c \in Conns, NEW t \in Seq(Frames), Send(c, t)
  PROVE  /\ down' \in [Conns -> Seq(Frames)]
         /\ \A b \in Conns, f \in Frames : In(down'[b], f) => In(down[b], f) \/ In(t, f)
<1>1. down \in [Conns -> Seq(Frames)]
  BY DEF LogInv, LogTypes
<1>2. UNCHANGED down \/ down' = [down EXCEPT ![c] = down[c] \o t]
  BY DEF Send
<1>3. down[c] \o t \in Seq(Frames) /\ \A y : In(down[c] \o t, y) => In(down[c], y) \/ In(t, y)
  BY <1>1, InConcat
<1> HIDE DEF In
<1> QED
  BY <1>1, <1>2, <1>3

LEMMA JoinsQuiet ==
  ASSUME LogInv, NEW c \in Conns, CloudJoins(c)
  PROVE  Quiet
<1>1. UNCHANGED <<pc, op, envelope, calls, wait, recorded, minted>>
  BY DEF CloudJoins, callVars, restVars
<1>2. up \in [Conns -> Seq(Refs)] /\ up[c] # << >> /\ up' = [up EXCEPT ![c] = Tail(up[c])]
  BY DEF LogInv, LogTypes, CloudJoins
<1>3. Tail(up[c]) \in Seq(Refs) /\ \A e : In(Tail(up[c]), e) => In(up[c], e)
  BY <1>2, InTail
<1>4. /\ up' \in [Conns -> Seq(Refs)]
      /\ \A b \in Conns, e \in Envelopes : In(up'[b], e) => In(up[b], e)
  BY <1>2, <1>3
<1>5. PICK t \in {"ok", "rejected", "garbled"} : Send(c, << [type |-> t, of |-> JoinRef] >>)
  BY DEF CloudJoins
<1> DEFINE f == [type |-> t, of |-> JoinRef]
<1>6. f \in Frames /\ Honest(f)
  BY JoinApart DEF Frames, Honest, Replies
<1>7. << f >> \in Seq(Frames) /\ \A y : In(<< f >>, y) => y = f
  BY <1>6 DEF In
<1>8. /\ down' \in [Conns -> Seq(Frames)]
      /\ \A b \in Conns, y \in Frames : In(down'[b], y) => In(down[b], y) \/ In(<< f >>, y)
  BY <1>5, <1>7, SendKeeps
<1>9. \A b \in Conns, y \in Frames : In(down'[b], y) => Honest(y)
  BY <1>6, <1>7, <1>8 DEF LogInv
<1> QED
  BY <1>1, <1>4, <1>8, <1>9, SilentQuiet

(* A reply that reaches its caller is of the caller's own envelope.        *)
LEMMA ReadQuiet ==
  ASSUME LogInv, NEW c \in Conns, Read(c)
  PROVE  Quiet
<1> DEFINE f == Head(down[c])
<1>1. UNCHANGED <<pc, op, envelope, calls, recorded, minted, up>>
  BY DEF Read, cloudVars, restVars
<1>2. /\ up \in [Conns -> Seq(Refs)] /\ down \in [Conns -> Seq(Frames)]
      /\ pc = [q \in Callers |-> pc[q]] /\ down[c] # << >>
      /\ down' = [down EXCEPT ![c] = Tail(down[c])]
      /\ wait' = [p \in Callers |->
                   IF f.type \in Replies /\ Awaits(p, c, f.of) THEN f.type ELSE wait[p]]
  BY DEF LogInv, LogTypes, Read
<1>3. /\ Tail(down[c]) \in Seq(Frames) /\ f \in Frames /\ In(down[c], f)
      /\ \A y : In(Tail(down[c]), y) => In(down[c], y)
  BY <1>2, InTail
<1>4. Honest(f) /\ \A b \in Conns, y \in Frames : In(down[b], y) => Honest(y)
  BY <1>3 DEF LogInv
<1> HIDE DEF f
<1>5. /\ down' \in [Conns -> Seq(Frames)]
      /\ \A b \in Conns, y \in Frames : In(down'[b], y) => Honest(y)
  BY <1>2, <1>3, <1>4
<1>6. ASSUME NEW p \in Callers
      PROVE  /\ pc[p] \in {"push", "reply"} => op[p] = "submit"
             /\ pc[p] \in {"look", "select"} => op[p] # "submit"
             /\ pc[p] = "reply" /\ wait'[p] = "ok" => Recorded(envelope[p])
  <2>1. CallerOK(p)
    BY DEF LogInv
  <2>2. ASSUME pc[p] = "reply", wait'[p] = "ok", wait[p] # "ok"
        PROVE  Recorded(envelope[p])
    <3>1. f.type = "ok" /\ Awaits(p, c, f.of)
      BY <1>2, <2>2
    <3>2. envelope[p] = f.of /\ envelope[p] # JoinRef
      BY <2>1, <2>2, <3>1, JoinApart DEF Awaits, CallerOK, Submitting
    <3> QED
      BY <1>4, <3>1, <3>2 DEF Honest
  <2> QED
    BY <2>1, <2>2 DEF CallerOK
<1>7. wait' = [q \in Callers |-> wait'[q]] /\ pc' = [q \in Callers |-> pc'[q]]
  BY <1>1, <1>2
<1> QED
  BY <1>1, <1>2, <1>5, <1>6, <1>7 DEF Quiet

-----------------------------------------------------------------------------
(* Calls begin and end *)

(* A caller that leaves takes its envelope with it.                        *)
LEMMA LeaveFrame ==
  ASSUME LogInv, NEW p \in Callers, Leave(p), UNCHANGED <<recorded, up>>
  PROVE  /\ pc' = [pc EXCEPT ![p] = "idle"] /\ op' = [op EXCEPT ![p] = "none"]
         /\ pc' = [q \in Callers |-> pc'[q]] /\ op' = [q \in Callers |-> op'[q]]
         /\ wait' = [q \in Callers |-> wait'[q]]
         /\ envelope' \in [Callers -> Envelopes \union {JoinRef}]
         /\ pc'[p] = "idle" /\ op'[p] = "none" /\ envelope'[p] = JoinRef
         /\ \A q \in Callers : q # p => /\ pc'[q] = pc[q] /\ op'[q] = op[q]
                                        /\ wait'[q] = wait[q] /\ envelope'[q] = envelope[q]
         /\ \A e \in Envelopes : Known(e)' => Known(e)
         /\ \A e : Recorded(e)' <=> Recorded(e)
<1>1. LogTypes
  BY DEF LogInv
<1>2. /\ pc' = [pc EXCEPT ![p] = "idle"] /\ op' = [op EXCEPT ![p] = "none"]
      /\ wait' = [wait EXCEPT ![p] = "none"] /\ envelope' = [envelope EXCEPT ![p] = JoinRef]
  BY DEF Leave, Goto
<1>3. /\ pc' = [q \in Callers |-> pc'[q]] /\ op' = [q \in Callers |-> op'[q]]
      /\ wait' = [q \in Callers |-> wait'[q]]
      /\ pc'[p] = "idle" /\ op'[p] = "none"
      /\ \A q \in Callers : q # p => pc'[q] = pc[q] /\ op'[q] = op[q] /\ wait'[q] = wait[q]
  BY <1>1, <1>2 DEF LogTypes
<1>4. /\ envelope' \in [Callers -> Envelopes \union {JoinRef}] /\ envelope'[p] = JoinRef
      /\ \A q \in Callers : q # p => envelope'[q] = envelope[q]
  BY <1>1, <1>2 DEF LogTypes
<1>5. \A e \in Envelopes : Known(e)' => Known(e)
  BY <1>4, JoinApart DEF Known, Recorded, OnItsWay, Carried
<1> QED
  BY <1>2, <1>3, <1>4, <1>5 DEF Recorded

(* Next returns; no submission is touched.                                 *)
LEMMA ReturnKeeps ==
  ASSUME LogInv, NEW p \in Callers, Leave(p), op[p] # "submit",
         UNCHANGED <<calls, recorded, up, down, minted>>
  PROVE  LogInv'
<1>1. LogTypes'
  BY LeaveFrame DEF LogInv, LogTypes
<1>2. ASSUME NEW q \in Callers
      PROVE  CallerOK(q)'
  BY LeaveFrame DEF LogInv, CallerOK, Submitting
<1>3. ASSUME NEW s \in Submissions
      PROVE  Made(s)'
  <2>1. Made(s) /\ s[1] \in Callers /\ calls'[s] = calls[s]
    BY DEF LogInv, Submissions, Callers
  <2>2. s[1] = p => calls[s] # "open"
    BY <2>1 DEF Made
  <2> QED
    BY <2>1, <2>2, LeaveFrame DEF Made
<1>4. \A e \in Envelopes : Known(e)' => calls'[SubmissionOf(e)] # "unsent"
  BY LeaveFrame DEF LogInv
<1>5. \A e, f \in Envelopes :
        Known(e)' /\ Known(f)' /\ SubmissionOf(e) = SubmissionOf(f) => e = f
  BY LeaveFrame DEF LogInv
<1>6. \A c \in Conns, f \in Frames : In(down'[c], f) => Honest(f)'
  BY LeaveFrame DEF LogInv, Honest
<1> QED
  BY <1>1, <1>2, <1>3, <1>4, <1>5, <1>6 DEF LogInv

(* A submission is answered: with success only if it is recorded.          *)
LEMMA AnswerKeeps ==
  ASSUME LogInv, NEW p \in Callers, NEW result \in {"ok", "failed"}, ReturnResult(p, result),
         op[p] = "submit", result = "ok" => Recorded(envelope[p]),
         UNCHANGED <<recorded, up, down, minted>>
  PROVE  LogInv'
<1> DEFINE t == <<p, envelope[p].no>>
<1>0. Leave(p) /\ calls' = [calls EXCEPT ![t] = result]
  BY DEF ReturnResult
<1>1. /\ Submitting(p) /\ p \in Submitters /\ envelope[p] \in Envelopes /\ envelope[p].by = p
      /\ t \in Submissions /\ calls[t] = "open" /\ SubmissionOf(envelope[p]) = t
      /\ calls \in [Submissions -> {"unsent", "open", "ok", "failed"}]
  BY DEF LogInv, LogTypes, CallerOK, Submitting, Submissions, SubmissionOf, Envelopes
<1> HIDE DEF t
<1>2. /\ calls' \in [Submissions -> {"unsent", "open", "ok", "failed"}] /\ calls'[t] = result
      /\ \A s \in Submissions : s # t => calls'[s] = calls[s]
  BY <1>0, <1>1
<1>3. LogTypes'
  BY <1>0, <1>2, LeaveFrame DEF LogInv, LogTypes
<1>4. ASSUME NEW q \in Callers
      PROVE  CallerOK(q)'
  <2>1. CASE q = p
    BY <1>0, <2>1, LeaveFrame DEF CallerOK
  <2>2. CASE q # p
    <3>1. CallerOK(q) /\ (CallerOK(q) => (op[q] = "submit" => Submitting(q)))
      BY DEF LogInv, CallerOK
    <3>2. ASSUME Submitting(q)
          PROVE  Submitting(q)'
      <4>1. <<q, envelope[q].no>> \in Submissions /\ <<q, envelope[q].no>> # t
        BY <2>2, <3>2 DEF Submitting, Submissions, Envelopes, t
      <4> QED
        BY <1>0, <1>2, <2>2, <3>2, <4>1, LeaveFrame DEF Submitting
    <3> QED
      BY <1>0, <2>2, <3>1, <3>2, LeaveFrame DEF CallerOK
  <2> QED
    BY <2>1, <2>2
<1>5. ASSUME NEW s \in Submissions
      PROVE  Made(s)'
  <2>1. Made(s) /\ s[1] \in Callers
    BY DEF LogInv, Submissions, Callers
  <2>2. CASE s = t
    BY <1>0, <1>1, <1>2, <2>2, LeaveFrame DEF Made
  <2>3. CASE s # t
    <3>1. s[1] = p => calls[s] # "open"
      <4>1. s = <<s[1], s[2]>>
        BY DEF Submissions
      <4> QED
        BY <2>1, <2>3, <4>1 DEF Made, t
    <3> QED
      BY <1>0, <1>2, <2>1, <2>3, <3>1, LeaveFrame DEF Made
  <2> QED
    BY <2>2, <2>3
<1>6. \A e \in Envelopes : Known(e)' => calls'[SubmissionOf(e)] # "unsent"
  <2>1. \A e \in Envelopes : SubmissionOf(e) \in Submissions
    BY DEF SubmissionOf, Envelopes, Submissions
  <2> QED
    BY <1>0, <1>2, <2>1, LeaveFrame DEF LogInv
<1>7. \A e, f \in Envelopes :
        Known(e)' /\ Known(f)' /\ SubmissionOf(e) = SubmissionOf(f) => e = f
  BY <1>0, LeaveFrame DEF LogInv
<1>8. \A c \in Conns, f \in Frames : In(down'[c], f) => Honest(f)'
  BY <1>0, LeaveFrame DEF LogInv, Honest
<1> QED
  BY <1>3, <1>4, <1>5, <1>6, <1>7, <1>8 DEF LogInv

LEMMA NextKeeps ==
  ASSUME LogInv, NEW p \in Callers, CallNext(p)
  PROVE  LogInv'
<1>1. /\ LogTypes /\ pc[p] = "idle" /\ op[p] = "none"
      /\ UNCHANGED <<wait, envelope, calls, recorded, minted, up, down>>
  BY DEF LogInv, CallNext, CallerOK, connVars, cloudVars, restVars
<1>2. /\ pc' = [pc EXCEPT ![p] = "look"] /\ op' = [op EXCEPT ![p] = "next"]
  BY DEF CallNext, Goto
<1>3. /\ pc' = [q \in Callers |-> pc'[q]] /\ op' = [q \in Callers |-> op'[q]]
      /\ pc'[p] = "look" /\ op'[p] = "next"
      /\ \A q \in Callers : q # p => pc'[q] = pc[q] /\ op'[q] = op[q]
  BY <1>1, <1>2 DEF LogTypes
<1>4. LogTypes'
  BY <1>1, <1>3 DEF LogTypes
<1>5. \A e : /\ Known(e)' <=> Known(e)
             /\ Recorded(e)' <=> Recorded(e)
  BY <1>1 DEF Known, Recorded, OnItsWay, Carried
<1>6. \A q \in Callers : CallerOK(q)'
  BY <1>1, <1>3, <1>5 DEF LogInv, CallerOK, Submitting
<1>7. \A s \in Submissions : Made(s)'
  BY <1>1, <1>3, <1>5 DEF LogInv, Made, Submissions, Callers
<1> QED
  BY <1>1, <1>4, <1>5, <1>6, <1>7 DEF LogInv, Honest

(* A new submission gets an envelope nobody knows.                         *)
LEMMA SubmitKeeps ==
  ASSUME LogInv, NEW p \in Submitters, NEW n \in 1 .. MaxSubmissions, CallSubmit(p, n)
  PROVE  LogInv'
<1> DEFINE t == <<p, n>>
           e0 == [by |-> p, no |-> n, id |-> minted]
<1>1. /\ LogTypes /\ p \in Callers /\ pc[p] = "idle" /\ op[p] = "none" /\ calls[t] = "unsent"
      /\ UNCHANGED <<wait, recorded, up, down>> /\ minted' = minted + 1
  BY DEF LogInv, CallSubmit, CallerOK, connVars, cloudVars, Callers
<1>2. /\ pc' = [pc EXCEPT ![p] = "push"] /\ op' = [op EXCEPT ![p] = "submit"]
      /\ envelope' = [envelope EXCEPT ![p] = e0] /\ calls' = [calls EXCEPT ![t] = "open"]
  BY DEF CallSubmit, Goto
<1>3. e0 \in Envelopes /\ SubmissionOf(e0) = t /\ e0.by = p /\ e0.no = n /\ t \in Submissions
  BY <1>1 DEF LogTypes, Envelopes, SubmissionOf, Submissions
<1> HIDE DEF e0, t
<1>4. /\ pc' = [q \in Callers |-> pc'[q]] /\ op' = [q \in Callers |-> op'[q]]
      /\ pc'[p] = "push" /\ op'[p] = "submit"
      /\ \A q \in Callers : q # p => pc'[q] = pc[q] /\ op'[q] = op[q]
  BY <1>1, <1>2 DEF LogTypes
<1>5. /\ envelope' \in [Callers -> Envelopes \union {JoinRef}] /\ envelope'[p] = e0
      /\ \A q \in Callers : q # p => envelope'[q] = envelope[q]
  BY <1>1, <1>2, <1>3 DEF LogTypes
<1>6. /\ calls' \in [Submissions -> {"unsent", "open", "ok", "failed"}] /\ calls'[t] = "open"
      /\ \A s \in Submissions : s # t => calls'[s] = calls[s]
  BY <1>1, <1>2, <1>3 DEF LogTypes
<1>7. LogTypes'
  BY <1>1, <1>4, <1>5, <1>6 DEF LogTypes
<1>8. \A e : /\ Recorded(e)' <=> Recorded(e)
             /\ Known(e)' => Known(e) \/ e = e0
  BY <1>1, <1>5 DEF Known, Recorded, OnItsWay, Carried
<1>9. \A e \in Envelopes : Known(e) => SubmissionOf(e) # t
  BY <1>1 DEF LogInv
<1>10. ASSUME NEW q \in Callers
       PROVE  CallerOK(q)'
  <2>1. CASE q = p
    <3>1. Submitting(p)'
      BY <1>3, <1>5, <1>6 DEF Submitting, t
    <3> QED
      BY <1>4, <2>1, <3>1 DEF CallerOK
  <2>2. CASE q # p
    <3>1. CallerOK(q)
      BY DEF LogInv
    <3>2. ASSUME Submitting(q)
          PROVE  Submitting(q)'
      <4>1. <<q, envelope[q].no>> \in Submissions /\ <<q, envelope[q].no>> # t
        BY <2>2, <3>2 DEF Submitting, Submissions, Envelopes, t
      <4> QED
        BY <1>5, <1>6, <2>2, <3>2, <4>1 DEF Submitting
    <3> QED
      BY <1>1, <1>4, <1>5, <1>8, <2>2, <3>1, <3>2 DEF CallerOK
  <2> QED
    BY <2>1, <2>2
<1>11. ASSUME NEW s \in Submissions
       PROVE  Made(s)'
  <2>1. Made(s) /\ s[1] \in Callers /\ s = <<s[1], s[2]>>
    BY DEF LogInv, Submissions, Callers
  <2>2. CASE s = t
    BY <1>3, <1>4, <1>5, <1>6, <2>2 DEF Made, t
  <2>3. CASE s # t
    <3>1. s[1] = p => calls[s] # "open"
      BY <1>1, <2>1 DEF Made
    <3> QED
      BY <1>4, <1>5, <1>6, <1>8, <2>1, <2>3, <3>1 DEF Made
  <2> QED
    BY <2>2, <2>3
<1>12. \A e \in Envelopes : Known(e)' => calls'[SubmissionOf(e)] # "unsent"
  <2>1. \A e \in Envelopes : SubmissionOf(e) \in Submissions
    BY DEF SubmissionOf, Envelopes, Submissions
  <2> QED
    BY <1>3, <1>6, <1>8, <2>1 DEF LogInv
<1>13. \A e, f \in Envelopes :
         Known(e)' /\ Known(f)' /\ SubmissionOf(e) = SubmissionOf(f) => e = f
  BY <1>3, <1>8, <1>9 DEF LogInv
<1>14. \A c \in Conns, f \in Frames : In(down'[c], f) => Honest(f)'
  BY <1>1, <1>8 DEF LogInv, Honest
<1> QED
  BY <1>7, <1>10, <1>11, <1>12, <1>13, <1>14 DEF LogInv

(* A caller's other steps: it stays in its call, Next returns, or a        *)
(* submission is answered.                                                 *)
Leaves(p) ==
  /\ Leave(p)
  /\ op[p] # "submit"
  /\ UNCHANGED <<calls, recorded, up, down, minted>>

Answers(p, result) ==
  /\ ReturnResult(p, result)
  /\ op[p] = "submit"
  /\ result = "ok" => Recorded(envelope[p])
  /\ UNCHANGED <<recorded, up, down, minted>>

Ends(p) == Leaves(p) \/ (\E result \in {"ok", "failed"} : Answers(p, result))

LEMMA ErrorEnds ==
  ASSUME NEW p \in Callers, ReturnError(p), UNCHANGED <<recorded, up, down, minted>>
  PROVE  Ends(p)
<1>1. CASE op[p] = "submit"
  <2>1. Answers(p, "failed")
    BY <1>1 DEF ReturnError, Answers
  <2> QED
    BY <2>1 DEF Ends
<1>2. CASE op[p] # "submit"
  BY <1>2 DEF ReturnError, ReturnUpdate, Ends, Leaves
<1> QED
  BY <1>1, <1>2

(* A recovery is returned by Next, or queued by a submission that retries. *)
LEMMA RecoverEnds ==
  ASSUME LogInv, NEW p \in Callers, NEW ms, Recover(p, ms),
         UNCHANGED <<recorded, up, down, minted>>
  PROVE  Quiet \/ Ends(p)
<1>1. CASE op[p] = "submit"
  <2>1. /\ Goto(p, "push") /\ UNCHANGED <<op, envelope, calls>>
        /\ wait' = [wait EXCEPT ![p] = "none"]
    BY <1>1 DEF Recover
  <2>2. up \in [Conns -> Seq(Refs)]
    BY DEF LogInv, LogTypes
  <2> QED
    BY <1>1, <2>1, <2>2, MoveQuiet
<1>2. CASE op[p] # "submit"
  BY <1>2 DEF Recover, ReturnUpdate, Ends, Leaves
<1> QED
  BY <1>1, <1>2

LEMMA WaitingEnds ==
  ASSUME LogInv, NEW p \in Callers, Look(p) \/ TakeMessage(p) \/ StopWaiting(p)
  PROVE  Quiet \/ Ends(p)
<1>1. /\ up \in [Conns -> Seq(Refs)] /\ CallerOK(p)
      /\ pc[p] \in {"look", "select"} /\ op[p] # "submit"
  BY DEF LogInv, LogTypes, CallerOK, Look, TakeMessage, StopWaiting
<1>2. UNCHANGED <<recorded, up, down, minted>>
  BY DEF Look, TakeMessage, StopWaiting, connVars, cloudVars
<1>3. CASE Look(p)
  <2>1. CASE recoveries # << >>
    BY <1>1, <1>2, <1>3, <2>1 DEF Look, ReturnUpdate, Ends, Leaves
  <2>2. CASE recoveries = << >>
    <3>1. Goto(p, "select") /\ UNCHANGED <<op, envelope, calls, wait>>
      BY <1>3, <2>2 DEF Look
    <3> QED
      BY <1>1, <1>2, <3>1, MoveQuiet
  <2> QED
    BY <2>1, <2>2
<1>4. CASE TakeMessage(p)
  <2>1. CASE Head(inbound[conn[p]]) \notin seen
    BY <1>1, <1>2, <1>4, <2>1 DEF TakeMessage, ReturnUpdate, Ends, Leaves
  <2>2. CASE Head(inbound[conn[p]]) \in seen
    <3>1. Goto(p, "look") /\ UNCHANGED <<op, envelope, calls, wait>>
      BY <1>4, <2>2 DEF TakeMessage
    <3> QED
      BY <1>1, <1>2, <3>1, MoveQuiet
  <2> QED
    BY <2>1, <2>2
<1>5. CASE StopWaiting(p)
  BY <1>2, <1>5, ErrorEnds DEF StopWaiting
<1> QED
  BY <1>3, <1>4, <1>5

LEMMA SubmittingEnds ==
  ASSUME LogInv, NEW p \in Callers, Acknowledged(p) \/ AbandonPush(p)
  PROVE  Ends(p)
<1>1. UNCHANGED <<recorded, up, down, minted>>
  BY DEF Acknowledged, AbandonPush, connVars, cloudVars
<1>2. CASE Acknowledged(p)
  <2>1. CallerOK(p) /\ pc[p] = "reply"
    BY <1>2 DEF LogInv, Acknowledged
  <2>2. PICK result \in {"ok", "failed"} :
          /\ ReturnResult(p, result)
          /\ result = "ok" => wait[p] = "ok"
    BY <1>2 DEF Acknowledged
  <2>3. Answers(p, result)
    BY <1>1, <2>1, <2>2 DEF Answers, CallerOK
  <2> QED
    BY <2>3 DEF Ends
<1>3. CASE AbandonPush(p)
  BY <1>1, <1>3, ErrorEnds DEF AbandonPush
<1> QED
  BY <1>2, <1>3

LEMMA ReconnectingEnds ==
  ASSUME LogInv, NEW p \in Callers,
         Lock(p) \/ LatePending(p) \/ LatePendingFails(p) \/ Install(p) \/ GiveUp(p)
  PROVE  Quiet \/ Ends(p)
<1>1. up \in [Conns -> Seq(Refs)]
  BY DEF LogInv, LogTypes
<1>2. UNCHANGED <<recorded, up, down, minted>>
  BY DEF Lock, LatePending, LatePendingFails, Install, GiveUp, connVars, cloudVars
<1>3. CASE Lock(p)
  <2>1. \/ \E l \in {"dial", "late"} : Goto(p, l) /\ UNCHANGED <<op, envelope, calls, wait>>
        \/ op[p] = "next" /\ ReturnUpdate(p, Head(recoveries))
    BY <1>3 DEF Lock
  <2>2. ASSUME NEW l \in {"dial", "late"}, Goto(p, l), UNCHANGED <<op, envelope, calls, wait>>
        PROVE  Quiet
    BY <1>1, <1>2, <2>2, MoveQuiet
  <2>3. CASE op[p] = "next" /\ ReturnUpdate(p, Head(recoveries))
    BY <1>2, <2>3 DEF ReturnUpdate, Ends, Leaves
  <2> QED
    BY <2>1, <2>2, <2>3
<1>4. CASE LatePending(p)
  BY <1>2, <1>4, RecoverEnds DEF LatePending
<1>5. CASE Install(p)
  BY <1>2, <1>5, RecoverEnds DEF Install
<1>6. CASE LatePendingFails(p) \/ GiveUp(p)
  BY <1>2, <1>6, ErrorEnds DEF LatePendingFails, GiveUp
<1> QED
  BY <1>3, <1>4, <1>5, <1>6

-----------------------------------------------------------------------------
(* The coordinator records an envelope *)

(* What it does to the log and the frames.                                 *)
LEMMA RecordsFrame ==
  ASSUME LogInv, NEW c \in Conns, CloudRecords(c)
  PROVE  \E e \in Envelopes, t \in Seq(Frames) :
           /\ Known(e)
           /\ UNCHANGED recorded \/ (recorded' = Append(recorded, e) /\ ~Recorded(e))
           /\ up' \in [Conns -> Seq(Refs)]
           /\ \A b \in Conns, x \in Envelopes : In(up'[b], x) => In(up[b], x)
           /\ Send(c, t)
           /\ \A f : In(t, f) => (f.type = "ok" => f.of = e /\ Recorded(e)')
<1>0. PICK e : e = Head(up[c])
  OBVIOUS
<1>1. /\ up \in [Conns -> Seq(Refs)] /\ up[c] # << >> /\ e # JoinRef
      /\ recorded \in Seq(Envelopes) /\ up' = [up EXCEPT ![c] = Tail(up[c])]
  BY <1>0 DEF LogInv, LogTypes, CloudRecords
<1>2. /\ Tail(up[c]) \in Seq(Refs) /\ e \in Refs /\ In(up[c], e)
      /\ \A y : In(Tail(up[c]), y) => In(up[c], y)
  BY <1>0, <1>1, InTail
<1>3. e \in Envelopes /\ Known(e)
  BY <1>1, <1>2 DEF Refs, Known, OnItsWay
<1>4. /\ up' \in [Conns -> Seq(Refs)]
      /\ \A b \in Conns, x \in Envelopes : In(up'[b], x) => In(up[b], x)
  BY <1>1, <1>2
<1>5. \A y : In(Append(recorded, e), y) <=> In(recorded, y) \/ y = e
  BY <1>1, <1>3, InAppend
<1> DEFINE own == [type |-> "own", of |-> e]
           reply(k) == [type |-> k, of |-> e]
<1>6. own \in Frames /\ \A k \in Replies : reply(k) \in Frames
  BY <1>3, JoinApart DEF Frames
<1>7. CASE /\ recorded' = IF Recorded(e) THEN recorded ELSE Append(recorded, e)
           /\ \E k \in {"ok", "changed", "garbled"} : Send(c, << own, reply(k) >>)
  <2>1. PICK k \in {"ok", "changed", "garbled"} : Send(c, << own, reply(k) >>)
    BY <1>7
  <2>2. Recorded(e)'
    BY <1>5, <1>7 DEF Recorded
  <2>3. UNCHANGED recorded \/ (recorded' = Append(recorded, e) /\ ~Recorded(e))
    BY <1>7
  <2>4. /\ << own, reply(k) >> \in Seq(Frames)
        /\ \A f : In(<< own, reply(k) >>, f) => f = own \/ f = reply(k)
    <3>1. own \in Frames /\ reply(k) \in Frames
      BY <1>6 DEF Replies
    <3> HIDE DEF own, reply
    <3> QED
      BY <3>1 DEF In
  <2>5. \A f : In(<< own, reply(k) >>, f) => (f.type = "ok" => f.of = e /\ Recorded(e)')
    BY <2>2, <2>4
  <2> QED
    BY <1>3, <1>4, <2>1, <2>3, <2>4, <2>5
<1>8. CASE UNCHANGED recorded /\ Send(c, << reply("rejected") >>)
  <2>1. /\ << reply("rejected") >> \in Seq(Frames)
        /\ \A f : In(<< reply("rejected") >>, f) => f = reply("rejected")
    <3>1. reply("rejected") \in Frames
      BY <1>6 DEF Replies
    <3> HIDE DEF reply
    <3> QED
      BY <3>1 DEF In
  <2>2. \A f : In(<< reply("rejected") >>, f) => (f.type = "ok" => f.of = e /\ Recorded(e)')
    BY <2>1
  <2> HIDE DEF reply
  <2> QED
    BY <1>3, <1>4, <1>8, <2>1, <2>2
<1>9. \/ /\ recorded' = IF Recorded(e) THEN recorded ELSE Append(recorded, e)
         /\ \E k \in {"ok", "changed", "garbled"} : Send(c, << own, reply(k) >>)
      \/ UNCHANGED recorded /\ Send(c, << reply("rejected") >>)
  BY <1>0 DEF CloudRecords, Recorded, In
<1> QED
  BY <1>7, <1>8, <1>9

LEMMA RecordsKeeps ==
  ASSUME LogInv, NEW c \in Conns, CloudRecords(c)
  PROVE  LogInv'
<1>1. PICK e \in Envelopes, t \in Seq(Frames) :
           /\ Known(e)
           /\ UNCHANGED recorded \/ (recorded' = Append(recorded, e) /\ ~Recorded(e))
           /\ up' \in [Conns -> Seq(Refs)]
           /\ \A b \in Conns, x \in Envelopes : In(up'[b], x) => In(up[b], x)
           /\ Send(c, t)
           /\ \A f : In(t, f) => (f.type = "ok" => f.of = e /\ Recorded(e)')
  BY RecordsFrame
<1>2. LogTypes /\ UNCHANGED <<pc, op, envelope, calls, wait, minted>>
  BY DEF LogInv, CloudRecords, callVars, restVars
<1>3. /\ Append(recorded, e) \in Seq(Envelopes)
      /\ \A y : In(Append(recorded, e), y) <=> In(recorded, y) \/ y = e
  BY <1>2, InAppend DEF LogTypes
<1>4. \A x : /\ Recorded(x) => Recorded(x)'
             /\ Recorded(x)' => Recorded(x) \/ x = e
  BY <1>1, <1>3 DEF Recorded
<1>5. \A x \in Envelopes : Known(x)' => Known(x)
  BY <1>1, <1>2, <1>4 DEF Known, OnItsWay, Carried
<1>6. /\ down' \in [Conns -> Seq(Frames)]
      /\ \A b \in Conns, f \in Frames : In(down'[b], f) => In(down[b], f) \/ In(t, f)
  BY <1>1, SendKeeps
<1>7. LogTypes'
  <2>1. recorded' \in Seq(Envelopes)
    BY <1>1, <1>2, <1>3 DEF LogTypes
  <2> QED
    BY <1>1, <1>2, <1>6, <2>1 DEF LogTypes
<1>8. \A p \in Callers : CallerOK(p)'
  BY <1>2, <1>4 DEF LogInv, CallerOK, Submitting
<1>9. \A s \in Submissions : Made(s)'
  BY <1>2, <1>4 DEF LogInv, Made
<1>10. \A x \in Envelopes : Known(x)' => calls'[SubmissionOf(x)] # "unsent"
  BY <1>2, <1>5 DEF LogInv
<1>11. \A x, y \in Envelopes :
         Known(x)' /\ Known(y)' /\ SubmissionOf(x) = SubmissionOf(y) => x = y
  BY <1>5 DEF LogInv
<1>12. \A b \in Conns, f \in Frames : In(down'[b], f) => Honest(f)'
  BY <1>1, <1>4, <1>6 DEF LogInv, Honest
<1> QED
  BY <1>7, <1>8, <1>9, <1>10, <1>11, <1>12 DEF LogInv

-----------------------------------------------------------------------------
(* The invariant *)

(* Every step is of one of these kinds.                                    *)
LEMMA StepKinds ==
  ASSUME LogInv, Next
  PROVE  \/ Quiet
         \/ \E p \in Callers : Ends(p) \/ CallNext(p)
         \/ \E p \in Submitters, n \in 1 .. MaxSubmissions : CallSubmit(p, n)
         \/ \E c \in Conns : CloudRecords(c)
<1>1. ASSUME NEW p \in Callers, CallStep(p)
      PROVE  Quiet \/ Ends(p)
  <2>1. CASE \/ UseCurrent(p) \/ TakeFailure(p) \/ Disconnected(p)
             \/ Join(p) \/ Query(p) \/ Retry(p)
    BY <2>1, MovesAreQuiet
  <2>2. CASE Push(p)
    BY <2>2, PushQuiet
  <2>3. CASE Dial(p)
    BY <2>3, DialQuiet
  <2>4. CASE Look(p) \/ TakeMessage(p) \/ StopWaiting(p)
    BY <2>4, WaitingEnds
  <2>5. CASE Acknowledged(p) \/ AbandonPush(p)
    BY <2>5, SubmittingEnds
  <2>6. CASE Lock(p) \/ LatePending(p) \/ LatePendingFails(p) \/ Install(p) \/ GiveUp(p)
    BY <2>6, ReconnectingEnds
  <2> QED
    BY <1>1, <2>1, <2>2, <2>3, <2>4, <2>5, <2>6 DEF CallStep
<1>2. ASSUME NEW c \in Conns, ReaderStep(c) \/ HeartbeatFails(c) \/ CloudStep(c) \/ Break(c)
      PROVE  Quiet \/ CloudRecords(c)
  <2>1. CASE Read(c)
    BY <2>1, ReadQuiet
  <2>2. CASE Enqueue(c) \/ StopReading(c) \/ ReadFails(c) \/ HeartbeatFails(c) \/ Break(c)
    BY <2>2, ConnectionsAreQuiet
  <2>3. CASE CloudJoins(c)
    BY <2>3, JoinsQuiet
  <2> QED
    BY <1>2, <2>1, <2>2, <2>3 DEF ReaderStep, CloudStep
<1>3. ASSUME NEW m \in Messages, Post(m) \/ PostAgain(m)
      PROVE  Quiet
  BY <1>3, PostQuiet
<1>4. CASE Close \/ (\E p \in Callers : ContextEnds(p))
  BY <1>4, OutsideIsQuiet
<1> QED
  BY <1>1, <1>2, <1>3, <1>4 DEF Next

LEMMA EndKeeps ==
  ASSUME LogInv, NEW p \in Callers, Ends(p)
  PROVE  LogInv'
<1>1. CASE Leaves(p)
  BY <1>1, ReturnKeeps DEF Leaves
<1>2. ASSUME NEW result \in {"ok", "failed"}, Answers(p, result)
      PROVE  LogInv'
  BY <1>2, AnswerKeeps DEF Answers
<1> QED
  BY <1>1, <1>2 DEF Ends

LEMMA StutterKeeps == LogInv /\ UNCHANGED vars => LogInv'
<1> SUFFICES ASSUME LogInv, UNCHANGED vars PROVE LogInv'
  OBVIOUS
<1>1. UNCHANGED <<pc, op, envelope, calls, wait, recorded, minted, up, down>>
  BY DEF vars, callVars, connVars, cloudVars, restVars
<1>2. up \in [Conns -> Seq(Refs)] /\ down \in [Conns -> Seq(Frames)]
  BY DEF LogInv, LogTypes
<1>3. \A b \in Conns, f \in Frames : In(down[b], f) => Honest(f)
  BY DEF LogInv
<1>4. Quiet
  BY <1>1, <1>2, <1>3, SilentQuiet
<1> QED
  BY <1>4, QuietKeeps

LEMMA LogInit == Init => LogInv
<1> SUFFICES ASSUME Init PROVE LogInv
  OBVIOUS
<1>1. << >> \in Seq(Envelopes) /\ << >> \in Seq(Refs) /\ << >> \in Seq(Frames)
  OBVIOUS
<1>2. /\ pc = [p \in Callers |-> "idle"] /\ op = [p \in Callers |-> "none"]
      /\ wait = [p \in Callers |-> "none"] /\ envelope = [p \in Callers |-> JoinRef]
      /\ calls = [s \in Submissions |-> "unsent"] /\ recorded = << >> /\ minted = 0
      /\ up = [c \in Conns |-> << >>] /\ down = [c \in Conns |-> << >>]
  BY DEF Init
<1>3. LogTypes
  BY <1>1, <1>2 DEF LogTypes
<1>4. \A x : ~In(<< >>, x)
  BY DEF In
<1>5. /\ \A e \in Envelopes : ~Known(e)
      /\ \A c \in Conns, f \in Frames : ~In(down[c], f)
  BY <1>2, <1>4, JoinApart DEF Known, Recorded, OnItsWay, Carried
<1>6. \A p \in Callers : CallerOK(p)
  BY <1>2 DEF CallerOK
<1>7. \A s \in Submissions : Made(s)
  BY <1>2 DEF Made
<1> QED
  BY <1>3, <1>5, <1>6, <1>7 DEF LogInv

LEMMA LogNext == LogInv /\ [Next]_vars => LogInv'
<1> SUFFICES ASSUME LogInv, [Next]_vars PROVE LogInv'
  OBVIOUS
<1>1. CASE Next
  BY <1>1, StepKinds, QuietKeeps, EndKeeps, NextKeeps, SubmitKeeps, RecordsKeeps
<1>2. CASE UNCHANGED vars
  BY <1>2, StutterKeeps
<1> QED
  BY <1>1, <1>2

LEMMA LogHolds == Spec => []LogInv
  BY LogInit, LogNext, PTL DEF Spec

-----------------------------------------------------------------------------
(* The refinement *)

TheLog == [i \in DOMAIN recorded |-> <<recorded[i].by, recorded[i].no>>]

LogOf(q) == [i \in DOMAIN q |-> SubmissionOf(q[i])]

LEMMA LogOfAppend ==
  ASSUME NEW q \in Seq(Envelopes), NEW e \in Envelopes
  PROVE  LogOf(Append(q, e)) = Append(LogOf(q), SubmissionOf(e))
<1> DEFINE n == Len(q)
<1>1. /\ DOMAIN Append(q, e) = 1 .. (n + 1) /\ DOMAIN q = 1 .. n /\ n \in Nat
      /\ Append(q, e)[n + 1] = e /\ \A i \in 1 .. n : Append(q, e)[i] = q[i]
  OBVIOUS
<1>2. \A i \in 1 .. n : q[i] \in Envelopes
  BY <1>1
<1>3. SubmissionOf(e) \in Submissions /\ \A i \in 1 .. n : SubmissionOf(q[i]) \in Submissions
  BY <1>2 DEF SubmissionOf, Envelopes, Submissions
<1> DEFINE f(i) == SubmissionOf(q[i])
           g(i) == SubmissionOf(Append(q, e)[i])
<1>4. \A i \in 1 .. n : g(i) = f(i) /\ f(i) \in Submissions
  BY <1>1, <1>3
<1>5. g(n + 1) = SubmissionOf(e)
  BY <1>1
<1>6. LogOf(q) = [i \in 1 .. n |-> f(i)] /\ LogOf(Append(q, e)) = [i \in 1 .. (n + 1) |-> g(i)]
  BY <1>1 DEF LogOf
<1> HIDE DEF f, g, n
<1>7. PICK t : t = [i \in 1 .. n |-> f(i)]
  OBVIOUS
<1>8. t \in Seq(Submissions) /\ Len(t) = n /\ \A i \in 1 .. n : t[i] = f(i)
  <2>1. t \in [1 .. n -> Submissions]
    BY <1>4, <1>7
  <2>2. n \in Nat
    BY <1>1 DEF n
  <2> QED
    BY <1>7, <2>1, <2>2
<1>9. Append(t, SubmissionOf(e)) = [i \in 1 .. (n + 1) |-> g(i)]
  <2>1. n \in Nat /\ \A i \in 1 .. (n + 1) : i \in 1 .. n \/ i = n + 1
    BY <1>1 DEF n
  <2>2. PICK x \in Submissions : x = SubmissionOf(e)
    BY <1>3
  <2>3. /\ Append(t, x) \in Seq(Submissions) /\ Len(Append(t, x)) = n + 1
        /\ Append(t, x)[n + 1] = x /\ \A i \in 1 .. n : Append(t, x)[i] = t[i]
    BY <1>8, <2>1
  <2>4. Append(t, x) = [i \in 1 .. (n + 1) |-> Append(t, x)[i]]
    <3>1. PICK z \in Seq(Submissions) : z = Append(t, x)
      BY <2>3
    <3>2. z \in [1 .. Len(z) -> Submissions] /\ Len(z) = n + 1
      <4>1. Len(z) = n + 1
        BY <2>3, <3>1
      <4>2. z \in [1 .. Len(z) -> Submissions]
        <5> HIDE DEF n
        <5> QED
          BY ONLY z \in Seq(Submissions)
      <4> QED
        BY <4>1, <4>2
    <3>3. z = [i \in 1 .. (n + 1) |-> z[i]]
      BY <3>2
    <3> QED
      BY <3>1, <3>3
  <2>5. \A i \in 1 .. (n + 1) : Append(t, x)[i] = g(i)
    BY <1>4, <1>5, <1>8, <2>1, <2>2, <2>3
  <2> QED
    BY <2>2, <2>4, <2>5
<1> QED
  BY <1>6, <1>7, <1>9

LEMMA LogHas ==
  ASSUME LogInv
  PROVE  \A s : Log!InLog(s) <=> \E e \in Envelopes : Recorded(e) /\ SubmissionOf(e) = s
<1>1. recorded \in Seq(Envelopes)
  BY DEF LogInv, LogTypes
<1>2. \A i \in DOMAIN recorded : recorded[i] \in Envelopes
  BY <1>1
<1> QED
  BY <1>2 DEF Log!InLog, Recorded, In, SubmissionOf

(* Nothing the abstract specification sees.                                *)
LEMMA LogStutters == UNCHANGED <<calls, recorded>> => UNCHANGED Log!logVars
  BY DEF Log!logVars

LEMMA SubmitRefines ==
  ASSUME LogInv, NEW p \in Submitters, NEW n \in 1 .. MaxSubmissions, CallSubmit(p, n)
  PROVE  Log!Next
<1>1. PICK s \in Submissions : s = <<p, n>>
  BY DEF Submissions
<1>2. /\ calls \in [Submissions -> {"unsent", "open", "ok", "failed"}]
      /\ p \in Callers /\ pc[p] = "idle" /\ op[p] # "submit" /\ UNCHANGED recorded
      /\ s[1] = p /\ s[2] = n
  BY <1>1 DEF LogInv, LogTypes, CallSubmit, CallerOK, Callers, cloudVars
<1>3. \A k \in 1 .. (n - 1) : calls[<<p, k>>] \in {"ok", "failed"}
  <2> SUFFICES ASSUME NEW k \in 1 .. (n - 1) PROVE calls[<<p, k>>] \in {"ok", "failed"}
    OBVIOUS
  <2>1. <<p, k>> \in Submissions
    BY ShareChannelAssumption DEF Submissions
  <2>2. calls[<<p, k>>] # "open"
    BY <1>2, <2>1 DEF LogInv, Made
  <2>3. calls[<<p, k>>] # "unsent"
    BY DEF CallSubmit
  <2> QED
    BY <1>2, <2>1, <2>2, <2>3
<1>4. Log!Submit(s)
  BY <1>1, <1>2, <1>3 DEF CallSubmit, Log!Submit
<1> QED
  BY <1>4 DEF Log!Next, Log!Submissions, Submissions

LEMMA AnswerRefines ==
  ASSUME LogInv, NEW p \in Callers, NEW result \in {"ok", "failed"}, Answers(p, result)
  PROVE  Log!Next
<1>1. Submitting(p) /\ envelope[p].no \in 1 .. MaxSubmissions
  BY DEF LogInv, CallerOK, Answers, Submitting, Envelopes
<1>2. PICK s \in Submissions : s = <<p, envelope[p].no>>
  BY <1>1 DEF Submissions, Submitting
<1>3. calls[s] = "open" /\ calls' = [calls EXCEPT ![s] = result] /\ UNCHANGED recorded
  BY <1>1, <1>2 DEF Submitting, Answers, ReturnResult
<1>4. result = "ok" => Log!InLog(s)
  BY <1>1, <1>2, LogHas DEF Answers, Submitting, SubmissionOf
<1>5. Log!Return(s, result)
  BY <1>3, <1>4 DEF Log!Return
<1> QED
  BY <1>5 DEF Log!Next, Log!Submissions, Submissions

(* A message of a submission that was made; its first copy, because the    *)
(* other copies are of the same envelope.                                  *)
LEMMA RecordRefines ==
  ASSUME LogInv, NEW c \in Conns, CloudRecords(c)
  PROVE  Log!Next \/ UNCHANGED Log!logVars
<1>1. PICK e \in Envelopes :
           /\ Known(e)
           /\ UNCHANGED recorded \/ (recorded' = Append(recorded, e) /\ ~Recorded(e))
  BY RecordsFrame
<1>2. UNCHANGED calls /\ recorded \in Seq(Envelopes)
      /\ calls \in [Submissions -> {"unsent", "open", "ok", "failed"}]
  BY DEF LogInv, LogTypes, CloudRecords, callVars
<1>3. CASE UNCHANGED recorded
  BY <1>2, <1>3, LogStutters
<1>4. CASE recorded' = Append(recorded, e) /\ ~Recorded(e)
  <2>1. PICK s \in Submissions : s = <<e.by, e.no>>
    BY DEF Envelopes, Submissions
  <2>2. calls[s] # "unsent"
    BY <1>1, <2>1 DEF LogInv, SubmissionOf
  <2>3. ~Log!InLog(s)
    BY <1>1, <1>4, <2>1, LogHas DEF LogInv, Known, SubmissionOf
  <2>4. calls[s] # "ok"
    BY <1>1, <1>4, <2>1 DEF LogInv, Made, Known, SubmissionOf
  <2>5. TheLog' = Append(TheLog, s)
    BY <1>2, <1>4, <2>1, LogOfAppend DEF TheLog, LogOf, SubmissionOf
  <2>6. calls[s] \in {"open", "failed"}
    BY <1>2, <2>2, <2>4
  <2>7. Log!Record(s)
    BY <1>2, <2>3, <2>5, <2>6 DEF Log!Record, TheLog
  <2> QED
    BY <2>7 DEF Log!Next, Log!Submissions, Submissions
<1> QED
  BY <1>1, <1>3, <1>4

LEMMA StepRefines == LogInv /\ [Next]_vars => [Log!Next]_(Log!logVars)
<1> SUFFICES ASSUME LogInv, [Next]_vars PROVE Log!Next \/ UNCHANGED Log!logVars
  OBVIOUS
<1>1. CASE Quiet
  BY <1>1, LogStutters DEF Quiet
<1>2. ASSUME NEW p \in Callers, Ends(p) \/ CallNext(p)
      PROVE  Log!Next \/ UNCHANGED Log!logVars
  <2>1. CASE Leaves(p)
    BY <2>1, LogStutters DEF Leaves
  <2>2. CASE CallNext(p)
    BY <2>2, LogStutters DEF CallNext, cloudVars
  <2>3. ASSUME NEW result \in {"ok", "failed"}, Answers(p, result)
        PROVE  Log!Next
    BY <2>3, AnswerRefines
  <2> QED
    BY <1>2, <2>1, <2>2, <2>3 DEF Ends
<1>3. CASE UNCHANGED vars
  BY <1>3, LogStutters DEF vars, callVars, cloudVars
<1> QED
  BY <1>1, <1>2, <1>3, StepKinds, SubmitRefines, RecordRefines

LEMMA InitRefines == Init => Log!Init
<1> SUFFICES ASSUME Init PROVE Log!Init
  OBVIOUS
<1>1. calls = [s \in Submissions |-> "unsent"] /\ recorded = << >>
  BY DEF Init
<1> QED
  BY <1>1 DEF Log!Init, Log!Submissions, Submissions

(* However connections break, join and are replaced, however often a       *)
(* submission is retried, whatever is confirmed wrongly or late: the       *)
(* coordinator's log has each submission at most once, in the order of     *)
(* the calls, and a call of SubmitRun or SubmitRunEvent that returns       *)
(* without an error is in it.                                              *)
THEOREM LogIsImplemented == Spec => ImplementsLog
<1>1. Spec => []LogInv
  BY LogHolds
<1>2. Init => Log!Init
  BY InitRefines
<1>3. LogInv /\ [Next]_vars => [Log!Next]_(Log!logVars)
  BY StepRefines
<1> QED
  BY <1>1, <1>2, <1>3, PTL DEF Spec, ImplementsLog, Log!Spec

-----------------------------------------------------------------------------
(* No stray connection *)

(* A caller holds the lock at these places, and its new connection at the  *)
(* last three; once it replaces the current connection, that one is closed. *)
Holding == {"late", "dial", "join", "query", "install"}
SettingUp == {"join", "query", "install"}

LinkStates == {"none", "up", "down"}

StrayTypes ==
  /\ pc = [p \in Callers |-> pc[p]]
  /\ held \in [Callers -> Conns \union {None}]
  /\ link \in [Conns -> LinkStates]
  /\ done \in [Conns -> BOOLEAN]
  /\ current \in Conns
  /\ lock \in Callers \union {None}

Placed(p) ==
  /\ pc[p] \in Holding <=> lock = p
  /\ pc[p] \in SettingUp <=> held[p] # None
  /\ lock = p /\ pc[p] # "late" => done[current]

StrayInv ==
  /\ StrayTypes
  /\ \A p \in Callers : Placed(p)
  /\ NoStrayConnection

LEMMA NoneApart == None \notin Callers /\ None \notin Conns
  BY ShareChannelAssumption DEF Callers, Conns

(* Connections are closed, never opened again.                             *)
Closing ==
  /\ link' \in [Conns -> LinkStates]
  /\ done' \in [Conns -> BOOLEAN]
  /\ \A c \in Conns : done[c] => done'[c]
  /\ \A c \in Conns : link'[c] # "none" => link[c] # "none" \/ done'[c]

LEMMA ClosesOne ==
  ASSUME StrayTypes, NEW c \in Conns, fail(c) \/ close(c)
  PROVE  Closing /\ done'[c]
<1>1. link' = [link EXCEPT ![c] = "down"] /\ done' = [done EXCEPT ![c] = TRUE]
  BY DEF fail, close
<1>2. done' \in [Conns -> BOOLEAN] /\ done'[c] /\ \A b \in Conns : done[b] => done'[b]
  BY <1>1 DEF StrayTypes
<1>3. /\ link' \in [Conns -> LinkStates]
      /\ \A b \in Conns : b # c => link'[b] = link[b]
  BY <1>1 DEF StrayTypes, LinkStates
<1> QED
  BY <1>2, <1>3 DEF Closing

LEMMA ClosesNone ==
  ASSUME StrayTypes, UNCHANGED <<link, done>>
  PROVE  Closing
  BY DEF StrayTypes, Closing

(* The lock and the connections in use stay as they are.                   *)
LEMMA CalmKeeps ==
  ASSUME StrayInv, Closing, UNCHANGED <<lock, current, held>>,
         pc' = [p \in Callers |-> pc'[p]],
         \A p \in Callers :
           \/ pc'[p] = pc[p]
           \/ pc[p] \notin Holding /\ pc'[p] \notin Holding
           \/ pc[p] \in SettingUp /\ pc'[p] \in SettingUp
  PROVE  StrayInv'
<1>1. StrayTypes'
  BY DEF StrayInv, StrayTypes, Closing
<1>2. ASSUME NEW p \in Callers
      PROVE  Placed(p)'
  <2>1. Placed(p) /\ current \in Conns
    BY DEF StrayInv, StrayTypes
  <2>2. done[current] => done'[current']
    BY <2>1 DEF Closing
  <2> QED
    BY <2>1, <2>2 DEF Placed, Holding, SettingUp
<1>3. NoStrayConnection'
  <2>1. \A c \in Conns : link'[c] # "none" /\ ~done'[c] => link[c] # "none" /\ ~done[c]
    BY DEF Closing
  <2> QED
    BY <2>1 DEF StrayInv, NoStrayConnection
<1> QED
  BY <1>1, <1>2, <1>3 DEF StrayInv

(* A caller that does not hold the lock.                                   *)
LEMMA MoveKeeps ==
  ASSUME StrayInv, NEW p \in Callers, NEW l, l \notin Holding,
         pc[p] \notin Holding, Goto(p, l),
         \/ UNCHANGED held
         \/ held' = [held EXCEPT ![p] = None],
         UNCHANGED <<lock, current, link, done>>
  PROVE  StrayInv'
<1>1. StrayTypes /\ Placed(p)
  BY DEF StrayInv
<1>2. /\ pc' = [q \in Callers |-> pc'[q]] /\ pc'[p] = l
      /\ \A q \in Callers : q # p => pc'[q] = pc[q]
  BY <1>1 DEF StrayTypes, Goto
<1>3. UNCHANGED held
  <2>1. held[p] = None
    BY <1>1 DEF Placed, Holding, SettingUp
  <2> QED
    BY <1>1, <2>1 DEF StrayTypes
<1> QED
  BY <1>1, <1>2, <1>3, ClosesNone, CalmKeeps

(* A caller gives the lock back: its new connection is the current one, or *)
(* closed, or it has none.                                                 *)
LEMMA ReleaseKeeps ==
  ASSUME StrayInv, NEW p \in Callers, NEW l, l \notin Holding,
         pc[p] \in Holding, Goto(p, l), Unlock,
         held' = [held EXCEPT ![p] = None], Closing,
         \/ UNCHANGED current /\ (held[p] # None => done'[held[p]])
         \/ pc[p] = "install" /\ current' = held[p]
  PROVE  StrayInv'
<1>1. StrayTypes /\ Placed(p) /\ lock = p /\ \A q \in Callers : Placed(q)
  BY DEF StrayInv, Placed
<1>2. /\ pc' = [q \in Callers |-> pc'[q]] /\ pc'[p] = l
      /\ \A q \in Callers : q # p => pc'[q] = pc[q]
  BY <1>1 DEF StrayTypes, Goto
<1>3. /\ held' \in [Callers -> Conns \union {None}] /\ held'[p] = None
      /\ \A q \in Callers : q # p => held'[q] = held[q]
  BY <1>1 DEF StrayTypes
<1>4. current' \in Conns
  BY <1>1 DEF StrayTypes, Placed, SettingUp
<1>5. StrayTypes'
  BY <1>2, <1>3, <1>4 DEF StrayTypes, Closing, Unlock
<1>6. ASSUME NEW q \in Callers
      PROVE  Placed(q)'
  <2>1. lock' = None /\ None # q
    BY NoneApart DEF Unlock
  <2>2. Placed(q)
    BY <1>1
  <2>3. CASE q = p
    BY <1>2, <1>3, <2>1, <2>3 DEF Placed, Holding, SettingUp
  <2>4. CASE q # p
    BY <1>1, <1>2, <1>3, <2>1, <2>2, <2>4 DEF Placed
  <2> QED
    BY <2>3, <2>4
<1>7. ASSUME NEW c \in Conns, link'[c] # "none", ~done'[c]
      PROVE  c = current'
  <2>1. link[c] # "none" /\ ~done[c]
    BY <1>7 DEF Closing
  <2>2. c = current \/ held[p] = c
    BY <1>1, <2>1 DEF StrayInv, NoStrayConnection
  <2>3. CASE UNCHANGED current /\ (held[p] # None => done'[held[p]])
    BY <1>7, <2>2, <2>3, NoneApart
  <2>4. CASE pc[p] = "install" /\ current' = held[p]
    <3>1. done[current]
      BY <1>1, <2>4 DEF Placed
    <3> QED
      BY <2>1, <2>2, <2>4, <3>1
  <2> QED
    BY <2>3, <2>4
<1>8. NoStrayConnection'
  BY <1>7 DEF NoStrayConnection
<1> QED
  BY <1>5, <1>6, <1>8 DEF StrayInv

(* It takes the lock, and closes the current connection if it replaces it. *)
LEMMA TakeKeeps ==
  ASSUME StrayInv, NEW p \in Callers, lock = None, pc[p] = "lock", lock' = p,
         UNCHANGED <<held, current>>,
         \/ Goto(p, "dial") /\ close(current)
         \/ Goto(p, "late") /\ UNCHANGED <<link, done>>
  PROVE  StrayInv'
<1>1. StrayTypes /\ Placed(p) /\ \A q \in Callers : Placed(q)
  BY DEF StrayInv
<1>2. Closing /\ (Goto(p, "dial") => done'[current] \/ Goto(p, "late"))
  BY <1>1, ClosesOne, ClosesNone DEF StrayTypes
<1>3. PICK l \in {"dial", "late"} : Goto(p, l) /\ (l = "dial" => done'[current])
  BY <1>1, ClosesOne DEF StrayTypes
<1>4. /\ pc' = [q \in Callers |-> pc'[q]] /\ pc'[p] = l
      /\ \A q \in Callers : q # p => pc'[q] = pc[q]
  BY <1>1, <1>3 DEF StrayTypes, Goto
<1>5. StrayTypes'
  BY <1>1, <1>2, <1>4 DEF StrayTypes, Closing
<1>6. ASSUME NEW q \in Callers
      PROVE  Placed(q)'
  <2>1. Placed(q) /\ lock # q
    BY <1>1, NoneApart
  <2>2. CASE q = p
    BY <1>1, <1>3, <1>4, <2>2 DEF Placed, Holding, SettingUp
  <2>3. CASE q # p
    BY <1>4, <2>1, <2>3 DEF Placed
  <2> QED
    BY <2>2, <2>3
<1>7. NoStrayConnection'
  BY <1>2 DEF StrayInv, NoStrayConnection, Closing
<1> QED
  BY <1>5, <1>6, <1>7 DEF StrayInv

(* It opens a connection of its own; it closes that one and tries again.   *)
LEMMA DialKeeps ==
  ASSUME StrayInv, NEW p \in Callers, Dial(p)
  PROVE  StrayInv'
<1>1. StrayTypes /\ Placed(p) /\ lock = p /\ \A q \in Callers : Placed(q)
  BY DEF StrayInv, Placed, Dial, Holding
<1>2. PICK c \in Conns : /\ link' = [link EXCEPT ![c] = "up"]
                         /\ held' = [held EXCEPT ![p] = c]
  BY DEF Dial
<1>3. /\ pc' = [q \in Callers |-> pc'[q]] /\ pc'[p] = "join"
      /\ \A q \in Callers : q # p => pc'[q] = pc[q]
  BY <1>1 DEF StrayTypes, Dial, Goto
<1>4. /\ held' \in [Callers -> Conns \union {None}] /\ held'[p] = c
      /\ \A q \in Callers : q # p => held'[q] = held[q]
  BY <1>1, <1>2 DEF StrayTypes
<1>5. /\ link' \in [Conns -> LinkStates]
      /\ \A b \in Conns : b # c => link'[b] = link[b]
  BY <1>1, <1>2 DEF StrayTypes, LinkStates
<1>6. UNCHANGED <<lock, current, done>> /\ pc[p] = "dial" /\ held[p] = None
  BY <1>1 DEF Dial, chanVars, Placed, SettingUp
<1>7. StrayTypes'
  BY <1>1, <1>3, <1>4, <1>5, <1>6 DEF StrayTypes
<1>8. ASSUME NEW q \in Callers
      PROVE  Placed(q)'
  <2>1. CASE q = p
    BY <1>1, <1>3, <1>4, <1>6, <2>1, NoneApart DEF Placed, Holding, SettingUp
  <2>2. CASE q # p
    BY <1>1, <1>3, <1>4, <1>6, <2>2 DEF Placed
  <2> QED
    BY <2>1, <2>2
<1>9. NoStrayConnection'
  <2>1. ASSUME NEW b \in Conns, link'[b] # "none", ~done'[b]
        PROVE  b = current' \/ (lock' # None /\ held'[lock'] = b)
    <3>1. CASE b = c
      BY <1>1, <1>4, <1>6, <3>1, NoneApart
    <3>2. CASE b # c
      BY <1>1, <1>5, <1>6, <2>1, <3>2, NoneApart DEF StrayInv, NoStrayConnection
    <3> QED
      BY <3>1, <3>2
  <2> QED
    BY <2>1 DEF NoStrayConnection
<1> QED
  BY <1>7, <1>8, <1>9 DEF StrayInv

LEMMA RetryKeeps ==
  ASSUME StrayInv, NEW p \in Callers, Retry(p)
  PROVE  StrayInv'
<1>1. StrayTypes /\ Placed(p) /\ lock = p /\ \A q \in Callers : Placed(q)
  BY DEF StrayInv, Placed, Retry, Holding
<1>2. held[p] \in Conns /\ pc[p] \in SettingUp /\ close(held[p])
  BY <1>1 DEF StrayTypes, Placed, Retry, SettingUp
<1>3. Closing /\ done'[held[p]]
  BY <1>1, <1>2, ClosesOne
<1>4. /\ pc' = [q \in Callers |-> pc'[q]] /\ pc'[p] = "dial"
      /\ \A q \in Callers : q # p => pc'[q] = pc[q]
  BY <1>1 DEF StrayTypes, Retry, Goto
<1>5. /\ held' \in [Callers -> Conns \union {None}] /\ held'[p] = None
      /\ \A q \in Callers : q # p => held'[q] = held[q]
  BY <1>1 DEF StrayTypes, Retry
<1>6. UNCHANGED <<lock, current>>
  BY DEF Retry, chanVars
<1>7. StrayTypes'
  BY <1>1, <1>3, <1>4, <1>5, <1>6 DEF StrayTypes, Closing
<1>8. ASSUME NEW q \in Callers
      PROVE  Placed(q)'
  <2>1. done[current] /\ done'[current]
    BY <1>1, <1>2, <1>3 DEF Placed, StrayTypes, Closing, SettingUp
  <2>2. CASE q = p
    BY <1>1, <1>4, <1>5, <1>6, <2>1, <2>2 DEF Placed, Holding, SettingUp
  <2>3. CASE q # p
    BY <1>1, <1>4, <1>5, <1>6, <2>1, <2>3 DEF Placed
  <2> QED
    BY <2>2, <2>3
<1>9. NoStrayConnection'
  <2>1. ASSUME NEW b \in Conns, link'[b] # "none", ~done'[b]
        PROVE  b = current'
    <3>1. link[b] # "none" /\ ~done[b] /\ b # held[p]
      BY <1>3, <2>1 DEF Closing
    <3> QED
      BY <1>1, <1>6, <3>1 DEF StrayInv, NoStrayConnection
  <2> QED
    BY <2>1 DEF NoStrayConnection
<1> QED
  BY <1>7, <1>8, <1>9 DEF StrayInv

(* A return is at "idle"; an error too.                                    *)
LEMMA ErrorLeaves == \A p : ReturnError(p) => Leave(p)
  BY DEF ReturnError, ReturnResult, ReturnUpdate

LEMMA CallsKeep ==
  ASSUME StrayInv, NEW p \in Callers,
         \/ CallNext(p) \/ Look(p) \/ UseCurrent(p) \/ TakeMessage(p) \/ TakeFailure(p)
         \/ StopWaiting(p) \/ Push(p) \/ Acknowledged(p) \/ Disconnected(p) \/ AbandonPush(p)
         \/ (\E n \in 1 .. MaxSubmissions : CallSubmit(p, n))
  PROVE  StrayInv'
<1>1. UNCHANGED <<lock, current, link, done>>
  BY DEF CallNext, Look, UseCurrent, TakeMessage, TakeFailure, StopWaiting, Push, Acknowledged,
         Disconnected, AbandonPush, CallSubmit, chanVars, connVars
<1>2. pc[p] \notin Holding
  BY DEF CallNext, Look, UseCurrent, TakeMessage, TakeFailure, StopWaiting, Push, Acknowledged,
         Disconnected, AbandonPush, CallSubmit, Holding
<1>3. \A l \in {"idle", "look", "select", "push", "reply", "lock"} : l \notin Holding
  BY DEF Holding
<1>4. ASSUME Leave(p)
      PROVE  StrayInv'
  BY <1>1, <1>2, <1>3, <1>4, MoveKeeps DEF Leave
<1>5. ASSUME NEW l \in {"look", "select", "push", "reply", "lock"}, Goto(p, l), UNCHANGED held
      PROVE  StrayInv'
  BY <1>1, <1>2, <1>3, <1>5, MoveKeeps
<1>6. CASE CallNext(p) \/ TakeFailure(p) \/ Push(p) \/ Disconnected(p)
           \/ (\E n \in 1 .. MaxSubmissions : CallSubmit(p, n))
  BY <1>5, <1>6 DEF CallNext, TakeFailure, Push, Disconnected, CallSubmit
<1>7. CASE Look(p)
  BY <1>4, <1>5, <1>7 DEF Look, ReturnUpdate
<1>8. CASE TakeMessage(p)
  BY <1>4, <1>5, <1>8 DEF TakeMessage, ReturnUpdate
<1>9. CASE StopWaiting(p) \/ Acknowledged(p) \/ AbandonPush(p)
  BY <1>4, <1>9, ErrorLeaves DEF StopWaiting, Acknowledged, AbandonPush, ReturnResult
<1>10. CASE UseCurrent(p)
  <2>1. pc' = pc /\ held' = held
    BY <1>10 DEF UseCurrent
  <2>2. pc' = [q \in Callers |-> pc'[q]] /\ Closing
    BY <1>1, <2>1, ClosesNone DEF StrayInv, StrayTypes
  <2> QED
    BY <1>1, <2>1, <2>2, CalmKeeps
<1> QED
  BY <1>6, <1>7, <1>8, <1>9, <1>10

(* Who replaces the connection, and who comes second.                      *)
LEMMA ReplacingKeeps ==
  ASSUME StrayInv, NEW p \in Callers,
         \/ Lock(p) \/ LatePending(p) \/ LatePendingFails(p)
         \/ Join(p) \/ Query(p) \/ Install(p) \/ GiveUp(p)
  PROVE  StrayInv'
<1>0. StrayTypes /\ Placed(p)
  BY DEF StrayInv
<1>1. "idle" \notin Holding /\ "push" \notin Holding
  BY DEF Holding
<1>2. CASE Lock(p)
  <2>1. pc[p] = "lock" /\ lock = None /\ UNCHANGED current
    BY <1>2 DEF Lock
  <2>2. CASE /\ close(current) /\ lock' = p /\ Goto(p, "dial") /\ UNCHANGED held
    BY <2>1, <2>2, TakeKeeps
  <2>3. CASE /\ lock' = p /\ Goto(p, "late") /\ UNCHANGED <<held, link, done>>
    BY <2>1, <2>3, TakeKeeps
  <2>4. CASE Leave(p) /\ UNCHANGED <<lock, link, done>>
    BY <1>1, <2>1, <2>4, MoveKeeps DEF Leave, Holding
  <2> QED
    BY <1>2, <2>2, <2>3, <2>4 DEF Lock, ReturnUpdate
<1>3. CASE LatePending(p) \/ Install(p)
  <2>1. PICK ms : Recover(p, ms)
    BY <1>3 DEF LatePending, Install
  <2>2. PICK l \in {"idle", "push"} :
          Goto(p, l) /\ Unlock /\ held' = [held EXCEPT ![p] = None]
    BY <2>1 DEF Recover, ReturnUpdate, Leave
  <2>3. UNCHANGED <<link, done>> /\ pc[p] \in Holding
    BY <1>3 DEF LatePending, Install, connVars, Holding
  <2>4. \/ UNCHANGED current /\ held[p] = None
        \/ pc[p] = "install" /\ current' = held[p]
    BY <1>0, <1>3 DEF LatePending, Install, Placed, SettingUp
  <2> QED
    BY <1>0, <1>1, <2>2, <2>3, <2>4, ClosesNone, ReleaseKeeps
<1>4. CASE LatePendingFails(p) \/ GiveUp(p)
  <2>1. /\ Goto(p, "idle") /\ Unlock /\ held' = [held EXCEPT ![p] = None]
        /\ UNCHANGED current /\ pc[p] \in Holding
    BY <1>4, ErrorLeaves DEF LatePendingFails, GiveUp, Leave, Holding
  <2>2. Closing /\ (held[p] # None => done'[held[p]])
    <3>1. CASE LatePendingFails(p)
      BY <1>0, <3>1, ClosesNone DEF LatePendingFails, connVars, Placed, SettingUp
    <3>2. CASE GiveUp(p)
      BY <1>0, <3>2, ClosesNone, ClosesOne DEF GiveUp, StrayTypes
    <3> QED
      BY <1>4, <3>1, <3>2
  <2> QED
    BY <1>1, <2>1, <2>2, ReleaseKeeps
<1>5. CASE Join(p) \/ Query(p)
  <2>1. PICK l \in SettingUp : Goto(p, l)
    BY <1>5 DEF Join, Query, SettingUp
  <2>2. UNCHANGED <<lock, current, held, link, done>> /\ pc[p] \in SettingUp
    BY <1>5 DEF Join, Query, SettingUp, chanVars, connVars
  <2>3. /\ pc' = [q \in Callers |-> pc'[q]] /\ pc'[p] = l
        /\ \A q \in Callers : q # p => pc'[q] = pc[q]
    BY <1>0, <2>1 DEF StrayTypes, Goto
  <2> QED
    BY <1>0, <2>2, <2>3, ClosesNone, CalmKeeps
<1> QED
  BY <1>2, <1>3, <1>4, <1>5

(* Connections, the coordinator, the network, Close and contexts.          *)
LEMMA AroundKeeps ==
  ASSUME StrayInv,
         \/ \E c \in Conns : ReaderStep(c) \/ HeartbeatFails(c) \/ CloudStep(c) \/ Break(c)
         \/ \E m \in Messages : Post(m) \/ PostAgain(m)
         \/ \E p \in Callers : ContextEnds(p)
         \/ Close
         \/ UNCHANGED vars
  PROVE  StrayInv'
<1>0. StrayTypes
  BY DEF StrayInv
<1>1. UNCHANGED <<pc, held, lock, current>>
  BY DEF ReaderStep, HeartbeatFails, CloudStep, Break, Read, Enqueue, StopReading, ReadFails,
         CloudJoins, CloudRecords, Post, PostAgain, ContextEnds, Close, vars, callVars, chanVars
<1>2. Closing
  <2>1. CASE \E c \in Conns : ReadFails(c) \/ HeartbeatFails(c)
    BY <1>0, <2>1, ClosesOne DEF ReadFails, HeartbeatFails
  <2>2. CASE Close
    BY <1>0, <2>2, ClosesOne DEF Close, StrayTypes
  <2>3. ASSUME NEW c \in Conns, Break(c)
        PROVE  Closing
    <3>1. link' = [link EXCEPT ![c] = "down"] /\ link[c] # "none" /\ UNCHANGED done
      BY <2>3 DEF Break
    <3>2. /\ link' \in [Conns -> LinkStates]
          /\ \A b \in Conns : b # c => link'[b] = link[b]
      BY <1>0, <3>1 DEF StrayTypes, LinkStates
    <3> QED
      BY <1>0, <3>1, <3>2 DEF Closing, StrayTypes
  <2>4. ASSUME UNCHANGED <<link, done>>
        PROVE  Closing
    BY <1>0, <2>4, ClosesNone
  <2>5. \/ \E c \in Conns : ReadFails(c) \/ HeartbeatFails(c) \/ Break(c)
        \/ Close
        \/ UNCHANGED <<link, done>>
    BY DEF ReaderStep, CloudStep, Read, Enqueue, StopReading,
           CloudJoins, CloudRecords, Post, PostAgain, ContextEnds, vars, connVars
  <2> QED
    BY <2>1, <2>2, <2>3, <2>4, <2>5
<1>3. pc' = [p \in Callers |-> pc'[p]]
  BY <1>0, <1>1 DEF StrayTypes
<1> QED
  BY <1>1, <1>2, <1>3, CalmKeeps

LEMMA StrayInit == Init => StrayInv
<1> SUFFICES ASSUME Init PROVE StrayInv
  OBVIOUS
<1>1. /\ pc = [p \in Callers |-> "idle"] /\ held = [p \in Callers |-> None]
      /\ link = [c \in Conns |-> IF c = 1 THEN "up" ELSE "none"]
      /\ done = [c \in Conns |-> FALSE] /\ current = 1 /\ lock = None
  BY DEF Init
<1>2. 1 \in Conns
  BY ShareChannelAssumption DEF Conns
<1>3. done \in [Conns -> BOOLEAN] /\ link \in [Conns -> LinkStates]
  BY <1>1 DEF LinkStates
<1>4. StrayTypes
  BY <1>1, <1>2, <1>3 DEF StrayTypes
<1>5. \A p \in Callers : Placed(p)
  BY <1>1, NoneApart DEF Placed, Holding, SettingUp
<1>6. NoStrayConnection
  BY <1>1 DEF NoStrayConnection
<1> QED
  BY <1>4, <1>5, <1>6 DEF StrayInv

LEMMA StrayNext == StrayInv /\ [Next]_vars => StrayInv'
<1> SUFFICES ASSUME StrayInv, [Next]_vars PROVE StrayInv'
  OBVIOUS
<1>1. ASSUME NEW p \in Callers, CallStep(p)
      PROVE  StrayInv'
  BY <1>1, CallsKeep, ReplacingKeeps, DialKeeps, RetryKeeps DEF CallStep
<1>2. ASSUME NEW p \in Submitters, NEW n \in 1 .. MaxSubmissions, CallSubmit(p, n)
      PROVE  StrayInv'
  BY <1>2, CallsKeep DEF Callers
<1> QED
  BY <1>1, <1>2, CallsKeep, AroundKeeps DEF Next

(* However joins and Pending fail, whoever comes second to reconnect and   *)
(* whatever Close and the read loops do meanwhile: a connection that       *)
(* connect opened is closed, or current, or being set up by the caller     *)
(* that holds reconnectMu.                                                 *)
THEOREM StrayIsClosed == Spec => []NoStrayConnection
<1>1. StrayInv => NoStrayConnection
  BY DEF StrayInv
<1> QED
  BY <1>1, StrayInit, StrayNext, PTL DEF Spec

-----------------------------------------------------------------------------
(* Nothing missed *)

Notice(m) == [type |-> "message", of |-> m]
JoinOK    == [type |-> "ok", of |-> JoinRef]

(* A message somebody was told of, or will be.                             *)
Kept(m) == closed \/ m \in delivered \/ (\E i \in DOMAIN recoveries : m \in recoveries[i])

(* It comes on connection c, or c is broken and will be replaced.          *)
Comes(m, c) ==
  \/ link[c] = "down"
  \/ reader[c] = m
  \/ In(inbound[c], m)
  \/ In(down[c], Notice(m))

MissTypes ==
  /\ reader = [c \in Conns |-> reader[c]]
  /\ inbound \in [Conns -> Seq(Messages)]
  /\ recoveries \in Seq(SUBSET Messages)
  /\ answer = [p \in Callers |-> answer[p]]
  /\ posted \subseteq Messages
  /\ joined \subseteq Conns
  /\ seen \subseteq delivered

(* A new connection that joined misses nothing that Pending did not tell.  *)
SetUp(p) ==
  /\ pc[p] \in SettingUp => link[held[p]] # "none"
  /\ pc[p] = "join" /\ wait[p] = "ok" => held[p] \in joined
  /\ pc[p] \in {"query", "install"} => held[p] \in joined
  /\ pc[p] = "install" => /\ answer[p] \subseteq Messages
                          /\ \A m \in posted : m \in answer[p] \/ Kept(m) \/ Comes(m, held[p])

Links ==
  /\ current \in joined /\ link[current] # "none"
  /\ \A c \in Conns : In(down[c], JoinOK) => c \in joined
  /\ \A c \in Conns : link[c] = "none" => reader[c] = "none"

MissInv ==
  /\ MissTypes
  /\ Links
  /\ \A p \in Callers : SetUp(p)
  /\ \A m \in posted : Kept(m) \/ Comes(m, current)

ChannelInv == LogInv /\ StrayInv /\ MissInv

LEMMA MessagesApart == \A m \in Messages : m \notin {"none", "reading", "ended"}
  BY ShareChannelAssumption

(* What a step may do to messages and connections,                         *)
Flows ==
  /\ MissTypes' /\ UNCHANGED current
  /\ joined \subseteq joined'
  /\ \A c \in Conns : In(down'[c], JoinOK) => c \in joined'
  /\ \A c \in Conns : /\ link[c] # "none" => link'[c] # "none"
                      /\ link'[c] = "none" => reader'[c] = "none"
  /\ \A m \in Messages : Kept(m) => Kept(m)'
  /\ \A m \in Messages, c \in Conns :
       Comes(m, c) /\ link[c] # "none" => Comes(m, c)' \/ Kept(m)'
  /\ \A m \in posted', c \in joined : m \in posted \/ link[c] = "none" \/ Comes(m, c)'

(* and to a caller that does not go on setting up.                         *)
Stays(p) ==
  \/ pc'[p] \notin SettingUp
  \/ /\ pc'[p] = pc[p] /\ held'[p] = held[p] /\ answer'[p] = answer[p]
     /\ wait'[p] = "ok" => wait[p] = "ok"

LEMMA FlowKeeps ==
  ASSUME ChannelInv, Flows, \A p \in Callers : Stays(p) \/ SetUp(p)'
  PROVE  MissInv'
<1>1. /\ posted' \subseteq Messages /\ current \in Conns /\ Links
      /\ \A p \in Callers : SetUp(p) /\ Placed(p) /\ held[p] \in Conns \union {None}
      /\ joined \subseteq joined'
  BY DEF ChannelInv, MissInv, Flows, MissTypes, StrayInv, StrayTypes
<1>2. Links'
  BY <1>1 DEF Links, Flows
<1>3. ASSUME NEW c \in Conns, c \in joined, link[c] # "none",
             NEW m \in posted', m \in posted => Kept(m) \/ Comes(m, c)
      PROVE  Kept(m)' \/ Comes(m, c)'
  <2>1. m \in Messages
    BY <1>1
  <2> QED
    BY <1>3, <2>1 DEF Flows
<1>4. \A m \in posted' : Kept(m)' \/ Comes(m, current)'
  <2>1. PICK c \in Conns : c = current
    BY <1>1
  <2>2. \A m \in posted' : Kept(m)' \/ Comes(m, c)'
    BY <1>1, <1>3, <2>1 DEF ChannelInv, MissInv, Links
  <2>3. c = current'
    BY <2>1 DEF Flows
  <2> QED
    BY <2>2, <2>3
<1>5. ASSUME NEW p \in Callers, Stays(p), pc'[p] \in SettingUp
      PROVE  SetUp(p)'
  <2>1. /\ pc'[p] = pc[p] /\ held'[p] = held[p] /\ answer'[p] = answer[p]
        /\ wait'[p] = "ok" => wait[p] = "ok"
    BY <1>5 DEF Stays
  <2>0. PICK h : h = held[p] /\ h = held'[p]
    BY <2>1
  <2>2. SetUp(p) /\ h \in Conns /\ link[h] # "none" /\ link'[h] # "none"
    BY <1>1, <1>5, <2>0, <2>1 DEF SetUp, Flows, Placed
  <2>3. ASSUME pc[p] = "install"
        PROVE  \A m \in posted' : m \in answer'[p] \/ Kept(m)' \/ Comes(m, h)'
    <3> SUFFICES ASSUME NEW m \in posted', m \notin answer[p]
                 PROVE  Kept(m)' \/ Comes(m, h)'
      BY <2>1
    <3>1. h \in joined /\ (m \in posted => Kept(m) \/ Comes(m, h))
      BY <2>0, <2>2, <2>3 DEF SetUp
    <3> QED
      BY <1>3, <2>2, <3>1
  <2> HIDE DEF Comes, Kept
  <2> QED
    BY <1>1, <2>0, <2>1, <2>2, <2>3 DEF SetUp
<1>6. ASSUME NEW p \in Callers, pc'[p] \notin SettingUp
      PROVE  SetUp(p)'
  BY <1>6 DEF SetUp, SettingUp
<1> QED
  BY <1>2, <1>4, <1>5, <1>6 DEF MissInv, Flows

(* The messages and connections of a step that leaves them alone.          *)
Unmoved == UNCHANGED <<current, joined, down, link, reader, inbound, posted, closed, seen>>

LEMMA UnmovedFlows ==
  ASSUME ChannelInv, Unmoved, answer' = [p \in Callers |-> answer'[p]],
         recoveries' \in Seq(SUBSET Messages), seen' \subseteq delivered',
         \A m \in Messages : Kept(m) => Kept(m)'
  PROVE  Flows
<1>1. MissTypes /\ Links
  BY DEF ChannelInv, MissInv
<1>2. MissTypes'
  BY <1>1 DEF MissTypes, Unmoved
<1>3. \A m, c : Comes(m, c) => Comes(m, c)'
  BY DEF Comes, Unmoved
<1> QED
  BY <1>1, <1>2, <1>3 DEF Flows, Links, Unmoved

(* Told to a caller, or queued for the next one.                           *)
LEMMA RecoveriesKept ==
  ASSUME ChannelInv, UNCHANGED closed, delivered \subseteq delivered',
         \/ UNCHANGED recoveries
         \/ /\ recoveries # << >>
            /\ recoveries' = Tail(recoveries)
            /\ Head(recoveries) \subseteq delivered'
         \/ \E ms \in SUBSET Messages : recoveries' = Append(recoveries, ms)
  PROVE  /\ recoveries' \in Seq(SUBSET Messages)
         /\ \A m : Kept(m) => Kept(m)'
<1>1. recoveries \in Seq(SUBSET Messages)
  BY DEF ChannelInv, MissInv, MissTypes
<1>2. CASE UNCHANGED recoveries
  BY <1>1, <1>2 DEF Kept
<1>3. CASE /\ recoveries # << >>
           /\ recoveries' = Tail(recoveries)
           /\ Head(recoveries) \subseteq delivered'
  <2>1. /\ Tail(recoveries) \in Seq(SUBSET Messages)
        /\ \A i \in DOMAIN recoveries : recoveries[i] = Head(recoveries)
             \/ (\E j \in DOMAIN Tail(recoveries) : Tail(recoveries)[j] = recoveries[i])
    <3>1. /\ DOMAIN Tail(recoveries) = 1 .. (Len(recoveries) - 1) /\ Len(recoveries) \in Nat \ {0}
          /\ DOMAIN recoveries = 1 .. Len(recoveries)
          /\ Tail(recoveries) \in Seq(SUBSET Messages) /\ Head(recoveries) = recoveries[1]
          /\ \A i \in 1 .. (Len(recoveries) - 1) : Tail(recoveries)[i] = recoveries[i + 1]
      BY <1>1, <1>3
    <3>2. \A i \in 1 .. Len(recoveries) : i = 1 \/ (i - 1 \in 1 .. (Len(recoveries) - 1)
                                                    /\ Tail(recoveries)[i - 1] = recoveries[i])
      BY <3>1
    <3> QED
      BY <3>1, <3>2
  <2> QED
    BY <1>3, <2>1 DEF Kept
<1>4. ASSUME NEW ms \in SUBSET Messages, recoveries' = Append(recoveries, ms)
      PROVE  /\ recoveries' \in Seq(SUBSET Messages)
             /\ \A m : Kept(m) => Kept(m)'
  <2>1. /\ recoveries' \in Seq(SUBSET Messages)
        /\ \A i \in DOMAIN recoveries : i \in DOMAIN recoveries' /\ recoveries'[i] = recoveries[i]
    BY <1>1, <1>4
  <2> QED
    BY <2>1 DEF Kept
<1> QED
  BY <1>2, <1>3, <1>4

(* A caller that goes where it sets nothing up.                            *)
LEMMA GotoStays ==
  ASSUME ChannelInv, NEW p \in Callers, NEW l, l \notin SettingUp, Goto(p, l),
         UNCHANGED held \/ held' = [held EXCEPT ![p] = None],
         UNCHANGED wait \/ wait' = [wait EXCEPT ![p] = "none"],
         UNCHANGED answer \/ answer' = [answer EXCEPT ![p] = {}]
  PROVE  /\ answer' = [q \in Callers |-> answer'[q]]
         /\ \A q \in Callers : Stays(q)
<1>1. /\ pc = [q \in Callers |-> pc[q]] /\ wait = [q \in Callers |-> wait[q]]
      /\ held \in [Callers -> Conns \union {None}] /\ answer = [q \in Callers |-> answer[q]]
  BY DEF ChannelInv, LogInv, LogTypes, StrayInv, StrayTypes, MissInv, MissTypes
<1>2. pc'[p] \notin SettingUp /\ \A q \in Callers : q # p => pc'[q] = pc[q]
  BY <1>1 DEF Goto
<1>3. \A q \in Callers : q # p => held'[q] = held[q]
  BY <1>1
<1>4. \A q \in Callers : q # p => wait'[q] = wait[q]
  BY <1>1
<1>5. answer' = [q \in Callers |-> answer'[q]] /\ \A q \in Callers : q # p => answer'[q] = answer[q]
  BY <1>1
<1> QED
  BY <1>2, <1>3, <1>4, <1>5 DEF Stays

(* It moves nothing but what it returns or queues.                         *)
LEMMA CallerKeepsMiss ==
  ASSUME ChannelInv, NEW p \in Callers, NEW l, l \notin SettingUp, Goto(p, l),
         UNCHANGED held \/ held' = [held EXCEPT ![p] = None],
         UNCHANGED wait \/ wait' = [wait EXCEPT ![p] = "none"],
         UNCHANGED answer \/ answer' = [answer EXCEPT ![p] = {}],
         Unmoved, delivered \subseteq delivered',
         \/ UNCHANGED recoveries
         \/ /\ recoveries # << >>
            /\ recoveries' = Tail(recoveries)
            /\ Head(recoveries) \subseteq delivered'
         \/ \E ms \in SUBSET Messages : recoveries' = Append(recoveries, ms)
  PROVE  MissInv'
<1>1. /\ answer' = [q \in Callers |-> answer'[q]]
      /\ \A q \in Callers : Stays(q)
  BY GotoStays
<1>2. UNCHANGED closed /\ seen' \subseteq delivered'
  BY DEF Unmoved, ChannelInv, MissInv, MissTypes
<1>3. /\ recoveries' \in Seq(SUBSET Messages)
      /\ \A m : Kept(m) => Kept(m)'
  BY <1>2, RecoveriesKept
<1> QED
  BY <1>1, <1>2, <1>3, UnmovedFlows, FlowKeeps

LEMMA LeaveMoves ==
  ASSUME NEW p, Leave(p)
  PROVE  /\ Goto(p, "idle") /\ held' = [held EXCEPT ![p] = None]
         /\ wait' = [wait EXCEPT ![p] = "none"] /\ answer' = [answer EXCEPT ![p] = {}]
  BY DEF Leave

LEMMA ErrorGrows == \A p : ReturnError(p) => delivered \subseteq delivered'
  BY DEF ReturnError, ReturnResult, ReturnUpdate

LEMMA CallsKeepMiss ==
  ASSUME ChannelInv, NEW p \in Callers,
         \/ CallNext(p) \/ Look(p) \/ TakeFailure(p) \/ StopWaiting(p)
         \/ Push(p) \/ Acknowledged(p) \/ Disconnected(p) \/ AbandonPush(p)
         \/ (\E n \in 1 .. MaxSubmissions : CallSubmit(p, n)) \/ LatePendingFails(p)
  PROVE  MissInv'
<1>1. Unmoved
  BY DEF CallNext, Look, TakeFailure, StopWaiting, Push, Acknowledged, Disconnected, AbandonPush,
         CallSubmit, LatePendingFails, Unmoved, chanVars, connVars, cloudVars
<1>2. \A l \in {"idle", "look", "select", "push", "reply", "lock"} : l \notin SettingUp
  BY DEF SettingUp
<1>3. ASSUME Leave(p), delivered \subseteq delivered',
             \/ UNCHANGED recoveries
             \/ recoveries # << >> /\ recoveries' = Tail(recoveries)
                /\ Head(recoveries) \subseteq delivered'
      PROVE  MissInv'
  <2>1. /\ Goto(p, "idle") /\ held' = [held EXCEPT ![p] = None]
        /\ wait' = [wait EXCEPT ![p] = "none"] /\ answer' = [answer EXCEPT ![p] = {}]
    BY <1>3, LeaveMoves
  <2> QED
    BY <1>1, <1>2, <1>3, <2>1, CallerKeepsMiss
<1>4. ASSUME NEW l \in {"look", "select", "push", "reply", "lock"}, Goto(p, l),
             UNCHANGED <<held, answer, recoveries, delivered>>,
             UNCHANGED wait \/ wait' = [wait EXCEPT ![p] = "none"]
      PROVE  MissInv'
  BY <1>1, <1>2, <1>4, CallerKeepsMiss
<1>5. CASE CallNext(p) \/ TakeFailure(p) \/ Push(p) \/ Disconnected(p)
           \/ (\E n \in 1 .. MaxSubmissions : CallSubmit(p, n))
  BY <1>4, <1>5 DEF CallNext, TakeFailure, Push, Disconnected, CallSubmit, chanVars, restVars
<1>6. CASE Look(p)
  <2>1. CASE recoveries # << >>
    BY <1>3, <1>6, <2>1 DEF Look, ReturnUpdate
  <2>2. CASE recoveries = << >>
    BY <1>4, <1>6, <2>2 DEF Look
  <2> QED
    BY <2>1, <2>2
<1>7. CASE StopWaiting(p) \/ AbandonPush(p) \/ LatePendingFails(p)
  BY <1>3, <1>7, ErrorLeaves, ErrorGrows DEF StopWaiting, AbandonPush, LatePendingFails, chanVars
<1>8. CASE Acknowledged(p)
  BY <1>3, <1>8 DEF Acknowledged, ReturnResult, chanVars
<1> QED
  BY <1>5, <1>6, <1>7, <1>8

(* Nobody moves: a context ends, or a caller reads the current connection. *)
LEMMA StillKeepsMiss ==
  ASSUME ChannelInv, Unmoved, UNCHANGED <<pc, held, answer, wait, delivered, recoveries>>
  PROVE  MissInv'
<1>1. answer' = [p \in Callers |-> answer'[p]] /\ seen' \subseteq delivered' /\ UNCHANGED closed
  BY DEF ChannelInv, MissInv, MissTypes, Unmoved
<1>2. /\ recoveries' \in Seq(SUBSET Messages)
      /\ \A m : Kept(m) => Kept(m)'
  BY <1>1, RecoveriesKept
<1>3. \A p \in Callers : Stays(p)
  BY DEF Stays
<1> QED
  BY <1>1, <1>2, <1>3, UnmovedFlows, FlowKeeps

(* The recovery of one that came second.                                   *)
LEMMA LateKeepsMiss ==
  ASSUME ChannelInv, NEW p \in Callers, LatePending(p)
  PROVE  MissInv'
<1>1. Unmoved /\ Recover(p, posted)
  BY DEF LatePending, Unmoved, connVars, cloudVars
<1>2. "idle" \notin SettingUp /\ "push" \notin SettingUp /\ posted \in SUBSET Messages
  BY DEF SettingUp, ChannelInv, MissInv, MissTypes
<1>3. CASE op[p] = "submit"
  BY <1>1, <1>2, <1>3, CallerKeepsMiss DEF Recover
<1>4. CASE op[p] # "submit"
  <2>1. Leave(p) /\ UNCHANGED recoveries /\ delivered \subseteq delivered'
    BY <1>1, <1>4 DEF Recover, ReturnUpdate
  <2> QED
    BY <1>1, <1>2, <2>1, LeaveMoves, CallerKeepsMiss
<1> QED
  BY <1>3, <1>4

(* The join is answered; Pending tells what happened so far.               *)
LEMMA AttemptKeepsMiss ==
  ASSUME ChannelInv, NEW p \in Callers, Join(p) \/ Query(p)
  PROVE  MissInv'
<1>1. /\ Unmoved /\ UNCHANGED <<held, wait, delivered, recoveries>>
      /\ \E l \in {"query", "install"} : Goto(p, l)
  BY DEF Join, Query, Unmoved, chanVars, connVars, cloudVars, restVars
<1>2. /\ pc = [q \in Callers |-> pc[q]] /\ answer = [q \in Callers |-> answer[q]]
      /\ posted \subseteq Messages /\ SetUp(p)
  BY DEF ChannelInv, StrayInv, StrayTypes, MissInv, MissTypes
<1>3. answer' = [q \in Callers |-> answer'[q]] /\ \A q \in Callers : q # p => answer'[q] = answer[q]
  BY <1>2 DEF Join, Query
<1>4. \A q \in Callers : q # p => pc'[q] = pc[q]
  BY <1>1, <1>2 DEF Goto
<1>5. seen' \subseteq delivered' /\ UNCHANGED closed
  BY <1>1 DEF ChannelInv, MissInv, MissTypes, Unmoved
<1>6. /\ recoveries' \in Seq(SUBSET Messages)
      /\ \A m : Kept(m) => Kept(m)'
  BY <1>1, <1>5, RecoveriesKept
<1>7. SetUp(p)'
  <2>1. UNCHANGED <<held, link, joined, posted>>
    BY <1>1 DEF Unmoved
  <2>2. CASE Join(p)
    <3>1. pc[p] = "join" /\ wait[p] = "ok" /\ pc'[p] = "query"
      BY <1>2, <2>2 DEF Join, Goto
    <3> QED
      BY <1>2, <2>1, <3>1 DEF SetUp, SettingUp
  <2>3. CASE Query(p)
    <3>1. pc[p] = "query" /\ pc'[p] = "install" /\ answer'[p] = posted
      BY <1>2, <2>3 DEF Query, Goto
    <3> QED
      BY <1>2, <2>1, <3>1 DEF SetUp, SettingUp
  <2> QED
    BY <2>2, <2>3
<1>8. \A q \in Callers : q # p => Stays(q)
  BY <1>1, <1>3, <1>4 DEF Stays
<1> QED
  BY <1>1, <1>3, <1>5, <1>6, <1>7, <1>8, UnmovedFlows, FlowKeeps

(* A connection breaks or is closed; what it still held is asked for again. *)
LEMMA DownFlows ==
  ASSUME ChannelInv, NEW c \in Conns, link' = [link EXCEPT ![c] = "down"],
         UNCHANGED reader \/ reader' = [reader EXCEPT ![c] = "ended"],
         UNCHANGED down \/ down' = [down EXCEPT ![c] = << >>],
         UNCHANGED <<current, joined, inbound, posted, seen>>,
         answer' = [p \in Callers |-> answer'[p]],
         closed => closed', delivered \subseteq delivered', UNCHANGED recoveries
  PROVE  Flows
<1>1. MissTypes /\ Links /\ link \in [Conns -> LinkStates] /\ down \in [Conns -> Seq(Frames)]
  BY DEF ChannelInv, MissInv, StrayInv, StrayTypes, LogInv, LogTypes
<1>2. link'[c] = "down" /\ \A b \in Conns : b # c => link'[b] = link[b]
  BY <1>1
<1>3. reader' = [b \in Conns |-> reader'[b]] /\ \A b \in Conns : b # c => reader'[b] = reader[b]
  BY <1>1 DEF MissTypes
<1>4. /\ \A b \in Conns : b # c => down'[b] = down[b]
      /\ \A b \in Conns : \A f : In(down'[b], f) => In(down[b], f)
  <2>1. \A f : ~In(<< >>, f)
    BY DEF In
  <2>2. /\ \A b \in Conns : b # c => down'[b] = down[b]
        /\ down'[c] = down[c] \/ down'[c] = << >>
    BY <1>1
  <2> QED
    BY <2>1, <2>2
<1>5. MissTypes'
  BY <1>1, <1>3 DEF MissTypes
<1>6. \A m : Kept(m) => Kept(m)'
  BY DEF Kept
<1>7. \A m \in Messages, b \in Conns : Comes(m, b) => Comes(m, b)'
  BY <1>2, <1>3, <1>4 DEF Comes
<1> QED
  BY <1>1, <1>2, <1>3, <1>4, <1>5, <1>6, <1>7 DEF Flows, Links

LEMMA ConnFails ==
  \A c : fail(c) \/ close(c) => link' = [link EXCEPT ![c] = "down"]
  BY DEF fail, close

LEMMA BreaksKeepMiss ==
  ASSUME ChannelInv,
         \/ \E c \in Conns : ReadFails(c) \/ HeartbeatFails(c) \/ Break(c)
         \/ Close
  PROVE  MissInv'
<1>1. UNCHANGED <<pc, held, answer, wait, current, joined, inbound, posted, seen,
                 delivered, recoveries>>
  BY DEF ReadFails, HeartbeatFails, Break, Close, callVars, chanVars, cloudVars, restVars
<1>2. answer' = [p \in Callers |-> answer'[p]] /\ current \in Conns
  BY <1>1 DEF ChannelInv, MissInv, MissTypes, StrayInv, StrayTypes
<1>3. closed => closed'
  BY DEF ReadFails, HeartbeatFails, Break, Close, chanVars
<1>4. PICK c \in Conns : /\ link' = [link EXCEPT ![c] = "down"]
                         /\ UNCHANGED reader \/ reader' = [reader EXCEPT ![c] = "ended"]
                         /\ UNCHANGED down \/ down' = [down EXCEPT ![c] = << >>]
  <2>1. CASE \E c \in Conns : ReadFails(c) \/ HeartbeatFails(c) \/ Break(c)
    BY <2>1, ConnFails DEF ReadFails, HeartbeatFails, Break
  <2>2. CASE Close
    BY <1>2, <2>2, ConnFails DEF Close
  <2> QED
    BY <2>1, <2>2
<1>5. Flows
  BY <1>1, <1>2, <1>3, <1>4, DownFlows
<1>6. \A p \in Callers : Stays(p)
  BY <1>1 DEF Stays
<1> QED
  BY <1>5, <1>6, FlowKeeps

(* reconnect closes the connection it replaces, or one that it set up.     *)
LEMMA ClosesKeepMiss ==
  ASSUME ChannelInv, NEW p \in Callers, NEW c \in Conns, NEW l, l \notin SettingUp, Goto(p, l),
         link' = [link EXCEPT ![c] = "down"],
         UNCHANGED held \/ held' = [held EXCEPT ![p] = None],
         UNCHANGED wait \/ wait' = [wait EXCEPT ![p] = "none"],
         UNCHANGED answer \/ answer' = [answer EXCEPT ![p] = {}],
         UNCHANGED <<current, joined, down, reader, inbound, posted, closed, seen, recoveries>>,
         delivered \subseteq delivered'
  PROVE  MissInv'
<1>1. /\ answer' = [q \in Callers |-> answer'[q]]
      /\ \A q \in Callers : Stays(q)
  BY GotoStays
<1>2. Flows
  BY <1>1, DownFlows
<1> QED
  BY <1>1, <1>2, FlowKeeps

LEMMA ReplacingKeepsMiss ==
  ASSUME ChannelInv, NEW p \in Callers, Lock(p) \/ Retry(p) \/ GiveUp(p)
  PROVE  MissInv'
<1>0. /\ current \in Conns /\ held[p] \in Conns \union {None} /\ Placed(p)
      /\ \A l \in {"idle", "dial", "late"} : l \notin SettingUp
  BY DEF ChannelInv, StrayInv, StrayTypes, SettingUp
<1>1. UNCHANGED <<current, joined, down, reader, inbound, posted, closed, seen>>
  BY DEF Lock, Retry, GiveUp, chanVars, cloudVars
<1>2. CASE Lock(p)
  <2>1. CASE close(current) /\ Goto(p, "dial")
             /\ UNCHANGED <<held, wait, answer, delivered, recoveries>>
    BY <1>0, <1>1, <2>1, ConnFails, ClosesKeepMiss
  <2>2. CASE Goto(p, "late") /\ UNCHANGED <<held, wait, answer, delivered, recoveries, link>>
    BY <1>0, <1>1, <2>2, CallerKeepsMiss DEF Unmoved
  <2>3. CASE /\ recoveries # << >> /\ recoveries' = Tail(recoveries)
             /\ ReturnUpdate(p, Head(recoveries)) /\ UNCHANGED link
    <3>1. /\ Leave(p) /\ delivered \subseteq delivered' /\ Head(recoveries) \subseteq delivered'
      BY <2>3 DEF ReturnUpdate
    <3> QED
      BY <1>0, <1>1, <2>3, <3>1, LeaveMoves, CallerKeepsMiss DEF Unmoved
  <2> QED
    BY <1>2, <2>1, <2>2, <2>3 DEF Lock
<1>3. CASE Retry(p)
  <2>1. held[p] \in Conns
    BY <1>0, <1>3 DEF Retry, Placed, SettingUp
  <2>2. PICK c \in Conns : c = held[p]
    BY <2>1
  <2>3. /\ close(c) /\ Goto(p, "dial") /\ held' = [held EXCEPT ![p] = None]
        /\ UNCHANGED <<wait, answer, recoveries, delivered>>
    BY <1>3, <2>2 DEF Retry, chanVars, restVars
  <2> QED
    BY <1>0, <1>1, <2>3, ConnFails, ClosesKeepMiss
<1>4. CASE GiveUp(p)
  <2>1. /\ Leave(p) /\ delivered \subseteq delivered' /\ UNCHANGED recoveries
    BY <1>4, ErrorLeaves, ErrorGrows DEF GiveUp
  <2>2. CASE held[p] = None
    BY <1>0, <1>1, <1>4, <2>1, <2>2, LeaveMoves, CallerKeepsMiss DEF GiveUp, Unmoved
  <2>3. CASE held[p] # None
    <3>1. PICK c \in Conns : c = held[p]
      BY <1>0, <2>3
    <3>2. close(c)
      BY <1>4, <2>3, <3>1 DEF GiveUp
    <3> QED
      BY <1>0, <1>1, <2>1, <3>2, ConnFails, LeaveMoves, ClosesKeepMiss
  <2> QED
    BY <2>2, <2>3
<1> QED
  BY <1>2, <1>3, <1>4

(* A new connection.                                                       *)
LEMMA DialKeepsMiss ==
  ASSUME ChannelInv, NEW p \in Callers, Dial(p)
  PROVE  MissInv'
<1>1. /\ MissTypes /\ Links /\ link \in [Conns -> LinkStates] /\ pc = [q \in Callers |-> pc[q]]
      /\ held \in [Callers -> Conns \union {None}] /\ wait = [q \in Callers |-> wait[q]]
  BY DEF ChannelInv, MissInv, StrayInv, StrayTypes, LogInv, LogTypes
<1>2. PICK c \in Conns : /\ link[c] = "none"
                         /\ link' = [link EXCEPT ![c] = "up"]
                         /\ reader' = [reader EXCEPT ![c] = "reading"]
                         /\ held' = [held EXCEPT ![p] = c]
  BY DEF Dial
<1>3. UNCHANGED <<current, joined, down, inbound, posted, closed, seen, recoveries,
                 delivered, answer>>
  BY DEF Dial, chanVars, cloudVars, restVars
<1>4. link'[c] = "up" /\ \A b \in Conns : b # c => link'[b] = link[b]
  BY <1>1, <1>2
<1>5. reader' = [b \in Conns |-> reader'[b]] /\ \A b \in Conns : b # c => reader'[b] = reader[b]
  BY <1>1, <1>2 DEF MissTypes
<1>6. MissTypes'
  BY <1>1, <1>3, <1>5 DEF MissTypes
<1>7. \A m : Kept(m) => Kept(m)'
  BY <1>3 DEF Kept
<1>8. \A m \in Messages, b \in Conns : Comes(m, b) /\ link[b] # "none" => Comes(m, b)'
  BY <1>2, <1>3, <1>4, <1>5 DEF Comes
<1>9. Flows
  BY <1>1, <1>2, <1>3, <1>4, <1>5, <1>6, <1>7, <1>8 DEF Flows, Links
<1>10. /\ pc'[p] = "join" /\ \A q \in Callers : q # p => pc'[q] = pc[q]
       /\ wait'[p] = "none" /\ \A q \in Callers : q # p => wait'[q] = wait[q]
  BY <1>1 DEF Dial, Goto
<1>11. held'[p] = c /\ \A q \in Callers : q # p => held'[q] = held[q]
  BY <1>1, <1>2
<1>12. SetUp(p)'
  BY <1>4, <1>10, <1>11 DEF SetUp
<1>13. \A q \in Callers : q # p => Stays(q)
  BY <1>3, <1>10, <1>11 DEF Stays
<1> QED
  BY <1>9, <1>12, <1>13, FlowKeeps

(* It becomes the current one.                                             *)
LEMMA InstallKeepsMiss ==
  ASSUME ChannelInv, NEW p \in Callers, Install(p)
  PROVE  MissInv'
<1>1. /\ MissTypes /\ Links /\ SetUp(p) /\ Placed(p) /\ \A q \in Callers : Placed(q)
      /\ pc[p] = "install" /\ held \in [Callers -> Conns \union {None}]
      /\ pc = [q \in Callers |-> pc[q]] /\ answer = [q \in Callers |-> answer[q]]
  <2>1. MissTypes /\ Links /\ (\A q \in Callers : SetUp(q)) /\ (\A q \in Callers : Placed(q))
    BY DEF ChannelInv, MissInv, StrayInv
  <2>2. /\ held \in [Callers -> Conns \union {None}] /\ pc = [q \in Callers |-> pc[q]]
        /\ answer = [q \in Callers |-> answer[q]]
    BY DEF ChannelInv, StrayInv, StrayTypes, MissInv, MissTypes
  <2>3. pc[p] = "install"
    BY DEF Install
  <2> QED
    BY <2>1, <2>2, <2>3
<1>2. PICK h \in Conns : h = held[p]
  BY <1>1 DEF Placed, SettingUp
<1>3. h \in joined /\ link[h] # "none" /\ answer[p] \subseteq Messages
      /\ \A m \in posted : m \in answer[p] \/ Kept(m) \/ Comes(m, h)
  BY <1>1, <1>2 DEF SetUp, SettingUp
<1>4. /\ current' = h /\ Recover(p, answer[p])
      /\ UNCHANGED <<joined, down, link, reader, inbound, posted, closed, seen>>
  BY <1>2 DEF Install, connVars, cloudVars
<1>5. /\ \E l \in {"push", "idle"} : Goto(p, l)
      /\ answer' = [answer EXCEPT ![p] = {}]
      /\ delivered \subseteq delivered'
      /\ \/ recoveries' = Append(recoveries, answer[p])
         \/ UNCHANGED recoveries /\ answer[p] \subseteq delivered'
  BY <1>4 DEF Recover, ReturnUpdate, Leave
<1>6. /\ recoveries' \in Seq(SUBSET Messages)
      /\ \A m : Kept(m) => Kept(m)'
  BY <1>3, <1>4, <1>5, RecoveriesKept
<1>7. \A m \in answer[p] : Kept(m)'
  <2>1. CASE recoveries' = Append(recoveries, answer[p])
    <3>1. /\ Len(recoveries) + 1 \in DOMAIN recoveries'
          /\ recoveries'[Len(recoveries) + 1] = answer[p]
      BY <1>1, <1>3, <2>1 DEF MissTypes
    <3> QED
      BY <3>1 DEF Kept
  <2>2. CASE answer[p] \subseteq delivered'
    BY <2>2 DEF Kept
  <2> QED
    BY <1>5, <2>1, <2>2
<1>8. MissTypes'
  BY <1>1, <1>4, <1>5, <1>6 DEF MissTypes
<1>9. Links'
  BY <1>1, <1>3, <1>4 DEF Links
<1>10. \A q \in Callers : SetUp(q)'
  <2>1. pc'[p] \notin SettingUp /\ \A q \in Callers : q # p => pc'[q] = pc[q]
    BY <1>1, <1>5 DEF Goto, SettingUp
  <2>2. \A q \in Callers : q # p => pc[q] \notin SettingUp
    BY <1>1 DEF Placed, Holding, SettingUp
  <2>3. \A q \in Callers : pc'[q] \notin SettingUp
    BY <2>1, <2>2
  <2> QED
    BY <2>3 DEF SetUp, SettingUp
<1>11. \A m \in posted' : Kept(m)' \/ Comes(m, current)'
  <2>1. \A m : Comes(m, h) => Comes(m, h)'
    BY <1>4 DEF Comes
  <2>2. \A m \in posted' : Kept(m)' \/ Comes(m, h)'
    BY <1>3, <1>4, <1>6, <1>7, <2>1
  <2>3. h = current'
    BY <1>4
  <2> QED
    BY <2>2, <2>3
<1> QED
  BY <1>8, <1>9, <1>10, <1>11 DEF MissInv

(* Where an element of a list is when its head is taken.                   *)
LEMMA HeadOrTail ==
  ASSUME NEW S, NEW q \in Seq(S), q # << >>
  PROVE  \A y : In(q, y) => y = Head(q) \/ In(Tail(q), y)
<1>1. /\ DOMAIN Tail(q) = 1 .. (Len(q) - 1) /\ DOMAIN q = 1 .. Len(q) /\ Len(q) \in Nat \ {0}
      /\ Head(q) = q[1]
      /\ \A i \in 1 .. (Len(q) - 1) : Tail(q)[i] = q[i + 1]
  OBVIOUS
<1>2. \A i \in 1 .. Len(q) : i = 1 \/ (i - 1 \in 1 .. (Len(q) - 1) /\ Tail(q)[i - 1] = q[i])
  BY <1>1
<1> QED
  BY <1>1, <1>2 DEF In

LEMMA StaysInConcat ==
  ASSUME NEW S, NEW q \in Seq(S), NEW t \in Seq(S)
  PROVE  \A y : In(q, y) => In(q \o t, y)
<1>1. /\ Len(q) \in Nat /\ Len(t) \in Nat /\ DOMAIN (q \o t) = 1 .. (Len(q) + Len(t))
      /\ DOMAIN q = 1 .. Len(q)
      /\ \A i \in 1 .. Len(q) : i \in 1 .. (Len(q) + Len(t)) /\ (q \o t)[i] = q[i]
  OBVIOUS
<1> QED
  BY <1>1 DEF In

(* The read loop hands a message on, or drops it because of Close.         *)
LEMMA QueueKeepsMiss ==
  ASSUME ChannelInv, NEW c \in Conns, Enqueue(c) \/ StopReading(c)
  PROVE  MissInv'
<1>1. MissTypes /\ Links
  BY DEF ChannelInv, MissInv
<1>2. /\ UNCHANGED <<pc, held, answer, wait, current, joined, down, link, posted, closed, seen,
                     delivered, recoveries>>
      /\ reader[c] \in Messages
  BY DEF Enqueue, StopReading, callVars, chanVars, cloudVars, restVars
<1>3. \E r \in {"reading", "ended"} : reader' = [reader EXCEPT ![c] = r]
  BY DEF Enqueue, StopReading
<1>4. /\ reader' = [b \in Conns |-> reader'[b]] /\ \A b \in Conns : b # c => reader'[b] = reader[b]
  BY <1>1, <1>3 DEF MissTypes
<1>5. /\ Append(inbound[c], reader[c]) \in Seq(Messages)
      /\ \A y : In(Append(inbound[c], reader[c]), y) <=> In(inbound[c], y) \/ y = reader[c]
  BY <1>1, <1>2, InAppend DEF MissTypes
<1>6. \/ inbound' = [inbound EXCEPT ![c] = Append(inbound[c], reader[c])]
      \/ UNCHANGED inbound /\ closed
  BY DEF Enqueue, StopReading
<1>7. /\ inbound' \in [Conns -> Seq(Messages)]
      /\ \A b \in Conns : b # c => inbound'[b] = inbound[b]
      /\ closed \/ inbound'[c] = Append(inbound[c], reader[c])
  BY <1>1, <1>5, <1>6 DEF MissTypes
<1>8. MissTypes'
  BY <1>1, <1>2, <1>4, <1>7 DEF MissTypes
<1>9. \A m : Kept(m) => Kept(m)'
  BY <1>2 DEF Kept
<1>10. \A m \in Messages, b \in Conns : Comes(m, b) => Comes(m, b)' \/ Kept(m)'
  BY <1>2, <1>4, <1>5, <1>7 DEF Comes, Kept
<1>11. \A b \in Conns : link'[b] = "none" => reader'[b] = "none"
  BY <1>1, <1>2, <1>4, MessagesApart DEF Links
<1>12. Flows
  BY <1>1, <1>2, <1>8, <1>9, <1>10, <1>11 DEF Flows, Links
<1>13. \A q \in Callers : Stays(q)
  BY <1>2 DEF Stays
<1> QED
  BY <1>12, <1>13, FlowKeeps

(* Next takes a message: it returns it, or somebody was told already.      *)
LEMMA TakeKeepsMiss ==
  ASSUME ChannelInv, NEW p \in Callers, TakeMessage(p)
  PROVE  MissInv'
<1>1. MissTypes /\ Links
  BY DEF ChannelInv, MissInv
<1>2. UNCHANGED <<current, joined, down, link, reader, posted, closed, recoveries>>
  BY DEF TakeMessage, cloudVars
<1>3. PICK c : c = conn[p]
  OBVIOUS
<1>4. inbound[c] # << >> /\ inbound' = [inbound EXCEPT ![c] = Tail(inbound[c])]
  BY <1>3 DEF TakeMessage
<1>5. PICK m0 : m0 = Head(inbound[c])
  OBVIOUS
<1>6. /\ seen' = seen \union {m0} /\ delivered \subseteq delivered' /\ m0 \in seen \union delivered'
      /\ \/ Leave(p)
         \/ Goto(p, "look") /\ UNCHANGED <<held, wait, answer>>
  BY <1>3, <1>5 DEF TakeMessage, ReturnUpdate
<1>7. seen' \subseteq delivered' /\ m0 \in delivered'
  BY <1>1, <1>6 DEF MissTypes
<1>8. "idle" \notin SettingUp /\ "look" \notin SettingUp
  BY DEF SettingUp
<1>9. /\ answer' = [q \in Callers |-> answer'[q]]
      /\ \A q \in Callers : Stays(q)
  BY <1>6, <1>8, LeaveMoves, GotoStays
<1>10. /\ inbound' \in [Conns -> Seq(Messages)]
       /\ \A b \in Conns : \A y : In(inbound[b], y) => In(inbound'[b], y) \/ y = m0
  <2>1. CASE c \in Conns
    <3>1. inbound[c] \in Seq(Messages)
      BY <1>1, <2>1 DEF MissTypes
    <3>2. /\ Tail(inbound[c]) \in Seq(Messages)
          /\ \A y : In(inbound[c], y) => y = m0 \/ In(Tail(inbound[c]), y)
      BY <1>4, <1>5, <3>1, InTail, HeadOrTail
    <3> QED
      BY <1>1, <1>4, <2>1, <3>2 DEF MissTypes
  <2>2. CASE c \notin Conns
    BY <1>1, <1>4, <2>2 DEF MissTypes
  <2> QED
    BY <2>1, <2>2
<1>11. MissTypes'
  BY <1>1, <1>2, <1>7, <1>9, <1>10 DEF MissTypes
<1>12. \A m : Kept(m) => Kept(m)'
  BY <1>2, <1>6 DEF Kept
<1>13. \A m \in Messages, b \in Conns : Comes(m, b) => Comes(m, b)' \/ Kept(m)'
  BY <1>2, <1>7, <1>10 DEF Comes, Kept
<1>14. Flows
  BY <1>1, <1>2, <1>11, <1>12, <1>13 DEF Flows, Links
<1> QED
  BY <1>9, <1>14, FlowKeeps

(* The read loop takes a frame.                                            *)
LEMMA ReadKeepsMiss ==
  ASSUME ChannelInv, NEW c \in Conns, Read(c)
  PROVE  MissInv'
<1>1. /\ MissTypes /\ Links /\ down \in [Conns -> Seq(Frames)]
      /\ pc = [q \in Callers |-> pc[q]] /\ \A q \in Callers : SetUp(q)
  BY DEF ChannelInv, MissInv, LogInv, LogTypes
<1>2. UNCHANGED <<pc, held, answer, current, joined, link, inbound, posted, closed, seen,
                  delivered, recoveries>>
  BY DEF Read, chanVars, cloudVars, restVars
<1>3. PICK f : f = Head(down[c])
  OBVIOUS
<1>4. /\ down[c] # << >> /\ down' = [down EXCEPT ![c] = Tail(down[c])]
      /\ reader[c] = "reading"
      /\ reader' = IF f.type = "message" THEN [reader EXCEPT ![c] = f.of] ELSE reader
      /\ wait' = [p \in Callers |->
                   IF f.type \in Replies /\ Awaits(p, c, f.of) THEN f.type ELSE wait[p]]
  BY <1>3 DEF Read
<1>5. /\ Tail(down[c]) \in Seq(Frames) /\ f \in Frames /\ In(down[c], f)
      /\ \A y : In(Tail(down[c]), y) => In(down[c], y)
      /\ \A y : In(down[c], y) => y = f \/ In(Tail(down[c]), y)
  <2>1. down[c] \in Seq(Frames)
    BY <1>1
  <2> QED
    BY <1>3, <1>4, <2>1, InTail, HeadOrTail
<1>6. /\ \A b \in Conns : \A y : In(down'[b], y) => In(down[b], y)
      /\ \A b \in Conns : \A y : In(down[b], y) => In(down'[b], y) \/ (b = c /\ y = f)
  BY <1>1, <1>4, <1>5
<1>7. /\ reader' = [b \in Conns |-> reader'[b]] /\ \A b \in Conns : b # c => reader'[b] = reader[b]
      /\ reader'[c] # "none"
      /\ \A m \in Messages : f = Notice(m) => reader'[c] = m
  <2>1. CASE f.type = "message"
    <3>1. f.of \in Messages
      BY <1>5, <2>1 DEF Frames, Replies
    <3>2. /\ reader' = [reader EXCEPT ![c] = f.of]
          /\ reader = [b \in Conns |-> reader[b]]
      BY <1>1, <1>4, <2>1 DEF MissTypes
    <3>3. f.of # "none" /\ \A m \in Messages : f = Notice(m) => f.of = m
      BY <3>1, MessagesApart DEF Notice
    <3> QED
      BY <3>2, <3>3
  <2>2. CASE f.type # "message"
    BY <1>1, <1>4, <2>2 DEF MissTypes, Notice
  <2> QED
    BY <2>1, <2>2
<1>8. MissTypes'
  BY <1>1, <1>2, <1>7 DEF MissTypes
<1>9. \A m : Kept(m) => Kept(m)'
  BY <1>2 DEF Kept
<1>10. \A m \in Messages, b \in Conns : Comes(m, b) => Comes(m, b)'
  <2> HIDE DEF Notice
  <2>1. reader[c] \notin Messages
    BY <1>4, MessagesApart
  <2> QED
    BY <1>2, <1>6, <1>7, <2>1 DEF Comes
<1>11. /\ \A b \in Conns : In(down'[b], JoinOK) => b \in joined'
       /\ \A b \in Conns : link'[b] = "none" => reader'[b] = "none"
  <2>1. link[c] # "none"
    BY <1>1, <1>4 DEF Links
  <2> QED
    BY <1>1, <1>2, <1>6, <1>7, <2>1 DEF Links
<1>12. Flows
  BY <1>2, <1>8, <1>9, <1>10, <1>11 DEF Flows
<1>13. ASSUME NEW q \in Callers, ~Stays(q)
       PROVE  SetUp(q)'
  <2>1. pc[q] \in SettingUp /\ wait'[q] = "ok" /\ wait[q] # "ok"
    BY <1>2, <1>13 DEF Stays
  <2>2. f.type = "ok" /\ Awaits(q, c, f.of)
    BY <1>4, <2>1
  <2>3. pc[q] = "join" /\ held[q] = c /\ f.of = JoinRef
    BY <2>1, <2>2 DEF Awaits, SettingUp
  <2>4. f = JoinOK
    BY <1>5, <2>2, <2>3 DEF Frames, JoinOK
  <2>5. c \in joined
    BY <1>1, <1>5, <2>4 DEF Links
  <2> QED
    BY <1>1, <1>2, <2>3, <2>5 DEF SetUp, SettingUp
<1> QED
  BY <1>12, <1>13, FlowKeeps

(* The coordinator sends frames behind those under way.                    *)
LEMMA SendsKeepMiss ==
  ASSUME ChannelInv,
         UNCHANGED <<pc, held, answer, wait, current, link, reader, inbound, closed, seen,
                     delivered, recoveries>>,
         joined \subseteq joined', joined' \subseteq Conns, posted' \subseteq Messages,
         \A c \in Conns, m \in Messages : In(down[c], Notice(m)) => In(down'[c], Notice(m)),
         \A c \in Conns : In(down'[c], JoinOK) => In(down[c], JoinOK) \/ c \in joined',
         \A m \in posted', c \in joined : m \in posted \/ link[c] = "none" \/ Comes(m, c)'
  PROVE  MissInv'
<1>1. MissTypes /\ Links
  BY DEF ChannelInv, MissInv
<1>2. MissTypes'
  BY <1>1 DEF MissTypes
<1>3. \A m : Kept(m) => Kept(m)'
  BY DEF Kept
<1>4. \A m \in Messages, c \in Conns : Comes(m, c) => Comes(m, c)'
  BY DEF Comes
<1>5. Flows
  BY <1>1, <1>2, <1>3, <1>4 DEF Flows, Links
<1>6. \A q \in Callers : Stays(q)
  BY DEF Stays
<1> QED
  BY <1>5, <1>6, FlowKeeps

LEMMA PostsKeepMiss ==
  ASSUME ChannelInv, NEW m \in Messages, Post(m) \/ PostAgain(m)
  PROVE  MissInv'
<1>1. /\ MissTypes /\ Links /\ down \in [Conns -> Seq(Frames)] /\ link \in [Conns -> LinkStates]
  BY DEF ChannelInv, MissInv, LogInv, LogTypes, StrayInv, StrayTypes
<1>2. /\ UNCHANGED <<pc, held, answer, wait, current, link, reader, inbound, closed, seen,
                     delivered, recoveries, joined>>
      /\ Broadcast(m) /\ posted' \subseteq posted \union {m}
  BY DEF Post, PostAgain, callVars, chanVars, cloudVars, restVars
<1>3. Notice(m) \in Frames /\ Notice(m) # JoinOK
  BY DEF Notice, Frames, JoinOK
<1>4. \A c \in Conns :
        /\ down'[c] = down[c] \/ down'[c] = Append(down[c], Notice(m))
        /\ c \in joined /\ link[c] = "up" => down'[c] = Append(down[c], Notice(m))
  BY <1>2 DEF Broadcast, Notice
<1>5. \A c \in Conns : \A y : In(Append(down[c], Notice(m)), y) <=> In(down[c], y) \/ y = Notice(m)
  BY <1>1, <1>3, InAppend
<1> HIDE DEF Notice, JoinOK
<1>6. /\ \A c \in Conns : \A y : In(down[c], y) => In(down'[c], y)
      /\ \A c \in Conns : In(down'[c], JoinOK) => In(down[c], JoinOK)
  BY <1>3, <1>4, <1>5
<1>7. \A x \in posted', c \in joined :
        x \in posted \/ link[c] = "none" \/ Comes(x, c)'
  <2> SUFFICES ASSUME NEW c \in joined, link[c] # "none"
               PROVE  Comes(m, c)'
    BY <1>2
  <2>1. link[c] \in {"up", "down"} /\ c \in Conns
    BY <1>1 DEF MissTypes, LinkStates
  <2> QED
    BY <1>2, <1>4, <1>5, <2>1 DEF Comes
<1> QED
  BY <1>1, <1>2, <1>6, <1>7, SendsKeepMiss DEF MissTypes

LEMMA SendAdds ==
  ASSUME ChannelInv, NEW c \in Conns, NEW t \in Seq(Frames), Send(c, t)
  PROVE  /\ \A b \in Conns : \A y : In(down[b], y) => In(down'[b], y)
         /\ \A b \in Conns : \A y : In(down'[b], y) => In(down[b], y) \/ (b = c /\ In(t, y))
<1>1. down \in [Conns -> Seq(Frames)]
  BY DEF ChannelInv, LogInv, LogTypes
<1>2. UNCHANGED down \/ down' = [down EXCEPT ![c] = down[c] \o t]
  BY DEF Send
<1>3. \A y : /\ In(down[c] \o t, y) => In(down[c], y) \/ In(t, y)
             /\ In(down[c], y) => In(down[c] \o t, y)
  BY <1>1, InConcat, StaysInConcat
<1> HIDE DEF In
<1>4. ASSUME down' = [down EXCEPT ![c] = down[c] \o t], NEW b \in Conns
      PROVE  IF b = c THEN down'[b] = down[c] \o t ELSE down'[b] = down[b]
  BY <1>1, <1>4
<1> QED
  BY <1>2, <1>3, <1>4

LEMMA CloudKeepsMiss ==
  ASSUME ChannelInv, NEW c \in Conns, CloudStep(c)
  PROVE  MissInv'
<1>1. /\ UNCHANGED <<pc, held, answer, wait, current, link, reader, inbound, closed, seen,
                     delivered, recoveries, posted>>
      /\ joined \subseteq joined'
  BY DEF CloudStep, CloudJoins, CloudRecords, callVars, chanVars, restVars
<1>2. MissTypes
  BY DEF ChannelInv, MissInv
<1>3. joined' \subseteq Conns
  BY <1>2 DEF CloudStep, CloudJoins, CloudRecords, MissTypes
<1>4. PICK t \in Seq(Frames) : Send(c, t) /\ (In(t, JoinOK) => c \in joined')
  <2>1. CASE CloudJoins(c)
    <3>1. PICK k \in {"ok", "rejected", "garbled"} :
            /\ Send(c, << [type |-> k, of |-> JoinRef] >>)
            /\ k = "ok" => c \in joined'
      BY <2>1 DEF CloudJoins
    <3>2. PICK f : f = [type |-> k, of |-> JoinRef]
      OBVIOUS
    <3>3. f \in Frames /\ (f = JoinOK => k = "ok")
      BY <3>2, JoinApart DEF Frames, Replies, JoinOK
    <3>4. << f >> \in Seq(Frames) /\ \A y : In(<< f >>, y) => y = f
      BY <3>3 DEF In
    <3> QED
      BY <3>1, <3>2, <3>3, <3>4
  <2>2. CASE CloudRecords(c)
    <3>1. PICK e \in Envelopes, t \in Seq(Frames) :
            /\ Send(c, t)
            /\ \A f : In(t, f) => (f.type = "ok" => f.of = e)
      BY <2>2, RecordsFrame DEF ChannelInv
    <3>2. ~In(t, JoinOK)
      <4>1. JoinOK.type = "ok" /\ JoinOK.of # e
        BY JoinApart DEF JoinOK
      <4> QED
        BY <3>1, <4>1
    <3> QED
      BY <3>1, <3>2
  <2> QED
    BY <2>1, <2>2 DEF CloudStep
<1>5. /\ \A b \in Conns : \A y : In(down[b], y) => In(down'[b], y)
      /\ \A b \in Conns : \A y : In(down'[b], y) => In(down[b], y) \/ (b = c /\ In(t, y))
  BY <1>4, SendAdds
<1> HIDE DEF JoinOK, Notice
<1>6. /\ \A b \in Conns, m \in Messages : In(down[b], Notice(m)) => In(down'[b], Notice(m))
      /\ \A b \in Conns : In(down'[b], JoinOK) => In(down[b], JoinOK) \/ b \in joined'
  BY <1>4, <1>5
<1> QED
  BY <1>1, <1>2, <1>3, <1>6, SendsKeepMiss DEF MissTypes

LEMMA MissInit == Init => MissInv
<1> SUFFICES ASSUME Init PROVE MissInv
  OBVIOUS
<1>1. /\ pc = [p \in Callers |-> "idle"] /\ answer = [p \in Callers |-> {}]
      /\ link = [c \in Conns |-> IF c = 1 THEN "up" ELSE "none"]
      /\ reader = [c \in Conns |-> IF c = 1 THEN "reading" ELSE "none"]
      /\ inbound = [c \in Conns |-> << >>] /\ down = [c \in Conns |-> << >>]
      /\ joined = {1} /\ posted \subseteq Messages /\ delivered = posted /\ seen = {}
      /\ current = 1 /\ recoveries = << >>
  BY DEF Init
<1>2. 1 \in Conns
  BY ShareChannelAssumption DEF Conns
<1>3. MissTypes
  BY <1>1, <1>2 DEF MissTypes
<1>4. Links
  <2>1. \A x : ~In(<< >>, x)
    BY DEF In
  <2> QED
    BY <1>1, <1>2, <2>1 DEF Links
<1>5. \A p \in Callers : SetUp(p)
  BY <1>1 DEF SetUp, SettingUp
<1>6. \A m \in posted : Kept(m)
  BY <1>1 DEF Kept
<1> QED
  BY <1>3, <1>4, <1>5, <1>6 DEF MissInv

LEMMA MissNext == ChannelInv /\ [Next]_vars => MissInv'
<1> SUFFICES ASSUME ChannelInv, [Next]_vars PROVE MissInv'
  OBVIOUS
<1>1. ASSUME NEW p \in Callers, CallStep(p)
      PROVE  MissInv'
  <2>1. CASE UseCurrent(p)
    <3>1. Unmoved /\ UNCHANGED <<pc, held, answer, wait, delivered, recoveries>>
      BY <2>1 DEF UseCurrent, Unmoved, chanVars, connVars, cloudVars, restVars
    <3> QED
      BY <3>1, StillKeepsMiss
  <2> QED
    BY <1>1, <2>1, CallsKeepMiss, TakeKeepsMiss, ReplacingKeepsMiss, LateKeepsMiss,
       AttemptKeepsMiss, DialKeepsMiss, InstallKeepsMiss DEF CallStep
<1>2. ASSUME NEW p \in Submitters, NEW n \in 1 .. MaxSubmissions, CallSubmit(p, n)
      PROVE  MissInv'
  BY <1>2, CallsKeepMiss DEF Callers
<1>3. ASSUME NEW c \in Conns, ReaderStep(c) \/ HeartbeatFails(c) \/ CloudStep(c) \/ Break(c)
      PROVE  MissInv'
  BY <1>3, ReadKeepsMiss, QueueKeepsMiss, BreaksKeepMiss, CloudKeepsMiss DEF ReaderStep
<1>4. CASE UNCHANGED vars \/ (\E p \in Callers : ContextEnds(p))
  <2>1. Unmoved /\ UNCHANGED <<pc, held, answer, wait, delivered, recoveries>>
    BY <1>4 DEF ContextEnds, Unmoved, vars, callVars, chanVars, connVars, cloudVars, restVars
  <2> QED
    BY <2>1, StillKeepsMiss
<1> QED
  BY <1>1, <1>2, <1>3, <1>4, CallsKeepMiss, PostsKeepMiss, BreaksKeepMiss DEF Next

LEMMA MissImplies == MissInv => NothingMissed
  BY DEF MissInv, Kept, Comes, In, Notice, NothingMissed

(* No message of the Share falls between two connections, for any number   *)
(* of callers, messages, buffers and failures: whatever nobody was told of *)
(* yet is on its way on the current connection, waits in a recovery, or    *)
(* will be asked for because that connection is broken.                    *)
THEOREM MessagesAreKept == Spec => []NothingMissed
<1>1. Init => ChannelInv
  BY LogInit, StrayInit, MissInit DEF ChannelInv
<1>2. ChannelInv /\ [Next]_vars => ChannelInv'
  <2>1. ChannelInv /\ [Next]_vars => LogInv' /\ StrayInv'
    BY LogNext, StrayNext DEF ChannelInv
  <2>2. ChannelInv /\ [Next]_vars => MissInv'
    BY MissNext
  <2> QED
    BY <2>1, <2>2 DEF ChannelInv
<1>3. ChannelInv => NothingMissed
  BY MissImplies DEF ChannelInv
<1> QED
  BY <1>1, <1>2, <1>3, PTL DEF Spec

=============================================================================
