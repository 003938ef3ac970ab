------------------------------ MODULE RunRecord ------------------------------
(***************************************************************************)
(* What Execute promises about the record of a Run, without processes,     *)
(* files or tables: a trail that grows by the grammar of RunEvents and is  *)
(* closed once, a status others may be shown for the Run, and the events   *)
(* the coordinator has, in their order and none that is not in the trail.  *)
(***************************************************************************)
EXTENDS Integers, Sequences, FiniteSets

CONSTANTS Runs, NumSteps

VARIABLES
  trail,    (* types of the RunEvents recorded so far                       *)
  claim,    (* status the index shows                                       *)
  sent      (* positions in the trail the coordinator accepted              *)

recordVars == <<trail, claim, sent>>

OutcomeOf == [run_succeeded   |-> "succeeded",
              run_failed      |-> "failed",
              run_cancelled   |-> "cancelled",
              run_interrupted |-> "interrupted"]

Closing == DOMAIN OutcomeOf

Ended(t)  == t # << >> /\ t[Len(t)] \in Closing
Count(t, e) == Cardinality({i \in DOMAIN t : t[i] = e})

(* What may follow the last event of a trail besides run_failed, which may *)
(* follow everything.                                                      *)
Successors ==
  [run_created          |-> {"validation_succeeded", "validation_failed", "run_interrupted"},
   validation_succeeded |-> {"approval_requested", "step_started", "run_succeeded", "run_interrupted"},
   validation_failed    |-> {},
   approval_requested   |-> {"approval_approved", "approval_rejected", "run_interrupted"},
   approval_approved    |-> {"step_started"},
   approval_rejected    |-> {"run_cancelled"},
   step_started         |-> {"step_succeeded", "step_failed"},
   step_succeeded       |-> {"approval_requested", "step_started", "run_succeeded", "run_interrupted"},
   step_failed          |-> {"run_interrupted"}]

(* Success needs every Step of the Recipe, or is a manual fulfillment.     *)
MayFollow(t, e) ==
  /\ ~Ended(t)
  /\ \/ e = "run_failed"
     \/ t = << >> /\ e = "run_created"
     \/ t # << >> /\ e \in Successors[t[Len(t)]]
  /\ e = "run_succeeded" => Count(t, "step_succeeded") \in {0, NumSteps}
  /\ e = "step_started" => Count(t, "step_succeeded") < NumSteps

Init ==
  /\ trail = [r \in Runs |-> << >>]
  /\ claim = [r \in Runs |-> "absent"]
  /\ sent = [r \in Runs |-> << >>]

Record(r, e) ==
  /\ MayFollow(trail[r], e)
  /\ trail' = [trail EXCEPT ![r] = Append(@, e)]
  /\ UNCHANGED <<claim, sent>>

(* The status shown is the trail's outcome or lags behind it; a Run whose  *)
(* trail could not be closed may be shown as failed or interrupted.        *)
Claim(r, s) ==
  /\ IF Ended(trail[r])
     THEN s \in {"running", OutcomeOf[trail[r][Len(trail[r])]]}
     ELSE s \in {"running", "pending_manual", "failed", "interrupted"}
  /\ claim' = [claim EXCEPT ![r] = s]
  /\ UNCHANGED <<trail, sent>>

(* The coordinator accepts the newest event.                               *)
Submit(r) ==
  /\ trail[r] # << >>
  /\ LET k == Len(trail[r])
         last == IF sent[r] = << >> THEN 0 ELSE sent[r][Len(sent[r])]
     IN /\ last < k
        /\ k > last + 1 => trail[r][k] = "run_failed"
        /\ sent' = [sent EXCEPT ![r] = Append(@, k)]
  /\ UNCHANGED <<trail, claim>>

Next ==
  \E r \in Runs :
    \/ \E e \in DOMAIN Successors \union Closing : Record(r, e)
    \/ \E s \in {"running", "pending_manual"} \union {OutcomeOf[e] : e \in Closing} : Claim(r, s)
    \/ Submit(r)

Spec == Init /\ [][Next]_recordVars
=============================================================================
