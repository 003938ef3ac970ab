------------------------------ MODULE ShareLog -------------------------------
(***************************************************************************)
(* What SubmitRun and SubmitRunEvent promise, without connections: each    *)
(* call has one message, the coordinator's log takes it at most once, and  *)
(* the call succeeds only when the log has it.  A call that failed may     *)
(* still be recorded: its sender does not know.                            *)
(***************************************************************************)
EXTENDS Integers, Sequences

CONSTANTS Submitters, MaxSubmissions

VARIABLES
  calls,    (* state of each submission                                     *)
  log       (* submissions the coordinator has persisted, in its order      *)

logVars == <<calls, log>>

Submissions == Submitters \X (1 .. MaxSubmissions)

InLog(s) == \E i \in DOMAIN log : log[i] = s

Init ==
  /\ calls = [s \in Submissions |-> "unsent"]
  /\ log = << >>

(* A submitter makes its calls one after the other.                        *)
Submit(s) ==
  /\ calls[s] = "unsent"
  /\ \A k \in 1 .. (s[2] - 1) : calls[<<s[1], k>>] \in {"ok", "failed"}
  /\ calls' = [calls EXCEPT ![s] = "open"]
  /\ UNCHANGED log

Record(s) ==
  /\ calls[s] \in {"open", "failed"}
  /\ ~InLog(s)
  /\ log' = Append(log, s)
  /\ UNCHANGED calls

Return(s, result) ==
  /\ calls[s] = "open"
  /\ result = "ok" => InLog(s)
  /\ calls' = [calls EXCEPT ![s] = result]
  /\ UNCHANGED log

Next ==
  \E s \in Submissions :
    \/ Submit(s)
    \/ Record(s)
    \/ \E result \in {"ok", "failed"} : Return(s, result)

Spec == Init /\ [][Next]_logVars
=============================================================================
