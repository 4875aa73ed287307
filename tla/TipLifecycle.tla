---------------------------- MODULE TipLifecycle ----------------------------
(***************************************************************************)
(* What the life of an improvement plan promises to the department: a plan *)
(* is answered, confirmed, submitted and decided on, and from the          *)
(* confirmation to the decision it is one and the same plan.  A rejected   *)
(* or reopened plan is answered again.  Two requests that overlap, or a    *)
(* page that is posted after the plan has moved on, void the promise: the  *)
(* phase is then "torn" and stays so.                                      *)
(***************************************************************************)

CONSTANTS Plans, NoPlan

VARIABLES phase, plan

Init == phase = "to_do" /\ plan = NoPlan

Move(from, to) == phase = from /\ phase' = to

Answer ==
    /\ phase \in {"to_do", "in_progress", "answers_confirmed", "rejected"}
    /\ phase' = "in_progress"
    /\ plan' = NoPlan

ConfirmAnswers == Move("in_progress", "answers_confirmed") /\ plan' \in Plans
Submit         == Move("answers_confirmed", "review") /\ UNCHANGED plan
Approve        == Move("review", "approved") /\ UNCHANGED plan
Reject         == Move("review", "rejected") /\ plan' = NoPlan
Reopen         == Move("approved", "in_progress") /\ plan' = NoPlan

Tear == phase' = "torn" /\ plan' = NoPlan

Next ==
    \/ Answer
    \/ ConfirmAnswers
    \/ Submit
    \/ Approve
    \/ Reject
    \/ Reopen
    \/ Tear

Spec == Init /\ [][Next]_<<phase, plan>>
=============================================================================
