-------------------------- MODULE ReviewLifecycle --------------------------
(***************************************************************************)
(* What the life of a review promises to its users when requests do not    *)
(* overlap: it is started, reported on, reopened and reported on again any  *)
(* number of times, and finalised once, for good, when its improvement plan *)
(* exists.  Two saves that overlap void the promise: the phase is then      *)
(* "torn" and stays so.                                                     *)
(***************************************************************************)

VARIABLES phase, tip

Init == phase = "to_do" /\ tip = FALSE

Move(from, to) == phase = from /\ phase' = to /\ UNCHANGED tip

ConfirmScope == Move("to_do", "in_progress")
CreateReport == Move("in_progress", "completed")
Reopen       == Move("completed", "in_progress")
Finalise     == tip /\ Move("completed", "finalised")

\* The plan's row may appear early, and even for a finalisation that is then
\* refused, but never for a review that nobody has started.
CreateTip == phase # "to_do" /\ tip' = TRUE /\ UNCHANGED phase

Overlap == phase' = "torn" /\ UNCHANGED tip

Next ==
    \/ ConfirmScope
    \/ CreateReport
    \/ Reopen
    \/ Finalise
    \/ CreateTip
    \/ Overlap

Spec == Init /\ [][Next]_<<phase, tip>>
=============================================================================
