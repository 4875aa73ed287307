------------------------------- MODULE MCTip -------------------------------
(* Instances of Tip for TLC. *)
EXTENDS Tip, TLC

CONSTANTS r1, r2, p1, o1

OneRequest  == {r1}
TwoRequests == {r1, r2}
TwoAnswers  == {"declined", "planned"}
OneAnswer   == {"declined"}
NoPositions == {}

Department == AllHandlers \ {"Save", "Rework"}
Serving    == AllHandlers \ {"Save", "Rework", "Crash"}
NoCrashes  == AllHandlers \ {"Crash"}
Reworked   == AllHandlers \ {"Save", "TipAdmin", "Crash"}

\* The slots are interchangeable: nothing distinguishes one worker from another.
RequestSymmetry == Permutations(Requests)
=============================================================================
