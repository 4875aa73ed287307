---------------------------- MODULE MCAssessment ----------------------------
(* Instances of Assessment for TLC.                                        *)
EXTENDS Assessment, TLC

CONSTANTS s1, s2, a1, a2, sys1, sys2, o1, o2, x, y

OneSession == {s1}
TwoSessions == {s1, s2}
OneAssessment == {a1}
TwoAssessments == {a1, a2}
OneSystem == {sys1}
TwoSystems == {sys1, sys2}
OneOutcome == {o1}
TwoOutcomes == {o1, o2}
OneAnswer == {x}
TwoAnswers == {x, y}
Baseline == {"baseline"}
BothProfiles == {"baseline", "enhanced"}
Independent == {"independent"}
WithAndWithout == {"independent", "self_assessment"}

\* Sessions, keys, systems, outcomes and answers are told apart by nothing.
Symmetry ==
    UNION {Permutations(S) : S \in {Sessions, Assessments, Systems,
                                    Outcomes, Answers}}

\* Bound: what follows an incident is explored by the other instance.
BeforeIncident == happened = {}
=============================================================================
