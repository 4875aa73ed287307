------------------------------ MODULE MCReports ------------------------------
(* Instances of Reports for TLC. *)
EXTENDS Reports, Rules, TLC

CONSTANTS u1, u2, A1a, B1a, risk

\* What the profile asks of A1a is less than "achieved".
Least == [o \in Outcomes |-> "not-achieved"]
UpToOne == {<<>>, <<risk>>}

UserSymmetry == Permutations(Users)

\* Every outcome with at most two statements of each kind, ticked in every way,
\* and ticked again: the table of Rules gives what is deserved, and never less
\* for more.
TwoOfEachKind ==
    [achieved: SUBSET {1, 2}, partially: SUBSET {3, 4}, not: SUBSET {5, 6}]

ASSUME RulesHold ==
    \A outcome \in TwoOfEachKind :
        LET statements == outcome.achieved \cup outcome.partially \cup outcome.not
            status == [ticked \in SUBSET statements |->
                          get_status_for_indicator(outcome, ticked)]
        IN  \A ticked \in SUBSET statements :
               /\ status[ticked] = Deserved(outcome, ticked)
               /\ \A again \in SUBSET statements :
                     Better(outcome, ticked, again)
                     => Score[status[ticked]] <= Score[status[again]]
=============================================================================
