-------------------------------- MODULE Rules --------------------------------
(***************************************************************************)
(* The status that the statements ticked on the page of an outcome give    *)
(* it.  Statements come in three kinds; how many of a kind are ticked is   *)
(* all that the assessment-rules of the framework look at.  The rules are  *)
(* a table with a row for every combination, the same for each outcome     *)
(* and in both frameworks.                                                 *)
(***************************************************************************)

\* How many of the statements are ticked.  An outcome may have none of a kind.
generate_key(statements, ticked) ==
    IF statements \cap ticked = {} THEN "none"
    ELSE IF statements \subseteq ticked THEN "all" ELSE "some"

Amounts == {"all", "some", "none"}

\* By the statements for achieved, for partially achieved, for not achieved.
assessment_rules ==
    [key \in Amounts \X Amounts \X Amounts |->
        CASE key \in {<<"all", "all", "none">>, <<"all", "some", "none">>,
                      <<"all", "none", "none">>} -> "achieved"
          [] key \in {<<"some", "all", "none">>, <<"none", "all", "none">>} ->
                "partially-achieved"
          [] OTHER -> "not-achieved"]

\* The fields of an outcome are the statements of each kind it holds answers of.
get_status_for_indicator(outcome, ticked) ==
    assessment_rules[<<generate_key(outcome.achieved, ticked),
                       generate_key(outcome.partially, ticked),
                       generate_key(outcome.not, ticked)>>]

-----------------------------------------------------------------------------
(* What the rules are meant to say                                         *)

\* One statement of "not achieved" is enough; "achieved" and "partially
\* achieved" need all of theirs.
Deserved(outcome, ticked) ==
    CASE outcome.not \cap ticked # {} -> "not-achieved"
      [] /\ outcome.not \cap ticked = {}
         /\ outcome.achieved # {} /\ outcome.achieved \subseteq ticked -> "achieved"
      [] /\ outcome.not \cap ticked = {}
         /\ ~(outcome.achieved # {} /\ outcome.achieved \subseteq ticked)
         /\ outcome.partially # {} /\ outcome.partially \subseteq ticked ->
            "partially-achieved"
      [] OTHER -> "not-achieved"

\* Ticked again, with more in favour of the outcome and no more against it.
Better(outcome, ticked, again) ==
    /\ (outcome.achieved \cup outcome.partially) \cap ticked \subseteq again
    /\ outcome.not \cap again \subseteq ticked
=============================================================================
