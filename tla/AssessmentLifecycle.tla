------------------------ MODULE AssessmentLifecycle ------------------------
(***************************************************************************)
(* What the life of the assessments of a period promises to the people who *)
(* submit them and to those who review them: an assessment is drafted, and *)
(* submitted when everything in it fits together, once for its system.     *)
(* From then on it is what was submitted, and it is reviewed if, and only  *)
(* if, it asks for a review.  Two requests that overlap, or a page that is *)
(* posted for another draft, void the promise: the phase is then "torn"    *)
(* and stays so.                                                           *)
(***************************************************************************)

CONSTANTS
    Assessments,
    Submittable,    \* rows that may be submitted
    Reviewed,       \* review types that ask for a review
    NoContent       \* of an assessment that was not submitted

VARIABLES phase, content, reviewed

vars == <<phase, content, reviewed>>

Init ==
    /\ phase = [a \in Assessments |-> "none"]
    /\ content = [a \in Assessments |-> NoContent]
    /\ reviewed = {}

Create(a) ==
    /\ phase[a] = "none"
    /\ phase' = [phase EXCEPT ![a] = "draft"]
    /\ UNCHANGED <<content, reviewed>>

\* The system of a row, of those that were submitted.
Taken(system) ==
    \E a \in Assessments : content[a] # NoContent /\ content[a].system = system

Submit(a) ==
    /\ phase[a] = "draft"
    /\ phase' = [phase EXCEPT ![a] = "submitted"]
    /\ \E row \in Submittable :
          /\ ~Taken(row.system)
          /\ content' = [content EXCEPT ![a] = row]
    /\ UNCHANGED reviewed

Review(a) ==
    /\ phase[a] = "submitted"
    /\ content[a].review_type \in Reviewed
    /\ reviewed' = reviewed \cup {a}
    /\ UNCHANGED <<phase, content>>

Tear ==
    /\ phase' = [a \in Assessments |-> "torn"]
    /\ content' = [a \in Assessments |-> NoContent]
    /\ reviewed' = {}

Next ==
    \/ \E a \in Assessments : Create(a) \/ Submit(a) \/ Review(a)
    \/ Tear

Spec == Init /\ [][Next]_vars
=============================================================================
