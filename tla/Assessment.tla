----------------------------- MODULE Assessment -----------------------------
(***************************************************************************)
(* The self-assessments of one organisation in one assessment period: how  *)
(* a draft is created, answered, edited and submitted, and how its         *)
(* submission initiates the review.                                        *)
(*                                                                         *)
(* A user works on the assessment that the browser session points at: the  *)
(* session holds draft_assessment, a copy of the row's id, system, profile *)
(* and review type made when a page of the draft was opened.  A handler    *)
(* loads the row, changes the instance and writes the whole row back;      *)
(* nothing is compared with the row at that time.  Some handlers load the  *)
(* row twice, and a submission writes two tables one after the other:      *)
(*                                                                         *)
(*    idle -> [edit | confirm ->] save | submit -> [review ->] idle        *)
(*             first of two loads    UPDATE          INSERT                *)
(*                                                                         *)
(* Requests of one session follow one another; those of different          *)
(* sessions (users, browsers) interleave at every step.                    *)
(***************************************************************************)
CONSTANTS
    Sessions,       \* browser sessions of the organisation's users
    Assessments,    \* primary keys
    Systems,        \* systems of the organisation
    Outcomes,       \* contributing outcomes of the framework
    Answers,        \* what the statements of an outcome can be answered with
    NoAnswer,       \* an outcome without data, or without confirmation
    Nothing,        \* a key that draft_assessment does not hold
    Profiles,       \* the CAF profiles in use
    ReviewTypes     \* the review types in use

ASSUME AssessmentAssumption ==
    /\ NoAnswer \notin Answers
    /\ Nothing \notin Assessments \cup Systems \cup Profiles \cup ReviewTypes
    /\ Nothing # "enhanced"
    /\ "independent" \in ReviewTypes

VARIABLES
    rows,       \* the table webcaf_assessment
    reviews,    \* the assessments that have a row in webcaf_review
    session,    \* session["draft_assessment"]
    request,    \* the request in flight of each session
    happened    \* history: which of Incidents have occurred

vars == <<rows, reviews, session, request, happened>>

-----------------------------------------------------------------------------
(* Rows, sessions and requests                                             *)

\* An outcome is confirmed beside the status of some answers: confirmed[o]
\* are the answers that outcome_status was computed from.
Rows == [status: {"none", "draft", "submitted"},
         system: Systems \cup {Nothing},
         caf_profile: Profiles \cup {Nothing},
         review_type: ReviewTypes \cup {Nothing},
         answers: [Outcomes -> Answers \cup {NoAnswer}],
         confirmed: [Outcomes -> Answers \cup {NoAnswer}]]

NoRow == [status |-> "none", system |-> Nothing, caf_profile |-> Nothing,
          review_type |-> Nothing, answers |-> [o \in Outcomes |-> NoAnswer],
          confirmed |-> [o \in Outcomes |-> NoAnswer]]

DraftAssessments == [assessment_id: Assessments \cup {Nothing},
                     system: Systems \cup {Nothing},
                     caf_profile: Profiles \cup {Nothing},
                     review_type: ReviewTypes \cup {Nothing}]

EmptySession == [assessment_id |-> Nothing, system |-> Nothing,
                 caf_profile |-> Nothing, review_type |-> Nothing]

\* late: another request has written the row since this one first read it.
InFlight == [pc: {"idle", "edit", "confirm", "save", "submit", "review"},
             id: Assessments \cup {Nothing}, obj: Rows,
             outcome: Outcomes \cup {Nothing}, late: BOOLEAN]

Idle == [pc |-> "idle", id |-> Nothing, obj |-> NoRow, outcome |-> Nothing,
         late |-> FALSE]

\* overlap: a request wrote over a row that another had written since it was
\* read.  stray: a form was posted from a page older than the session: of
\* another draft, or of a profile that offered a choice of review types.
\* kill: a submission died between its save and its review.
Incidents == {"overlap", "stray", "kill"}

Reviewed == {"independent", "peer_review"}

Drafts == {a \in Assessments : rows[a].status = "draft"}

is_complete(row) == \A o \in Outcomes : row.confirmed[o] # NoAnswer

mandatory_fields(d) == Nothing \notin {d.system, d.caf_profile, d.review_type}

\* Mutant: the enhanced profile leaves the review type as it is.
choose_profile_Only(d, profile) == [d EXCEPT !.caf_profile = profile]

choose_profile(d, profile) ==
    [d EXCEPT !.caf_profile = profile,
              !.review_type = IF profile = "enhanced" THEN "independent" ELSE @]

Free(s) == request[s].pc = "idle"

Done(s) == request' = [request EXCEPT ![s] = Idle]

\* Mutant: the status of the row is not looked at.
HasDraft_AnyStatus(s) ==
    /\ session[s].assessment_id # Nothing
    /\ rows[session[s].assessment_id].status # "none"

\* get_current_assessment: the row the session points at, if it is a draft.
HasDraft(s) == session[s].assessment_id \in Drafts

Init ==
    /\ rows = [a \in Assessments |-> NoRow]
    /\ reviews = {}
    /\ session = [s \in Sessions |-> EmptySession]
    /\ request = [s \in Sessions |-> Idle]
    /\ happened = {}

-----------------------------------------------------------------------------
(* Choosing and creating a draft                                           *)

\* The account pages forget the draft the session was working on.
AccountView(s) ==
    /\ Free(s)
    /\ session' = [session EXCEPT ![s] = EmptySession]
    /\ UNCHANGED <<rows, reviews, request, happened>>

\* GET of a page of a draft copies the row to the session.
EditAssessmentPage(s) ==
    /\ Free(s)
    /\ \E a \in Drafts :
          session' = [session EXCEPT ![s] =
                        [assessment_id |-> a, system |-> rows[a].system,
                         caf_profile |-> rows[a].caf_profile,
                         review_type |-> rows[a].review_type]]
    /\ UNCHANGED <<rows, reviews, request, happened>>

\* get_or_create of the draft of the system: d is draft_assessment with the
\* posted field, and an existing draft keeps its own profile and review type.
CreateAssessmentView(s, d) ==
    LET drafts == {a \in Drafts : rows[a].system = d.system}
        Points(a) == session' = [session EXCEPT ![s] = [d EXCEPT !.assessment_id = a]]
    IN
    /\ \/ /\ ~mandatory_fields(d)
          /\ session' = [session EXCEPT ![s] = d]
          /\ rows' = rows
       \/ /\ mandatory_fields(d)
          /\ \E a \in drafts : Points(a)
          /\ rows' = rows
       \/ /\ mandatory_fields(d)
          /\ drafts = {}
          /\ \E a \in Assessments :
                /\ rows[a].status = "none"
                /\ Points(a)
                /\ rows' = [rows EXCEPT ![a] =
                              [NoRow EXCEPT !.status = "draft",
                                            !.system = d.system,
                                            !.caf_profile = d.caf_profile,
                                            !.review_type = d.review_type]]
    /\ UNCHANGED <<reviews, request>>

CreateAssessmentProfileView(s) ==
    /\ Free(s)
    /\ \E p \in Profiles : CreateAssessmentView(s, choose_profile(session[s], p))
    /\ UNCHANGED happened

CreateAssessmentSystemView(s) ==
    /\ Free(s)
    /\ \E sys \in Systems :
          CreateAssessmentView(s, [session[s] EXCEPT !.system = sys])
    /\ UNCHANGED happened

Stray(condition) == happened' = happened \cup IF condition THEN {"stray"} ELSE {}

\* The page offers no choice to an enhanced profile; the POST does not look.
CreateAssessmentReviewTypeView(s) ==
    /\ Free(s)
    /\ \E t \in ReviewTypes :
          CreateAssessmentView(s, [session[s] EXCEPT !.review_type = t])
    /\ Stray(session[s].caf_profile = "enhanced")

-----------------------------------------------------------------------------
(* Editing system, profile and review type                                 *)

\* get_form_kwargs: the id of the URL must be that of a draft.
EditAssessmentView(s) ==
    /\ Free(s)
    /\ \E a \in Drafts :
          request' = [request EXCEPT ![s] = [Idle EXCEPT !.pc = "edit", !.id = a]]
    /\ UNCHANGED <<rows, reviews, session, happened>>

\* form_valid: d is draft_assessment with the posted field.  The row is the
\* one the session points at, whatever its status, and receives all three
\* fields of the session.
Edited(s, d) ==
    /\ request[s].pc = "edit"
    /\ session' = [session EXCEPT ![s] = d]
    /\ IF mandatory_fields(d) /\ d.assessment_id # Nothing
       THEN request' = [request EXCEPT ![s].pc = "save",
                                       ![s].id = d.assessment_id,
                                       ![s].obj = [rows[d.assessment_id] EXCEPT
                                                     !.system = d.system,
                                                     !.caf_profile = d.caf_profile,
                                                     !.review_type = d.review_type]]
       ELSE Done(s)
    /\ UNCHANGED <<rows, reviews>>

CrossedPages(s) == request[s].id # session[s].assessment_id

EditAssessmentProfileView(s) ==
    /\ \E p \in Profiles : Edited(s, choose_profile(session[s], p))
    /\ Stray(CrossedPages(s))

EditAssessmentSystemView(s) ==
    /\ \E sys \in Systems : Edited(s, [session[s] EXCEPT !.system = sys])
    /\ Stray(CrossedPages(s))

EditAssessmentReviewTypeView(s) ==
    /\ \E t \in ReviewTypes : Edited(s, [session[s] EXCEPT !.review_type = t])
    /\ Stray(CrossedPages(s) \/ session[s].caf_profile = "enhanced")

-----------------------------------------------------------------------------
(* Answers, confirmation and submission                                    *)

\* What request s becomes when it has worked on the row of its session.
Works(s, pc, obj, outcome) ==
    request' = [request EXCEPT ![s] =
                  [pc |-> pc, id |-> session[s].assessment_id, obj |-> obj,
                   outcome |-> outcome, late |-> FALSE]]

\* Mutant: the confirmation survives a change of the answers.
set_answers_KeepConfirmation(row, o, x) == [row EXCEPT !.answers[o] = x]

\* A change of the answers takes their confirmation back.
set_answers(row, o, x) ==
    [row EXCEPT !.answers[o] = x,
                !.confirmed[o] = IF row.answers[o] = x THEN @ ELSE NoAnswer]

OutcomeIndicatorsView(s) ==
    /\ Free(s)
    /\ HasDraft(s)
    /\ \E o \in Outcomes, x \in Answers :
          Works(s, "save", set_answers(rows[session[s].assessment_id], o, x), Nothing)
    /\ UNCHANGED <<rows, reviews, session, happened>>

\* form_valid loads the assessment and computes the outcome's status ...
OutcomeConfirmationView(s) ==
    /\ Free(s)
    /\ HasDraft(s)
    /\ LET row == rows[session[s].assessment_id]
       IN  \E o \in Outcomes :
              /\ row.answers[o] # NoAnswer
              /\ Works(s, "confirm", row, o)
    /\ UNCHANGED <<rows, reviews, session, happened>>

\* ... and super().form_valid loads it again to store the confirmation.
ConfirmOutcome(s) ==
    /\ request[s].pc = "confirm"
    /\ LET o == request[s].outcome
           first == request[s].obj
       IN  IF HasDraft(s)
           THEN request' = [request EXCEPT
                              ![s].pc = "save",
                              ![s].outcome = Nothing,
                              ![s].obj = [rows[session[s].assessment_id] EXCEPT
                                            !.confirmed[o] = first.answers[o]]]
           ELSE Done(s)
    /\ UNCHANGED <<rows, reviews, session, happened>>

\* Mutant: the assessment gets a status it has no use for.
SectionConfirmationView_Sent(s) ==
    /\ Free(s)
    /\ HasDraft(s)
    /\ is_complete(rows[session[s].assessment_id])
    /\ Works(s, "submit", [rows[session[s].assessment_id] EXCEPT
                             !.status = "sent"], Nothing)
    /\ UNCHANGED <<rows, reviews, session, happened>>

\* Mutant: the objectives are not checked again when the form is posted.
SectionConfirmationView_NotComplete(s) ==
    /\ Free(s)
    /\ HasDraft(s)
    /\ Works(s, "submit", [rows[session[s].assessment_id] EXCEPT
                             !.status = "submitted"], Nothing)
    /\ UNCHANGED <<rows, reviews, session, happened>>

SectionConfirmationView(s) ==
    /\ Free(s)
    /\ HasDraft(s)
    /\ is_complete(rows[session[s].assessment_id])
    /\ Works(s, "submit", [rows[session[s].assessment_id] EXCEPT
                             !.status = "submitted"], Nothing)
    /\ UNCHANGED <<rows, reviews, session, happened>>

\* Mutant: only drafts are unique.
IntegrityError_Drafts(a, row) ==
    \E b \in Assessments \ {a} :
        rows[b].system = row.system /\ rows[b].status = "draft" /\ row.status = "draft"

\* unique_together: one row of a system in each status, of one period.
IntegrityError(a, row) ==
    \E b \in Assessments \ {a} :
        rows[b].system = row.system /\ rows[b].status = row.status

\* Mutant: an assessment that needs a review is not told from one that needs
\* none.
Save_ReviewAll(s) ==
    LET a == request[s].id
        row == request[s].obj
    IN
    /\ request[s].pc \in {"save", "submit"}
    /\ ~IntegrityError(a, row)
    /\ rows' = [rows EXCEPT ![a] = row]
    /\ happened' = happened \cup IF request[s].late THEN {"overlap"} ELSE {}
    /\ request' = [t \in Sessions |->
                     IF t # s THEN [request[t] EXCEPT
                                      !.late = @ \/ request[t].id = a]
                     ELSE IF request[s].pc = "submit"
                     THEN [Idle EXCEPT !.pc = "review", !.id = a]
                     ELSE Idle]
    /\ UNCHANGED <<reviews, session>>

\* assessment.save() writes every column of the instance.  A submission goes
\* on to its review if its review type asks for one.
Save(s) ==
    LET a == request[s].id
        row == request[s].obj
    IN
    /\ request[s].pc \in {"save", "submit"}
    /\ ~IntegrityError(a, row)
    /\ rows' = [rows EXCEPT ![a] = row]
    /\ happened' = happened \cup IF request[s].late THEN {"overlap"} ELSE {}
    /\ request' = [t \in Sessions |->
                     IF t # s THEN [request[t] EXCEPT
                                      !.late = @ \/ request[t].id = a]
                     ELSE IF request[s].pc = "submit" /\ row.review_type \in Reviewed
                     THEN [Idle EXCEPT !.pc = "review", !.id = a]
                     ELSE Idle]
    /\ UNCHANGED <<reviews, session>>

\* The database refuses a second row of the system in the same status.
SaveRefused(s) ==
    /\ request[s].pc \in {"save", "submit"}
    /\ IntegrityError(request[s].id, request[s].obj)
    /\ Done(s)
    /\ UNCHANGED <<rows, reviews, session, happened>>

\* Review.objects.get_or_create(assessment=assessment), then the e-mails.
InitiateReview(s) ==
    /\ request[s].pc = "review"
    /\ reviews' = reviews \cup {request[s].id}
    /\ Done(s)
    /\ UNCHANGED <<rows, session, happened>>

\* A worker is killed: what is committed stays.
Crash(s) ==
    /\ request[s].pc # "idle"
    /\ Done(s)
    /\ happened' = happened \cup IF request[s].pc = "review" THEN {"kill"} ELSE {}
    /\ UNCHANGED <<rows, reviews, session>>

Next ==
    \E s \in Sessions :
        \/ AccountView(s)
        \/ EditAssessmentPage(s)
        \/ CreateAssessmentProfileView(s)
        \/ CreateAssessmentSystemView(s)
        \/ CreateAssessmentReviewTypeView(s)
        \/ EditAssessmentView(s)
        \/ EditAssessmentProfileView(s)
        \/ EditAssessmentSystemView(s)
        \/ EditAssessmentReviewTypeView(s)
        \/ OutcomeIndicatorsView(s)
        \/ OutcomeConfirmationView(s)
        \/ ConfirmOutcome(s)
        \/ SectionConfirmationView(s)
        \/ Save(s)
        \/ SaveRefused(s)
        \/ InitiateReview(s)
        \/ Crash(s)

Spec == Init /\ [][Next]_vars

-----------------------------------------------------------------------------
(* Properties                                                              *)

TypeOK ==
    /\ rows \in [Assessments -> Rows]
    /\ reviews \subseteq Assessments
    /\ session \in [Sessions -> DraftAssessments]
    /\ request \in [Sessions -> InFlight]
    /\ \A s \in Sessions : Free(s) \/ request[s].id \in Assessments
    /\ happened \subseteq Incidents

\* SectionConfirmationView: whatever overlaps, is lost, or is posted from an
\* old page, a submitted assessment has every outcome confirmed.
SubmittedIsComplete ==
    \A a \in Assessments :
        rows[a].status = "submitted" => is_complete(rows[a])

\* Whatever an outcome was confirmed with is the status of the answers beside
\* it: BaseIndicatorsFormView.form_valid takes a confirmation back when the
\* answers change, and OutcomeConfirmationView computes the status anew.
ConfirmedOutcomesMatch ==
    "overlap" \notin happened =>
        \A a \in Assessments, o \in Outcomes :
            rows[a].confirmed[o] \in {NoAnswer, rows[a].answers[o]}

\* The views load drafts only, so a submitted assessment never changes again,
\* unless requests overlapped or a page of another draft was posted.
SubmittedFrozen ==
    [][ happened' \cap {"overlap", "stray"} = {} =>
          \A a \in Assessments :
              rows[a].status = "submitted" => rows'[a] = rows[a] ]_vars

\* An assessment has a review exactly if it was submitted with a review type
\* that asks for one and the request got that far: none is missing, and none
\* belongs to a draft or to a self-assessment.
ReviewOfSubmission ==
    happened = {} =>
        \A a \in Assessments :
            rows[a].status = "submitted" /\ rows[a].review_type \in Reviewed
            <=> \/ a \in reviews
                \/ \E s \in Sessions :
                      request[s].pc = "review" /\ request[s].id = a

\* An enhanced profile "must have an independent assurance review"
\* (choose-review-type.html): the two fields are chosen on different pages and
\* copied between rows and sessions, and stay consistent across users.
EnhancedIsIndependent(row) ==
    row.caf_profile = "enhanced" => row.review_type = "independent"

ProfileDecidesReview ==
    "stray" \notin happened =>
        \A a \in Assessments : EnhancedIsIndependent(rows[a])

\* What may be submitted: every outcome is confirmed, beside the answers it was
\* confirmed with, and the review type fits the profile.
Submittable ==
    {row \in Rows :
        /\ row.status = "submitted"
        /\ is_complete(row)
        /\ row.confirmed = row.answers
        /\ EnhancedIsIndependent(row)}

\* What AssessmentLifecycle sees of a state, until requests overlap or a page
\* of another draft is posted.
Torn == happened \cap {"overlap", "stray"} # {}

Phase == [a \in Assessments |-> IF Torn THEN "torn" ELSE rows[a].status]

Content == [a \in Assessments |->
              IF ~Torn /\ rows[a].status = "submitted" THEN rows[a] ELSE Nothing]

UnderReview == IF Torn THEN {} ELSE reviews

Lifecycle == INSTANCE AssessmentLifecycle WITH
    NoContent <- Nothing,
    phase <- Phase,
    content <- Content,
    reviewed <- UnderReview

\* The handlers, whatever their interleaving, let the assessments of the period
\* live as AssessmentLifecycle says: what SectionConfirmationView submits is
\* complete, consistent, once for its system and final, and what is reviewed
\* was submitted for a review.
LifecycleSpec == Lifecycle!Spec
=============================================================================
