------------------------------- MODULE Reports -------------------------------
(***************************************************************************)
(* The content of a review, and the versions of its report.                *)
(*                                                                         *)
(* Assessors and reviewers fill in a review section by section; the link   *)
(* to "Create report" is shown when every section is complete.  Each time  *)
(* a report is created, or the completed row is saved again, the row goes  *)
(* into the history of the review.  A version of the report is no row of   *)
(* its own: all_versions rebuilds the list from the history, and a version *)
(* number is a position in that list.                                      *)
(*                                                                         *)
(* Pages stay open while others work, and a page can be opened by its      *)
(* address, without the link.  A POST is one step here: it loads the row   *)
(* afresh and saves it together with its history row; only the change form *)
(* of the admin site brings back the content of the day it was opened.     *)
(* What happens between load and save is the subject of Review.            *)
(***************************************************************************)
EXTENDS Naturals, Sequences, FiniteSets

CONSTANTS
    Users,          \* who may edit the review: assessors, reviewers, advisors
    Outcomes,       \* contributing outcomes of the framework
    HasPartial,     \* the outcomes with "partially achieved" statements
    Requirement,    \* least status an outcome needs under the CAF profile
    ReviewTypes,    \* what the assessment may be reviewed as
    Lists,          \* the lists of recommendations that a formset can hold
    Comments,       \* the comments asked for on each objective
    Details,        \* the additional information in use, out of AllDetails
    Chosen,         \* the statuses that operators give a review
    ImportedAs,     \* the statuses that operators give an imported review
    MaxSaves        \* bound: how often the row is saved

Statuses == {"to_do", "in_progress", "clarify", "completed", "cancelled"}

Decisions == {"achieved", "partially-achieved", "not-achieved"}

\* The categories of the pages that describe the review as a whole.
AllDetails == {"iar_period", "review_method", "quality_of_evidence",
               "company_details", "areas_of_good_practice",
               "areas_for_improvement"}

ASSUME ReportsAssumption ==
    /\ HasPartial \subseteq Outcomes
    /\ Requirement \in [Outcomes -> Decisions \cup {"none"}]
    /\ ReviewTypes \subseteq {"independent", "peer_review"}
    /\ <<>> \in Lists
    /\ Details \subseteq AllDetails
    /\ Chosen \subseteq Statuses
    /\ ImportedAs \subseteq Statuses
    /\ MaxSaves \in Nat

VARIABLES
    review_type,    \* the review type of the assessment
    review,         \* the row of webcaf_review
    history,        \* the responses of the completed rows of its history
    form,           \* the page that each user has open
    saves           \* how often the row was saved, for the bound

vars == <<review_type, review, history, form, saves>>

-----------------------------------------------------------------------------
(* The row                                                                 *)

\* A decision is not taken yet, or left blank by an import.
NotDecided == {"none", ""}

\* assessor_response_data: comments and details are the keys that are present.
\* Texts, and the recorded changes to the system, are left out.
Responses == [scope: BOOLEAN,
              decision: [Outcomes -> Decisions \cup NotDecided],
              recommendations: [Outcomes -> Lists],
              comments: SUBSET Comments,
              details: SUBSET Details]

Rows == [status: Statuses \cup {"none"}, response: Responses,
         completion: BOOLEAN, finalised: BOOLEAN]

NoReview == [status |-> "none",
             response |-> [scope |-> FALSE,
                           decision |-> [o \in Outcomes |-> "none"],
                           recommendations |-> [o \in Outcomes |-> <<>>],
                           comments |-> {}, details |-> {}],
             completion |-> FALSE, finalised |-> FALSE]

is_review_complete(r) == r.completion /\ r.status = "completed"

is_review_finalised(r) == is_review_complete(r) /\ r.finalised

\* Review.save(): a completed review keeps its response and its completion,
\* and a finalised one is not saved at all as long as it stays completed.
refused(r) ==
    /\ review.status = "completed"
    /\ r.status = "completed"
    /\ \/ r.completion # review.completion
       \/ r.response # review.response
       \/ is_review_finalised(review)

\* post_save adds the row to the history in the transaction of the save.
Save(r) ==
    /\ ~refused(r)
    /\ saves < MaxSaves
    /\ saves' = saves + 1
    /\ review' = r
    /\ history' = IF r.status = "completed"
                  THEN Append(history, r.response) ELSE history
    /\ UNCHANGED review_type

-----------------------------------------------------------------------------
(* Is it complete?                                                         *)

Score == [d \in Decisions |-> CASE d = "achieved" -> 3
                                [] d = "partially-achieved" -> 2
                                [] d = "not-achieved" -> 1]

\* Whether decision d on outcome o reaches what the CAF profile asks for.
min_profile_requirement_met(o, d) ==
    \/ Requirement[o] = "none"
    \/ d \in Decisions /\ Score[d] >= Score[Requirement[o]]

\* The objective page marks the recommendations of an outcome "Required".
recommendations_required(response, o) ==
    LET d == response.decision[o]
    IN  IF review_type = "peer_review"
        THEN d \in Decisions /\ ~min_profile_requirement_met(o, d)
        ELSE d \in {"not-achieved", "partially-achieved"}

\* Mutant: every review is held to the rule of the independent one.
is_outcome_complete_Independent(response, o) ==
    /\ response.decision[o] \notin NotDecided
    /\ response.decision[o] = "achieved" \/ response.recommendations[o] # <<>>

is_outcome_complete(response, o) ==
    LET d == response.decision[o]
    IN  /\ d \notin NotDecided
        /\ \/ response.recommendations[o] # <<>>
           \/ IF review_type = "peer_review"
              THEN min_profile_requirement_met(o, d) ELSE d = "achieved"

is_all_objectives_complete(response) ==
    /\ review_type = "peer_review" \/ response.comments = Comments
    /\ \A o \in Outcomes : is_outcome_complete(response, o)

\* A key that is present counts, whatever its text.
is_ready_to_submit(response) ==
    /\ is_all_objectives_complete(response)
    /\ response.scope
    /\ Details \ {"areas_of_good_practice", "areas_for_improvement"}
           \subseteq response.details

-----------------------------------------------------------------------------
(* Versions                                                                *)

\* Mutant: a response that comes back later is not listed twice.
all_versions_Distinct(h) ==
    {i \in DOMAIN h : \A j \in DOMAIN h : j > i => h[j] # h[i]}

\* The rows that are versions: of neighbours that are the same, the newest.
all_versions(h) == {i \in DOMAIN h : i = Len(h) \/ h[i] # h[i + 1]}

\* The position of row i, counted from the oldest version.
version_number(h, i) == Cardinality({j \in all_versions(h) : j <= i})

Listed(h, n) == {i \in all_versions(h) : version_number(h, i) = n}

NoReport == [scope |-> "none"]

get_version(h, n) == CHOOSE i \in Listed(h, n) : TRUE

\* What the pages, the PDF and the workbook of version n are made from.
ShowReportView(h, n) == IF Listed(h, n) = {} THEN NoReport ELSE h[get_version(h, n)]

-----------------------------------------------------------------------------
(* Pages                                                                   *)

Pages == {"none", "create", "recommendations", "confirmation", "import", "admin"}

\* comments: the list shown for confirmation; row: what a change form posts
\* back, or what a workbook says.  linked is a history variable: the summary led
\* to the page, and no change form has put back another content since.
Forms == [page: Pages, outcome: Outcomes \cup {"none"}, comments: Lists,
          row: Rows, linked: BOOLEAN]

NoForm == [page |-> "none", outcome |-> "none", comments |-> <<>>,
           row |-> NoReview, linked |-> FALSE]

Open(u, page, o, comments) ==
    form' = [form EXCEPT ![u] = [NoForm EXCEPT !.page = page, !.outcome = o,
                                               !.comments = comments]]

Close(u) == form' = [form EXCEPT ![u] = NoForm]

Idle(u) == form[u].page = "none" /\ review.status # "none"

Stored == UNCHANGED <<review_type, review, history, saves>>

\* A form that is saved and leads back to a summary.
form_valid(r) == Save(r) /\ UNCHANGED form

\* The submission of the assessment has created the review, or the assessment
\* was imported and has none.
Init ==
    /\ review_type \in ReviewTypes
    /\ review \in {NoReview, [NoReview EXCEPT !.status = "to_do"]}
    /\ history = <<>>
    /\ form = [u \in Users |-> NoForm]
    /\ saves = 0

\* A form that is refused is shown again; any page may be left for another.
Leave(u) == form[u].page # "none" /\ Close(u) /\ Stored

-----------------------------------------------------------------------------
(* The sections of the review                                              *)

set_outcome_review(o, d) == [review EXCEPT !.response.decision[o] = d]

\* Mutant: the section of the outcome is written anew.
set_outcome_recommendations_Anew(o, comments) ==
    [review EXCEPT !.response.recommendations[o] = comments,
                   !.response.decision[o] = "none"]

set_outcome_recommendations(o, comments) ==
    [review EXCEPT !.response.recommendations[o] = comments]

set_objective_comments(c) == [review EXCEPT !.response.comments = @ \cup {c}]

set_additional_detail(d) == [review EXCEPT !.response.details = @ \cup {d}]

\* "Partially achieved" is a choice only where the outcome has such statements.
OutcomeView(u) ==
    /\ Idle(u)
    /\ \E o \in Outcomes, d \in Decisions :
          /\ d = "partially-achieved" => o \in HasPartial
          /\ form_valid(set_outcome_review(o, d))

\* The formset starts with what is stored; any list can be made of it.
AddOutcomeRecommendationPage(u) ==
    /\ Idle(u)
    /\ \E o \in Outcomes : Open(u, "recommendations", o, <<>>)
    /\ Stored

\* Forms are added, changed and marked for deletion; when none of the others
\* has a blank field the formset is shown for confirmation.
RecommendationsPreview(u) ==
    /\ form[u].page = "recommendations"
    /\ \E comments \in Lists :
          Open(u, "confirmation", form[u].outcome, comments)
    /\ Stored

RecommendationsChange(u) ==
    /\ form[u].page = "confirmation"
    /\ Open(u, "recommendations", form[u].outcome, <<>>)
    /\ Stored

\* The list of the page replaces the list that is stored by then.
RecommendationsConfirm(u) ==
    /\ form[u].page = "confirmation"
    /\ Save(set_outcome_recommendations(form[u].outcome, form[u].comments))
    /\ Close(u)

AddObjectiveCommentsView(u) ==
    /\ Idle(u)
    /\ \E c \in Comments : form_valid(set_objective_comments(c))

AddReviewCommentsView(u) ==
    /\ Idle(u)
    /\ \E d \in Details : form_valid(set_additional_detail(d))

SystemAndScopeView(u) ==
    /\ Idle(u)
    /\ form_valid([review EXCEPT !.response.scope = TRUE,
                                 !.status = IF @ = "to_do" THEN "in_progress" ELSE @])

\* What the review's copy of the system says has to be confirmed again.
EditReviewSystemView(u) ==
    /\ Idle(u)
    /\ form_valid([review EXCEPT !.response.scope = FALSE])

-----------------------------------------------------------------------------
(* Reports                                                                 *)

\* The summary links to the page of a review that is ready; the page itself
\* opens for any.
CreateReportPage(u) ==
    /\ Idle(u)
    /\ form' = [form EXCEPT ![u] =
                   [NoForm EXCEPT !.page = "create",
                                  !.linked = is_ready_to_submit(review.response)]]
    /\ Stored

\* Mutant: the status gets a misspelt value.
CreateReportView_Misspelt(u) ==
    /\ form[u].page = "create"
    /\ review.status = "in_progress"
    /\ Save([review EXCEPT !.completion = TRUE, !.status = "complete"])
    /\ Close(u)

\* The POST looks at the status, not at the readiness.
CreateReportView(u) ==
    /\ form[u].page = "create"
    /\ review.status = "in_progress"
    /\ Save([review EXCEPT !.completion = TRUE, !.status = "completed"])
    /\ Close(u)

ReopenReviewView(u) ==
    /\ Idle(u)
    /\ is_review_complete(review)
    /\ ~is_review_finalised(review)
    /\ form_valid([review EXCEPT !.completion = FALSE, !.status = "in_progress"])

FinaliseReview(u) ==
    /\ Idle(u)
    /\ is_review_complete(review)
    /\ form_valid([review EXCEPT !.finalised = TRUE])

-----------------------------------------------------------------------------
(* The admin site                                                          *)

\* The change form shows the whole row, the content as a read-only field.
ReviewAdminPage(u) ==
    /\ Idle(u)
    /\ form' = [form EXCEPT ![u] = [NoForm EXCEPT !.page = "admin", !.row = review]]
    /\ Stored

\* It posts the row back as it was then, with any status or "Un Finalise".
ReviewAdmin(u) ==
    /\ form[u].page = "admin"
    /\ LET posted == form[u].row
       IN  \/ \E st \in Chosen : Save([posted EXCEPT !.status = st])
          \/ /\ is_review_finalised(posted)
             /\ Save([posted EXCEPT !.completion = FALSE, !.finalised = FALSE,
                                    !.status = "in_progress"])
    /\ form' = [v \in Users |->
                   IF v = u THEN NoForm
                   ELSE [form[v] EXCEPT !.linked =
                            @ /\ review'.response = review.response]]

\* What a workbook makes of the review: every key, most of them blank, and
\* the stamps of a completed and finalised review.
assessment_json_to_review_data(decision) ==
    [scope |-> FALSE, decision |-> decision,
     recommendations |-> [o \in Outcomes |-> <<>>],
     comments |-> Comments, details |-> Details]

\* The workbook of an assessment that has no review is shown for confirmation.
ImportPreview(u) ==
    /\ form[u].page = "none"
    /\ review.status = "none"
    /\ \E decision \in [Outcomes -> Decisions \cup {""}] :
          form' = [form EXCEPT ![u] =
                     [NoForm EXCEPT !.page = "import",
                         !.row = [status |-> "none", completion |-> TRUE,
                                  finalised |-> TRUE,
                                  response |-> assessment_json_to_review_data(decision)]]]
    /\ Stored

\* The review is created unless another was, with the status chosen on the page.
ImportCreate(u) ==
    /\ form[u].page = "import"
    /\ review.status = "none"
    /\ \E st \in ImportedAs :
          Save([form[u].row EXCEPT !.status = st])
    /\ Close(u)

Next ==
    \E u \in Users :
        \/ Leave(u)
        \/ OutcomeView(u)
        \/ AddOutcomeRecommendationPage(u)
        \/ RecommendationsPreview(u)
        \/ RecommendationsChange(u)
        \/ RecommendationsConfirm(u)
        \/ AddObjectiveCommentsView(u)
        \/ AddReviewCommentsView(u)
        \/ SystemAndScopeView(u)
        \/ EditReviewSystemView(u)
        \/ CreateReportPage(u)
        \/ CreateReportView(u)
        \/ ReopenReviewView(u)
        \/ FinaliseReview(u)
        \/ ReviewAdminPage(u)
        \/ ReviewAdmin(u)
        \/ ImportPreview(u)
        \/ ImportCreate(u)

Spec == Init /\ [][Next]_vars

-----------------------------------------------------------------------------
(* Properties                                                              *)

TypeOK ==
    /\ review_type \in ReviewTypes
    /\ review \in Rows
    /\ history \in Seq(Responses)
    /\ form \in [Users -> Forms]
    /\ saves \in 0..MaxSaves

\* "Earlier versions of the report are saved for audit purposes" (the report
\* history page): once there is a version n, it shows what it showed when it
\* was first listed, though its number is worked out anew at every request
\* (Review.all_versions, Review.get_version).
VersionsKeepTheirNumbers ==
    [][\A i \in all_versions(history) :
          LET n == version_number(history, i)
          IN  ShowReportView(history', n) = ShowReportView(history, n)]_vars

\* What a report is read for besides its recommendations: a decision on every
\* outcome, the comments on the objectives, the details of the review.
FilledIn(response) ==
    /\ \A o \in Outcomes : response.decision[o] \notin NotDecided
    /\ review_type = "peer_review" \/ response.comments = Comments
    /\ Details \ {"areas_of_good_practice", "areas_for_improvement"}
           \subseteq response.details

\* CreateReportView looks at no more than the status, maybe long after the
\* summary has shown that the review is ready.  Still, a report that is created
\* from a page to which the summary led is filled in, whatever pages others have
\* sent meanwhile; only a change form of the admin site can take that away.
LinkedReportsAreFilledIn ==
    [][\A u \in Users :
          form[u].linked /\ form'[u].page = "none" /\ history' # history
          => FilledIn(history'[Len(history')])]_vars

\* The objective pages ask for what Review.is_objective_complete goes by: no
\* more is missing from the objectives than what is marked as required.
AsksForWhatIsMissing ==
    is_all_objectives_complete(review.response) <=>
        /\ review_type = "peer_review" \/ review.response.comments = Comments
        /\ \A o \in Outcomes :
              /\ review.response.decision[o] \notin NotDecided
              /\ recommendations_required(review.response, o) =>
                     review.response.recommendations[o] # <<>>
=============================================================================
