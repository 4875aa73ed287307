-------------------------------- MODULE Tip --------------------------------
(***************************************************************************)
(* One Tip (targeted improvement plan) of WebCAF and the requests that     *)
(* change it.                                                              *)
(*                                                                         *)
(* A handler loads the row, changes the instance and writes all of it      *)
(* back.  Unlike Review.save(), Tip.save() compares nothing with the row:  *)
(* what keeps a plan consistent is that status and tip_data are always     *)
(* written together.  Some requests start from a page that was rendered    *)
(* earlier:                                                                *)
(*                                                                         *)
(*    idle -> [page ->] write -> idle                                      *)
(*             a form   load,    UPDATE                                    *)
(*             is open  change,  + COMMIT                                  *)
(*                                                                         *)
(* The answers in tip_data are kept under the position of a recommendation *)
(* in its outcome (REC-A1A1, REC-A1A2, ...), not under its text.           *)
(***************************************************************************)

CONSTANTS
    Requests,   \* request slots: how many requests can be in flight at once
    Priority,   \* positions of the priority recommendations
    Other,      \* positions of the other recommendations
    Answers,    \* what an answer can say
    Texts,      \* what a recommendation can say
    Handlers,   \* the handlers in use, a subset of AllHandlers
    None        \* no answer, no recommendation

Positions == Priority \cup Other

\* "Save" is the button of TipAdmin that only superusers see, "Rework" the
\* review behind the plan, "Crash" a killed worker or an abandoned page.
AllHandlers == {"TipRecommendationActionView", "TipRecommendationsView",
                "TipReviewAnswersView", "TipSubmitView", "TipAdmin", "Save",
                "Rework", "Crash"}

ASSUME TipAssumption ==
    /\ Handlers \subseteq AllHandlers
    /\ None \notin Answers
    /\ None \notin Texts
    /\ "declined" \in Answers

VARIABLES
    tip,             \* the row of webcaf_tip
    recommendations, \* of the review, by position
    visible,         \* the review carries review_finalised_at
    request,         \* the requests in flight
    overlapped,      \* history: some write landed on a row newer than it loaded
    outdated         \* history: some page was posted after the answers had changed

vars == <<tip, recommendations, visible, request, overlapped, outdated>>

-----------------------------------------------------------------------------
(* The row and the model methods                                           *)

TipStatus == {"to_do", "in_progress", "answers_confirmed", "review",
              "approved", "rejected"}

\* A RecommendationAction.  about is history: the text that was answered.
RecommendationAction ==
    [reviewed: {"yes", "no"}, answer: Answers, about: Texts]

Actions == [Positions -> RecommendationAction \cup {None}]

NoActions == [p \in Positions |-> None]

\* actions, confirmation and finalise are tip_data.  confirmation tells whether
\* recommendation_confirmation is there and, as history, the answers on the
\* page of the lead who gave it.
Rows == [status: TipStatus, actions: Actions,
         confirmation: Actions \cup {None}, finalise: BOOLEAN]

NewTip == [status |-> "to_do", actions |-> NoActions,
           confirmation |-> None, finalise |-> FALSE]

is_submitted(o) == o.status \in {"review", "approved"}

is_editable(o) ==
    o.status \in {"to_do", "in_progress", "rejected", "answers_confirmed"}

is_answers_confirmed(o) == o.confirmation # None

is_reviewed(o, p) == o.actions[p] # None /\ o.actions[p].reviewed = "yes"

\* get_review_recommendations: the positions at which the review has one.
Recommended == {p \in Positions : recommendations[p] # None}

is_ready_to_review_actions(o) == \A p \in Recommended : is_reviewed(o, p)

is_ready_to_submit(o) == is_ready_to_review_actions(o) /\ is_answers_confirmed(o)

\* Mutant: the confirmation outlives a change of the answers.
set_recommendation_action_Confirmed(o, answered) ==
    [o EXCEPT !.actions = [p \in Positions |-> IF p \in DOMAIN answered
                                               THEN answered[p] ELSE @[p]],
              !.status  = "in_progress"]

\* One call for each position in DOMAIN answered.
set_recommendation_action(o, answered) ==
    [o EXCEPT !.actions = [p \in Positions |-> IF p \in DOMAIN answered
                                               THEN answered[p] ELSE @[p]],
              !.confirmation = IF o.status = "answers_confirmed" THEN None ELSE @,
              !.status       = "in_progress"]

confirm_answers(o, read) ==
    [o EXCEPT !.confirmation = read, !.status = "answers_confirmed"]

submit_report(o) == [o EXCEPT !.finalise = TRUE, !.status = "review"]

\* Mutant: an approved plan is closed.
approve_Completed(o) == [o EXCEPT !.status = "completed"]

approve(o) == [o EXCEPT !.status = "approved"]

\* Mutant: the confirmation outlives the rejection.
reject_Confirmed(o) == [o EXCEPT !.status = "rejected"]

reject(o) == [o EXCEPT !.confirmation = None, !.status = "rejected"]

reopen(o) == [o EXCEPT !.confirmation = None, !.finalise = FALSE,
                       !.status = "in_progress"]

-----------------------------------------------------------------------------
(* Requests                                                                *)

Kinds == {"none", "user", "confirm", "admin"}

\* stale: the row has been written since this request loaded it.
InFlight == [pc: {"idle", "page", "write"}, kind: Kinds, obj: Rows, stale: BOOLEAN]

Idle == [pc |-> "idle", kind |-> "none", obj |-> NewTip, stale |-> FALSE]

Becomes(r, pc, kind, o) ==
    request' = [request EXCEPT ![r] =
                  [pc |-> pc, kind |-> kind, obj |-> o, stale |-> FALSE]]

Free(r, handler) == handler \in Handlers /\ request[r].pc = "idle"

OnPage(r, kind) == request[r].pc = "page" /\ request[r].kind = kind

Init ==
    /\ tip = NewTip
    /\ recommendations \in [Positions -> Texts \cup {None}]
    /\ visible = FALSE
    /\ request = [r \in Requests |-> Idle]
    /\ overlapped = FALSE
    /\ outdated = FALSE

\* A lead or a user of the organisation answers one recommendation, or saves
\* a draft of the answer (reviewed "no").
TipRecommendationActionView(r) ==
    /\ Free(r, "TipRecommendationActionView")
    /\ visible
    /\ is_editable(tip)
    /\ \E p \in Recommended, reviewed \in {"yes", "no"}, answer \in Answers :
          Becomes(r, "write", "user",
                  set_recommendation_action(tip,
                    [q \in {p} |-> [reviewed |-> reviewed, answer |-> answer,
                                    about |-> recommendations[q]]]))
    /\ UNCHANGED <<tip, recommendations, visible, overlapped, outdated>>

\* The other recommendations on the (filtered) list that have no answer are
\* declined together.  With none left the instance is saved as it was loaded.
TipRecommendationsView(r) ==
    /\ Free(r, "TipRecommendationsView")
    /\ visible
    /\ is_editable(tip)
    /\ \E listed \in SUBSET (Other \cap Recommended) :
          LET left == {p \in listed : tip.actions[p] = None}
          IN  Becomes(r, "write", "user",
                IF left = {} THEN tip
                ELSE set_recommendation_action(tip,
                       [p \in left |-> [reviewed |-> "yes", answer |-> "declined",
                                        about |-> recommendations[p]]]))
    /\ UNCHANGED <<tip, recommendations, visible, overlapped, outdated>>

\* The summary links to "Review your actions" when every answer is there, but
\* the page opens without; its button is enabled for a lead while the plan is in
\* progress.
TipReviewAnswersPage(r) ==
    /\ Free(r, "TipReviewAnswersView")
    /\ visible
    /\ tip.status = "in_progress"
    /\ Becomes(r, "page", "confirm", tip)
    /\ UNCHANGED <<tip, recommendations, visible, overlapped, outdated>>

\* Mutant: the POST looks at no status.
TipReviewAnswersView_AnyStatus(r) ==
    /\ OnPage(r, "confirm")
    /\ visible
    /\ Becomes(r, "write", "user", confirm_answers(tip, request[r].obj.actions))
    /\ outdated' = (outdated \/ tip.actions # request[r].obj.actions)
    /\ UNCHANGED <<tip, recommendations, visible, overlapped>>

\* The POST confirms the answers the row has by now, and looks at the status
\* only.
TipReviewAnswersView(r) ==
    /\ OnPage(r, "confirm")
    /\ visible
    /\ tip.status = "in_progress"
    /\ Becomes(r, "write", "user", confirm_answers(tip, request[r].obj.actions))
    /\ outdated' = (outdated \/ tip.actions # request[r].obj.actions)
    /\ UNCHANGED <<tip, recommendations, visible, overlapped>>

\* Mutant: the plan need not be ready.
TipSubmitView_NotReady(r) ==
    /\ Free(r, "TipSubmitView")
    /\ visible
    /\ ~is_submitted(tip)
    /\ Becomes(r, "write", "user", submit_report(tip))
    /\ UNCHANGED <<tip, recommendations, visible, overlapped, outdated>>

\* save() refuses a plan that is already submitted and a user who is not a lead.
TipSubmitView(r) ==
    /\ Free(r, "TipSubmitView")
    /\ visible
    /\ is_ready_to_submit(tip)
    /\ ~is_submitted(tip)
    /\ Becomes(r, "write", "user", submit_report(tip))
    /\ UNCHANGED <<tip, recommendations, visible, overlapped, outdated>>

\* The admin site shows the plan with its tip_data in a text area, read-only
\* for a department user, and buttons for the status it has now.
TipAdminPage(r) ==
    /\ Free(r, "TipAdmin")
    /\ is_submitted(tip) \/ "Save" \in Handlers
    /\ Becomes(r, "page", "admin", tip)
    /\ UNCHANGED <<tip, recommendations, visible, overlapped, outdated>>

\* The row with the tip_data of the page: what the model form makes of a POST.
Posted(r) == [request[r].obj EXCEPT !.status = tip.status]

\* The buttons of the page and, once more, the status; the superuser's Save.
TipAdmin(r) ==
    /\ OnPage(r, "admin")
    /\ LET page == request[r].obj
       IN  /\ \/ /\ page.status = "review"
                 /\ tip.status = "review"
                 /\ \E o \in {approve(Posted(r)), reject(Posted(r))} :
                       Becomes(r, "write", "admin", o)
              \/ /\ page.status = "approved"
                 /\ tip.status = "approved"
                 /\ Becomes(r, "write", "admin", reopen(Posted(r)))
              \/ /\ "Save" \in Handlers
                 /\ Becomes(r, "write", "admin", Posted(r))
           /\ outdated' = (outdated \/ Posted(r) # tip)
    /\ UNCHANGED <<tip, recommendations, visible, overlapped>>

\* save(): the whole row is written and every other instance of it is stale.
Write(r) ==
    /\ request[r].pc = "write"
    /\ tip' = request[r].obj
    /\ request' = [q \in Requests |->
                     IF q = r THEN Idle
                     ELSE [request[q] EXCEPT !.stale = (request[q].pc = "write")]]
    /\ overlapped' = (overlapped \/ request[r].stale)
    /\ UNCHANGED <<recommendations, visible, outdated>>

\* A worker is killed before the commit, or a page is abandoned.
Crash(r) ==
    /\ "Crash" \in Handlers
    /\ request[r].pc # "idle"
    /\ request' = [request EXCEPT ![r] = Idle]
    /\ UNCHANGED <<tip, recommendations, visible, overlapped, outdated>>

-----------------------------------------------------------------------------
(* The review behind the plan (see Review)                                 *)

\* A finalisation publishes the recommendations; the plan may be older.
FinaliseReview ==
    /\ ~visible
    /\ visible' = TRUE
    /\ UNCHANGED <<tip, recommendations, request, overlapped, outdated>>

\* rollback_to_in_progress() on the admin site takes the review, and with it
\* the plan, out of the users' sight.
UnfinaliseReview ==
    /\ "Rework" \in Handlers
    /\ visible
    /\ visible' = FALSE
    /\ UNCHANGED <<tip, recommendations, request, overlapped, outdated>>

\* Then recommendations are added, reworded and removed, and those behind a
\* removed one move up.
EditRecommendations ==
    /\ "Rework" \in Handlers
    /\ ~visible
    /\ recommendations' \in [Positions -> Texts \cup {None}]
    /\ UNCHANGED <<tip, visible, request, overlapped, outdated>>

Next ==
    \/ \E r \in Requests :
        \/ TipRecommendationActionView(r)
        \/ TipRecommendationsView(r)
        \/ TipReviewAnswersPage(r)
        \/ TipReviewAnswersView(r)
        \/ TipSubmitView(r)
        \/ TipAdminPage(r)
        \/ TipAdmin(r)
        \/ Write(r)
        \/ Crash(r)
    \/ FinaliseReview
    \/ UnfinaliseReview
    \/ EditRecommendations

Spec == Init /\ [][Next]_vars

-----------------------------------------------------------------------------
(* Properties                                                              *)

TypeOK ==
    /\ tip \in Rows
    /\ recommendations \in [Positions -> Texts \cup {None}]
    /\ visible \in BOOLEAN
    /\ request \in [Requests -> InFlight]
    /\ overlapped \in BOOLEAN
    /\ outdated \in BOOLEAN

\* A plan the department is asked to decide on, or has approved, answers every
\* recommendation and was confirmed and submitted, whatever requests overlap,
\* crash or come from old pages (TipSubmitView.get_object, Tip.submit_report,
\* set_recommendation_action).
SubmittedIsComplete ==
    is_submitted(tip) => is_ready_to_submit(tip) /\ tip.finalise

\* The confirmation in tip_data stands for the answers beside it: those the
\* lead read, unless the page was posted after they had changed.
ConfirmedWasRead ==
    ~outdated /\ is_answers_confirmed(tip) => tip.confirmation = tip.actions

\* Once submitted, only the department changes a plan, and it approves the
\* plan that was submitted.
AdminWrites == \E r \in Requests :
    request[r].kind = "admin" /\ request[r].pc = "write" /\ request'[r].pc = "idle"

SubmittedFrozen ==
    [][ ~overlapped' /\ ~outdated' /\ is_submitted(tip) /\ tip' # tip
        => /\ AdminWrites
           /\ is_submitted(tip') => tip'.actions = tip.actions ]_vars

\* The requests implement the life of a plan.
torn == overlapped \/ outdated

Lifecycle == INSTANCE TipLifecycle WITH
    Plans  <- Actions,
    NoPlan <- None,
    phase  <- IF torn THEN "torn" ELSE tip.status,
    plan   <- IF ~torn /\ (is_submitted(tip) \/ tip.status = "answers_confirmed")
              THEN tip.actions ELSE None

LifecycleSpec == Lifecycle!Spec

=============================================================================
