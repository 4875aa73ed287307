------------------------------- MODULE Review -------------------------------
(***************************************************************************)
(* One Review row of WebCAF and the HTTP requests that change it.          *)
(*                                                                         *)
(* A request handler loads the row into a model instance, changes the      *)
(* instance in memory and calls Review.save().  save() reads the row again *)
(* and refuses three kinds of save; only then is the whole row written.    *)
(* PostgreSQL runs these as separate statements at READ COMMITTED with no  *)
(* row lock, and gunicorn serves the requests from several workers, so     *)
(* other requests run between any two of those steps.                      *)
(*                                                                         *)
(* A request is therefore a small process:                                 *)
(*                                                                         *)
(*    idle -> [page ->] [effects ->] save -> write -> idle                 *)
(*              a form    Tip row     re-read  UPDATE                      *)
(*              is open   created     + check  + COMMIT                    *)
(***************************************************************************)
EXTENDS Naturals

CONSTANTS
    Requests,   \* request slots: how many requests can be in flight at once
    Sections,   \* separately edited parts of assessor_response_data
    Values,     \* what a section can hold; 0 is "not complete"
    Handlers,   \* the handlers in use, a subset of AllHandlers
    Leads,      \* whether a user is an organisation lead: both, or one
    Imported,   \* TRUE: the row may have been created by the Excel import
    MaxClock,   \* bound: number of saves
    MaxSystem   \* bound: number of versions of the System row

AllHandlers == {"OutcomeView", "SystemAndScopeView", "CreateReportView",
                "FinaliseReview", "ReopenReviewView", "EditReviewSystemView",
                "ReviewAdmin"}

ASSUME ReviewAssumption ==
    /\ Values \subseteq Nat
    /\ 0 \in Values
    /\ Handlers \subseteq AllHandlers
    /\ Leads \subseteq BOOLEAN
    /\ Imported \in BOOLEAN
    /\ MaxClock \in Nat
    /\ MaxSystem \in Nat

VARIABLES
    review,     \* the row of webcaf_review
    tip,        \* the Tip row of this review exists
    system,     \* version of the System row's description, 1 at first
    clock,      \* the last value timezone.now() gave to a save
    request,    \* the requests in flight
    overlapped, \* history: some write landed on a row newer than its check
    acked       \* history: the answers that the users were told are saved

vars == <<review, tip, system, clock, request, overlapped, acked>>

-----------------------------------------------------------------------------
(* The row and the model methods                                           *)

Statuses == {"to_do", "in_progress", "clarify", "completed", "cancelled"}

\* scope is the version of the System description that was confirmed, 0 when
\* system_and_scope carries no "completed"; records counts assessor_actions.
\* scope, records and response together are assessor_response_data.
Rows == [status: Statuses, scope: Nat, records: Nat,
         response: [Sections -> Values],
         completion: BOOLEAN, finalised: BOOLEAN, last_updated: Nat]

is_review_complete(o)  == o.completion /\ o.status = "completed"
is_review_finalised(o) == is_review_complete(o) /\ o.finalised

set_outcome_review(o, s, v) == [o EXCEPT !.response[s] = v]

confirm_system_and_scope(o, version) ==
    [o EXCEPT !.scope  = version,
              !.status = IF o.status = "to_do" THEN "in_progress" ELSE @]

\* Mutant: the status gets a misspelt value.
mark_review_complete_Misspelt(o) ==
    [o EXCEPT !.completion = TRUE, !.status = "complete"]

mark_review_complete(o) ==
    [o EXCEPT !.completion = TRUE, !.status = "completed"]

finalise_review(o) == [o EXCEPT !.finalised = TRUE]

reopen(o) == [o EXCEPT !.completion = FALSE, !.status = "in_progress"]

rollback_to_in_progress(o) ==
    [o EXCEPT !.completion = FALSE, !.finalised = FALSE,
              !.status = "in_progress"]

record_change(o) == [o EXCEPT !.records = @ + 1, !.scope = 0]

same_response(a, b) ==
    /\ a.scope = b.scope
    /\ a.records = b.records
    /\ a.response = b.response

\* Mutants of the ValidationErrors: without the optimistic lock, without the
\* comparison of the response, and without the test that old is finalised.
refused_NoLock(o, old, can_edit) ==
    \/ /\ old.status = "completed" /\ o.status = "completed"
       /\ \/ o.completion # old.completion
          \/ ~same_response(o, old)
          \/ is_review_finalised(old)
    \/ ~can_edit

refused_NoComparison(o, old, can_edit) ==
    \/ /\ old.status = "completed" /\ o.status = "completed"
       /\ is_review_finalised(old)
    \/ ~can_edit
    \/ old.last_updated # o.last_updated

refused_FinalisedIgnored(o, old, can_edit) ==
    \/ /\ old.status = "completed" /\ o.status = "completed"
       /\ \/ o.completion # old.completion
          \/ ~same_response(o, old)
    \/ ~can_edit
    \/ old.last_updated # o.last_updated

\* The ValidationErrors of Review.save(): o is the instance, old the row that
\* save() has just read.  o.last_updated is _original_last_updated.
refused(o, old, can_edit) ==
    \/ /\ old.status = "completed"
       /\ o.status = "completed"
       /\ \/ o.completion # old.completion
          \/ ~same_response(o, old)
          \/ is_review_finalised(old)
    \/ ~can_edit
    \/ old.last_updated # o.last_updated

-----------------------------------------------------------------------------
(* Requests                                                                *)

NewRow == [status |-> "to_do", scope |-> 0, records |-> 0,
           response |-> [s \in Sections |-> 0],
           completion |-> FALSE, finalised |-> FALSE, last_updated |-> 0]

\* An imported row carries both stamps, whatever status was chosen for it.
ImportedRows == {[NewRow EXCEPT !.status = st, !.completion = TRUE,
                                !.finalised = TRUE] : st \in Statuses}

Phases == {"idle", "page", "effects", "record", "save", "write"}
Kinds  == AllHandlers \cup {"none", "confirm", "record_change"}

InFlight == [pc: Phases, kind: Kinds, lead: BOOLEAN, obj: Rows,
              edited: SUBSET Sections, read: Nat, stamp: Nat]

Idle == [pc |-> "idle", kind |-> "none", lead |-> FALSE, obj |-> NewRow,
         edited |-> {}, read |-> 0, stamp |-> 0]

\* What request r becomes when its handler has worked on instance o.
Becomes(r, pc, kind, lead, o, edited) ==
    request' = [request EXCEPT ![r] =
                  [pc |-> pc, kind |-> kind, lead |-> lead, obj |-> o,
                   edited |-> edited, read |-> 0, stamp |-> 0]]

Done(r) == request' = [request EXCEPT ![r] = Idle]

Free(r, handler) == handler \in Handlers /\ request[r].pc = "idle"

\* get_object: an organisation_lead sees the review with can_edit False.  The
\* review re-read by record_change never gets the attribute.
can_edit(q) == q.kind = "record_change" \/ ~q.lead

Init ==
    /\ review \in {NewRow} \cup (IF Imported THEN ImportedRows ELSE {})
    /\ tip = FALSE
    /\ system = 1
    /\ clock = 0
    /\ request = [r \in Requests |-> Idle]
    /\ overlapped = FALSE
    /\ acked = review.response

\* One section of the response is rewritten: an outcome's answers, its
\* recommendations, or a comment.  No status is required.
OutcomeView(r) ==
    /\ Free(r, "OutcomeView")
    /\ \E s \in Sections, v \in Values, lead \in Leads :
          Becomes(r, "save", "OutcomeView", lead,
                  set_outcome_review(review, s, v), {s})
    /\ UNCHANGED <<review, tip, system, clock, overlapped, acked>>

\* super().form_valid saves the instance as loaded; the confirmation follows
\* in a save of its own (see Saved).  It follows a refused first save too, but
\* what refused the first save refuses the second.
SystemAndScopeView(r) ==
    /\ Free(r, "SystemAndScopeView")
    /\ \E lead \in Leads :
          Becomes(r, "save", "SystemAndScopeView", lead, review, {})
    /\ UNCHANGED <<review, tip, system, clock, overlapped, acked>>

\* The summary page links to "Create report" for a review that is ready, but the
\* page opens for any (see Reports).
CreateReportPage(r) ==
    /\ Free(r, "CreateReportView")
    /\ \E lead \in Leads :
          Becomes(r, "page", "CreateReportView", lead, NewRow, {})
    /\ UNCHANGED <<review, tip, system, clock, overlapped, acked>>

\* The POST looks at the status only.
CreateReportView(r) ==
    /\ request[r].pc = "page"
    /\ request[r].kind = "CreateReportView"
    /\ review.status = "in_progress"
    /\ Becomes(r, "save", "CreateReportView", request[r].lead,
               mark_review_complete(review), {})
    /\ UNCHANGED <<review, tip, system, clock, overlapped, acked>>

\* Only a reviewer or an assessor is admitted, never a lead.
FinaliseReview(r) ==
    /\ Free(r, "FinaliseReview")
    /\ is_review_complete(review)
    /\ Becomes(r, "effects", "FinaliseReview", FALSE,
               finalise_review(review), {})
    /\ UNCHANGED <<review, tip, system, clock, overlapped, acked>>

\* Mutant: finalise_review() creates no Tip.
FinaliseEffects_NoTip(r) ==
    /\ request[r].pc = "effects"
    /\ request' = [request EXCEPT ![r].pc = "save"]
    /\ UNCHANGED <<review, tip, system, clock, overlapped, acked>>

\* finalise_review() commits the Tip in a transaction of its own and the
\* e-mails go out, both before the review itself is saved.
FinaliseEffects(r) ==
    /\ request[r].pc = "effects"
    /\ tip' = TRUE
    /\ request' = [request EXCEPT ![r].pc = "save"]
    /\ UNCHANGED <<review, system, clock, overlapped, acked>>

\* Mutant: a finalised review may be reopened.
ReopenReviewView_Finalised(r) ==
    /\ Free(r, "ReopenReviewView")
    /\ is_review_complete(review)
    /\ \E lead \in Leads :
          Becomes(r, "save", "ReopenReviewView", lead, reopen(review), {})
    /\ UNCHANGED <<review, tip, system, clock, overlapped, acked>>

\* reopen() raises for a finalised review.
ReopenReviewView(r) ==
    /\ Free(r, "ReopenReviewView")
    /\ is_review_complete(review)
    /\ ~is_review_finalised(review)
    /\ \E lead \in Leads :
          Becomes(r, "save", "ReopenReviewView", lead, reopen(review), {})
    /\ UNCHANGED <<review, tip, system, clock, overlapped, acked>>

\* The System row is saved first, by a form that knows nothing of the review.
EditReviewSystemView(r) ==
    /\ Free(r, "EditReviewSystemView")
    /\ system < MaxSystem
    /\ system' = system + 1
    /\ \E lead \in Leads :
          Becomes(r, "record", "EditReviewSystemView", lead, NewRow, {})
    /\ UNCHANGED <<review, tip, clock, overlapped, acked>>

\* Then the review is read, the change recorded and the confirmation reset.
RecordChange(r) ==
    /\ request[r].pc = "record"
    /\ Becomes(r, "save", "record_change", request[r].lead,
               record_change(review), {})
    /\ UNCHANGED <<review, tip, system, clock, overlapped, acked>>

\* The admin change form holds the whole review_data as a read-only field and
\* posts it back with the status.
ReviewAdminPage(r) ==
    /\ Free(r, "ReviewAdmin")
    /\ Becomes(r, "page", "ReviewAdmin", FALSE, review, {})
    /\ UNCHANGED <<review, tip, system, clock, overlapped, acked>>

\* "Un Finalise" is offered for a finalised review and needs the posted status
\* to be completed; otherwise any status may be chosen.
ReviewAdmin(r) ==
    /\ request[r].pc = "page"
    /\ request[r].kind = "ReviewAdmin"
    /\ LET posted == [request[r].obj EXCEPT !.last_updated = review.last_updated]
       IN  \/ \E st \in Statuses :
                 Becomes(r, "save", "ReviewAdmin", FALSE,
                         [posted EXCEPT !.status = st], {})
           \/ /\ is_review_finalised(request[r].obj)
              /\ Becomes(r, "save", "ReviewAdmin", FALSE,
                         rollback_to_in_progress(posted), {})
    /\ UNCHANGED <<review, tip, system, clock, overlapped, acked>>

\* save() re-reads the row and lets the instance pass; auto_now stamps it.
SaveChecked(r) ==
    /\ request[r].pc = "save"
    /\ ~refused(request[r].obj, review, can_edit(request[r]))
    /\ clock < MaxClock
    /\ clock' = clock + 1
    /\ request' = [request EXCEPT ![r].pc = "write", ![r].stamp = clock + 1,
                                  ![r].read = review.last_updated]
    /\ UNCHANGED <<review, tip, system, overlapped, acked>>

\* A ValidationError ends the request: as a form error, or as a server error
\* where the save is outside the mixin's try.
SaveRefused(r) ==
    /\ request[r].pc = "save"
    /\ refused(request[r].obj, review, can_edit(request[r]))
    /\ Done(r)
    /\ UNCHANGED <<review, tip, system, clock, overlapped, acked>>

\* What the handler does with the saved instance.
Saved(r, o) ==
    IF request[r].kind = "SystemAndScopeView"
    THEN Becomes(r, "save", "confirm", request[r].lead,
                 confirm_system_and_scope(o, system), {})
    ELSE Done(r)

SaveWritten(r) ==
    /\ request[r].pc = "write"
    /\ review' = [request[r].obj EXCEPT !.last_updated = request[r].stamp]
    /\ overlapped' = (overlapped \/ review.last_updated # request[r].read)
    /\ acked' = [s \in Sections |-> IF s \in request[r].edited
                                   THEN request[r].obj.response[s]
                                   ELSE acked[s]]
    /\ Saved(r, review')
    /\ UNCHANGED <<tip, system, clock>>

\* A worker is killed (timeout, deploy) or a form is abandoned: what is
\* committed stays, the rest of the request never happens.
Crash(r) ==
    /\ request[r].pc # "idle"
    /\ Done(r)
    /\ UNCHANGED <<review, tip, system, clock, overlapped, acked>>

Next ==
    \E r \in Requests :
        \/ OutcomeView(r)
        \/ SystemAndScopeView(r)
        \/ CreateReportPage(r)
        \/ CreateReportView(r)
        \/ FinaliseReview(r)
        \/ FinaliseEffects(r)
        \/ ReopenReviewView(r)
        \/ EditReviewSystemView(r)
        \/ RecordChange(r)
        \/ ReviewAdminPage(r)
        \/ ReviewAdmin(r)
        \/ SaveChecked(r)
        \/ SaveRefused(r)
        \/ SaveWritten(r)
        \/ Crash(r)

Spec == Init /\ [][Next]_vars

-----------------------------------------------------------------------------
(* Properties                                                              *)

TypeOK ==
    /\ review \in Rows
    /\ tip \in BOOLEAN
    /\ system \in 1..(MaxSystem + 1)
    /\ clock \in Nat
    /\ request \in [Requests -> InFlight]
    /\ overlapped \in BOOLEAN
    /\ acked \in [Sections -> Values]

\* A finalised review has its improvement plan: the organisation can always
\* act on the recommendations of a final report (Review.finalise_review).
FinalisedHasTip == is_review_finalised(review) => tip

\* The optimistic lock of Review.save() loses no answer a user was told is
\* saved, unless two saves overlapped between the re-read and the write.
AckedAnswersKept == ~overlapped => review.response = acked

\* Review.save(): as long as a review stays completed, the assessor's response
\* and the completion stamp are frozen (again unless saves overlapped).
CompletedFrozen ==
    [][ ~overlapped' /\ review.status = "completed" /\ review'.status = "completed"
        => same_response(review, review') /\ review'.completion = review.completion ]_vars

\* Nothing but the admin site touches a finalised review.
AdminWrites == \E r \in Requests :
    /\ request[r].kind = "ReviewAdmin"
    /\ request[r].pc = "write"
    /\ request'[r].pc = "idle"

FinalisedFrozen ==
    [][ ~overlapped' /\ is_review_finalised(review) /\ review' # review
        => AdminWrites ]_vars

\* The requests of the users implement the serial life of a review.
Phase ==
    IF overlapped THEN "torn"
    ELSE IF is_review_finalised(review) THEN "finalised" ELSE review.status

Lifecycle == INSTANCE ReviewLifecycle WITH phase <- Phase
LifecycleSpec == Lifecycle!Spec

\* The unconditional form, which the code's own documentation states.

\* "... the data has been updated by another user (optimistic locking)" is
\* refused (BaseReviewMixin.form_valid): no acknowledged answer is ever lost.
NoLostAnswer == review.response = acked
=============================================================================
