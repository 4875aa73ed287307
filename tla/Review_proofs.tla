--------------------------- MODULE Review_proofs ---------------------------
(***************************************************************************)
(* Proofs about Review for every number of requests, sections and answers. *)
(*                                                                         *)
(* TypeOK is inductive on its own.  The two safety results need more:      *)
(* TipInv follows a finalised instance from the handler to the row, and    *)
(* LockInv says what the stamps of the optimistic lock tell two requests   *)
(* apart by.                                                               *)
(***************************************************************************)
EXTENDS Review, TLAPS

-----------------------------------------------------------------------------
(* Type correctness                                                        *)

\* The model methods map rows to rows.
LEMMA MethodsType ==
    ASSUME NEW o \in Rows
    PROVE  /\ \A s \in Sections, v \in Values : set_outcome_review(o, s, v) \in Rows
           /\ \A version \in Nat : confirm_system_and_scope(o, version) \in Rows
           /\ mark_review_complete(o) \in Rows
           /\ finalise_review(o) \in Rows
           /\ reopen(o) \in Rows
           /\ rollback_to_in_progress(o) \in Rows
           /\ record_change(o) \in Rows
<1>1. \A s \in Sections, v \in Values : set_outcome_review(o, s, v) \in Rows
    <2> TAKE s \in Sections, v \in Values
    <2>1. [o.response EXCEPT ![s] = v] \in [Sections -> Values]
        BY DEF Rows
    <2>2. set_outcome_review(o, s, v)
            = [o EXCEPT !.response = [o.response EXCEPT ![s] = v]]
        BY DEF set_outcome_review
    <2> QED
        BY <2>1, <2>2 DEF Rows
<1>2. \A version \in Nat : confirm_system_and_scope(o, version) \in Rows
    BY DEF confirm_system_and_scope, Rows, Statuses
<1>3. mark_review_complete(o) \in Rows /\ finalise_review(o) \in Rows
    BY DEF mark_review_complete, finalise_review, Rows, Statuses
<1>4. reopen(o) \in Rows /\ rollback_to_in_progress(o) \in Rows
    BY DEF reopen, rollback_to_in_progress, Rows, Statuses
<1>5. record_change(o) \in Rows
    <2>1. o.records + 1 \in Nat /\ 0 \in Nat
        BY DEF Rows
    <2> QED
        BY <2>1 DEF record_change, Rows
<1> QED
    BY <1>1, <1>2, <1>3, <1>4, <1>5

\* A row that was never saved is a row, and an idle slot is a slot.
LEMMA NewType == NewRow \in Rows /\ Idle \in InFlight
    BY ReviewAssumption
    DEF NewRow, Rows, Statuses, Idle, InFlight, Phases, Kinds, AllHandlers

\* Becomes and Done keep the type of the request table.
LEMMA BecomesType ==
    ASSUME TypeOK, NEW r \in Requests, NEW pc \in Phases, NEW kind \in Kinds,
           NEW lead \in BOOLEAN, NEW o \in Rows, NEW edited \in SUBSET Sections,
           Becomes(r, pc, kind, lead, o, edited)
    PROVE  request' \in [Requests -> InFlight]
    BY DEF TypeOK, Becomes, InFlight

LEMMA DoneType ==
    ASSUME TypeOK, NEW r \in Requests, Done(r)
    PROVE  request' \in [Requests -> InFlight]
    BY NewType DEF TypeOK, Done

LEMMA TypeInit == Init => TypeOK
<1> SUFFICES ASSUME Init PROVE TypeOK
    OBVIOUS
<1>1. review \in Rows
    <2>1. ASSUME NEW st \in Statuses
          PROVE  [NewRow EXCEPT !.status = st, !.completion = TRUE,
                                !.finalised = TRUE] \in Rows
        BY NewType DEF Rows
    <2> QED
        BY <2>1, NewType DEF Init, ImportedRows
<1>2. request \in [Requests -> InFlight]
    BY NewType DEF Init
<1>3. acked \in [Sections -> Values]
    BY <1>1 DEF Init, Rows
<1>4. system \in 1..(MaxSystem + 1) /\ clock \in Nat
    BY ReviewAssumption DEF Init
<1> QED
    BY <1>1, <1>2, <1>3, <1>4 DEF Init, TypeOK

\* The slots' phases and kinds that the handlers name.
LEMMA Names ==
    /\ {"page", "effects", "record", "save", "write"} \subseteq Phases
    /\ AllHandlers \cup {"confirm", "record_change"} \subseteq Kinds
    BY DEF Phases, Kinds

LEMMA TypeStep == TypeOK /\ [Next]_vars => TypeOK'
<1> SUFFICES ASSUME TypeOK, [Next]_vars PROVE TypeOK'
    OBVIOUS
<1> USE ReviewAssumption, Names, NewType
<1>0. CASE UNCHANGED vars
    BY <1>0 DEF TypeOK, vars
<1>1. ASSUME NEW r \in Requests, OutcomeView(r) PROVE TypeOK'
    <2>1. review \in Rows
        BY DEF TypeOK
    <2>2. PICK s \in Sections, v \in Values, lead \in Leads :
             Becomes(r, "save", "OutcomeView", lead,
                     set_outcome_review(review, s, v), {s})
        BY <1>1 DEF OutcomeView
    <2>3. set_outcome_review(review, s, v) \in Rows /\ {s} \in SUBSET Sections
        BY <2>1, MethodsType
    <2>4. request' \in [Requests -> InFlight]
        BY <2>2, <2>3, BecomesType DEF AllHandlers
    <2> QED
        BY <1>1, <2>4 DEF OutcomeView, TypeOK
<1>2. ASSUME NEW r \in Requests, SystemAndScopeView(r) PROVE TypeOK'
    <2>1. request' \in [Requests -> InFlight]
        BY <1>2, BecomesType DEF SystemAndScopeView, AllHandlers, TypeOK
    <2> QED
        BY <1>2, <2>1 DEF SystemAndScopeView, TypeOK
<1>3. ASSUME NEW r \in Requests, CreateReportPage(r) PROVE TypeOK'
    <2>1. request' \in [Requests -> InFlight]
        BY <1>3, BecomesType DEF CreateReportPage, AllHandlers, TypeOK
    <2> QED
        BY <1>3, <2>1 DEF CreateReportPage, TypeOK
<1>4. ASSUME NEW r \in Requests, CreateReportView(r) PROVE TypeOK'
    <2>1. review \in Rows /\ request[r].lead \in BOOLEAN
        BY DEF TypeOK, InFlight
    <2>2. request' \in [Requests -> InFlight]
        BY <1>4, <2>1, MethodsType, BecomesType DEF CreateReportView, AllHandlers
    <2> QED
        BY <1>4, <2>2 DEF CreateReportView, TypeOK
<1>5. ASSUME NEW r \in Requests, FinaliseReview(r) PROVE TypeOK'
    <2>1. review \in Rows
        BY DEF TypeOK
    <2>2. finalise_review(review) \in Rows
        BY <2>1, MethodsType
    <2>3. request' \in [Requests -> InFlight]
        BY <1>5, <2>2 DEF FinaliseReview, AllHandlers, Becomes, TypeOK, InFlight
    <2> QED
        BY <1>5, <2>3 DEF FinaliseReview, TypeOK
<1>6. ASSUME NEW r \in Requests, FinaliseEffects(r) PROVE TypeOK'
    <2>1. request[r] \in InFlight
        BY DEF TypeOK
    <2>2. [request[r] EXCEPT !.pc = "save"] \in InFlight
        BY <2>1 DEF InFlight
    <2>3. request' = [request EXCEPT ![r] = [request[r] EXCEPT !.pc = "save"]]
        BY <1>6 DEF FinaliseEffects, TypeOK
    <2>4. request' \in [Requests -> InFlight]
        BY <2>2, <2>3 DEF TypeOK
    <2> QED
        BY <1>6, <2>4 DEF FinaliseEffects, TypeOK
<1>7. ASSUME NEW r \in Requests, ReopenReviewView(r) PROVE TypeOK'
    <2>1. review \in Rows
        BY DEF TypeOK
    <2>2. request' \in [Requests -> InFlight]
        BY <1>7, <2>1, MethodsType, BecomesType DEF ReopenReviewView, AllHandlers
    <2> QED
        BY <1>7, <2>2 DEF ReopenReviewView, TypeOK
<1>8. ASSUME NEW r \in Requests, EditReviewSystemView(r) PROVE TypeOK'
    <2>1. request' \in [Requests -> InFlight]
        BY <1>8, BecomesType DEF EditReviewSystemView, AllHandlers
    <2>2. system' \in 1..(MaxSystem + 1)
        BY <1>8 DEF EditReviewSystemView, TypeOK
    <2> QED
        BY <1>8, <2>1, <2>2 DEF EditReviewSystemView, TypeOK
<1>9. ASSUME NEW r \in Requests, RecordChange(r) PROVE TypeOK'
    <2>1. review \in Rows /\ request[r].lead \in BOOLEAN
        BY DEF TypeOK, InFlight
    <2>2. request' \in [Requests -> InFlight]
        BY <1>9, <2>1, MethodsType, BecomesType DEF RecordChange
    <2> QED
        BY <1>9, <2>2 DEF RecordChange, TypeOK
<1>10. ASSUME NEW r \in Requests, ReviewAdminPage(r) PROVE TypeOK'
    <2>1. review \in Rows
        BY DEF TypeOK
    <2>2. request' \in [Requests -> InFlight]
        BY <1>10, <2>1 DEF ReviewAdminPage, AllHandlers, Becomes, TypeOK, InFlight
    <2> QED
        BY <1>10, <2>2 DEF ReviewAdminPage, TypeOK
<1>11. ASSUME NEW r \in Requests, ReviewAdmin(r) PROVE TypeOK'
    <2> DEFINE posted == [request[r].obj EXCEPT !.last_updated = review.last_updated]
    <2>1. posted \in Rows
        BY DEF TypeOK, InFlight, Rows
    <2>2. \A st \in Statuses : [posted EXCEPT !.status = st] \in Rows
        BY <2>1 DEF Rows
    <2>3. rollback_to_in_progress(posted) \in Rows
        BY <2>1, MethodsType
    <2> HIDE DEF posted
    <2>4. \/ \E st \in Statuses : Becomes(r, "save", "ReviewAdmin", FALSE,
                                          [posted EXCEPT !.status = st], {})
          \/ Becomes(r, "save", "ReviewAdmin", FALSE,
                     rollback_to_in_progress(posted), {})
        BY <1>11 DEF ReviewAdmin, posted
    <2>5. PICK o \in Rows : Becomes(r, "save", "ReviewAdmin", FALSE, o, {})
        BY <2>2, <2>3, <2>4
    <2>6. request' \in [Requests -> InFlight]
        BY <2>5 DEF AllHandlers, Becomes, TypeOK, InFlight
    <2> QED
        BY <1>11, <2>6 DEF ReviewAdmin, TypeOK
<1>12. ASSUME NEW r \in Requests, SaveChecked(r) PROVE TypeOK'
    <2>1. /\ request[r] \in InFlight
          /\ clock + 1 \in Nat
          /\ review.last_updated \in Nat
        BY DEF TypeOK, Rows
    <2>2. [request[r] EXCEPT !.pc = "write", !.stamp = clock + 1,
                             !.read = review.last_updated] \in InFlight
        BY <2>1 DEF InFlight
    <2>3. request' = [request EXCEPT ![r] =
                        [request[r] EXCEPT !.pc = "write", !.stamp = clock + 1,
                                           !.read = review.last_updated]]
        BY <1>12 DEF SaveChecked, TypeOK
    <2>4. request' \in [Requests -> InFlight]
        BY <2>2, <2>3 DEF TypeOK
    <2> QED
        BY <1>12, <2>1, <2>4 DEF SaveChecked, TypeOK
<1>13. ASSUME NEW r \in Requests, SaveRefused(r) PROVE TypeOK'
    BY <1>13, DoneType DEF SaveRefused, TypeOK
<1>14. ASSUME NEW r \in Requests, SaveWritten(r) PROVE TypeOK'
    <2>1. review' \in Rows
        BY <1>14 DEF SaveWritten, TypeOK, InFlight, Rows
    <2>2. confirm_system_and_scope(review', system) \in Rows /\ request[r].lead \in BOOLEAN
        <3>1. system \in Nat
            BY DEF TypeOK
        <3>2. request[r].lead \in BOOLEAN
            BY DEF TypeOK, InFlight
        <3> QED
            BY <2>1, <3>1, <3>2, MethodsType
    <2>3. request' \in [Requests -> InFlight]
        BY <1>14, <2>2, BecomesType, DoneType DEF SaveWritten, Saved
    <2>4. acked' \in [Sections -> Values]
        BY <1>14 DEF SaveWritten, TypeOK, InFlight, Rows
    <2>5. overlapped' \in BOOLEAN
        BY <1>14 DEF SaveWritten, TypeOK
    <2> QED
        BY <1>14, <2>1, <2>3, <2>4, <2>5 DEF SaveWritten, TypeOK
<1>15. ASSUME NEW r \in Requests, Crash(r) PROVE TypeOK'
    BY <1>15, DoneType DEF Crash, TypeOK
<1> QED
    BY <1>0, <1>1, <1>2, <1>3, <1>4, <1>5, <1>6, <1>7, <1>8, <1>9, <1>10,
       <1>11, <1>12, <1>13, <1>14, <1>15 DEF Next

\* Every state the requests can reach is a state the database and the workers
\* can be in.
THEOREM TypeCorrect == Spec => []TypeOK
    BY TypeInit, TypeStep, PTL DEF Spec

-----------------------------------------------------------------------------
(* The inductive invariants                                                *)

\* A stamp of finalisation, in the row or in an instance that may reach it, is
\* younger than the Tip.  An instance still in its effects has no Tip yet.
TipInv ==
    /\ review.finalised => tip
    /\ \A r \in Requests :
          request[r].pc \in {"page", "save", "write"} /\ request[r].obj.finalised
          => tip

\* The stamp of a write to come is new: to the row, to every instance and to
\* every other write to come.
StampInv ==
    /\ review.last_updated <= clock
    /\ \A r \in Requests : request[r].obj.last_updated <= clock
    /\ \A r \in Requests : request[r].pc = "write" =>
          /\ 0 < request[r].stamp
          /\ request[r].stamp <= clock
          /\ request[r].stamp # review.last_updated
          /\ \A q \in Requests :
                /\ request[q].obj.last_updated # request[r].stamp
                /\ request[q].pc = "write" /\ q # r
                   => request[q].stamp # request[r].stamp

\* What the handler of request q makes of row.
Handled(q, row) ==
    /\ q.kind = "OutcomeView" => \E s \in Sections, v \in Values :
          q.edited = {s} /\ q.obj = set_outcome_review(row, s, v)
    /\ q.kind # "OutcomeView" => q.edited = {}
    /\ q.kind = "SystemAndScopeView" => q.obj = row
    /\ q.kind = "confirm" => \E version \in 1..(MaxSystem + 1) :
          q.obj = confirm_system_and_scope(row, version)
    /\ q.kind = "CreateReportView" =>
          row.status = "in_progress" /\ q.obj = mark_review_complete(row)
    /\ q.kind = "FinaliseReview" =>
          is_review_complete(row) /\ q.obj = finalise_review(row)
    /\ q.kind = "ReopenReviewView" =>
          /\ is_review_complete(row)
          /\ ~is_review_finalised(row)
          /\ q.obj = reopen(row)
    /\ q.kind = "record_change" => q.obj = record_change(row)
    /\ q.kind \in AllHandlers \cup {"confirm", "record_change"}
    /\ q.kind # "EditReviewSystemView"

\* An instance that carries the row's stamp was made from the row as it is, and
\* one that has passed the check of save() would pass it again.
FreshInv ==
    \A r \in Requests :
        /\ request[r].pc \in {"effects", "save", "write"}
        /\ request[r].obj.last_updated = review.last_updated
        => /\ Handled(request[r], review)
           /\ request[r].pc = "write"
              => ~refused(request[r].obj, review, can_edit(request[r]))

\* save() lets an instance pass only if it carries the stamp of the row it reads.
ReadInv ==
    \A r \in Requests :
        request[r].pc = "write" => request[r].read = request[r].obj.last_updated

LockInv == StampInv /\ ReadInv /\ FreshInv

\* Without the admin site, and with the lock holding, the row has the answers
\* that were acknowledged.
AckInv ==
    /\ \A r \in Requests : request[r].kind # "ReviewAdmin"
    /\ ~overlapped => review.response = acked

\* Without the admin site and the import, a row keeps its status and its two
\* stamps in step.
InStep(o) ==
    /\ o.status \in {"to_do", "in_progress", "completed"}
    /\ o.completion <=> o.status = "completed"
    /\ o.finalised => o.status = "completed"

RowInv ==
    /\ InStep(review)
    /\ \A r \in Requests :
          request[r].pc \in {"effects", "save", "write"} => InStep(request[r].obj)
    /\ \A r \in Requests :
          ~overlapped /\ request[r].pc = "effects" => review.status # "to_do"

-----------------------------------------------------------------------------
(* A finalised review has its Tip                                          *)

LEMMA TipInit == Init /\ ~Imported => TipInv
    BY DEF Init, TipInv, NewRow, Idle

LEMMA TipStep == TypeOK /\ TipInv /\ [Next]_vars => TipInv'
<1> SUFFICES ASSUME TypeOK, TipInv, [Next]_vars PROVE TipInv'
    OBVIOUS
<1> USE DEF TipInv
<1>0. CASE UNCHANGED vars
    BY <1>0 DEF vars
<1>1. ASSUME NEW r \in Requests, OutcomeView(r) PROVE TipInv'
    BY <1>1 DEF OutcomeView, Becomes, TypeOK, InFlight, Rows, set_outcome_review
<1>2. ASSUME NEW r \in Requests, SystemAndScopeView(r) PROVE TipInv'
    BY <1>2 DEF SystemAndScopeView, Becomes, TypeOK, InFlight, Rows
<1>3. ASSUME NEW r \in Requests, CreateReportPage(r) PROVE TipInv'
    BY <1>3 DEF CreateReportPage, Becomes, TypeOK, InFlight, Rows, NewRow
<1>4. ASSUME NEW r \in Requests, CreateReportView(r) PROVE TipInv'
    BY <1>4 DEF CreateReportView, Becomes, TypeOK, InFlight, Rows, mark_review_complete
<1>5. ASSUME NEW r \in Requests, FinaliseReview(r) PROVE TipInv'
    BY <1>5 DEF FinaliseReview, Becomes, TypeOK, InFlight, Rows
<1>6. ASSUME NEW r \in Requests, FinaliseEffects(r) PROVE TipInv'
    BY <1>6 DEF FinaliseEffects, Becomes, TypeOK, InFlight, Rows
<1>7. ASSUME NEW r \in Requests, ReopenReviewView(r) PROVE TipInv'
    BY <1>7 DEF ReopenReviewView, Becomes, TypeOK, InFlight, Rows, reopen
<1>8. ASSUME NEW r \in Requests, EditReviewSystemView(r) PROVE TipInv'
    BY <1>8 DEF EditReviewSystemView, Becomes, TypeOK, InFlight, Rows
<1>9. ASSUME NEW r \in Requests, RecordChange(r) PROVE TipInv'
    BY <1>9 DEF RecordChange, Becomes, TypeOK, InFlight, Rows, record_change
<1>10. ASSUME NEW r \in Requests, ReviewAdminPage(r) PROVE TipInv'
    BY <1>10 DEF ReviewAdminPage, Becomes, TypeOK, InFlight, Rows
<1>11. ASSUME NEW r \in Requests, ReviewAdmin(r) PROVE TipInv'
    <2>1. PICK o : /\ o.finalised => request[r].obj.finalised
                   /\ request' = [request EXCEPT ![r] =
                      [pc |-> "save", kind |-> "ReviewAdmin", lead |-> FALSE,
                       obj |-> o, edited |-> {}, read |-> 0, stamp |-> 0]]
        <3> DEFINE posted == [request[r].obj EXCEPT !.last_updated = review.last_updated]
        <3>1. request[r].obj \in Rows
            BY DEF TypeOK, InFlight
        <3>2. CASE \E st \in Statuses : Becomes(r, "save", "ReviewAdmin", FALSE,
                                            [posted EXCEPT !.status = st], {})
            BY <3>1, <3>2 DEF Becomes, Rows
        <3>3. CASE Becomes(r, "save", "ReviewAdmin", FALSE,
                           rollback_to_in_progress(posted), {})
            BY <3>1, <3>3 DEF Becomes, Rows, rollback_to_in_progress
        <3> QED
            BY <1>11, <3>2, <3>3 DEF ReviewAdmin
    <2>2. request[r].pc = "page" /\ UNCHANGED <<review, tip>>
        BY <1>11 DEF ReviewAdmin
    <2>3. request'[r].obj = o /\ \A q \in Requests \ {r} : request'[q] = request[q]
        BY <2>1 DEF TypeOK
    <2>4. o.finalised => tip
        BY <2>1, <2>2
    <2> QED
        BY <2>2, <2>3, <2>4
<1>12. ASSUME NEW r \in Requests, SaveChecked(r) PROVE TipInv'
    BY <1>12 DEF SaveChecked, Becomes, TypeOK, InFlight, Rows
<1>13. ASSUME NEW r \in Requests, SaveRefused(r) PROVE TipInv'
    BY <1>13 DEF SaveRefused, Becomes, TypeOK, InFlight, Rows, Done, Idle, NewRow
<1>14. ASSUME NEW r \in Requests, SaveWritten(r) PROVE TipInv'
    <2>1. review'.finalised => tip
        BY <1>14 DEF SaveWritten, TypeOK, InFlight, Rows
    <2>2. confirm_system_and_scope(review', system).finalised = review'.finalised
        BY <1>14 DEF SaveWritten, TypeOK, InFlight, Rows, confirm_system_and_scope
    <2>3. CASE request[r].kind = "SystemAndScopeView"
        BY <1>14, <2>1, <2>2, <2>3 DEF SaveWritten, Saved, Becomes, TypeOK
    <2>4. CASE request[r].kind # "SystemAndScopeView"
        BY <1>14, <2>1, <2>4 DEF SaveWritten, Saved, Done, Idle, TypeOK
    <2> QED
        BY <2>3, <2>4
<1>15. ASSUME NEW r \in Requests, Crash(r) PROVE TipInv'
    BY <1>15 DEF Crash, Becomes, TypeOK, InFlight, Rows, Done, Idle, NewRow
<1> QED
    BY <1>0, <1>1, <1>2, <1>3, <1>4, <1>5, <1>6, <1>7, <1>8, <1>9, <1>10,
       <1>11, <1>12, <1>13, <1>14, <1>15 DEF Next

\* The finalised review of FinaliseReview.form_valid always has the Tip that
\* finalise_review() commits before the review is saved, whatever overlaps.
THEOREM FinalisedReviewHasTip ==
    ASSUME ~Imported
    PROVE  Spec => []FinalisedHasTip
<1>1. Init => TipInv
    BY TipInit
<1>2. TypeOK /\ TipInv => FinalisedHasTip
    BY DEF TipInv, FinalisedHasTip, is_review_finalised
<1> QED
    BY <1>1, <1>2, TipStep, TypeCorrect, PTL DEF Spec

-----------------------------------------------------------------------------
(* The optimistic lock                                                     *)

\* No model method touches the stamp.
LEMMA MethodsKeepStamp ==
    ASSUME NEW o \in Rows
    PROVE  /\ \A s \in Sections, v \in Values :
                 set_outcome_review(o, s, v).last_updated = o.last_updated
           /\ \A version \in Nat :
                 confirm_system_and_scope(o, version).last_updated = o.last_updated
           /\ mark_review_complete(o).last_updated = o.last_updated
           /\ finalise_review(o).last_updated = o.last_updated
           /\ reopen(o).last_updated = o.last_updated
           /\ rollback_to_in_progress(o).last_updated = o.last_updated
           /\ record_change(o).last_updated = o.last_updated
    BY DEF Rows, set_outcome_review, confirm_system_and_scope,
           mark_review_complete, finalise_review, reopen,
           rollback_to_in_progress, record_change

\* A step that writes nothing keeps LockInv, if the instance of the request
\* that takes it has a stamp that was in use and, with the row's stamp, is what
\* its handler makes of the row.
LEMMA LockKept ==
    ASSUME TypeOK, LockInv, NEW r \in Requests,
           UNCHANGED <<review, clock>>,
           \A q \in Requests \ {r} : request'[q] = request[q],
           request'[r].pc # "write",
           request'[r].obj.last_updated
             \in {0, review.last_updated, request[r].obj.last_updated},
           /\ request'[r].pc \in {"effects", "save"}
           /\ request'[r].obj.last_updated = review.last_updated
           => Handled(request'[r], review)
    PROVE  LockInv'
<1>1. review.last_updated \in Nat /\ clock \in Nat
    BY DEF TypeOK, Rows
<1>2. StampInv'
    BY <1>1 DEF LockInv, StampInv
<1>3. ReadInv'
    BY DEF LockInv, ReadInv
<1>4. FreshInv'
    <2> SUFFICES ASSUME NEW q \in Requests,
                        request'[q].pc \in {"effects", "save", "write"},
                        request'[q].obj.last_updated = review.last_updated
                 PROVE  /\ Handled(request'[q], review)
                        /\ request'[q].pc = "write"
                           => ~refused(request'[q].obj, review, can_edit(request'[q]))
        BY DEF FreshInv, can_edit
    <2>1. CASE q = r
        BY <2>1
    <2>2. CASE q # r
        BY <2>2 DEF LockInv, FreshInv
    <2> QED
        BY <2>1, <2>2
<1> QED
    BY <1>2, <1>3, <1>4 DEF LockInv

LEMMA LockInit == Init => LockInv
<1> SUFFICES ASSUME Init PROVE LockInv
    OBVIOUS
<1>1. review.last_updated = 0
    <2>1. \A o \in ImportedRows : o.last_updated = 0
        BY DEF ImportedRows, NewRow
    <2> QED
        BY <2>1 DEF Init, NewRow
<1> QED
    BY <1>1 DEF Init, LockInv, StampInv, ReadInv, FreshInv, Idle, NewRow

LEMMA LockStep == TypeOK /\ LockInv /\ [Next]_vars => LockInv'
<1> SUFFICES ASSUME TypeOK, LockInv, [Next]_vars PROVE LockInv'
    OBVIOUS
<1>0. CASE UNCHANGED vars
    BY <1>0 DEF vars, LockInv, StampInv, ReadInv, FreshInv, can_edit
<1>1. ASSUME NEW r \in Requests, OutcomeView(r) PROVE LockInv'
    <2>1. review \in Rows
        BY DEF TypeOK
    <2>2. PICK s \in Sections, v \in Values, lead \in Leads :
             Becomes(r, "save", "OutcomeView", lead,
                     set_outcome_review(review, s, v), {s})
        BY <1>1 DEF OutcomeView
    <2>3. /\ request'[r].pc = "save"
          /\ request'[r].kind = "OutcomeView"
          /\ request'[r].edited = {s}
          /\ request'[r].obj = set_outcome_review(review, s, v)
          /\ \A q \in Requests \ {r} : request'[q] = request[q]
        BY <2>2 DEF Becomes, TypeOK
    <2>4. request'[r].obj.last_updated = review.last_updated
        BY <2>1, <2>3, MethodsKeepStamp
    <2>5. Handled(request'[r], review)
        BY <2>3 DEF Handled, AllHandlers
    <2> QED
        BY <1>1, <2>3, <2>4, <2>5, LockKept DEF OutcomeView
<1>2. ASSUME NEW r \in Requests, SystemAndScopeView(r) PROVE LockInv'
    <2>1. review \in Rows
        BY DEF TypeOK
    <2>2. /\ request'[r].pc = "save"
          /\ request'[r].kind = "SystemAndScopeView"
          /\ request'[r].edited = {}
          /\ request'[r].obj = review
          /\ \A q \in Requests \ {r} : request'[q] = request[q]
        BY <1>2 DEF SystemAndScopeView, Becomes, TypeOK
    <2>3. review.last_updated = review.last_updated
        BY <2>1, MethodsKeepStamp
    <2>4. Handled(request'[r], review)
        BY <1>2, <2>2 DEF SystemAndScopeView, Handled, AllHandlers
    <2> QED
        BY <1>2, <2>2, <2>3, <2>4, LockKept DEF SystemAndScopeView
<1>3. ASSUME NEW r \in Requests, CreateReportPage(r) PROVE LockInv'
    <2>1. /\ request'[r].pc = "page"
          /\ request'[r].obj.last_updated = 0
          /\ \A q \in Requests \ {r} : request'[q] = request[q]
        BY <1>3 DEF CreateReportPage, Becomes, NewRow, TypeOK
    <2> QED
        BY <1>3, <2>1, LockKept DEF CreateReportPage
<1>4. ASSUME NEW r \in Requests, CreateReportView(r) PROVE LockInv'
    <2>1. review \in Rows
        BY DEF TypeOK
    <2>2. /\ request'[r].pc = "save"
          /\ request'[r].kind = "CreateReportView"
          /\ request'[r].edited = {}
          /\ request'[r].obj = mark_review_complete(review)
          /\ \A q \in Requests \ {r} : request'[q] = request[q]
        BY <1>4 DEF CreateReportView, Becomes, TypeOK
    <2>3. mark_review_complete(review).last_updated = review.last_updated
        BY <2>1, MethodsKeepStamp
    <2>4. Handled(request'[r], review)
        BY <1>4, <2>2 DEF CreateReportView, Handled, AllHandlers
    <2> QED
        BY <1>4, <2>2, <2>3, <2>4, LockKept DEF CreateReportView
<1>5. ASSUME NEW r \in Requests, FinaliseReview(r) PROVE LockInv'
    <2>1. review \in Rows
        BY DEF TypeOK
    <2>2. /\ request'[r].pc = "effects"
          /\ request'[r].kind = "FinaliseReview"
          /\ request'[r].edited = {}
          /\ request'[r].obj = finalise_review(review)
          /\ \A q \in Requests \ {r} : request'[q] = request[q]
        BY <1>5 DEF FinaliseReview, Becomes, TypeOK
    <2>3. finalise_review(review).last_updated = review.last_updated
        BY <2>1, MethodsKeepStamp
    <2>4. Handled(request'[r], review)
        BY <1>5, <2>2 DEF FinaliseReview, Handled, AllHandlers
    <2> QED
        BY <1>5, <2>2, <2>3, <2>4, LockKept DEF FinaliseReview
<1>6. ASSUME NEW r \in Requests, FinaliseEffects(r) PROVE LockInv'
    <2>1. /\ request'[r].pc = "save"
          /\ request'[r].kind = request[r].kind
          /\ request'[r].edited = request[r].edited
          /\ request'[r].obj = request[r].obj
          /\ \A q \in Requests \ {r} : request'[q] = request[q]
        BY <1>6 DEF FinaliseEffects, TypeOK, InFlight
    <2>2. request[r].pc = "effects" /\ UNCHANGED <<review, clock>>
        BY <1>6 DEF FinaliseEffects
    <2>3. request'[r].obj.last_updated = review.last_updated
          => Handled(request'[r], review)
        BY <2>1, <2>2 DEF LockInv, FreshInv, Handled
    <2> QED
        BY <2>1, <2>2, <2>3, LockKept
<1>7. ASSUME NEW r \in Requests, ReopenReviewView(r) PROVE LockInv'
    <2>1. review \in Rows
        BY DEF TypeOK
    <2>2. /\ request'[r].pc = "save"
          /\ request'[r].kind = "ReopenReviewView"
          /\ request'[r].edited = {}
          /\ request'[r].obj = reopen(review)
          /\ \A q \in Requests \ {r} : request'[q] = request[q]
        BY <1>7 DEF ReopenReviewView, Becomes, TypeOK
    <2>3. reopen(review).last_updated = review.last_updated
        BY <2>1, MethodsKeepStamp
    <2>4. Handled(request'[r], review)
        BY <1>7, <2>2 DEF ReopenReviewView, Handled, AllHandlers
    <2> QED
        BY <1>7, <2>2, <2>3, <2>4, LockKept DEF ReopenReviewView
<1>8. ASSUME NEW r \in Requests, EditReviewSystemView(r) PROVE LockInv'
    <2>1. /\ request'[r].pc = "record"
          /\ request'[r].obj.last_updated = 0
          /\ \A q \in Requests \ {r} : request'[q] = request[q]
        BY <1>8 DEF EditReviewSystemView, Becomes, NewRow, TypeOK
    <2> QED
        BY <1>8, <2>1, LockKept DEF EditReviewSystemView
<1>9. ASSUME NEW r \in Requests, RecordChange(r) PROVE LockInv'
    <2>1. review \in Rows
        BY DEF TypeOK
    <2>2. /\ request'[r].pc = "save"
          /\ request'[r].kind = "record_change"
          /\ request'[r].edited = {}
          /\ request'[r].obj = record_change(review)
          /\ \A q \in Requests \ {r} : request'[q] = request[q]
        BY <1>9 DEF RecordChange, Becomes, TypeOK
    <2>3. record_change(review).last_updated = review.last_updated
        BY <2>1, MethodsKeepStamp
    <2>4. Handled(request'[r], review)
        BY <1>9, <2>2 DEF RecordChange, Handled, AllHandlers
    <2> QED
        BY <1>9, <2>2, <2>3, <2>4, LockKept DEF RecordChange
<1>10. ASSUME NEW r \in Requests, ReviewAdminPage(r) PROVE LockInv'
    <2>1. /\ request'[r].pc = "page"
          /\ request'[r].obj = review
          /\ \A q \in Requests \ {r} : request'[q] = request[q]
        BY <1>10 DEF ReviewAdminPage, Becomes, TypeOK
    <2> QED
        BY <1>10, <2>1, LockKept DEF ReviewAdminPage
<1>11. ASSUME NEW r \in Requests, ReviewAdmin(r) PROVE LockInv'
    <2> DEFINE posted == [request[r].obj EXCEPT !.last_updated = review.last_updated]
    <2>1. request[r].obj \in Rows /\ review.last_updated \in Nat
        BY DEF TypeOK, InFlight, Rows
    <2>2. /\ rollback_to_in_progress(posted).last_updated = review.last_updated
          /\ \A st \in Statuses :
                [posted EXCEPT !.status = st].last_updated = review.last_updated
        BY <2>1 DEF Rows, rollback_to_in_progress
    <2> HIDE DEF posted
    <2>3. /\ request'[r].pc = "save"
          /\ request'[r].kind = "ReviewAdmin"
          /\ request'[r].edited = {}
          /\ request'[r].obj.last_updated = review.last_updated
          /\ \A q \in Requests \ {r} : request'[q] = request[q]
        <3>1. CASE \E st \in Statuses : Becomes(r, "save", "ReviewAdmin", FALSE,
                                            [posted EXCEPT !.status = st], {})
            BY <2>2, <3>1 DEF Becomes, TypeOK
        <3>2. CASE Becomes(r, "save", "ReviewAdmin", FALSE,
                           rollback_to_in_progress(posted), {})
            BY <2>2, <3>2 DEF Becomes, TypeOK
        <3> QED
            BY <1>11, <3>1, <3>2 DEF ReviewAdmin, posted
    <2>4. Handled(request'[r], review)
        BY <2>3 DEF Handled, AllHandlers
    <2> QED
        BY <1>11, <2>3, <2>4, LockKept DEF ReviewAdmin
<1>12. ASSUME NEW r \in Requests, SaveChecked(r) PROVE LockInv'
    <2>1. /\ request'[r].pc = "write"
          /\ request'[r].stamp = clock + 1
          /\ request'[r].read = review.last_updated
          /\ request'[r].kind = request[r].kind
          /\ request'[r].lead = request[r].lead
          /\ request'[r].edited = request[r].edited
          /\ request'[r].obj = request[r].obj
          /\ \A q \in Requests \ {r} : request'[q] = request[q]
        BY <1>12 DEF SaveChecked, TypeOK, InFlight
    <2>2. /\ request[r].pc = "save"
          /\ ~refused(request[r].obj, review, can_edit(request[r]))
          /\ clock' = clock + 1
          /\ review' = review
        BY <1>12 DEF SaveChecked
    <2>3. /\ clock \in Nat
          /\ review.last_updated \in Nat
          /\ \A q \in Requests : request[q].obj.last_updated \in Nat
          /\ \A q \in Requests : request[q].stamp \in Nat
        BY DEF TypeOK, InFlight, Rows
    <2>4. \A q \in Requests : request'[q].obj = request[q].obj
        BY <2>1
    <2>5. StampInv'
        BY <2>1, <2>2, <2>3, <2>4 DEF LockInv, StampInv
    <2>6. FreshInv'
        <3> SUFFICES ASSUME NEW q \in Requests,
                            request'[q].pc \in {"effects", "save", "write"},
                            request'[q].obj.last_updated = review.last_updated
                     PROVE  /\ Handled(request'[q], review)
                            /\ request'[q].pc = "write"
                               => ~refused(request'[q].obj, review, can_edit(request'[q]))
            BY <2>2 DEF FreshInv, can_edit
        <3>1. CASE q = r
            BY <2>1, <2>2, <3>1 DEF LockInv, FreshInv, Handled, can_edit
        <3>2. CASE q # r
            BY <2>1, <3>2 DEF LockInv, FreshInv
        <3> QED
            BY <3>1, <3>2
    <2>7. ReadInv'
        BY <2>1, <2>2 DEF LockInv, ReadInv, refused
    <2> QED
        BY <2>5, <2>6, <2>7 DEF LockInv
<1>13. ASSUME NEW r \in Requests, SaveRefused(r) PROVE LockInv'
    <2>1. /\ request'[r].pc = "idle"
          /\ request'[r].obj.last_updated = 0
          /\ \A q \in Requests \ {r} : request'[q] = request[q]
        BY <1>13 DEF SaveRefused, Done, Idle, NewRow, TypeOK
    <2> QED
        BY <1>13, <2>1, LockKept DEF SaveRefused
<1>14. ASSUME NEW r \in Requests, SaveWritten(r) PROVE LockInv'
    <2>1. /\ request[r].pc = "write"
          /\ clock' = clock
          /\ review' = [request[r].obj EXCEPT !.last_updated = request[r].stamp]
        BY <1>14 DEF SaveWritten
    <2>2. review'.last_updated = request[r].stamp /\ review' \in Rows
        BY <2>1 DEF TypeOK, InFlight, Rows
    <2>3. /\ clock \in Nat
          /\ \A q \in Requests : request[q].obj.last_updated \in Nat
          /\ \A q \in Requests : request[q].stamp \in Nat
        BY DEF TypeOK, InFlight, Rows
    <2>4. \A q \in Requests \ {r} : request'[q] = request[q]
        BY <1>14 DEF SaveWritten, Saved, Becomes, Done, TypeOK
    <2>5. \/ /\ request'[r].pc = "save"
             /\ request'[r].kind = "confirm"
             /\ request'[r].edited = {}
             /\ request'[r].obj = confirm_system_and_scope(review', system)
          \/ /\ request'[r].pc = "idle"
             /\ request'[r].obj.last_updated = 0
        BY <1>14 DEF SaveWritten, Saved, Becomes, Done, Idle, NewRow, TypeOK
    <2>6. confirm_system_and_scope(review', system).last_updated = request[r].stamp
        BY <2>2, MethodsKeepStamp DEF TypeOK
    <2>7. StampInv'
        BY <2>1, <2>2, <2>3, <2>4, <2>5, <2>6 DEF LockInv, StampInv
    <2>8. FreshInv'
        <3> SUFFICES ASSUME NEW q \in Requests,
                            request'[q].pc \in {"effects", "save", "write"},
                            request'[q].obj.last_updated = review'.last_updated
                     PROVE  /\ Handled(request'[q], review')
                            /\ request'[q].pc = "write"
                               => ~refused(request'[q].obj, review', can_edit(request'[q]))
            BY DEF FreshInv, can_edit
        <3>1. CASE q = r
            <4>1. system \in 1..(MaxSystem + 1)
                BY DEF TypeOK
            <4> QED
                BY <2>5, <3>1, <4>1 DEF Handled, AllHandlers
        <3>2. CASE q # r
            BY <2>1, <2>2, <2>4, <3>2 DEF LockInv, StampInv
        <3> QED
            BY <3>1, <3>2
    <2>9. ReadInv'
        BY <2>4, <2>5 DEF LockInv, ReadInv
    <2> QED
        BY <2>7, <2>8, <2>9 DEF LockInv
<1>15. ASSUME NEW r \in Requests, Crash(r) PROVE LockInv'
    <2>1. /\ request'[r].pc = "idle"
          /\ request'[r].obj.last_updated = 0
          /\ \A q \in Requests \ {r} : request'[q] = request[q]
        BY <1>15 DEF Crash, Done, Idle, NewRow, TypeOK
    <2> QED
        BY <1>15, <2>1, LockKept DEF Crash
<1> QED
    BY <1>0, <1>1, <1>2, <1>3, <1>4, <1>5, <1>6, <1>7, <1>8, <1>9, <1>10,
       <1>11, <1>12, <1>13, <1>14, <1>15 DEF Next

LEMMA LockInvariant == Spec => [](TypeOK /\ LockInv)
<1>1. Init => TypeOK /\ LockInv
    BY TypeInit, LockInit
<1>2. TypeOK /\ LockInv /\ [Next]_vars => TypeOK' /\ LockInv'
    BY TypeStep, LockStep
<1> QED
    BY <1>1, <1>2, PTL DEF Spec

\* A write that overlaps no other save applies its handler to the row, and the
\* row passes the check of save().
LEMMA FreshWrite ==
    ASSUME TypeOK, LockInv, NEW r \in Requests, SaveWritten(r), ~overlapped'
    PROVE  /\ ~overlapped
           /\ request[r].pc = "write"
           /\ Handled(request[r], review)
           /\ ~refused(request[r].obj, review, can_edit(request[r]))
           /\ review' = [request[r].obj EXCEPT !.last_updated = request[r].stamp]
<1>1. /\ request[r].pc = "write"
      /\ ~overlapped
      /\ request[r].obj.last_updated = review.last_updated
      /\ review' = [request[r].obj EXCEPT !.last_updated = request[r].stamp]
    BY DEF SaveWritten, TypeOK, LockInv, ReadInv
<1> QED
    BY <1>1 DEF LockInv, FreshInv

\* Only a write changes the row.
LEMMA OnlyWrites ==
    ASSUME [Next]_vars, review' # review
    PROVE  \E r \in Requests : SaveWritten(r)
    BY DEF Next, vars, OutcomeView, SystemAndScopeView, CreateReportPage,
           CreateReportView, FinaliseReview, FinaliseEffects, ReopenReviewView,
           EditReviewSystemView, RecordChange, ReviewAdminPage, ReviewAdmin,
           SaveChecked, SaveRefused, Crash

\* Review.save() freezes the response and the completion stamp of a completed
\* review against every handler, the admin site included.
THEOREM CompletedStaysFrozen == Spec => CompletedFrozen
<1> DEFINE Frozen ==
        ~overlapped' /\ review.status = "completed" /\ review'.status = "completed"
        => same_response(review, review') /\ review'.completion = review.completion
<1>1. TypeOK /\ LockInv /\ [Next]_vars => [Frozen]_vars
    <2> SUFFICES ASSUME TypeOK, LockInv, [Next]_vars, ~overlapped',
                        review.status = "completed", review'.status = "completed"
                 PROVE  same_response(review, review')
                        /\ review'.completion = review.completion
        OBVIOUS
    <2>1. CASE review' = review
        BY <2>1 DEF same_response
    <2>2. CASE review' # review
        <3>1. PICK r \in Requests : SaveWritten(r)
            BY <2>2, OnlyWrites
        <3>2. /\ ~refused(request[r].obj, review, can_edit(request[r]))
              /\ review' = [request[r].obj EXCEPT !.last_updated = request[r].stamp]
            BY <3>1, FreshWrite
        <3>3. request[r].obj \in Rows
            BY DEF TypeOK, InFlight
        <3> QED
            BY <3>2, <3>3 DEF refused, same_response, Rows
    <2> QED
        BY <2>1, <2>2
<1> QED
    BY <1>1, LockInvariant, PTL DEF Spec, CompletedFrozen

\* A finalised review is changed by the admin site alone.
THEOREM FinalisedStaysFrozen == Spec => FinalisedFrozen
<1> DEFINE Frozen ==
        ~overlapped' /\ is_review_finalised(review) /\ review' # review => AdminWrites
<1>1. TypeOK /\ LockInv /\ [Next]_vars => [Frozen]_vars
    <2> SUFFICES ASSUME TypeOK, LockInv, [Next]_vars, ~overlapped',
                        is_review_finalised(review), review' # review
                 PROVE  AdminWrites
        OBVIOUS
    <2>1. PICK r \in Requests : SaveWritten(r)
        BY OnlyWrites
    <2>2. /\ request[r].pc = "write"
          /\ Handled(request[r], review)
          /\ ~refused(request[r].obj, review, can_edit(request[r]))
        BY <2>1, FreshWrite
    <2>3. review \in Rows
        BY DEF TypeOK
    <2>4. review.status = "completed" /\ request[r].obj.status # "completed"
        BY <2>2 DEF refused, is_review_finalised, is_review_complete
    <2>5. request[r].kind = "ReviewAdmin"
        BY <2>2, <2>3, <2>4
        DEF Handled, AllHandlers, Rows, set_outcome_review, finalise_review,
            confirm_system_and_scope, mark_review_complete, record_change
    <2>6. request'[r].pc = "idle"
        BY <2>1, <2>5 DEF SaveWritten, Saved, Done, Idle, TypeOK
    <2> QED
        BY <2>2, <2>5, <2>6 DEF AdminWrites
<1> QED
    BY <1>1, LockInvariant, PTL DEF Spec, FinalisedFrozen

-----------------------------------------------------------------------------
(* No acknowledged answer is lost                                          *)

LEMMA AckInit == Init => AckInv
    BY DEF Init, AckInv, Idle

LEMMA AckStep ==
    ASSUME "ReviewAdmin" \notin Handlers
    PROVE  TypeOK /\ LockInv /\ AckInv /\ [Next]_vars => AckInv'
<1> SUFFICES ASSUME TypeOK, LockInv, AckInv, [Next]_vars PROVE AckInv'
    OBVIOUS
<1>1. \A r \in Requests : request'[r].kind # "ReviewAdmin"
    <2> USE DEF AckInv, TypeOK, InFlight
    <2>0. CASE UNCHANGED vars
        BY <2>0 DEF vars
    <2>1. ASSUME NEW r \in Requests, OutcomeView(r)
          PROVE  \A q \in Requests : request'[q].kind # "ReviewAdmin"
        BY <2>1 DEF OutcomeView, Becomes
    <2>2. ASSUME NEW r \in Requests, SystemAndScopeView(r)
          PROVE  \A q \in Requests : request'[q].kind # "ReviewAdmin"
        BY <2>2 DEF SystemAndScopeView, Becomes
    <2>3. ASSUME NEW r \in Requests, CreateReportPage(r)
          PROVE  \A q \in Requests : request'[q].kind # "ReviewAdmin"
        BY <2>3 DEF CreateReportPage, Becomes
    <2>4. ASSUME NEW r \in Requests, CreateReportView(r)
          PROVE  \A q \in Requests : request'[q].kind # "ReviewAdmin"
        BY <2>4 DEF CreateReportView, Becomes
    <2>5. ASSUME NEW r \in Requests, FinaliseReview(r)
          PROVE  \A q \in Requests : request'[q].kind # "ReviewAdmin"
        BY <2>5 DEF FinaliseReview, Becomes
    <2>6. ASSUME NEW r \in Requests, FinaliseEffects(r)
          PROVE  \A q \in Requests : request'[q].kind # "ReviewAdmin"
        BY <2>6 DEF FinaliseEffects
    <2>7. ASSUME NEW r \in Requests, ReopenReviewView(r)
          PROVE  \A q \in Requests : request'[q].kind # "ReviewAdmin"
        BY <2>7 DEF ReopenReviewView, Becomes
    <2>8. ASSUME NEW r \in Requests, EditReviewSystemView(r)
          PROVE  \A q \in Requests : request'[q].kind # "ReviewAdmin"
        BY <2>8 DEF EditReviewSystemView, Becomes
    <2>9. ASSUME NEW r \in Requests, RecordChange(r)
          PROVE  \A q \in Requests : request'[q].kind # "ReviewAdmin"
        BY <2>9 DEF RecordChange, Becomes
    <2>10. ASSUME NEW r \in Requests, ReviewAdminPage(r)
          PROVE  \A q \in Requests : request'[q].kind # "ReviewAdmin"
        BY <2>10 DEF ReviewAdminPage, Free
    <2>11. ASSUME NEW r \in Requests, ReviewAdmin(r)
          PROVE  \A q \in Requests : request'[q].kind # "ReviewAdmin"
        BY <2>11 DEF ReviewAdmin
    <2>12. ASSUME NEW r \in Requests, SaveChecked(r)
          PROVE  \A q \in Requests : request'[q].kind # "ReviewAdmin"
        BY <2>12 DEF SaveChecked
    <2>13. ASSUME NEW r \in Requests, SaveRefused(r)
          PROVE  \A q \in Requests : request'[q].kind # "ReviewAdmin"
        BY <2>13 DEF SaveRefused, Done, Idle
    <2>14. ASSUME NEW r \in Requests, SaveWritten(r)
          PROVE  \A q \in Requests : request'[q].kind # "ReviewAdmin"
        BY <2>14 DEF SaveWritten, Saved, Becomes, Done, Idle
    <2>15. ASSUME NEW r \in Requests, Crash(r)
          PROVE  \A q \in Requests : request'[q].kind # "ReviewAdmin"
        BY <2>15 DEF Crash, Done, Idle
    <2> QED
        BY <2>0, <2>1, <2>2, <2>3, <2>4, <2>5, <2>6, <2>7, <2>8, <2>9, <2>10,
           <2>11, <2>12, <2>13, <2>14, <2>15 DEF Next
<1>2. ~overlapped' => review'.response = acked'
    <2> SUFFICES ASSUME ~overlapped' PROVE review'.response = acked'
        OBVIOUS
    <2>1. CASE \E r \in Requests : SaveWritten(r)
        <3>1. PICK r \in Requests : SaveWritten(r)
            BY <2>1
        <3> DEFINE q == request[r]
        <3>2. /\ ~overlapped
              /\ Handled(q, review)
              /\ review' = [q.obj EXCEPT !.last_updated = q.stamp]
            BY <3>1, FreshWrite
        <3>3. /\ review \in Rows
              /\ q \in InFlight
              /\ q.obj \in Rows
              /\ q.kind # "ReviewAdmin"
            BY <3>2 DEF TypeOK, InFlight, AckInv
        <3>4. acked' = [s \in Sections |-> IF s \in q.edited
                                           THEN q.obj.response[s]
                                           ELSE review.response[s]]
            BY <3>1, <3>2 DEF SaveWritten, AckInv
        <3> HIDE DEF q
        <3>5. ASSUME NEW s \in Sections \ q.edited
              PROVE  q.obj.response[s] = review.response[s]
            <4>1. CASE q.kind = "OutcomeView"
                <5>1. PICK t \in Sections, v \in Values :
                         /\ q.edited = {t}
                         /\ q.obj = set_outcome_review(review, t, v)
                    BY <3>2, <4>1 DEF Handled
                <5> QED
                    BY <3>3, <5>1 DEF set_outcome_review, Rows
            <4>2. CASE q.kind # "OutcomeView"
                BY <3>2, <3>3, <4>2
                DEF Handled, AllHandlers, Rows, confirm_system_and_scope,
                    finalise_review, mark_review_complete, record_change, reopen
            <4> QED
                BY <4>1, <4>2
        <3>6. q.obj.response \in [Sections -> Values]
              /\ review'.response = q.obj.response
            BY <3>2, <3>3 DEF Rows
        <3> QED
            BY <3>3, <3>4, <3>5, <3>6
    <2>2. CASE ~\E r \in Requests : SaveWritten(r)
        <3>1. UNCHANGED <<review, overlapped, acked>>
            BY <2>2 DEF Next, vars, OutcomeView, SystemAndScopeView,
               CreateReportPage, CreateReportView, FinaliseReview,
               FinaliseEffects, ReopenReviewView, EditReviewSystemView,
               RecordChange, ReviewAdminPage, ReviewAdmin, SaveChecked,
               SaveRefused, Crash
        <3> QED
            BY <3>1 DEF AckInv
    <2> QED
        BY <2>1, <2>2
<1> QED
    BY <1>1, <1>2 DEF AckInv

\* The optimistic lock loses nothing unless two saves overlap between the
\* re-read and the write: an answer a user was told is saved is in the row.
THEOREM LockKeepsAnswers ==
    ASSUME "ReviewAdmin" \notin Handlers
    PROVE  Spec => []AckedAnswersKept
<1>1. TypeOK /\ LockInv /\ AckInv /\ [Next]_vars => AckInv'
    BY AckStep
<1>2. AckInv => AckedAnswersKept
    BY DEF AckInv, AckedAnswersKept
<1> QED
    BY <1>1, <1>2, AckInit, LockInvariant, PTL DEF Spec

-----------------------------------------------------------------------------
(* Review implements ReviewLifecycle                                       *)

LEMMA RowInit == Init /\ ~Imported => RowInv
    BY DEF Init, RowInv, InStep, NewRow, Idle

\* The model methods keep a row's status and stamps in step, under the guards
\* of the handlers that call them.
LEMMA MethodsInStep ==
    ASSUME NEW o \in Rows, InStep(o)
    PROVE  /\ \A s \in Sections, v \in Values : InStep(set_outcome_review(o, s, v))
           /\ \A version \in Nat : InStep(confirm_system_and_scope(o, version))
           /\ o.status = "in_progress" => InStep(mark_review_complete(o))
           /\ is_review_complete(o) => InStep(finalise_review(o))
           /\ is_review_complete(o) /\ ~is_review_finalised(o) => InStep(reopen(o))
           /\ InStep(record_change(o))
           /\ \A n \in Nat : InStep([o EXCEPT !.last_updated = n])
    BY DEF InStep, Rows, set_outcome_review, confirm_system_and_scope,
           mark_review_complete, finalise_review, reopen, record_change,
           is_review_complete, is_review_finalised

\* A step that writes nothing keeps RowInv, if the instance of the request that
\* takes it is in step.
LEMMA RowKept ==
    ASSUME TypeOK, RowInv, NEW r \in Requests,
           UNCHANGED <<review, overlapped>>,
           \A q \in Requests \ {r} : request'[q] = request[q],
           request'[r].pc \in {"effects", "save", "write"} => InStep(request'[r].obj),
           request'[r].pc = "effects" => review.status # "to_do"
    PROVE  RowInv'
    BY DEF RowInv, InStep

LEMMA RowStep == TypeOK /\ LockInv /\ AckInv /\ RowInv /\ [Next]_vars => RowInv'
<1> SUFFICES ASSUME TypeOK, LockInv, AckInv, RowInv, [Next]_vars PROVE RowInv'
    OBVIOUS
<1>a. review \in Rows /\ InStep(review)
    BY DEF TypeOK, RowInv
<1>0. CASE UNCHANGED vars
    BY <1>0 DEF vars, RowInv, InStep
<1>1. ASSUME NEW r \in Requests, OutcomeView(r) PROVE RowInv'
    <2>1. PICK s \in Sections, v \in Values, lead \in Leads :
             Becomes(r, "save", "OutcomeView", lead,
                     set_outcome_review(review, s, v), {s})
        BY <1>1 DEF OutcomeView
    <2>2. /\ request'[r].pc = "save"
          /\ request'[r].obj = set_outcome_review(review, s, v)
          /\ \A q \in Requests \ {r} : request'[q] = request[q]
        BY <2>1 DEF Becomes, TypeOK
    <2> QED
        BY <1>1, <1>a, <2>2, MethodsInStep, RowKept DEF OutcomeView
<1>2. ASSUME NEW r \in Requests, SystemAndScopeView(r) PROVE RowInv'
    <2>1. /\ request'[r].pc = "save"
          /\ request'[r].obj = review
          /\ \A q \in Requests \ {r} : request'[q] = request[q]
        BY <1>2 DEF SystemAndScopeView, Becomes, TypeOK
    <2>2. InStep(review)
        BY <1>2, <1>a, MethodsInStep DEF SystemAndScopeView
    <2> QED
        BY <1>2, <1>a, <2>1, <2>2, RowKept DEF SystemAndScopeView, is_review_complete
<1>3. ASSUME NEW r \in Requests, CreateReportPage(r) PROVE RowInv'
    <2>1. /\ request'[r].pc = "page"
          /\ \A q \in Requests \ {r} : request'[q] = request[q]
        BY <1>3 DEF CreateReportPage, Becomes, TypeOK
    <2> QED
        BY <1>3, <2>1, RowKept DEF CreateReportPage
<1>4. ASSUME NEW r \in Requests, CreateReportView(r) PROVE RowInv'
    <2>1. /\ request'[r].pc = "save"
          /\ request'[r].obj = mark_review_complete(review)
          /\ \A q \in Requests \ {r} : request'[q] = request[q]
        BY <1>4 DEF CreateReportView, Becomes, TypeOK
    <2>2. InStep(mark_review_complete(review))
        BY <1>4, <1>a, MethodsInStep DEF CreateReportView
    <2> QED
        BY <1>4, <1>a, <2>1, <2>2, RowKept DEF CreateReportView, is_review_complete
<1>5. ASSUME NEW r \in Requests, FinaliseReview(r) PROVE RowInv'
    <2>1. /\ request'[r].pc = "effects"
          /\ request'[r].obj = finalise_review(review)
          /\ \A q \in Requests \ {r} : request'[q] = request[q]
        BY <1>5 DEF FinaliseReview, Becomes, TypeOK
    <2>2. InStep(finalise_review(review))
        BY <1>5, <1>a, MethodsInStep DEF FinaliseReview
    <2> QED
        BY <1>5, <1>a, <2>1, <2>2, RowKept DEF FinaliseReview, is_review_complete
<1>6. ASSUME NEW r \in Requests, FinaliseEffects(r) PROVE RowInv'
    <2>1. /\ request'[r].pc = "save"
          /\ request'[r].obj = request[r].obj
          /\ \A q \in Requests \ {r} : request'[q] = request[q]
        BY <1>6 DEF FinaliseEffects, TypeOK, InFlight
    <2>2. InStep(request[r].obj)
        BY <1>6 DEF FinaliseEffects, RowInv
    <2> QED
        BY <1>6, <2>1, <2>2, RowKept DEF FinaliseEffects
<1>7. ASSUME NEW r \in Requests, ReopenReviewView(r) PROVE RowInv'
    <2>1. /\ request'[r].pc = "save"
          /\ request'[r].obj = reopen(review)
          /\ \A q \in Requests \ {r} : request'[q] = request[q]
        BY <1>7 DEF ReopenReviewView, Becomes, TypeOK
    <2>2. InStep(reopen(review))
        BY <1>7, <1>a, MethodsInStep DEF ReopenReviewView
    <2> QED
        BY <1>7, <1>a, <2>1, <2>2, RowKept DEF ReopenReviewView, is_review_complete
<1>8. ASSUME NEW r \in Requests, EditReviewSystemView(r) PROVE RowInv'
    <2>1. /\ request'[r].pc = "record"
          /\ \A q \in Requests \ {r} : request'[q] = request[q]
        BY <1>8 DEF EditReviewSystemView, Becomes, TypeOK
    <2> QED
        BY <1>8, <2>1, RowKept DEF EditReviewSystemView
<1>9. ASSUME NEW r \in Requests, RecordChange(r) PROVE RowInv'
    <2>1. /\ request'[r].pc = "save"
          /\ request'[r].obj = record_change(review)
          /\ \A q \in Requests \ {r} : request'[q] = request[q]
        BY <1>9 DEF RecordChange, Becomes, TypeOK
    <2>2. InStep(record_change(review))
        BY <1>9, <1>a, MethodsInStep DEF RecordChange
    <2> QED
        BY <1>9, <1>a, <2>1, <2>2, RowKept DEF RecordChange, is_review_complete
<1>10. ASSUME NEW r \in Requests, ReviewAdminPage(r) PROVE RowInv'
    <2>1. /\ request'[r].pc = "page"
          /\ \A q \in Requests \ {r} : request'[q] = request[q]
        BY <1>10 DEF ReviewAdminPage, Becomes, TypeOK
    <2> QED
        BY <1>10, <2>1, RowKept DEF ReviewAdminPage
<1>11. ASSUME NEW r \in Requests, ReviewAdmin(r) PROVE RowInv'
    BY <1>11 DEF ReviewAdmin, AckInv
<1>12. ASSUME NEW r \in Requests, SaveChecked(r) PROVE RowInv'
    <2>1. /\ request'[r].pc = "write"
          /\ request'[r].obj = request[r].obj
          /\ \A q \in Requests \ {r} : request'[q] = request[q]
        BY <1>12 DEF SaveChecked, TypeOK, InFlight
    <2>2. InStep(request[r].obj)
        BY <1>12 DEF SaveChecked, RowInv
    <2> QED
        BY <1>12, <2>1, <2>2, RowKept DEF SaveChecked
<1>13. ASSUME NEW r \in Requests, SaveRefused(r) PROVE RowInv'
    <2>1. /\ request'[r].pc = "idle"
          /\ \A q \in Requests \ {r} : request'[q] = request[q]
        BY <1>13 DEF SaveRefused, Done, Idle, TypeOK
    <2> QED
        BY <1>13, <2>1, RowKept DEF SaveRefused
<1>14. ASSUME NEW r \in Requests, SaveWritten(r) PROVE RowInv'
    <2>1. /\ request[r].pc = "write"
          /\ request[r].obj \in Rows
          /\ request[r].stamp \in Nat
          /\ InStep(request[r].obj)
          /\ review' = [request[r].obj EXCEPT !.last_updated = request[r].stamp]
        BY <1>14 DEF SaveWritten, TypeOK, InFlight, RowInv
    <2>2. review' \in Rows /\ InStep(review')
        BY <2>1, MethodsInStep DEF Rows
    <2>3. InStep(confirm_system_and_scope(review', system))
        BY <2>2, MethodsInStep DEF TypeOK
    <2>4. /\ \A q \in Requests \ {r} : request'[q] = request[q]
          /\ \/ request'[r].pc = "idle"
             \/ /\ request'[r].pc = "save"
                /\ request'[r].obj = confirm_system_and_scope(review', system)
        BY <1>14 DEF SaveWritten, Saved, Becomes, Done, Idle, TypeOK
    <2>5. \A q \in Requests :
             request'[q].pc \in {"effects", "save", "write"} => InStep(request'[q].obj)
        BY <2>3, <2>4 DEF RowInv
    <2>6. ASSUME NEW q \in Requests, ~overlapped', request'[q].pc = "effects"
          PROVE  review'.status # "to_do"
        <3>1. request[q].pc = "effects"
            BY <2>4, <2>6
        <3>2. /\ ~overlapped
              /\ Handled(request[r], review)
              /\ request[r].kind # "ReviewAdmin"
            BY <1>14, <2>6, FreshWrite DEF AckInv
        <3>3. review.status # "to_do"
            BY <3>1, <3>2 DEF RowInv
        <3>4. request[r].obj.status # "to_do"
            BY <1>a, <3>2, <3>3
            DEF Handled, AllHandlers, Rows, set_outcome_review, finalise_review,
                confirm_system_and_scope, mark_review_complete, record_change, reopen
        <3> QED
            BY <2>1, <3>4 DEF Rows
    <2> QED
        BY <2>2, <2>5, <2>6 DEF RowInv, InStep
<1>15. ASSUME NEW r \in Requests, Crash(r) PROVE RowInv'
    <2>1. /\ request'[r].pc = "idle"
          /\ \A q \in Requests \ {r} : request'[q] = request[q]
        BY <1>15 DEF Crash, Done, Idle, TypeOK
    <2> QED
        BY <1>15, <2>1, RowKept DEF Crash
<1> QED
    BY <1>0, <1>1, <1>2, <1>3, <1>4, <1>5, <1>6, <1>7, <1>8, <1>9, <1>10,
       <1>11, <1>12, <1>13, <1>14, <1>15 DEF Next

LEMMA LifecycleInit == Init /\ ~Imported => Lifecycle!Init
    BY DEF Init, NewRow, Lifecycle!Init, Phase, is_review_finalised, is_review_complete

\* The phase moves only when the row is written or two saves overlap.
LEMMA LifecycleStep ==
    TypeOK /\ LockInv /\ AckInv /\ TipInv /\ RowInv /\ [Next]_vars
    => [Lifecycle!Next]_<<Phase, tip>>
<1> SUFFICES ASSUME TypeOK, LockInv, AckInv, TipInv, RowInv, [Next]_vars
             PROVE  Lifecycle!Next \/ UNCHANGED <<Phase, tip>>
    OBVIOUS
<1> USE DEF Lifecycle!Next, Lifecycle!Move
<1>1. CASE \E r \in Requests : FinaliseEffects(r)
    <2>1. PICK r \in Requests : FinaliseEffects(r)
        BY <1>1
    <2>2. tip' = TRUE /\ UNCHANGED <<review, overlapped>>
        BY <2>1 DEF FinaliseEffects
    <2>3. Phase' = Phase
        BY <2>2 DEF Phase, is_review_finalised, is_review_complete
    <2>4. Phase # "to_do"
        BY <2>1 DEF FinaliseEffects, RowInv, Phase
    <2> QED
        BY <2>2, <2>3, <2>4 DEF Lifecycle!CreateTip
<1>2. CASE \E r \in Requests : SaveWritten(r)
    <2>1. PICK r \in Requests : SaveWritten(r)
        BY <1>2
    <2>2. tip' = tip
        BY <2>1 DEF SaveWritten
    <2>3. CASE overlapped'
        BY <2>2, <2>3 DEF Phase, Lifecycle!Overlap
    <2>4. CASE ~overlapped'
        <3> DEFINE q == request[r]
        <3>1. /\ ~overlapped
              /\ q.pc = "write"
              /\ Handled(q, review)
              /\ ~refused(q.obj, review, can_edit(q))
              /\ review' = [q.obj EXCEPT !.last_updated = q.stamp]
            BY <2>1, <2>4, FreshWrite
        <3>2. /\ review \in Rows
              /\ q.obj \in Rows
              /\ q.kind # "ReviewAdmin"
              /\ InStep(review)
            BY DEF TypeOK, InFlight, AckInv, RowInv
        <3>3. q.obj.finalised => tip
            BY <3>1 DEF TipInv
        <3> HIDE DEF q
        <3>4. /\ review'.status = q.obj.status
              /\ review'.completion = q.obj.completion
              /\ review'.finalised = q.obj.finalised
            BY <3>1, <3>2 DEF Rows
        <3>5. /\ Phase = IF is_review_finalised(review) THEN "finalised" ELSE review.status
              /\ Phase' = IF is_review_finalised(q.obj) THEN "finalised" ELSE q.obj.status
            BY <2>4, <3>1, <3>4 DEF Phase, is_review_finalised, is_review_complete
        <3> USE DEF is_review_finalised, is_review_complete
        <3>6. CASE q.kind \in {"OutcomeView", "SystemAndScopeView", "record_change"}
            <4>1. /\ q.obj.status = review.status
                  /\ q.obj.completion = review.completion
                  /\ q.obj.finalised = review.finalised
                BY <3>1, <3>2, <3>6 DEF Handled, Rows, set_outcome_review, record_change
            <4> QED
                BY <2>2, <3>5, <4>1
        <3>7. CASE q.kind = "confirm"
            <4>1. /\ q.obj.completion = review.completion
                  /\ q.obj.finalised = review.finalised
                  /\ q.obj.status = IF review.status = "to_do" THEN "in_progress"
                                    ELSE review.status
                BY <3>1, <3>2, <3>7 DEF Handled, Rows, confirm_system_and_scope
            <4> QED
                BY <2>2, <3>2, <3>5, <4>1 DEF InStep, Lifecycle!ConfirmScope
        <3>8. CASE q.kind = "CreateReportView"
            <4>1. /\ review.status = "in_progress"
                  /\ q.obj.status = "completed"
                  /\ q.obj.finalised = review.finalised
                BY <3>1, <3>2, <3>8 DEF Handled, Rows, mark_review_complete
            <4> QED
                BY <2>2, <3>2, <3>5, <4>1 DEF InStep, Lifecycle!CreateReport
        <3>9. CASE q.kind = "FinaliseReview"
            <4>1. /\ is_review_complete(review)
                  /\ q.obj.status = "completed"
                  /\ is_review_finalised(q.obj)
                  /\ tip
                BY <3>1, <3>2, <3>3, <3>9 DEF Handled, Rows, finalise_review
            <4>2. ~is_review_finalised(review)
                BY <3>1, <4>1 DEF refused
            <4> QED
                BY <2>2, <3>5, <4>1, <4>2 DEF Lifecycle!Finalise
        <3>10. CASE q.kind = "ReopenReviewView"
            <4>1. /\ is_review_complete(review)
                  /\ ~is_review_finalised(review)
                  /\ q.obj.status = "in_progress"
                BY <3>1, <3>2, <3>10 DEF Handled, Rows, reopen
            <4> QED
                BY <2>2, <3>5, <4>1 DEF Lifecycle!Reopen
        <3> QED
            BY <3>1, <3>2, <3>6, <3>7, <3>8, <3>9, <3>10 DEF Handled, AllHandlers
    <2> QED
        BY <2>3, <2>4
<1>3. CASE ~(\E r \in Requests : FinaliseEffects(r) \/ SaveWritten(r))
    <2>1. UNCHANGED <<review, overlapped, tip>>
        BY <1>3 DEF Next, vars, OutcomeView, SystemAndScopeView,
           CreateReportPage, CreateReportView, FinaliseReview,
           ReopenReviewView, EditReviewSystemView, RecordChange,
           ReviewAdminPage, ReviewAdmin, SaveChecked, SaveRefused, Crash
    <2> QED
        BY <2>1 DEF Phase, is_review_finalised, is_review_complete
<1> QED
    BY <1>1, <1>2, <1>3

\* The users' requests, interleaved and interrupted in every way, are seen from
\* outside as the serial life of a review, as long as no two saves overlap.
THEOREM ImplementsLifecycle ==
    ASSUME "ReviewAdmin" \notin Handlers, ~Imported
    PROVE  Spec => LifecycleSpec
<1>1. TypeOK /\ LockInv /\ AckInv /\ [Next]_vars => AckInv'
    BY AckStep
<1>2. Init => Lifecycle!Init /\ TipInv /\ RowInv /\ AckInv
    BY LifecycleInit, TipInit, RowInit, AckInit
<1> QED
    BY <1>1, <1>2, TipStep, RowStep, LifecycleStep, LockInvariant, PTL
    DEF Spec, LifecycleSpec, Lifecycle!Spec
=============================================================================
