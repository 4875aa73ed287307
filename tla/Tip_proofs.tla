----------------------------- MODULE Tip_proofs -----------------------------
(***************************************************************************)
(* Proofs about Tip for every number of requests, recommendations, answers *)
(* and texts.                                                              *)
(*                                                                         *)
(* CompleteInv carries completeness along whatever overlaps, because every *)
(* instance is as complete as its status says and is written as a whole.   *)
(* ReadInv and FreshInv follow an instance from the handler to the row as  *)
(* long as no page was out of date.                                        *)
(***************************************************************************)
EXTENDS Tip, TLAPS

-----------------------------------------------------------------------------
(* Type correctness                                                        *)

LEMMA NoActionsType == NoActions \in Actions
    BY DEF NoActions, Actions

LEMMA NewType == NewTip \in Rows /\ Idle \in InFlight
    BY NoActionsType DEF NewTip, Rows, TipStatus, Idle, InFlight, Kinds

\* The model methods map rows to rows.
LEMMA AnswerType ==
    ASSUME NEW o \in Rows, NEW D \in SUBSET Positions,
           NEW answered \in [D -> RecommendationAction]
    PROVE  set_recommendation_action(o, answered) \in Rows
<1> DEFINE merged == [p \in Positions |-> IF p \in DOMAIN answered
                                          THEN answered[p] ELSE o.actions[p]]
<1>1. merged \in Actions
    <2> SUFFICES ASSUME NEW p \in Positions
                 PROVE  merged[p] \in RecommendationAction \cup {None}
        BY DEF Actions
    <2>1. DOMAIN answered = D
        OBVIOUS
    <2>2. o.actions \in Actions
        BY DEF Rows
    <2>3. o.actions[p] \in RecommendationAction \cup {None}
        BY <2>2 DEF Actions
    <2> QED
        BY <2>1, <2>3
<1>2. set_recommendation_action(o, answered)
        = [o EXCEPT !.actions = merged,
                    !.confirmation = IF o.status = "answers_confirmed"
                                     THEN None ELSE o.confirmation,
                    !.status = "in_progress"]
    BY DEF set_recommendation_action
<1> HIDE DEF merged
<1> QED
    BY <1>1, <1>2 DEF Rows, TipStatus

LEMMA MethodsType ==
    ASSUME NEW o \in Rows
    PROVE  /\ \A read \in Actions : confirm_answers(o, read) \in Rows
           /\ submit_report(o) \in Rows
           /\ approve(o) \in Rows
           /\ reject(o) \in Rows
           /\ reopen(o) \in Rows
    BY DEF confirm_answers, submit_report, approve, reject, reopen, Rows, TipStatus

LEMMA BecomesType ==
    ASSUME TypeOK, NEW r \in Requests, NEW pc \in {"idle", "page", "write"},
           NEW kind \in Kinds, NEW o \in Rows, Becomes(r, pc, kind, o)
    PROVE  request' \in [Requests -> InFlight]
    BY DEF TypeOK, Becomes, InFlight

LEMMA PostedType ==
    ASSUME TypeOK, NEW r \in Requests
    PROVE  Posted(r) \in Rows
    BY DEF TypeOK, Posted, InFlight, Rows

LEMMA TypeInit == Init => TypeOK
    BY NewType DEF Init, TypeOK, Rows

LEMMA Answered ==
    ASSUME TypeOK, NEW D \in SUBSET Recommended, NEW answer \in Answers,
           NEW reviewed \in {"yes", "no"}
    PROVE  [p \in D |-> [reviewed |-> reviewed, answer |-> answer,
                         about |-> recommendations[p]]]
             \in [D -> RecommendationAction]
    BY DEF TypeOK, Recommended, RecommendationAction

LEMMA AnsweredStatus ==
    ASSUME NEW o \in Rows, NEW D \in SUBSET Positions,
           NEW answered \in [D -> RecommendationAction]
    PROVE  /\ set_recommendation_action(o, answered).status = "in_progress"
           /\ o.status = "answers_confirmed" \/ o.confirmation = None
                 => set_recommendation_action(o, answered).confirmation = None
    BY DEF set_recommendation_action, Rows

\* What the two views that answer recommendations leave to be written.
AnswerOf(o) ==
    \/ o = tip
    \/ /\ o.status = "in_progress"
       /\ tip.status = "answers_confirmed" \/ tip.confirmation = None
            => o.confirmation = None

LEMMA AnswerStep ==
    ASSUME TypeOK, NEW r \in Requests,
           TipRecommendationActionView(r) \/ TipRecommendationsView(r)
    PROVE  /\ is_editable(tip)
           /\ UNCHANGED <<tip, recommendations, visible, overlapped, outdated>>
           /\ \E o \in Rows : Becomes(r, "write", "user", o) /\ AnswerOf(o)
<1>1. CASE TipRecommendationActionView(r)
    <2>1. PICK p \in Recommended, reviewed \in {"yes", "no"}, answer \in Answers :
             Becomes(r, "write", "user",
                  set_recommendation_action(tip,
                    [q \in {p} |-> [reviewed |-> reviewed, answer |-> answer,
                                    about |-> recommendations[q]]]))
        BY <1>1 DEF TipRecommendationActionView
    <2> DEFINE answered == [q \in {p} |-> [reviewed |-> reviewed, answer |-> answer,
                                           about |-> recommendations[q]]]
    <2>2. {p} \in SUBSET Recommended /\ {p} \in SUBSET Positions
        BY DEF Recommended
    <2>3. answered \in [{p} -> RecommendationAction]
        BY <2>2, Answered
    <2> HIDE DEF answered
    <2>4. tip \in Rows
        BY DEF TypeOK
    <2>5. AnswerOf(set_recommendation_action(tip, answered))
        BY <2>2, <2>3, <2>4, AnsweredStatus DEF AnswerOf
    <2>6. set_recommendation_action(tip, answered) \in Rows
        BY <2>2, <2>3, <2>4, AnswerType
    <2>7. Becomes(r, "write", "user", set_recommendation_action(tip, answered))
        BY <2>1 DEF answered
    <2> QED
        BY <1>1, <2>5, <2>6, <2>7 DEF TipRecommendationActionView
<1>2. CASE TipRecommendationsView(r)
    <2>1. PICK listed \in SUBSET (Other \cap Recommended) :
             LET left == {p \in listed : tip.actions[p] = None}
             IN  Becomes(r, "write", "user",
                   IF left = {} THEN tip
                   ELSE set_recommendation_action(tip,
                          [p \in left |-> [reviewed |-> "yes", answer |-> "declined",
                                           about |-> recommendations[p]]]))
        BY <1>2 DEF TipRecommendationsView
    <2> DEFINE left == {p \in listed : tip.actions[p] = None}
               answered == [p \in left |-> [reviewed |-> "yes", answer |-> "declined",
                                            about |-> recommendations[p]]]
    <2>2. left \in SUBSET Recommended /\ left \in SUBSET Positions
        BY DEF Recommended
    <2>3. answered \in [left -> RecommendationAction]
        BY <2>2, Answered, TipAssumption
    <2>4. Becomes(r, "write", "user",
                  IF left = {} THEN tip ELSE set_recommendation_action(tip, answered))
        BY <2>1
    <2> HIDE DEF left, answered
    <2>5. tip \in Rows
        BY DEF TypeOK
    <2>6. AnswerOf(set_recommendation_action(tip, answered)) /\ AnswerOf(tip)
        BY <2>2, <2>3, <2>5, AnsweredStatus DEF AnswerOf
    <2>7. set_recommendation_action(tip, answered) \in Rows
        BY <2>2, <2>3, <2>5, AnswerType
    <2>8. is_editable(tip)
        BY <1>2 DEF TipRecommendationsView
    <2>9. UNCHANGED <<tip, recommendations, visible, overlapped, outdated>>
        BY <1>2 DEF TipRecommendationsView
    <2> QED
        BY <2>4, <2>5, <2>6, <2>7, <2>8, <2>9
<1> QED
    BY <1>1, <1>2

LEMMA TypeStep == TypeOK /\ [Next]_vars => TypeOK'
<1> SUFFICES ASSUME TypeOK, [Next]_vars PROVE TypeOK'
    OBVIOUS
<1> USE DEF TypeOK
<1>1. ASSUME NEW r \in Requests,
             TipRecommendationActionView(r) \/ TipRecommendationsView(r)
      PROVE  TypeOK'
    <2>1. request' \in [Requests -> InFlight]
        BY <1>1, AnswerStep, BecomesType DEF Kinds
    <2> QED
        BY <1>1, <2>1, AnswerStep
<1>2. ASSUME NEW r \in Requests, TipReviewAnswersPage(r) PROVE TypeOK'
    <2>1. request' \in [Requests -> InFlight]
        BY <1>2, BecomesType DEF TipReviewAnswersPage, Kinds
    <2> QED
        BY <1>2, <2>1 DEF TipReviewAnswersPage
<1>3. ASSUME NEW r \in Requests, TipReviewAnswersView(r) PROVE TypeOK'
    <2>1. request[r].obj.actions \in Actions
        BY DEF InFlight, Rows
    <2>2. confirm_answers(tip, request[r].obj.actions) \in Rows
        BY <2>1, MethodsType
    <2>3. request' \in [Requests -> InFlight]
        BY <1>3, <2>2, BecomesType DEF TipReviewAnswersView, Kinds
    <2> QED
        BY <1>3, <2>3 DEF TipReviewAnswersView
<1>4. ASSUME NEW r \in Requests, TipSubmitView(r) PROVE TypeOK'
    <2>1. request' \in [Requests -> InFlight]
        BY <1>4, MethodsType, BecomesType DEF TipSubmitView, Kinds
    <2> QED
        BY <1>4, <2>1 DEF TipSubmitView
<1>5. ASSUME NEW r \in Requests, TipAdminPage(r) PROVE TypeOK'
    <2>1. request' \in [Requests -> InFlight]
        BY <1>5, BecomesType DEF TipAdminPage, Kinds
    <2> QED
        BY <1>5, <2>1 DEF TipAdminPage
<1>6. ASSUME NEW r \in Requests, TipAdmin(r) PROVE TypeOK'
    <2>1. PICK o \in {approve(Posted(r)), reject(Posted(r)), reopen(Posted(r)),
                      Posted(r)} : Becomes(r, "write", "admin", o)
        BY <1>6 DEF TipAdmin
    <2>2. o \in Rows
        BY PostedType, MethodsType
    <2>3. request' \in [Requests -> InFlight]
        BY <2>1, <2>2, BecomesType DEF Kinds
    <2> QED
        BY <1>6, <2>3 DEF TipAdmin
<1>7. ASSUME NEW r \in Requests, Write(r) PROVE TypeOK'
    <2>1. request' \in [Requests -> InFlight]
        BY <1>7, NewType DEF Write, InFlight
    <2>2. tip' \in Rows
        BY <1>7 DEF Write, InFlight
    <2>3. overlapped' \in BOOLEAN
        BY <1>7 DEF Write, InFlight
    <2> QED
        BY <1>7, <2>1, <2>2, <2>3 DEF Write
<1>8. ASSUME NEW r \in Requests, Crash(r) PROVE TypeOK'
    <2>1. request' \in [Requests -> InFlight]
        BY <1>8, NewType DEF Crash
    <2> QED
        BY <1>8, <2>1 DEF Crash
<1>9. ASSUME FinaliseReview \/ UnfinaliseReview \/ EditRecommendations PROVE TypeOK'
    BY <1>9 DEF FinaliseReview, UnfinaliseReview, EditRecommendations
<1>10. CASE UNCHANGED vars
    BY <1>10 DEF vars
<1> QED
    BY <1>1, <1>2, <1>3, <1>4, <1>5, <1>6, <1>7, <1>8, <1>9, <1>10 DEF Next

\* Every reachable state of the plan, the review behind it and the requests is
\* well typed.
THEOREM TipTypeCorrect == Spec => []TypeOK
    BY TypeInit, TypeStep, PTL DEF Spec

-----------------------------------------------------------------------------
(* Completeness, whatever overlaps                                         *)

Complete(o) == is_submitted(o) => is_ready_to_submit(o) /\ o.finalise

CompleteInv == Complete(tip) /\ \A r \in Requests : Complete(request[r].obj)

LEMMA EditableIsComplete ==
    ASSUME NEW o \in Rows, o.status \notin {"review", "approved"}
    PROVE  Complete(o)
    BY DEF Complete, is_submitted

\* An instance that is as complete as its status says may be taken up.
LEMMA BecomesComplete ==
    ASSUME TypeOK, CompleteInv, NEW r \in Requests,
           NEW pc \in {"idle", "page", "write"}, NEW kind \in Kinds,
           NEW o \in Rows, Complete(o), Becomes(r, pc, kind, o),
           UNCHANGED <<tip, recommendations>>
    PROVE  CompleteInv'
<1>1. Recommended' = Recommended
    BY DEF Recommended
<1>2. ASSUME NEW q \in Requests PROVE Complete(request[q].obj)'
    <2>1. request'[q].obj = o \/ request'[q].obj = request[q].obj
        BY DEF Becomes, TypeOK
    <2> QED
        BY <1>1, <2>1 DEF CompleteInv, Complete, is_submitted, is_ready_to_submit,
                          is_ready_to_review_actions, is_reviewed, is_answers_confirmed
<1>3. Complete(tip)'
    BY <1>1 DEF CompleteInv, Complete, is_submitted, is_ready_to_submit,
                is_ready_to_review_actions, is_reviewed, is_answers_confirmed
<1> QED
    BY <1>2, <1>3 DEF CompleteInv

LEMMA CompleteInit == Init => CompleteInv
    BY DEF Init, CompleteInv, Complete, Idle, NewTip, is_submitted

LEMMA CompleteStep ==
    ASSUME "Save" \notin Handlers, "Rework" \notin Handlers
    PROVE  TypeOK /\ CompleteInv /\ [Next]_vars => CompleteInv'
<1> SUFFICES ASSUME TypeOK, CompleteInv, [Next]_vars PROVE CompleteInv'
    OBVIOUS
<1>a. tip \in Rows /\ \A r \in Requests : request[r].obj \in Rows
    BY DEF TypeOK, InFlight
<1>b. Complete(tip) /\ \A r \in Requests : Complete(request[r].obj)
    BY DEF CompleteInv
<1>1. ASSUME NEW r \in Requests,
             TipRecommendationActionView(r) \/ TipRecommendationsView(r)
      PROVE  CompleteInv'
    <2>1. PICK o \in Rows : Becomes(r, "write", "user", o) /\ AnswerOf(o)
        BY <1>1, AnswerStep
    <2>2. Complete(o)
        BY <1>b, <2>1, EditableIsComplete DEF AnswerOf
    <2> QED
        BY <1>1, <2>1, <2>2, AnswerStep, BecomesComplete DEF Kinds
<1>2. ASSUME NEW r \in Requests, TipReviewAnswersPage(r) \/ TipAdminPage(r)
      PROVE  CompleteInv'
    <2>1. UNCHANGED <<tip, recommendations>>
        BY <1>2 DEF TipReviewAnswersPage, TipAdminPage
    <2>2. PICK kind \in Kinds : Becomes(r, "page", kind, tip)
        BY <1>2 DEF TipReviewAnswersPage, TipAdminPage, Kinds
    <2> QED
        BY <1>a, <1>b, <2>1, <2>2, BecomesComplete
<1>3. ASSUME NEW r \in Requests, TipReviewAnswersView(r) PROVE CompleteInv'
    <2> DEFINE o == confirm_answers(tip, request[r].obj.actions)
    <2>a. request[r].obj.actions \in Actions
        BY <1>a DEF Rows
    <2>1. o \in Rows /\ o.status = "answers_confirmed"
        <3>1. o \in Rows
            BY <1>a, <2>a, MethodsType
        <3>2. o.status = "answers_confirmed"
            BY <1>a DEF confirm_answers, Rows
        <3> QED
            BY <3>1, <3>2
    <2>2. Becomes(r, "write", "user", o) /\ UNCHANGED <<tip, recommendations>>
        BY <1>3 DEF TipReviewAnswersView
    <2> HIDE DEF o
    <2> QED
        BY <2>1, <2>2, EditableIsComplete, BecomesComplete DEF Kinds
<1>4. ASSUME NEW r \in Requests, TipSubmitView(r) PROVE CompleteInv'
    <2>1. UNCHANGED <<tip, recommendations>>
        BY <1>4 DEF TipSubmitView
    <2>2. Becomes(r, "write", "user", submit_report(tip))
        BY <1>4 DEF TipSubmitView
    <2>3. submit_report(tip) \in Rows
        BY <1>a, MethodsType
    <2>4. is_ready_to_submit(tip)
        BY <1>4 DEF TipSubmitView
    <2>5. Complete(submit_report(tip))
        BY <1>a, <2>4 DEF Complete, submit_report, is_ready_to_submit, Rows,
              is_ready_to_review_actions, is_reviewed, is_answers_confirmed
    <2> QED
        BY <2>1, <2>2, <2>3, <2>5, BecomesComplete DEF Kinds
<1>5. ASSUME NEW r \in Requests, TipAdmin(r) PROVE CompleteInv'
    <2>1. UNCHANGED <<tip, recommendations>>
        BY <1>5 DEF TipAdmin
    <2>2. Posted(r) \in Rows
        BY PostedType
    <2>3. CASE /\ Becomes(r, "write", "admin", approve(Posted(r)))
               /\ request[r].obj.status = "review"
        <3>1. is_ready_to_submit(request[r].obj) /\ request[r].obj.finalise
            BY <1>b, <2>3 DEF Complete, is_submitted
        <3>2. Complete(approve(Posted(r)))
            BY <1>a, <3>1 DEF Complete, approve, Posted, is_ready_to_submit, Rows,
                  is_ready_to_review_actions, is_reviewed, is_answers_confirmed
        <3>3. approve(Posted(r)) \in Rows
            BY <2>2, MethodsType
        <3> QED
            BY <2>1, <2>3, <3>2, <3>3, BecomesComplete DEF Kinds
    <2>4. CASE \E o \in {reject(Posted(r)), reopen(Posted(r))} :
                  Becomes(r, "write", "admin", o)
        <3>1. PICK o \in {reject(Posted(r)), reopen(Posted(r))} :
                  Becomes(r, "write", "admin", o)
            BY <2>4
        <3>2. o \in Rows
            BY <2>2, <3>1, MethodsType
        <3>3. o.status \in {"rejected", "in_progress"}
            BY <2>2, <3>1 DEF reject, reopen, Rows
        <3>4. Complete(o)
            BY <3>2, <3>3, EditableIsComplete
        <3> QED
            BY <2>1, <3>1, <3>2, <3>4, BecomesComplete DEF Kinds
    <2> QED
        BY <1>5, <2>3, <2>4 DEF TipAdmin
<1>6. ASSUME NEW r \in Requests, Write(r) \/ Crash(r) PROVE CompleteInv'
    <2>1. Recommended' = Recommended
        BY <1>6 DEF Write, Crash, Recommended
    <2>2. Complete(Idle.obj)
        BY DEF Complete, Idle, NewTip, is_submitted
    <2>3. \A q \in Requests : request'[q].obj \in {request[q].obj, Idle.obj}
        BY <1>6 DEF Write, Crash, TypeOK, InFlight
    <2>4. tip' \in {tip, request[r].obj}
        BY <1>6 DEF Write, Crash
    <2>5. ASSUME NEW q \in Requests PROVE Complete(request[q].obj)'
        <3>1. CASE request'[q].obj = Idle.obj
            BY <3>1 DEF Complete, Idle, NewTip, is_submitted
        <3>2. CASE request'[q].obj = request[q].obj
            BY <1>b, <2>1, <3>2 DEF Complete, is_submitted, is_ready_to_submit,
                  is_ready_to_review_actions, is_reviewed, is_answers_confirmed
        <3> QED
            BY <2>3, <3>1, <3>2
    <2>6. Complete(tip)'
        BY <1>b, <2>1, <2>4 DEF Complete, is_submitted, is_ready_to_submit,
              is_ready_to_review_actions, is_reviewed, is_answers_confirmed
    <2> QED
        BY <2>5, <2>6 DEF CompleteInv
<1>7. ASSUME FinaliseReview \/ UNCHANGED vars PROVE CompleteInv'
    BY <1>7 DEF FinaliseReview, vars, CompleteInv, Complete, is_submitted,
          is_ready_to_submit, is_ready_to_review_actions, is_reviewed,
          is_answers_confirmed, Recommended
<1>8. ASSUME UnfinaliseReview \/ EditRecommendations PROVE FALSE
    BY <1>8 DEF UnfinaliseReview, EditRecommendations
<1> QED
    BY <1>1, <1>2, <1>3, <1>4, <1>5, <1>6, <1>7, <1>8 DEF Next

\* A submitted or approved plan answers every recommendation and carries the
\* lead's confirmation and the finalise mark, whatever requests overlap or are
\* killed, as long as nobody uses the superuser's Save and the review behind
\* the plan is left alone (TipSubmitView, Tip.submit_report).
THEOREM SubmittedPlanIsComplete ==
    ASSUME "Save" \notin Handlers, "Rework" \notin Handlers
    PROVE  Spec => []SubmittedIsComplete
<1>1. CompleteInv => SubmittedIsComplete
    BY DEF CompleteInv, Complete, SubmittedIsComplete
<1> QED
    BY <1>1, TypeInit, TypeStep, CompleteInit, CompleteStep, PTL DEF Spec

-----------------------------------------------------------------------------
(* What holds as long as no page was out of date                           *)

\* A confirmation stands for the answers beside it.
Read(o) ==
    o.confirmation # None =>
        /\ o.confirmation = o.actions
        /\ o.status \in {"answers_confirmed", "review", "approved"}

ReadInv == ~outdated => Read(tip) /\ \A r \in Requests : Read(request[r].obj)

\* What may become of the row in one write.
Follows(t, o) ==
    \/ o = t
    \/ is_editable(t) /\ o.status = "in_progress"
    \/ t.status = "in_progress" /\ o.status = "answers_confirmed"
    \/ /\ <<t.status, o.status>> \in {<<"answers_confirmed", "review">>,
                                      <<"review", "approved">>}
       /\ o.actions = t.actions
    \/ <<t.status, o.status>> \in {<<"review", "rejected">>,
                                   <<"approved", "in_progress">>}

\* An instance that was loaded from the present row follows it, and a user's
\* instance was loaded before the plan was submitted.
FreshInv == \A r \in Requests :
    request[r].pc = "write" =>
        /\ request[r].kind \in {"user", "admin"}
        /\ ~request[r].stale => /\ request[r].kind = "user" => ~is_submitted(tip)
                                /\ ~outdated => Follows(tip, request[r].obj)

OutdatedInv == TypeOK /\ ReadInv /\ FreshInv

LEMMA OutdatedInit == Init => OutdatedInv
    BY TypeInit DEF Init, OutdatedInv, ReadInv, FreshInv, Read, Idle, NewTip

\* A request that takes up an instance o keeps both.
LEMMA BecomesFresh ==
    ASSUME OutdatedInv, NEW r \in Requests, NEW pc \in {"idle", "page", "write"},
           NEW kind \in Kinds, NEW o \in Rows, Becomes(r, pc, kind, o),
           tip' = tip, overlapped' = overlapped, outdated \in BOOLEAN,
           outdated' \in BOOLEAN, outdated => outdated',
           ~outdated' => Read(o),
           pc = "write" => /\ kind \in {"user", "admin"}
                           /\ kind = "user" => ~is_submitted(tip)
                           /\ ~outdated' => Follows(tip, o)
    PROVE  ReadInv' /\ FreshInv'
<1> USE DEF OutdatedInv
<1>1. request'[r] = [pc |-> pc, kind |-> kind, obj |-> o, stale |-> FALSE]
    BY DEF Becomes, TypeOK
<1>2. \A q \in Requests \ {r} : request'[q] = request[q]
    BY DEF Becomes, TypeOK
<1>3. ReadInv'
    BY <1>1, <1>2 DEF ReadInv, Read
<1>4. FreshInv'
    <2> SUFFICES ASSUME NEW q \in Requests, request'[q].pc = "write"
                 PROVE  /\ request'[q].kind \in {"user", "admin"}
                        /\ ~request'[q].stale =>
                             /\ request'[q].kind = "user" => ~is_submitted(tip')
                             /\ ~outdated' => Follows(tip', request'[q].obj)
        BY DEF FreshInv, is_submitted, Follows, is_editable
    <2>1. CASE q = r
        BY <1>1, <2>1
    <2>2. CASE q # r
        BY <1>2, <2>2 DEF FreshInv
    <2> QED
        BY <2>1, <2>2
<1> QED
    BY <1>3, <1>4

LEMMA OutdatedStep == OutdatedInv /\ [Next]_vars => OutdatedInv'
<1> SUFFICES ASSUME OutdatedInv, [Next]_vars PROVE OutdatedInv'
    OBVIOUS
<1>0. TypeOK'
    BY TypeStep DEF OutdatedInv
<1>a. tip \in Rows /\ outdated \in BOOLEAN /\ outdated' \in BOOLEAN
    BY <1>0 DEF OutdatedInv, TypeOK
<1>b. \A r \in Requests : request[r].obj \in Rows /\ request[r].obj.actions \in Actions
    BY DEF OutdatedInv, TypeOK, InFlight, Rows
<1>c. ~outdated => Read(tip)
    BY DEF OutdatedInv, ReadInv
<1> SUFFICES ReadInv' /\ FreshInv'
    BY <1>0 DEF OutdatedInv
<1>1. ASSUME NEW r \in Requests,
             TipRecommendationActionView(r) \/ TipRecommendationsView(r)
      PROVE  ReadInv' /\ FreshInv'
    <2>0. TypeOK
        BY DEF OutdatedInv
    <2>1. PICK o \in Rows : Becomes(r, "write", "user", o) /\ AnswerOf(o)
        BY <1>1, <2>0, AnswerStep
    <2>2. is_editable(tip) /\ UNCHANGED <<tip, overlapped, outdated>>
        BY <1>1, <2>0, AnswerStep
    <2>3. ~outdated => Read(o)
        BY <1>c, <2>1, <2>2 DEF AnswerOf, Read, is_editable
    <2>4. Follows(tip, o)
        BY <2>1, <2>2 DEF AnswerOf, Follows
    <2>5. ~is_submitted(tip)
        BY <2>2 DEF is_editable, is_submitted
    <2> QED
        BY <1>a, <2>1, <2>2, <2>3, <2>4, <2>5, BecomesFresh DEF Kinds
<1>2. ASSUME NEW r \in Requests, TipReviewAnswersPage(r) \/ TipAdminPage(r)
      PROVE  ReadInv' /\ FreshInv'
    <2>1. UNCHANGED <<tip, overlapped, outdated>>
        BY <1>2 DEF TipReviewAnswersPage, TipAdminPage
    <2>2. PICK kind \in Kinds : Becomes(r, "page", kind, tip)
        BY <1>2 DEF TipReviewAnswersPage, TipAdminPage, Kinds
    <2> QED
        BY <1>a, <1>c, <2>1, <2>2, BecomesFresh
<1>3. ASSUME NEW r \in Requests, TipReviewAnswersView(r) PROVE ReadInv' /\ FreshInv'
    <2> DEFINE o == confirm_answers(tip, request[r].obj.actions)
    <2>1. UNCHANGED <<tip, overlapped>> /\ (outdated => outdated')
        BY <1>3 DEF TipReviewAnswersView
    <2>2. Becomes(r, "write", "user", o) /\ tip.status = "in_progress"
        BY <1>3 DEF TipReviewAnswersView
    <2>3. o \in Rows
        BY <1>a, <1>b, MethodsType
    <2>4. /\ o.status = "answers_confirmed"
          /\ o.confirmation = request[r].obj.actions
          /\ o.actions = tip.actions
        BY <1>a DEF confirm_answers, Rows
    <2> HIDE DEF o
    <2>5. ~outdated' => Read(o)
        BY <1>3, <2>4 DEF TipReviewAnswersView, Read
    <2>6. Follows(tip, o) /\ ~is_submitted(tip)
        BY <2>2, <2>4 DEF Follows, is_submitted
    <2> QED
        BY <1>a, <2>1, <2>2, <2>3, <2>5, <2>6, BecomesFresh DEF Kinds
<1>4. ASSUME NEW r \in Requests, TipSubmitView(r) PROVE ReadInv' /\ FreshInv'
    <2>1. UNCHANGED <<tip, overlapped, outdated>>
        BY <1>4 DEF TipSubmitView
    <2> DEFINE o == submit_report(tip)
    <2>2. o \in Rows
        BY <1>a, MethodsType
    <2>3. /\ o.status = "review"
          /\ o.actions = tip.actions
          /\ o.confirmation = tip.confirmation
        BY <1>a DEF submit_report, Rows
    <2>4. tip.confirmation # None /\ ~is_submitted(tip)
        BY <1>4 DEF TipSubmitView, is_ready_to_submit, is_answers_confirmed
    <2>5. Becomes(r, "write", "user", o)
        BY <1>4 DEF TipSubmitView
    <2> HIDE DEF o
    <2>6. ~outdated => tip.status = "answers_confirmed"
        BY <1>c, <2>4 DEF Read, is_submitted
    <2>7. ~outdated => Read(o) /\ Follows(tip, o)
        BY <1>c, <2>3, <2>6 DEF Read, Follows
    <2> QED
        BY <1>a, <2>1, <2>2, <2>4, <2>5, <2>7, BecomesFresh DEF Kinds
<1>5. ASSUME NEW r \in Requests, TipAdmin(r) PROVE ReadInv' /\ FreshInv'
    <2>1. UNCHANGED <<tip, overlapped>> /\ (outdated => outdated')
        BY <1>5 DEF TipAdmin
    <2>2. ~outdated' => Posted(r) = tip
        BY <1>5 DEF TipAdmin
    <2>3. PICK o : /\ Becomes(r, "write", "admin", o)
                   /\ \/ o = approve(Posted(r)) /\ tip.status = "review"
                      \/ o = reject(Posted(r)) /\ tip.status = "review"
                      \/ o = reopen(Posted(r)) /\ tip.status = "approved"
                      \/ o = Posted(r)
        BY <1>5 DEF TipAdmin
    <2>4. o \in Rows
        <3>1. TypeOK
            BY DEF OutdatedInv
        <3> QED
            BY <2>3, <3>1, PostedType, MethodsType
    <2>5. ~outdated' => Read(o)
        BY <1>a, <1>c, <2>1, <2>2, <2>3 DEF Read, approve, reject, reopen, Rows
    <2>6. ~outdated' => Follows(tip, o)
        BY <1>a, <2>2, <2>3 DEF Follows, approve, reject, reopen, Rows
    <2> QED
        BY <1>a, <2>1, <2>3, <2>4, <2>5, <2>6, BecomesFresh DEF Kinds
<1>6. ASSUME NEW r \in Requests, Write(r) PROVE ReadInv' /\ FreshInv'
    <2>1. \A q \in Requests :
             request'[q] = IF q = r THEN Idle
                           ELSE [request[q] EXCEPT !.stale = (request[q].pc = "write")]
        BY <1>6 DEF Write
    <2>2. tip' = request[r].obj /\ outdated' = outdated
        BY <1>6 DEF Write
    <2>3. \A q \in Requests : request[q] \in InFlight
        BY DEF OutdatedInv, TypeOK
    <2>4. Read(Idle.obj)
        BY DEF Read, Idle, NewTip
    <2>5. \A q \in Requests : request'[q].obj \in {request[q].obj, Idle.obj}
        BY <2>1, <2>3 DEF InFlight
    <2>6. ReadInv'
        BY <2>2, <2>4, <2>5 DEF OutdatedInv, ReadInv, Read
    <2>7. \A q \in Requests : request'[q].pc = "write" =>
             request'[q].stale /\ request'[q].kind \in {"user", "admin"}
        <3> SUFFICES ASSUME NEW q \in Requests, request'[q].pc = "write"
                     PROVE  request'[q].stale /\ request'[q].kind \in {"user", "admin"}
            OBVIOUS
        <3>1. q # r
            <4>1. request'[r] = Idle
                BY <2>1
            <4> QED
                BY <4>1 DEF Idle
        <3>2. /\ request'[q].pc = request[q].pc
              /\ request'[q].kind = request[q].kind
              /\ request'[q].stale = (request[q].pc = "write")
            BY <2>1, <2>3, <3>1 DEF InFlight
        <3> QED
            BY <3>2 DEF OutdatedInv, FreshInv
    <2> QED
        BY <2>6, <2>7 DEF FreshInv
<1>7. ASSUME NEW r \in Requests, Crash(r) PROVE ReadInv' /\ FreshInv'
    <2>1. \A q \in Requests : request'[q] = IF q = r THEN Idle ELSE request[q]
        BY <1>7 DEF Crash, OutdatedInv, TypeOK
    <2>2. UNCHANGED <<tip, outdated>>
        BY <1>7 DEF Crash
    <2>3. Read(Idle.obj)
        BY DEF Read, Idle, NewTip
    <2>4. ReadInv'
        BY <2>1, <2>2, <2>3 DEF OutdatedInv, ReadInv, Read
    <2>5. FreshInv'
        BY <2>1, <2>2 DEF OutdatedInv, FreshInv, Idle, is_submitted, Follows, is_editable
    <2> QED
        BY <2>4, <2>5
<1>8. ASSUME \/ FinaliseReview \/ UnfinaliseReview \/ EditRecommendations
             \/ UNCHANGED vars
      PROVE  ReadInv' /\ FreshInv'
    <2>1. UNCHANGED <<tip, request, outdated>>
        BY <1>8 DEF FinaliseReview, UnfinaliseReview, EditRecommendations, vars
    <2> QED
        BY <2>1 DEF OutdatedInv, ReadInv, FreshInv, Read, is_submitted, Follows, is_editable
<1> QED
    BY <1>1, <1>2, <1>3, <1>4, <1>5, <1>6, <1>7, <1>8 DEF Next

\* As long as no page was posted after the answers had changed, a confirmation
\* in tip_data stands for the answers beside it, whatever requests overlap
\* (set_recommendation_action and Tip.reject withdraw it).
THEOREM ConfirmationIsOfTheAnswers == Spec => []ConfirmedWasRead
<1>1. OutdatedInv => ConfirmedWasRead
    BY DEF OutdatedInv, ReadInv, Read, ConfirmedWasRead, is_answers_confirmed
<1> QED
    BY <1>1, OutdatedInit, OutdatedStep, PTL DEF Spec

-----------------------------------------------------------------------------
(* A plan that is submitted, and the life of a plan                        *)

\* A write that no other write preceded.
LEMMA WriteFollows ==
    ASSUME OutdatedInv, NEW r \in Requests, Write(r), ~overlapped', ~outdated'
    PROVE  /\ ~overlapped /\ ~outdated
           /\ Follows(tip, tip')
           /\ request[r].kind = "user" => ~is_submitted(tip)
           /\ request[r].kind \in {"user", "admin"}
<1>1. request[r].pc = "write" /\ tip' = request[r].obj
    BY DEF Write
<1>2. ~overlapped /\ ~outdated /\ ~request[r].stale
    BY DEF Write, OutdatedInv, TypeOK, InFlight
<1> QED
    BY <1>1, <1>2 DEF OutdatedInv, FreshInv

LEMMA OnlyWrites ==
    ASSUME [Next]_vars, tip' # tip
    PROVE  \E r \in Requests : Write(r)
    BY DEF Next, vars, TipRecommendationActionView, TipRecommendationsView,
           TipReviewAnswersPage, TipReviewAnswersView, TipSubmitView, TipAdminPage,
           TipAdmin, Crash, FinaliseReview, UnfinaliseReview, EditRecommendations

\* Unless two requests overlapped or a page was out of date, only the
\* department changes a submitted plan, and what it approves is what was
\* submitted (Tip.is_editable, the status tests of the views and of TipAdmin).
THEOREM SubmittedPlanIsFrozen == Spec => SubmittedFrozen
<1> DEFINE Frozen == ~overlapped' /\ ~outdated' /\ is_submitted(tip) /\ tip' # tip
                       => /\ AdminWrites
                          /\ is_submitted(tip') => tip'.actions = tip.actions
<1>1. OutdatedInv /\ [Next]_vars => [Frozen]_vars
    <2> SUFFICES ASSUME OutdatedInv, [Next]_vars, ~overlapped', ~outdated',
                        is_submitted(tip), tip' # tip
                 PROVE  /\ AdminWrites
                        /\ is_submitted(tip') => tip'.actions = tip.actions
        OBVIOUS
    <2>1. PICK r \in Requests : Write(r)
        BY OnlyWrites
    <2>2. /\ Follows(tip, tip')
          /\ request[r].kind = "admin"
        BY <2>1, WriteFollows
    <2>3. request[r].pc = "write" /\ request'[r].pc = "idle"
        BY <2>1 DEF Write, Idle
    <2>4. AdminWrites
        BY <2>2, <2>3 DEF AdminWrites
    <2>5. is_submitted(tip') => tip'.actions = tip.actions
        BY <2>2 DEF Follows, is_submitted, is_editable
    <2> QED
        BY <2>4, <2>5
<1> QED
    BY <1>1, OutdatedInit, OutdatedStep, PTL DEF Spec, SubmittedFrozen

LEMMA LifeInit == Init => Lifecycle!Init
    BY DEF Init, Lifecycle!Init, torn, NewTip, is_submitted

\* A write that follows the row is a step of the life.
LEMMA LifeWrite ==
    ASSUME OutdatedInv, NEW r \in Requests, Write(r), ~torn'
    PROVE  [Lifecycle!Next]_<<IF torn THEN "torn" ELSE tip.status,
               IF ~torn /\ (is_submitted(tip) \/ tip.status = "answers_confirmed")
               THEN tip.actions ELSE None>>
<1>1. ~torn /\ Follows(tip, tip')
    BY WriteFollows DEF torn
<1>2. tip \in Rows /\ tip' \in Rows
    BY DEF OutdatedInv, TypeOK, Write, InFlight
<1>3. tip.actions \in Actions /\ tip'.actions \in Actions
    BY <1>2 DEF Rows
<1> USE DEF Lifecycle!Next, Lifecycle!Move, is_submitted
<1>4. CASE tip' = tip
    BY <1>1, <1>4 DEF torn
<1>5. CASE is_editable(tip) /\ tip'.status = "in_progress"
    BY <1>1, <1>5 DEF is_editable, Lifecycle!Answer
<1>6. CASE tip.status = "in_progress" /\ tip'.status = "answers_confirmed"
    BY <1>1, <1>3, <1>6 DEF Lifecycle!ConfirmAnswers
<1>7. CASE tip.status = "answers_confirmed" /\ tip'.status = "review"
           /\ tip'.actions = tip.actions
    BY <1>1, <1>7 DEF Lifecycle!Submit
<1>8. CASE tip.status = "review" /\ tip'.status = "approved"
           /\ tip'.actions = tip.actions
    BY <1>1, <1>8 DEF Lifecycle!Approve
<1>9. CASE tip.status = "review" /\ tip'.status = "rejected"
    BY <1>1, <1>9 DEF Lifecycle!Reject
<1>10. CASE tip.status = "approved" /\ tip'.status = "in_progress"
    BY <1>1, <1>10 DEF Lifecycle!Reopen
<1> QED
    BY <1>1, <1>4, <1>5, <1>6, <1>7, <1>8, <1>9, <1>10 DEF Follows

\* The requests implement the life of a plan that TipLifecycle describes.
THEOREM PlanImplementsLifecycle == Spec => LifecycleSpec
<1>1. OutdatedInv /\ [Next]_vars => [Lifecycle!Next]_<<
         IF torn THEN "torn" ELSE tip.status,
         IF ~torn /\ (is_submitted(tip) \/ tip.status = "answers_confirmed")
         THEN tip.actions ELSE None>>
    <2> SUFFICES ASSUME OutdatedInv, [Next]_vars
                 PROVE  [Lifecycle!Next]_<<
                           IF torn THEN "torn" ELSE tip.status,
                           IF ~torn /\ (is_submitted(tip)
                                        \/ tip.status = "answers_confirmed")
                           THEN tip.actions ELSE None>>
        OBVIOUS
    <2>1. CASE torn'
        BY <2>1 DEF Lifecycle!Next, Lifecycle!Tear
    <2>2. CASE ~torn' /\ tip' # tip
        BY <2>2, OnlyWrites, LifeWrite
    <2>3. CASE ~torn' /\ tip' = tip
        <3>1. torn => torn'
            BY DEF torn, Next, vars, Write, TipRecommendationActionView,
                   TipRecommendationsView, TipReviewAnswersPage, TipReviewAnswersView,
                   TipSubmitView, TipAdminPage, TipAdmin, Crash, FinaliseReview,
                   UnfinaliseReview, EditRecommendations
        <3> QED
            BY <2>3, <3>1 DEF is_submitted
    <2> QED
        BY <2>1, <2>2, <2>3
<1> QED
    BY <1>1, LifeInit, OutdatedInit, OutdatedStep, PTL
    DEF Spec, LifecycleSpec, Lifecycle!Spec
=============================================================================
