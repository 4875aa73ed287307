-------------------------- MODULE Assessment_proofs --------------------------
(***************************************************************************)
(* Theorems about Assessment, for any number of sessions, assessments,     *)
(* systems, outcomes and answers.                                          *)
(***************************************************************************)
EXTENDS Assessment, TLAPS

-----------------------------------------------------------------------------
(* Type correctness                                                        *)

LEMMA NewTypes ==
    /\ NoRow \in Rows
    /\ EmptySession \in DraftAssessments
    /\ Idle \in InFlight
<1>1. NoRow \in Rows
    BY DEF NoRow, Rows
<1>2. EmptySession \in DraftAssessments
    BY DEF EmptySession, DraftAssessments
<1>3. Idle \in InFlight
    BY <1>1 DEF Idle, InFlight
<1> QED
    BY <1>1, <1>2, <1>3

\* What a form makes of draft_assessment.
LEMMA ChoiceTypes ==
    ASSUME NEW d \in DraftAssessments
    PROVE  /\ \A p \in Profiles : choose_profile(d, p) \in DraftAssessments
           /\ \A sys \in Systems : [d EXCEPT !.system = sys] \in DraftAssessments
           /\ \A t \in ReviewTypes : [d EXCEPT !.review_type = t] \in DraftAssessments
    BY AssessmentAssumption DEF DraftAssessments, choose_profile

LEMMA DoneType ==
    ASSUME TypeOK, NEW s \in Sessions, Done(s)
    PROVE  /\ request' \in [Sessions -> InFlight]
           /\ \A t \in Sessions : Free(t)' \/ request'[t].id \in Assessments
    BY NewTypes DEF TypeOK, Done, Free, Idle

LEMMA WorksType ==
    ASSUME TypeOK, NEW s \in Sessions,
           NEW pc \in {"confirm", "save", "submit"},
           NEW obj \in Rows, NEW outcome \in Outcomes \cup {Nothing},
           HasDraft(s), Works(s, pc, obj, outcome)
    PROVE  /\ request' \in [Sessions -> InFlight]
           /\ \A t \in Sessions : Free(t)' \/ request'[t].id \in Assessments
<1>1. session[s].assessment_id \in Assessments
    BY DEF HasDraft, Drafts
<1>2. [pc |-> pc, id |-> session[s].assessment_id, obj |-> obj,
       outcome |-> outcome, late |-> FALSE] \in InFlight
    BY <1>1 DEF InFlight
<1> QED
    BY <1>1, <1>2 DEF TypeOK, Works, Free

LEMMA CreateType ==
    ASSUME TypeOK, NEW s \in Sessions, NEW d \in DraftAssessments,
           CreateAssessmentView(s, d)
    PROVE  /\ rows' \in [Assessments -> Rows]
           /\ session' \in [Sessions -> DraftAssessments]
           /\ request' = request
           /\ reviews' = reviews
<1>1. \A a \in Assessments : [d EXCEPT !.assessment_id = a] \in DraftAssessments
    BY DEF DraftAssessments
<1>2. session' \in [Sessions -> DraftAssessments]
    BY <1>1 DEF CreateAssessmentView, TypeOK, Drafts
<1>3. [NoRow EXCEPT !.status = "draft", !.system = d.system,
                    !.caf_profile = d.caf_profile,
                    !.review_type = d.review_type] \in Rows
    BY NewTypes DEF Rows, DraftAssessments
<1>4. rows' \in [Assessments -> Rows]
    BY <1>3 DEF CreateAssessmentView, TypeOK
<1> QED
    BY <1>2, <1>4 DEF CreateAssessmentView

LEMMA EditedType ==
    ASSUME TypeOK, NEW s \in Sessions, NEW d \in DraftAssessments, Edited(s, d)
    PROVE  /\ request' \in [Sessions -> InFlight]
           /\ \A t \in Sessions : Free(t)' \/ request'[t].id \in Assessments
           /\ session' \in [Sessions -> DraftAssessments]
           /\ rows' = rows
           /\ reviews' = reviews
<1>1. CASE mandatory_fields(d) /\ d.assessment_id # Nothing
    <2> DEFINE a == d.assessment_id
               obj == [rows[a] EXCEPT !.system = d.system,
                                      !.caf_profile = d.caf_profile,
                                      !.review_type = d.review_type]
    <2>1. a \in Assessments
        BY <1>1 DEF DraftAssessments
    <2>2. obj \in Rows
        <3>1. rows[a] \in Rows
            BY <2>1 DEF TypeOK
        <3>2. /\ d.system \in Systems \cup {Nothing}
              /\ d.caf_profile \in Profiles \cup {Nothing}
              /\ d.review_type \in ReviewTypes \cup {Nothing}
            BY DEF DraftAssessments
        <3> HIDE DEF a
        <3> QED
            BY <3>1, <3>2 DEF Rows
    <2>3. request' = [request EXCEPT ![s].pc = "save", ![s].id = a, ![s].obj = obj]
        BY <1>1 DEF Edited
    <2> HIDE DEF a, obj
    <2>4. [request[s] EXCEPT !.pc = "save", !.id = a, !.obj = obj] \in InFlight
        BY <2>1, <2>2 DEF TypeOK, InFlight
    <2>5. request' \in [Sessions -> InFlight]
        BY <2>3, <2>4 DEF TypeOK
    <2>6. \A t \in Sessions : Free(t)' \/ request'[t].id \in Assessments
        BY <2>1, <2>3 DEF TypeOK, Free
    <2> QED
        BY <2>5, <2>6 DEF Edited, TypeOK
<1>2. CASE ~(mandatory_fields(d) /\ d.assessment_id # Nothing)
    BY <1>2, DoneType DEF Edited, TypeOK
<1> QED
    BY <1>1, <1>2

\* What the handlers make of a row.
LEMMA RowTypes ==
    ASSUME NEW row \in Rows
    PROVE  /\ \A o \in Outcomes, x \in Answers : set_answers(row, o, x) \in Rows
           /\ \A o \in Outcomes, x \in Answers \cup {NoAnswer} :
                 [row EXCEPT !.confirmed[o] = x] \in Rows
           /\ [row EXCEPT !.status = "submitted"] \in Rows
<1>1. ASSUME NEW o \in Outcomes, NEW x \in Answers
      PROVE  set_answers(row, o, x) \in Rows
    BY <1>1 DEF set_answers, Rows
<1>2. ASSUME NEW o \in Outcomes, NEW x \in Answers \cup {NoAnswer}
      PROVE  [row EXCEPT !.confirmed[o] = x] \in Rows
    BY <1>2 DEF Rows
<1>3. [row EXCEPT !.status = "submitted"] \in Rows
    BY DEF Rows
<1> QED
    BY <1>1, <1>2, <1>3

\* The row of a session that has a draft.
LEMMA DraftType ==
    ASSUME TypeOK, NEW s \in Sessions, HasDraft(s)
    PROVE  /\ session[s].assessment_id \in Assessments
           /\ rows[session[s].assessment_id] \in Rows
           /\ rows[session[s].assessment_id].status = "draft"
    BY DEF HasDraft, Drafts, TypeOK

LEMMA TypeStep == TypeOK /\ [Next]_vars => TypeOK'
<1> SUFFICES ASSUME TypeOK, [Next]_vars PROVE TypeOK'
    OBVIOUS
<1>0. CASE UNCHANGED vars
    BY <1>0 DEF vars, TypeOK, Free
<1>1. ASSUME NEW s \in Sessions, AccountView(s) PROVE TypeOK'
    BY <1>1, NewTypes DEF AccountView, TypeOK, Free
<1>2. ASSUME NEW s \in Sessions, EditAssessmentPage(s) PROVE TypeOK'
    <2>1. PICK a \in Drafts :
             session' = [session EXCEPT ![s] =
                [assessment_id |-> a, system |-> rows[a].system,
                 caf_profile |-> rows[a].caf_profile,
                 review_type |-> rows[a].review_type]]
        BY <1>2 DEF EditAssessmentPage
    <2>2. a \in Assessments /\ rows[a] \in Rows
        BY DEF Drafts, TypeOK
    <2>3. [assessment_id |-> a, system |-> rows[a].system,
           caf_profile |-> rows[a].caf_profile,
           review_type |-> rows[a].review_type] \in DraftAssessments
        BY <2>2 DEF Rows, DraftAssessments
    <2> QED
        BY <1>2, <2>1, <2>3 DEF EditAssessmentPage, TypeOK, Free
<1>3. ASSUME NEW s \in Sessions,
             \/ CreateAssessmentProfileView(s)
             \/ CreateAssessmentSystemView(s)
             \/ CreateAssessmentReviewTypeView(s)
      PROVE  TypeOK'
    <2>1. session[s] \in DraftAssessments
        BY DEF TypeOK
    <2>2. PICK d \in DraftAssessments : CreateAssessmentView(s, d)
        BY <1>3, <2>1, ChoiceTypes
        DEF CreateAssessmentProfileView, CreateAssessmentSystemView,
            CreateAssessmentReviewTypeView
    <2>3. happened' \subseteq Incidents
        BY <1>3
        DEF CreateAssessmentProfileView, CreateAssessmentSystemView,
            CreateAssessmentReviewTypeView, Stray, TypeOK, Incidents
    <2> QED
        BY <2>2, <2>3, CreateType DEF TypeOK, Free
<1>4. ASSUME NEW s \in Sessions, EditAssessmentView(s) PROVE TypeOK'
    <2>1. \A a \in Drafts : [Idle EXCEPT !.pc = "edit", !.id = a] \in InFlight
        BY NewTypes DEF Drafts, InFlight
    <2>2. PICK a \in Assessments :
             /\ a \in Drafts
             /\ request' = [request EXCEPT ![s] =
                              [Idle EXCEPT !.pc = "edit", !.id = a]]
        BY <1>4 DEF EditAssessmentView, Drafts
    <2>3. request' \in [Sessions -> InFlight]
        BY <2>1, <2>2 DEF TypeOK
    <2>4. \A t \in Sessions : Free(t)' \/ request'[t].id \in Assessments
        BY <2>2 DEF TypeOK, Free, Idle
    <2> QED
        BY <1>4, <2>3, <2>4 DEF EditAssessmentView, TypeOK
<1>5. ASSUME NEW s \in Sessions,
             \/ EditAssessmentProfileView(s)
             \/ EditAssessmentSystemView(s)
             \/ EditAssessmentReviewTypeView(s)
      PROVE  TypeOK'
    <2>1. session[s] \in DraftAssessments
        BY DEF TypeOK
    <2>2. PICK d \in DraftAssessments : Edited(s, d)
        BY <1>5, <2>1, ChoiceTypes
        DEF EditAssessmentProfileView, EditAssessmentSystemView,
            EditAssessmentReviewTypeView
    <2>3. happened' \subseteq Incidents
        BY <1>5
        DEF EditAssessmentProfileView, EditAssessmentSystemView,
            EditAssessmentReviewTypeView, Stray, TypeOK, Incidents
    <2> QED
        BY <2>2, <2>3, EditedType DEF TypeOK
<1>6. ASSUME NEW s \in Sessions, OutcomeIndicatorsView(s) PROVE TypeOK'
    <2>1. PICK o \in Outcomes, x \in Answers :
             Works(s, "save", set_answers(rows[session[s].assessment_id], o, x), Nothing)
        BY <1>6 DEF OutcomeIndicatorsView
    <2>2. set_answers(rows[session[s].assessment_id], o, x) \in Rows
        BY <1>6, DraftType, RowTypes DEF OutcomeIndicatorsView
    <2> QED
        BY <1>6, <2>1, <2>2, WorksType DEF OutcomeIndicatorsView, TypeOK
<1>7. ASSUME NEW s \in Sessions, OutcomeConfirmationView(s) PROVE TypeOK'
    <2>1. PICK o \in Outcomes :
             Works(s, "confirm", rows[session[s].assessment_id], o)
        BY <1>7 DEF OutcomeConfirmationView
    <2>2. rows[session[s].assessment_id] \in Rows
        BY <1>7, DraftType DEF OutcomeConfirmationView
    <2> QED
        BY <1>7, <2>1, <2>2, WorksType DEF OutcomeConfirmationView, TypeOK
<1>8. ASSUME NEW s \in Sessions, ConfirmOutcome(s) PROVE TypeOK'
    <2> DEFINE o == request[s].outcome
               row == rows[session[s].assessment_id]
               obj == [row EXCEPT !.confirmed[o] = request[s].obj.answers[o]]
    <2>1. CASE HasDraft(s)
        <3>1. row \in Rows /\ request[s] \in InFlight /\ request[s].obj \in Rows
            BY <2>1, DraftType DEF TypeOK, InFlight
        <3>2. obj \in Rows
            <4>1. o \in Outcomes => request[s].obj.answers[o] \in Answers \cup {NoAnswer}
                BY <3>1 DEF Rows
            <4>2. o \notin Outcomes => [row.confirmed EXCEPT ![o] = request[s].obj.answers[o]]
                                        = row.confirmed
                BY <3>1 DEF Rows
            <4> HIDE DEF row, o
            <4> QED
                BY <3>1, <4>1, <4>2 DEF Rows
        <3> HIDE DEF o, row, obj
        <3>3. [request[s] EXCEPT !.pc = "save", !.outcome = Nothing, !.obj = obj]
              \in InFlight
            BY <3>1, <3>2 DEF InFlight
        <3>4. request' = [request EXCEPT ![s].pc = "save", ![s].outcome = Nothing,
                                         ![s].obj = obj]
            BY <1>8, <2>1 DEF ConfirmOutcome, o, row, obj
        <3> QED
            BY <1>8, <3>3, <3>4 DEF ConfirmOutcome, TypeOK, Free
    <2>2. CASE ~HasDraft(s)
        BY <1>8, <2>2, DoneType DEF ConfirmOutcome, TypeOK
    <2> QED
        BY <2>1, <2>2
<1>9. ASSUME NEW s \in Sessions, SectionConfirmationView(s) PROVE TypeOK'
    <2>1. [rows[session[s].assessment_id] EXCEPT !.status = "submitted"] \in Rows
        BY <1>9, DraftType, RowTypes DEF SectionConfirmationView
    <2> QED
        BY <1>9, <2>1, WorksType DEF SectionConfirmationView, TypeOK
<1>10. ASSUME NEW s \in Sessions, Save(s) PROVE TypeOK'
    <2>1. rows' \in [Assessments -> Rows]
        BY <1>10 DEF Save, TypeOK, InFlight
    <2>2. happened' \subseteq Incidents
        BY <1>10 DEF Save, TypeOK, Incidents
    <2>3. request' \in [Sessions -> InFlight]
        <3>1. \A t \in Sessions :
                 [request[t] EXCEPT !.late = @ \/ request[t].id = request[s].id]
                 \in InFlight
            BY DEF TypeOK, InFlight
        <3>2. [Idle EXCEPT !.pc = "review", !.id = request[s].id] \in InFlight
            BY NewTypes DEF TypeOK, InFlight
        <3> QED
            BY <1>10, <3>1, <3>2, NewTypes DEF Save
    <2>4. \A t \in Sessions : Free(t)' \/ request'[t].id \in Assessments
        BY <1>10 DEF Save, TypeOK, Free, Idle, InFlight
    <2> QED
        BY <1>10, <2>1, <2>2, <2>3, <2>4 DEF Save, TypeOK
<1>11. ASSUME NEW s \in Sessions, SaveRefused(s) PROVE TypeOK'
    BY <1>11, DoneType DEF SaveRefused, TypeOK
<1>12. ASSUME NEW s \in Sessions, InitiateReview(s) PROVE TypeOK'
    <2>1. request[s].id \in Assessments
        BY <1>12 DEF InitiateReview, TypeOK, Free
    <2> QED
        BY <1>12, <2>1, DoneType DEF InitiateReview, TypeOK
<1>13. ASSUME NEW s \in Sessions, Crash(s) PROVE TypeOK'
    BY <1>13, DoneType DEF Crash, TypeOK, Incidents
<1> QED
    BY <1>0, <1>1, <1>2, <1>3, <1>4, <1>5, <1>6, <1>7, <1>8, <1>9, <1>10,
       <1>11, <1>12, <1>13 DEF Next

\* Every reachable state is well typed.
THEOREM AssessmentTypeCorrect == Spec => []TypeOK
<1>1. Init => TypeOK
    BY NewTypes DEF Init, TypeOK, Free, Idle
<1> QED
    BY <1>1, TypeStep, PTL DEF Spec

-----------------------------------------------------------------------------
(* What the steps do to rows and requests                                  *)

\* An instance that is about to be written.
Writing(q) == q.pc \in {"save", "submit"}

Untouched(s) == \A t \in Sessions \ {s} : request'[t] = request[t]

\* The steps that create a draft leave every request alone.
LEMMA CreateEffect ==
    ASSUME TypeOK, NEW s \in Sessions, NEW d \in DraftAssessments,
           CreateAssessmentView(s, d)
    PROVE  \A a \in Assessments :
              \/ rows'[a] = rows[a]
              \/ /\ rows[a].status = "none"
                 /\ mandatory_fields(d)
                 /\ rows'[a].status = "draft"
                 /\ rows'[a].answers = [o \in Outcomes |-> NoAnswer]
                 /\ rows'[a].confirmed = [o \in Outcomes |-> NoAnswer]
                 /\ rows'[a].caf_profile = d.caf_profile
                 /\ rows'[a].review_type = d.review_type
<1> DEFINE new == [NoRow EXCEPT !.status = "draft", !.system = d.system,
                                !.caf_profile = d.caf_profile,
                                !.review_type = d.review_type]
<1>1. /\ new.status = "draft"
      /\ new.answers = [o \in Outcomes |-> NoAnswer]
      /\ new.confirmed = [o \in Outcomes |-> NoAnswer]
      /\ new.caf_profile = d.caf_profile
      /\ new.review_type = d.review_type
    BY DEF NoRow
<1>2. \/ rows' = rows
      \/ /\ mandatory_fields(d)
         /\ \E a \in Assessments :
               rows[a].status = "none" /\ rows' = [rows EXCEPT ![a] = new]
    BY DEF CreateAssessmentView
<1> HIDE DEF new
<1> QED
    BY <1>1, <1>2 DEF TypeOK

\* The end of a request.
LEMMA DoneEffect ==
    ASSUME TypeOK, NEW s \in Sessions, Done(s)
    PROVE  Untouched(s) /\ Free(s)' /\ request'[s] = Idle
    BY DEF TypeOK, Done, Untouched, Free, Idle

\* An edit takes an instance of the session's row and changes three fields.
LEMMA EditedEffect ==
    ASSUME TypeOK, NEW s \in Sessions, NEW d \in DraftAssessments, Edited(s, d)
    PROVE  /\ Untouched(s)
           /\ rows' = rows
           /\ reviews' = reviews
           /\ request[s].pc = "edit"
           /\ session'[s] = d
           /\ \A t \in Sessions \ {s} : session'[t] = session[t]
           /\ \/ Free(s)'
              \/ /\ request'[s].pc = "save"
                 /\ request'[s].id = d.assessment_id
                 /\ request'[s].late = request[s].late
                 /\ d.assessment_id \in Assessments
                 /\ request'[s].obj.status = rows[d.assessment_id].status
                 /\ request'[s].obj.answers = rows[d.assessment_id].answers
                 /\ request'[s].obj.confirmed = rows[d.assessment_id].confirmed
                 /\ request'[s].obj.caf_profile = d.caf_profile
                 /\ request'[s].obj.review_type = d.review_type
<1>1. d.assessment_id \in Assessments \cup {Nothing}
    BY DEF DraftAssessments
<1>2. /\ rows' = rows
      /\ reviews' = reviews
      /\ request[s].pc = "edit"
      /\ session'[s] = d
      /\ \A t \in Sessions \ {s} : session'[t] = session[t]
    BY DEF Edited, TypeOK
<1>3. CASE mandatory_fields(d) /\ d.assessment_id # Nothing
    <2>1. d.assessment_id \in Assessments /\ rows[d.assessment_id] \in Rows
        BY <1>1, <1>3 DEF TypeOK
    <2> DEFINE row == rows[d.assessment_id]
               obj == [row EXCEPT !.system = d.system,
                                  !.caf_profile = d.caf_profile,
                                  !.review_type = d.review_type]
    <2>2. request' = [request EXCEPT ![s].pc = "save", ![s].id = d.assessment_id,
                                     ![s].obj = obj]
        BY <1>3 DEF Edited
    <2>3. /\ obj.status = row.status
          /\ obj.answers = row.answers
          /\ obj.confirmed = row.confirmed
          /\ obj.caf_profile = d.caf_profile
          /\ obj.review_type = d.review_type
        BY <2>1 DEF Rows
    <2> HIDE DEF obj
    <2>4. request[s] \in InFlight
        BY DEF TypeOK
    <2>5. /\ Untouched(s)
          /\ request'[s].pc = "save"
          /\ request'[s].id = d.assessment_id
          /\ request'[s].late = request[s].late
          /\ request'[s].obj = obj
        BY <2>2, <2>4 DEF TypeOK, Untouched, InFlight
    <2> QED
        BY <1>2, <2>1, <2>3, <2>5
<1>4. CASE ~(mandatory_fields(d) /\ d.assessment_id # Nothing)
    <2>1. Untouched(s) /\ Free(s)'
        BY <1>4, DoneEffect DEF Edited
    <2> QED
        BY <1>2, <2>1
<1> QED
    BY <1>3, <1>4

\* The second load of a confirmation.
LEMMA ConfirmEffect ==
    ASSUME TypeOK, NEW s \in Sessions, ConfirmOutcome(s)
    PROVE  /\ Untouched(s)
           /\ request[s].pc = "confirm"
           /\ \/ Free(s)'
              \/ LET a == session[s].assessment_id IN
                 /\ HasDraft(s)
                 /\ request'[s].pc = "save"
                 /\ request'[s].id = request[s].id
                 /\ request'[s].late = request[s].late
                 /\ request'[s].obj =
                       [rows[a] EXCEPT !.confirmed[request[s].outcome] =
                          request[s].obj.answers[request[s].outcome]]
<1>1. CASE HasDraft(s)
    <2>1. request[s] \in InFlight
        BY DEF TypeOK
    <2> QED
        BY <1>1, <2>1 DEF ConfirmOutcome, TypeOK, Untouched, InFlight
<1>2. CASE ~HasDraft(s)
    BY <1>2, DoneEffect DEF ConfirmOutcome
<1> QED
    BY <1>1, <1>2

\* The write of a whole row.
LEMMA SaveEffect ==
    ASSUME TypeOK, NEW s \in Sessions, Save(s)
    PROVE  /\ request[s].id \in Assessments
           /\ Writing(request[s])
           /\ rows'[request[s].id] = request[s].obj
           /\ \A a \in Assessments \ {request[s].id} : rows'[a] = rows[a]
           /\ reviews' = reviews
           /\ session' = session
           /\ happened \subseteq happened'
           /\ request[s].late => "overlap" \in happened'
           /\ \A t \in Sessions \ {s} :
                 /\ request'[t].pc = request[t].pc
                 /\ request'[t].id = request[t].id
                 /\ request'[t].obj = request[t].obj
                 /\ request'[t].late = (request[t].late \/ request[t].id = request[s].id)
           /\ \/ /\ request[s].pc = "submit"
                 /\ request[s].obj.review_type \in Reviewed
                 /\ request'[s].pc = "review"
                 /\ request'[s].id = request[s].id
              \/ /\ ~(request[s].pc = "submit" /\ request[s].obj.review_type \in Reviewed)
                 /\ Free(s)'
<1>1. request[s].id \in Assessments
    BY DEF Save, TypeOK, Free
<1>2. \A t \in Sessions : request[t] \in InFlight
    BY DEF TypeOK
<1> QED
    BY <1>1, <1>2 DEF Save, TypeOK, Writing, Idle, InFlight, Free

-----------------------------------------------------------------------------
(* The steps, by what they can disturb                                     *)

\* Steps that leave the rows alone and whose session has no instance to write
\* afterwards.
Quiet(s) ==
    /\ rows' = rows
    /\ Untouched(s)
    /\ ~Writing(request'[s])
    /\ happened \subseteq happened'

\* A form keeps the id, and the two fields that belong together.
Chosen(s, d) ==
    /\ d.assessment_id = session[s].assessment_id
    /\ "stray" \in happened' \/ (EnhancedIsIndependent(session[s]) => EnhancedIsIndependent(d))

\* Every step is of session s and is one of these.
LEMMA StepKinds ==
    ASSUME TypeOK, Next
    PROVE  /\ happened \subseteq happened'
           /\ \E s \in Sessions :
              \/ AccountView(s)
              \/ EditAssessmentPage(s)
              \/ \E d \in DraftAssessments :
                    CreateAssessmentView(s, d) /\ Free(s) /\ Chosen(s, d)
              \/ EditAssessmentView(s)
              \/ \E d \in DraftAssessments :
                    /\ Edited(s, d)
                    /\ Chosen(s, d)
                    /\ CrossedPages(s) => "stray" \in happened'
              \/ OutcomeIndicatorsView(s)
              \/ OutcomeConfirmationView(s)
              \/ ConfirmOutcome(s)
              \/ SectionConfirmationView(s)
              \/ Save(s)
              \/ SaveRefused(s)
              \/ InitiateReview(s)
              \/ Crash(s)
<1>1. \A s \in Sessions : session[s] \in DraftAssessments
    BY DEF TypeOK
<1>2. happened \subseteq happened'
    BY DEF Next, AccountView, EditAssessmentPage, CreateAssessmentProfileView,
       CreateAssessmentSystemView, CreateAssessmentReviewTypeView,
       EditAssessmentView, EditAssessmentProfileView, EditAssessmentSystemView,
       EditAssessmentReviewTypeView, Stray, OutcomeIndicatorsView,
       OutcomeConfirmationView, ConfirmOutcome, SectionConfirmationView, Save,
       SaveRefused, InitiateReview, Crash
<1>3. \A s \in Sessions, p \in Profiles : LET d == choose_profile(session[s], p) IN
         d \in DraftAssessments /\ Chosen(s, d)
    <2> SUFFICES ASSUME NEW s \in Sessions, NEW p \in Profiles
                 PROVE  /\ choose_profile(session[s], p) \in DraftAssessments
                        /\ Chosen(s, choose_profile(session[s], p))
        OBVIOUS
    <2> DEFINE d == choose_profile(session[s], p)
    <2>1. /\ d.assessment_id = session[s].assessment_id
          /\ d.caf_profile = p
          /\ p = "enhanced" => d.review_type = "independent"
        BY <1>1 DEF choose_profile, DraftAssessments
    <2> HIDE DEF d
    <2>2. Chosen(s, d)
        BY <2>1 DEF Chosen, EnhancedIsIndependent
    <2> QED
        BY <1>1, <2>2, ChoiceTypes DEF d
<1>4. \A s \in Sessions, sys \in Systems : LET d == [session[s] EXCEPT !.system = sys] IN
         d \in DraftAssessments /\ Chosen(s, d)
    BY <1>1, ChoiceTypes DEF Chosen, EnhancedIsIndependent, DraftAssessments
<1>5. \A s \in Sessions, t \in ReviewTypes :
         LET d == [session[s] EXCEPT !.review_type = t] IN
         /\ d \in DraftAssessments
         /\ (session[s].caf_profile = "enhanced" => "stray" \in happened')
            => Chosen(s, d)
    BY <1>1, ChoiceTypes DEF Chosen, EnhancedIsIndependent, DraftAssessments
<1> QED
    BY <1>2, <1>3, <1>4, <1>5
    DEF Next, CreateAssessmentProfileView, CreateAssessmentSystemView,
        CreateAssessmentReviewTypeView, EditAssessmentProfileView,
        EditAssessmentSystemView, EditAssessmentReviewTypeView, Stray

LEMMA QuietSteps ==
    ASSUME TypeOK, NEW s \in Sessions,
           \/ EditAssessmentView(s)
           \/ OutcomeConfirmationView(s)
           \/ SaveRefused(s)
           \/ InitiateReview(s)
           \/ Crash(s)
    PROVE  Quiet(s)
<1>1. CASE EditAssessmentView(s)
    <2>1. PICK a \in Drafts : request' = [request EXCEPT ![s] =
                                  [Idle EXCEPT !.pc = "edit", !.id = a]]
        BY <1>1 DEF EditAssessmentView
    <2>2. Untouched(s) /\ request'[s].pc = "edit"
        BY <2>1 DEF Untouched, TypeOK, Idle
    <2> QED
        BY <1>1, <2>2 DEF EditAssessmentView, Quiet, Writing
<1>2. CASE OutcomeConfirmationView(s)
    <2>1. PICK o \in Outcomes : Works(s, "confirm", rows[session[s].assessment_id], o)
        BY <1>2 DEF OutcomeConfirmationView
    <2>2. Untouched(s) /\ request'[s].pc = "confirm"
        BY <2>1 DEF Works, TypeOK, Untouched
    <2> QED
        BY <1>2, <2>2 DEF OutcomeConfirmationView, Quiet, Writing
<1>3. CASE SaveRefused(s) \/ InitiateReview(s) \/ Crash(s)
    BY <1>3, DoneEffect
    DEF SaveRefused, InitiateReview, Crash, Quiet, Writing, Idle
<1> QED
    BY <1>1, <1>2, <1>3

-----------------------------------------------------------------------------
(* What is submitted is complete                                           *)

\* Whatever is submitted, or is about to be, is complete.
CompleteRow(row) == row.status = "submitted" => is_complete(row)

CompleteInv ==
    /\ \A a \in Assessments : CompleteRow(rows[a])
    /\ \A s \in Sessions : Writing(request[s]) => CompleteRow(request[s].obj)

LEMMA CompleteStep == TypeOK /\ CompleteInv /\ [Next]_vars => CompleteInv'
<1> SUFFICES ASSUME TypeOK, CompleteInv, [Next]_vars PROVE CompleteInv'
    OBVIOUS
<1>0. CASE UNCHANGED vars
    BY <1>0 DEF vars, CompleteInv
<1>1. ASSUME NEW s \in Sessions, AccountView(s) \/ EditAssessmentPage(s)
      PROVE  CompleteInv'
    BY <1>1 DEF AccountView, EditAssessmentPage, CompleteInv
<1>2. ASSUME NEW s \in Sessions, NEW d \in DraftAssessments,
             CreateAssessmentView(s, d)
      PROVE  CompleteInv'
    BY <1>2, CreateType, CreateEffect DEF CompleteInv, CompleteRow
<1>3. ASSUME NEW s \in Sessions, Quiet(s) PROVE CompleteInv'
    BY <1>3 DEF Quiet, Untouched, CompleteInv
<1>4. ASSUME NEW s \in Sessions, NEW d \in DraftAssessments, Edited(s, d)
      PROVE  CompleteInv'
    BY <1>4, EditedEffect
    DEF Untouched, Free, Writing, CompleteInv, CompleteRow, is_complete
<1>5. ASSUME NEW s \in Sessions, OutcomeIndicatorsView(s) PROVE CompleteInv'
    <2>1. PICK o \in Outcomes, x \in Answers :
             Works(s, "save", set_answers(rows[session[s].assessment_id], o, x), Nothing)
        BY <1>5 DEF OutcomeIndicatorsView
    <2>2. set_answers(rows[session[s].assessment_id], o, x).status = "draft"
        BY <1>5, DraftType DEF OutcomeIndicatorsView, set_answers, Rows
    <2>3. /\ Untouched(s)
          /\ request'[s].obj = set_answers(rows[session[s].assessment_id], o, x)
        BY <2>1 DEF Works, TypeOK, Untouched
    <2>4. CompleteRow(request'[s].obj)
        BY <2>2, <2>3 DEF CompleteRow
    <2> QED
        BY <1>5, <2>3, <2>4 DEF OutcomeIndicatorsView, Untouched, CompleteInv
<1>6. ASSUME NEW s \in Sessions, ConfirmOutcome(s) PROVE CompleteInv'
    <2> DEFINE row == rows[session[s].assessment_id]
               obj == [row EXCEPT !.confirmed[request[s].outcome] =
                         request[s].obj.answers[request[s].outcome]]
    <2>1. /\ Untouched(s)
          /\ Free(s)' \/ (HasDraft(s) /\ request'[s].obj = obj)
        BY <1>6, ConfirmEffect
    <2>2. Writing(request'[s]) => request'[s].obj.status = "draft"
        <3>1. HasDraft(s) => obj.status = "draft"
            BY DraftType DEF Rows
        <3> HIDE DEF obj
        <3> QED
            BY <2>1, <3>1 DEF Free, Writing
    <2>3. Writing(request'[s]) => CompleteRow(request'[s].obj)
        BY <2>2 DEF CompleteRow
    <2> QED
        BY <1>6, <2>1, <2>3 DEF ConfirmOutcome, Untouched, CompleteInv
<1>7. ASSUME NEW s \in Sessions, SectionConfirmationView(s) PROVE CompleteInv'
    <2> DEFINE row == rows[session[s].assessment_id]
    <2>1. Works(s, "submit", [row EXCEPT !.status = "submitted"], Nothing)
        BY <1>7 DEF SectionConfirmationView
    <2>2. CompleteRow([row EXCEPT !.status = "submitted"])
        BY <1>7, DraftType DEF SectionConfirmationView, CompleteRow, is_complete, Rows
    <2> HIDE DEF row
    <2>3. Untouched(s) /\ request'[s].obj = [row EXCEPT !.status = "submitted"]
        BY <2>1 DEF Works, TypeOK, Untouched
    <2>4. CompleteRow(request'[s].obj)
        BY <2>2, <2>3
    <2> QED
        BY <1>7, <2>3, <2>4 DEF SectionConfirmationView, Untouched, CompleteInv
<1>8. ASSUME NEW s \in Sessions, Save(s) PROVE CompleteInv'
    BY <1>8, SaveEffect DEF CompleteInv, Writing, Free
<1> QED
    BY <1>0, <1>1, <1>2, <1>3, <1>4, <1>5, <1>6, <1>7, <1>8, StepKinds, QuietSteps

\* Whatever overlaps, crashes or comes from an old page, a submitted assessment
\* has every outcome confirmed.
THEOREM SubmittedAssessmentIsComplete == Spec => []SubmittedIsComplete
<1>1. Init => CompleteInv
    BY DEF Init, CompleteInv, CompleteRow, NoRow, Writing, Idle
<1>2. CompleteInv => SubmittedIsComplete
    BY DEF CompleteInv, CompleteRow, SubmittedIsComplete
<1> QED
    BY <1>1, <1>2, CompleteStep, AssessmentTypeCorrect, PTL DEF Spec

-----------------------------------------------------------------------------
(* What a request has loaded is still a draft                              *)

Calm == "overlap" \notin happened /\ "stray" \notin happened

\* As long as no other request has written its row, a request in flight works
\* on a draft: whoever submits the row makes the others late.
LoadedInv ==
    /\ \A s \in Sessions :
          /\ request[s].pc = "confirm" => request[s].id = session[s].assessment_id
          /\ request[s].pc = "submit" => request[s].obj.status = "submitted"
    /\ Calm =>
          \A s \in Sessions :
              request[s].pc \in {"edit", "confirm", "save", "submit"} /\ ~request[s].late
              => /\ rows[request[s].id].status = "draft"
                 /\ request[s].pc = "save" => request[s].obj.status = "draft"

\* A request that does not touch the rows keeps LoadedInv if what it has
\* loaded is a draft.
LEMMA LoadedKept ==
    ASSUME TypeOK, LoadedInv, NEW s \in Sessions,
           rows' = rows, Untouched(s), happened \subseteq happened',
           \A t \in Sessions \ {s} : session'[t] = session[t],
           request'[s].pc = "confirm" => request'[s].id = session'[s].assessment_id,
           request'[s].pc = "submit" => request'[s].obj.status = "submitted",
           Calm' /\ request'[s].pc \in {"edit", "confirm", "save", "submit"}
                /\ ~request'[s].late
           => /\ rows[request'[s].id].status = "draft"
              /\ request'[s].pc = "save" => request'[s].obj.status = "draft"
    PROVE  LoadedInv'
    BY DEF LoadedInv, Untouched, Calm

LEMMA LoadedStep == TypeOK /\ LoadedInv /\ [Next]_vars => LoadedInv'
<1> SUFFICES ASSUME TypeOK, LoadedInv, [Next]_vars PROVE LoadedInv'
    OBVIOUS
<1>0. CASE UNCHANGED vars
    BY <1>0 DEF vars, LoadedInv, Calm
<1>1. ASSUME NEW s \in Sessions, AccountView(s) \/ EditAssessmentPage(s)
      PROVE  LoadedInv'
    <2>1. /\ request' = request /\ rows' = rows /\ happened' = happened
          /\ request[s].pc = "idle"
          /\ \A t \in Sessions \ {s} : session'[t] = session[t]
        BY <1>1 DEF AccountView, EditAssessmentPage, Free, TypeOK
    <2> QED
        BY <2>1 DEF LoadedInv, Calm
<1>2. ASSUME NEW s \in Sessions, NEW d \in DraftAssessments,
             CreateAssessmentView(s, d), Free(s), happened \subseteq happened'
      PROVE  LoadedInv'
    <2>1. request' = request /\ request[s].pc = "idle"
        BY <1>2, CreateType DEF Free
    <2>2. \A t \in Sessions \ {s} : session'[t] = session[t]
        BY <1>2 DEF CreateAssessmentView, TypeOK
    <2>3. \A a \in Assessments : rows'[a] = rows[a] \/ rows[a].status = "none"
        BY <1>2, CreateEffect
    <2>4. \A t \in Sessions : request[t].pc # "idle" => request[t].id \in Assessments
        BY DEF TypeOK, Free
    <2> QED
        BY <1>2, <2>1, <2>2, <2>3, <2>4 DEF LoadedInv, Calm
<1>3. ASSUME NEW s \in Sessions, EditAssessmentView(s) PROVE LoadedInv'
    <2>1. PICK a \in Drafts : request' = [request EXCEPT ![s] =
                                  [Idle EXCEPT !.pc = "edit", !.id = a]]
        BY <1>3 DEF EditAssessmentView
    <2>2. Untouched(s) /\ request'[s].pc = "edit" /\ request'[s].id = a
        BY <2>1 DEF Untouched, TypeOK, Idle
    <2> QED
        BY <1>3, <2>2, LoadedKept DEF EditAssessmentView, Drafts
<1>4. ASSUME NEW s \in Sessions, NEW d \in DraftAssessments, Edited(s, d),
             Chosen(s, d), CrossedPages(s) => "stray" \in happened',
             happened \subseteq happened'
      PROVE  LoadedInv'
    <2>1. /\ rows' = rows /\ Untouched(s)
          /\ \A t \in Sessions \ {s} : session'[t] = session[t]
        BY <1>4, EditedEffect
    <2>2. request'[s].pc \in {"idle", "save"}
        BY <1>4, EditedEffect DEF Free
    <2>3. ASSUME Calm', request'[s].pc = "save", ~request'[s].late
          PROVE  /\ rows[request'[s].id].status = "draft"
                 /\ request'[s].obj.status = "draft"
        <3>1. /\ request[s].pc = "edit" /\ ~request[s].late
              /\ request'[s].id = d.assessment_id
              /\ request'[s].obj.status = rows[d.assessment_id].status
            BY <1>4, <2>3, EditedEffect DEF Free
        <3>2. Calm /\ request[s].id = d.assessment_id
            BY <1>4, <2>3 DEF Calm, Chosen, CrossedPages
        <3> QED
            BY <3>1, <3>2 DEF LoadedInv
    <2> QED
        BY <1>4, <2>1, <2>2, <2>3, LoadedKept
<1>5. ASSUME NEW s \in Sessions, OutcomeIndicatorsView(s) PROVE LoadedInv'
    <2>1. PICK o \in Outcomes, x \in Answers :
             Works(s, "save", set_answers(rows[session[s].assessment_id], o, x), Nothing)
        BY <1>5 DEF OutcomeIndicatorsView
    <2>2. set_answers(rows[session[s].assessment_id], o, x).status = "draft"
        BY <1>5, DraftType DEF OutcomeIndicatorsView, set_answers, Rows
    <2>3. /\ Untouched(s)
          /\ request'[s].pc = "save"
          /\ request'[s].id = session[s].assessment_id
          /\ request'[s].obj = set_answers(rows[session[s].assessment_id], o, x)
        BY <2>1 DEF Works, TypeOK, Untouched
    <2> QED
        BY <1>5, <2>2, <2>3, DraftType, LoadedKept DEF OutcomeIndicatorsView
<1>6. ASSUME NEW s \in Sessions, OutcomeConfirmationView(s) PROVE LoadedInv'
    <2>1. PICK o \in Outcomes : Works(s, "confirm", rows[session[s].assessment_id], o)
        BY <1>6 DEF OutcomeConfirmationView
    <2>2. /\ Untouched(s)
          /\ request'[s].pc = "confirm"
          /\ request'[s].id = session[s].assessment_id
        BY <2>1 DEF Works, TypeOK, Untouched
    <2> QED
        BY <1>6, <2>2, DraftType, LoadedKept DEF OutcomeConfirmationView
<1>7. ASSUME NEW s \in Sessions, ConfirmOutcome(s) PROVE LoadedInv'
    <2> DEFINE row == rows[session[s].assessment_id]
               obj == [row EXCEPT !.confirmed[request[s].outcome] =
                         request[s].obj.answers[request[s].outcome]]
    <2>1. /\ Untouched(s)
          /\ request[s].pc = "confirm"
          /\ \/ request'[s].pc = "idle"
             \/ /\ HasDraft(s)
                /\ request'[s].pc = "save"
                /\ request'[s].id = request[s].id
                /\ request'[s].obj = obj
        BY <1>7, ConfirmEffect DEF Free
    <2>2. request[s].id = session[s].assessment_id
        BY <2>1 DEF LoadedInv
    <2>3. HasDraft(s) => row.status = "draft" /\ obj.status = "draft"
        BY DraftType DEF Rows
    <2> HIDE DEF obj
    <2> QED
        BY <1>7, <2>1, <2>2, <2>3, LoadedKept DEF ConfirmOutcome
<1>8. ASSUME NEW s \in Sessions, SectionConfirmationView(s) PROVE LoadedInv'
    <2> DEFINE row == rows[session[s].assessment_id]
               obj == [row EXCEPT !.status = "submitted"]
    <2>1. Works(s, "submit", obj, Nothing)
        BY <1>8 DEF SectionConfirmationView
    <2>2. row.status = "draft" /\ obj.status = "submitted"
        BY <1>8, DraftType DEF SectionConfirmationView, Rows
    <2> HIDE DEF obj
    <2>3. /\ Untouched(s)
          /\ request'[s].pc = "submit"
          /\ request'[s].id = session[s].assessment_id
          /\ request'[s].obj = obj
        BY <2>1 DEF Works, TypeOK, Untouched
    <2> QED
        BY <1>8, <2>2, <2>3, LoadedKept DEF SectionConfirmationView
<1>9. ASSUME NEW s \in Sessions, Save(s) PROVE LoadedInv'
    <2>1. Free(s)' \/ request'[s].pc = "review"
        BY <1>9, SaveEffect
    <2>2. \A t \in Sessions : ~request'[t].late /\ request'[t].pc \notin {"idle", "review"}
             => /\ t # s
                /\ ~request[t].late
                /\ request[t].id # request[s].id
                /\ request[t].id \in Assessments
                /\ rows'[request[t].id] = rows[request[t].id]
        BY <1>9, <2>1, SaveEffect DEF Free, TypeOK
    <2> QED
        BY <1>9, <2>1, <2>2, SaveEffect DEF LoadedInv, Calm, Free
<1>10. ASSUME NEW s \in Sessions, SaveRefused(s) \/ InitiateReview(s) \/ Crash(s)
       PROVE  LoadedInv'
    <2>1. Untouched(s) /\ request'[s].pc = "idle" /\ rows' = rows
          /\ session' = session /\ happened \subseteq happened'
        BY <1>10, DoneEffect DEF SaveRefused, InitiateReview, Crash, Free
    <2> QED
        BY <2>1, LoadedKept
<1> QED
    BY <1>0, <1>1, <1>2, <1>3, <1>4, <1>5, <1>6, <1>7, <1>8, <1>9, <1>10, StepKinds

LEMMA LoadedInit == Init => LoadedInv
    BY DEF Init, LoadedInv, Idle

-----------------------------------------------------------------------------
(* What is submitted is frozen                                             *)

\* A step writes no row but a draft, unless requests overlapped or a page of
\* another draft was posted.
LEMMA FrozenStep ==
    TypeOK /\ LoadedInv /\ [Next]_vars =>
        [ happened' \cap {"overlap", "stray"} = {} =>
             \A a \in Assessments :
                 rows[a].status = "submitted" => rows'[a] = rows[a] ]_vars
<1> SUFFICES ASSUME TypeOK, LoadedInv, Next,
                    happened' \cap {"overlap", "stray"} = {},
                    NEW a \in Assessments, rows[a].status = "submitted"
             PROVE  rows'[a] = rows[a]
    BY DEF vars
<1>1. ASSUME NEW s \in Sessions, NEW d \in DraftAssessments,
             CreateAssessmentView(s, d)
      PROVE  rows'[a] = rows[a]
    BY <1>1, CreateEffect
<1>2. ASSUME NEW s \in Sessions, Save(s) PROVE rows'[a] = rows[a]
    <2>1. Calm /\ ~request[s].late
        BY <1>2, SaveEffect DEF Calm
    <2>2. rows[request[s].id].status = "draft"
        BY <1>2, <2>1, SaveEffect DEF LoadedInv, Writing
    <2> QED
        BY <1>2, <2>2, SaveEffect
<1> QED
    BY <1>1, <1>2, StepKinds
    DEF AccountView, EditAssessmentPage, EditAssessmentView, Edited,
        OutcomeIndicatorsView, OutcomeConfirmationView, ConfirmOutcome,
        SectionConfirmationView, SaveRefused, InitiateReview, Crash

\* Once submitted, an assessment never changes again, unless requests
\* overlapped or a page of another draft was posted.
THEOREM SubmittedAssessmentIsFrozen == Spec => SubmittedFrozen
<1> QED
    BY FrozenStep, LoadedInit, LoadedStep, AssessmentTypeCorrect, PTL
    DEF Spec, SubmittedFrozen

-----------------------------------------------------------------------------
(* The review follows the submission                                       *)

\* A step that adds no submission and no review to do, and takes none away.
LEMMA ReviewKept ==
    ASSUME ReviewOfSubmission, NEW s \in Sessions,
           happened \subseteq happened', reviews' = reviews, Untouched(s),
           request[s].pc # "review", request'[s].pc # "review",
           \A a \in Assessments :
              \/ rows'[a] = rows[a]
              \/ rows[a].status # "submitted" /\ rows'[a].status # "submitted"
    PROVE  ReviewOfSubmission'
    BY DEF ReviewOfSubmission, Untouched

LEMMA ReviewStep ==
    TypeOK /\ LoadedInv /\ ReviewOfSubmission /\ [Next]_vars => ReviewOfSubmission'
<1> SUFFICES ASSUME TypeOK, LoadedInv, ReviewOfSubmission, [Next]_vars
             PROVE  ReviewOfSubmission'
    OBVIOUS
<1>0. CASE UNCHANGED vars
    BY <1>0 DEF vars, ReviewOfSubmission
<1>1. ASSUME NEW s \in Sessions, AccountView(s) \/ EditAssessmentPage(s)
      PROVE  ReviewOfSubmission'
    BY <1>1 DEF AccountView, EditAssessmentPage, ReviewOfSubmission
<1>2. ASSUME NEW s \in Sessions, NEW d \in DraftAssessments,
             CreateAssessmentView(s, d), Free(s), happened \subseteq happened'
      PROVE  ReviewOfSubmission'
    <2>1. request' = request /\ reviews' = reviews
        BY <1>2, CreateType
    <2> QED
        BY <1>2, <2>1, CreateEffect, ReviewKept DEF Untouched, Free
<1>3. ASSUME NEW s \in Sessions, EditAssessmentView(s) \/ OutcomeConfirmationView(s)
      PROVE  ReviewOfSubmission'
    <2>1. Quiet(s) /\ request[s].pc = "idle" /\ reviews' = reviews
        BY <1>3, QuietSteps DEF EditAssessmentView, OutcomeConfirmationView, Free
    <2>2. request'[s].pc # "review"
        <3>1. EditAssessmentView(s) => request'[s].pc = "edit"
            BY DEF EditAssessmentView, TypeOK, Idle
        <3>2. OutcomeConfirmationView(s) => request'[s].pc = "confirm"
            BY DEF OutcomeConfirmationView, Works, TypeOK
        <3> QED
            BY <1>3, <3>1, <3>2
    <2> QED
        BY <2>1, <2>2, ReviewKept DEF Quiet
<1>4. ASSUME NEW s \in Sessions, NEW d \in DraftAssessments, Edited(s, d),
             happened \subseteq happened'
      PROVE  ReviewOfSubmission'
    BY <1>4, EditedEffect, ReviewKept DEF Free
<1>5. ASSUME NEW s \in Sessions, OutcomeIndicatorsView(s) \/ SectionConfirmationView(s)
      PROVE  ReviewOfSubmission'
    BY <1>5, ReviewKept
    DEF OutcomeIndicatorsView, SectionConfirmationView, Works, Untouched, TypeOK, Free
<1>6. ASSUME NEW s \in Sessions, ConfirmOutcome(s) PROVE ReviewOfSubmission'
    BY <1>6, ConfirmEffect, ReviewKept DEF ConfirmOutcome, Free
<1>7. ASSUME NEW s \in Sessions, Save(s) PROVE ReviewOfSubmission'
    <2> SUFFICES ASSUME happened' = {}, NEW a \in Assessments
                 PROVE  /\ rows'[a].status = "submitted"
                        /\ rows'[a].review_type \in Reviewed
                        <=> \/ a \in reviews
                            \/ \E t \in Sessions :
                                  request'[t].pc = "review" /\ request'[t].id = a
        BY <1>7, SaveEffect DEF ReviewOfSubmission
    <2>1. happened = {} /\ Calm /\ ~request[s].late
        BY <1>7, SaveEffect DEF Calm
    <2>2. /\ rows[request[s].id].status = "draft"
          /\ request[s].pc = "save" => request[s].obj.status = "draft"
          /\ request[s].pc = "submit" => request[s].obj.status = "submitted"
        BY <1>7, <2>1, SaveEffect DEF LoadedInv, Writing
    <2>3. request[s].pc # "review"
        BY <1>7, SaveEffect DEF Writing
    <2>4. CASE a = request[s].id
        <3>1. /\ a \notin reviews
              /\ \A t \in Sessions : ~(request[t].pc = "review" /\ request[t].id = a)
            BY <2>1, <2>2, <2>4 DEF ReviewOfSubmission
        <3>2. \A t \in Sessions \ {s} :
                 ~(request'[t].pc = "review" /\ request'[t].id = a)
            BY <1>7, <3>1, SaveEffect
        <3> QED
            BY <1>7, <2>2, <2>4, <3>1, <3>2, SaveEffect DEF Writing, Free
    <2>5. CASE a # request[s].id
        <3>1. rows'[a] = rows[a]
            BY <1>7, <2>5, SaveEffect
        <3>2. ~(request'[s].pc = "review" /\ request'[s].id = a)
            BY <1>7, <2>5, SaveEffect DEF Free
        <3>3. \A t \in Sessions \ {s} :
                 request'[t].pc = request[t].pc /\ request'[t].id = request[t].id
            BY <1>7, SaveEffect
        <3> QED
            BY <2>1, <2>3, <3>1, <3>2, <3>3 DEF ReviewOfSubmission
    <2> QED
        BY <2>4, <2>5
<1>8. ASSUME NEW s \in Sessions, SaveRefused(s) PROVE ReviewOfSubmission'
    BY <1>8, DoneEffect, ReviewKept DEF SaveRefused, Free
<1>9. ASSUME NEW s \in Sessions, InitiateReview(s) PROVE ReviewOfSubmission'
    BY <1>9, DoneEffect DEF InitiateReview, Untouched, Free, ReviewOfSubmission
<1>10. ASSUME NEW s \in Sessions, Crash(s) PROVE ReviewOfSubmission'
    <2>1. CASE request[s].pc = "review"
        BY <1>10, <2>1 DEF Crash, ReviewOfSubmission
    <2>2. CASE request[s].pc # "review"
        BY <1>10, <2>2, DoneEffect, ReviewKept DEF Crash, Free
    <2> QED
        BY <2>1, <2>2
<1> QED
    BY <1>0, <1>1, <1>2, <1>3, <1>4, <1>5, <1>6, <1>7, <1>8, <1>9, <1>10, StepKinds

\* As long as no request was killed, overlapped or posted from an old page,
\* exactly the submitted assessments whose review type asks for it have a review.
THEOREM ReviewFollowsSubmission == Spec => []ReviewOfSubmission
<1>1. Init => ReviewOfSubmission
    BY DEF Init, ReviewOfSubmission, NoRow, Idle
<1> QED
    BY <1>1, ReviewStep, LoadedInit, LoadedStep, AssessmentTypeCorrect, PTL DEF Spec

-----------------------------------------------------------------------------
(* The profile decides the review type                                     *)

\* Rows, sessions and instances about to be written, which the fields are
\* copied between, are all consistent.
ProfileInv ==
    "stray" \notin happened =>
        /\ \A a \in Assessments : EnhancedIsIndependent(rows[a])
        /\ \A s \in Sessions : EnhancedIsIndependent(session[s])
        /\ \A s \in Sessions :
              Writing(request[s]) => EnhancedIsIndependent(request[s].obj)

LEMMA ProfileStep == TypeOK /\ ProfileInv /\ [Next]_vars => ProfileInv'
<1> SUFFICES ASSUME TypeOK, ProfileInv, [Next]_vars PROVE ProfileInv'
    OBVIOUS
<1>0. CASE UNCHANGED vars
    BY <1>0 DEF vars, ProfileInv
<1>1. ASSUME NEW s \in Sessions, AccountView(s) PROVE ProfileInv'
    <2>1. EnhancedIsIndependent(EmptySession)
        BY AssessmentAssumption DEF EmptySession, EnhancedIsIndependent
    <2> QED
        BY <1>1, <2>1 DEF AccountView, ProfileInv, TypeOK
<1>2. ASSUME NEW s \in Sessions, EditAssessmentPage(s) PROVE ProfileInv'
    <2>1. PICK a \in Drafts :
             session' = [session EXCEPT ![s] =
                [assessment_id |-> a, system |-> rows[a].system,
                 caf_profile |-> rows[a].caf_profile,
                 review_type |-> rows[a].review_type]]
        BY <1>2 DEF EditAssessmentPage
    <2>2. /\ session'[s].caf_profile = rows[a].caf_profile
          /\ session'[s].review_type = rows[a].review_type
          /\ \A t \in Sessions \ {s} : session'[t] = session[t]
        BY <2>1 DEF TypeOK
    <2> QED
        BY <1>2, <2>2 DEF EditAssessmentPage, ProfileInv, EnhancedIsIndependent, Drafts
<1>3. ASSUME NEW s \in Sessions, NEW d \in DraftAssessments,
             CreateAssessmentView(s, d), Chosen(s, d), happened \subseteq happened'
      PROVE  ProfileInv'
    <2> SUFFICES ASSUME "stray" \notin happened' PROVE ProfileInv'
        BY DEF ProfileInv
    <2>1. EnhancedIsIndependent(d)
        BY <1>3 DEF ProfileInv, Chosen
    <2>2. \A a \in Assessments : EnhancedIsIndependent(rows'[a])
        BY <1>3, <2>1, CreateEffect DEF ProfileInv, EnhancedIsIndependent
    <2>3. \A t \in Sessions : EnhancedIsIndependent(session'[t])
        <3>1. \A a \in Assessments : LET e == [d EXCEPT !.assessment_id = a] IN
                 e.caf_profile = d.caf_profile /\ e.review_type = d.review_type
            BY DEF DraftAssessments
        <3>2. \/ session' = [session EXCEPT ![s] = d]
              \/ \E a \in Assessments :
                    session' = [session EXCEPT ![s] = [d EXCEPT !.assessment_id = a]]
            BY <1>3 DEF CreateAssessmentView, Drafts
        <3> QED
            BY <1>3, <2>1, <3>1, <3>2 DEF ProfileInv, EnhancedIsIndependent, TypeOK
    <2>4. request' = request
        BY <1>3, CreateType
    <2> QED
        BY <1>3, <2>2, <2>3, <2>4 DEF ProfileInv
<1>4. ASSUME NEW s \in Sessions, Quiet(s), session' = session PROVE ProfileInv'
    BY <1>4 DEF Quiet, Untouched, ProfileInv
<1>5. ASSUME NEW s \in Sessions, NEW d \in DraftAssessments, Edited(s, d),
             Chosen(s, d), happened \subseteq happened'
      PROVE  ProfileInv'
    <2> SUFFICES ASSUME "stray" \notin happened' PROVE ProfileInv'
        BY DEF ProfileInv
    <2>1. EnhancedIsIndependent(d)
        BY <1>5 DEF ProfileInv, Chosen
    <2>2. Writing(request'[s]) => EnhancedIsIndependent(request'[s].obj)
        BY <1>5, <2>1, EditedEffect DEF EnhancedIsIndependent, Free, Writing
    <2> QED
        BY <1>5, <2>1, <2>2, EditedEffect DEF ProfileInv, Untouched
<1>6. ASSUME NEW s \in Sessions,
             rows' = rows, session' = session, happened' = happened, Untouched(s),
             Writing(request'[s]) =>
                \E a \in Assessments :
                   /\ request'[s].obj.caf_profile = rows[a].caf_profile
                   /\ request'[s].obj.review_type = rows[a].review_type
      PROVE  ProfileInv'
    BY <1>6 DEF ProfileInv, Untouched, EnhancedIsIndependent
<1>7. ASSUME NEW s \in Sessions, OutcomeIndicatorsView(s) PROVE ProfileInv'
    <2> DEFINE row == rows[session[s].assessment_id]
    <2>1. PICK o \in Outcomes, x \in Answers : Works(s, "save", set_answers(row, o, x), Nothing)
        BY <1>7 DEF OutcomeIndicatorsView
    <2>2. /\ set_answers(row, o, x).caf_profile = row.caf_profile
          /\ set_answers(row, o, x).review_type = row.review_type
        BY <1>7, DraftType DEF OutcomeIndicatorsView, set_answers, Rows
    <2>3. Untouched(s) /\ request'[s].obj = set_answers(row, o, x)
        BY <2>1 DEF Works, TypeOK, Untouched
    <2> QED
        BY <1>6, <1>7, <2>2, <2>3, DraftType DEF OutcomeIndicatorsView
<1>8. ASSUME NEW s \in Sessions, ConfirmOutcome(s) PROVE ProfileInv'
    <2> DEFINE row == rows[session[s].assessment_id]
               obj == [row EXCEPT !.confirmed[request[s].outcome] =
                         request[s].obj.answers[request[s].outcome]]
    <2>1. /\ Untouched(s)
          /\ ~Writing(request'[s]) \/ (HasDraft(s) /\ request'[s].obj = obj)
        BY <1>8, ConfirmEffect DEF Free, Writing
    <2>2. HasDraft(s) => obj.caf_profile = row.caf_profile
                         /\ obj.review_type = row.review_type
        BY DraftType DEF Rows
    <2> HIDE DEF obj
    <2> QED
        BY <1>6, <1>8, <2>1, <2>2, DraftType DEF ConfirmOutcome
<1>9. ASSUME NEW s \in Sessions, SectionConfirmationView(s) PROVE ProfileInv'
    <2> DEFINE row == rows[session[s].assessment_id]
               obj == [row EXCEPT !.status = "submitted"]
    <2>1. Works(s, "submit", obj, Nothing)
        BY <1>9 DEF SectionConfirmationView
    <2>2. obj.caf_profile = row.caf_profile /\ obj.review_type = row.review_type
        BY <1>9, DraftType DEF SectionConfirmationView, Rows
    <2> HIDE DEF obj
    <2>3. Untouched(s) /\ request'[s].obj = obj
        BY <2>1 DEF Works, TypeOK, Untouched
    <2> QED
        BY <1>6, <1>9, <2>2, <2>3, DraftType DEF SectionConfirmationView
<1>10. ASSUME NEW s \in Sessions, Save(s) PROVE ProfileInv'
    BY <1>10, SaveEffect DEF ProfileInv, Writing, Free
<1>11. ASSUME NEW s \in Sessions,
              \/ EditAssessmentView(s)
              \/ OutcomeConfirmationView(s)
              \/ SaveRefused(s)
              \/ InitiateReview(s)
              \/ Crash(s)
       PROVE  ProfileInv'
    BY <1>4, <1>11, QuietSteps
    DEF EditAssessmentView, OutcomeConfirmationView, SaveRefused, InitiateReview, Crash
<1> QED
    BY <1>0, <1>1, <1>2, <1>3, <1>5, <1>7, <1>8, <1>9, <1>10, <1>11, StepKinds

\* Unless a review type was posted from a page older than the profile, an
\* assessment of an enhanced profile has an independent review.
THEOREM EnhancedNeedsReview == Spec => []ProfileDecidesReview
<1>1. Init => ProfileInv
    BY AssessmentAssumption
    DEF Init, ProfileInv, EnhancedIsIndependent, NoRow, EmptySession, Writing, Idle
<1>2. ProfileInv => ProfileDecidesReview
    BY DEF ProfileInv, ProfileDecidesReview
<1> QED
    BY <1>1, <1>2, ProfileStep, AssessmentTypeCorrect, PTL DEF Spec

-----------------------------------------------------------------------------
(* A confirmation is of the answers beside it                              *)

Match(row) == \A o \in Outcomes : row.confirmed[o] \in {NoAnswer, row.answers[o]}

\* The row a session points at exists, and so does what is about to be written.
PointsInv ==
    /\ \A s \in Sessions :
          session[s].assessment_id # Nothing =>
              rows[session[s].assessment_id].status # "none"
    /\ \A s \in Sessions :
          Writing(request[s]) => request[s].obj.status # "none"

\* What a request holds is as good as the row, until another writes the row.
MatchInv ==
    "overlap" \notin happened =>
        /\ \A a \in Assessments : Match(rows[a])
        /\ \A s \in Sessions :
              ~request[s].late =>
                  /\ Writing(request[s]) => Match(request[s].obj)
                  /\ request[s].pc = "confirm" =>
                        request[s].obj.answers = rows[request[s].id].answers

LEMMA PointsStep == TypeOK /\ PointsInv /\ [Next]_vars => PointsInv'
<1> SUFFICES ASSUME TypeOK, PointsInv, [Next]_vars PROVE PointsInv'
    OBVIOUS
<1> USE DEF PointsInv
<1>0. CASE UNCHANGED vars
    BY <1>0 DEF vars
<1>1. ASSUME NEW s \in Sessions, AccountView(s) \/ EditAssessmentPage(s)
      PROVE  PointsInv'
    BY <1>1 DEF AccountView, EditAssessmentPage, EmptySession, TypeOK, Drafts
<1>2. ASSUME NEW s \in Sessions, NEW d \in DraftAssessments,
             CreateAssessmentView(s, d), Chosen(s, d)
      PROVE  PointsInv'
    <2>1. \A a \in Assessments : rows[a].status # "none" => rows'[a].status # "none"
        BY <1>2, CreateEffect
    <2>2. \A t \in Sessions : session[t].assessment_id \in Assessments \cup {Nothing}
        BY DEF TypeOK, DraftAssessments
    <2>3. session'[s].assessment_id # Nothing =>
              rows'[session'[s].assessment_id].status # "none"
        <3>1. CASE session'[s] = d
            BY <1>2, <2>1, <2>2, <3>1 DEF Chosen
        <3>2. ASSUME NEW a \in Assessments,
                     session' = [session EXCEPT ![s] = [d EXCEPT !.assessment_id = a]],
                     rows'[a].status # "none"
              PROVE  session'[s].assessment_id # Nothing =>
                         rows'[session'[s].assessment_id].status # "none"
            BY <3>2 DEF TypeOK, DraftAssessments
        <3>3. \/ session'[s] = d
              \/ \E a \in Assessments :
                    /\ session' = [session EXCEPT ![s] = [d EXCEPT !.assessment_id = a]]
                    /\ \/ rows' = rows /\ rows[a].status = "draft"
                       \/ rows' = [rows EXCEPT ![a] =
                              [NoRow EXCEPT !.status = "draft",
                                            !.system = d.system,
                                            !.caf_profile = d.caf_profile,
                                            !.review_type = d.review_type]]
            BY <1>2 DEF CreateAssessmentView, Drafts, TypeOK
        <3>4. [NoRow EXCEPT !.status = "draft", !.system = d.system,
                            !.caf_profile = d.caf_profile,
                            !.review_type = d.review_type].status = "draft"
            BY DEF NoRow
        <3> QED
            BY <3>1, <3>2, <3>3, <3>4 DEF TypeOK
    <2>4. \A t \in Sessions \ {s} : session'[t] = session[t]
        BY <1>2 DEF CreateAssessmentView, TypeOK
    <2> QED
        BY <1>2, <2>1, <2>2, <2>3, <2>4, CreateType
<1>3. ASSUME NEW s \in Sessions, Quiet(s), session' = session PROVE PointsInv'
    BY <1>3 DEF Quiet, Untouched
<1>4. ASSUME NEW s \in Sessions, NEW d \in DraftAssessments, Edited(s, d), Chosen(s, d)
      PROVE  PointsInv'
    <2>1. d.assessment_id # Nothing => rows[d.assessment_id].status # "none"
        BY <1>4 DEF Chosen
    <2>2. Writing(request'[s]) => request'[s].obj.status # "none"
        <3>1. d.assessment_id \in Assessments => d.assessment_id # Nothing
            BY AssessmentAssumption
        <3> QED
            BY <1>4, <2>1, <3>1, EditedEffect DEF Free, Writing
    <2> QED
        BY <1>4, <2>1, <2>2, EditedEffect DEF Untouched
<1>5. ASSUME NEW s \in Sessions,
             rows' = rows, session' = session, Untouched(s),
             Writing(request'[s]) => request'[s].obj.status # "none"
      PROVE  PointsInv'
    BY <1>5 DEF Untouched
<1>6. ASSUME NEW s \in Sessions, OutcomeIndicatorsView(s) PROVE PointsInv'
    <2> DEFINE row == rows[session[s].assessment_id]
    <2>1. PICK o \in Outcomes, x \in Answers : Works(s, "save", set_answers(row, o, x), Nothing)
        BY <1>6 DEF OutcomeIndicatorsView
    <2>2. set_answers(row, o, x).status = "draft"
        BY <1>6, DraftType DEF OutcomeIndicatorsView, set_answers, Rows
    <2>3. Untouched(s) /\ request'[s].obj = set_answers(row, o, x)
        BY <2>1 DEF Works, TypeOK, Untouched
    <2> QED
        BY <1>5, <1>6, <2>2, <2>3 DEF OutcomeIndicatorsView
<1>7. ASSUME NEW s \in Sessions, ConfirmOutcome(s) PROVE PointsInv'
    <2> DEFINE row == rows[session[s].assessment_id]
               obj == [row EXCEPT !.confirmed[request[s].outcome] =
                         request[s].obj.answers[request[s].outcome]]
    <2>1. /\ Untouched(s)
          /\ ~Writing(request'[s]) \/ (HasDraft(s) /\ request'[s].obj = obj)
        BY <1>7, ConfirmEffect DEF Free, Writing
    <2>2. HasDraft(s) => obj.status = "draft"
        BY DraftType DEF Rows
    <2> HIDE DEF obj
    <2> QED
        BY <1>5, <1>7, <2>1, <2>2 DEF ConfirmOutcome
<1>8. ASSUME NEW s \in Sessions, SectionConfirmationView(s) PROVE PointsInv'
    <2> DEFINE row == rows[session[s].assessment_id]
               obj == [row EXCEPT !.status = "submitted"]
    <2>1. Works(s, "submit", obj, Nothing)
        BY <1>8 DEF SectionConfirmationView
    <2>2. obj.status = "submitted"
        BY <1>8, DraftType DEF SectionConfirmationView, Rows
    <2> HIDE DEF obj
    <2>3. Untouched(s) /\ request'[s].obj = obj
        BY <2>1 DEF Works, TypeOK, Untouched
    <2> QED
        BY <1>5, <1>8, <2>2, <2>3 DEF SectionConfirmationView
<1>9. ASSUME NEW s \in Sessions, Save(s) PROVE PointsInv'
    <2>1. \A t \in Sessions : session[t].assessment_id \in Assessments \cup {Nothing}
        BY DEF TypeOK, DraftAssessments
    <2> QED
        BY <1>9, <2>1, SaveEffect DEF Writing, Free
<1>10. ASSUME NEW s \in Sessions,
              \/ EditAssessmentView(s)
              \/ OutcomeConfirmationView(s)
              \/ SaveRefused(s)
              \/ InitiateReview(s)
              \/ Crash(s)
       PROVE  PointsInv'
    BY <1>3, <1>10, QuietSteps
    DEF EditAssessmentView, OutcomeConfirmationView, SaveRefused, InitiateReview, Crash
<1> QED
    BY <1>0, <1>1, <1>2, <1>4, <1>6, <1>7, <1>8, <1>9, <1>10, StepKinds

LEMMA MatchStep ==
    TypeOK /\ LoadedInv /\ PointsInv /\ MatchInv /\ [Next]_vars => MatchInv'
<1> SUFFICES ASSUME TypeOK, LoadedInv, PointsInv, MatchInv, [Next]_vars,
                    "overlap" \notin happened'
             PROVE  MatchInv'
    BY DEF MatchInv
<1>0. CASE UNCHANGED vars
    BY <1>0 DEF vars, MatchInv
<1>1. ASSUME NEW s \in Sessions, AccountView(s) \/ EditAssessmentPage(s)
      PROVE  MatchInv'
    BY <1>1 DEF AccountView, EditAssessmentPage, MatchInv
<1>2. ASSUME NEW s \in Sessions, NEW d \in DraftAssessments,
             CreateAssessmentView(s, d), happened \subseteq happened'
      PROVE  MatchInv'
    <2>1. \A a \in Assessments :
             rows'[a] = rows[a] \/ (rows[a].status = "none" /\ Match(rows'[a]))
        BY <1>2, CreateEffect DEF Match
    <2>2. \A t \in Sessions : request[t].pc = "confirm" =>
             /\ request[t].id \in Assessments
             /\ rows[request[t].id].status # "none"
        BY AssessmentAssumption DEF LoadedInv, PointsInv, TypeOK, Free
    <2>3. request' = request
        BY <1>2, CreateType
    <2> QED
        BY <1>2, <2>1, <2>2, <2>3 DEF MatchInv
\* A request that does not touch the rows keeps MatchInv if what it holds is
\* as good as the row.
<1>3. ASSUME NEW s \in Sessions, rows' = rows, Untouched(s),
             happened \subseteq happened',
             Writing(request'[s]) /\ ~request'[s].late => Match(request'[s].obj),
             request'[s].pc = "confirm" =>
                 request'[s].obj.answers = rows[request'[s].id].answers
      PROVE  MatchInv'
    BY <1>3 DEF MatchInv, Untouched
<1>4. ASSUME NEW s \in Sessions, EditAssessmentView(s) PROVE MatchInv'
    <2>1. PICK a \in Drafts : request' = [request EXCEPT ![s] =
                                  [Idle EXCEPT !.pc = "edit", !.id = a]]
        BY <1>4 DEF EditAssessmentView
    <2>2. Untouched(s) /\ request'[s].pc = "edit"
        BY <2>1 DEF Untouched, TypeOK, Idle
    <2> QED
        BY <1>3, <1>4, <2>2 DEF EditAssessmentView, Writing
<1>5. ASSUME NEW s \in Sessions, NEW d \in DraftAssessments, Edited(s, d),
             happened \subseteq happened'
      PROVE  MatchInv'
    <2>1. Writing(request'[s]) => Match(request'[s].obj)
        BY <1>5, EditedEffect DEF Free, Writing, Match, MatchInv
    <2> QED
        BY <1>3, <1>5, <2>1, EditedEffect DEF Free
<1>6. ASSUME NEW s \in Sessions, OutcomeIndicatorsView(s) PROVE MatchInv'
    <2> DEFINE row == rows[session[s].assessment_id]
    <2>1. PICK o \in Outcomes, x \in Answers : Works(s, "save", set_answers(row, o, x), Nothing)
        BY <1>6 DEF OutcomeIndicatorsView
    <2>2. Match(set_answers(row, o, x))
        <3>1. row \in Rows /\ Match(row)
            BY <1>6, DraftType DEF OutcomeIndicatorsView, MatchInv
        <3> HIDE DEF row
        <3> QED
            BY <3>1 DEF set_answers, Match, Rows
    <2>3. /\ Untouched(s)
          /\ request'[s].pc = "save"
          /\ request'[s].obj = set_answers(row, o, x)
        BY <2>1 DEF Works, TypeOK, Untouched
    <2> QED
        BY <1>3, <1>6, <2>2, <2>3 DEF OutcomeIndicatorsView
<1>7. ASSUME NEW s \in Sessions, OutcomeConfirmationView(s) PROVE MatchInv'
    <2>1. PICK o \in Outcomes : Works(s, "confirm", rows[session[s].assessment_id], o)
        BY <1>7 DEF OutcomeConfirmationView
    <2>2. /\ Untouched(s)
          /\ request'[s].pc = "confirm"
          /\ request'[s].obj = rows[request'[s].id]
        BY <2>1 DEF Works, TypeOK, Untouched
    <2> QED
        BY <1>3, <1>7, <2>2 DEF OutcomeConfirmationView, Writing
<1>8. ASSUME NEW s \in Sessions, ConfirmOutcome(s) PROVE MatchInv'
    <2> DEFINE row == rows[session[s].assessment_id]
               obj == [row EXCEPT !.confirmed[request[s].outcome] =
                         request[s].obj.answers[request[s].outcome]]
    <2>1. /\ Untouched(s)
          /\ request[s].pc = "confirm"
          /\ request'[s].pc # "confirm"
          /\ \/ ~Writing(request'[s])
             \/ /\ HasDraft(s)
                /\ request'[s].obj = obj
                /\ request'[s].late = request[s].late
        BY <1>8, ConfirmEffect DEF Free, Writing
    <2>2. ASSUME HasDraft(s), ~request[s].late PROVE Match(obj)
        <3>1. row \in Rows /\ Match(row)
            BY <1>8, <2>2, DraftType DEF ConfirmOutcome, MatchInv
        <3>2. request[s].obj.answers = row.answers
            BY <1>8, <2>1, <2>2 DEF ConfirmOutcome, MatchInv, LoadedInv
        <3> HIDE DEF row
        <3> QED
            BY <3>1, <3>2 DEF Match, Rows
    <2> HIDE DEF obj
    <2> QED
        BY <1>3, <1>8, <2>1, <2>2 DEF ConfirmOutcome
<1>9. ASSUME NEW s \in Sessions, SectionConfirmationView(s) PROVE MatchInv'
    <2> DEFINE row == rows[session[s].assessment_id]
               obj == [row EXCEPT !.status = "submitted"]
    <2>1. Works(s, "submit", obj, Nothing)
        BY <1>9 DEF SectionConfirmationView
    <2>2. Match(obj)
        BY <1>9, DraftType DEF SectionConfirmationView, MatchInv, Match, Rows
    <2> HIDE DEF obj
    <2>3. Untouched(s) /\ request'[s].pc = "submit" /\ request'[s].obj = obj
        BY <2>1 DEF Works, TypeOK, Untouched
    <2> QED
        BY <1>3, <1>9, <2>2, <2>3 DEF SectionConfirmationView
<1>10. ASSUME NEW s \in Sessions, Save(s) PROVE MatchInv'
    <2>1. "overlap" \notin happened /\ ~request[s].late
        BY <1>10, SaveEffect
    <2>2. Match(request[s].obj)
        BY <1>10, <2>1, SaveEffect DEF MatchInv
    <2>3. \A a \in Assessments : Match(rows'[a])
        BY <1>10, <2>1, <2>2, SaveEffect DEF MatchInv
    <2>4. ASSUME NEW t \in Sessions, ~request'[t].late,
                 request'[t].pc # "idle", request'[t].pc # "review"
          PROVE  /\ Writing(request'[t]) => Match(request'[t].obj)
                 /\ request'[t].pc = "confirm" =>
                       request'[t].obj.answers = rows'[request'[t].id].answers
        <3>1. t # s
            BY <1>10, <2>4, SaveEffect DEF Free
        <3>2. /\ request'[t].pc = request[t].pc
              /\ request'[t].id = request[t].id
              /\ request'[t].obj = request[t].obj
              /\ request'[t].late = (request[t].late \/ request[t].id = request[s].id)
            BY <1>10, <3>1, SaveEffect
        <3>3. ~request[t].late /\ request[t].id # request[s].id
            BY <2>4, <3>2
        <3>4. request[t].id \in Assessments
            BY <2>4, <3>2 DEF TypeOK, Free
        <3>5. rows'[request[t].id] = rows[request[t].id]
            BY <1>10, <3>3, <3>4, SaveEffect
        <3> QED
            BY <2>1, <3>2, <3>5, <3>3 DEF MatchInv, Writing
    <2> QED
        BY <2>3, <2>4 DEF MatchInv, Writing
<1>11. ASSUME NEW s \in Sessions, SaveRefused(s) \/ InitiateReview(s) \/ Crash(s)
       PROVE  MatchInv'
    BY <1>3, <1>11, DoneEffect
    DEF SaveRefused, InitiateReview, Crash, Writing, Idle
<1> QED
    BY <1>0, <1>1, <1>2, <1>4, <1>5, <1>6, <1>7, <1>8, <1>9, <1>10, <1>11, StepKinds

\* Unless requests overlapped, what an outcome was confirmed with is the status
\* of the answers beside it.
THEOREM ConfirmationsMatch == Spec => []ConfirmedOutcomesMatch
<1>1. Init => PointsInv /\ MatchInv
    BY DEF Init, PointsInv, MatchInv, Match, NoRow, EmptySession, Writing, Idle
<1>2. MatchInv => ConfirmedOutcomesMatch
    BY DEF MatchInv, Match, ConfirmedOutcomesMatch
<1> QED
    BY <1>1, <1>2, PointsStep, MatchStep, LoadedInit, LoadedStep,
       AssessmentTypeCorrect, PTL DEF Spec

-----------------------------------------------------------------------------
(* Assessment implements AssessmentLifecycle                               *)

AsksForReview(row) == row.status = "submitted" /\ row.review_type \in Reviewed

\* What is reviewed, or is about to be, was submitted for a review: unlike
\* ReviewOfSubmission, also after a worker was killed.
ReviewedInv ==
    ~Torn =>
        /\ \A a \in reviews : AsksForReview(rows[a])
        /\ \A s \in Sessions :
              request[s].pc = "review" => AsksForReview(rows[request[s].id])

\* A step that leaves what was submitted alone, and goes on to no review.
LEMMA ReviewedKept ==
    ASSUME TypeOK, ReviewedInv, NEW s \in Sessions,
           happened \subseteq happened', reviews' = reviews, Untouched(s),
           request'[s].pc # "review",
           ~Torn' => \A a \in Assessments :
                        rows[a].status = "submitted" => rows'[a] = rows[a]
    PROVE  ReviewedInv'
<1>1. Torn => Torn'
    BY DEF Torn
<1>2. \A t \in Sessions : request[t].pc = "review" => request[t].id \in Assessments
    BY DEF TypeOK, Free
<1> QED
    BY <1>1, <1>2 DEF ReviewedInv, AsksForReview, Untouched, TypeOK

LEMMA ReviewedStep == TypeOK /\ LoadedInv /\ ReviewedInv /\ [Next]_vars => ReviewedInv'
<1> SUFFICES ASSUME TypeOK, LoadedInv, ReviewedInv, [Next]_vars PROVE ReviewedInv'
    OBVIOUS
<1>0. CASE UNCHANGED vars
    BY <1>0 DEF vars, ReviewedInv, Torn, AsksForReview
<1> SUFFICES ASSUME Next PROVE ReviewedInv'
    BY <1>0
<1>a. ~Torn' => \A a \in Assessments :
                   rows[a].status = "submitted" => rows'[a] = rows[a]
    <2>1. CASE UNCHANGED vars
        BY <2>1 DEF vars
    <2>2. CASE ~UNCHANGED vars
        BY <2>2, FrozenStep DEF Torn
    <2> QED
        BY <2>1, <2>2
<1>b. happened \subseteq happened'
    BY StepKinds
<1>1. ASSUME NEW s \in Sessions, AccountView(s) \/ EditAssessmentPage(s)
      PROVE  ReviewedInv'
    BY <1>1 DEF AccountView, EditAssessmentPage, ReviewedInv, Torn, AsksForReview
<1>2. ASSUME NEW s \in Sessions, NEW d \in DraftAssessments,
             CreateAssessmentView(s, d), Free(s)
      PROVE  ReviewedInv'
    BY <1>2, <1>a, <1>b, CreateType, ReviewedKept DEF Untouched, Free
<1>3. ASSUME NEW s \in Sessions,
             \/ EditAssessmentView(s)
             \/ OutcomeIndicatorsView(s)
             \/ OutcomeConfirmationView(s)
             \/ SectionConfirmationView(s)
      PROVE  ReviewedInv'
    <2>1. CASE EditAssessmentView(s)
        BY <2>1, <1>a, <1>b, ReviewedKept
        DEF EditAssessmentView, Untouched, TypeOK, Idle
    <2>2. ASSUME NEW pc \in {"confirm", "save", "submit"}, NEW obj, NEW outcome,
                 Works(s, pc, obj, outcome), reviews' = reviews
          PROVE  ReviewedInv'
        BY <2>2, <1>a, <1>b, ReviewedKept DEF Works, Untouched, TypeOK
    <2> QED
        BY <1>3, <2>1, <2>2
        DEF OutcomeIndicatorsView, OutcomeConfirmationView, SectionConfirmationView
<1>4. ASSUME NEW s \in Sessions, NEW d \in DraftAssessments, Edited(s, d)
      PROVE  ReviewedInv'
    BY <1>4, <1>a, <1>b, EditedEffect, ReviewedKept DEF Free
<1>5. ASSUME NEW s \in Sessions, ConfirmOutcome(s) PROVE ReviewedInv'
    BY <1>5, <1>a, <1>b, ConfirmEffect, ReviewedKept DEF ConfirmOutcome, Free
<1>6. ASSUME NEW s \in Sessions, Save(s) PROVE ReviewedInv'
    <2> SUFFICES ASSUME ~Torn' PROVE ReviewedInv'
        BY DEF ReviewedInv
    <2>1. ~Torn /\ reviews' = reviews
        BY <1>6, <1>b, SaveEffect DEF Torn
    <2>2. \A a \in Assessments : AsksForReview(rows[a]) => AsksForReview(rows'[a])
        BY <1>a DEF AsksForReview
    <2>3. \A a \in reviews' : AsksForReview(rows'[a])
        BY <2>1, <2>2 DEF ReviewedInv, TypeOK
    <2>4. request'[s].pc = "review" => AsksForReview(rows'[request'[s].id])
        BY <1>6, SaveEffect DEF Free, LoadedInv, AsksForReview
    <2>5. ASSUME NEW t \in Sessions \ {s}, request'[t].pc = "review"
          PROVE  AsksForReview(rows'[request'[t].id])
        <3>1. request[t].pc = "review" /\ request'[t].id = request[t].id
            BY <1>6, <2>5, SaveEffect
        <3>2. request[t].id \in Assessments
            BY <3>1 DEF TypeOK, Free
        <3> QED
            BY <2>1, <2>2, <3>1, <3>2 DEF ReviewedInv
    <2> QED
        BY <2>3, <2>4, <2>5 DEF ReviewedInv
<1>7. ASSUME NEW s \in Sessions, SaveRefused(s) \/ Crash(s) PROVE ReviewedInv'
    BY <1>7, <1>a, <1>b, DoneEffect, ReviewedKept DEF SaveRefused, Crash, Free
<1>8. ASSUME NEW s \in Sessions, InitiateReview(s) PROVE ReviewedInv'
    BY <1>8, DoneEffect
    DEF InitiateReview, Untouched, Free, ReviewedInv, Torn, AsksForReview
<1> QED
    BY <1>1, <1>2, <1>3, <1>4, <1>5, <1>6, <1>7, <1>8, StepKinds

\* What is submitted, in a state that is not torn, fits together.
SubmittedFits ==
    ~Torn =>
        \A a \in Assessments : rows[a].status = "submitted" => rows[a] \in Submittable

LEMMA SubmissionsFit ==
    TypeOK /\ CompleteInv /\ MatchInv /\ ProfileInv => SubmittedFits
<1> SUFFICES ASSUME TypeOK, CompleteInv, MatchInv, ProfileInv, ~Torn,
                    NEW a \in Assessments, rows[a].status = "submitted"
             PROVE  rows[a] \in Submittable
    BY DEF SubmittedFits
<1>1. rows[a] \in Rows
    BY DEF TypeOK
<1>2. is_complete(rows[a])
    BY DEF CompleteInv, CompleteRow
<1>3. rows[a].confirmed = rows[a].answers
    <2>1. \A o \in Outcomes : rows[a].confirmed[o] = rows[a].answers[o]
        BY <1>2 DEF MatchInv, Match, Torn, is_complete
    <2> QED
        BY <1>1, <2>1 DEF Rows
<1>4. EnhancedIsIndependent(rows[a])
    BY DEF ProfileInv, Torn
<1> QED
    BY <1>1, <1>2, <1>3, <1>4 DEF Submittable

\* A step that changes neither rows nor reviews is not seen.
LEMMA Unseen ==
    ASSUME rows' = rows, reviews' = reviews, ~Torn, ~Torn'
    PROVE  UNCHANGED <<Phase, Content, UnderReview>>
    BY DEF Phase, Content, UnderReview

LEMMA LifecycleCreate ==
    ASSUME TypeOK, ~Torn, ~Torn', NEW s \in Sessions, NEW d \in DraftAssessments,
           CreateAssessmentView(s, d)
    PROVE  [Lifecycle!Next]_<<Phase, Content, UnderReview>>
<1>1. reviews' = reviews
    BY CreateType
<1>2. CASE rows' = rows
    BY <1>1, <1>2, Unseen
<1>3. ASSUME NEW a \in Assessments, NEW row,
             rows[a].status = "none", row.status = "draft",
             rows' = [rows EXCEPT ![a] = row]
      PROVE  Lifecycle!Create(a)
    <2>1. /\ rows[a].status = "none"
          /\ rows'[a].status = "draft"
          /\ \A b \in Assessments \ {a} : rows'[b] = rows[b]
        BY <1>3 DEF TypeOK
    <2>2. Phase[a] = "none" /\ Phase' = [Phase EXCEPT ![a] = "draft"]
        BY <2>1 DEF Phase
    <2>3. Content' = Content
        BY <2>1 DEF Content
    <2>4. UnderReview' = UnderReview
        BY <1>1 DEF UnderReview
    <2> QED
        BY <2>2, <2>3, <2>4 DEF Lifecycle!Create
<1>4. [NoRow EXCEPT !.status = "draft", !.system = d.system,
                    !.caf_profile = d.caf_profile,
                    !.review_type = d.review_type].status = "draft"
    BY DEF NoRow
<1> QED
    BY <1>2, <1>3, <1>4 DEF CreateAssessmentView, Lifecycle!Next

\* A row that the database accepts as submitted is the first of its system.
LEMMA LifecycleSave ==
    ASSUME TypeOK, LoadedInv, ~Torn, ~Torn', NEW s \in Sessions, Save(s),
           \A a \in Assessments : rows'[a].status = "submitted" => rows'[a] \in Submittable
    PROVE  [Lifecycle!Next]_<<Phase, Content, UnderReview>>
<1> DEFINE a == request[s].id
           row == request[s].obj
<1>1. /\ a \in Assessments
      /\ reviews' = reviews
      /\ rows'[a] = row
      /\ \A b \in Assessments \ {a} : rows'[b] = rows[b]
      /\ request[s].pc \in {"save", "submit"}
      /\ ~request[s].late
    BY SaveEffect DEF Writing, Torn
<1>2. /\ rows[a].status = "draft"
      /\ request[s].pc = "save" => row.status = "draft"
      /\ request[s].pc = "submit" => row.status = "submitted"
    BY <1>1 DEF LoadedInv, Calm, Torn
<1>3. \A b \in Assessments \ {a} : ~(rows[b].system = row.system
                                     /\ rows[b].status = row.status)
    BY DEF Save, IntegrityError
<1> HIDE DEF a, row
<1>4. UnderReview' = UnderReview
    BY <1>1 DEF UnderReview
<1>5. CASE row.status = "draft"
    BY <1>1, <1>2, <1>4, <1>5 DEF Phase, Content
<1>6. CASE row.status = "submitted"
    <2>1. Phase[a] = "draft" /\ Phase' = [Phase EXCEPT ![a] = "submitted"]
        BY <1>1, <1>2, <1>6 DEF Phase
    <2>2. Content' = [Content EXCEPT ![a] = row]
        BY <1>1, <1>6 DEF Content
    <2>3. ~Lifecycle!Taken(row.system)
        BY <1>1, <1>2, <1>3, <1>6 DEF Lifecycle!Taken, Content
    <2>4. row \in Submittable
        BY <1>1, <1>6
    <2>5. Lifecycle!Submit(a)
        BY <1>4, <2>1, <2>2, <2>3, <2>4 DEF Lifecycle!Submit
    <2> QED
        BY <1>1, <2>5 DEF Lifecycle!Next
<1> QED
    BY <1>1, <1>2, <1>5, <1>6

LEMMA LifecycleReview ==
    ASSUME TypeOK, ReviewedInv, ~Torn, ~Torn', NEW s \in Sessions, InitiateReview(s)
    PROVE  [Lifecycle!Next]_<<Phase, Content, UnderReview>>
<1> DEFINE a == request[s].id
<1>1. a \in Assessments /\ AsksForReview(rows[a])
    BY DEF InitiateReview, TypeOK, Free, ReviewedInv
<1>2. UnderReview' = UnderReview \cup {a} /\ UNCHANGED <<Phase, Content>>
    BY DEF InitiateReview, UnderReview, Phase, Content
<1> HIDE DEF a
<1>3. Phase[a] = "submitted" /\ Content[a] = rows[a]
    BY <1>1 DEF Phase, Content, AsksForReview
<1>4. Lifecycle!Review(a)
    BY <1>1, <1>2, <1>3 DEF Lifecycle!Review, AsksForReview
<1> QED
    BY <1>1, <1>4 DEF Lifecycle!Next

LEMMA LifecycleStep ==
    TypeOK /\ LoadedInv /\ ReviewedInv /\ SubmittedFits' /\ [Next]_vars
    => [Lifecycle!Next]_<<Phase, Content, UnderReview>>
<1> SUFFICES ASSUME TypeOK, LoadedInv, ReviewedInv, SubmittedFits', [Next]_vars
             PROVE  [Lifecycle!Next]_<<Phase, Content, UnderReview>>
    OBVIOUS
<1>1. CASE Torn'
    BY <1>1 DEF Lifecycle!Next, Lifecycle!Tear, Phase, Content, UnderReview
<1>2. CASE UNCHANGED vars
    BY <1>2 DEF vars, Phase, Content, UnderReview, Torn
<1>3. CASE Next /\ ~Torn'
    <2>1. ~Torn
        BY <1>3, StepKinds DEF Torn
    <2>2. \A a \in Assessments : rows'[a].status = "submitted" => rows'[a] \in Submittable
        BY <1>3 DEF SubmittedFits
    <2>3. ASSUME rows' = rows, reviews' = reviews
          PROVE  [Lifecycle!Next]_<<Phase, Content, UnderReview>>
        BY <1>3, <2>1, <2>3, Unseen
    <2> QED
        BY <1>3, <2>1, <2>2, <2>3, StepKinds, LifecycleCreate, LifecycleSave,
           LifecycleReview
        DEF AccountView, EditAssessmentPage, EditAssessmentView, Edited,
            OutcomeIndicatorsView, OutcomeConfirmationView, ConfirmOutcome,
            SectionConfirmationView, SaveRefused, Crash
<1> QED
    BY <1>1, <1>2, <1>3

\* The handlers implement the life of the assessments that AssessmentLifecycle
\* describes.
THEOREM AssessmentImplementsLifecycle == Spec => LifecycleSpec
<1>1. Init => /\ Lifecycle!Init
              /\ CompleteInv /\ PointsInv /\ MatchInv /\ ProfileInv /\ ReviewedInv
    <2>1. Init => Lifecycle!Init
        BY DEF Init, Lifecycle!Init, Phase, Content, UnderReview, Torn, NoRow
    <2>2. Init => CompleteInv /\ PointsInv /\ MatchInv /\ ReviewedInv
        BY DEF Init, CompleteInv, CompleteRow, PointsInv, MatchInv, Match,
           ReviewedInv, NoRow, EmptySession, Writing, Idle
    <2>3. Init => ProfileInv
        BY AssessmentAssumption
        DEF Init, ProfileInv, EnhancedIsIndependent, NoRow, EmptySession, Writing, Idle
    <2> QED
        BY <2>1, <2>2, <2>3
<1> QED
    BY <1>1, CompleteStep, PointsStep, MatchStep, ProfileStep, ReviewedStep,
       SubmissionsFit, LoadedInit, LoadedStep, LifecycleStep, AssessmentTypeCorrect, PTL
    DEF Spec, LifecycleSpec, Lifecycle!Spec, Lifecycle!vars
=============================================================================
