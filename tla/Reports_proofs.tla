---------------------------- MODULE Reports_proofs ----------------------------
(***************************************************************************)
(* Proofs about Reports, for every framework, CAF profile and length of    *)
(* the history: what the pages ask for is what makes a review complete,    *)
(* reports made from linked pages are filled in, and versions keep their   *)
(* numbers.                                                                *)
(* And about Rules: what the table of the frameworks makes of any set of   *)
(* statements.                                                             *)
(***************************************************************************)
EXTENDS Reports, Rules, FiniteSetTheorems, TLAPS

-----------------------------------------------------------------------------
(* The numbers of the versions                                             *)

Upto(h, i) == {j \in all_versions(h) : j <= i}

LEMMA InVersions ==
    ASSUME NEW h \in Seq(Responses), NEW j
    PROVE  j \in all_versions(h) <=>
              j \in 1..Len(h) /\ (j = Len(h) \/ h[j] # h[j + 1])
  BY DEF all_versions

LEMMA VersionsAreFinite ==
    ASSUME NEW h \in Seq(Responses), NEW i \in Nat
    PROVE  /\ all_versions(h) \subseteq 1..Len(h)
           /\ IsFiniteSet(Upto(h, i))
           /\ version_number(h, i) = Cardinality(Upto(h, i))
           /\ version_number(h, i) \in Nat
<1>1. Len(h) \in Nat /\ DOMAIN h = 1..Len(h)
  OBVIOUS
<1>2. all_versions(h) \subseteq 1..Len(h)
  BY <1>1 DEF all_versions
<1>3. IsFiniteSet(1..Len(h))
  BY <1>1, FS_Interval
<1>4. IsFiniteSet(Upto(h, i))
  <2>1. Upto(h, i) \subseteq 1..Len(h)
    BY <1>2 DEF Upto
  <2>2. QED BY <1>3, <2>1, FS_Subset
<1>5. version_number(h, i) = Cardinality(Upto(h, i))
  BY DEF version_number, Upto
<1>6. Cardinality(Upto(h, i)) \in Nat
  BY <1>4, FS_CardinalityType
<1>7. QED BY <1>2, <1>4, <1>5, <1>6

\* A later version has a greater number.
LEMMA NumbersIncrease ==
    ASSUME NEW h \in Seq(Responses), NEW i \in all_versions(h),
           NEW k \in all_versions(h), i < k
    PROVE  version_number(h, i) < version_number(h, k)
<1>1. i \in Nat /\ k \in Nat
  BY VersionsAreFinite
<1>2. /\ IsFiniteSet(Upto(h, i)) /\ IsFiniteSet(Upto(h, k))
      /\ version_number(h, i) = Cardinality(Upto(h, i))
      /\ version_number(h, k) = Cardinality(Upto(h, k))
  BY <1>1, VersionsAreFinite
<1>3. k \in Upto(h, k) /\ k \notin Upto(h, i)
  BY <1>1 DEF Upto
<1>4. Upto(h, i) \subseteq Upto(h, k)
  <2>1. \A j \in all_versions(h) : j \in Nat
    BY VersionsAreFinite, <1>1
  <2>2. ASSUME NEW j \in Upto(h, i)
        PROVE  j \in Upto(h, k)
    <3>1. j \in all_versions(h) /\ j <= i
      BY DEF Upto
    <3>2. j \in Nat
      BY <2>1, <3>1
    <3>3. j <= k
      BY <1>1, <3>1, <3>2
    <3>4. QED BY <3>1, <3>3 DEF Upto
  <2>3. QED BY <2>2
<1>5. Cardinality(Upto(h, i)) < Cardinality(Upto(h, k))
  <2>1. Upto(h, i) # Upto(h, k)
    BY <1>3
  <2>2. /\ Cardinality(Upto(h, i)) <= Cardinality(Upto(h, k))
        /\ Cardinality(Upto(h, i)) # Cardinality(Upto(h, k))
    BY <1>2, <1>4, <2>1, FS_Subset
  <2>3. Cardinality(Upto(h, i)) \in Nat /\ Cardinality(Upto(h, k)) \in Nat
    BY <1>2, FS_CardinalityType
  <2>4. QED BY <2>2, <2>3
<1>6. QED BY <1>2, <1>5

\* A number is that of one version only, and the report is the one it shows.
LEMMA OneVersion ==
    ASSUME NEW h \in Seq(Responses), NEW i \in all_versions(h)
    PROVE  ShowReportView(h, version_number(h, i)) = h[i]
<1> DEFINE n == version_number(h, i)
<1>1. i \in Listed(h, n)
  BY DEF Listed
<1>2. ASSUME NEW k \in Listed(h, n)
      PROVE  k = i
  <2>1. k \in all_versions(h) /\ version_number(h, k) = n
    BY DEF Listed
  <2>2. i \in Nat /\ k \in Nat /\ n \in Nat
    BY <2>1, VersionsAreFinite
  <2>3. ~(i < k) /\ ~(k < i)
    BY <2>1, <2>2, NumbersIncrease
  <2>4. QED BY <2>2, <2>3
<1>3. get_version(h, n) = i
  BY <1>1, <1>2 DEF get_version
<1>4. QED BY <1>1, <1>3 DEF ShowReportView

\* One more row in the history: a version keeps its number and its content,
\* though the row it is read from may be another.
LEMMA AppendKeepsNumbers ==
    ASSUME NEW h \in Seq(Responses), NEW x \in Responses, NEW i \in all_versions(h)
    PROVE  LET g == Append(h, x) IN
           \E k \in all_versions(g) :
              version_number(g, k) = version_number(h, i) /\ g[k] = h[i]
<1> DEFINE g == Append(h, x)
<1> DEFINE len == Len(h)
<1>1. /\ g \in Seq(Responses) /\ len \in Nat /\ Len(g) = len + 1
      /\ DOMAIN h = 1..len /\ DOMAIN g = 1..(len + 1)
      /\ \A j \in 1..len : g[j] = h[j]
      /\ g[len + 1] = x
  OBVIOUS
<1>2. i \in 1..len /\ i \in Nat
  BY VersionsAreFinite
<1> HIDE DEF g, len
<1>3. \A j \in 1..len : j # len => (j \in all_versions(g) <=> j \in all_versions(h))
  <2>1. len = Len(h)
    BY DEF len
  <2>2. ASSUME NEW j \in 1..len, j # len
        PROVE  j \in all_versions(g) <=> j \in all_versions(h)
    <3>1. j # Len(g) /\ j + 1 \in 1..len /\ g[j] = h[j] /\ g[j + 1] = h[j + 1]
      BY <1>1, <2>2
    <3>2. j \in all_versions(h) <=> h[j] # h[j + 1]
      BY <2>1, <2>2, InVersions
    <3>3. j \in all_versions(g) <=> g[j] # g[j + 1]
      <4>1. j \in 1..Len(g)
        BY <1>1, <2>2
      <4>2. QED BY <1>1, <3>1, <4>1, InVersions
    <3>4. QED BY <3>1, <3>2, <3>3
  <2>3. QED BY <2>2
<1>4. CASE i # len \/ x # h[len]
  <2>1. i \in all_versions(g)
    <3>1. CASE i # len
      BY <1>2, <1>3, <3>1
    <3>2. CASE i = len /\ x # h[len]
      BY <1>1, <1>2, <3>2 DEF all_versions
    <3>3. QED BY <1>4, <3>1, <3>2
  <2>2. Upto(g, i) = Upto(h, i)
    <3>1. \A j \in all_versions(g) : j \in 1..(len + 1)
      BY <1>1, VersionsAreFinite
    <3>2. \A j \in all_versions(h) : j \in 1..len
      BY <1>1, VersionsAreFinite DEF len
    <3>3. ASSUME NEW j \in 1..len, j <= i
          PROVE  j \in all_versions(g) <=> j \in all_versions(h)
      <4>1. CASE j # len
        BY <1>3, <4>1
      <4>2. CASE j = len
        <5>1. j = i
          BY <1>1, <1>2, <3>3, <4>2
        <5>2. QED BY <2>1, <5>1
      <4>3. QED BY <4>1, <4>2
    <3>4. ASSUME NEW j \in 1..(len + 1), j <= i
          PROVE  j \in 1..len
      BY <1>1, <1>2, <3>4
    <3>5. \A j : j \in Upto(g, i) <=> j \in Upto(h, i)
      BY <3>1, <3>2, <3>3, <3>4 DEF Upto
    <3>6. QED BY <3>5
  <2>3. version_number(g, i) = version_number(h, i)
    BY <1>1, <1>2, <2>2, VersionsAreFinite
  <2>4. QED BY <1>1, <1>2, <2>1, <2>3 DEF g
<1>5. CASE i = len /\ x = h[len]
  <2>1. len + 1 \in all_versions(g) /\ len \notin all_versions(g)
    BY <1>1, <1>2, <1>5 DEF all_versions
  <2> DEFINE before == Upto(h, i) \ {i}
  <2>2. i \in Upto(h, i) /\ IsFiniteSet(Upto(h, i))
    BY <1>2, VersionsAreFinite DEF Upto
  <2>3. Upto(g, len + 1) = before \cup {len + 1}
    <3>1. \A j \in all_versions(g) : j \in 1..(len + 1)
      BY <1>1, VersionsAreFinite
    <3>2. \A j \in all_versions(h) : j \in 1..len
      BY <1>1, VersionsAreFinite DEF len
    <3>3. \A j \in 1..len : j \in before <=> j \in all_versions(g)
      BY <1>1, <1>2, <1>3, <1>5, <2>1 DEF Upto
    <3>4. before \subseteq 1..len
      BY <3>2 DEF Upto
    <3>5. QED BY <1>1, <2>1, <3>1, <3>3, <3>4 DEF Upto
  <2>4. len + 1 \notin before
    BY <1>1, <1>2, <1>5 DEF Upto
  <2>5. IsFiniteSet(before) /\ Cardinality(before) = Cardinality(Upto(h, i)) - 1
    BY <2>2, FS_RemoveElement
  <2>6. Cardinality(before \cup {len + 1}) = Cardinality(before) + 1
    BY <2>4, <2>5, FS_AddElement
  <2>7. Cardinality(Upto(h, i)) \in Nat
    BY <2>2, FS_CardinalityType
  <2>8. version_number(g, len + 1) = version_number(h, i)
    <3>1. version_number(h, i) = Cardinality(Upto(h, i))
      BY <1>2, VersionsAreFinite
    <3>2. version_number(g, len + 1) = Cardinality(Upto(g, len + 1))
      BY <1>1, VersionsAreFinite
    <3>3. Cardinality(Upto(g, len + 1)) = Cardinality(Upto(h, i))
      <4>1. Cardinality(Upto(g, len + 1)) = Cardinality(before) + 1
        BY <2>3, <2>6
      <4>2. QED BY <2>5, <2>7, <4>1
    <3>4. QED BY <3>1, <3>2, <3>3
  <2>9. g[len + 1] = h[i]
    BY <1>1, <1>5
  <2>10. QED BY <2>1, <2>8, <2>9 DEF g
<1>6. QED BY <1>4, <1>5

-----------------------------------------------------------------------------
(* Type correctness                                                        *)

\* As long as a page for a report counts as linked, the review is filled in.
ReadyInv ==
    \A u \in Users : form[u].linked =>
        /\ form[u].page = "create"
        /\ review.status # "none"
        /\ FilledIn(review.response)

IInv == TypeOK /\ ReadyInv

LEMMA Apart == Decisions \cap NotDecided = {}
  BY DEF Decisions, NotDecided

\* The empty row, and what is known of any.
LEMMA RowTypes ==
    ASSUME NEW r \in Rows
    PROVE  /\ r.response \in Responses
           /\ r.status \in Statuses \cup {"none"}
           /\ r.response.decision \in [Outcomes -> Decisions \cup NotDecided]
  BY DEF Rows, Responses

LEMMA NoReviewType == NoReview \in Rows
  BY ReportsAssumption DEF NoReview, Rows, Responses, NotDecided

LEMMA NoFormType == NoForm \in Forms /\ ~NoForm.linked /\ NoForm.page = "none"
  BY NoReviewType, ReportsAssumption DEF NoForm, Forms, Pages

LEMMA InitInv == Init => IInv
<1> SUFFICES ASSUME Init PROVE IInv
  OBVIOUS
<1>1. [NoReview EXCEPT !.status = "to_do"] \in Rows
  BY NoReviewType DEF Rows, Statuses
<1>2. TypeOK
  BY <1>1, NoReviewType, NoFormType, ReportsAssumption DEF Init, TypeOK
<1>3. ReadyInv
  BY DEF Init, ReadyInv, NoForm
<1>4. QED BY <1>2, <1>3 DEF IInv

\* A row that is saved goes into the history if it is completed.
LEMMA SaveType ==
    ASSUME TypeOK, NEW r \in Rows, Save(r)
    PROVE  /\ review' = r /\ review' \in Rows
           /\ review_type' = review_type
           /\ saves' \in 0..MaxSaves
           /\ history' \in Seq(Responses)
           /\ history' = history \/ history' = Append(history, r.response)
  BY ReportsAssumption, RowTypes DEF Save, TypeOK

\* Pages that are opened and closed.
LEMMA OpenType ==
    ASSUME TypeOK, NEW u \in Users, NEW page \in Pages,
           NEW o \in Outcomes \cup {"none"}, NEW comments \in Lists,
           Open(u, page, o, comments)
    PROVE  /\ form' \in [Users -> Forms]
           /\ ~form'[u].linked
           /\ \A v \in Users : v # u => form'[v] = form[v]
<1>1. [NoForm EXCEPT !.page = page, !.outcome = o, !.comments = comments] \in Forms
  BY NoFormType DEF Forms
<1>2. ~[NoForm EXCEPT !.page = page, !.outcome = o, !.comments = comments].linked
  BY NoFormType DEF Forms
<1>3. QED BY <1>1, <1>2 DEF Open, TypeOK

LEMMA CloseType ==
    ASSUME TypeOK, NEW u \in Users, Close(u)
    PROVE  /\ form' \in [Users -> Forms]
           /\ ~form'[u].linked
           /\ \A v \in Users : v # u => form'[v] = form[v]
  BY NoFormType DEF Close, TypeOK

\* A row that is saved over the review leaves it filled in.
Follows(r) ==
    /\ r \in Rows
    /\ review.status # "none" => r.status # "none"
    /\ review.status # "none" /\ FilledIn(review.response) => FilledIn(r.response)

\* It does when it adds to the content, and takes no decision away.
LEMMA AddsToIt ==
    ASSUME TypeOK, NEW r \in Rows,
           review.status # "none" => r.status # "none",
           \A o \in Outcomes :
              r.response.decision[o] \in Decisions \cup {review.response.decision[o]},
           review.response.comments \subseteq r.response.comments,
           review.response.details \subseteq r.response.details
    PROVE  Follows(r)
<1>1. r.response.comments \subseteq Comments
  BY DEF Rows, Responses
<1>2. ASSUME FilledIn(review.response)
      PROVE  FilledIn(r.response)
  BY <1>1, <1>2, Apart DEF FilledIn
<1>3. QED BY <1>2 DEF Follows

LEMMA FormValidInv ==
    ASSUME IInv, NEW r, Follows(r), form_valid(r)
    PROVE  IInv'
<1>1. review' = r /\ form' = form /\ review_type' = review_type
  BY SaveType DEF form_valid, Follows, IInv
<1>2. TypeOK'
  BY <1>1, SaveType DEF form_valid, Follows, IInv, TypeOK
<1>3. ReadyInv'
  BY <1>1 DEF ReadyInv, IInv, Follows, FilledIn
<1>4. QED BY <1>2, <1>3 DEF IInv

\* The pages that save what they were filled in with.
LEMMA SectionsInv ==
    ASSUME IInv, NEW u \in Users,
           \/ OutcomeView(u) \/ AddObjectiveCommentsView(u) \/ AddReviewCommentsView(u)
           \/ SystemAndScopeView(u) \/ EditReviewSystemView(u)
    PROVE  IInv'
<1>1. review \in Rows
  BY DEF IInv, TypeOK
<1>2. CASE OutcomeView(u)
  <2>1. PICK o \in Outcomes, d \in Decisions : form_valid(set_outcome_review(o, d))
    BY <1>2 DEF OutcomeView
  <2>2. Follows(set_outcome_review(o, d))
    <3> DEFINE r == [review EXCEPT !.response.decision[o] = d]
    <3>1. r \in Rows /\ r.status = review.status
      BY <1>1 DEF Rows, Responses
    <3>2. /\ \A x \in Outcomes :
                r.response.decision[x] \in Decisions \cup {review.response.decision[x]}
          /\ r.response.comments = review.response.comments
          /\ r.response.details = review.response.details
      BY <1>1 DEF Rows, Responses
    <3>3. QED BY <3>1, <3>2, AddsToIt DEF set_outcome_review, IInv
  <2>3. QED BY <2>1, <2>2, FormValidInv
<1>3. CASE AddObjectiveCommentsView(u)
  <2>1. PICK c \in Comments : form_valid(set_objective_comments(c))
    BY <1>3 DEF AddObjectiveCommentsView
  <2>2. Follows(set_objective_comments(c))
    <3> DEFINE r == [review EXCEPT !.response.comments = @ \cup {c}]
    <3>1. r \in Rows /\ r.status = review.status
      BY <1>1 DEF Rows, Responses
    <3>2. /\ r.response.decision = review.response.decision
          /\ review.response.comments \subseteq r.response.comments
          /\ r.response.details = review.response.details
      BY <1>1 DEF Rows, Responses
    <3>3. QED BY <3>1, <3>2, AddsToIt DEF set_objective_comments, IInv
  <2>3. QED BY <2>1, <2>2, FormValidInv
<1>4. CASE AddReviewCommentsView(u)
  <2>1. PICK d \in Details : form_valid(set_additional_detail(d))
    BY <1>4 DEF AddReviewCommentsView
  <2>2. Follows(set_additional_detail(d))
    <3> DEFINE r == [review EXCEPT !.response.details = @ \cup {d}]
    <3>1. r \in Rows /\ r.status = review.status
      BY <1>1, ReportsAssumption DEF Rows, Responses
    <3>2. /\ r.response.decision = review.response.decision
          /\ r.response.comments = review.response.comments
          /\ review.response.details \subseteq r.response.details
      BY <1>1 DEF Rows, Responses
    <3>3. QED BY <3>1, <3>2, AddsToIt DEF set_additional_detail, IInv
  <2>3. QED BY <2>1, <2>2, FormValidInv
<1>5. CASE SystemAndScopeView(u)
  <2> DEFINE st == IF review.status = "to_do" THEN "in_progress" ELSE review.status
  <2> DEFINE r == [review EXCEPT !.response.scope = TRUE, !.status = st]
  <2>1. form_valid(r)
    BY <1>5 DEF SystemAndScopeView
  <2>2. st \in Statuses \cup {"none"} /\ (review.status # "none" => st # "none")
    BY <1>1 DEF Rows, Statuses
  <2> HIDE DEF st
  <2>3. Follows(r)
    BY <1>1, <2>2 DEF Follows, Rows, Responses, FilledIn
  <2>4. QED BY <2>1, <2>3, FormValidInv
<1>6. CASE EditReviewSystemView(u)
  <2> DEFINE r == [review EXCEPT !.response.scope = FALSE]
  <2>1. form_valid(r)
    BY <1>6 DEF EditReviewSystemView
  <2>2. Follows(r)
    BY <1>1 DEF Follows, Rows, Responses, FilledIn
  <2>3. QED BY <2>1, <2>2, FormValidInv
<1>7. QED BY <1>2, <1>3, <1>4, <1>5, <1>6

\* The steps that change the status of a review, and nothing of its content.
LEMMA StatusInv ==
    ASSUME IInv, NEW u \in Users,
           ReopenReviewView(u) \/ FinaliseReview(u)
    PROVE  IInv'
<1>1. review \in Rows
  BY DEF IInv, TypeOK
<1>2. CASE ReopenReviewView(u)
  <2> DEFINE r == [review EXCEPT !.completion = FALSE, !.status = "in_progress"]
  <2>1. form_valid(r)
    BY <1>2 DEF ReopenReviewView
  <2>2. Follows(r)
    BY <1>1 DEF Follows, Rows, Statuses
  <2>3. QED BY <2>1, <2>2, FormValidInv
<1>3. CASE FinaliseReview(u)
  <2> DEFINE r == [review EXCEPT !.finalised = TRUE]
  <2>1. form_valid(r)
    BY <1>3 DEF FinaliseReview
  <2>2. Follows(r)
    BY <1>1 DEF Follows, Rows
  <2>3. QED BY <2>1, <2>2, FormValidInv
<1>4. QED BY <1>2, <1>3

\* A change form may bring back any content: the pages that count as linked
\* are those that it leaves as they were.
LEMMA AdminInv ==
    ASSUME IInv, NEW u \in Users, ReviewAdmin(u)
    PROVE  IInv'
<1> USE DEF IInv
<1> DEFINE posted == form[u].row
<1>1. posted \in Rows
  BY DEF TypeOK, Forms
<1>2. PICK r \in Rows : Save(r) /\ r.status # "none"
  <2>1. ASSUME NEW st \in Chosen
        PROVE  /\ [posted EXCEPT !.status = st] \in Rows
               /\ [posted EXCEPT !.status = st].status # "none"
    <3>1. st \in Statuses /\ st # "none"
      BY ReportsAssumption DEF Statuses
    <3>2. QED BY <1>1, <3>1 DEF Rows
  <2> DEFINE reopened == [posted EXCEPT !.completion = FALSE, !.finalised = FALSE,
                                        !.status = "in_progress"]
  <2>2. reopened \in Rows /\ reopened.status # "none"
    BY <1>1 DEF Rows, Statuses
  <2> HIDE DEF posted
  <2>3. (\E st \in Chosen : Save([posted EXCEPT !.status = st])) \/ Save(reopened)
    BY DEF ReviewAdmin, posted
  <2>4. QED BY <2>1, <2>2, <2>3
<1>3. /\ review' = r /\ review' \in Rows /\ review_type' = review_type
      /\ saves' \in 0..MaxSaves /\ history' \in Seq(Responses)
  BY <1>2, SaveType
<1>4. \A v \in Users :
         form'[v] = IF v = u THEN NoForm
                    ELSE [form[v] EXCEPT !.linked =
                             @ /\ review'.response = review.response]
  BY DEF ReviewAdmin
<1>5. ASSUME NEW v \in Users
      PROVE  /\ form'[v] \in Forms
             /\ form'[v].linked =>
                   /\ form[v].linked /\ review'.response = review.response
                   /\ form'[v].page = form[v].page
  <2>1. form[v] \in Forms /\ form[v].linked \in BOOLEAN
    BY DEF TypeOK, Forms
  <2> DEFINE still == form[v].linked /\ review'.response = review.response
  <2>2. /\ [form[v] EXCEPT !.linked = still] \in Forms
        /\ [form[v] EXCEPT !.linked = still].linked = still
        /\ [form[v] EXCEPT !.linked = still].page = form[v].page
    <3>1. still \in BOOLEAN
      OBVIOUS
    <3> HIDE DEF still
    <3>2. QED BY <2>1, <3>1 DEF Forms
  <2>3. QED BY <1>4, <2>2, NoFormType
<1>6. form' \in [Users -> Forms]
  <2>1. form' = [v \in Users |-> form'[v]]
    BY DEF ReviewAdmin
  <2>2. QED BY <1>5, <2>1
<1>7. TypeOK'
  BY <1>3, <1>6 DEF TypeOK
<1>8. ReadyInv'
  BY <1>2, <1>3, <1>5 DEF ReadyInv, FilledIn
<1>9. QED BY <1>7, <1>8

\* Pages that are opened, changed or left.
LEMMA FormsInv ==
    ASSUME IInv, NEW u \in Users,
           \/ Leave(u) \/ AddOutcomeRecommendationPage(u) \/ RecommendationsPreview(u)
           \/ RecommendationsChange(u) \/ CreateReportPage(u) \/ ReviewAdminPage(u)
           \/ ImportPreview(u)
    PROVE  IInv'
<1> USE DEF IInv
<1>1. UNCHANGED <<review_type, review, history, saves>>
  BY DEF Leave, AddOutcomeRecommendationPage, RecommendationsPreview,
         RecommendationsChange, CreateReportPage, ReviewAdminPage, ImportPreview, Stored
<1>2. /\ form' \in [Users -> Forms]
      /\ \A v \in Users : v # u => form'[v] = form[v]
      /\ form'[u].linked =>
            /\ form'[u].page = "create"
            /\ review.status # "none" /\ FilledIn(review.response)
  <2>1. CASE Leave(u)
    BY <2>1, CloseType DEF Leave
  <2>2. CASE AddOutcomeRecommendationPage(u)
    BY <2>2, OpenType, ReportsAssumption DEF AddOutcomeRecommendationPage, Pages
  <2>3. form[u].outcome \in Outcomes \cup {"none"}
    BY DEF TypeOK, Forms
  <2>4. CASE RecommendationsPreview(u)
    BY <2>3, <2>4, OpenType DEF RecommendationsPreview, Pages
  <2>5. CASE RecommendationsChange(u)
    BY <2>3, <2>5, OpenType, ReportsAssumption DEF RecommendationsChange, Pages
  <2>6. ASSUME NEW f \in Forms, form' = [form EXCEPT ![u] = f],
               f.linked => /\ f.page = "create"
                           /\ review.status # "none" /\ FilledIn(review.response)
        PROVE  /\ form' \in [Users -> Forms]
               /\ \A v \in Users : v # u => form'[v] = form[v]
               /\ form'[u].linked =>
                     /\ form'[u].page = "create"
                     /\ review.status # "none" /\ FilledIn(review.response)
    BY <2>6 DEF TypeOK
  <2>7. CASE CreateReportPage(u)
    <3> DEFINE ready == is_ready_to_submit(review.response)
    <3>1. ready \in BOOLEAN
      BY DEF is_ready_to_submit
    <3>2. ready => FilledIn(review.response)
      BY DEF is_ready_to_submit, is_all_objectives_complete, is_outcome_complete, FilledIn
    <3> DEFINE f == [NoForm EXCEPT !.page = "create", !.linked = ready]
    <3>3. review.status # "none" /\ form' = [form EXCEPT ![u] = f]
      BY <2>7 DEF CreateReportPage, Idle
    <3> HIDE DEF ready
    <3>4. f \in Forms /\ f.page = "create" /\ f.linked = ready
      BY <3>1, NoFormType DEF Forms, Pages
    <3>5. QED BY <2>6, <3>2, <3>3, <3>4
  <2>8. CASE ReviewAdminPage(u)
    <3> DEFINE f == [NoForm EXCEPT !.page = "admin", !.row = review]
    <3>1. f \in Forms /\ ~f.linked
      BY NoFormType DEF Forms, Pages, TypeOK
    <3>2. QED BY <2>6, <2>8, <3>1 DEF ReviewAdminPage
  <2>9. CASE ImportPreview(u)
    <3>1. PICK decision \in [Outcomes -> Decisions \cup {""}] :
             form' = [form EXCEPT ![u] =
                [NoForm EXCEPT !.page = "import",
                    !.row = [status |-> "none", completion |-> TRUE, finalised |-> TRUE,
                             response |-> assessment_json_to_review_data(decision)]]]
      BY <2>9 DEF ImportPreview
    <3> DEFINE row == [status |-> "none", completion |-> TRUE, finalised |-> TRUE,
                       response |-> assessment_json_to_review_data(decision)]
    <3> DEFINE f == [NoForm EXCEPT !.page = "import", !.row = row]
    <3>2. row \in Rows
      <4>1. decision \in [Outcomes -> Decisions \cup NotDecided]
        BY DEF NotDecided
      <4>2. assessment_json_to_review_data(decision) \in Responses
        BY <4>1, ReportsAssumption DEF assessment_json_to_review_data, Responses
      <4>3. QED BY <4>2 DEF Rows
    <3> HIDE DEF row
    <3>3. f \in Forms /\ ~f.linked
      BY <3>2, NoFormType DEF Forms, Pages
    <3>4. form' = [form EXCEPT ![u] = f]
      BY <3>1 DEF row
    <3>5. QED BY <2>6, <3>3, <3>4
  <2>10. QED BY <2>1, <2>2, <2>4, <2>5, <2>7, <2>8, <2>9
<1>3. TypeOK'
  BY <1>1, <1>2 DEF TypeOK
<1>4. ReadyInv'
  BY <1>1, <1>2 DEF ReadyInv, FilledIn
<1>5. QED BY <1>3, <1>4

\* The forms that are sent: they are closed, and the row is saved.
LEMMA SentInv ==
    ASSUME IInv, NEW u \in Users, NEW r, Follows(r), Save(r), Close(u)
    PROVE  IInv'
<1> USE DEF IInv
<1>1. review' = r /\ review_type' = review_type
  BY SaveType DEF Follows
<1>2. TypeOK'
  BY SaveType, CloseType DEF Follows, TypeOK
<1>3. ReadyInv'
  <2>1. ASSUME NEW v \in Users, form'[v].linked
        PROVE  /\ form'[v].page = "create"
               /\ review'.status # "none" /\ FilledIn(review'.response)
    <3>1. form'[v] = form[v] /\ form[v].linked
      BY <2>1, CloseType
    <3>2. QED BY <1>1, <3>1 DEF ReadyInv, Follows
  <2>2. QED BY <1>1, <2>1 DEF ReadyInv, FilledIn
<1>4. QED BY <1>2, <1>3

LEMMA FormsSentInv ==
    ASSUME IInv, NEW u \in Users,
           RecommendationsConfirm(u) \/ CreateReportView(u) \/ ImportCreate(u)
    PROVE  IInv'
<1>1. review \in Rows /\ form[u] \in Forms
  BY DEF IInv, TypeOK
<1>2. CASE RecommendationsConfirm(u)
  <2> DEFINE r == set_outcome_recommendations(form[u].outcome, form[u].comments)
  <2>1. Save(r) /\ Close(u)
    BY <1>2 DEF RecommendationsConfirm
  <2>2. form[u].comments \in Lists
    BY <1>1 DEF Forms
  <2>3. Follows(r)
    <3>1. r \in Rows /\ r.status = review.status
      BY <1>1, <2>2 DEF set_outcome_recommendations, Rows, Responses
    <3>2. /\ r.response.decision = review.response.decision
          /\ r.response.comments = review.response.comments
          /\ r.response.details = review.response.details
      BY <1>1 DEF set_outcome_recommendations, Rows, Responses
    <3>3. QED BY <3>1, <3>2, AddsToIt DEF IInv
  <2>4. QED BY <2>1, <2>3, SentInv
<1>3. CASE CreateReportView(u)
  <2> DEFINE r == [review EXCEPT !.completion = TRUE, !.status = "completed"]
  <2>1. Save(r) /\ Close(u)
    BY <1>3 DEF CreateReportView
  <2>2. Follows(r)
    BY <1>1 DEF Follows, Rows, Statuses
  <2>3. QED BY <2>1, <2>2, SentInv
<1>4. CASE ImportCreate(u)
  <2>1. PICK st \in ImportedAs : Save([form[u].row EXCEPT !.status = st])
    BY <1>4 DEF ImportCreate
  <2> DEFINE r == [form[u].row EXCEPT !.status = st]
  <2>2. st \in Statuses /\ form[u].row \in Rows
    BY <1>1, ReportsAssumption DEF Forms
  <2>3. r \in Rows
    BY <2>2 DEF Rows
  <2>4. Follows(r)
    BY <1>4, <2>3 DEF Follows, ImportCreate
  <2>5. QED BY <1>4, <2>1, <2>4, SentInv DEF ImportCreate
<1>5. QED BY <1>2, <1>3, <1>4

LEMMA InvStep == IInv /\ [Next]_vars => IInv'
<1> SUFFICES ASSUME IInv, [Next]_vars PROVE IInv'
  OBVIOUS
<1>1. CASE Next
  <2>1. PICK u \in Users :
           \/ OutcomeView(u) \/ AddObjectiveCommentsView(u) \/ AddReviewCommentsView(u)
           \/ SystemAndScopeView(u) \/ EditReviewSystemView(u)
           \/ ReopenReviewView(u) \/ FinaliseReview(u) \/ ReviewAdmin(u)
           \/ Leave(u) \/ AddOutcomeRecommendationPage(u) \/ RecommendationsPreview(u)
           \/ RecommendationsChange(u) \/ CreateReportPage(u)
           \/ ReviewAdminPage(u) \/ ImportPreview(u)
           \/ RecommendationsConfirm(u) \/ CreateReportView(u) \/ ImportCreate(u)
    BY <1>1 DEF Next
  <2>2. QED BY <2>1, SectionsInv, StatusInv, AdminInv, FormsInv, FormsSentInv
<1>2. CASE UNCHANGED vars
  BY <1>2 DEF vars, IInv, TypeOK, ReadyInv, FilledIn
<1>3. QED BY <1>1, <1>2

LEMMA Invariant == Spec => []IInv
<1>1. Init => IInv
  BY InitInv
<1>2. IInv /\ [Next]_vars => IInv'
  BY InvStep
<1>3. QED BY <1>1, <1>2, PTL DEF Spec

-----------------------------------------------------------------------------
(* The theorems                                                            *)

\* Every row, history and page that users and operators can bring about is
\* well typed (TypeOK).
THEOREM TypeCorrect == Spec => []TypeOK
<1>1. IInv => TypeOK
  BY DEF IInv
<1>2. QED BY <1>1, Invariant, PTL

\* The objective pages mark as required what is_objective_complete misses, for
\* both kinds of review and every CAF profile (AsksForWhatIsMissing).
THEOREM PagesAskForWhatIsMissing == Spec => []AsksForWhatIsMissing
<1>1. IInv => AsksForWhatIsMissing
  <2> SUFFICES ASSUME IInv PROVE AsksForWhatIsMissing
    OBVIOUS
  <2> DEFINE response == review.response
  <2>1. review_type \in {"independent", "peer_review"}
    BY ReportsAssumption DEF IInv, TypeOK
  <2>2. ASSUME NEW o \in Outcomes
        PROVE  is_outcome_complete(response, o) <=>
                  /\ response.decision[o] \notin NotDecided
                  /\ recommendations_required(response, o) =>
                         response.recommendations[o] # <<>>
    <3>1. response.decision[o] \in Decisions \cup NotDecided
      BY RowTypes DEF IInv, TypeOK
    <3>2. CASE review_type = "peer_review"
      BY <3>1, <3>2 DEF is_outcome_complete, recommendations_required
    <3>3. CASE review_type = "independent"
      BY <3>1, <3>3, Apart DEF is_outcome_complete, recommendations_required, Decisions
    <3>4. QED BY <2>1, <3>2, <3>3
  <2>3. QED BY <2>2 DEF AsksForWhatIsMissing, is_all_objectives_complete
<1>2. QED BY <1>1, Invariant, PTL

\* Steps add at most one row to the history.
LEMMA HistoryGrows ==
    ASSUME IInv, [Next]_vars
    PROVE  history' = history \/ \E x \in Responses : history' = Append(history, x)
<1>1. CASE UNCHANGED history
  BY <1>1
<1>2. ASSUME NEW r, Save(r), r \in Rows
      PROVE  \E x \in Responses : history' \in {history, Append(history, x)}
  BY <1>2, SaveType, RowTypes DEF IInv
<1>3. review' \in Rows
  BY InvStep DEF IInv, TypeOK
<1>4. ASSUME NEW r, Save(r)
      PROVE  r = review'
  BY <1>4 DEF Save
<1>5. (\E r : Save(r)) \/ UNCHANGED history
  BY DEF Next, vars, Stored, form_valid, Leave, OutcomeView,
         AddOutcomeRecommendationPage, RecommendationsPreview, RecommendationsChange,
         RecommendationsConfirm, AddObjectiveCommentsView, AddReviewCommentsView,
         SystemAndScopeView, EditReviewSystemView, CreateReportPage, CreateReportView,
         ReopenReviewView, FinaliseReview, ReviewAdminPage, ReviewAdmin,
         ImportPreview, ImportCreate
<1>6. QED BY <1>1, <1>2, <1>3, <1>4, <1>5

\* The step of VersionsKeepTheirNumbers.
NumbersStep ==
    \A i \in all_versions(history) :
        LET n == version_number(history, i)
        IN  ShowReportView(history', n) = ShowReportView(history, n)

\* Once there is a version n, it shows what it showed when it was listed first,
\* however many rows the history gets (VersionsKeepTheirNumbers).
THEOREM VersionsAreKept == Spec => VersionsKeepTheirNumbers
<1>1. IInv /\ [Next]_vars => NumbersStep
  <2> SUFFICES ASSUME IInv, [Next]_vars, NEW i \in all_versions(history)
               PROVE  ShowReportView(history', version_number(history, i))
                      = ShowReportView(history, version_number(history, i))
    BY DEF NumbersStep
  <2>1. history \in Seq(Responses) /\ history' \in Seq(Responses)
    BY InvStep DEF IInv, TypeOK
  <2>2. CASE history' = history
    BY <2>2
  <2>3. ASSUME NEW x \in Responses, history' = Append(history, x)
        PROVE  ShowReportView(history', version_number(history, i))
               = ShowReportView(history, version_number(history, i))
    <3>1. PICK k \in all_versions(history') :
             /\ version_number(history', k) = version_number(history, i)
             /\ history'[k] = history[i]
      BY <2>1, <2>3, AppendKeepsNumbers
    <3>2. ShowReportView(history', version_number(history', k)) = history'[k]
      BY <2>1, OneVersion
    <3>3. ShowReportView(history, version_number(history, i)) = history[i]
      BY <2>1, OneVersion
    <3>4. QED BY <3>1, <3>2, <3>3
  <2>4. QED BY <2>2, <2>3, HistoryGrows
<1>2. IInv /\ [Next]_vars => [NumbersStep]_vars
  BY <1>1
<1>3. Spec => [][NumbersStep]_vars
  BY <1>2, Invariant, PTL DEF Spec
<1>4. QED BY <1>3 DEF NumbersStep, VersionsKeepTheirNumbers

\* The step of LinkedReportsAreFilledIn.
FilledInStep ==
    \A u \in Users :
        form[u].linked /\ form'[u].page = "none" /\ history' # history
        => FilledIn(history'[Len(history')])

\* The report that is created from a page to which the summary led is filled
\* in, though the readiness was looked at when the page was opened, and others
\* have sent their pages since (LinkedReportsAreFilledIn).
THEOREM LinkedReportsHoldWhatWasReady == Spec => LinkedReportsAreFilledIn
<1>1. IInv /\ [Next]_vars => FilledInStep
  <2> SUFFICES ASSUME IInv, [Next]_vars, NEW u \in Users, form[u].linked,
                      form'[u].page = "none", history' # history
               PROVE  FilledIn(history'[Len(history')])
    BY DEF FilledInStep
  <2>1. /\ form[u].page = "create" /\ review.status # "none"
        /\ FilledIn(review.response) /\ review \in Rows /\ TypeOK
    BY DEF IInv, ReadyInv, TypeOK
  <2>2. form' # form
    BY <2>1
  <2>3. \E v \in Users : \/ RecommendationsConfirm(v) \/ CreateReportView(v)
                        \/ ReviewAdmin(v) \/ ImportCreate(v)
    BY <2>2 DEF Next, vars, Stored, form_valid, Leave, OutcomeView,
           AddOutcomeRecommendationPage, RecommendationsPreview, RecommendationsChange,
           AddObjectiveCommentsView, AddReviewCommentsView,
           SystemAndScopeView, EditReviewSystemView, CreateReportPage,
           ReopenReviewView, FinaliseReview, ReviewAdminPage, ImportPreview
  <2>4. ASSUME NEW v \in Users, RecommendationsConfirm(v) \/ ImportCreate(v)
        PROVE  FALSE
    <3>1. v # u
      BY <2>1, <2>4 DEF RecommendationsConfirm, ImportCreate
    <3>2. Close(v)
      BY <2>4 DEF RecommendationsConfirm, ImportCreate
    <3>3. form'[u] = form[u]
      BY <2>1, <3>1, <3>2, CloseType
    <3>4. QED BY <2>1, <3>3
  <2>5. ASSUME NEW v \in Users, ReviewAdmin(v)
        PROVE  FALSE
    <3>1. v # u
      BY <2>1, <2>5 DEF ReviewAdmin
    <3>2. form'[u].page = form[u].page
      <4>1. form[u] \in Forms
        BY <2>1 DEF TypeOK
      <4>2. form'[u] = [form[u] EXCEPT !.linked =
                           @ /\ review'.response = review.response]
        BY <2>5, <3>1 DEF ReviewAdmin
      <4>3. QED BY <4>1, <4>2 DEF Forms
    <3>3. QED BY <2>1, <3>2
  <2>6. PICK v \in Users : CreateReportView(v)
    BY <2>3, <2>4, <2>5
  <2> DEFINE r == [review EXCEPT !.completion = TRUE, !.status = "completed"]
  <2>7. r \in Rows /\ r.response = review.response /\ r.status = "completed"
    BY <2>1 DEF Rows, Statuses
  <2>8. Save(r)
    BY <2>6 DEF CreateReportView
  <2>9. history' = Append(history, review.response) /\ history \in Seq(Responses)
    BY <2>1, <2>7, <2>8 DEF Save, TypeOK
  <2>10. history'[Len(history')] = review.response
    BY <2>9
  <2>11. QED BY <2>1, <2>10
<1>2. IInv /\ [Next]_vars => [FilledInStep]_vars
  BY <1>1
<1>3. Spec => [][FilledInStep]_vars
  BY <1>2, Invariant, PTL DEF Spec
<1>4. QED BY <1>3 DEF FilledInStep, LinkedReportsAreFilledIn

-----------------------------------------------------------------------------
(* The status of an outcome                                                *)

LEMMA KeyOfStatements ==
    ASSUME NEW S, NEW ticked
    PROVE  /\ generate_key(S, ticked) \in Amounts
           /\ generate_key(S, ticked) = "none" <=> S \cap ticked = {}
           /\ generate_key(S, ticked) = "all" <=> S # {} /\ S \subseteq ticked
  BY DEF generate_key, Amounts

\* What the table says, row by row.
LEMMA RulesSay ==
    ASSUME NEW a \in Amounts, NEW p \in Amounts, NEW n \in Amounts
    PROVE  /\ n # "none" => assessment_rules[<<a, p, n>>] = "not-achieved"
           /\ n = "none" /\ a = "all" => assessment_rules[<<a, p, n>>] = "achieved"
           /\ n = "none" /\ a # "all" /\ p = "all" =>
                 assessment_rules[<<a, p, n>>] = "partially-achieved"
           /\ n = "none" /\ a # "all" /\ p # "all" =>
                 assessment_rules[<<a, p, n>>] = "not-achieved"
<1>1. <<a, p, n>> \in Amounts \X Amounts \X Amounts
  OBVIOUS
<1>2. <<a, p, n>>[1] = a /\ <<a, p, n>>[2] = p /\ <<a, p, n>>[3] = n
  OBVIOUS
<1>3. QED BY <1>1, <1>2 DEF assessment_rules, Amounts

\* get_status_for_indicator: for every outcome, also one that has no statements
\* of a kind, the 27 rows of the assessment-rules say that one statement of "not
\* achieved" is enough, and that "achieved" and "partially achieved" need all of
\* theirs.
THEOREM RulesGiveWhatIsDeserved ==
    ASSUME NEW outcome, NEW ticked
    PROVE  get_status_for_indicator(outcome, ticked) = Deserved(outcome, ticked)
<1> DEFINE a == generate_key(outcome.achieved, ticked)
           p == generate_key(outcome.partially, ticked)
           n == generate_key(outcome.not, ticked)
<1>1. /\ a \in Amounts /\ p \in Amounts /\ n \in Amounts
      /\ n = "none" <=> outcome.not \cap ticked = {}
      /\ a = "all" <=> outcome.achieved # {} /\ outcome.achieved \subseteq ticked
      /\ p = "all" <=> outcome.partially # {} /\ outcome.partially \subseteq ticked
  BY KeyOfStatements
<1>2. get_status_for_indicator(outcome, ticked) = assessment_rules[<<a, p, n>>]
  BY DEF get_status_for_indicator
<1> HIDE DEF a, p, n
<1>3. CASE n # "none"
  BY <1>1, <1>2, <1>3, RulesSay DEF Deserved
<1>4. CASE n = "none" /\ a = "all"
  BY <1>1, <1>2, <1>4, RulesSay DEF Deserved
<1>5. CASE n = "none" /\ a # "all" /\ p = "all"
  BY <1>1, <1>2, <1>5, RulesSay DEF Deserved
<1>6. CASE n = "none" /\ a # "all" /\ p # "all"
  BY <1>1, <1>2, <1>6, RulesSay DEF Deserved
<1>7. QED BY <1>3, <1>4, <1>5, <1>6

\* Whoever ticks more that speaks for an outcome, or less that speaks against
\* it, never lowers its status, nor falls short of a CAF profile that was met
\* (calculate_profile_met).
THEOREM MoreNeverLowersTheStatus ==
    ASSUME NEW outcome, NEW ticked, NEW again, Better(outcome, ticked, again)
    PROVE  LET before == get_status_for_indicator(outcome, ticked)
               after == get_status_for_indicator(outcome, again)
           IN  /\ before \in Decisions /\ after \in Decisions
               /\ Score[before] <= Score[after]
               /\ \A o \in Outcomes :
                     min_profile_requirement_met(o, before)
                     => min_profile_requirement_met(o, after)
<1>1. PICK before, after : /\ before = Deserved(outcome, ticked)
                           /\ after = Deserved(outcome, again)
  OBVIOUS
<1>2. before \in Decisions /\ after \in Decisions
  BY <1>1 DEF Deserved, Decisions
<1>3. /\ before = "achieved" => after = "achieved"
      /\ before = "partially-achieved" => after \in {"achieved", "partially-achieved"}
  <2>1. /\ outcome.not \cap ticked = {} => outcome.not \cap again = {}
        /\ outcome.achieved \subseteq ticked => outcome.achieved \subseteq again
        /\ outcome.partially \subseteq ticked => outcome.partially \subseteq again
    BY DEF Better
  <2>2. QED BY <1>1, <2>1 DEF Deserved
<1>4. /\ Score["achieved"] = 3
      /\ Score["partially-achieved"] = 2
      /\ Score["not-achieved"] = 1
  BY DEF Score, Decisions
<1>5. Score[before] <= Score[after]
  BY <1>2, <1>3, <1>4 DEF Decisions
<1>6. ASSUME NEW o \in Outcomes, min_profile_requirement_met(o, before)
      PROVE  min_profile_requirement_met(o, after)
  <2>1. CASE Requirement[o] = "none"
    BY <2>1 DEF min_profile_requirement_met
  <2>2. CASE Requirement[o] # "none"
    <3>1. Requirement[o] \in Decisions
      BY <2>2, ReportsAssumption
    <3>2. \A d \in Decisions : Score[d] \in Nat
      BY <1>4 DEF Decisions
    <3>3. Score[before] >= Score[Requirement[o]]
      BY <1>6, <2>2 DEF min_profile_requirement_met
    <3>4. Score[after] >= Score[Requirement[o]]
      BY <1>2, <1>5, <3>1, <3>2, <3>3
    <3>5. QED BY <1>2, <3>4 DEF min_profile_requirement_met
  <2>3. QED BY <2>1, <2>2
<1>7. QED BY <1>1, <1>2, <1>5, <1>6, RulesGiveWhatIsDeserved
=============================================================================
