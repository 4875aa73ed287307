---------------------------- MODULE Notify_proofs ----------------------------
(***************************************************************************)
(* Proofs about Notify: nobody gets the e-mail of a batch twice, the       *)
(* retries are bounded by the batch, and a batch does what Delivery says,  *)
(* for every set of addresses, every address list and every budget.  What  *)
(* can be proved of EndsRecorded without fairness is proved too: a handler *)
(* is never stuck, its steps cannot go on for ever, and once it is over    *)
(* its save was tried.                                                     *)
(***************************************************************************)
EXTENDS Notify, FiniteSetTheorems, WellFoundedInduction, TLAPS

-----------------------------------------------------------------------------
(* The inductive invariant                                                 *)

Sending == pc \in {"send", "wait"}

\* A request is with Notify only as long as its e-mail has not arrived, and
\* an accepted e-mail has.
MailOnce ==
    \A k \in Recipients :
        /\ inbox[k] <= 1
        /\ k \in flight => inbox[k] = 0 /\ verdict[k] \in {"due", "failed"}
        /\ verdict[k] \in {"accepted", "unanswered"} => inbox[k] = 1

\* Nothing has been asked of Notify for the positions that are left, but for
\* the request that is being waited for.
Untried ==
    Sending => \A i \in left :
        /\ i \in unique_email_addresses(batch)
        /\ verdict[Key[batch[i]]] = "due"
        /\ \/ inbox[Key[batch[i]]] = 0 /\ Key[batch[i]] \notin flight
           \/ pc = "wait" /\ Next_address(i)

Waiting ==
    pc = "wait" =>
        /\ left # {}
        /\ \A i \in left : Next_address(i) =>
              \/ Key[batch[i]] \in flight
              \/ inbox[Key[batch[i]]] = 1

DueIsLeft ==
    Sending => \A k \in Recipients :
        verdict[k] = "due" => \E i \in left : Key[batch[i]] = k

Budget ==
    /\ Sending => IsFiniteSet(left)
    /\ pc = "send" => tries + Cardinality(left) + retries_remaining
                      = Cardinality(unique_email_addresses(batch)) + MaxRetries
    /\ pc = "wait" => tries + Cardinality(left) + retries_remaining
                      = Cardinality(unique_email_addresses(batch)) + MaxRetries + 1
    /\ pc = "tell" => tries <= Cardinality(unique_email_addresses(batch)) + MaxRetries

Batches == \A n \in DOMAIN todo : todo[n] # <<>>

IInv ==
    /\ TypeOK
    /\ MailOnce
    /\ Untried
    /\ Waiting
    /\ DueIsLeft
    /\ Budget
    /\ Batches

IndInv == MailOnce /\ Untried /\ Waiting /\ DueIsLeft /\ Budget /\ Batches

-----------------------------------------------------------------------------
(* Facts about lists of addresses                                          *)

\* The positions that are sent to are finitely many, and one per mailbox.
LEMMA UniqueAddresses ==
    ASSUME NEW list \in Seq(Addresses)
    PROVE  /\ unique_email_addresses(list) \subseteq DOMAIN list
           /\ IsFiniteSet(unique_email_addresses(list))
           /\ \A i, j \in unique_email_addresses(list) :
                 Key[list[i]] = Key[list[j]] => i = j
<1>1. unique_email_addresses(list) \subseteq DOMAIN list
  BY DEF unique_email_addresses
<1>2. IsFiniteSet(DOMAIN list)
  <2>1. DOMAIN list = 1..Len(list) /\ Len(list) \in Nat
    OBVIOUS
  <2>2. QED BY <2>1, FS_Interval
<1>3. IsFiniteSet(unique_email_addresses(list))
  BY <1>1, <1>2, FS_Subset
<1>4. ASSUME NEW i \in unique_email_addresses(list),
             NEW j \in unique_email_addresses(list),
             Key[list[i]] = Key[list[j]]
      PROVE  i = j
  <2>1. i \in Int /\ j \in Int
    BY <1>1
  <2>2. ~(i < j) /\ ~(j < i)
    BY <1>4 DEF unique_email_addresses
  <2>3. QED BY <2>1, <2>2
<1>5. QED BY <1>1, <1>3, <1>4

\* A mailbox that is due has a position that is sent to: the first of its
\* addresses.
LEMMA FirstOfMailbox ==
    ASSUME NEW list \in Seq(Addresses), NEW i \in DOMAIN list
    PROVE  \E j \in unique_email_addresses(list) : Key[list[j]] = Key[list[i]]
<1> DEFINE same == {j \in DOMAIN list : Key[list[j]] = Key[list[i]]}
<1>1. same \in SUBSET Nat /\ i \in same
  OBVIOUS
<1>2. PICK j \in same : \A k \in same : ~(<<k, j>> \in OpToRel(<, Nat))
  BY <1>1, WFMin, NatLessThanWellFounded
<1>3. \A k \in same : ~(k < j)
  BY <1>1, <1>2 DEF OpToRel
<1>4. j \in unique_email_addresses(list)
  BY <1>1, <1>3 DEF unique_email_addresses
<1>5. QED BY <1>4

-----------------------------------------------------------------------------
(* Type correctness                                                        *)

LEMMA InitTypeOK == Init => TypeOK
  BY NotifyAssumption DEF Init, TypeOK, NoHandler

LEMMA ListsAreSequences ==
    ASSUME NEW list \in Lists
    PROVE  /\ list \in Seq(Addresses)
           /\ \A all \in AlsoGovAssure(list) : all \in Seq(Addresses) /\ all # <<>>
<1>1. list \in Seq(Addresses)
  BY NotifyAssumption
<1>2. ASSUME NEW gov \in GovAssure, list # <<>>
      PROVE  list \o gov \in Seq(Addresses) /\ list \o gov # <<>>
  <2>1. gov \in Seq(Addresses)
    BY NotifyAssumption
  <2>2. Len(list) > 0
    BY <1>1, <1>2
  <2>3. list \o gov \in Seq(Addresses) /\ Len(list \o gov) > 0
    BY <1>1, <2>1, <2>2
  <2>4. QED BY <2>3
<1>3. QED BY <1>1, <1>2 DEF AlsoGovAssure

LEMMA AddressAlone ==
    ASSUME NEW a \in Addresses
    PROVE  <<a>> \in Seq(Addresses) /\ <<a>> # <<>>
<1>1. Len(<<a>>) = 1 /\ Len(<<>>) = 0
  OBVIOUS
<1>2. <<a>> \in Seq(Addresses)
  OBVIOUS
<1>3. QED BY <1>1, <1>2

LEMMA BatchesAreSequences ==
    ASSUME NEW x \in Seq(Addresses), x # <<>>,
           NEW y \in Seq(Addresses), y # <<>>,
           NEW batches \in {<<>>, <<x>>, <<x, y>>}
    PROVE  batches \in Seq(Seq(Addresses)) /\ \A n \in DOMAIN batches : batches[n] # <<>>
<1>1. CASE batches = <<>>
  BY <1>1
<1>2. CASE batches = <<x>>
  BY <1>2
<1>3. CASE batches = <<x, y>>
  <2>1. DOMAIN batches = {1, 2} /\ batches[1] = x /\ batches[2] = y
    BY <1>3
  <2>2. batches \in Seq(Seq(Addresses))
    BY <1>3
  <2>3. QED BY <2>1, <2>2
<1>4. QED BY <1>1, <1>2, <1>3

\* What is requested starts one of the handlers.
LEMMA RequestedStarts ==
    ASSUME Requested
    PROVE  \E h \in Handlers, first \in {"save", "next"},
              batches \in Seq(Seq(Addresses)) :
              /\ Start(h, first, batches)
              /\ \A n \in DOMAIN batches : batches[n] # <<>>
<1>1. CASE SectionConfirmationView
  <2>1. PICK user \in Addresses, assessors \in HasAddress :
           \/ \E batches \in {<<>>, <<<<user>>>>} : Start(Submission, "save", batches)
           \/ \E ready \in AlsoGovAssure(assessors) :
                 \E batches \in {<<ready>>, <<<<user>>, ready>>} :
                     Start(Submission, "save", batches)
    BY <1>1 DEF SectionConfirmationView
  <2>2. Submission \in Handlers
    BY DEF Handlers
  <2>3. ASSUME NEW batches \in {<<>>, <<<<user>>>>}
        PROVE  batches \in Seq(Seq(Addresses)) /\ \A n \in DOMAIN batches : batches[n] # <<>>
    BY AddressAlone, BatchesAreSequences
  <2>4. ASSUME NEW ready \in AlsoGovAssure(assessors),
               NEW batches \in {<<ready>>, <<<<user>>, ready>>}
        PROVE  batches \in Seq(Seq(Addresses)) /\ \A n \in DOMAIN batches : batches[n] # <<>>
    <3>1. ready \in Seq(Addresses) /\ ready # <<>>
      BY ListsAreSequences DEF HasAddress
    <3>2. CASE batches = <<ready>>
      BY <3>1, <3>2, BatchesAreSequences
    <3>3. CASE batches = <<<<user>>, ready>>
      BY <3>1, <3>3, AddressAlone, BatchesAreSequences
    <3>4. QED BY <3>2, <3>3
  <2>5. QED BY <2>1, <2>2, <2>3, <2>4
<1>2. CASE Decide
  <2>1. PICK h \in Decisions, leads \in Lists :
           \/ Start(h, "next", <<>>)
           \/ \E list \in AlsoGovAssure(leads) : Start(h, "next", <<list>>)
    BY <1>2 DEF Decide
  <2>2. h \in Handlers
    BY DEF Handlers
  <2>3. CASE Start(h, "next", <<>>)
    <3> DEFINE nothing == <<>>
    <3>1. nothing \in Seq(Seq(Addresses)) /\ \A n \in DOMAIN nothing : nothing[n] # <<>>
      OBVIOUS
    <3>2. Start(h, "next", nothing)
      BY <2>3
    <3> HIDE DEF nothing
    <3>3. QED BY <2>2, <3>1, <3>2
  <2>4. CASE \E list \in AlsoGovAssure(leads) : Start(h, "next", <<list>>)
    <3>1. PICK list \in AlsoGovAssure(leads) : Start(h, "next", <<list>>)
      BY <2>4
    <3> DEFINE told == <<list>>
    <3>2. told \in Seq(Seq(Addresses)) /\ \A n \in DOMAIN told : told[n] # <<>>
      BY ListsAreSequences
    <3>3. Start(h, "next", told)
      BY <3>1
    <3> HIDE DEF told
    <3>4. QED BY <2>2, <3>2, <3>3
  <2>5. QED BY <2>1, <2>3, <2>4
<1>3. CASE SendToOne
  <2>1. PICK h \in {"send_mail", "send_test_notification"}, a \in Addresses :
           Start(h, "next", <<<<a>>>>)
    BY <1>3 DEF SendToOne
  <2>2. h \in Handlers
    BY DEF Handlers
  <2> DEFINE alone == <<<<a>>>>
  <2>3. alone \in Seq(Seq(Addresses)) /\ \A n \in DOMAIN alone : alone[n] # <<>>
    BY AddressAlone, BatchesAreSequences
  <2>4. Start(h, "next", alone)
    BY <2>1
  <2> HIDE DEF alone
  <2>5. QED BY <2>2, <2>3, <2>4
<1>4. QED BY <1>1, <1>2, <1>3 DEF Requested

LEMMA TypeStep == TypeOK /\ [Next]_vars => TypeOK'
<1> SUFFICES ASSUME TypeOK, [Next]_vars PROVE TypeOK'
  OBVIOUS
<1> USE NotifyAssumption
<1>1. CASE Requested
  <2>1. PICK h \in Handlers, first \in {"save", "next"}, batches \in Seq(Seq(Addresses)) :
           Start(h, first, batches)
    BY <1>1, RequestedStarts
  <2>2. QED BY <2>1 DEF Start, TypeOK, batch
<1>2. CASE Save
  <2>1. CASE saved' = "yes" /\ pc' = (IF todo = <<>> THEN "idle" ELSE "next") /\ todo' = todo
    BY <1>2, <2>1 DEF Save, TypeOK, batch
  <2>2. CASE saved' = "refused" /\ pc' = "idle" /\ todo' = <<>>
    <3>1. todo' \in Seq(Seq(Addresses))
      BY <2>2
    <3>2. QED BY <1>2, <2>2, <3>1 DEF Save, TypeOK, batch
  <2>3. QED BY <1>2, <2>1, <2>2 DEF Save
<1>3. CASE NoMore
  BY <1>3 DEF NoMore, Finished, TypeOK, batch
<1>4. CASE SendNotifyEmail
  <2>1. batch \in Seq(Addresses)
    BY <1>4 DEF SendNotifyEmail, TypeOK, batch
  <2>2. left' \subseteq DOMAIN batch /\ left' \subseteq Nat
    BY <1>4, <2>1, UniqueAddresses DEF SendNotifyEmail
  <2>3. QED BY <1>4, <2>2 DEF SendNotifyEmail, TypeOK, batch
<1>5. CASE NotStarted
  BY <1>5 DEF NotStarted, After, TypeOK, batch
<1>6. CASE SendRequest
  <2>1. PICK i \in left : flight' = flight \cup {Key[batch[i]]}
    BY <1>6 DEF SendRequest
  <2>2. Key[batch[i]] \in Recipients
    BY <1>6 DEF SendRequest, TypeOK, batch
  <2>3. QED BY <1>6, <2>1, <2>2 DEF SendRequest, TypeOK, batch
<1>7. CASE Retry
  BY <1>7 DEF Retry, Withdrawn, TypeOK, batch
<1>8. CASE Settle
  <2>1. PICK i \in left, a \in Answers :
           /\ verdict' = [verdict EXCEPT ![Key[batch[i]]] = classify(a)]
           /\ flight' = Withdrawn(a, Key[batch[i]])
           /\ left' = left \ {i}
    BY <1>8 DEF Settle
  <2>2. classify(a) \in {"accepted", "unanswered", "failed"}
    BY DEF classify
  <2>3. verdict' \in [Recipients -> {"none", "due", "accepted", "unanswered", "failed"}]
    BY <2>1, <2>2 DEF TypeOK
  <2>4. QED BY <1>8, <2>1, <2>3 DEF Settle, Withdrawn, TypeOK, batch
<1>9. CASE Tell
  BY <1>9 DEF Tell, TypeOK, batch
<1>10. CASE CallerGoesOn
  BY <1>10 DEF CallerGoesOn, After, TypeOK, batch
<1>11. CASE Accept
  BY <1>11 DEF Accept, TypeOK, batch
<1>12. CASE Killed
  BY <1>12 DEF Killed, TypeOK, batch, NoHandler
<1>13. CASE UNCHANGED vars
  BY <1>13 DEF vars, TypeOK, batch
<1>14. QED
  BY <1>1, <1>2, <1>3, <1>4, <1>5, <1>6, <1>7, <1>8, <1>9, <1>10, <1>11, <1>12,
     <1>13 DEF Next, Works

\* Every variable keeps its type: the loop never leaves the batch it is in.
THEOREM TypeCorrect == Spec => []TypeOK
<1>1. Init => TypeOK
  BY InitTypeOK
<1>2. TypeOK /\ [Next]_vars => TypeOK'
  BY TypeStep
<1>3. QED BY <1>1, <1>2, PTL DEF Spec

-----------------------------------------------------------------------------
(* The invariant is inductive                                              *)

LEMMA InitIndInv == Init => IndInv
  BY DEF Init, IndInv, MailOnce, Untried, Waiting, DueIsLeft, Budget, Batches, Sending

\* A batch begins: everybody on the list is due, at the first of their
\* addresses.
LEMMA BeginStep ==
    ASSUME TypeOK, IndInv, SendNotifyEmail
    PROVE  IndInv'
<1> USE DEF SendNotifyEmail
<1>1. batch \in Seq(Addresses) /\ batch' = batch
  BY DEF TypeOK, batch
<1>2. /\ left' = unique_email_addresses(batch)
      /\ left' \subseteq DOMAIN batch
      /\ IsFiniteSet(left')
  BY <1>1, UniqueAddresses
<1>3. unique_email_addresses(batch') = unique_email_addresses(batch)
  BY <1>1
<1>4. MailOnce'
  BY DEF MailOnce
<1>5. Untried'
  <2>1. ASSUME NEW i \in left'
        PROVE  /\ Key[batch[i]] \in Recipients
               /\ verdict'[Key[batch[i]]] = "due"
               /\ inbox'[Key[batch[i]]] = 0
    BY <1>1, <1>2, NotifyAssumption
  <2>2. QED BY <1>1, <1>2, <1>3, <2>1 DEF Untried, Sending
<1>6. DueIsLeft'
  <2>1. ASSUME NEW k \in Recipients, verdict'[k] = "due"
        PROVE  \E j \in left' : Key[batch'[j]] = k
    <3>1. PICK i \in DOMAIN batch : Key[batch[i]] = k
      BY <2>1
    <3>2. QED BY <1>1, <1>2, <3>1, FirstOfMailbox
  <2>2. QED BY <2>1 DEF DueIsLeft
<1>7. Budget'
  <2>1. Cardinality(left') \in Nat
    BY <1>2, FS_CardinalityType
  <2>2. QED BY <1>2, <1>3, <2>1, NotifyAssumption DEF Budget, Sending
<1>8. Waiting' /\ Batches'
  BY DEF Waiting, Batches, IndInv
<1>9. QED BY <1>4, <1>5, <1>6, <1>7, <1>8 DEF IndInv

\* A request goes out, for a mailbox that has received nothing.
LEMMA RequestStep ==
    ASSUME TypeOK, IndInv, SendRequest
    PROVE  IndInv'
<1>1. PICK i \in left : Next_address(i) /\ flight' = flight \cup {Key[batch[i]]}
  BY DEF SendRequest
<1> DEFINE k == Key[batch[i]]
<1>2. /\ pc = "send" /\ pc' = "wait" /\ tries' = tries + 1
      /\ UNCHANGED <<todo, left, retries_remaining, verdict, inbox>>
      /\ batch' = batch
  BY DEF SendRequest, batch
<1>3. k \in Recipients /\ verdict[k] = "due" /\ inbox[k] = 0 /\ k \notin flight
  BY <1>2, NotifyAssumption DEF TypeOK, batch, IndInv, Untried, Sending
<1>4. MailOnce'
  BY <1>1, <1>2, <1>3 DEF IndInv, MailOnce
<1>5. Untried'
  <2>1. ASSUME NEW j \in left
        PROVE  \/ inbox[Key[batch[j]]] = 0 /\ Key[batch[j]] \notin flight'
               \/ Next_address(j)
    <3>1. /\ i \in unique_email_addresses(batch)
          /\ j \in unique_email_addresses(batch)
          /\ inbox[Key[batch[j]]] = 0 /\ Key[batch[j]] \notin flight
      BY <1>2 DEF IndInv, Untried, Sending
    <3>2. CASE Key[batch[j]] = k
      <4>1. batch \in Seq(Addresses)
        BY <1>2 DEF TypeOK, batch
      <4>2. j = i
        BY <3>1, <3>2, <4>1, UniqueAddresses
      <4>3. QED BY <1>1, <4>2
    <3>3. CASE Key[batch[j]] # k
      BY <1>1, <3>1, <3>3
    <3>4. QED BY <3>2, <3>3
  <2>2. QED BY <1>2, <2>1 DEF IndInv, Untried, Sending, Next_address, unique_email_addresses
<1>6. Waiting'
  <2>1. ASSUME NEW j \in left, Next_address(j) PROVE Key[batch[j]] \in flight'
    <3>1. i \in Nat /\ j \in Nat
      BY DEF TypeOK
    <3>2. i = j
      BY <1>1, <2>1, <3>1 DEF Next_address
    <3>3. QED BY <1>1, <3>2
  <2>2. QED BY <1>2, <2>1 DEF Waiting, Next_address
<1>7. DueIsLeft' /\ Batches'
  BY <1>2 DEF IndInv, DueIsLeft, Batches, Sending
<1>8. Budget'
  <2>1. /\ Cardinality(left) \in Nat
        /\ tries \in Nat /\ retries_remaining \in Nat
    BY <1>2, FS_CardinalityType, NotifyAssumption DEF IndInv, Budget, Sending, TypeOK
  <2>2. batch \in Seq(Addresses)
    BY <1>2 DEF TypeOK, batch
  <2>3. Cardinality(unique_email_addresses(batch)) \in Nat
    BY <2>2, UniqueAddresses, FS_CardinalityType
  <2>4. tries + Cardinality(left) + retries_remaining
        = Cardinality(unique_email_addresses(batch)) + MaxRetries
    BY <1>2 DEF IndInv, Budget
  <2>5. unique_email_addresses(batch') = unique_email_addresses(batch)
    BY <1>2
  <2>6. QED BY <1>2, <2>1, <2>3, <2>4, <2>5, NotifyAssumption DEF IndInv, Budget, Sending
<1>9. QED BY <1>4, <1>5, <1>6, <1>7, <1>8 DEF IndInv

\* While an answer is waited for there is one request out, for the first of
\* the positions that are left.
LEMMA TheOneWaited ==
    ASSUME TypeOK, IndInv, pc = "wait", NEW i \in left, Next_address(i)
    PROVE  /\ Key[batch[i]] \in Recipients
           /\ verdict[Key[batch[i]]] = "due"
           /\ i \in unique_email_addresses(batch)
           /\ batch \in Seq(Addresses)
           /\ \A j \in left \ {i} :
                 /\ j \in unique_email_addresses(batch)
                 /\ Key[batch[j]] # Key[batch[i]]
                 /\ verdict[Key[batch[j]]] = "due"
                 /\ inbox[Key[batch[j]]] = 0
                 /\ Key[batch[j]] \notin flight
<1>1. batch \in Seq(Addresses)
  BY DEF TypeOK, batch
<1>2. Key[batch[i]] \in Recipients
  BY <1>1, NotifyAssumption DEF TypeOK
<1>3. /\ verdict[Key[batch[i]]] = "due"
      /\ i \in unique_email_addresses(batch)
  BY DEF IndInv, Untried, Sending
<1>4. ASSUME NEW j \in left \ {i}
      PROVE  /\ j \in unique_email_addresses(batch)
             /\ Key[batch[j]] # Key[batch[i]]
             /\ verdict[Key[batch[j]]] = "due"
             /\ inbox[Key[batch[j]]] = 0
             /\ Key[batch[j]] \notin flight
  <2>1. /\ j \in unique_email_addresses(batch)
        /\ verdict[Key[batch[j]]] = "due"
        /\ \/ inbox[Key[batch[j]]] = 0 /\ Key[batch[j]] \notin flight
           \/ Next_address(j)
    BY DEF IndInv, Untried, Sending
  <2>2. ~Next_address(j)
    <3>1. i \in Nat /\ j \in Nat
      BY DEF TypeOK
    <3>2. QED BY <1>4, <3>1 DEF Next_address
  <2>3. Key[batch[j]] # Key[batch[i]]
    BY <1>1, <1>3, <1>4, <2>1, UniqueAddresses
  <2>4. QED BY <2>1, <2>2, <2>3
<1>5. QED BY <1>1, <1>2, <1>3, <1>4

\* The numbers of the budget are numbers.
LEMMA Numbers ==
    ASSUME TypeOK, IndInv, Sending
    PROVE  /\ Cardinality(left) \in Nat
           /\ Cardinality(unique_email_addresses(batch)) \in Nat
           /\ tries \in Nat /\ retries_remaining \in Nat /\ MaxRetries \in Nat
<1>1. batch \in Seq(Addresses)
  BY DEF TypeOK, batch, Sending
<1>2. Cardinality(unique_email_addresses(batch)) \in Nat
  BY <1>1, UniqueAddresses, FS_CardinalityType
<1>3. Cardinality(left) \in Nat
  BY FS_CardinalityType DEF IndInv, Budget
<1>4. QED BY <1>2, <1>3, NotifyAssumption DEF TypeOK

\* Only a request that Notify refused is made again.
LEMMA RetryStep ==
    ASSUME TypeOK, IndInv, Retry
    PROVE  IndInv'
<1>1. PICK i \in left, a \in Answers :
         /\ Next_address(i)
         /\ Possible(a, Key[batch[i]])
         /\ is_retryable(a)
         /\ flight' = Withdrawn(a, Key[batch[i]])
  BY DEF Retry
<1> DEFINE k == Key[batch[i]]
<1>2. /\ pc = "wait" /\ pc' = "send" /\ retries_remaining > 0
      /\ retries_remaining' = retries_remaining - 1
      /\ UNCHANGED <<todo, left, verdict, inbox, tries>>
      /\ batch' = batch
      /\ unique_email_addresses(batch') = unique_email_addresses(batch)
  BY DEF Retry, batch
<1>3. k \in flight /\ flight' = flight \ {k}
  BY <1>1 DEF is_retryable, Possible, Withdrawn, Accepted, Refusals, Ambiguous
<1>4. k \in Recipients /\ inbox[k] = 0
  BY <1>1, <1>2, <1>3, TheOneWaited DEF IndInv, MailOnce
<1>5. MailOnce'
  BY <1>2, <1>3 DEF IndInv, MailOnce
<1>6. Untried'
  <2>1. ASSUME NEW j \in left
        PROVE  /\ j \in unique_email_addresses(batch)
               /\ verdict[Key[batch[j]]] = "due"
               /\ inbox[Key[batch[j]]] = 0
               /\ Key[batch[j]] \notin flight'
    BY <1>1, <1>2, <1>3, <1>4, TheOneWaited
  <2>2. QED BY <1>2, <2>1 DEF Untried
<1>7. Waiting' /\ DueIsLeft' /\ Batches'
  BY <1>2 DEF IndInv, Waiting, DueIsLeft, Batches, Sending
<1>8. Budget'
  <2>1. tries + Cardinality(left) + retries_remaining
        = Cardinality(unique_email_addresses(batch)) + MaxRetries + 1
    BY <1>2 DEF IndInv, Budget
  <2>2. tries + Cardinality(left) + (retries_remaining - 1)
        = Cardinality(unique_email_addresses(batch)) + MaxRetries
    BY <1>2, <2>1, Numbers DEF Sending
  <2>3. QED BY <1>2, <2>2 DEF IndInv, Budget, Sending
<1>9. QED BY <1>5, <1>6, <1>7, <1>8 DEF IndInv

\* A recipient is settled: what came back decides how, and the rest of the
\* batch is as it was.
LEMMA SettleStep ==
    ASSUME TypeOK, IndInv, Settle
    PROVE  IndInv'
<1>1. PICK i \in left, a \in Answers :
         /\ Next_address(i)
         /\ Possible(a, Key[batch[i]])
         /\ verdict' = [verdict EXCEPT ![Key[batch[i]]] = classify(a)]
         /\ flight' = Withdrawn(a, Key[batch[i]])
         /\ left' = left \ {i}
  BY DEF Settle
<1> DEFINE k == Key[batch[i]]
<1>2. /\ pc = "wait" /\ pc' = "send"
      /\ UNCHANGED <<todo, retries_remaining, inbox, tries>>
      /\ batch' = batch
      /\ unique_email_addresses(batch') = unique_email_addresses(batch)
  BY DEF Settle, batch
<1>3. /\ k \in Recipients /\ verdict[k] = "due"
      /\ verdict'[k] = classify(a)
      /\ \A x \in Recipients \ {k} : verdict'[x] = verdict[x]
      /\ flight' \subseteq flight
  BY <1>1, <1>2, TheOneWaited DEF TypeOK, Withdrawn
<1>4. MailOnce'
  <2>1. CASE a \in Accepted
    <3>1. k \notin flight /\ classify(a) \in {"accepted", "unanswered"}
      BY <1>1, <2>1 DEF Possible, classify, Accepted, Refusals, Ambiguous
    <3>2. inbox[k] = 1
      BY <1>1, <1>2, <3>1 DEF IndInv, Waiting
    <3>3. QED BY <1>2, <1>3, <3>1, <3>2 DEF IndInv, MailOnce
  <2>2. CASE a \notin Accepted
    <3>1. classify(a) = "failed"
      BY <2>2 DEF classify, Accepted
    <3>2. QED BY <1>2, <1>3, <3>1 DEF IndInv, MailOnce
  <2>3. QED BY <2>1, <2>2
<1>5. Untried'
  <2>1. ASSUME NEW j \in left'
        PROVE  /\ j \in unique_email_addresses(batch)
               /\ verdict'[Key[batch[j]]] = "due"
               /\ inbox[Key[batch[j]]] = 0
               /\ Key[batch[j]] \notin flight'
    <3>1. j \in left \ {i}
      BY <1>1
    <3>2. Key[batch[j]] \in Recipients
      BY <1>2, <3>1, NotifyAssumption DEF TypeOK, batch
    <3>3. QED BY <1>1, <1>2, <1>3, <3>1, <3>2, TheOneWaited
  <2>2. QED BY <1>2, <2>1 DEF Untried
<1>6. DueIsLeft'
  <2>1. classify(a) # "due"
    BY DEF classify
  <2>2. ASSUME NEW x \in Recipients, verdict'[x] = "due"
        PROVE  \E j \in left' : Key[batch[j]] = x
    <3>1. x # k /\ verdict[x] = "due"
      BY <1>3, <2>1, <2>2
    <3>2. PICK j \in left : Key[batch[j]] = x
      BY <1>2, <3>1 DEF IndInv, DueIsLeft, Sending
    <3>3. j # i
      BY <3>1, <3>2
    <3>4. QED BY <1>1, <3>2, <3>3
  <2>3. QED BY <1>2, <2>2 DEF DueIsLeft
<1>7. Waiting' /\ Batches'
  BY <1>2 DEF IndInv, Waiting, Batches
<1>8. Budget'
  <2>1. tries + Cardinality(left) + retries_remaining
        = Cardinality(unique_email_addresses(batch)) + MaxRetries + 1
    BY <1>2 DEF IndInv, Budget
  <2>2. /\ IsFiniteSet(left')
        /\ Cardinality(left') = Cardinality(left) - 1
    BY <1>1, <1>2, FS_RemoveElement DEF IndInv, Budget, Sending
  <2>3. tries + Cardinality(left') + retries_remaining
        = Cardinality(unique_email_addresses(batch)) + MaxRetries
    BY <1>2, <2>1, <2>2, Numbers DEF Sending
  <2>4. QED BY <1>2, <2>2, <2>3 DEF IndInv, Budget, Sending
<1>9. QED BY <1>4, <1>5, <1>6, <1>7, <1>8 DEF IndInv

LEMMA TellStep ==
    ASSUME TypeOK, IndInv, Tell
    PROVE  IndInv'
<1>1. /\ pc = "send" /\ pc' = "tell"
      /\ UNCHANGED <<todo, left, retries_remaining, verdict, inbox, flight, tries>>
      /\ batch' = batch
      /\ unique_email_addresses(batch') = unique_email_addresses(batch)
  BY DEF Tell, batch
<1>2. tries + Cardinality(left) + retries_remaining
      = Cardinality(unique_email_addresses(batch)) + MaxRetries
  BY <1>1 DEF IndInv, Budget
<1>3. tries <= Cardinality(unique_email_addresses(batch)) + MaxRetries
  BY <1>1, <1>2, Numbers DEF Sending
<1>4. QED BY <1>1, <1>3 DEF IndInv, MailOnce, Untried, Waiting, DueIsLeft, Budget,
                           Batches, Sending

\* Notify delivers what it has, once.
LEMMA AcceptStep ==
    ASSUME TypeOK, IndInv, Accept
    PROVE  IndInv'
<1>1. PICK k \in flight \ {Blank} :
         /\ inbox' = [inbox EXCEPT ![k] = @ + 1]
         /\ flight' = flight \ {k}
  BY DEF Accept
<1>2. /\ UNCHANGED <<pc, todo, left, retries_remaining, verdict, tries>>
      /\ batch' = batch
      /\ unique_email_addresses(batch') = unique_email_addresses(batch)
  BY DEF Accept, batch
<1>3. /\ k \in Recipients /\ inbox[k] = 0 /\ inbox'[k] = 1
      /\ \A x \in Recipients \ {k} : inbox'[x] = inbox[x]
      /\ verdict[k] \in {"due", "failed"}
  BY <1>1 DEF TypeOK, IndInv, MailOnce
<1>4. MailOnce'
  BY <1>1, <1>2, <1>3 DEF IndInv, MailOnce
<1>5. Untried'
  <2>1. ASSUME Sending, NEW j \in left
        PROVE  /\ j \in unique_email_addresses(batch)
               /\ verdict[Key[batch[j]]] = "due"
               /\ \/ inbox'[Key[batch[j]]] = 0 /\ Key[batch[j]] \notin flight'
                  \/ pc = "wait" /\ Next_address(j)
    <3>1. /\ j \in unique_email_addresses(batch)
          /\ verdict[Key[batch[j]]] = "due"
          /\ \/ inbox[Key[batch[j]]] = 0 /\ Key[batch[j]] \notin flight
             \/ pc = "wait" /\ Next_address(j)
      BY <2>1 DEF IndInv, Untried
    <3>2. Key[batch[j]] \in Recipients
      BY <2>1, NotifyAssumption DEF TypeOK, batch, Sending
    <3>3. QED BY <1>1, <1>3, <3>1, <3>2
  <2>2. QED BY <1>2, <2>1 DEF Untried, Sending, Next_address
<1>6. Waiting'
  BY <1>1, <1>2, <1>3 DEF IndInv, Waiting, Next_address
<1>7. DueIsLeft' /\ Budget' /\ Batches'
  BY <1>2 DEF IndInv, DueIsLeft, Budget, Batches, Sending
<1>8. QED BY <1>4, <1>5, <1>6, <1>7 DEF IndInv

\* Outside the loop only the batches change, and none of them is empty.
LEMMA OutsideStep ==
    ASSUME TypeOK, IndInv, pc' \notin {"send", "wait", "tell"}, Batches',
           UNCHANGED <<inbox, flight, verdict>>
    PROVE  IndInv'
  BY DEF IndInv, MailOnce, Untried, Waiting, DueIsLeft, Budget, Sending

LEMMA IndStep == TypeOK /\ IndInv /\ [Next]_vars => IndInv'
<1> SUFFICES ASSUME TypeOK, IndInv, [Next]_vars PROVE IndInv'
  OBVIOUS
<1>1. CASE Requested
  <2>1. PICK h \in Handlers, first \in {"save", "next"}, batches \in Seq(Seq(Addresses)) :
           /\ Start(h, first, batches)
           /\ \A n \in DOMAIN batches : batches[n] # <<>>
    BY <1>1, RequestedStarts
  <2>2. Batches'
    BY <2>1 DEF Start, Batches
  <2>3. QED BY <2>1, <2>2, OutsideStep DEF Start
<1>2. CASE Save
  <2>1. Batches'
    BY <1>2 DEF Save, IndInv, Batches
  <2>2. QED BY <1>2, <2>1, OutsideStep DEF Save
<1>3. CASE NoMore
  <2>1. Batches'
    BY <1>3 DEF NoMore, IndInv, Batches
  <2>2. QED BY <1>3, <2>1, OutsideStep DEF NoMore, Finished
<1>4. CASE NotStarted \/ CallerGoesOn
  <2>1. /\ todo # <<>> /\ todo' = Tail(todo)
        /\ pc' \in {"idle", "next"}
        /\ UNCHANGED <<inbox, flight, verdict>>
    BY <1>4 DEF NotStarted, CallerGoesOn, After, TypeOK
  <2>2. Batches'
    BY <2>1 DEF TypeOK, IndInv, Batches
  <2>3. QED BY <2>1, <2>2, OutsideStep
<1>5. CASE Killed
  <2>1. Batches'
    BY <1>5 DEF Killed, Batches
  <2>2. QED BY <1>5, <2>1, OutsideStep DEF Killed
<1>6. CASE UNCHANGED vars
  BY <1>6 DEF vars, IndInv, MailOnce, Untried, Waiting, DueIsLeft, Budget, Batches,
              Sending, Next_address, batch, unique_email_addresses
<1>7. QED
  BY <1>1, <1>2, <1>3, <1>4, <1>5, <1>6, BeginStep, RequestStep, RetryStep,
     SettleStep, TellStep, AcceptStep DEF Next, Works

THEOREM Invariant == Spec => []IInv
<1>1. Init => TypeOK /\ IndInv
  BY InitTypeOK, InitIndInv
<1>2. TypeOK /\ IndInv /\ [Next]_vars => (TypeOK /\ IndInv)'
  BY TypeStep, IndStep
<1>3. TypeOK /\ IndInv => IInv
  BY DEF IInv, IndInv
<1>4. QED BY <1>1, <1>2, <1>3, PTL DEF Spec

\* Nobody gets the e-mail of a batch twice.
THEOREM MailedOnce == Spec => []AtMostOnce
<1>1. IInv => AtMostOnce
  BY DEF IInv, MailOnce, AtMostOnce
<1>2. QED BY <1>1, Invariant, PTL

\* A service that is down costs at most MaxRetries requests more than there
\* are recipients.
THEOREM BudgetOfTheBatch == Spec => []RetriesAreShared
<1>1. ASSUME IInv PROVE RetriesAreShared
  <2>1. TypeOK /\ IndInv /\ Budget
    BY <1>1 DEF IInv, IndInv
  <2>2. CASE Sending
    <3>1. pc = "wait" => Cardinality(left) # 0
      BY <2>1, <2>2, FS_EmptySet DEF IndInv, Waiting, Budget
    <3>2. QED BY <2>1, <2>2, <3>1, Numbers DEF RetriesAreShared, Budget, Sending
  <2>3. CASE ~Sending
    BY <2>1, <2>3 DEF RetriesAreShared, Budget, Sending
  <2>4. QED BY <2>2, <2>3
<1>2. QED BY <1>1, Invariant, PTL

-----------------------------------------------------------------------------
(* A batch does what Delivery says                                         *)

LEMMA BeginsABatch ==
    ASSUME TypeOK, IndInv, SendNotifyEmail
    PROVE  Promise!Begin
<1> DEFINE R == {k \in Recipients : \E i \in DOMAIN batch : Key[batch[i]] = k}
<1>1. batch \in Seq(Addresses) /\ batch # <<>>
  BY DEF SendNotifyEmail, TypeOK, IndInv, Batches, batch
<1>2. R # {}
  <2>1. 1 \in DOMAIN batch /\ Key[batch[1]] \in Recipients
    BY <1>1, NotifyAssumption
  <2>2. QED BY <2>1
<1>3. verdict' = [k \in Recipients |-> IF k \in R THEN "due" ELSE "none"]
  BY DEF SendNotifyEmail
<1>4. R \in (SUBSET Recipients) \ {{}}
  <2>1. R \subseteq Recipients
    OBVIOUS
  <2> HIDE DEF R
  <2>2. QED BY <1>2, <2>1
<1> HIDE DEF R
<1>5. QED BY <1>3, <1>4 DEF SendNotifyEmail, Promise!Begin, Promise!NoReport, Phase

LEMMA SettlesOne ==
    ASSUME TypeOK, IndInv, Settle
    PROVE  \E k \in Recipients : Promise!Settle(k)
<1>1. PICK i \in left, a \in Answers :
         /\ Next_address(i)
         /\ Possible(a, Key[batch[i]])
         /\ verdict' = [verdict EXCEPT ![Key[batch[i]]] = classify(a)]
  BY DEF Settle
<1> DEFINE k == Key[batch[i]]
<1>2. pc = "wait" /\ pc' = "send" /\ UNCHANGED <<inbox, report>>
  BY DEF Settle
<1>3. k \in Recipients /\ verdict[k] = "due"
  BY <1>1, <1>2, TheOneWaited
<1>4. CASE a \in Accepted
  <2>1. classify(a) \in {"accepted", "unanswered"} /\ k \notin flight
    BY <1>1, <1>4 DEF classify, Possible, Accepted, Refusals, Ambiguous
  <2>2. inbox[k] = 1
    BY <1>1, <1>2, <2>1 DEF IndInv, Waiting
  <2>3. Promise!Settle(k)
    BY <1>1, <1>2, <1>3, <2>1, <2>2 DEF Promise!Settle, Phase
  <2>4. QED BY <1>3, <2>3
<1>5. CASE a \notin Accepted
  <2>1. classify(a) = "failed"
    BY <1>5 DEF classify, Accepted
  <2>2. Promise!Settle(k)
    BY <1>1, <1>2, <1>3, <2>1 DEF Promise!Settle, Phase
  <2>3. QED BY <1>3, <2>2
<1>6. QED BY <1>4, <1>5

\* Every step of the sender is a step of a delivery, or none.
LEMMA DeliveryStep ==
    ASSUME TypeOK, IndInv, [Next]_vars
    PROVE  [Promise!Next]_(Promise!vars)
<1> DEFINE same == UNCHANGED <<verdict, inbox, report>>
<1>1. ASSUME same, Phase' = Phase PROVE [Promise!Next]_(Promise!vars)
  BY <1>1 DEF Promise!vars
<1>2. CASE Requested
  <2>1. PICK h \in Handlers, first \in {"save", "next"}, batches \in Seq(Seq(Addresses)) :
           Start(h, first, batches)
    BY <1>2, RequestedStarts
  <2>2. QED BY <2>1, <1>1 DEF Start, Phase
<1>3. CASE Save \/ NoMore \/ NotStarted
  <2>1. pc \in {"save", "next"} /\ pc' \in {"idle", "next", "save"} /\ same
    BY <1>3 DEF Save, NoMore, Finished, NotStarted, After
  <2>2. QED BY <2>1, <1>1 DEF Phase
<1>4. CASE SendNotifyEmail
  BY <1>4, BeginsABatch DEF Promise!Next
<1>5. CASE SendRequest \/ Retry
  <2>1. pc \in {"send", "wait"} /\ pc' \in {"send", "wait"} /\ same
    BY <1>5 DEF SendRequest, Retry
  <2>2. QED BY <2>1, <1>1 DEF Phase
<1>6. CASE Settle
  BY <1>6, SettlesOne DEF Promise!Next
<1>7. CASE Tell
  <2>1. Promise!With("due") = {}
    BY <1>7 DEF Tell, IndInv, DueIsLeft, Sending, Promise!With
  <2>2. \A v : Promise!With(v) = With(v)
    BY DEF With, Promise!With
  <2>3. report' = [accepted   |-> Promise!Cardinality(Promise!With("accepted")),
                   unanswered |-> Promise!Cardinality(Promise!With("unanswered")),
                   failed     |-> Promise!Cardinality(Promise!With("failed"))]
    <3>1. \A S : Promise!Cardinality(S) = Cardinality(S)
      BY DEF Promise!Cardinality, Cardinality
    <3>2. QED BY <1>7, <2>2, <3>1 DEF Tell
  <2>4. pc = "send" /\ pc' = "tell" /\ UNCHANGED <<verdict, inbox>>
    BY <1>7 DEF Tell
  <2>5. Promise!Tell
    BY <2>1, <2>3, <2>4 DEF Promise!Tell, Phase
  <2>6. QED BY <2>5 DEF Promise!Next
<1>8. CASE CallerGoesOn
  <2>1. pc = "tell" /\ pc' \in {"idle", "next"} /\ same
    BY <1>8 DEF CallerGoesOn, After
  <2>2. Promise!Forget
    BY <2>1 DEF Promise!Forget, Phase
  <2>3. QED BY <2>2 DEF Promise!Next
<1>9. CASE Accept
  <2>1. PICK k \in flight \ {Blank} : inbox' = [inbox EXCEPT ![k] = @ + 1]
    BY <1>9 DEF Accept
  <2>2. k \in Recipients /\ inbox[k] = 0 /\ verdict[k] \in {"due", "failed"}
    BY DEF TypeOK, IndInv, MailOnce
  <2>3. Promise!Deliver(k)
    <3>1. inbox' = [inbox EXCEPT ![k] = 1]
      BY <2>1, <2>2
    <3>2. UNCHANGED <<pc, verdict, report>>
      BY <1>9 DEF Accept
    <3>3. UNCHANGED Phase
      BY <3>2 DEF Phase
    <3>4. QED BY <2>2, <3>1, <3>2, <3>3 DEF Promise!Deliver
  <2>4. QED BY <2>2, <2>3 DEF Promise!Next
<1>10. CASE Killed
  <2>1. pc' = "idle" /\ same
    BY <1>10 DEF Killed
  <2>2. \/ Promise!Abandon \/ Promise!Forget \/ Phase' = Phase
    BY <2>1 DEF Promise!Abandon, Promise!Forget, Phase
  <2>3. QED BY <2>1, <2>2, <1>1 DEF Promise!Next
<1>11. CASE UNCHANGED vars
  BY <1>11, <1>1 DEF vars, Phase
<1>12. QED
  BY <1>2, <1>3, <1>4, <1>5, <1>6, <1>7, <1>8, <1>9, <1>10, <1>11 DEF Next, Works

\* send_notify_email keeps the promise of Delivery: every recipient is dealt
\* with before the caller is told, nobody is mailed twice, and the counts
\* are those of what happened.
THEOREM KeepsThePromise == Spec => DeliverySpec
<1>1. Init => Promise!Init
  BY DEF Init, Promise!Init, Promise!NoReport, Phase
<1>2. IInv /\ [Next]_vars => [Promise!Next]_(Promise!vars)
  BY DeliveryStep DEF IInv, IndInv
<1>3. QED BY <1>1, <1>2, Invariant, PTL DEF Spec, DeliverySpec, Promise!Spec
-----------------------------------------------------------------------------
(* A handler comes to its end, and what it had to save is settled by then  *)

\* What the save of a handler has come to.
Recorded ==
    /\ handler = Submission /\ pc # "save" => saved # "no"
    /\ handler \in Decisions /\ pc = "idle" => saved # "no"

LEMMA RequestedSaves ==
    ASSUME Requested
    PROVE  /\ pc = "idle" /\ pc' # "idle"
           /\ handler' = Submission => pc' = "save"
<1>1. Submission \notin Decisions \cup {"send_mail", "send_test_notification"}
  BY DEF Submission, Decisions
<1>2. CASE SectionConfirmationView
  BY <1>2 DEF SectionConfirmationView, Start
<1>3. CASE Decide \/ SendToOne
  BY <1>1, <1>3 DEF Decide, SendToOne, Start
<1>4. QED BY <1>2, <1>3 DEF Requested

LEMMA RecordedStep ==
    ASSUME Recorded, [Next]_vars
    PROVE  Recorded'
<1> USE DEF Recorded
<1>1. Submission # "send_test_notification" /\ "send_test_notification" \notin Decisions
      /\ NoHandler \notin Decisions \cup {Submission}
  BY DEF Submission, Decisions, NoHandler
<1>2. CASE Requested
  BY <1>2, RequestedSaves
<1>3. CASE Save
  BY <1>3 DEF Save
<1>4. CASE NoMore
  BY <1>4 DEF NoMore, Finished
<1>5. CASE NotStarted \/ CallerGoesOn
  BY <1>1, <1>5 DEF NotStarted, CallerGoesOn, After
<1>6. CASE SendNotifyEmail \/ SendRequest \/ Retry \/ Settle \/ Tell
  BY <1>6 DEF SendNotifyEmail, SendRequest, Retry, Settle, Tell
<1>7. CASE Accept \/ UNCHANGED vars
  BY <1>7 DEF Accept, vars
<1>8. CASE Killed
  BY <1>1, <1>8 DEF Killed
<1>9. QED BY <1>2, <1>3, <1>4, <1>5, <1>6, <1>7, <1>8 DEF Next, Works

\* No trouble with an e-mail keeps a submission or a decision from being
\* recorded: when its handler is over, it was saved or its save was refused,
\* unless the worker was killed.
THEOREM OverMeansRecorded ==
    Spec => [](pc = "idle" /\ handler \in Decisions \cup {Submission} => saved # "no")
<1>1. Init => Recorded
  BY DEF Init, Recorded, NoHandler, Submission, Decisions
<1>2. Recorded /\ [Next]_vars => Recorded'
  BY RecordedStep
<1>3. Recorded => (pc = "idle" /\ handler \in Decisions \cup {Submission} => saved # "no")
  BY DEF Recorded
<1>4. QED BY <1>1, <1>2, <1>3, PTL DEF Spec

\* Where the code is, there is something for it to do: of the addresses that
\* are left one is next, and a request may at any time come to nothing.
GoesOn ==
    \/ pc \in {"save", "next", "tell"}
    \/ pc = "send" /\ left = {}
    \/ pc = "send" /\ \E i \in left : Next_address(i)
    \/ /\ pc = "wait"
       /\ \E i \in left : Next_address(i) /\ \E a \in Answers :
             /\ Possible(a, Key[batch[i]])
             /\ ~(is_retryable(a) /\ retries_remaining > 0)

\* send_notify_email never waits for something that cannot come: in every
\* state of a handler that runs, the guard of one of its own steps holds.
THEOREM NeverStuck == Spec => [](pc # "idle" => GoesOn)
<1>1. ASSUME IInv, left # {} PROVE \E i \in left : Next_address(i)
  <2>1. left \in SUBSET Nat
    BY <1>1 DEF IInv, TypeOK
  <2>2. PICK i \in left : \A j \in left : ~(<<j, i>> \in OpToRel(<, Nat))
    BY <1>1, <2>1, WFMin, NatLessThanWellFounded
  <2>3. ASSUME NEW j \in left PROVE i <= j
    <3>1. i \in Nat /\ j \in Nat /\ ~(j < i)
      BY <2>1, <2>2 DEF OpToRel
    <3>2. QED BY <3>1
  <2>4. QED BY <2>3 DEF Next_address
<1>2. \A k : \E a \in Answers : Possible(a, k) /\ ~is_retryable(a)
  <2>1. "no_answer" \in Answers /\ ~is_retryable("no_answer")
    BY DEF Answers, Ambiguous, is_retryable
  <2>2. \A k : Possible("no_answer", k)
    BY DEF Possible, Ambiguous
  <2>3. QED BY <2>1, <2>2
<1>3. ASSUME IInv, pc # "idle" PROVE GoesOn
  <2>1. pc = "wait" => left # {}
    BY <1>3 DEF IInv, Waiting
  <2>2. pc \in {"save", "next", "send", "wait", "tell"}
    BY <1>3 DEF IInv, TypeOK
  <2>3. QED BY <1>1, <1>2, <1>3, <2>1, <2>2 DEF GoesOn
<1>4. QED BY <1>3, Invariant, PTL

\* How much of a batch there is to do, in requests, answers and steps around
\* them; a retry takes from the budget and an answer from what is left.
Longest == 2 * (Cardinality(unique_email_addresses(batch)) + MaxRetries)
Shortest == 2 * (Cardinality(left) + retries_remaining)

Toil ==
    CASE pc = "save" -> IF todo = <<>> THEN 1 ELSE Longest + 4
      [] pc = "next" -> IF todo = <<>> THEN 2 ELSE Longest + 3
      [] pc = "send" -> Shortest + 2
      [] pc = "wait" -> Shortest + 1
      [] OTHER -> 0

Less == OpToRel(<, Nat)

\* First the batches are compared, then what there is to do.
Fewer == LexPairOrdering(Less, Less, Nat, Nat)
Measure == <<Len(todo), Toil>>

LEMMA FewerIs ==
    ASSUME NEW a \in Nat, NEW b \in Nat, NEW c \in Nat, NEW d \in Nat,
           a < c \/ (a = c /\ b < d)
    PROVE  <<<<a, b>>, <<c, d>>>> \in Fewer
  BY DEF Fewer, LexPairOrdering, Less, OpToRel

\* A list that grows shorter without end does not exist.
LEMMA FewerEnds == IsWellFoundedOn(Fewer, Nat \X Nat)
  BY NatLessThanWellFounded, WFLexPairOrdering DEF Fewer, Less

Counted ==
    /\ Len(todo) \in Nat /\ Toil \in Nat
    /\ todo # <<>> => Longest \in Nat /\ Len(todo) > 0
    /\ pc \in {"send", "wait"} => Shortest \in Nat /\ Cardinality(left) \in Nat

LEMMA ToilIsFinite ==
    ASSUME IInv
    PROVE  Counted
<1>1. todo \in Seq(Seq(Addresses)) /\ Len(todo) \in Nat /\ MaxRetries \in Nat
      /\ retries_remaining \in Nat
  BY NotifyAssumption DEF IInv, TypeOK
<1>2. ASSUME todo # <<>> PROVE Longest \in Nat /\ Len(todo) > 0
  <2>1. batch \in Seq(Addresses)
    BY <1>1, <1>2 DEF batch
  <2>2. Cardinality(unique_email_addresses(batch)) \in Nat
    BY <2>1, UniqueAddresses, FS_CardinalityType
  <2>3. QED BY <1>1, <1>2, <2>2 DEF Longest
<1>3. ASSUME pc \in {"send", "wait"} PROVE Shortest \in Nat /\ Cardinality(left) \in Nat
  <2>1. Cardinality(left) \in Nat
    BY <1>3, FS_CardinalityType DEF IInv, Budget, Sending
  <2>2. QED BY <1>1, <2>1 DEF Shortest
<1>4. Toil \in Nat
  BY <1>2, <1>3 DEF Toil
<1>5. QED BY <1>1, <1>2, <1>3, <1>4 DEF Counted

LEMMA WorkIsDone ==
    ASSUME IInv, Counted', Works \/ Killed
    PROVE  <<Measure', Measure>> \in Fewer
<1>1. /\ Len(todo) \in Nat /\ Toil \in Nat
      /\ todo # <<>> => Longest \in Nat /\ Len(todo) > 0
      /\ pc \in {"send", "wait"} => Shortest \in Nat /\ Cardinality(left) \in Nat
  BY ToilIsFinite DEF Counted
<1>2. /\ Len(todo') \in Nat /\ Toil' \in Nat
      /\ todo' # <<>> => Longest' \in Nat
      /\ pc' \in {"send", "wait"} => Shortest' \in Nat /\ Cardinality(left') \in Nat
  BY DEF Counted
<1>3. todo \in Seq(Seq(Addresses)) /\ retries_remaining \in Nat /\ Len(<<>>) = 0
  BY NotifyAssumption DEF IInv, TypeOK
<1>4. ASSUME \/ Len(todo') < Len(todo)
             \/ Len(todo') = Len(todo) /\ Toil' < Toil
      PROVE  <<Measure', Measure>> \in Fewer
  BY <1>1, <1>2, <1>4, FewerIs DEF Measure
<1>5. UNCHANGED todo => Longest' = Longest
  BY DEF Longest, batch, unique_email_addresses
<1>6. CASE Save
  <2>1. CASE todo' = todo /\ pc' = (IF todo = <<>> THEN "idle" ELSE "next")
    <3>1. Toil' < Toil
      BY <1>1, <1>5, <1>6, <2>1 DEF Save, Toil
    <3>2. QED BY <1>4, <2>1, <3>1
  <2>2. CASE pc' = "idle" /\ todo' = <<>>
    <3>1. todo = <<>> => Toil' < Toil
      BY <1>6, <2>2 DEF Save, Toil
    <3>2. QED BY <1>1, <1>3, <1>4, <2>2, <3>1
  <2>3. QED BY <1>6, <2>1, <2>2 DEF Save
<1>7. CASE NoMore
  <2>1. Toil' < Toil /\ todo' = todo
    BY <1>7 DEF NoMore, Finished, Toil
  <2>2. QED BY <1>4, <2>1
<1>8. CASE SendNotifyEmail
  <2>1. /\ Toil = Longest + 3 /\ Toil' = Shortest' + 2 /\ todo' = todo /\ todo # <<>>
    BY <1>8 DEF SendNotifyEmail, Toil
  <2>2. Shortest' = Longest
    BY <1>8 DEF SendNotifyEmail, Shortest, Longest
  <2>3. QED BY <1>1, <1>4, <2>1, <2>2
<1>9. CASE NotStarted \/ CallerGoesOn
  <2>1. todo # <<>> /\ todo' = Tail(todo)
    BY <1>9 DEF NotStarted, CallerGoesOn, After, IInv, TypeOK
  <2>2. Len(todo') < Len(todo)
    BY <1>3, <2>1
  <2>3. QED BY <1>4, <2>2
<1>10. CASE SendRequest
  <2>1. /\ Toil = Shortest + 2 /\ Toil' = Shortest' + 1 /\ todo' = todo
        /\ Shortest' = Shortest /\ pc = "send"
    BY <1>10 DEF SendRequest, Toil, Shortest
  <2>2. QED BY <1>1, <1>4, <2>1
<1>11. CASE Retry
  <2>1. /\ Toil = Shortest + 1 /\ Toil' = Shortest' + 2 /\ todo' = todo /\ pc = "wait"
        /\ left' = left /\ retries_remaining' = retries_remaining - 1
    BY <1>11 DEF Retry, Toil
  <2>2. Shortest' = Shortest - 2
    BY <1>1, <1>3, <2>1 DEF Shortest
  <2>3. QED BY <1>1, <1>4, <2>1, <2>2
<1>12. CASE Settle
  <2>1. /\ Toil = Shortest + 1 /\ Toil' = Shortest' + 2 /\ todo' = todo /\ pc = "wait"
        /\ retries_remaining' = retries_remaining
    BY <1>12 DEF Settle, Toil
  <2>2. Cardinality(left') = Cardinality(left) - 1
    BY <1>12, <2>1, FS_RemoveElement DEF Settle, IInv, Budget, Sending
  <2>3. Shortest' = Shortest - 2
    BY <1>1, <1>3, <2>1, <2>2 DEF Shortest
  <2>4. QED BY <1>1, <1>4, <2>1, <2>3
<1>13. CASE Tell
  <2>1. /\ Toil = Shortest + 2 /\ Toil' = 0 /\ todo' = todo /\ pc = "send"
    BY <1>13 DEF Tell, Toil
  <2>2. QED BY <1>1, <1>4, <2>1
<1>14. CASE Killed
  <2>1. todo' = <<>> /\ Toil' = 0
    BY <1>14 DEF Killed, Toil
  <2>2. todo = <<>> => Toil \in {1, 2}
    BY <1>14 DEF Killed, Toil, IInv, TypeOK
  <2>3. QED BY <1>1, <1>3, <1>4, <2>1, <2>2
<1>15. QED
  BY <1>6, <1>7, <1>8, <1>9, <1>10, <1>11, <1>12, <1>13, <1>14 DEF Works

\* Retries, refusals and lost answers cannot keep a handler going for ever:
\* each of its steps leaves fewer batches, or less to do of the open one, in an
\* order in which nothing grows less without end, and what Notify delivers
\* meanwhile adds nothing to it.
THEOREM HandlersEnd ==
    /\ IsWellFoundedOn(Fewer, Nat \X Nat)
    /\ Spec => [](Measure \in Nat \X Nat)
    /\ Spec => [][pc # "idle" =>
                     \/ <<Measure', Measure>> \in Fewer
                     \/ Accept /\ Measure' = Measure]_vars
<1>1. IInv => Counted
  BY ToilIsFinite
<1>2. Counted => Measure \in Nat \X Nat
  BY DEF Counted, Measure
<1>3. ASSUME IInv, Counted', [Next]_vars
      PROVE  [pc # "idle" =>
                     \/ <<Measure', Measure>> \in Fewer
                     \/ Accept /\ Measure' = Measure]_vars
  <2>1. ASSUME Accept PROVE Measure' = Measure
    <3>1. UNCHANGED <<pc, todo, left, retries_remaining>>
      BY <2>1 DEF Accept
    <3>2. QED BY <3>1 DEF Measure, Toil, Longest, Shortest, batch, unique_email_addresses
  <2>2. Requested => pc = "idle"
    BY RequestedSaves
  <2>3. QED BY <1>3, <2>1, <2>2, WorkIsDone DEF Next
<1>4. Spec => [](Measure \in Nat \X Nat)
  BY <1>1, <1>2, Invariant, PTL
<1>5. Spec => [][pc # "idle" =>
                     \/ <<Measure', Measure>> \in Fewer
                     \/ Accept /\ Measure' = Measure]_vars
  BY <1>1, <1>3, Invariant, PTL DEF Spec
<1>6. QED BY <1>4, <1>5, FewerEnds
=============================================================================
