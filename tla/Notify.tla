------------------------------- MODULE Notify -------------------------------
(***************************************************************************)
(* The e-mails of WebCAF: send_notify_email() and the handlers that call   *)
(* it, against a GOV.UK Notify that may accept a request, refuse it, lose  *)
(* its answer or answer in a way the client cannot read.                   *)
(*                                                                         *)
(* One handler runs at a time; it works through the batches it has to send *)
(* and through its own save, in the order of its code:                     *)
(*                                                                         *)
(*    idle -> [save ->] next -> send <-> wait -> tell -> next -> [save ->] *)
(*                                                                         *)
(* A batch is a list of addresses; addresses that differ in case are one   *)
(* recipient.  The retries of a batch are shared by its recipients.        *)
(***************************************************************************)
EXTENDS Naturals, Sequences, FiniteSets

CONSTANTS
    Addresses,      \* e-mail addresses as they are written in User.email
    Recipients,     \* mailboxes
    Key,            \* casefold: the mailbox of an address
    Blank,          \* the mailbox of an account without an e-mail address
    Lists,          \* the address lists that a query can return
    GovAssure,      \* gov_assure_email: <<>> while it is not set
    MaxRetries      \* max_retries

ASSUME NotifyAssumption ==
    /\ Key \in [Addresses -> Recipients]
    /\ IsFiniteSet(Recipients)
    /\ Lists \cup GovAssure \subseteq Seq(Addresses)
    /\ MaxRetries \in Nat

VARIABLES
    handler,    \* the handler that runs
    pc,         \* where it is
    saved,      \* what became of its own save: "no", "yes" or "refused"
    todo,       \* the batches it still has to send, the open one first
    left,       \* positions of the open batch that are still to be sent
    retries_remaining,
    verdict,    \* responses and failures, by recipient
    report,     \* the counts of the NotifyError or of the returned responses
    flight,     \* requests that Notify has but has not yet dealt with
    inbox,      \* history: how many e-mails of the batch each recipient gets
    tries       \* history: requests made for the batch

vars == <<handler, pc, saved, todo, left, retries_remaining, verdict, report,
          flight, inbox, tries>>

-----------------------------------------------------------------------------
(* Handlers and their batches                                              *)

Submission == "SectionConfirmationView"
Decisions  == {"FinaliseReview", "Tip"}
Handlers   == {Submission, "send_mail", "send_test_notification"} \cup Decisions

NoHandler == "none"

\* Accounts without an address are left out of the assessment-ready e-mail.
HasAddress == {list \in Lists : \A i \in DOMAIN list : Key[list[i]] # Blank}

\* The internal address is added to the recipients, if there are any.
AlsoGovAssure(list) ==
    IF list = <<>> THEN {} ELSE {list \o gov : gov \in GovAssure}

Init ==
    /\ handler = NoHandler
    /\ pc = "idle"
    /\ saved = "no"
    /\ todo = <<>>
    /\ left = {}
    /\ retries_remaining = 0
    /\ verdict = [k \in Recipients |-> "none"]
    /\ report = [accepted |-> 0, unanswered |-> 0, failed |-> 0]
    /\ flight = {}
    /\ inbox = [k \in Recipients |-> 0]
    /\ tries = 0

Start(h, first, batches) ==
    /\ pc = "idle"
    /\ handler' = h
    /\ pc' = first
    /\ saved' = "no"
    /\ todo' = batches
    /\ UNCHANGED <<left, retries_remaining, verdict, report, flight, inbox, tries>>

\* The submission saves, then confirms to the user and alerts the assessors;
\* a template that is not configured leaves its batch out.
SectionConfirmationView ==
    \E user \in Addresses, assessors \in HasAddress :
        \/ \E batches \in {<<>>, <<<<user>>>>} : Start(Submission, "save", batches)
        \/ \E ready \in AlsoGovAssure(assessors) :
              \E batches \in {<<ready>>, <<<<user>>, ready>>} :
                  Start(Submission, "save", batches)

\* finalise_review, and submit, approve and reject of a Tip: the leads of the
\* organisation are told before the row is saved.
Decide ==
    \E h \in Decisions, leads \in Lists :
        \/ Start(h, "next", <<>>)
        \/ \E list \in AlsoGovAssure(leads) : Start(h, "next", <<list>>)

\* The one-time code, and the management command that tries the service.
SendToOne ==
    \E h \in {"send_mail", "send_test_notification"}, a \in Addresses :
        Start(h, "next", <<<<a>>>>)

\* The save of a handler may be refused: a ValidationError, an IntegrityError.
Save ==
    /\ pc = "save"
    /\ \/ /\ saved' = "yes"
          /\ pc' = IF todo = <<>> THEN "idle" ELSE "next"
          /\ todo' = todo
       \/ /\ saved' = "refused"
          /\ pc' = "idle"
          /\ todo' = <<>>
    /\ UNCHANGED <<handler, left, retries_remaining, verdict, report, flight,
                   inbox, tries>>

\* What follows the batches.
Finished == IF handler \in Decisions THEN "save" ELSE "idle"

NoMore ==
    /\ pc = "next"
    /\ todo = <<>>
    /\ pc' = Finished
    /\ UNCHANGED <<handler, saved, todo, left, retries_remaining, verdict,
                   report, flight, inbox, tries>>

-----------------------------------------------------------------------------
(* send_notify_email                                                       *)

\* Mutant: addresses are compared as they are written.
unique_email_addresses_AsWritten(list) ==
    {i \in DOMAIN list : \A j \in DOMAIN list : j < i => list[j] # list[i]}

\* The positions of the first address of each mailbox.
unique_email_addresses(list) ==
    {i \in DOMAIN list : \A j \in DOMAIN list : j < i => Key[list[j]] # Key[list[i]]}

\* The address list of the open batch, and whether position i is next.
batch == Head(todo)
Next_address(i) == \A j \in left : i <= j

SendNotifyEmail ==
    /\ pc = "next"
    /\ todo # <<>>
    /\ pc' = "send"
    /\ left' = unique_email_addresses(batch)
    /\ retries_remaining' = MaxRetries
    /\ verdict' = [k \in Recipients |->
                     IF \E i \in DOMAIN batch : Key[batch[i]] = k
                     THEN "due" ELSE "none"]
    /\ report' = [accepted |-> 0, unanswered |-> 0, failed |-> 0]
    /\ flight' = {}
    /\ inbox' = [k \in Recipients |-> 0]
    /\ tries' = 0
    /\ UNCHANGED <<handler, saved, todo>>

\* The exception of a batch ends the management command; every other caller
\* logs it and goes on.
After(raised) ==
    /\ todo' = Tail(todo)
    /\ pc' = IF raised /\ handler = "send_test_notification" THEN "idle" ELSE "next"

\* No API key, or a client that cannot be made: nobody is tried.
NotStarted ==
    /\ pc = "next"
    /\ todo # <<>>
    /\ After(TRUE)
    /\ UNCHANGED <<handler, saved, left, retries_remaining, verdict, report,
                   flight, inbox, tries>>

SendRequest ==
    /\ pc = "send"
    /\ \E i \in left :
          /\ Next_address(i)
          /\ flight' = flight \cup {Key[batch[i]]}
    /\ pc' = "wait"
    /\ tries' = tries + 1
    /\ UNCHANGED <<handler, saved, todo, left, retries_remaining, verdict,
                   report, inbox>>

\* GOV.UK Notify accepts a request and delivers the e-mail, at any time.
Accept ==
    /\ \E k \in flight \ {Blank} :
          /\ inbox' = [inbox EXCEPT ![k] = @ + 1]
          /\ flight' = flight \ {k}
    /\ UNCHANGED <<handler, pc, saved, todo, left, retries_remaining, verdict,
                   report, tries>>

\* What a request can come back with, by what Notify has done with it: a 2xx
\* answer comes after the request is accepted, a refusal after it is not.
Accepted  == {"response", "no_id", "unreadable"}
Refusals  == {"connection_failure", "rate_limit", "daily_limit", "bad_request",
              "authentication"}
Ambiguous == {"server_error", "no_answer"}
Answers   == Accepted \cup Refusals \cup Ambiguous

Possible(a, k) ==
    \/ a \in Ambiguous
    \/ a \in Accepted /\ k \notin flight
    \/ a \in Refusals /\ k \in flight

\* Mutant: a server error is retried.
is_retryable_ServerError(a) == a \in {"connection_failure", "rate_limit", "server_error"}

is_retryable(a) == a \in {"connection_failure", "rate_limit"}

\* Whether a failure is counted as accepted, or an answer as a response.
classify(a) ==
    IF a = "response" THEN "accepted"
    ELSE IF a \in Accepted THEN "unanswered" ELSE "failed"

\* A refused request is not in Notify's hands any more.
Withdrawn(a, k) == IF a \in Refusals THEN flight \ {k} ELSE flight

\* Mutants: the budget is not looked at, or not spent.
Retry_Always ==
    /\ pc = "wait"
    /\ \E i \in left, a \in Answers :
          /\ Next_address(i)
          /\ Possible(a, Key[batch[i]])
          /\ is_retryable(a)
          /\ flight' = Withdrawn(a, Key[batch[i]])
    /\ retries_remaining' = retries_remaining - 1
    /\ pc' = "send"
    /\ UNCHANGED <<handler, saved, todo, left, verdict, report, inbox, tries>>

Retry_Free ==
    /\ pc = "wait"
    /\ retries_remaining > 0
    /\ \E i \in left, a \in Answers :
          /\ Next_address(i)
          /\ Possible(a, Key[batch[i]])
          /\ is_retryable(a)
          /\ flight' = Withdrawn(a, Key[batch[i]])
    /\ pc' = "send"
    /\ UNCHANGED <<handler, saved, todo, left, retries_remaining, verdict,
                   report, inbox, tries>>

\* A transient failure is tried again after a pause, while the budget lasts.
Retry ==
    /\ pc = "wait"
    /\ retries_remaining > 0
    /\ \E i \in left, a \in Answers :
          /\ Next_address(i)
          /\ Possible(a, Key[batch[i]])
          /\ is_retryable(a)
          /\ flight' = Withdrawn(a, Key[batch[i]])
    /\ retries_remaining' = retries_remaining - 1
    /\ pc' = "send"
    /\ UNCHANGED <<handler, saved, todo, left, verdict, report, inbox, tries>>

\* Every other answer, or none before the client's timeout, settles the
\* recipient and the loop goes on to the next.
Settle ==
    /\ pc = "wait"
    /\ \E i \in left, a \in Answers :
          /\ Next_address(i)
          /\ Possible(a, Key[batch[i]])
          /\ ~(is_retryable(a) /\ retries_remaining > 0)
          /\ verdict' = [verdict EXCEPT ![Key[batch[i]]] = classify(a)]
          /\ flight' = Withdrawn(a, Key[batch[i]])
          /\ left' = left \ {i}
    /\ pc' = "send"
    /\ UNCHANGED <<handler, saved, todo, retries_remaining, report, inbox, tries>>

With(v) == {k \in Recipients : verdict[k] = v}

\* The responses are returned, or the counts raised as a NotifyError.
Tell ==
    /\ pc = "send"
    /\ left = {}
    /\ pc' = "tell"
    /\ report' = [accepted   |-> Cardinality(With("accepted")),
                  unanswered |-> Cardinality(With("unanswered")),
                  failed     |-> Cardinality(With("failed"))]
    /\ UNCHANGED <<handler, saved, todo, left, retries_remaining, verdict,
                   flight, inbox, tries>>

\* Mutant: the callers let the exception through.
CallerGoesOn_Raises ==
    /\ pc = "tell"
    /\ todo' = Tail(todo)
    /\ pc' = IF report.failed + report.unanswered > 0 THEN "idle" ELSE "next"
    /\ UNCHANGED <<handler, saved, left, retries_remaining, verdict, report,
                   flight, inbox, tries>>

CallerGoesOn ==
    /\ pc = "tell"
    /\ After(report.failed + report.unanswered > 0)
    /\ UNCHANGED <<handler, saved, left, retries_remaining, verdict, report,
                   flight, inbox, tries>>

\* gunicorn kills a worker that takes longer than its timeout.
Killed ==
    /\ pc # "idle"
    /\ pc' = "idle"
    /\ handler' = NoHandler
    /\ todo' = <<>>
    /\ UNCHANGED <<saved, left, retries_remaining, verdict, report, flight,
                   inbox, tries>>

-----------------------------------------------------------------------------
(* The specification                                                       *)

Requested == SectionConfirmationView \/ Decide \/ SendToOne

Works ==
    \/ Save
    \/ NoMore
    \/ SendNotifyEmail
    \/ NotStarted
    \/ SendRequest
    \/ Retry
    \/ Settle
    \/ Tell
    \/ CallerGoesOn

Next == Requested \/ Works \/ Accept \/ Killed

\* A worker that is not killed goes on: every request to Notify comes back
\* within NOTIFY_API_TIMEOUT_SECONDS.  Nobody has to ask, and Notify does not
\* have to accept.
Spec == Init /\ [][Next]_vars /\ WF_vars(Works)

-----------------------------------------------------------------------------
(* Properties                                                              *)

TypeOK ==
    /\ handler \in Handlers \cup {NoHandler}
    /\ pc \in {"idle", "save", "next", "send", "wait", "tell"}
    /\ saved \in {"no", "yes", "refused"}
    /\ todo \in Seq(Seq(Addresses))
    /\ pc \in {"send", "wait", "tell"} => todo # <<>>
    /\ left \subseteq Nat
    /\ pc \in {"send", "wait"} => left \subseteq DOMAIN batch
    /\ retries_remaining \in 0..MaxRetries
    /\ verdict \in [Recipients -> {"none", "due", "accepted", "unanswered", "failed"}]
    /\ flight \subseteq Recipients
    /\ inbox \in [Recipients -> Nat]
    /\ tries \in Nat

\* send_notify_email: "one email per unique recipient".  However many
\* requests fail, are retried or stay unanswered, nobody gets the e-mail of a
\* batch twice.
AtMostOnce == \A k \in Recipients : inbox[k] <= 1

\* The budget belongs to the batch, not to the recipient: a service that is
\* down costs at most MAX_RETRIES requests more than there are recipients.
RetriesAreShared ==
    pc \in {"send", "wait", "tell"} =>
        tries <= Cardinality(unique_email_addresses(batch)) + MaxRetries

\* A batch does what Delivery says, and the counts told are the true ones.
Phase ==
    CASE pc \in {"send", "wait"} -> "open"
      [] pc = "tell"             -> "told"
      [] OTHER                   -> "idle"

Promise == INSTANCE Delivery WITH phase <- Phase
DeliverySpec == Promise!Spec

\* Whatever Notify does, a handler comes to its end, and one that saves has
\* saved by then or was refused: no trouble with an e-mail keeps a submission
\* or a decision from being recorded.
EndsRecorded ==
    (pc # "idle") ~>
        /\ pc = "idle"
        /\ handler \in Decisions \cup {Submission} => saved # "no"
=============================================================================
