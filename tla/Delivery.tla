------------------------------ MODULE Delivery ------------------------------
(***************************************************************************)
(* What send_notify_email() promises of a batch of e-mails, without its    *)
(* loop, its retries and its budget: every recipient is dealt with once,   *)
(* nobody receives the e-mail twice, and the counts that the caller is     *)
(* told are those of what happened.                                        *)
(***************************************************************************)
EXTENDS Naturals, FiniteSets

CONSTANT Recipients

VARIABLES
    phase,      \* of the batch: "idle", "open" or "told"
    verdict,    \* what the sender makes of each recipient
    inbox,      \* the e-mails of the batch that each recipient gets
    report      \* the counts told to the caller

vars == <<phase, verdict, inbox, report>>

Verdicts == {"none", "due", "accepted", "unanswered", "failed"}

NoReport == [accepted |-> 0, unanswered |-> 0, failed |-> 0]

With(v) == {k \in Recipients : verdict[k] = v}

Init ==
    /\ phase = "idle"
    /\ verdict = [k \in Recipients |-> "none"]
    /\ inbox = [k \in Recipients |-> 0]
    /\ report = NoReport

Begin ==
    /\ phase # "open"
    /\ \E R \in (SUBSET Recipients) \ {{}} :
          verdict' = [k \in Recipients |-> IF k \in R THEN "due" ELSE "none"]
    /\ phase' = "open"
    /\ inbox' = [k \in Recipients |-> 0]
    /\ report' = NoReport

\* The e-mail arrives: the first, and the last.
Deliver(k) ==
    /\ verdict[k] \in {"due", "failed"}
    /\ inbox[k] = 0
    /\ inbox' = [inbox EXCEPT ![k] = 1]
    /\ UNCHANGED <<phase, verdict, report>>

\* Only an e-mail that arrives counts as accepted; one that failed may arrive.
Settle(k) ==
    /\ phase = "open"
    /\ verdict[k] = "due"
    /\ \/ verdict' = [verdict EXCEPT ![k] = "failed"]
       \/ /\ inbox[k] = 1
          /\ \E v \in {"accepted", "unanswered"} :
                verdict' = [verdict EXCEPT ![k] = v]
    /\ UNCHANGED <<phase, inbox, report>>

Tell ==
    /\ phase = "open"
    /\ With("due") = {}
    /\ phase' = "told"
    /\ report' = [accepted   |-> Cardinality(With("accepted")),
                  unanswered |-> Cardinality(With("unanswered")),
                  failed     |-> Cardinality(With("failed"))]
    /\ UNCHANGED <<verdict, inbox>>

\* The worker that sends the batch is killed.
Abandon ==
    /\ phase = "open"
    /\ phase' = "idle"
    /\ UNCHANGED <<verdict, inbox, report>>

\* The caller goes on with something else.
Forget ==
    /\ phase = "told"
    /\ phase' = "idle"
    /\ UNCHANGED <<verdict, inbox, report>>

Next ==
    \/ Begin
    \/ \E k \in Recipients : Deliver(k) \/ Settle(k)
    \/ Tell
    \/ Abandon
    \/ Forget

Spec == Init /\ [][Next]_vars
=============================================================================
