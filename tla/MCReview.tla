------------------------------ MODULE MCReview ------------------------------
(* Instances of Review for TLC. *)
EXTENDS Review, TLC

CONSTANTS r1, r2, a, b

TwoRequests == {r1, r2}
OneRequest  == {r1}
OneSection  == {a}
TwoSections == {a, b}

AnyRole == BOOLEAN
NoLead  == {FALSE}

UserHandlers  == AllHandlers \ {"ReviewAdmin"}
AdminHandlers == AllHandlers \ {"EditReviewSystemView"}

\* Time stamps are only ever compared with the row's, and a pending one is new to
\* everything (StampInv of Review_proofs): a state is what it is up to which
\* instances, and which checks, have the stamp the row has now.
Unstamped(o) == [o EXCEPT !.last_updated = 0]
UpToStamps ==
    << Unstamped(review), tip, system, clock, overlapped, acked,
       [r \in Requests |->
          << [request[r] EXCEPT !.obj = Unstamped(@), !.read = 0, !.stamp = 0],
             request[r].obj.last_updated = review.last_updated,
             request[r].read = review.last_updated >>] >>

\* The slots are interchangeable: nothing distinguishes one worker from another.
RequestSymmetry == Permutations(Requests)
=============================================================================
