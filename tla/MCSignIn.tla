------------------------------ MODULE MCSignIn ------------------------------
(* An instance of SignIn for TLC: a mailbox written in two ways, a member  *)
(* of staff and two accounts to be made.                                   *)
EXTENDS SignIn, TLC

TwoCases == [a \in Addresses |-> IF a = "Ann" THEN "ann" ELSE a]
OneDomain == [a \in Addresses |-> "gov"]

Symmetric == Permutations(Browsers)
=============================================================================
