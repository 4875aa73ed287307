------------------------------ MODULE MCNotify ------------------------------
(* An instance of Notify for TLC: two accounts share a mailbox, written in *)
(* different case, and one has no address.                                 *)
EXTENDS Notify

MixedCase == [a \in Addresses |->
                CASE a \in {"ann", "Ann"} -> "ann"
                  [] a = "bob"            -> "bob"
                  [] OTHER                -> "blank"]

ShortLists == {<<>>, <<"Ann", "">>, <<"ann", "bob", "Ann">>}

GovAssureOrNot == {<<>>, <<"bob">>}
=============================================================================
