----------------------------- MODULE References -----------------------------
(***************************************************************************)
(* The references that organisations, systems and assessments are known    *)
(* by: five characters computed from the primary key.  Nobody looks        *)
(* whether a reference is taken, so the arithmetic has to keep them apart. *)
(***************************************************************************)
EXTENDS Integers

\* The digits and the capitals but for the vowels and Y.
CHAR_SET == <<"0", "1", "2", "3", "4", "5", "6", "7", "8", "9",
              "B", "C", "D", "F", "G", "H", "J", "K", "L", "M",
              "N", "P", "Q", "R", "S", "T", "V", "W", "X", "Z">>

\* 30 ^ 5: the references there are, and the bound of the primary keys.
Size == 24300000

PRIMES == [assessment |-> <<11547, 492761>>,
           system |-> <<97103, 907757>>,
           organisation |-> <<94327, 747811>>]

\* What is added, 30 ^ 4, may carry into a sixth character, which is not written.
reference_value(pk, prime_set) ==
    ((pk * PRIMES[prime_set][1] + PRIMES[prime_set][2]) % Size) + 810000

\* The lowest character first.
Characters(value) ==
    <<value % 30, (value \div 30) % 30, (value \div 900) % 30,
      (value \div 27000) % 30, (value \div 810000) % 30>>

generate_reference(pk, prime_set) ==
    LET index == Characters(reference_value(pk, prime_set))
    IN  [i \in 1..5 |-> CHAR_SET[index[i] + 1]]
=============================================================================
