----------------------------- MODULE MCImports -----------------------------
(* An instance of Imports for TLC: a department and a body under it.       *)
EXTENDS Imports, TLC

CONSTANTS ann, s1, s2, c1, c2, r1, r2

Ann == <<ann, "gov.uk">>

Row(reference, name, lead, emails) ==
    [reference |-> reference, name |-> name, lead |-> lead, emails |-> emails]

\* Both; the body alone, found by its reference under a new name, with an
\* address that has capitals in its domain, and once more with itself for a
\* lead department.
TwoFiles ==
    {<<Row(None, "body", "dept", <<Ann>>), Row(None, "dept", "dept", <<>>)>>,
     <<Row("body", "renamed", "dept", <<Ann, <<ann, "GOV.UK">>>>),
       Row(None, "body", "body", <<>>)>>}

\* A period that ends in summer and one that ends in winter, and what the
\* first may be changed to.
ThreeSettings ==
    {[period |-> "25/26", end |-> 1, summer |-> 1, framework |-> "caf32"],
     [period |-> "25/26", end |-> 1, summer |-> 1, framework |-> "caf40"],
     [period |-> "26/27", end |-> 2, summer |-> 0, framework |-> "caf40"]}

Symmetric == Permutations(Requests) \cup Permutations(Systems)
             \cup Permutations(Configurations)

\* Bound: organisations are imported before the first assessment is created
\* and before time passes.  The two parts share only what is there then: the
\* organisation and its advisors.
ImportedFirst ==
    (\E r \in Requests : request[r].handler = "import_csv") =>
        now = 0 /\ ~edited /\ \A k \in Keys : assessment[k] = NoAssessment
=============================================================================
