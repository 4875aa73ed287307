----------------------------- MODULE MCProfiles -----------------------------
(* An instance of Profiles for TLC: two people, two organisations.         *)
EXTENDS Profiles, TLC

\* A lead of one organisation and an advisor of the other, perhaps one person.
LeadAndAdvisor ==
    {<<[user |-> u, organisation |-> o, role |-> Lead],
       [user |-> w, organisation |-> q, role |-> Advisor]>> :
         u, w \in Users, o \in Organisations, q \in Organisations}

Apart == {g \in LeadAndAdvisor : g[1].organisation # g[2].organisation}

\* Operators make somebody a lead of any organisation.
AsLead == {[user |-> u, organisation |-> o, role |-> Lead] :
             u \in Users, o \in Organisations}

\* One thing at a time: systems are added, profiles are, or operators move one;
\* what follows is looked at while an edit of it is under way.
OneAtATime ==
    /\ systems # {} => issued = 2
    /\ \A p \in Keys : origin[p] = Moved =>
          /\ systems = {} /\ issued = 2
          /\ \A q \in Keys : origin[q] = Moved => q = p
          /\ \E r \in Requests :
                request[r].handler = "UserProfileView" /\ request[r].target = p

Symmetric == Permutations(Users) \cup Permutations(Organisations)
             \cup Permutations(Requests)
=============================================================================
