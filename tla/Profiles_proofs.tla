--------------------------- MODULE Profiles_proofs ---------------------------
(***************************************************************************)
(* Proofs about Profiles, for every number of users, organisations,        *)
(* browsers and overlapping requests: the key of a profile keeps its       *)
(* organisation, and a request changes its own organisation only.          *)
(***************************************************************************)
EXTENDS Profiles, WellFoundedInduction, TLAPS

-----------------------------------------------------------------------------
(* The parts of the type invariant                                         *)

RowsOK ==
    /\ row \in [Keys -> Rows \cup {NoRow}]
    /\ issued \in 0..MaxProfiles
    /\ \A p \in Keys : p > issued => row[p] = NoRow
    /\ origin \in [Keys -> Organisations \cup {NoOrganisation, Moved, "none"}]

SessionsOK ==
    /\ session \in [Browsers -> [user : Users \cup {Nobody}, profile : Keys \cup {NoProfile}]]
    /\ last_org \in [Browsers -> Keys \cup {NoProfile}]

Active == [handler : Handlers, browser : Browsers, profile : Keys,
           organisation : Organisations \cup {NoOrganisation},
           target : 0..issued, name : Names \cup {"none"}, attached : BOOLEAN]

RequestsOK == request \in [Requests -> Active \cup {Idle}]

SystemsOK == systems \subseteq Organisations \X Names

LEMMA TypeParts == TypeOK <=> RowsOK /\ SessionsOK /\ RequestsOK /\ SystemsOK
  BY DEF TypeOK, RowsOK, SessionsOK, RequestsOK, SystemsOK, Active

-----------------------------------------------------------------------------
(* The inductive invariant                                                 *)

\* A system page works on a system of an organisation.
Named ==
    \A r \in Requests :
        /\ request[r].handler \in {"SystemView", "EditSystemView"} =>
              request[r].name \in Names
        /\ request[r].handler = "EditSystemView" =>
              request[r].organisation \in Organisations
        /\ request[r].handler = "RemoveUserProfileView" =>
              request[r].target # NoProfile

\* The key of a row is of the row's organisation, or its profile was moved.
RowsKeep ==
    \A p \in Keys : row[p] # NoRow => origin[p] \in {row[p].organisation, Moved}

\* So is the key under which a request runs, and that which an edit will write:
\* it was given out when the request began.
RequestsKeep ==
    \A r \in Requests : request[r] # Idle =>
        /\ request[r].profile <= issued
        /\ origin[request[r].profile] \in {request[r].organisation, Moved}

EditsKeep ==
    \A r \in Requests :
        request[r].handler = "UserProfileView" /\ request[r].target # NoProfile =>
            origin[request[r].target] \in {request[r].organisation, Moved}

IInv == TypeOK /\ Named /\ RowsKeep /\ RequestsKeep /\ EditsKeep

-----------------------------------------------------------------------------
(* Facts about the state                                                   *)

LEMMA IdleHandler == Idle.handler = "none" /\ Idle \notin Active
<1>1. Idle.handler = "none"
  BY DEF Idle
<1>2. \A a \in Active : a.handler # "none"
  BY DEF Active, Handlers
<1>3. QED BY <1>1, <1>2

LEMMA IdleUnattached == [Idle EXCEPT !.attached = FALSE] = Idle
<1>1. Idle.attached = FALSE /\ Idle = [k \in DOMAIN Idle |-> Idle[k]]
  BY DEF Idle
<1>2. \A f : f.attached = FALSE /\ f = [k \in DOMAIN f |-> f[k]] =>
               [f EXCEPT !.attached = FALSE] = f
  OBVIOUS
<1>3. QED BY <1>1, <1>2

\* What is known of a request under way.
LEMMA RequestTypes ==
    ASSUME RequestsOK, RowsOK, NEW r \in Requests, request[r] # Idle
    PROVE  /\ request[r].handler \in Handlers
           /\ request[r].browser \in Browsers
           /\ request[r].profile \in Keys
           /\ request[r].organisation \in Organisations \cup {NoOrganisation}
           /\ request[r].target \in 0..issued
           /\ request[r].target # NoProfile => request[r].target \in Keys
<1>1. request[r] \in Active
  BY DEF RequestsOK
<1>2. issued \in Nat /\ issued <= MaxProfiles /\ MaxProfiles \in Nat
  BY ProfilesAssumption DEF RowsOK
<1>3. QED BY <1>1, <1>2 DEF Active, Keys, NoProfile

\* A set of keys that is not empty has a least one.
LEMMA LeastKey ==
    ASSUME NEW S \in SUBSET Nat, S # {}
    PROVE  \E p \in S : \A q \in S : p <= q
<1>1. PICK p \in S : \A q \in S : ~(<<q, p>> \in OpToRel(<, Nat))
  BY WFMin, NatLessThanWellFounded
<1>2. \A q \in S : ~(q < p)
  BY <1>1 DEF OpToRel
<1>3. QED BY <1>2

\* The profile that a page is answered for.
LEMMA CurrentProfile ==
    ASSUME NEW b \in Browsers
    PROVE  /\ get_current_user_profile(b) \in Keys \cup {NoProfile}
           /\ resolve_current_user_profile(b) \in Keys \cup {NoProfile}
           /\ get_current_user_profile(b) # NoProfile =>
                 Own(b, get_current_user_profile(b))
<1>1. \A p : Own(b, p) => p \in Keys
  BY DEF Own
<1>2. /\ get_current_user_profile(b) \in Keys \cup {NoProfile}
      /\ get_current_user_profile(b) # NoProfile =>
            Own(b, get_current_user_profile(b))
  BY <1>1 DEF get_current_user_profile
<1>3. resolve_current_user_profile(b) \in Keys \cup {NoProfile}
  <2> DEFINE mine == {k \in Keys : Own(b, k)}
  <2> DEFINE first(p) == Own(b, p) /\ \A q \in Keys : Own(b, q) => p <= q
  <2>1. CASE Own(b, session[b].profile) \/ Own(b, last_org[b])
    BY <2>1, <1>1 DEF resolve_current_user_profile
  <2>2. CASE /\ ~(Own(b, session[b].profile) \/ Own(b, last_org[b]))
             /\ \E p \in Keys : Own(b, p)
    <3>1. \E p \in Keys : first(p)
      <4>1. mine \in SUBSET Nat /\ mine # {}
        BY <2>2 DEF Keys
      <4>2. QED BY <4>1, LeastKey
    <3>2. (CHOOSE k \in Keys : first(k)) \in Keys
      BY <3>1
    <3>3. QED BY <2>2, <3>2 DEF resolve_current_user_profile
  <2>3. CASE ~(Own(b, session[b].profile) \/ Own(b, last_org[b])
               \/ \E p \in Keys : Own(b, p))
    BY <2>3 DEF resolve_current_user_profile
  <2>4. QED BY <2>1, <2>2, <2>3
<1>4. QED BY <1>2, <1>3

-----------------------------------------------------------------------------
(* Type correctness                                                        *)

LEMMA InitInv == Init => IInv
<1> SUFFICES ASSUME Init PROVE IInv
  OBVIOUS
<1> USE DEF Init
<1>1. RowsOK
  <2>1. PICK g \in Given : /\ row = [p \in Keys |-> IF p \in DOMAIN g THEN g[p] ELSE NoRow]
                          /\ issued = Len(g)
    OBVIOUS
  <2>2. g \in Seq(Rows) /\ Len(g) \in 0..MaxProfiles /\ MaxProfiles \in Nat
    <3>1. g \in Seq(Rows) /\ Len(g) <= MaxProfiles
      BY ProfilesAssumption
    <3>2. QED BY <3>1, ProfilesAssumption
  <2>3. \A p \in DOMAIN g : g[p] \in Rows /\ p <= Len(g)
    BY <2>2
  <2>4. /\ row \in [Keys -> Rows \cup {NoRow}]
        /\ issued \in 0..MaxProfiles
        /\ \A p \in Keys : p > issued => row[p] = NoRow
    BY <2>1, <2>2, <2>3
  <2>5. \A p \in Keys : row[p].organisation \in
                          Organisations \cup {NoOrganisation, Moved, "none"}
    BY <2>4 DEF Rows, NoRow
  <2>6. QED BY <2>4, <2>5 DEF RowsOK
<1>2. SessionsOK /\ RequestsOK /\ SystemsOK
  BY DEF SessionsOK, RequestsOK, SystemsOK
<1>3. Named /\ RowsKeep /\ RequestsKeep /\ EditsKeep
  <2>1. \A r \in Requests : request[r] = Idle /\ request[r].handler = "none"
    BY IdleHandler
  <2>2. QED BY <2>1 DEF Named, RowsKeep, RequestsKeep, EditsKeep
<1>4. QED BY <1>1, <1>2, <1>3, TypeParts DEF IInv

\* Pages leave the rows alone and keep the sessions in shape.
LEMMA VisitsType ==
    ASSUME TypeOK, NEW b \in Browsers, Visits(b)
    PROVE  /\ SessionsOK'
           /\ RequestsOK'
           /\ UNCHANGED <<row, issued, systems, origin>>
           /\ \A r \in Requests :
                 request'[r] \in {request[r], [request[r] EXCEPT !.attached = FALSE]}
<1> USE TypeParts
<1>1. ASSUME NEW u \in Users \cup {Nobody}, Renew(b, u)
      PROVE  /\ SessionsOK'
             /\ RequestsOK'
             /\ UNCHANGED <<row, issued, systems, origin>>
             /\ \A r \in Requests :
                   request'[r] \in {request[r], [request[r] EXCEPT !.attached = FALSE]}
  <2>1. SessionsOK'
    BY <1>1 DEF Renew, SessionsOK
  <2>2. \A r \in Requests :
            request'[r] \in {request[r], [request[r] EXCEPT !.attached = FALSE]}
    BY <1>1 DEF Renew, RequestsOK
  <2>3. RequestsOK'
    <3>1. \A a \in Active : [a EXCEPT !.attached = FALSE] \in Active
      BY DEF Active
    <3>2. [Idle EXCEPT !.attached = FALSE] = Idle
      BY IdleUnattached
    <3>3. Active' = Active
      BY <1>1 DEF Renew, Active
    <3>4. QED BY <1>1, <3>1, <3>2, <3>3 DEF Renew, RequestsOK
  <2>4. QED BY <1>1, <2>1, <2>2, <2>3 DEF Renew
<1>2. ASSUME NEW p \in Keys \cup {NoProfile}, Chosen(b, p)
      PROVE  /\ SessionsOK'
             /\ RequestsOK'
             /\ UNCHANGED <<row, issued, systems, origin>>
             /\ UNCHANGED request
  BY <1>2 DEF Chosen, SessionsOK, RequestsOK, Active
<1>3. CASE SignIn(b)
  BY <1>1, <1>3 DEF SignIn
<1>4. CASE SignOut(b)
  BY <1>1, <1>4 DEF SignOut
<1>5. CASE AccountView(b)
  BY <1>2, <1>5, CurrentProfile DEF AccountView
<1>6. CASE ChangeActiveProfileView(b)
  BY <1>2, <1>6 DEF ChangeActiveProfileView
<1>7. CASE OtherPage(b)
  BY <1>2, <1>7, CurrentProfile DEF OtherPage
<1>8. QED BY <1>3, <1>4, <1>5, <1>6, <1>7 DEF Visits

\* What Begin notes of a request.
LEMMA BeginNotes ==
    ASSUME TypeOK, NEW r \in Requests, NEW b \in Browsers, Begin(r, b)
    PROVE  \E q \in Active :
              /\ request' = [request EXCEPT ![r] = q]
              /\ q.browser = b
              /\ q.profile = get_current_user_profile(b)
              /\ Own(b, q.profile)
              /\ row[q.profile].role \in get_allowed_roles(q.handler)
              /\ q.organisation = row[q.profile].organisation
              /\ q.handler \in {"SystemView", "EditSystemView"} => q.name \in Names
              /\ q.handler = "EditSystemView" =>
                    <<q.organisation, q.name>> \in systems
              /\ q.handler = "UserProfileView" /\ q.target # NoProfile =>
                    row[q.target] # NoRow /\ row[q.target].organisation = q.organisation
              /\ q.handler = "RemoveUserProfileView" => q.target # NoProfile
<1> DEFINE p == get_current_user_profile(b)
<1> DEFINE o == row[p].organisation
<1>1. p # NoProfile /\ p \in Keys /\ Own(b, p) /\ row[p] \in Rows
  <2>1. p # NoProfile
    BY DEF Begin
  <2>2. QED BY <2>1, CurrentProfile, TypeParts DEF RowsOK, Own
<1>2. PICK h \in Handlers, t \in 1..issued, n \in Names :
         /\ row[p].role \in get_allowed_roles(h)
         /\ h = "EditSystemView" => <<o, n>> \in systems
         /\ request' = [request EXCEPT ![r] =
              [handler |-> h, browser |-> b, profile |-> p, organisation |-> o,
               target |-> CASE h = "UserProfileView" -> get_object(o, t)
                            [] h = "RemoveUserProfileView" -> t
                            [] OTHER -> NoProfile,
               name |-> IF h \in {"SystemView", "EditSystemView"} THEN n ELSE "none",
               attached |-> TRUE]]
  BY DEF Begin
<1> DEFINE target == CASE h = "UserProfileView" -> get_object(o, t)
                       [] h = "RemoveUserProfileView" -> t
                       [] OTHER -> NoProfile
<1> DEFINE name == IF h \in {"SystemView", "EditSystemView"} THEN n ELSE "none"
<1> DEFINE q == [handler |-> h, browser |-> b, profile |-> p, organisation |-> o,
                 target |-> target, name |-> name, attached |-> TRUE]
<1>3. /\ target \in 0..issued
      /\ h = "UserProfileView" /\ target # NoProfile =>
            row[target] # NoRow /\ row[target].organisation = o
      /\ h = "RemoveUserProfileView" => target # NoProfile
  <2>1. t \in 0..issued /\ t # 0 /\ 0 \in 0..issued
    BY TypeParts DEF RowsOK
  <2>2. CASE h = "UserProfileView"
    BY <2>1, <2>2 DEF get_object, NoProfile
  <2>3. CASE h = "RemoveUserProfileView"
    BY <2>1, <2>3 DEF NoProfile
  <2>4. CASE h \notin {"UserProfileView", "RemoveUserProfileView"}
    BY <2>1, <2>4 DEF NoProfile
  <2>5. QED BY <2>2, <2>3, <2>4
<1>4. name \in Names \cup {"none"} /\ (h \in {"SystemView", "EditSystemView"} => name = n)
  OBVIOUS
<1>5. o \in Organisations \cup {NoOrganisation}
  BY <1>1 DEF Rows
<1> HIDE DEF target, name, p, o
<1>6. q \in Active
  BY <1>1, <1>2, <1>3, <1>4, <1>5 DEF Active
<1>7. request' = [request EXCEPT ![r] = q]
  BY <1>2 DEF target, name, p, o
<1>8. /\ q.browser = b /\ q.profile = p /\ Own(b, q.profile)
      /\ row[q.profile].role \in get_allowed_roles(q.handler)
      /\ q.organisation = row[q.profile].organisation
      /\ q.handler \in {"SystemView", "EditSystemView"} => q.name \in Names
      /\ q.handler = "EditSystemView" => <<q.organisation, q.name>> \in systems
      /\ q.handler = "UserProfileView" /\ q.target # NoProfile =>
            row[q.target] # NoRow /\ row[q.target].organisation = q.organisation
      /\ q.handler = "RemoveUserProfileView" => q.target # NoProfile
  BY <1>1, <1>2, <1>3, <1>4 DEF o
<1>9. QED BY <1>6, <1>7, <1>8 DEF p

\* The answer of a request leaves the sessions and the other requests in shape.
LEMMA EndType ==
    ASSUME TypeOK, NEW r \in Requests, request[r] # Idle, End(r),
           issued' \in {issued, issued + 1}
    PROVE  SessionsOK' /\ RequestsOK'
<1> USE TypeParts
<1>1. request[r].browser \in Browsers /\ request[r].profile \in Keys
  BY RequestTypes
<1>2. SessionsOK'
  BY <1>1 DEF End, SessionsOK
<1>3. \A a \in Active : a \in Active'
  <2>1. 0..issued \subseteq 0..issued'
    BY DEF RowsOK
  <2>2. QED BY <2>1 DEF Active
<1>4. RequestsOK'
  BY <1>3 DEF End, RequestsOK
<1>5. QED BY <1>2, <1>4

\* What Insert does to the rows.
LEMMA InsertRows ==
    ASSUME RowsOK, NEW o \in Organisations \cup {NoOrganisation}, Insert(o)
    PROVE  /\ RowsOK'
           /\ issued' = issued + 1
           /\ row[issued + 1] = NoRow
           /\ row'[issued + 1] \in Rows
           /\ row'[issued + 1].organisation = o
           /\ row'[issued + 1].role # Advisor
           /\ origin'[issued + 1] = o
           /\ \A p \in Keys : p # issued + 1 =>
                 row'[p] = row[p] /\ origin'[p] = origin[p]
<1>1. PICK u \in Users, role \in clean_role :
         row' = [row EXCEPT ![issued + 1] =
                   [user |-> u, organisation |-> o, role |-> role]]
  BY DEF Insert
<1>2. issued + 1 \in Keys /\ issued' = issued + 1 /\ issued' \in 0..MaxProfiles
      /\ issued \in Nat
  BY ProfilesAssumption DEF Insert, RowsOK, Keys
<1>3. [user |-> u, organisation |-> o, role |-> role] \in Rows /\ role # Advisor
  BY DEF Rows, clean_role
<1>4. row[issued + 1] = NoRow
  BY <1>2 DEF RowsOK
<1>5. \A p \in Keys : p > issued + 1 => p > issued /\ p # issued + 1
  BY <1>2 DEF Keys
<1>6. origin' = [origin EXCEPT ![issued + 1] = o]
  BY DEF Insert
<1>7. QED BY <1>1, <1>2, <1>3, <1>4, <1>5, <1>6 DEF RowsOK

\* What a request that ends has done to the rows: it wrote or removed those
\* of its organisation, or added one.
RowEffect(r, p) ==
    /\ \/ row[p] = NoRow \/ row[p].organisation = request[r].organisation
       \/ origin[p] = Moved /\ request[r].handler = "UserProfileView"
    /\ row'[p] # NoRow =>
          /\ row'[p].role # Advisor
          /\ row'[p].organisation \in {request[r].organisation, NoOrganisation}

\* The keys that were given out before keep their origin.
OldKeysKept == \A p \in Keys : p <= issued => origin'[p] \in {origin[p], Moved}

SystemEffect(r) ==
    \A x \in Organisations \X Names : (x \in systems') # (x \in systems) =>
        x[1] = request[r].organisation

LEMMA WritesStep ==
    ASSUME IInv, NEW r \in Requests, Writes(r)
    PROVE  /\ request[r] # Idle
           /\ End(r)
           /\ issued' \in {issued, issued + 1}
           /\ RowsOK'
           /\ RowsKeep'
           /\ OldKeysKept
           /\ SystemsOK'
           /\ \A p \in Keys : row'[p] # row[p] => RowEffect(r, p)
           /\ SystemEffect(r)
<1> USE TypeParts DEF IInv
<1>0. request[r].handler \in Handlers => request[r] # Idle
  BY IdleHandler DEF Handlers
<1>1. CASE UserProfileView(r) /\ request[r].target # NoProfile
  <2>1. request[r] # Idle /\ End(r) /\ systems' = systems
        /\ issued' = issued /\ origin' = origin
    BY <1>0, <1>1 DEF UserProfileView, Handlers
  <2>2. request[r].target \in Keys /\ request[r].target \in 0..issued
        /\ request[r].organisation \in Organisations \cup {NoOrganisation}
    BY <1>1, <2>1, RequestTypes
  <2>3. PICK u \in Users, role \in clean_role :
           row' = [row EXCEPT ![request[r].target] =
                     [user |-> u, organisation |-> request[r].organisation, role |-> role]]
    BY <1>1 DEF UserProfileView
  <2>4. [user |-> u, organisation |-> request[r].organisation, role |-> role] \in Rows
        /\ role # Advisor
    BY <2>2 DEF Rows, clean_role
  <2>5. RowsOK'
    <3>1. ~(request[r].target > issued)
      BY <2>2 DEF RowsOK
    <3>2. QED BY <2>1, <2>2, <2>3, <2>4, <3>1 DEF RowsOK
  <2>6. \A p \in Keys : row'[p] # row[p] => p = request[r].target
    BY <2>2, <2>3 DEF RowsOK
  <2>7. RowEffect(r, request[r].target) /\ RowsKeep'
    <3>1. /\ request[r].handler = "UserProfileView"
          /\ origin[request[r].target] \in {request[r].organisation, Moved}
      BY <1>1 DEF EditsKeep, UserProfileView
    <3>2. row'[request[r].target] = [user |-> u, organisation |-> request[r].organisation,
                                     role |-> role]
      BY <2>2, <2>3 DEF RowsOK
    <3>3. RowEffect(r, request[r].target)
      BY <2>2, <2>4, <3>1, <3>2 DEF RowEffect, RowsKeep
    <3>4. \A p \in Keys : row'[p] # NoRow => origin'[p] \in {row'[p].organisation, Moved}
      BY <2>1, <2>6, <3>1, <3>2 DEF RowsKeep
    <3>5. QED BY <3>3, <3>4 DEF RowsKeep
  <2>8. QED BY <2>1, <2>5, <2>6, <2>7 DEF SystemsOK, SystemEffect, OldKeysKept
<1>2. ASSUME NEW o \in Organisations \cup {NoOrganisation}, Insert(o),
             o \in {request[r].organisation, NoOrganisation},
             request[r] # Idle, End(r), systems' = systems
      PROVE  /\ request[r] # Idle
             /\ End(r)
             /\ issued' \in {issued, issued + 1}
             /\ RowsOK'
             /\ RowsKeep'
             /\ OldKeysKept
             /\ SystemsOK'
             /\ \A p \in Keys : row'[p] # row[p] => RowEffect(r, p)
             /\ SystemEffect(r)
  <2>1. \A p \in Keys : row'[p] # row[p] => p = issued + 1
    BY <1>2, InsertRows
  <2>2. RowEffect(r, issued + 1)
    <3>1. issued + 1 \notin 1..issued
      BY DEF RowsOK
    <3>2. QED BY <1>2, <3>1, InsertRows DEF RowEffect
  <2>3. OldKeysKept
    <3>1. \A p \in Keys : p <= issued => p # issued + 1
      BY DEF RowsOK, Keys
    <3>2. QED BY <1>2, <3>1, InsertRows DEF OldKeysKept
  <2>4. RowsKeep'
    BY <1>2, InsertRows DEF RowsKeep
  <2>5. QED BY <1>2, <2>1, <2>2, <2>3, <2>4, InsertRows DEF SystemsOK, SystemEffect
<1>3. CASE UserProfileView(r) /\ request[r].target = NoProfile
  BY <1>0, <1>2, <1>3 DEF UserProfileView, Handlers
<1>4. CASE CreateUserProfileView(r)
  <2>1. request[r] # Idle /\ End(r) /\ systems' = systems
    BY <1>0, <1>4 DEF CreateUserProfileView, Handlers
  <2>2. request[r].organisation \in Organisations \cup {NoOrganisation}
    BY <2>1, RequestTypes
  <2>3. QED BY <1>2, <1>4, <2>1, <2>2 DEF CreateUserProfileView
<1>5. CASE RemoveUserProfileView(r)
  <2>1. /\ request[r] # Idle /\ End(r) /\ systems' = systems
        /\ issued' = issued /\ origin' = origin
        /\ row' = [row EXCEPT ![request[r].target] = NoRow]
        /\ Removable(r)
    BY <1>0, <1>5 DEF RemoveUserProfileView, Handlers
  <2>2. RowsOK'
    BY <2>1 DEF RowsOK
  <2>3. \A p \in Keys : row'[p] # row[p] => p = request[r].target /\ row'[p] = NoRow
    BY <2>1 DEF RowsOK
  <2>4. \A p \in Keys : row'[p] # row[p] => RowEffect(r, p)
    BY <2>1, <2>3 DEF RowEffect, Removable
  <2>5. RowsKeep' /\ OldKeysKept
    BY <2>1, <2>3 DEF RowsKeep, OldKeysKept
  <2>6. QED BY <2>1, <2>2, <2>4, <2>5 DEF SystemsOK, SystemEffect
<1>6. ASSUME request[r] # Idle, End(r), UNCHANGED <<row, issued, origin>>,
             SystemsOK', SystemEffect(r)
      PROVE  /\ request[r] # Idle
             /\ End(r)
             /\ issued' \in {issued, issued + 1}
             /\ RowsOK'
             /\ RowsKeep'
             /\ OldKeysKept
             /\ SystemsOK'
             /\ \A p \in Keys : row'[p] # row[p] => RowEffect(r, p)
             /\ SystemEffect(r)
  BY <1>6 DEF RowsOK, RowsKeep, OldKeysKept
<1>7. CASE SystemView(r)
  <2>1. /\ request[r] # Idle /\ End(r) /\ UNCHANGED <<row, issued, origin>>
        /\ request[r].organisation # NoOrganisation
        /\ systems' = systems \cup {<<request[r].organisation, request[r].name>>}
        /\ request[r].handler = "SystemView"
    BY <1>0, <1>7 DEF SystemView, Handlers
  <2>2. request[r].organisation \in Organisations /\ request[r].name \in Names
    BY <2>1, RequestTypes DEF Named
  <2>3. QED BY <1>6, <2>1, <2>2 DEF SystemsOK, SystemEffect
<1>8. CASE EditSystemView(r)
  <2>1. /\ request[r] # Idle /\ End(r) /\ UNCHANGED <<row, issued, origin>>
        /\ request[r].handler = "EditSystemView"
    BY <1>0, <1>8 DEF EditSystemView, Handlers
  <2>2. request[r].organisation \in Organisations /\ request[r].name \in Names
    BY <2>1 DEF Named
  <2>3. PICK n \in Names :
           systems' = (systems \ {<<request[r].organisation, request[r].name>>})
                      \cup {<<request[r].organisation, n>>}
    BY <1>8 DEF EditSystemView
  <2>4. QED BY <1>6, <2>1, <2>2, <2>3 DEF SystemsOK, SystemEffect
<1>9. QED BY <1>1, <1>3, <1>4, <1>5, <1>7, <1>8 DEF Writes

-----------------------------------------------------------------------------
(* The invariant is inductive                                              *)

\* Requests that end, and keys that are moved, leave what is known of the
\* other requests true.
LEMMA OthersKept ==
    ASSUME IInv,
           \A q \in Requests : request'[q] \in {request[q], Idle},
           issued' \in {issued, issued + 1},
           OldKeysKept
    PROVE  Named' /\ RequestsKeep' /\ EditsKeep'
<1> USE DEF IInv
<1>1. \A q \in Requests : request'[q].handler # "none" =>
                             request'[q] = request[q] /\ request[q] # Idle
  BY IdleHandler
<1>2. Named'
  BY <1>1 DEF Named
<1>3. issued \in Nat /\ issued <= issued'
  BY TypeParts, ProfilesAssumption DEF RowsOK
<1>4. ASSUME NEW q \in Requests, request'[q] # Idle
      PROVE  /\ request'[q].profile <= issued'
             /\ origin'[request'[q].profile] \in {request'[q].organisation, Moved}
  <2>1. request'[q] = request[q] /\ request[q] # Idle
    BY <1>4
  <2>2. request[q].profile \in Keys /\ request[q].profile <= issued
        /\ origin[request[q].profile] \in {request[q].organisation, Moved}
    BY <2>1, RequestTypes, TypeParts DEF RequestsKeep
  <2>3. QED BY <1>3, <2>1, <2>2 DEF OldKeysKept, Keys
<1>5. ASSUME NEW q \in Requests, request'[q].handler = "UserProfileView",
             request'[q].target # NoProfile
      PROVE  origin'[request'[q].target] \in {request'[q].organisation, Moved}
  <2>1. request'[q] = request[q] /\ request[q] # Idle
    BY <1>1, <1>5
  <2>2. request[q].target \in Keys /\ request[q].target <= issued
    BY <1>3, <1>5, <2>1, RequestTypes, TypeParts
  <2>3. QED BY <1>5, <2>1, <2>2 DEF OldKeysKept, EditsKeep
<1>6. QED BY <1>2, <1>4, <1>5 DEF RequestsKeep, EditsKeep

LEMMA VisitsInv ==
    ASSUME IInv, NEW b \in Browsers, Visits(b)
    PROVE  IInv'
<1> USE DEF IInv
<1>1. /\ SessionsOK' /\ RequestsOK' /\ UNCHANGED <<row, issued, systems, origin>>
  BY VisitsType
<1>2. TypeOK'
  BY <1>1, TypeParts DEF TypeOK, SessionsOK, RequestsOK, Active
<1>3. \A r \in Requests :
         /\ request'[r].handler = request[r].handler
         /\ request'[r].target = request[r].target
         /\ request'[r].name = request[r].name
         /\ request'[r].profile = request[r].profile
         /\ request'[r].organisation = request[r].organisation
         /\ request'[r] # Idle => request[r] # Idle
  <2>1. ASSUME NEW r \in Requests,
               request'[r] = [request[r] EXCEPT !.attached = FALSE]
        PROVE  /\ request'[r].handler = request[r].handler
               /\ request'[r].target = request[r].target
               /\ request'[r].name = request[r].name
               /\ request'[r].profile = request[r].profile
               /\ request'[r].organisation = request[r].organisation
               /\ request'[r] # Idle => request[r] # Idle
    <3>1. request[r] \in Active \/ request[r] = Idle
      BY TypeParts DEF RequestsOK
    <3>2. QED BY <2>1, <3>1, IdleUnattached DEF Active, Idle
  <2>2. QED BY <2>1, VisitsType
<1>4. Named' /\ RequestsKeep' /\ EditsKeep'
  BY <1>1, <1>3 DEF Named, RequestsKeep, EditsKeep
<1>5. RowsKeep'
  BY <1>1 DEF RowsKeep
<1>6. QED BY <1>2, <1>4, <1>5

LEMMA BeginInv ==
    ASSUME IInv, NEW r \in Requests, NEW b \in Browsers, Begin(r, b)
    PROVE  IInv'
<1> USE DEF IInv
<1>1. PICK q \in Active :
         /\ request' = [request EXCEPT ![r] = q]
         /\ Own(b, q.profile)
         /\ q.organisation = row[q.profile].organisation
         /\ q.handler \in {"SystemView", "EditSystemView"} => q.name \in Names
         /\ q.handler = "EditSystemView" => <<q.organisation, q.name>> \in systems
         /\ q.handler = "UserProfileView" /\ q.target # NoProfile =>
               row[q.target] # NoRow /\ row[q.target].organisation = q.organisation
         /\ q.handler = "RemoveUserProfileView" => q.target # NoProfile
  BY BeginNotes
<1>2. UNCHANGED <<row, issued, systems, session, last_org, origin>>
  BY DEF Begin
<1>3. \A s \in Requests : request'[s] = IF s = r THEN q ELSE request[s]
  BY <1>1, TypeParts DEF RequestsOK
<1>4. TypeOK'
  <2>1. RowsOK' /\ SessionsOK' /\ SystemsOK' /\ RequestsOK'
    BY <1>1, <1>2, TypeParts DEF RowsOK, SessionsOK, SystemsOK, RequestsOK, Active
  <2>2. QED BY <2>1, TypeParts DEF TypeOK, RowsOK, SessionsOK, RequestsOK, SystemsOK, Active
<1>5. Named'
  <2>1. q.handler = "EditSystemView" => q.organisation \in Organisations
    BY <1>1, TypeParts DEF SystemsOK
  <2>2. QED BY <1>1, <1>3, <2>1 DEF Named
<1>6. q.profile <= issued /\ origin[q.profile] \in {q.organisation, Moved}
  <2>1. q.profile \in Keys /\ row[q.profile] # NoRow
    BY <1>1 DEF Own
  <2>2. ~(q.profile > issued)
    BY <2>1, TypeParts DEF RowsOK
  <2>3. q.profile \in Nat /\ issued \in Nat
    BY <2>1, TypeParts, ProfilesAssumption DEF RowsOK, Keys
  <2>4. QED BY <1>1, <2>1, <2>2, <2>3 DEF RowsKeep
<1>7. RequestsKeep'
  BY <1>2, <1>3, <1>6 DEF RequestsKeep
<1>8. EditsKeep'
  <2>1. q.handler = "UserProfileView" /\ q.target # NoProfile =>
           origin[q.target] \in {q.organisation, Moved}
    <3>1. q.target # NoProfile => q.target \in Keys
      BY TypeParts, ProfilesAssumption DEF Active, Keys, NoProfile, RowsOK
    <3>2. QED BY <1>1, <3>1 DEF RowsKeep
  <2>2. QED BY <1>2, <1>3, <2>1 DEF EditsKeep
<1>9. RowsKeep'
  BY <1>2 DEF RowsKeep
<1>10. QED BY <1>4, <1>5, <1>7, <1>8, <1>9

LEMMA TypeOKNext ==
    ASSUME RowsOK', SessionsOK', RequestsOK', SystemsOK'
    PROVE  TypeOK'
  BY DEF TypeOK, RowsOK, SessionsOK, RequestsOK, SystemsOK, Active

LEMMA WritesInv ==
    ASSUME IInv, NEW r \in Requests, Writes(r)
    PROVE  IInv'
<1> USE DEF IInv
<1>1. /\ request[r] # Idle /\ End(r) /\ issued' \in {issued, issued + 1}
      /\ RowsOK' /\ RowsKeep' /\ OldKeysKept /\ SystemsOK'
  BY WritesStep
<1>2. SessionsOK' /\ RequestsOK'
  BY <1>1, EndType
<1>3. \A q \in Requests : request'[q] \in {request[q], Idle}
  BY <1>1, TypeParts DEF End, RequestsOK
<1>4. Named' /\ RequestsKeep' /\ EditsKeep'
  BY <1>1, <1>3, OthersKept
<1>5. QED BY <1>1, <1>2, <1>4, TypeOKNext

LEMMA UnsavedInv ==
    ASSUME IInv, NEW r \in Requests, Unsaved(r) \/ Killed(r)
    PROVE  IInv'
<1> USE DEF IInv
<1>1. /\ request[r] # Idle
      /\ request' = [request EXCEPT ![r] = Idle]
      /\ UNCHANGED <<row, issued, systems, origin>>
  BY DEF Unsaved, Killed, End
<1>2. SessionsOK'
  <2>1. CASE Unsaved(r)
    BY <1>1, <2>1, EndType DEF Unsaved
  <2>2. CASE Killed(r)
    BY <2>2, TypeParts DEF Killed, SessionsOK
  <2>3. QED BY <2>1, <2>2
<1>3. RowsOK' /\ SystemsOK' /\ RequestsOK'
  BY <1>1, TypeParts DEF RowsOK, SystemsOK, RequestsOK, Active
<1>4. \A q \in Requests : request'[q] \in {request[q], Idle}
  BY <1>1, TypeParts DEF RequestsOK
<1>5. Named' /\ RequestsKeep' /\ EditsKeep'
  BY <1>1, <1>4, OthersKept DEF OldKeysKept
<1>6. RowsKeep'
  BY <1>1 DEF RowsKeep
<1>7. QED BY <1>2, <1>3, <1>5, <1>6, TypeOKNext

LEMMA AdminInv ==
    ASSUME IInv, UserProfileAdmin
    PROVE  IInv'
<1> USE TypeParts DEF IInv
<1>1. UNCHANGED <<systems, session, last_org, request>>
  BY DEF UserProfileAdmin
<1>2. issued \in Nat /\ MaxProfiles \in Nat /\ issued <= MaxProfiles
  BY ProfilesAssumption DEF RowsOK
<1>3. RowsOK' /\ RowsKeep' /\ OldKeysKept /\ issued' \in {issued, issued + 1}
  <2>1. ASSUME NEW p \in Keys, row' = [row EXCEPT ![p] = NoRow],
               UNCHANGED <<issued, origin>>
        PROVE  RowsOK' /\ RowsKeep' /\ OldKeysKept /\ issued' \in {issued, issued + 1}
    BY <2>1 DEF RowsOK, RowsKeep, OldKeysKept
  <2>2. ASSUME NEW p \in Keys, NEW e \in Rows, row[p] # NoRow,
               row' = [row EXCEPT ![p] = e],
               origin' = IF e.organisation = row[p].organisation THEN origin
                         ELSE [origin EXCEPT ![p] = Moved],
               issued' = issued
        PROVE  RowsOK' /\ RowsKeep' /\ OldKeysKept /\ issued' \in {issued, issued + 1}
    <3>1. RowsOK'
      BY <2>2 DEF RowsOK
    <3>2. \A k \in Keys : k # p => row'[k] = row[k] /\ origin'[k] = origin[k]
      BY <2>2 DEF RowsOK
    <3>3. row'[p] = e /\ origin'[p] \in {origin[p], Moved}
          /\ (e.organisation # row[p].organisation => origin'[p] = Moved)
      BY <2>2 DEF RowsOK
    <3>4. RowsKeep'
      BY <2>2, <3>2, <3>3 DEF RowsKeep
    <3>5. QED BY <2>2, <3>1, <3>2, <3>3, <3>4 DEF OldKeysKept
  <2>3. ASSUME issued < MaxProfiles, issued' = issued + 1, NEW e \in Rows,
               row' = [row EXCEPT ![issued + 1] = e],
               origin' = [origin EXCEPT ![issued + 1] = e.organisation]
        PROVE  RowsOK' /\ RowsKeep' /\ OldKeysKept /\ issued' \in {issued, issued + 1}
    <3>1. issued + 1 \in Keys /\ issued' \in 0..MaxProfiles
      BY <1>2, <2>3 DEF Keys
    <3>2. \A k \in Keys : k # issued + 1 => row'[k] = row[k] /\ origin'[k] = origin[k]
      BY <2>3, <3>1 DEF RowsOK
    <3>3. row'[issued + 1] = e /\ origin'[issued + 1] = e.organisation
      BY <2>3, <3>1 DEF RowsOK
    <3>4. \A k \in Keys : (k > issued' => k > issued /\ k # issued + 1)
                          /\ (k <= issued => k # issued + 1)
      BY <1>2, <2>3 DEF Keys
    <3>5. e.organisation \in Organisations \cup {NoOrganisation}
      BY DEF Rows
    <3>6. RowsOK'
      BY <2>3, <3>1, <3>2, <3>4, <3>5 DEF RowsOK
    <3>7. QED BY <2>3, <3>2, <3>3, <3>4, <3>6 DEF RowsKeep, OldKeysKept
  <2>4. QED BY <2>1, <2>2, <2>3, ProfilesAssumption DEF UserProfileAdmin
<1>4. SystemsOK' /\ SessionsOK' /\ RequestsOK'
  <2>1. \A a \in Active : a \in Active'
    <3>1. 0..issued \subseteq 0..issued'
      BY <1>2, <1>3
    <3>2. QED BY <3>1 DEF Active
  <2>2. QED BY <1>1, <2>1 DEF SystemsOK, SessionsOK, RequestsOK
<1>5. Named' /\ RequestsKeep' /\ EditsKeep'
  BY <1>1, <1>3, OthersKept
<1>6. QED BY <1>3, <1>4, <1>5, TypeOKNext

LEMMA InvStep == IInv /\ [Next]_vars => IInv'
<1> SUFFICES ASSUME IInv, [Next]_vars PROVE IInv'
  OBVIOUS
<1>1. CASE \E b \in Browsers : Visits(b)
  BY <1>1, VisitsInv
<1>2. CASE \E r \in Requests, b \in Browsers : Begin(r, b)
  BY <1>2, BeginInv
<1>3. CASE \E r \in Requests : Writes(r)
  BY <1>3, WritesInv
<1>4. CASE \E r \in Requests : Unsaved(r) \/ Killed(r)
  BY <1>4, UnsavedInv
<1>5. CASE UserProfileAdmin
  BY <1>5, AdminInv
<1>6. CASE UNCHANGED vars
  BY <1>6 DEF vars, IInv, TypeOK, Named, RowsKeep, RequestsKeep, EditsKeep
<1>7. QED BY <1>1, <1>2, <1>3, <1>4, <1>5, <1>6 DEF Next

-----------------------------------------------------------------------------
(* The theorems                                                            *)

LEMMA Invariant == Spec => []IInv
<1>1. Init => IInv
  BY InitInv
<1>2. IInv /\ [Next]_vars => IInv'
  BY InvStep
<1>3. QED BY <1>1, <1>2, PTL DEF Spec

\* Every state that users, leads and operators can bring about is well typed
\* (TypeOK).
THEOREM TypeCorrect == Spec => []TypeOK
<1>1. IInv => TypeOK
  BY DEF IInv
<1>2. QED BY <1>1, Invariant, PTL

\* A primary key that a session, a cookie or a running request remembers keeps
\* its organisation, whatever is removed, written anew or added meanwhile,
\* unless operators move its profile (KeysKeepTheirOrganisation).
THEOREM KeysAreKept == Spec => []KeysKeepTheirOrganisation
<1>1. IInv => KeysKeepTheirOrganisation
  BY DEF IInv, RowsKeep, RequestsKeep, KeysKeepTheirOrganisation
<1>2. QED BY <1>1, Invariant, PTL

\* The step of OwnOrganisation.
OwnStep ==
    \A r \in Requests : Ends(r) =>
        /\ \A p \in Keys : row'[p] # row[p] =>
              /\ \/ row[p] = NoRow \/ row[p].organisation = request[r].organisation
                 \/ origin[p] = Moved /\ request[r].handler = "UserProfileView"
              /\ \/ row'[p] = NoRow
                 \/ /\ row'[p].role # Advisor
                    /\ row'[p].organisation \in {request[r].organisation, NoOrganisation}
        /\ \A s \in Organisations \X Names :
              (s \in systems') # (s \in systems) => s[1] = request[r].organisation

LEMMA OwnOrganisationStep == IInv /\ [Next]_vars => OwnStep
<1> SUFFICES ASSUME IInv, [Next]_vars PROVE OwnStep
  OBVIOUS
<1>1. CASE UNCHANGED row /\ UNCHANGED systems
  BY <1>1 DEF OwnStep
<1>2. CASE \E b \in Browsers : Visits(b)
  BY <1>1, <1>2, VisitsType DEF IInv
<1>3. CASE \E r \in Requests, b \in Browsers : Begin(r, b)
  BY <1>1, <1>3 DEF Begin
<1>4. ASSUME NEW r \in Requests, Writes(r)
      PROVE  OwnStep
  <2>1. /\ request[r] # Idle /\ End(r)
        /\ \A p \in Keys : row'[p] # row[p] => RowEffect(r, p)
        /\ SystemEffect(r)
    BY <1>4, WritesStep
  <2>2. \A q \in Requests : Ends(q) => q = r
    BY <2>1, TypeParts DEF End, Ends, RequestsOK, IInv
  <2>3. QED BY <2>1, <2>2 DEF OwnStep, RowEffect, SystemEffect
<1>5. CASE \E r \in Requests : Unsaved(r) \/ Killed(r)
  BY <1>1, <1>5 DEF Unsaved, Killed
<1>6. CASE UNCHANGED request
  BY <1>6 DEF OwnStep, Ends
<1>7. CASE UserProfileAdmin
  BY <1>6, <1>7 DEF UserProfileAdmin
<1>8. CASE UNCHANGED vars
  BY <1>1, <1>8 DEF vars
<1>9. QED BY <1>2, <1>3, <1>4, <1>5, <1>7, <1>8 DEF Next

\* Whatever pages are sent at the same time and whatever operators remove, add
\* or change while they run, a lead or advisor changes the profiles and systems
\* of his own organisation only (OwnOrganisation).
THEOREM ChangesOwnOrganisation == Spec => OwnOrganisation
<1>1. IInv /\ [Next]_vars => [OwnStep]_vars
  BY OwnOrganisationStep
<1>2. Spec => [][OwnStep]_vars
  BY <1>1, Invariant, PTL DEF Spec
<1>3. QED BY <1>2 DEF OwnStep, OwnOrganisation
=============================================================================
