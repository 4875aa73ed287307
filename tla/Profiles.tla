------------------------------ MODULE Profiles ------------------------------
(***************************************************************************)
(* User profiles: which organisation a signed-in user acts for, in which   *)
(* role, and the pages on which leads and cyber advisors manage the users  *)
(* and the systems of their organisation.                                  *)
(*                                                                         *)
(* A request reads its profile when it begins and writes when it ends;     *)
(* others run in between.  The current profile is kept in the session, and *)
(* in a cookie that outlives the session and its user.                     *)
(***************************************************************************)
EXTENDS Naturals, Sequences

CONSTANTS
    Users,
    Organisations,
    Roles,          \* of UserProfile.ROLE_CHOICES
    Names,          \* names of systems
    Given,          \* the profiles that operators have imported
    Entered,        \* what operators make of a profile on the admin site
    Browsers,
    Requests,       \* slots: requests that can be under way at a time
    MaxProfiles     \* bound: primary keys of UserProfile

Advisor == "cyber_advisor"
Lead == "organisation_lead"

VARIABLES
    row,        \* the rows of UserProfile, by primary key
    issued,     \* the last primary key given out
    systems,    \* the rows of System: <<organisation, name>>
    session,    \* user and current_profile_id of each browser's session
    last_org,   \* the cookie of each browser
    request,    \* what runs in each slot
    origin      \* history: the organisation that each key was given out for

vars == <<row, issued, systems, session, last_org, request, origin>>

Keys == 1..MaxProfiles
NoRow == [user |-> "none", organisation |-> "none", role |-> "none"]
Nobody == "none"
NoOrganisation == "null"
NoProfile == 0
Moved == "moved"    \* the origin of a profile that operators have moved

Rows == [user : Users, organisation : Organisations \cup {NoOrganisation},
         role : Roles]

ASSUME ProfilesAssumption ==
    /\ MaxProfiles \in Nat
    /\ Given \subseteq {g \in Seq(Rows) : Len(g) <= MaxProfiles}
    /\ Entered \subseteq Rows
    /\ {Nobody, NoOrganisation, Moved} \cap (Users \cup Organisations \cup Roles \cup Names) = {}

\* Where a request is: waiting for nobody, or about to write.
Idle == [handler |-> "none", browser |-> "none", profile |-> NoProfile,
         organisation |-> NoOrganisation, target |-> NoProfile, name |-> "none",
         attached |-> FALSE]

Init ==
    /\ \E g \in Given :
          /\ row = [p \in Keys |-> IF p \in DOMAIN g THEN g[p] ELSE NoRow]
          /\ issued = Len(g)
    /\ origin = [p \in Keys |-> row[p].organisation]
    /\ systems = {}
    /\ session = [b \in Browsers |-> [user |-> Nobody, profile |-> NoProfile]]
    /\ last_org = [b \in Browsers |-> NoProfile]
    /\ request = [r \in Requests |-> Idle]

-----------------------------------------------------------------------------
(* The current profile                                                     *)

Own(b, p) == p \in Keys /\ row[p] # NoRow /\ row[p].user = session[b].user

\* The profile of the session, if it is still there and still the user's.
get_current_user_profile(b) ==
    IF Own(b, session[b].profile) THEN session[b].profile ELSE NoProfile

\* The profile of the session, else that of the cookie, else the first one.
resolve_current_user_profile(b) ==
    IF Own(b, session[b].profile) THEN session[b].profile
    ELSE IF Own(b, last_org[b]) THEN last_org[b]
    ELSE IF \E p \in Keys : Own(b, p)
    THEN CHOOSE p \in Keys : Own(b, p) /\ \A q \in Keys : Own(b, q) => p <= q
    ELSE NoProfile

\* A new session: what still runs under the old one cannot save it.
Renew(b, u) ==
    /\ session' = [session EXCEPT ![b] = [user |-> u, profile |-> NoProfile]]
    /\ request' = [r \in Requests |->
                     IF request[r].browser = b
                     THEN [request[r] EXCEPT !.attached = FALSE] ELSE request[r]]
    /\ UNCHANGED <<row, issued, systems, last_org, origin>>

SignIn(b) == session[b].user = Nobody /\ \E u \in Users : Renew(b, u)

SignOut(b) == session[b].user # Nobody /\ Renew(b, Nobody)

\* The page is answered: the profile is in the session and in the cookie.
Chosen(b, p) ==
    /\ session' = [session EXCEPT ![b].profile = p]
    /\ last_org' = [last_org EXCEPT ![b] = IF p = NoProfile THEN @ ELSE p]
    /\ UNCHANGED <<row, issued, systems, request, origin>>

AccountView(b) ==
    /\ session[b].user # Nobody
    /\ Chosen(b, resolve_current_user_profile(b))

ChangeActiveProfileView(b) ==
    /\ session[b].user # Nobody
    /\ \E p \in Keys : Own(b, p) /\ Chosen(b, p)

\* Any other page: a profile that is gone is taken out of the session.
OtherPage(b) ==
    /\ session[b].user # Nobody
    /\ Chosen(b, get_current_user_profile(b))

-----------------------------------------------------------------------------
(* The pages of leads and advisors                                         *)

Handlers == {"UserProfileView", "CreateUserProfileView", "RemoveUserProfileView",
             "SystemView", "EditSystemView"}

get_allowed_roles(h) ==
    IF h \in {"SystemView", "EditSystemView"} THEN {Advisor} ELSE {Advisor, Lead}

\* Mutant: profiles of other organisations can be opened.
get_object_Any(o, p) == IF row[p] # NoRow THEN p ELSE NoProfile

\* The object of the page, if it is one of the profile's organisation.
get_object(o, p) == IF row[p] # NoRow /\ row[p].organisation = o THEN p ELSE NoProfile

\* dispatch and get_object: the profile, its role and what is to be changed
\* are read; the form is confirmed.
Begin(r, b) ==
    /\ request[r] = Idle
    /\ session[b].user # Nobody
    /\ LET p == get_current_user_profile(b) IN
       /\ p # NoProfile
       /\ \E h \in Handlers, t \in 1..issued, n \in Names :
             /\ row[p].role \in get_allowed_roles(h)
             /\ h = "SystemView" => <<row[p].organisation, n>> \notin systems
             /\ h = "EditSystemView" => <<row[p].organisation, n>> \in systems
             /\ request' = [request EXCEPT ![r] =
                  [handler |-> h, browser |-> b, profile |-> p,
                   organisation |-> row[p].organisation,
                   target |-> CASE h = "UserProfileView" ->
                                      get_object(row[p].organisation, t)
                                [] h = "RemoveUserProfileView" -> t
                                [] OTHER -> NoProfile,
                   name |-> IF h \in {"SystemView", "EditSystemView"} THEN n ELSE "none",
                   attached |-> TRUE]]
    /\ UNCHANGED <<row, issued, systems, session, last_org, origin>>

\* The answer: the session is saved as the request has it, even over a later
\* choice, and the cookie is set.
End(r) ==
    LET b == request[r].browser IN
    /\ request' = [request EXCEPT ![r] = Idle]
    /\ session' = IF request[r].attached
                  THEN [session EXCEPT ![b].profile = request[r].profile] ELSE session
    /\ last_org' = [last_org EXCEPT ![b] = request[r].profile]

clean_role == Roles \ {Advisor}

\* Mutant: the key of a removed profile is given out again.
Insert_AtTheEnd(o) ==
    /\ issued < MaxProfiles
    /\ UNCHANGED issued
    /\ \E u \in Users, role \in clean_role :
          row' = [row EXCEPT ![issued + 1] =
                    [user |-> u, organisation |-> o, role |-> role]]
    /\ origin' = [origin EXCEPT ![issued + 1] = o]

\* A new row; the primary keys are never given out again.
Insert(o) ==
    /\ issued < MaxProfiles
    /\ issued' = issued + 1
    /\ \E u \in Users, role \in clean_role :
          row' = [row EXCEPT ![issued + 1] =
                    [user |-> u, organisation |-> o, role |-> role]]
    /\ origin' = [origin EXCEPT ![issued + 1] = o]

\* The form is saved: the row as it was loaded with the new user and role,
\* written anew if it has gone meanwhile.  A row that was not found when the
\* form was posted becomes a new one without an organisation.
UserProfileView(r) ==
    /\ request[r].handler = "UserProfileView"
    /\ \/ /\ request[r].target # NoProfile
          /\ \E u \in Users, role \in clean_role :
                row' = [row EXCEPT ![request[r].target] =
                          [user |-> u, organisation |-> request[r].organisation,
                           role |-> role]]
          /\ UNCHANGED <<issued, origin>>
       \/ request[r].target = NoProfile /\ Insert(NoOrganisation)
    /\ End(r)
    /\ UNCHANGED systems

CreateUserProfileView(r) ==
    /\ request[r].handler = "CreateUserProfileView"
    /\ Insert(request[r].organisation)
    /\ End(r)
    /\ UNCHANGED systems

\* Mutant: the organisation of the row is not compared.
Removable_Any(r) == row[request[r].target] # NoRow

\* The row is read again, and compared with the profile's organisation.
Removable(r) ==
    /\ row[request[r].target] # NoRow
    /\ row[request[r].target].organisation = request[r].organisation

RemoveUserProfileView(r) ==
    /\ request[r].handler = "RemoveUserProfileView"
    /\ Removable(r)
    /\ row' = [row EXCEPT ![request[r].target] = NoRow]
    /\ End(r)
    /\ UNCHANGED <<issued, systems, origin>>

\* The name was free when it was looked up; the unique key has the last word.
SystemView(r) ==
    /\ request[r].handler = "SystemView"
    /\ request[r].organisation # NoOrganisation
    /\ <<request[r].organisation, request[r].name>> \notin systems
    /\ systems' = systems \cup {<<request[r].organisation, request[r].name>>}
    /\ End(r)
    /\ UNCHANGED <<row, issued, origin>>

\* Renames the system; the name of another one of the organisation is refused.
EditSystemView(r) ==
    /\ request[r].handler = "EditSystemView"
    /\ \E n \in Names :
          LET o == request[r].organisation IN
          /\ n # request[r].name => <<o, n>> \notin systems
          /\ systems' = (systems \ {<<o, request[r].name>>}) \cup {<<o, n>>}
    /\ End(r)
    /\ UNCHANGED <<row, issued, origin>>

\* "change", an invalid form, a refusal or an error: nothing is written but
\* the session.
Unsaved(r) ==
    /\ request[r] # Idle
    /\ End(r)
    /\ UNCHANGED <<row, issued, systems, origin>>

\* gunicorn kills the worker.
Killed(r) ==
    /\ request[r] # Idle
    /\ request' = [request EXCEPT ![r] = Idle]
    /\ UNCHANGED <<row, issued, systems, session, last_org, origin>>

\* The admin site removes profiles, changes them in any way, and adds some.
UserProfileAdmin ==
    /\ \/ /\ \E p \in Keys : row[p] # NoRow /\ row' = [row EXCEPT ![p] = NoRow]
          /\ UNCHANGED <<issued, origin>>
       \/ /\ \E p \in Keys, e \in Entered :
                /\ row[p] # NoRow
                /\ row' = [row EXCEPT ![p] = e]
                /\ origin' = IF e.organisation = row[p].organisation THEN origin
                             ELSE [origin EXCEPT ![p] = Moved]
          /\ UNCHANGED issued
       \/ /\ issued < MaxProfiles
          /\ issued' = issued + 1
          /\ \E e \in Entered :
                /\ row' = [row EXCEPT ![issued + 1] = e]
                /\ origin' = [origin EXCEPT ![issued + 1] = e.organisation]
    /\ UNCHANGED <<systems, session, last_org, request>>

-----------------------------------------------------------------------------
(* The specification                                                       *)

Writes(r) ==
    \/ UserProfileView(r)
    \/ CreateUserProfileView(r)
    \/ RemoveUserProfileView(r)
    \/ SystemView(r)
    \/ EditSystemView(r)

Visits(b) ==
    \/ SignIn(b)
    \/ SignOut(b)
    \/ AccountView(b)
    \/ ChangeActiveProfileView(b)
    \/ OtherPage(b)

Next ==
    \/ \E b \in Browsers : Visits(b)
    \/ \E r \in Requests :
          Writes(r) \/ Unsaved(r) \/ Killed(r) \/ \E b \in Browsers : Begin(r, b)
    \/ UserProfileAdmin

Spec == Init /\ [][Next]_vars

-----------------------------------------------------------------------------
(* Properties                                                              *)

\* The types of the variables; a key that was not given out has no row.
TypeOK ==
    /\ row \in [Keys -> Rows \cup {NoRow}]
    /\ issued \in 0..MaxProfiles
    /\ \A p \in Keys : p > issued => row[p] = NoRow
    /\ origin \in [Keys -> Organisations \cup {NoOrganisation, Moved, "none"}]
    /\ systems \subseteq Organisations \X Names
    /\ session \in [Browsers -> [user : Users \cup {Nobody}, profile : Keys \cup {NoProfile}]]
    /\ last_org \in [Browsers -> Keys \cup {NoProfile}]
    /\ request \in [Requests ->
         [handler : Handlers, browser : Browsers, profile : Keys,
          organisation : Organisations \cup {NoOrganisation},
          target : 0..issued, name : Names \cup {"none"}, attached : BOOLEAN]
         \cup {Idle}]

Ends(r) == request[r] # Idle /\ request'[r] = Idle

\* Whatever profile, page or name a request was sent for, and whatever others
\* did while it ran, it changes the profiles and systems of the organisation
\* its user acted for when it began, and makes no advisor.  The exceptions are
\* the row without an organisation, and an edit that was under way when
\* operators moved the profile: it takes the profile back.
OwnOrganisation ==
    [][\A r \in Requests : Ends(r) =>
         /\ \A p \in Keys : row'[p] # row[p] =>
               /\ \/ row[p] = NoRow \/ row[p].organisation = request[r].organisation
                  \/ origin[p] = Moved /\ request[r].handler = "UserProfileView"
               /\ \/ row'[p] = NoRow
                  \/ /\ row'[p].role # Advisor
                     /\ row'[p].organisation \in {request[r].organisation, NoOrganisation}
         /\ \A s \in Organisations \X Names :
               (s \in systems') # (s \in systems) => s[1] = request[r].organisation]_vars

\* Sessions, cookies and running requests remember the primary keys of
\* profiles, and other users, a removal or a sign-in may come in between.  A
\* key stays good: unless operators move its profile, it stands for the
\* organisation it was given out for or for nothing, also when an edit that was
\* under way writes a removed profile anew or gives it to somebody else, and
\* what runs under it acts for that organisation (SessionUtil, UserProfileView).
KeysKeepTheirOrganisation ==
    /\ \A p \in Keys : row[p] # NoRow => origin[p] \in {row[p].organisation, Moved}
    /\ \A r \in Requests : request[r] # Idle =>
          origin[request[r].profile] \in {request[r].organisation, Moved}
=============================================================================
