------------------------------- MODULE SignIn -------------------------------
(***************************************************************************)
(* Signing in to WebCAF: the accounts that sign-in and the user forms      *)
(* create, the sessions of the browsers, the idle timeout and the one-time *)
(* code of the second factor.                                              *)
(*                                                                         *)
(* The identity provider presents an address as it has it written; which   *)
(* account that is depends on SSO_MODE.  A session is what the server      *)
(* keeps for a browser's cookie; its working data are the keys that the    *)
(* pages put there (current_profile_id, draft_assessment, profile_count).  *)
(***************************************************************************)
EXTENDS Naturals, Sequences, FiniteSets

CONSTANTS
    Addresses,      \* e-mail addresses, in the ways they can be written
    Lower,          \* str.lower
    Domain,         \* the part of an address behind its last @
    Accounts,       \* primary keys of User, 1..n
    Staff,          \* the accounts with is_staff
    CsvAddresses,   \* the addresses in the files that operators import
    Browsers,
    Modes,          \* values of SSO_MODE
    MaxCodes        \* bound: one-time codes sent

NoAddress == "none"

ASSUME SignInAssumption ==
    /\ NoAddress \notin Addresses
    /\ Lower \in [Addresses -> Addresses]
    /\ \A a \in Addresses : Lower[Lower[a]] = Lower[a]
    /\ Domain \in [Addresses -> {Domain[a] : a \in Addresses}]
    /\ Accounts \subseteq Nat \ {0} /\ IsFiniteSet(Accounts)
    /\ Staff \subseteq Accounts
    /\ CsvAddresses \subseteq Addresses
    /\ Modes \subseteq {"external", "internal-access", "one-login", "local"}
    /\ MaxCodes \in Nat

VARIABLES
    SSO_MODE,
    admin_verification_enabled, \* of the Settings row
    AllowedEmailDomain,         \* the domains that may create accounts
    email,                      \* User.email, NoAddress while there is no row
    username,                   \* User.username, NoAddress if it is not one
    session,                    \* the session of each browser
    pending,                    \* an address a sign-in found no account for
    device,                     \* the code that an account's device accepts
    codes                       \* the account each code was sent to

vars == <<SSO_MODE, admin_verification_enabled, AllowedEmailDomain, email,
          username, session, pending, device, codes>>

accounts == <<email, username>>
settings == <<SSO_MODE, admin_verification_enabled, AllowedEmailDomain>>

Nobody == 0
NoCode == 0

Domains == {Domain[a] : a \in Addresses}
Fresh == [user |-> Nobody, code |-> NoCode, idle |-> FALSE, rejected |-> FALSE,
          data |-> Nobody]

\* Only the external mode asks for a one-time code (outside development).
ENABLED_2FA == SSO_MODE = "external"

Init ==
    /\ SSO_MODE \in Modes
    /\ admin_verification_enabled \in BOOLEAN
    /\ AllowedEmailDomain = Domains
    /\ email \in {e \in [Accounts -> Addresses \cup {NoAddress}] :
                    \A u \in Accounts : e[u] # NoAddress <=> u \in Staff}
    /\ username = [u \in Accounts |-> NoAddress]
    /\ session = [b \in Browsers |-> Fresh]
    /\ pending = [b \in Browsers |-> NoAddress]
    /\ device = [u \in Accounts |-> NoCode]
    /\ codes = <<>>

-----------------------------------------------------------------------------
(* Accounts                                                                *)

Stored == {u \in Accounts : email[u] # NoAddress}
Unused(u) == u \notin Stored /\ \A w \in Accounts \ Stored : u <= w

\* iexact: addresses that differ in case only are one.
Same(a, c) == a # NoAddress /\ Lower[a] = Lower[c]

allows_email(a) == Domain[a] \in AllowedEmailDomain

\* The accounts an address signs in to.
filter_users_by_claims(a) ==
    {u \in Stored \ Staff :
        /\ Same(email[u], a)
        /\ SSO_MODE \in {"external", "local"} =>
              username[u] # NoAddress /\ Same(username[u], a)}

\* Mutant: One Login's claims are stored as they come.
Claim_AsWritten(a) == a

\* One Login's claims are taken in lower case, those of OIDC as they come.
Claim(a) == IF SSO_MODE = "one-login" THEN Lower[a] ELSE a

\* The username is unique, as it is written; the insert is refused otherwise.
create_user(u, a) ==
    /\ Unused(u)
    /\ \A w \in Stored : username[w] # a
    /\ email' = [email EXCEPT ![u] = a]
    /\ username' = [username EXCEPT ![u] = a]

\* login(): the session of somebody else is flushed, one's own is kept.
login(b, u) ==
    session' = [session EXCEPT ![b] =
        IF @.user \in {Nobody, u} THEN [@ EXCEPT !.user = u]
        ELSE [Fresh EXCEPT !.user = u]]

\* The callback of a failed sign-in: Internal Access also signs out.
login_failure(b, rejected) ==
    session' = [session EXCEPT ![b] =
        IF SSO_MODE = "internal-access"
        THEN [Fresh EXCEPT !.rejected = rejected \/ session[b].rejected]
        ELSE [@ EXCEPT !.rejected = rejected \/ session[b].rejected]]

\* A browser works while its session has not gone idle and no callback of its
\* own is under way.
Ready(b) == pending[b] = NoAddress /\ ~session[b].idle

\* The callback of the provider, with the address it has verified.  One match
\* signs in; several do not; none goes on to create the account.
Authenticate(b) ==
    /\ Ready(b)
    /\ \E a \in Addresses :
          LET matches == filter_users_by_claims(Claim(a)) IN
          \/ /\ Cardinality(matches) = 1
             /\ \E u \in matches : login(b, u)
             /\ UNCHANGED pending
          \/ /\ Cardinality(matches) > 1
             /\ login_failure(b, FALSE)
             /\ UNCHANGED pending
          \/ /\ matches = {}
             /\ ~allows_email(Claim(a))
             /\ login_failure(b, TRUE)
             /\ UNCHANGED pending
          \/ /\ matches = {}
             /\ allows_email(Claim(a))
             /\ pending' = [pending EXCEPT ![b] = Claim(a)]
             /\ UNCHANGED session
    /\ UNCHANGED <<settings, accounts, device, codes>>

\* The provider refuses, its answer is incomplete, or a call to it fails.
ProviderError(b) ==
    /\ Ready(b)
    /\ login_failure(b, FALSE)
    /\ UNCHANGED <<settings, accounts, pending, device, codes>>

CreateAccount(b) ==
    /\ pending[b] # NoAddress
    /\ \E u \in Accounts : create_user(u, pending[b]) /\ login(b, u)
    /\ pending' = [pending EXCEPT ![b] = NoAddress]
    /\ UNCHANGED <<settings, device, codes>>

\* The insert of an account whose username was taken meanwhile: an error page.
AccountExists(b) ==
    /\ \E w \in Stored : username[w] = pending[b]
    /\ pending' = [pending EXCEPT ![b] = NoAddress]
    /\ UNCHANGED <<settings, accounts, session, device, codes>>

\* The password form of the admin site.
StaffLogin(b) ==
    /\ Ready(b)
    /\ \E u \in Staff : login(b, u)
    /\ UNCHANGED <<settings, accounts, pending, device, codes>>

\* A lead or an advisor gives a profile to an address: its account is found as
\* the address is written in lower case, staff included, or made.
UserProfileForm ==
    \E a \in Addresses :
        LET found == {u \in Stored : email[u] = Lower[a]} IN
        /\ \/ found = {} /\ \E u \in Accounts : create_user(u, Lower[a])
           \/ /\ Cardinality(found) = 1
              /\ \A w \in Stored \ found : username[w] # Lower[a]
              /\ username' = [u \in Accounts |->
                                IF u \in found THEN Lower[a] ELSE username[u]]
              /\ UNCHANGED email
        /\ UNCHANGED <<settings, session, pending, device, codes>>

\* The CSV import of the admin site finds and makes accounts as written.
ImportAdvisor ==
    \E a \in CsvAddresses, u \in Accounts :
        /\ a \notin {email[w] : w \in Stored}
        /\ create_user(u, a)
        /\ UNCHANGED <<settings, session, pending, device, codes>>

\* The rows of AllowedEmailDomain and Settings, edited in the admin site.
SettingsAdmin ==
    /\ \/ /\ AllowedEmailDomain' \in SUBSET Domains
          /\ UNCHANGED admin_verification_enabled
       \/ /\ admin_verification_enabled' = ~admin_verification_enabled
          /\ UNCHANGED AllowedEmailDomain
    /\ UNCHANGED <<SSO_MODE, accounts, session, pending, device, codes>>

-----------------------------------------------------------------------------
(* Sessions                                                                *)

\* More than USER_IDLE_TIMEOUT since the last request.
GoIdle(b) ==
    /\ session[b].user # Nobody
    /\ session' = [session EXCEPT ![b].idle = TRUE]
    /\ UNCHANGED <<settings, accounts, pending, device, codes>>

Flush(b) ==
    /\ session' = [session EXCEPT ![b] = Fresh]
    /\ UNCHANGED <<settings, accounts, pending, device, codes>>

\* Mutant: the landing page takes the user out of an idle session, no more.
Index_PopsUser(b) ==
    /\ session[b].idle
    /\ session' = [session EXCEPT ![b].user = Nobody, ![b].idle = FALSE]
    /\ UNCHANGED <<settings, accounts, pending, device, codes>>

\* The landing page ends an idle session; every other page sends an idle user
\* to session-expired.
Index(b) == session[b].idle /\ Flush(b)

session_expired(b) == session[b].user # Nobody /\ Flush(b)

logout_view(b) == Ready(b) /\ Flush(b)

AuthenticationErrorView(b) ==
    /\ Ready(b)
    /\ session' = [session EXCEPT ![b].rejected = FALSE]
    /\ UNCHANGED <<settings, accounts, pending, device, codes>>

\* LoginRequiredMiddleware: who is let through to a page.
Admitted(b) ==
    /\ session[b].user # Nobody
    /\ \/ ~ENABLED_2FA
       \/ session[b].code # NoCode
       \/ session[b].user \in Staff /\ ~admin_verification_enabled

\* A page of the application; it keeps its working data in the session.
Page(b) ==
    /\ Ready(b)
    /\ Admitted(b)
    /\ session' = [session EXCEPT ![b].data = session[b].user]
    /\ UNCHANGED <<settings, accounts, pending, device, codes>>

\* Every load of the page for the code sends a new one, which replaces the old
\* one; the device may hold it back for a while.  Where no code is asked for,
\* no page leads here.
VerifyPage(b) ==
    /\ ENABLED_2FA
    /\ Ready(b)
    /\ session[b].user # Nobody
    /\ Len(codes) < MaxCodes
    /\ codes' = Append(codes, session[b].user)
    /\ device' = [device EXCEPT ![session[b].user] = Len(codes) + 1]
    /\ UNCHANGED <<settings, accounts, session, pending>>

\* Mutant: the device is not looked up by its user.
verify_token_AnyDevice(u, n) == \E w \in Accounts : device[w] = n

verify_token(u, n) == device[u] = n

\* A code that is accepted is used up; any other leaves the session as it is.
VerifyToken(b) ==
    /\ Ready(b)
    /\ session[b].user # Nobody
    /\ \E n \in DOMAIN codes :
          /\ verify_token(session[b].user, n)
          /\ session' = [session EXCEPT ![b].code = n]
          /\ device' = [device EXCEPT ![session[b].user] = NoCode]
    /\ UNCHANGED <<settings, accounts, pending, codes>>

CodeExpires ==
    /\ \E u \in Accounts :
          /\ device[u] # NoCode
          /\ device' = [device EXCEPT ![u] = NoCode]
    /\ UNCHANGED <<settings, accounts, session, pending, codes>>

-----------------------------------------------------------------------------
(* The specification                                                       *)

SigningIn(b) ==
    \/ Authenticate(b)
    \/ ProviderError(b)
    \/ CreateAccount(b)
    \/ AccountExists(b)
    \/ StaffLogin(b)

Browsing(b) ==
    \/ GoIdle(b)
    \/ Index(b)
    \/ session_expired(b)
    \/ logout_view(b)
    \/ AuthenticationErrorView(b)
    \/ Page(b)
    \/ VerifyPage(b)
    \/ VerifyToken(b)

Next ==
    \/ \E b \in Browsers : SigningIn(b) \/ Browsing(b)
    \/ UserProfileForm
    \/ ImportAdvisor
    \/ SettingsAdmin
    \/ CodeExpires

Spec == Init /\ [][Next]_vars

-----------------------------------------------------------------------------
(* Properties                                                              *)

\* The types of the variables; a session without a user is an empty one.
TypeOK ==
    /\ SSO_MODE \in Modes
    /\ admin_verification_enabled \in BOOLEAN
    /\ AllowedEmailDomain \subseteq Domains
    /\ email \in [Accounts -> Addresses \cup {NoAddress}]
    /\ username \in [Accounts -> Addresses \cup {NoAddress}]
    /\ codes \in Seq(Accounts)
    /\ device \in [Accounts -> 0..Len(codes)]
    /\ pending \in [Browsers -> Addresses \cup {NoAddress}]
    /\ session \in [Browsers -> [user : Accounts \cup {Nobody}, code : 0..Len(codes),
                                 idle : BOOLEAN, rejected : BOOLEAN,
                                 data : Accounts \cup {Nobody}]]
    /\ \A b \in Browsers :
          session[b].user = Nobody =>
              session[b] \in {Fresh, [Fresh EXCEPT !.rejected = TRUE]}

\* Whoever shared the browser before, went idle in it or signed in over it:
\* the working data of a session are those of the user who is signed in, and
\* where a second factor is asked for, that user gave in this session a code
\* that was sent to his own account.
WorkBelongsToItsUser ==
    \A b \in Browsers :
        LET s == session[b] IN
        s.data # Nobody =>
            /\ s.data = s.user
            /\ ENABLED_2FA /\ s.user \notin Staff =>
                  s.code # NoCode /\ codes[s.code] = s.user

\* With One Login, unless operators import addresses in mixed case, a mailbox
\* has one account, whoever asks for it first and however often: two would lock
\* its owner out, for two matches are refused.
OneAccountPerMailbox ==
    SSO_MODE = "one-login" /\ (\A a \in CsvAddresses : Lower[a] = a) =>
        \A a \in Addresses : Cardinality(filter_users_by_claims(a)) <= 1
=============================================================================
