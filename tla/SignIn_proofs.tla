---------------------------- MODULE SignIn_proofs ----------------------------
(***************************************************************************)
(* Proofs about SignIn, for every number of accounts, browsers and codes:  *)
(* a session holds the work of its own user only, and with One Login a     *)
(* mailbox has one account.                                                *)
(***************************************************************************)
EXTENDS SignIn, FiniteSetTheorems, TLAPS

-----------------------------------------------------------------------------
(* The inductive invariant                                                 *)

SettingsOK ==
    /\ SSO_MODE \in Modes
    /\ admin_verification_enabled \in BOOLEAN
    /\ AllowedEmailDomain \subseteq Domains

AccountsOK ==
    /\ email \in [Accounts -> Addresses \cup {NoAddress}]
    /\ username \in [Accounts -> Addresses \cup {NoAddress}]

PendingOK == pending \in [Browsers -> Addresses \cup {NoAddress}]

\* A code that a device accepts was sent to its own user.
CodesOK ==
    /\ codes \in Seq(Accounts)
    /\ device \in [Accounts -> 0..Len(codes)]
    /\ \A u \in Accounts : device[u] # NoCode => codes[device[u]] = u

Sessions == [user : Accounts \cup {Nobody}, code : 0..Len(codes),
             idle : BOOLEAN, rejected : BOOLEAN, data : Accounts \cup {Nobody}]

\* A session's code was sent to its user, its data are those of its user, and
\* they are there only after the code, where one is asked for.
Good(s) ==
    /\ s \in Sessions
    /\ s.user = Nobody => s.code = NoCode /\ s.idle = FALSE /\ s.data = Nobody
    /\ s.code # NoCode => codes[s.code] = s.user
    /\ s.data # Nobody =>
          /\ s.data = s.user
          /\ ENABLED_2FA /\ s.user \notin Staff => s.code # NoCode

SessionsOK == session \in [Browsers -> Sessions] /\ \A b \in Browsers : Good(session[b])

\* Usernames are unique; with One Login they are the address in lower case.
CsvLower == \A a \in CsvAddresses : Lower[a] = a

OneUsername ==
    \A u, w \in Stored :
        username[u] = username[w] /\ username[u] # NoAddress => u = w

LowerCase ==
    SSO_MODE = "one-login" /\ CsvLower =>
        /\ \A u \in Stored \ Staff : username[u] = email[u] /\ Lower[email[u]] = email[u]
        /\ \A b \in Browsers : pending[b] # NoAddress => Lower[pending[b]] = pending[b]

IInv == SettingsOK /\ AccountsOK /\ PendingOK /\ CodesOK /\ SessionsOK
        /\ OneUsername /\ LowerCase

-----------------------------------------------------------------------------
(* Sessions                                                                *)

\* Accounts are numbers, and nobody is none of them.
LEMMA AccountsAreSomebody == Accounts \subseteq Nat /\ Nobody \notin Accounts
  BY SignInAssumption DEF Nobody

LEMMA FreshIsGood ==
    ASSUME CodesOK, NEW x \in BOOLEAN
    PROVE  Good([Fresh EXCEPT !.rejected = x]) /\ Good(Fresh)
<1>1. 0 \in 0..Len(codes)
  BY DEF CodesOK
<1>2. QED BY <1>1 DEF Good, Fresh, Sessions, Nobody, NoCode

LEMMA RejectedIsGood ==
    ASSUME NEW s, Good(s), NEW x \in BOOLEAN
    PROVE  Good([s EXCEPT !.rejected = x])
  BY DEF Good, Sessions

LEMMA LoginIsGood ==
    ASSUME CodesOK, NEW s, Good(s), NEW u \in Accounts
    PROVE  /\ s.user \in {Nobody, u} => Good([s EXCEPT !.user = u])
           /\ Good([Fresh EXCEPT !.user = u])
<1>1. ASSUME s.user \in {Nobody, u}
      PROVE  Good([s EXCEPT !.user = u])
  BY <1>1, AccountsAreSomebody DEF Good, Sessions
<1>2. Good([Fresh EXCEPT !.user = u])
  <2>1. 0 \in 0..Len(codes)
    BY DEF CodesOK
  <2>2. QED BY <2>1, AccountsAreSomebody DEF Good, Fresh, Sessions, Nobody, NoCode
<1>3. QED BY <1>1, <1>2

\* One session changes into another that is good.
LEMMA SessionStep ==
    ASSUME SessionsOK, UNCHANGED <<codes, SSO_MODE>>, NEW b \in Browsers, NEW s, Good(s),
           session' = [session EXCEPT ![b] = s]
    PROVE  SessionsOK'
<1>1. Sessions' = Sessions /\ ENABLED_2FA' = ENABLED_2FA
  BY DEF Sessions, ENABLED_2FA
<1>2. s \in Sessions
  BY DEF Good
<1>3. session' \in [Browsers -> Sessions]
  BY <1>2 DEF SessionsOK
<1>4. \A c \in Browsers : Good(session'[c])
  BY DEF SessionsOK
<1>5. \A c \in Browsers : Good(session[c])'
  BY <1>1, <1>4 DEF Good
<1>6. QED BY <1>1, <1>3, <1>5 DEF SessionsOK

LEMMA SessionsUnchanged ==
    ASSUME SessionsOK, UNCHANGED <<codes, SSO_MODE, session>>
    PROVE  SessionsOK'
  BY DEF SessionsOK, Good, Sessions, ENABLED_2FA

LEMMA LoginStep ==
    ASSUME SessionsOK, CodesOK, UNCHANGED <<codes, SSO_MODE>>,
           NEW b \in Browsers, NEW u \in Accounts, login(b, u)
    PROVE  SessionsOK'
<1>1. Good(session[b])
  BY DEF SessionsOK
<1>2. CASE session[b].user \in {Nobody, u}
  <2>1. session' = [session EXCEPT ![b] = [session[b] EXCEPT !.user = u]]
    BY <1>2 DEF login
  <2>2. QED BY <1>1, <1>2, <2>1, LoginIsGood, SessionStep
<1>3. CASE session[b].user \notin {Nobody, u}
  <2>1. session' = [session EXCEPT ![b] = [Fresh EXCEPT !.user = u]]
    BY <1>3 DEF login
  <2>2. QED BY <1>1, <2>1, LoginIsGood, SessionStep
<1>4. QED BY <1>2, <1>3

LEMMA FailureStep ==
    ASSUME SessionsOK, CodesOK, UNCHANGED <<codes, SSO_MODE>>,
           NEW b \in Browsers, NEW x \in BOOLEAN, login_failure(b, x)
    PROVE  SessionsOK'
<1>1. Good(session[b]) /\ session[b].rejected \in BOOLEAN
  BY DEF SessionsOK, Good, Sessions
<1>2. (x \/ session[b].rejected) \in BOOLEAN
  BY <1>1
<1>3. CASE SSO_MODE = "internal-access"
  <2>1. session' = [session EXCEPT ![b] = [Fresh EXCEPT !.rejected = x \/ session[b].rejected]]
    BY <1>3 DEF login_failure
  <2>2. QED BY <1>2, <2>1, FreshIsGood, SessionStep
<1>4. CASE SSO_MODE # "internal-access"
  <2>1. session' = [session EXCEPT ![b] = [session[b] EXCEPT !.rejected = x \/ session[b].rejected]]
    BY <1>4 DEF login_failure
  <2>2. Good([session[b] EXCEPT !.rejected = x \/ session[b].rejected])
    BY <1>1, <1>2, RejectedIsGood
  <2>3. QED BY <2>1, <2>2, SessionStep
<1>5. QED BY <1>3, <1>4

-----------------------------------------------------------------------------
(* Accounts                                                                *)

AccountsInv == AccountsOK /\ OneUsername /\ LowerCase

LEMMA StoredAccounts == Stored \subseteq Accounts
  BY DEF Stored

\* A new account keeps usernames unique, and in lower case where they are.
LEMMA CreateStep ==
    ASSUME AccountsInv, NEW u \in Accounts, NEW a \in Addresses, create_user(u, a),
           SSO_MODE' = SSO_MODE, PendingOK,
           \A b \in Browsers : pending'[b] \in {pending[b], NoAddress},
           SSO_MODE = "one-login" /\ CsvLower => Lower[a] = a
    PROVE  AccountsInv'
<1>1. a # NoAddress
  BY SignInAssumption
<1>2. /\ \A w \in Accounts : email'[w] = IF w = u THEN a ELSE email[w]
      /\ \A w \in Accounts : username'[w] = IF w = u THEN a ELSE username[w]
  BY DEF create_user, AccountsInv, AccountsOK
<1>3. AccountsOK'
  BY DEF create_user, AccountsInv, AccountsOK
<1>4. Stored' = Stored \cup {u} /\ u \notin Stored
  BY <1>1, <1>2 DEF Stored, create_user, Unused
<1>5. \A w \in Stored : username[w] # a
  BY DEF create_user
<1>6. OneUsername'
  BY <1>2, <1>4, <1>5, StoredAccounts DEF OneUsername, AccountsInv
<1>7. LowerCase'
  <2>1. CASE SSO_MODE = "one-login" /\ CsvLower
    <3>1. \A w \in Stored \ Staff : username[w] = email[w] /\ Lower[email[w]] = email[w]
      BY <2>1 DEF LowerCase, AccountsInv
    <3>2. \A w \in Stored' \ Staff : username'[w] = email'[w] /\ Lower[email'[w]] = email'[w]
      BY <1>2, <1>4, <2>1, <3>1, StoredAccounts
    <3>3. \A b \in Browsers : pending'[b] # NoAddress => Lower[pending'[b]] = pending'[b]
      BY <2>1 DEF LowerCase, AccountsInv
    <3>4. QED BY <3>2, <3>3 DEF LowerCase, CsvLower
  <2>2. CASE ~(SSO_MODE = "one-login" /\ CsvLower)
    BY <2>2 DEF LowerCase, CsvLower
  <2>3. QED BY <2>1, <2>2
<1>8. QED BY <1>3, <1>6, <1>7 DEF AccountsInv

\* So does the form that gives a profile to an account.
LEMMA FormStep ==
    ASSUME AccountsInv, PendingOK, UserProfileForm
    PROVE  AccountsInv'
<1>1. PICK a \in Addresses :
         LET found == {u \in Stored : email[u] = Lower[a]} IN
         \/ found = {} /\ \E u \in Accounts : create_user(u, Lower[a])
         \/ /\ Cardinality(found) = 1
            /\ \A w \in Stored \ found : username[w] # Lower[a]
            /\ username' = [u \in Accounts |->
                              IF u \in found THEN Lower[a] ELSE username[u]]
            /\ UNCHANGED email
  BY DEF UserProfileForm
<1>2. UNCHANGED <<settings, pending>>
  BY DEF UserProfileForm
<1>3. Lower[a] \in Addresses /\ Lower[Lower[a]] = Lower[a]
  BY SignInAssumption
<1> DEFINE found == {u \in Stored : email[u] = Lower[a]}
<1>4. CASE \E u \in Accounts : create_user(u, Lower[a])
  BY <1>2, <1>3, <1>4, CreateStep DEF settings
<1>5. CASE /\ Cardinality(found) = 1
           /\ \A w \in Stored \ found : username[w] # Lower[a]
           /\ username' = [u \in Accounts |->
                             IF u \in found THEN Lower[a] ELSE username[u]]
           /\ UNCHANGED email
  <2>1. AccountsOK' /\ Stored' = Stored
    BY <1>3, <1>5 DEF AccountsInv, AccountsOK, Stored
  <2>2. \A u, w \in found : u = w
    <3>1. IsFiniteSet(found)
      BY StoredAccounts, SignInAssumption, FS_Subset
    <3>2. \E u : found = {u}
      BY <1>5, <3>1, FS_Singleton
    <3>3. QED BY <3>2
  <2>3. \A w \in Accounts : username'[w] = IF w \in found THEN Lower[a] ELSE username[w]
    BY <1>5
  <2>4. OneUsername'
    BY <1>5, <2>1, <2>2, <2>3, StoredAccounts DEF OneUsername, AccountsInv
  <2>5. LowerCase'
    BY <1>2, <1>5, <2>1, <2>3, StoredAccounts DEF LowerCase, AccountsInv, CsvLower, settings
  <2>6. QED BY <2>1, <2>4, <2>5 DEF AccountsInv
<1>6. QED BY <1>1, <1>4, <1>5

LEMMA AccountsUnchanged ==
    ASSUME AccountsInv, PendingOK, UNCHANGED <<accounts, SSO_MODE>>,
           \A b \in Browsers :
              \/ pending'[b] \in {pending[b], NoAddress}
              \/ SSO_MODE = "one-login" => Lower[pending'[b]] = pending'[b]
    PROVE  AccountsInv'
<1>1. AccountsOK' /\ OneUsername'
  BY DEF AccountsInv, AccountsOK, OneUsername, Stored, accounts
<1>2. LowerCase'
  BY DEF AccountsInv, LowerCase, Stored, CsvLower, accounts
<1>3. QED BY <1>1, <1>2 DEF AccountsInv

-----------------------------------------------------------------------------
(* The invariant is inductive                                              *)

LEMMA InvParts ==
    IInv <=> SettingsOK /\ PendingOK /\ CodesOK /\ SessionsOK /\ AccountsInv
  BY DEF IInv, AccountsInv

LEMMA InvNext ==
    ASSUME SettingsOK', PendingOK', CodesOK', SessionsOK', AccountsInv'
    PROVE  IInv'
  BY DEF IInv, AccountsInv

LEMMA InitInv == Init => IInv
<1> SUFFICES ASSUME Init PROVE IInv
  OBVIOUS
<1> USE DEF Init
<1>1. SettingsOK /\ PendingOK
  BY DEF SettingsOK, PendingOK
<1>2. CodesOK /\ Len(codes) = 0
  BY DEF CodesOK, NoCode
<1>3. SessionsOK
  <2>1. Good(Fresh)
    BY <1>2, FreshIsGood
  <2>2. QED BY <2>1 DEF SessionsOK, Good
<1>4. Stored \subseteq Staff
  BY DEF Stored
<1>5. AccountsOK /\ OneUsername
  BY DEF AccountsOK, OneUsername, Stored
<1>6. LowerCase
  BY <1>4 DEF LowerCase
<1>7. QED BY <1>1, <1>2, <1>3, <1>5, <1>6, InvParts DEF AccountsInv

\* The address that a sign-in presents.
LEMMA ClaimTypes ==
    ASSUME NEW a \in Addresses
    PROVE  /\ Claim(a) \in Addresses
           /\ SSO_MODE = "one-login" => Lower[Claim(a)] = Claim(a)
           /\ filter_users_by_claims(Claim(a)) \subseteq Accounts
  BY SignInAssumption DEF Claim, filter_users_by_claims, Stored

LEMMA AuthenticateInv ==
    ASSUME IInv, NEW b \in Browsers, Authenticate(b)
    PROVE  IInv'
<1> USE InvParts
<1>1. PICK a \in Addresses :
        LET matches == filter_users_by_claims(Claim(a)) IN
        \/ (\E u \in matches : login(b, u)) /\ UNCHANGED pending
        \/ login_failure(b, FALSE) /\ UNCHANGED pending
        \/ login_failure(b, TRUE) /\ UNCHANGED pending
        \/ /\ pending' = [pending EXCEPT ![b] = Claim(a)]
           /\ UNCHANGED session
  BY DEF Authenticate
<1>2. UNCHANGED <<settings, accounts, device, codes>>
  BY DEF Authenticate
<1>3. SettingsOK' /\ CodesOK'
  BY <1>2 DEF SettingsOK, CodesOK, settings
<1>4. UNCHANGED <<codes, SSO_MODE>>
  BY <1>2 DEF settings
<1>5. SessionsOK'
  BY <1>1, <1>4, ClaimTypes, LoginStep, FailureStep, SessionsUnchanged
<1>6. PendingOK' /\ \A c \in Browsers :
                       pending'[c] = pending[c] \/ pending'[c] = Claim(a)
  BY <1>1, ClaimTypes DEF PendingOK
<1>7. AccountsInv'
  BY <1>2, <1>4, <1>6, ClaimTypes, AccountsUnchanged
<1>8. QED BY <1>3, <1>5, <1>6, <1>7, InvNext

LEMMA CreateAccountInv ==
    ASSUME IInv, NEW b \in Browsers, CreateAccount(b)
    PROVE  IInv'
<1> USE InvParts
<1>1. PICK u \in Accounts : create_user(u, pending[b]) /\ login(b, u)
  BY DEF CreateAccount
<1>2. /\ pending[b] # NoAddress
      /\ pending' = [pending EXCEPT ![b] = NoAddress]
      /\ UNCHANGED <<settings, device, codes>>
  BY DEF CreateAccount
<1>3. UNCHANGED <<codes, SSO_MODE>>
  BY <1>2 DEF settings
<1>4. SettingsOK' /\ CodesOK' /\ PendingOK'
  BY <1>2 DEF SettingsOK, CodesOK, PendingOK, settings
<1>5. SessionsOK'
  BY <1>1, <1>3, LoginStep
<1>6. pending[b] \in Addresses
  BY <1>2 DEF PendingOK
<1>7. \A c \in Browsers : pending'[c] \in {pending[c], NoAddress}
  BY <1>2 DEF PendingOK
<1>8. SSO_MODE = "one-login" /\ CsvLower => Lower[pending[b]] = pending[b]
  BY <1>2 DEF AccountsInv, LowerCase
<1>9. AccountsInv'
  BY <1>1, <1>3, <1>6, <1>7, <1>8, CreateStep
<1>10. QED BY <1>4, <1>5, <1>9, InvNext

\* The other steps of signing in write no account.
LEMMA SigningInInv ==
    ASSUME IInv, NEW b \in Browsers,
           ProviderError(b) \/ AccountExists(b) \/ StaffLogin(b)
    PROVE  IInv'
<1> USE InvParts
<1>1. /\ UNCHANGED <<settings, accounts, device, codes>>
      /\ pending' \in {pending, [pending EXCEPT ![b] = NoAddress]}
  BY DEF ProviderError, AccountExists, StaffLogin
<1>2. UNCHANGED <<codes, SSO_MODE>>
  BY <1>1 DEF settings
<1>3. SettingsOK' /\ CodesOK' /\ PendingOK'
  BY <1>1 DEF SettingsOK, CodesOK, PendingOK, settings
<1>4. \A c \in Browsers : pending'[c] \in {pending[c], NoAddress}
  BY <1>1 DEF PendingOK
<1>5. AccountsInv'
  BY <1>1, <1>2, <1>4, AccountsUnchanged
<1>6. SessionsOK'
  <2>1. CASE ProviderError(b)
    BY <1>2, <2>1, FailureStep DEF ProviderError
  <2>2. CASE AccountExists(b)
    BY <1>2, <2>2, SessionsUnchanged DEF AccountExists
  <2>3. CASE StaffLogin(b)
    BY <1>2, <2>3, LoginStep, SignInAssumption DEF StaffLogin
  <2>4. QED BY <2>1, <2>2, <2>3
<1>7. QED BY <1>3, <1>5, <1>6, InvNext

\* Nor do the pages, which write the session of their own browser, and use up
\* a code.
LEMMA PagesInv ==
    ASSUME IInv, NEW b \in Browsers,
           \/ GoIdle(b) \/ Index(b) \/ session_expired(b) \/ logout_view(b)
           \/ AuthenticationErrorView(b) \/ Page(b) \/ VerifyToken(b)
    PROVE  IInv'
<1> USE InvParts
<1>1. /\ UNCHANGED <<settings, accounts, pending, codes>>
      /\ device' \in {device, [device EXCEPT ![session[b].user] = NoCode]}
  BY DEF GoIdle, Index, session_expired, logout_view, Flush,
         AuthenticationErrorView, Page, VerifyToken
<1>2. UNCHANGED <<codes, SSO_MODE>>
  BY <1>1 DEF settings
<1>3. SettingsOK' /\ PendingOK'
  BY <1>1 DEF SettingsOK, PendingOK, settings
<1>4. AccountsInv'
  BY <1>1, <1>2, AccountsUnchanged
<1>5. CodesOK'
  <2>1. 0 \in 0..Len(codes)
    BY DEF CodesOK
  <2>2. QED BY <1>1, <2>1 DEF CodesOK, NoCode
<1>6. Good(session[b])
  BY DEF SessionsOK
<1>7. \E s : Good(s) /\ session' = [session EXCEPT ![b] = s]
  <2>1. CASE GoIdle(b)
    <3>1. Good([session[b] EXCEPT !.idle = TRUE])
      BY <1>6, <2>1 DEF GoIdle, Good, Sessions
    <3>2. session' = [session EXCEPT ![b] = [session[b] EXCEPT !.idle = TRUE]]
      BY <2>1 DEF GoIdle
    <3>3. QED BY <3>1, <3>2
  <2>2. CASE Index(b) \/ session_expired(b) \/ logout_view(b)
    <3>1. session' = [session EXCEPT ![b] = Fresh]
      BY <2>2 DEF Index, session_expired, logout_view, Flush
    <3>2. QED BY <3>1, FreshIsGood
  <2>3. CASE AuthenticationErrorView(b)
    <3>1. Good([session[b] EXCEPT !.rejected = FALSE])
      BY <1>6, RejectedIsGood
    <3>2. session' = [session EXCEPT ![b] = [session[b] EXCEPT !.rejected = FALSE]]
      BY <2>3 DEF AuthenticationErrorView
    <3>3. QED BY <3>1, <3>2
  <2>4. CASE Page(b)
    <3>1. session[b].user # Nobody
          /\ (ENABLED_2FA /\ session[b].user \notin Staff => session[b].code # NoCode)
      BY <2>4 DEF Page, Admitted
    <3>2. Good([session[b] EXCEPT !.data = session[b].user])
      BY <1>6, <3>1 DEF Good, Sessions
    <3>3. session' = [session EXCEPT ![b] = [session[b] EXCEPT !.data = session[b].user]]
      BY <2>4 DEF Page
    <3>4. QED BY <3>2, <3>3
  <2>5. CASE VerifyToken(b)
    <3>1. PICK n \in DOMAIN codes :
             /\ device[session[b].user] = n
             /\ session' = [session EXCEPT ![b].code = n]
      BY <2>5 DEF VerifyToken, verify_token
    <3>2. session[b].user \in Accounts /\ session[b].user # Nobody
      BY <1>6, <2>5 DEF VerifyToken, Good, Sessions
    <3>3. n \in 0..Len(codes) /\ n # NoCode
      BY DEF CodesOK, NoCode
    <3>4. codes[n] = session[b].user
      BY <3>1, <3>2, <3>3 DEF CodesOK
    <3>5. Good([session[b] EXCEPT !.code = n])
      BY <1>6, <3>2, <3>3, <3>4 DEF Good, Sessions
    <3>6. session' = [session EXCEPT ![b] = [session[b] EXCEPT !.code = n]]
      BY <3>1
    <3>7. QED BY <3>5, <3>6
  <2>6. QED BY <2>1, <2>2, <2>3, <2>4, <2>5
<1>8. SessionsOK'
  BY <1>2, <1>7, SessionStep
<1>9. QED BY <1>3, <1>4, <1>5, <1>8, InvNext

\* A new code is the last one, and only its user's device accepts it.
LEMMA VerifyPageInv ==
    ASSUME IInv, NEW b \in Browsers, VerifyPage(b)
    PROVE  IInv'
<1> USE InvParts
<1> DEFINE u == session[b].user
<1>1. u \in Accounts
  BY DEF VerifyPage, SessionsOK, Sessions
<1>2. /\ codes' = Append(codes, u)
      /\ device' = [device EXCEPT ![u] = Len(codes) + 1]
      /\ UNCHANGED <<settings, accounts, session, pending>>
  BY DEF VerifyPage
<1>3. /\ codes' \in Seq(Accounts)
      /\ Len(codes') = Len(codes) + 1
      /\ Len(codes) \in Nat
      /\ \A n \in 1..Len(codes) : codes'[n] = codes[n]
      /\ codes'[Len(codes) + 1] = u
  BY <1>1, <1>2 DEF CodesOK
<1> HIDE DEF u
<1>4. CodesOK'
  <2>1. device' \in [Accounts -> 0..Len(codes')]
    BY <1>2, <1>3 DEF CodesOK
  <2>2. ASSUME NEW w \in Accounts, device'[w] # NoCode
        PROVE  codes'[device'[w]] = w
    <3>1. CASE w = u
      BY <1>2, <1>3, <3>1 DEF CodesOK
    <3>2. CASE w # u
      <4>1. device'[w] = device[w] /\ device[w] \in 1..Len(codes)
        BY <1>2, <2>2, <3>2 DEF CodesOK, NoCode
      <4>2. QED BY <1>3, <2>2, <4>1 DEF CodesOK
    <3>3. QED BY <3>1, <3>2
  <2>3. QED BY <1>3, <2>1, <2>2 DEF CodesOK
<1>5. SessionsOK'
  <2>1. Sessions \subseteq Sessions'
    BY <1>3 DEF Sessions
  <2>2. ENABLED_2FA' = ENABLED_2FA
    BY <1>2 DEF ENABLED_2FA, settings
  <2>3. ASSUME NEW c \in Browsers
        PROVE  Good(session[c])'
    <3>1. Good(session[c]) /\ session'[c] = session[c]
      BY <1>2 DEF SessionsOK
    <3>2. session[c].code # NoCode => session[c].code \in 1..Len(codes)
      BY <1>3, <3>1 DEF Good, Sessions, NoCode
    <3>3. QED BY <1>2, <1>3, <2>1, <2>2, <3>1, <3>2 DEF Good
  <2>4. QED BY <1>2, <2>1, <2>3 DEF SessionsOK
<1>6. SettingsOK' /\ PendingOK' /\ UNCHANGED <<accounts, SSO_MODE>>
  BY <1>2 DEF SettingsOK, PendingOK, settings
<1>7. AccountsInv'
  BY <1>2, <1>6, AccountsUnchanged
<1>8. QED BY <1>4, <1>5, <1>6, <1>7, InvNext

\* What is done outside of any browser.
LEMMA OthersInv ==
    ASSUME IInv, UserProfileForm \/ ImportAdvisor \/ SettingsAdmin \/ CodeExpires
    PROVE  IInv'
<1> USE InvParts
<1>1. UNCHANGED <<codes, SSO_MODE, session, pending>>
  BY DEF UserProfileForm, ImportAdvisor, SettingsAdmin, CodeExpires, settings
<1>2. SessionsOK' /\ PendingOK'
  BY <1>1, SessionsUnchanged DEF PendingOK
<1>3. SettingsOK'
  BY DEF UserProfileForm, ImportAdvisor, SettingsAdmin, CodeExpires, settings, SettingsOK
<1>4. CodesOK'
  <2>1. 0 \in 0..Len(codes)
    BY DEF CodesOK
  <2>2. QED BY <2>1
            DEF UserProfileForm, ImportAdvisor, SettingsAdmin, CodeExpires, CodesOK, NoCode
<1>5. AccountsInv'
  <2>1. CASE UserProfileForm
    BY <2>1, FormStep
  <2>2. CASE ImportAdvisor
    <3>1. PICK a \in CsvAddresses, u \in Accounts : create_user(u, a)
      BY <2>2 DEF ImportAdvisor
    <3>2. a \in Addresses /\ (CsvLower => Lower[a] = a)
      BY SignInAssumption DEF CsvLower
    <3>3. QED BY <1>1, <3>1, <3>2, CreateStep
  <2>3. CASE SettingsAdmin \/ CodeExpires
    BY <1>1, <2>3, AccountsUnchanged DEF SettingsAdmin, CodeExpires
  <2>4. QED BY <2>1, <2>2, <2>3
<1>6. QED BY <1>2, <1>3, <1>4, <1>5, InvNext

LEMMA InvStep == IInv /\ [Next]_vars => IInv'
<1> SUFFICES ASSUME IInv, [Next]_vars PROVE IInv'
  OBVIOUS
<1>1. CASE \E b \in Browsers : SigningIn(b)
  BY <1>1, AuthenticateInv, CreateAccountInv, SigningInInv DEF SigningIn
<1>2. CASE \E b \in Browsers : Browsing(b)
  BY <1>2, PagesInv, VerifyPageInv DEF Browsing
<1>3. CASE UserProfileForm \/ ImportAdvisor \/ SettingsAdmin \/ CodeExpires
  BY <1>3, OthersInv
<1>4. CASE UNCHANGED vars
  <2>1. UNCHANGED <<SSO_MODE, admin_verification_enabled, AllowedEmailDomain, accounts,
                    session, pending, device, codes>>
    BY <1>4 DEF vars, accounts
  <2>2. SessionsOK' /\ AccountsInv'
    BY <2>1, SessionsUnchanged, AccountsUnchanged, InvParts
  <2>3. SettingsOK' /\ PendingOK' /\ CodesOK'
    BY <2>1, InvParts DEF SettingsOK, PendingOK, CodesOK
  <2>4. QED BY <2>2, <2>3, InvNext
<1>5. QED BY <1>1, <1>2, <1>3, <1>4 DEF Next

LEMMA Invariant == Spec => []IInv
<1>1. Init => IInv
  BY InitInv
<1>2. IInv /\ [Next]_vars => IInv'
  BY InvStep
<1>3. QED BY <1>1, <1>2, PTL DEF Spec

-----------------------------------------------------------------------------
(* The theorems                                                            *)

\* Every state of accounts, sessions and codes is well typed, and a session
\* without a user is an empty one (TypeOK).
THEOREM TypeCorrect == Spec => []TypeOK
<1>1. IInv => TypeOK
  <2> SUFFICES ASSUME IInv PROVE TypeOK
    OBVIOUS
  <2>1. ASSUME NEW b \in Browsers, session[b].user = Nobody
        PROVE  session[b] \in {Fresh, [Fresh EXCEPT !.rejected = TRUE]}
    <3>1. session[b] \in Sessions /\ session[b].code = NoCode /\ session[b].idle = FALSE
          /\ session[b].data = Nobody
      BY <2>1 DEF IInv, SessionsOK, Good
    <3>2. session[b] = [user |-> Nobody, code |-> NoCode, idle |-> FALSE,
                        rejected |-> session[b].rejected, data |-> Nobody]
          /\ session[b].rejected \in BOOLEAN
      BY <2>1, <3>1 DEF Sessions
    <3>3. CASE session[b].rejected = FALSE
      BY <3>2, <3>3 DEF Fresh
    <3>4. CASE session[b].rejected = TRUE
      <4>1. [Fresh EXCEPT !.rejected = TRUE] \in Sessions
        BY FreshIsGood DEF IInv, Good
      <4>2. \A s, t \in Sessions :
               /\ s.user = t.user /\ s.code = t.code /\ s.idle = t.idle
               /\ s.rejected = t.rejected /\ s.data = t.data
               => s = t
        BY DEF Sessions
      <4>3. QED BY <2>1, <3>1, <3>4, <4>1, <4>2 DEF Fresh
    <3>5. QED BY <3>2, <3>3, <3>4
  <2>2. QED BY <2>1 DEF IInv, TypeOK, SettingsOK, AccountsOK, PendingOK, CodesOK,
                       SessionsOK, Sessions
<1>2. QED BY <1>1, Invariant, PTL

\* The work kept in a session is that of the user who is signed in, and where
\* a second factor is asked for it began after that user's own code
\* (WorkBelongsToItsUser).
THEOREM SessionsAreOnesOwn == Spec => []WorkBelongsToItsUser
<1>1. IInv => WorkBelongsToItsUser
  BY DEF IInv, SessionsOK, Good, WorkBelongsToItsUser
<1>2. QED BY <1>1, Invariant, PTL

\* With One Login no mailbox matches two accounts, in whatever order sign-ins,
\* forms and imports made them, unless operators import addresses in mixed
\* case (OneAccountPerMailbox).
THEOREM MailboxHasOneAccount == Spec => []OneAccountPerMailbox
<1>1. IInv => OneAccountPerMailbox
  <2> SUFFICES ASSUME IInv, SSO_MODE = "one-login", CsvLower, NEW a \in Addresses
               PROVE  Cardinality(filter_users_by_claims(a)) <= 1
    BY DEF OneAccountPerMailbox, CsvLower
  <2> DEFINE F == filter_users_by_claims(a)
  <2>1. \A u \in F : u \in Stored \ Staff /\ Lower[email[u]] = Lower[a]
    BY DEF filter_users_by_claims, Same
  <2>2. \A u \in F : username[u] = Lower[a] /\ username[u] # NoAddress
    BY <2>1 DEF IInv, LowerCase, Stored
  <2>3. \A u, w \in F : u = w
    BY <2>1, <2>2 DEF IInv, OneUsername
  <2>4. CASE F = {}
    <3>1. Cardinality(F) = 0
      BY <2>4, FS_EmptySet
    <3>2. QED BY <3>1
  <2>5. CASE F # {}
    <3>1. \E u : F = {u}
      BY <2>3, <2>5
    <3>2. Cardinality(F) = 1
      BY <3>1, FS_Singleton
    <3>3. QED BY <3>2
  <2>6. QED BY <2>4, <2>5
<1>2. QED BY <1>1, Invariant, PTL
=============================================================================
