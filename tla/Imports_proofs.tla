---------------------------- MODULE Imports_proofs ----------------------------
(***************************************************************************)
(* Proofs about Imports, for every set of files, organisations, systems    *)
(* and periods and every number of overlapping requests: whoever creates   *)
(* a draft comes to the one draft, the assessments of a period share a due *)
(* date, and an import that no other overlaps does all of its file.  And   *)
(* about the references that the second statement of a save writes, see    *)
(* References.                                                             *)
(***************************************************************************)
EXTENDS Imports, References, TLAPS

-----------------------------------------------------------------------------
(* The inductive invariant                                                 *)

\* A reference is that of an organisation that is there.
OrganisationsOK ==
    /\ organisation \in [Names -> Organisations]
    /\ \A n \in Names : organisation[n].reference => organisation[n].here

AccountsOK == accounts \in Seq(Emails)

HasAccount(u) == \E i \in DOMAIN accounts : accounts[i] = u

ProfilesOK ==
    /\ profiles \in [Emails \X Names -> Nat]
    /\ \A p \in Emails \X Names : profiles[p] > 0 =>
          organisation[p[2]].here /\ HasAccount(p[1])

PeriodsOK ==
    /\ now \in 0..MaxTime
    /\ configuration \in [Configurations -> Settings]
    /\ edited \in BOOLEAN
    /\ ~edited => \A c, d \in Configurations :
                     configuration[c].period = configuration[d].period => c = d

\* Of one configuration of its period, as long as none was changed.
OfConfiguration(a, period) ==
    \E c \in Configurations :
        /\ configuration[c].period = period
        /\ a.framework = configuration[c].framework
        /\ a.due = get_submission_due_date(configuration[c])

Assessments == [framework : Frameworks, due : Nat]

AssessmentsOK ==
    /\ assessment \in [Keys -> Assessments \cup {NoAssessment}]
    /\ ~edited => \A k \in Keys :
          assessment[k] # NoAssessment => OfConfiguration(assessment[k], k[2])

\* Where an import is: its row and address are in the file, and what it goes on
\* with is in the database.
CsvSound(q) ==
    /\ q.step # "done" => q.row \in 1..Len(q.file)
    /\ q.step \in {"reference", "email", "user", "profile", "insert"} =>
          q.organisation \in Names /\ organisation[q.organisation].here
    /\ q.step \in {"email", "user", "profile", "insert"} =>
          q.email \in 1..Len(q.file[q.row].emails)
    /\ q.step \in {"profile", "insert"} => q.user \in Emails /\ HasAccount(q.user)

\* The settings a form or an import works with are those of a configuration.
SettingsSound(q) ==
    /\ q.settings \in Settings
    /\ ~edited => \E c \in Configurations : q.settings = configuration[c]

\* A creation whose INSERT was refused: the draft is there, or was submitted.
Refused(q) ==
    \/ assessment[Key(q, "draft")] # NoAssessment
    \/ assessment[Key(q, "submitted")] # NoAssessment

Failed(q) ==
    \/ assessment[Key(q, "draft")].framework \notin {None, q.settings.framework}
    \/ assessment[Key(q, "submitted")] # NoAssessment

CreationSound(q) ==
    /\ SettingsSound(q)
    /\ q.step = "again" => Refused(q)
    /\ q.step = "error" => Failed(q)

Sound(q) ==
    \/ q \in Imports /\ CsvSound(q)
    \/ q \in Creations /\ CreationSound(q)
    \/ q \in Previews \cup Uploads /\ SettingsSound(q)
    \/ q = Idle

RequestsOK == DOMAIN request = Requests /\ \A r \in Requests : Sound(request[r])

Base == OrganisationsOK /\ AccountsOK /\ ProfilesOK /\ PeriodsOK /\ AssessmentsOK

IInv == Base /\ RequestsOK

-----------------------------------------------------------------------------
(* Facts about the state                                                   *)

LEMMA IdleHandler == Idle.handler = None /\ Idle.step = None
  BY DEF Idle

LEMMA NoneIsNone == None = "none"
  BY DEF None

\* Which kind of request a handler is.
LEMMA Kinds ==
    ASSUME RequestsOK, NEW r \in Requests
    PROVE  /\ request[r].handler = "import_csv" =>
                 request[r] \in Imports /\ CsvSound(request[r])
           /\ request[r].handler = "CreateAssessmentView" =>
                 request[r] \in Creations /\ CreationSound(request[r])
           /\ request[r].handler = "import_excel" =>
                 request[r] \in Previews \cup Uploads /\ SettingsSound(request[r])
<1>1. Sound(request[r])
  BY DEF RequestsOK
<1>2. \A q \in Imports : q.handler = "import_csv"
  BY DEF Imports
<1>3. \A q \in Creations : q.handler = "CreateAssessmentView"
  BY DEF Creations
<1>4. \A q \in Previews \cup Uploads : q.handler = "import_excel"
  BY DEF Previews, Uploads
<1>5. QED BY <1>1, <1>2, <1>3, <1>4, IdleHandler, NoneIsNone DEF Sound

\* The row and the address of the file that an import is at.
LEMMA FileTypes ==
    ASSUME NEW q \in Imports
    PROVE  /\ q.file \in Seq(FileRows) /\ Len(q.file) \in Nat /\ Len(q.file) > 0
           /\ \A i \in 1..Len(q.file) : q.file[i] \in FileRows
           /\ \A i \in 1..Len(q.file) :
                 /\ Len(q.file[i].emails) \in Nat
                 /\ \A k \in 1..Len(q.file[i].emails) : q.file[i].emails[k] \in Emails
<1>1. q.file \in Files
  BY DEF Imports
<1>2. q.file \in Seq(FileRows) /\ Len(q.file) > 0
  BY <1>1, ImportsAssumption
<1>3. \A i \in 1..Len(q.file) : q.file[i] \in FileRows
  BY <1>2
<1>4. ASSUME NEW i \in 1..Len(q.file)
      PROVE  /\ Len(q.file[i].emails) \in Nat
             /\ \A k \in 1..Len(q.file[i].emails) : q.file[i].emails[k] \in Emails
  <2>1. q.file[i].emails \in Seq(Emails)
    BY <1>3 DEF FileRows
  <2>2. QED BY <2>1
<1>5. QED BY <1>2, <1>3, <1>4

\* An organisation that is found is there.
LEMMA FindTypes ==
    ASSUME OrganisationsOK, NEW row \in FileRows
    PROVE  /\ find_organisation(row) \in Names \cup {None}
           /\ find_organisation(row) # None =>
                 /\ find_organisation(row) \in Names
                 /\ organisation[find_organisation(row)].here
<1>1. row.reference \in Names \cup {None} /\ row.name \in Names
  BY DEF FileRows
<1>2. QED BY <1>1 DEF find_organisation, OrganisationsOK

\* The step from a row, and from an address, to the next.
LEMMA NextRowSound ==
    ASSUME NEW q \in Imports, q.row \in 1..Len(q.file)
    PROVE  NextRow(q) \in Imports /\ CsvSound(NextRow(q))
<1>1. Len(q.file) \in Nat /\ Len(q.file) > 0
  BY FileTypes
<1>2. CASE q.row < Len(q.file)
  <2> DEFINE st == IF q.step = "parent" THEN q.step ELSE "find"
  <2> DEFINE row == q.row + 1
  <2> DEFINE n == [q EXCEPT !.row = row, !.step = st]
  <2>1. NextRow(q) = n
    BY <1>2 DEF NextRow, Imports
  <2>2. st \in {"parent", "find"}
    OBVIOUS
  <2>3. row \in Nat /\ row \in 1..Len(q.file)
    BY <1>1, <1>2
  <2> HIDE DEF st, row
  <2>4. n \in Imports /\ n.row = row /\ n.file = q.file /\ n.step = st
    BY <2>2, <2>3 DEF Imports
  <2> HIDE DEF n
  <2>5. QED BY <2>1, <2>2, <2>3, <2>4 DEF CsvSound
<1>3. CASE ~(q.row < Len(q.file)) /\ q.step = "parent"
  <2> DEFINE n == [q EXCEPT !.step = "done"]
  <2>1. NextRow(q) = n
    BY <1>3 DEF NextRow
  <2>2. n \in Imports /\ n.step = "done"
    BY DEF Imports
  <2> HIDE DEF n
  <2>3. QED BY <2>1, <2>2 DEF CsvSound
<1>4. CASE ~(q.row < Len(q.file)) /\ q.step # "parent"
  <2> DEFINE n == [q EXCEPT !.row = 1, !.step = "parent"]
  <2>1. NextRow(q) = n
    BY <1>4 DEF NextRow
  <2>2. n \in Imports /\ n.step = "parent" /\ n.row = 1 /\ n.file = q.file
    BY DEF Imports
  <2>3. n.row \in 1..Len(n.file)
    BY <1>1, <2>2
  <2> HIDE DEF n
  <2>4. QED BY <2>1, <2>2, <2>3 DEF CsvSound
<1>5. QED BY <1>2, <1>3, <1>4

LEMMA NextEmailSound ==
    ASSUME NEW q \in Imports, q.row \in 1..Len(q.file),
           q.organisation \in Names, organisation[q.organisation].here
    PROVE  NextEmail(q) \in Imports /\ CsvSound(NextEmail(q))
<1>1. Len(q.file[q.row].emails) \in Nat /\ q.email \in Nat
  BY FileTypes DEF Imports
<1>2. CASE q.email < Len(q.file[q.row].emails)
  <2> DEFINE email == q.email + 1
  <2> DEFINE n == [q EXCEPT !.email = email, !.user = <<>>, !.step = "email"]
  <2>1. NextEmail(q) = n
    BY <1>2 DEF NextEmail
  <2>2. email \in Nat /\ email \in 1..Len(q.file[q.row].emails)
    BY <1>1, <1>2
  <2> HIDE DEF email
  <2>3. n \in Imports /\ n.step = "email" /\ n.row = q.row /\ n.file = q.file
        /\ n.organisation = q.organisation /\ n.email = email
    BY <2>2 DEF Imports
  <2> HIDE DEF n
  <2>4. QED BY <2>1, <2>2, <2>3 DEF CsvSound
<1>3. CASE ~(q.email < Len(q.file[q.row].emails))
  <2> DEFINE n == [q EXCEPT !.email = 0, !.user = <<>>, !.organisation = None]
  <2>1. NextEmail(q) = NextRow(n)
    BY <1>3 DEF NextEmail
  <2>2. n \in Imports /\ n.row = q.row /\ n.file = q.file
    BY DEF Imports
  <2> HIDE DEF n
  <2>3. QED BY <2>1, <2>2, NextRowSound
<1>4. QED BY <1>2, <1>3

-----------------------------------------------------------------------------
(* What other requests rely on is kept                                     *)

\* Organisations and accounts stay, a change of the configuration is noted,
\* and an assessment is there until it is submitted.
Grown ==
    /\ \A n \in Names : organisation[n].here => organisation'[n].here
    /\ \A u \in Emails : HasAccount(u) => HasAccount(u)'
    /\ \A q : SettingsSound(q) => SettingsSound(q)'
    /\ \A q \in Creations : q.settings \in Settings =>
          (Refused(q) => Refused(q)') /\ (Failed(q) => Failed(q)')

LEMMA SoundGrows ==
    ASSUME Grown, NEW q, Sound(q)
    PROVE  Sound(q)'
<1>1. CASE q \in Imports /\ CsvSound(q)
  <2>1. q.step \in {"reference", "email", "user", "profile", "insert"} =>
           q.organisation \in Names /\ organisation'[q.organisation].here
    BY <1>1 DEF CsvSound, Grown
  <2>2. q.step \in {"profile", "insert"} => q.user \in Emails /\ HasAccount(q.user)'
    BY <1>1 DEF CsvSound, Grown
  <2>3. CsvSound(q)'
    BY <1>1, <2>1, <2>2 DEF CsvSound
  <2>4. QED BY <1>1, <2>3 DEF Sound
<1>2. CASE q \in Creations /\ CreationSound(q)
  <2>1. q.settings \in Settings
    BY <1>2 DEF CreationSound, SettingsSound
  <2>2. CreationSound(q)'
    BY <1>2, <2>1 DEF Grown, CreationSound
  <2>3. QED BY <1>2, <2>2 DEF Sound
<1>3. CASE q \in Previews \cup Uploads /\ SettingsSound(q)
  BY <1>3 DEF Grown, Sound
<1>4. CASE q = Idle
  BY <1>4 DEF Sound
<1>5. QED BY <1>1, <1>2, <1>3, <1>4 DEF Sound

\* A request that goes on soundly leaves the requests sound.
LEMMA RequestsGrow ==
    ASSUME RequestsOK, Grown, NEW r \in Requests, NEW q, Becomes(r, q), Sound(q)'
    PROVE  RequestsOK'
<1>1. DOMAIN request' = Requests /\ request'[r] = q
      /\ \A t \in Requests : t # r => request'[t] = request[t]
  BY DEF Becomes, RequestsOK
<1>2. ASSUME NEW t \in Requests PROVE Sound(request[t])'
  <2>1. CASE t = r
    <3>1. request'[t] = q
      BY <1>1, <2>1
    <3>2. QED BY <3>1 DEF Sound, CsvSound, CreationSound, SettingsSound, Refused, Failed, HasAccount
  <2>2. CASE t # r
    <3> DEFINE x == request[t]
    <3>1. Sound(x)
      BY DEF RequestsOK
    <3>2. request'[t] = x
      BY <1>1, <2>2
    <3>3. QED BY <3>1, <3>2, SoundGrows DEF Sound
  <2>3. QED BY <2>1, <2>2
<1>3. QED BY <1>1, <1>2 DEF RequestsOK

LEMMA SettingsKept ==
    ASSUME UNCHANGED <<configuration, edited>> \/ edited'
    PROVE  \A q : SettingsSound(q) => SettingsSound(q)'
  BY DEF SettingsSound

\* Organisations, their advisors and accounts: what a statement of the CSV
\* import leaves in shape.
LEMMA OrganisationsGrow ==
    ASSUME Base, organisation' \in [Names -> Organisations],
           \A n \in Names : organisation[n].here => organisation'[n].here,
           \A n \in Names : organisation'[n].reference => organisation'[n].here,
           UNCHANGED <<accounts, profiles, period_vars>>
    PROVE  Base' /\ Grown
<1>1. OrganisationsOK'
  BY DEF OrganisationsOK
<1>2. AccountsOK' /\ PeriodsOK' /\ AssessmentsOK'
  BY DEF Base, AccountsOK, PeriodsOK, AssessmentsOK, OfConfiguration, period_vars
<1>3. ProfilesOK'
  <2>1. \A p \in Emails \X Names : p[2] \in Names
    OBVIOUS
  <2>2. QED BY <2>1 DEF Base, ProfilesOK, HasAccount
<1>4. Grown
  BY SettingsKept DEF Grown, HasAccount, Refused, Failed, period_vars
<1>5. QED BY <1>1, <1>2, <1>3, <1>4 DEF Base

LEMMA AccountsGrow ==
    ASSUME Base, NEW e \in Emails, accounts' = Append(accounts, e),
           UNCHANGED <<organisation, profiles, period_vars>>
    PROVE  Base' /\ Grown /\ HasAccount(e)'
<1>1. /\ accounts' \in Seq(Emails)
      /\ \A i \in DOMAIN accounts : i \in DOMAIN accounts' /\ accounts'[i] = accounts[i]
      /\ Len(accounts) + 1 \in DOMAIN accounts' /\ accounts'[Len(accounts) + 1] = e
  BY DEF Base, AccountsOK
<1>2. \A u : HasAccount(u) => HasAccount(u)'
  BY <1>1 DEF HasAccount
<1>3. HasAccount(e)'
  BY <1>1 DEF HasAccount
<1>4. OrganisationsOK' /\ AccountsOK' /\ PeriodsOK' /\ AssessmentsOK'
  BY <1>1 DEF Base, OrganisationsOK, AccountsOK, PeriodsOK, AssessmentsOK,
              OfConfiguration, period_vars
<1>5. ProfilesOK'
  BY <1>2 DEF Base, ProfilesOK
<1>6. Grown
  BY <1>2, SettingsKept DEF Grown, Refused, Failed, period_vars
<1>7. QED BY <1>3, <1>4, <1>5, <1>6 DEF Base

\* Statements that only read.
LEMMA Reads ==
    ASSUME Base, UNCHANGED <<organisation_vars, period_vars>>
    PROVE  Base' /\ Grown
<1>1. OrganisationsOK' /\ AccountsOK' /\ ProfilesOK' /\ PeriodsOK' /\ AssessmentsOK'
  BY DEF Base, OrganisationsOK, AccountsOK, ProfilesOK, HasAccount, PeriodsOK,
         AssessmentsOK, OfConfiguration, organisation_vars, period_vars
<1>2. Grown
  BY SettingsKept DEF Grown, HasAccount, Refused, Failed, organisation_vars, period_vars
<1>3. QED BY <1>1, <1>2 DEF Base

\* A new assessment takes its framework and due date from a configuration.
LEMMA AssessmentsGrow ==
    ASSUME Base, NEW q, q.system \in Systems, SettingsSound(q),
           NEW status \in Statuses, assessment[Key(q, status)] = NoAssessment,
           Created(q, status),
           UNCHANGED <<organisation_vars, now, configuration, edited>>
    PROVE  Base' /\ Grown
<1> DEFINE s == q.settings
<1> DEFINE k == Key(q, status)
<1> DEFINE a == [framework |-> s.framework, due |-> get_submission_due_date(s)]
<1>1. s \in Settings /\ s \in Configured /\ s.end >= s.summer
  BY ImportsAssumption DEF SettingsSound
<1>2. k \in Keys /\ k[2] = s.period
  BY <1>1 DEF Key, Keys, Periods
<1>3. a \in Assessments
  <2>1. s.end \in Nat /\ s.summer \in 0..1 /\ s.framework \in Frameworks
    BY <1>1 DEF Configured
  <2>2. get_submission_due_date(s) \in Nat
    BY <1>1, <2>1 DEF get_submission_due_date
  <2>3. QED BY <2>1, <2>2 DEF Assessments
<1>4. assessment' = [assessment EXCEPT ![k] = a]
  BY DEF Created
<1>5. ~edited => OfConfiguration(a, k[2])
  <2>1. a.framework = s.framework /\ a.due = get_submission_due_date(s)
    OBVIOUS
  <2>2. QED BY <1>2, <2>1 DEF OfConfiguration, SettingsSound
<1>6. assessment[k] = NoAssessment
  OBVIOUS
<1> HIDE DEF k, a, s
<1>7. AssessmentsOK'
  <2>1. assessment' \in [Keys -> Assessments \cup {NoAssessment}]
    BY <1>2, <1>3, <1>4 DEF Base, AssessmentsOK
  <2>2. ASSUME NEW h \in Keys, NEW x, x = assessment'[h], ~edited', x # NoAssessment
        PROVE  OfConfiguration(x, h[2])'
    <3>1. OfConfiguration(x, h[2])
      BY <1>4, <1>5, <2>2 DEF Base, AssessmentsOK
    <3>2. QED BY <3>1 DEF OfConfiguration
  <2>3. QED BY <2>1, <2>2 DEF AssessmentsOK
<1>8. OrganisationsOK' /\ AccountsOK' /\ ProfilesOK' /\ PeriodsOK'
  BY DEF Base, OrganisationsOK, AccountsOK, ProfilesOK, HasAccount, PeriodsOK,
         organisation_vars
<1>9. Grown
  <2>1. \A h : assessment[h] # NoAssessment => assessment'[h] = assessment[h]
    BY <1>4, <1>6
  <2>2. ASSUME NEW c \in Creations
        PROVE  (Refused(c) => Refused(c)') /\ (Failed(c) => Failed(c)')
    <3>1. NoAssessment.framework = None
      BY DEF NoAssessment
    <3>2. QED BY <2>1, <3>1 DEF Refused, Failed, Key
  <2>3. \A c : SettingsSound(c) => SettingsSound(c)'
    BY SettingsKept
  <2>4. QED BY <2>2, <2>3 DEF Grown, HasAccount, organisation_vars
<1>10. QED BY <1>7, <1>8, <1>9 DEF Base

\* A draft that is submitted is there in its new status.
LEMMA SubmitKeeps ==
    ASSUME Base, Submit
    PROVE  Base' /\ Grown
<1>1. PICK s \in Systems, p \in Periods :
         LET d == <<s, p, "draft">>
             e == <<s, p, "submitted">>
         IN  /\ assessment[d] # NoAssessment
             /\ assessment[e] = NoAssessment
             /\ assessment' = [assessment EXCEPT ![e] = assessment[d], ![d] = NoAssessment]
  BY DEF Submit
<1> DEFINE d == <<s, p, "draft">>
<1> DEFINE e == <<s, p, "submitted">>
<1>2. /\ UNCHANGED <<organisation_vars, now, configuration, edited>>
      /\ d \in Keys /\ e \in Keys /\ d # e /\ d[2] = p /\ e[2] = p
  BY DEF Submit, Keys, Statuses
<1>3. assessment \in [Keys -> Assessments \cup {NoAssessment}]
  BY DEF Base, AssessmentsOK
<1>4. /\ assessment'[e] = assessment[d] /\ assessment'[d] = NoAssessment
      /\ \A h \in Keys : h \notin {d, e} => assessment'[h] = assessment[h]
      /\ assessment' \in [Keys -> Assessments \cup {NoAssessment}]
  <2>1. assessment' = [assessment EXCEPT ![e] = assessment[d], ![d] = NoAssessment]
    BY <1>1
  <2> HIDE DEF d, e
  <2>2. assessment'[e] = assessment[d] /\ assessment'[d] = NoAssessment
    BY <1>2, <1>3, <2>1
  <2>3. \A h \in Keys : h \notin {d, e} => assessment'[h] = assessment[h]
    BY <1>3, <2>1
  <2>4. assessment' \in [Keys -> Assessments \cup {NoAssessment}]
    BY <1>2, <1>3, <2>1
  <2>5. QED BY <2>2, <2>3, <2>4
<1>5. AssessmentsOK'
  <2>1. ASSUME NEW h \in Keys, NEW x, x = assessment'[h], ~edited', x # NoAssessment
        PROVE  OfConfiguration(x, h[2])'
    <3>1. OfConfiguration(x, h[2])
      <4>1. CASE h = e
        BY <1>1, <1>2, <1>4, <2>1, <4>1 DEF Base, AssessmentsOK, organisation_vars
      <4>2. CASE h # e
        <5>1. h # d /\ x = assessment[h]
          BY <1>4, <2>1, <4>2
        <5>2. QED BY <1>2, <2>1, <5>1 DEF Base, AssessmentsOK, organisation_vars
      <4>3. QED BY <4>1, <4>2
    <3>2. QED BY <1>2, <3>1 DEF OfConfiguration
  <2>2. QED BY <1>4, <2>1 DEF AssessmentsOK
<1>6. OrganisationsOK' /\ AccountsOK' /\ ProfilesOK' /\ PeriodsOK'
  BY <1>2 DEF Base, OrganisationsOK, AccountsOK, ProfilesOK, HasAccount, PeriodsOK,
              organisation_vars
<1>7. Grown
  <2>1. ASSUME NEW c \in Creations, c.settings \in Settings
        PROVE  (Refused(c) => Refused(c)') /\ (Failed(c) => Failed(c)')
    <3> DEFINE kd == Key(c, "draft")
    <3> DEFINE ks == Key(c, "submitted")
    <3>1. CASE kd = d
      <4>1. ks = e
        BY <3>1 DEF Key
      <4>2. assessment'[ks] # NoAssessment
        BY <1>1, <1>4, <4>1
      <4>3. QED BY <4>2 DEF Refused, Failed
    <3>2. CASE kd # d
      <4>1. kd \notin {d, e} /\ ks \notin {d, e} /\ kd \in Keys /\ ks \in Keys
        BY <2>1, <3>2 DEF Key, Keys, Creations, Periods, Statuses
      <4>2. assessment'[kd] = assessment[kd] /\ assessment'[ks] = assessment[ks]
        BY <1>4, <4>1
      <4>3. QED BY <4>2 DEF Refused, Failed, Key
    <3>3. QED BY <3>1, <3>2
  <2>2. \A c : SettingsSound(c) => SettingsSound(c)'
    BY <1>2, SettingsKept
  <2>3. QED BY <1>2, <2>1, <2>2 DEF Grown, HasAccount, organisation_vars
<1>8. QED BY <1>5, <1>6, <1>7 DEF Base

\* Time passes and the configuration is changed, which is noted.
LEMMA PeriodKeeps ==
    ASSUME Base, Tick \/ ConfigurationAdmin
    PROVE  Base' /\ Grown
<1>1. CASE Tick
  <2>1. PeriodsOK'
    BY <1>1, ImportsAssumption DEF Tick, Base, PeriodsOK
  <2>2. OrganisationsOK' /\ AccountsOK' /\ ProfilesOK' /\ AssessmentsOK'
    BY <1>1 DEF Tick, Base, OrganisationsOK, AccountsOK, ProfilesOK, HasAccount,
                AssessmentsOK, OfConfiguration, organisation_vars
  <2>3. Grown
    BY <1>1, SettingsKept DEF Tick, Grown, HasAccount, Refused, Failed, organisation_vars
  <2>4. QED BY <2>1, <2>2, <2>3 DEF Base
<1>2. CASE ConfigurationAdmin
  <2>1. PeriodsOK'
    BY <1>2 DEF ConfigurationAdmin, Base, PeriodsOK
  <2>2. OrganisationsOK' /\ AccountsOK' /\ ProfilesOK' /\ AssessmentsOK'
    BY <1>2 DEF ConfigurationAdmin, Base, OrganisationsOK, AccountsOK, ProfilesOK,
                HasAccount, AssessmentsOK, organisation_vars
  <2>3. Grown
    BY <1>2, SettingsKept DEF ConfigurationAdmin, Grown, HasAccount, Refused, Failed,
                              organisation_vars
  <2>4. QED BY <2>1, <2>2, <2>3 DEF Base
<1>3. QED BY <1>1, <1>2

LEMMA DefaultConfig ==
    ASSUME NEW q, q.settings \in get_default_config
    PROVE  SettingsSound(q)
  BY DEF get_default_config, SettingsSound

-----------------------------------------------------------------------------
(* The CSV import                                                          *)

\* How a statement that only reads, and goes on soundly, keeps the invariant.
LEMMA ReadsOn ==
    ASSUME IInv, NEW r \in Requests, NEW q, Becomes(r, q), Sound(q),
           UNCHANGED <<organisation_vars, period_vars>>
    PROVE  IInv'
<1>1. Base' /\ Grown
  BY Reads DEF IInv
<1>2. Sound(q)'
  BY <1>1, SoundGrows
<1>3. RequestsOK'
  BY <1>1, <1>2, RequestsGrow DEF IInv
<1>4. QED BY <1>1, <1>3 DEF IInv

\* Where an import is, with what it relies on.
LEMMA CsvAt ==
    ASSUME IInv, NEW r \in Requests, request[r].handler = "import_csv",
           request[r].step # "done"
    PROVE  LET q == request[r] IN
           /\ q \in Imports /\ CsvSound(q)
           /\ q.row \in 1..Len(q.file) /\ FileRow(r) \in FileRows
           /\ FileRow(r).name \in Names
           /\ q.step \in {"email", "user", "profile", "insert"} => FileEmail(r) \in Emails
<1>1. request[r] \in Imports /\ CsvSound(request[r])
  BY Kinds DEF IInv
<1>2. request[r].row \in 1..Len(request[r].file)
  BY <1>1 DEF CsvSound
<1>3. FileRow(r) \in FileRows
  BY <1>1, <1>2, FileTypes DEF FileRow
<1>4. FileRow(r).name \in Names
  BY <1>3 DEF FileRows
<1>5. request[r].step \in {"email", "user", "profile", "insert"} => FileEmail(r) \in Emails
  BY <1>1, <1>2, FileTypes DEF CsvSound, FileEmail, FileRow
<1>6. QED BY <1>1, <1>2, <1>3, <1>4, <1>5

LEMMA ImportCsvSound ==
    ASSUME IInv, NEW r \in Requests, ImportCsv(r)
    PROVE  IInv'
<1>1. Base' /\ Grown
  BY Reads DEF IInv, ImportCsv
<1>2. PICK f \in Files :
         request' = [t \in Requests |->
            IF t = r
            THEN [handler |-> "import_csv", step |-> "find", file |-> f,
                  row |-> 1, email |-> 0, organisation |-> None, user |-> <<>>,
                  alone |-> \A s \in Requests : request[s].handler # "import_csv"]
            ELSE IF request[t].handler = "import_csv"
            THEN [request[t] EXCEPT !.alone = FALSE] ELSE request[t]]
  BY DEF ImportCsv
<1>3. ASSUME NEW t \in Requests PROVE Sound(request[t])'
  <2>1. CASE t = r
    <3> DEFINE alone == \A s \in Requests : request[s].handler # "import_csv"
    <3> DEFINE q == [handler |-> "import_csv", step |-> "find", file |-> f,
                     row |-> 1, email |-> 0, organisation |-> None, user |-> <<>>,
                     alone |-> alone]
    <3>1. request'[t] = q
      BY <1>2, <2>1
    <3>2. alone \in BOOLEAN
      OBVIOUS
    <3> HIDE DEF alone
    <3>3. q \in Imports /\ q.step = "find" /\ q.row = 1 /\ q.file = f
      BY <3>2 DEF Imports
    <3>4. 1 \in 1..Len(f)
      BY ImportsAssumption
    <3> HIDE DEF q
    <3>5. CsvSound(q)
      BY <3>3, <3>4 DEF CsvSound
    <3>6. Sound(q)
      BY <3>3, <3>5 DEF Sound
    <3>7. QED BY <1>1, <3>1, <3>6, SoundGrows DEF Sound
  <2>2. CASE t # r
    <3> DEFINE q == request[t]
    <3> DEFINE n == IF q.handler = "import_csv" THEN [q EXCEPT !.alone = FALSE] ELSE q
    <3>1. request'[t] = n
      BY <1>2, <2>2
    <3>2. Sound(q)
      BY DEF IInv, RequestsOK
    <3>3. Sound(n)
      <4>1. CASE q.handler = "import_csv"
        <5>1. q \in Imports /\ CsvSound(q)
          BY <4>1, Kinds DEF IInv
        <5> HIDE DEF q
        <5>2. n = [q EXCEPT !.alone = FALSE]
          BY <4>1
        <5>3. /\ n \in Imports /\ n.step = q.step /\ n.row = q.row /\ n.file = q.file
              /\ n.organisation = q.organisation /\ n.email = q.email /\ n.user = q.user
          BY <5>1, <5>2 DEF Imports
        <5> HIDE DEF n
        <5>4. CsvSound(n)
          BY <5>1, <5>3 DEF CsvSound
        <5>5. QED BY <5>3, <5>4 DEF Sound
      <4>2. CASE q.handler # "import_csv"
        BY <3>2, <4>2
      <4>3. QED BY <4>1, <4>2
    <3> HIDE DEF n
    <3>4. QED BY <1>1, <3>1, <3>3, SoundGrows DEF Sound
  <2>3. QED BY <2>1, <2>2
<1>4. RequestsOK'
  BY <1>2, <1>3 DEF RequestsOK
<1>5. QED BY <1>1, <1>4 DEF IInv

LEMMA FindOrganisationSound ==
    ASSUME IInv, NEW r \in Requests, FindOrganisation(r)
    PROVE  IInv'
<1> DEFINE o == find_organisation(FileRow(r))
<1> DEFINE q == [request[r] EXCEPT !.organisation = o]
<1> DEFINE n == IF o = None THEN [q EXCEPT !.step = "create"] ELSE NextEmail(q)
<1>1. /\ request[r] \in Imports /\ CsvSound(request[r])
      /\ request[r].row \in 1..Len(request[r].file)
      /\ FileRow(r) \in FileRows
  BY CsvAt DEF FindOrganisation, At
<1>2. o \in Names \cup {None} /\ (o # None => o \in Names /\ organisation[o].here)
  BY <1>1, FindTypes DEF IInv, Base
<1>3. Becomes(r, n) /\ UNCHANGED <<organisation_vars, period_vars>>
  BY DEF FindOrganisation
<1> HIDE DEF o
<1>4. q \in Imports /\ q.row = request[r].row /\ q.file = request[r].file
      /\ q.organisation = o
  BY <1>1, <1>2 DEF Imports
<1> HIDE DEF q
<1>5. n \in Imports /\ CsvSound(n)
  <2>1. CASE o = None
    <3> DEFINE c == [q EXCEPT !.step = "create"]
    <3>1. c \in Imports /\ c.step = "create" /\ c.row = q.row /\ c.file = q.file
      BY <1>4 DEF Imports
    <3> HIDE DEF c
    <3>2. CsvSound(c)
      BY <1>1, <1>4, <3>1 DEF CsvSound
    <3>3. QED BY <2>1, <3>1, <3>2 DEF c
  <2>2. CASE o # None
    BY <1>1, <1>2, <1>4, <2>2, NextEmailSound
  <2>3. QED BY <2>1, <2>2
<1> HIDE DEF n
<1>6. Sound(n)
  BY <1>5 DEF Sound
<1>7. QED BY <1>3, <1>6, ReadsOn

LEMMA CreateOrganisationSound ==
    ASSUME IInv, NEW r \in Requests, CreateOrganisation(r)
    PROVE  IInv'
<1> DEFINE n == FileRow(r).name
<1>1. /\ request[r] \in Imports /\ CsvSound(request[r])
      /\ request[r].row \in 1..Len(request[r].file) /\ n \in Names
  BY CsvAt DEF CreateOrganisation, At
<1>2. CASE organisation[n].here
  <2>1. Becomes(r, Idle) /\ UNCHANGED <<organisation_vars, period_vars>>
    BY <1>2 DEF CreateOrganisation, organisation_vars
  <2>2. Sound(Idle)
    BY DEF Sound
  <2>3. QED BY <2>1, <2>2, ReadsOn
<1>3. CASE ~organisation[n].here
  <2>0. PICK q : q = [request[r] EXCEPT !.step = "reference", !.organisation = n]
    OBVIOUS
  <2>1. /\ organisation' = [organisation EXCEPT ![n].here = TRUE]
        /\ Becomes(r, q)
        /\ UNCHANGED <<accounts, profiles, period_vars>>
    BY <1>3, <2>0 DEF CreateOrganisation
  <2> HIDE DEF n
  <2>2. /\ organisation' \in [Names -> Organisations]
        /\ \A m \in Names : organisation[m].here => organisation'[m].here
        /\ \A m \in Names : organisation'[m].reference => organisation'[m].here
        /\ organisation'[n].here
    BY <1>1, <2>1 DEF IInv, Base, OrganisationsOK, Organisations
  <2>3. Base' /\ Grown
    BY <2>1, <2>2, OrganisationsGrow DEF IInv
  <2>4. /\ q \in Imports /\ q.step = "reference" /\ q.organisation = n
        /\ q.row = request[r].row /\ q.file = request[r].file
    BY <1>1, <2>0 DEF Imports
  <2>5. Sound(q)'
    BY <1>1, <2>2, <2>4 DEF Sound, CsvSound
  <2>6. RequestsOK'
    BY <2>1, <2>3, <2>5, RequestsGrow DEF IInv
  <2>7. QED BY <2>3, <2>6 DEF IInv
<1>4. QED BY <1>2, <1>3

LEMMA SetReferenceSound ==
    ASSUME IInv, NEW r \in Requests, SetReference(r)
    PROVE  IInv'
<1> DEFINE q == request[r]
<1> DEFINE o == q.organisation
<1>1. /\ q \in Imports /\ q.row \in 1..Len(q.file)
      /\ o \in Names /\ organisation[o].here
  BY CsvAt DEF SetReference, At, CsvSound
<1>2. /\ organisation' = [organisation EXCEPT ![o].reference = TRUE]
      /\ Becomes(r, NextEmail(q))
      /\ UNCHANGED <<accounts, profiles, period_vars>>
  BY DEF SetReference
<1>3. Sound(NextEmail(q))
  BY <1>1, NextEmailSound DEF Sound
<1>4. /\ organisation' \in [Names -> Organisations]
      /\ \A m \in Names : organisation[m].here => organisation'[m].here
      /\ \A m \in Names : organisation'[m].reference => organisation'[m].here
  <2> HIDE DEF o
  <2>1. QED BY <1>1, <1>2 DEF IInv, Base, OrganisationsOK, Organisations
<1>5. Base' /\ Grown
  BY <1>2, <1>4, OrganisationsGrow DEF IInv
<1> DEFINE n == NextEmail(q)
<1> HIDE DEF n
<1>6. Becomes(r, n) /\ Sound(n)
  BY <1>2, <1>3 DEF n
<1>7. RequestsOK'
  BY <1>5, <1>6, SoundGrows, RequestsGrow DEF IInv
<1>8. QED BY <1>5, <1>7 DEF IInv

LEMMA FindUserSound ==
    ASSUME IInv, NEW r \in Requests, FindUser(r)
    PROVE  IInv'
<1>1. request[r] \in Imports /\ CsvSound(request[r]) /\ request[r].step = "email"
  BY CsvAt DEF FindUser, At
<1>2. UNCHANGED <<organisation_vars, period_vars>>
  BY DEF FindUser
<1>3. \E n : Becomes(r, n) /\ Sound(n)
  <2>1. CASE To(r, "user")
    <3> DEFINE n == [request[r] EXCEPT !.step = "user"]
    <3>1. /\ n \in Imports /\ n.step = "user" /\ n.organisation = request[r].organisation
          /\ n.row = request[r].row /\ n.file = request[r].file /\ n.email = request[r].email
      BY <1>1 DEF Imports
    <3>2. Becomes(r, n)
      BY <2>1 DEF To
    <3> HIDE DEF n
    <3>3. CsvSound(n)
      BY <1>1, <3>1 DEF CsvSound
    <3>4. QED BY <3>1, <3>2, <3>3 DEF Sound
  <2>2. CASE \E i \in DOMAIN accounts :
                Becomes(r, [request[r] EXCEPT !.step = "profile", !.user = accounts[i]])
    <3>1. PICK i \in DOMAIN accounts :
             Becomes(r, [request[r] EXCEPT !.step = "profile", !.user = accounts[i]])
      BY <2>2
    <3> DEFINE u == accounts[i]
    <3>2. u \in Emails /\ HasAccount(u)
      BY <3>1 DEF IInv, Base, AccountsOK, HasAccount
    <3> DEFINE n == [request[r] EXCEPT !.step = "profile", !.user = u]
    <3> HIDE DEF u
    <3>3. /\ n \in Imports /\ n.step = "profile" /\ n.organisation = request[r].organisation
          /\ n.row = request[r].row /\ n.file = request[r].file
          /\ n.email = request[r].email /\ n.user = u
      BY <1>1, <3>2 DEF Imports
    <3> HIDE DEF n
    <3>4. CsvSound(n)
      BY <1>1, <3>2, <3>3 DEF CsvSound
    <3>5. QED BY <3>1, <3>3, <3>4 DEF Sound, n, u
  <2>3. QED BY <2>1, <2>2 DEF FindUser
<1>4. QED BY <1>2, <1>3, ReadsOn

LEMMA CreateUserSound ==
    ASSUME IInv, NEW r \in Requests, CreateUser(r)
    PROVE  IInv'
<1>0. PICK e : e = FileEmail(r)
  OBVIOUS
<1>1. request[r] \in Imports /\ CsvSound(request[r]) /\ request[r].step = "user"
      /\ e \in Emails
  BY <1>0, CsvAt DEF CreateUser, At
<1>2. CASE \E i \in DOMAIN accounts : accounts[i] = e
  <2>1. Becomes(r, Idle) /\ UNCHANGED <<organisation_vars, period_vars>>
    BY <1>0, <1>2 DEF CreateUser, organisation_vars
  <2>2. Sound(Idle)
    BY DEF Sound
  <2>3. QED BY <2>1, <2>2, ReadsOn
<1>3. CASE ~\E i \in DOMAIN accounts : accounts[i] = e
  <2>0. PICK n : n = [request[r] EXCEPT !.step = "profile", !.user = e]
    OBVIOUS
  <2>1. /\ accounts' = Append(accounts, e) /\ Becomes(r, n)
        /\ UNCHANGED <<organisation, profiles, period_vars>>
    BY <1>0, <1>3, <2>0 DEF CreateUser
  <2>2. Base' /\ Grown /\ HasAccount(e)'
    BY <1>1, <2>1, AccountsGrow DEF IInv
  <2>3. /\ n \in Imports /\ n.step = "profile" /\ n.organisation = request[r].organisation
        /\ n.row = request[r].row /\ n.file = request[r].file
        /\ n.email = request[r].email /\ n.user = e
    BY <1>1, <2>0 DEF Imports
  <2>4. CsvSound(n)'
    BY <1>1, <2>1, <2>2, <2>3 DEF CsvSound
  <2>5. Sound(n)'
    BY <2>3, <2>4 DEF Sound
  <2>6. RequestsOK'
    BY <2>1, <2>2, <2>5, RequestsGrow DEF IInv
  <2>7. QED BY <2>2, <2>6 DEF IInv
<1>4. QED BY <1>2, <1>3

\* Where the profile of the address is looked for and created.
LEMMA ProfileAt ==
    ASSUME IInv, NEW r \in Requests, request[r].handler = "import_csv",
           request[r].step \in {"profile", "insert"}
    PROVE  /\ request[r] \in Imports /\ CsvSound(request[r])
           /\ ProfileOf(r) \in Emails \X Names
           /\ organisation[ProfileOf(r)[2]].here /\ HasAccount(ProfileOf(r)[1])
           /\ NextEmail(request[r]) \in Imports /\ CsvSound(NextEmail(request[r]))
<1>1. request[r] \in Imports /\ CsvSound(request[r])
      /\ request[r].row \in 1..Len(request[r].file)
  BY CsvAt
<1>2. /\ request[r].user \in Emails /\ HasAccount(request[r].user)
      /\ request[r].organisation \in Names /\ organisation[request[r].organisation].here
  BY <1>1 DEF CsvSound
<1>3. NextEmail(request[r]) \in Imports /\ CsvSound(NextEmail(request[r]))
  BY <1>1, <1>2, NextEmailSound
<1>4. QED BY <1>1, <1>2, <1>3 DEF ProfileOf

LEMMA GetProfileSound ==
    ASSUME IInv, NEW r \in Requests, GetProfile(r)
    PROVE  IInv'
<1>1. /\ request[r] \in Imports /\ CsvSound(request[r]) /\ request[r].step = "profile"
      /\ NextEmail(request[r]) \in Imports /\ CsvSound(NextEmail(request[r]))
  BY ProfileAt DEF GetProfile, At
<1> DEFINE i == [request[r] EXCEPT !.step = "insert"]
<1> DEFINE n == NextEmail(request[r])
<1>2. /\ i \in Imports /\ i.step = "insert" /\ i.organisation = request[r].organisation
      /\ i.row = request[r].row /\ i.file = request[r].file
      /\ i.email = request[r].email /\ i.user = request[r].user
  BY <1>1 DEF Imports
<1>3. Becomes(r, i) \/ Becomes(r, n) \/ Becomes(r, Idle)
  BY DEF GetProfile
<1> HIDE DEF i
<1>4. CsvSound(i)
  BY <1>1, <1>2 DEF CsvSound
<1>5. Sound(i) /\ Sound(n) /\ Sound(Idle)
  BY <1>1, <1>2, <1>4 DEF Sound
<1> HIDE DEF n
<1>6. QED BY <1>3, <1>5, ReadsOn DEF GetProfile

LEMMA InsertProfileSound ==
    ASSUME IInv, NEW r \in Requests, InsertProfile(r)
    PROVE  IInv'
<1> DEFINE p == ProfileOf(r)
<1> DEFINE n == NextEmail(request[r])
<1>1. /\ p \in Emails \X Names /\ organisation[p[2]].here /\ HasAccount(p[1])
      /\ Sound(n)
  BY ProfileAt DEF InsertProfile, At, Sound
<1>2. /\ profiles' = [profiles EXCEPT ![p] = @ + 1] /\ Becomes(r, n)
      /\ UNCHANGED <<organisation, accounts, period_vars>>
  BY DEF InsertProfile
<1> HIDE DEF p, n
<1>3. ProfilesOK'
  <2>1. profiles' \in [Emails \X Names -> Nat]
    <3>1. profiles[p] \in Nat /\ profiles[p] + 1 \in Nat
      BY <1>1 DEF IInv, Base, ProfilesOK
    <3>2. QED BY <1>1, <1>2, <3>1 DEF IInv, Base, ProfilesOK
  <2>2. ASSUME NEW h \in Emails \X Names, profiles'[h] > 0
        PROVE  organisation'[h[2]].here /\ HasAccount(h[1])'
    <3>1. organisation[h[2]].here /\ HasAccount(h[1])
      <4>1. CASE h = p
        BY <1>1, <4>1
      <4>2. CASE h # p
        <5>1. profiles'[h] = profiles[h]
          BY <1>2, <2>2, <4>2 DEF IInv, Base, ProfilesOK
        <5>2. QED BY <2>2, <5>1 DEF IInv, Base, ProfilesOK
      <4>3. QED BY <4>1, <4>2
    <3>2. QED BY <1>2, <3>1 DEF HasAccount
  <2>3. QED BY <2>1, <2>2 DEF ProfilesOK
<1>4. Grown
  BY <1>2, SettingsKept DEF Grown, HasAccount, Refused, Failed, period_vars
<1>5. OrganisationsOK' /\ AccountsOK' /\ PeriodsOK' /\ AssessmentsOK'
  BY <1>2 DEF IInv, Base, OrganisationsOK, AccountsOK, PeriodsOK, AssessmentsOK,
              OfConfiguration, period_vars
<1>6. RequestsOK'
  BY <1>1, <1>2, <1>4, SoundGrows, RequestsGrow DEF IInv
<1>7. QED BY <1>3, <1>5, <1>6 DEF IInv, Base

LEMMA SetParentSound ==
    ASSUME IInv, NEW r \in Requests, SetParent(r)
    PROVE  IInv'
<1> DEFINE o == find_organisation(FileRow(r))
<1> DEFINE lead == FileRow(r).lead
<1> DEFINE n == NextRow(request[r])
<1>1. /\ request[r] \in Imports /\ request[r].row \in 1..Len(request[r].file)
      /\ FileRow(r) \in FileRows
  BY CsvAt DEF SetParent, At
<1>2. /\ organisation' =
            IF ~organisation[lead].here THEN organisation
            ELSE [organisation EXCEPT ![o] =
                    [here |-> TRUE, reference |-> TRUE,
                     parent |-> IF o = lead THEN None ELSE lead]]
      /\ Becomes(r, n) /\ UNCHANGED <<accounts, profiles, period_vars>>
  BY DEF SetParent
<1>3. Sound(n)
  BY <1>1, NextRowSound DEF Sound
<1>4. lead \in Names
  BY <1>1 DEF FileRows
<1> DEFINE parent == IF o = lead THEN None ELSE lead
<1> DEFINE x == [here |-> TRUE, reference |-> TRUE, parent |-> parent]
<1>5. parent \in Names \cup {None}
  BY <1>4
<1>6. organisation' = organisation \/ organisation' = [organisation EXCEPT ![o] = x]
  BY <1>2
<1> HIDE DEF parent, n, o, lead
<1>7. x \in Organisations /\ x.here
  BY <1>5 DEF Organisations
<1> HIDE DEF x
<1>8. /\ organisation' \in [Names -> Organisations]
      /\ \A m \in Names : organisation[m].here => organisation'[m].here
      /\ \A m \in Names : organisation'[m].reference => organisation'[m].here
  <2>1. organisation \in [Names -> Organisations]
        /\ \A m \in Names : organisation[m].reference => organisation[m].here
    BY DEF IInv, Base, OrganisationsOK
  <2>2. \A m \in Names : organisation'[m] \in {organisation[m], x}
    BY <1>6, <2>1
  <2>3. organisation' \in [Names -> Organisations]
    BY <1>6, <1>7, <2>1
  <2>4. QED BY <1>7, <2>1, <2>2, <2>3
<1>9. Base' /\ Grown
  BY <1>2, <1>8, OrganisationsGrow DEF IInv
<1>10. RequestsOK'
  BY <1>2, <1>3, <1>9, SoundGrows, RequestsGrow DEF IInv
<1>11. QED BY <1>9, <1>10 DEF IInv

-----------------------------------------------------------------------------
(* The form and the import of an assessment                                *)

\* A creation that goes on to another step of its form.
LEMMA CreationTo ==
    ASSUME NEW q \in Creations, NEW s \in {"get", "insert", "again", "error"}
    PROVE  LET n == [q EXCEPT !.step = s] IN
           /\ n \in Creations /\ n.step = s
           /\ n.system = q.system /\ n.settings = q.settings
           /\ SettingsSound(q) => SettingsSound(n)
           /\ Refused(q) => Refused(n)
           /\ Failed(q) => Failed(n)
<1> DEFINE n == [q EXCEPT !.step = s]
<1>1. n \in Creations /\ n.step = s /\ n.system = q.system /\ n.settings = q.settings
  BY DEF Creations
<1> HIDE DEF n
<1>2. SettingsSound(q) => SettingsSound(n)
  BY <1>1 DEF SettingsSound
<1>3. (Refused(q) => Refused(n)) /\ (Failed(q) => Failed(n))
  BY <1>1 DEF Refused, Failed, Key
<1>4. QED BY <1>1, <1>2, <1>3 DEF n

LEMMA IdleSound == Sound(Idle)
  BY DEF Sound

LEMMA CreationsKeep ==
    ASSUME IInv, NEW r \in Requests, CreateStep(r)
    PROVE  IInv'
<1> DEFINE q == request[r]
<1>1. CASE CreateAssessmentView(r)
  <2>1. PICK s \in Systems, c \in get_default_config :
           Becomes(r, [handler |-> "CreateAssessmentView", step |-> "get",
                       system |-> s, settings |-> c])
    BY <1>1 DEF CreateAssessmentView
  <2> DEFINE n == [handler |-> "CreateAssessmentView", step |-> "get",
                   system |-> s, settings |-> c]
  <2>2. SettingsSound(n)
    BY DefaultConfig
  <2>3. c \in Configured
    BY ImportsAssumption DEF get_default_config
  <2>4. n \in Creations /\ n.step = "get"
    BY <2>3 DEF Creations
  <2>5. Becomes(r, n)
    BY <2>1
  <2> HIDE DEF n
  <2>6. Sound(n)
    BY <2>2, <2>4 DEF Sound, CreationSound
  <2>7. QED BY <1>1, <2>5, <2>6, ReadsOn DEF CreateAssessmentView
<1>2. ASSUME q.handler = "CreateAssessmentView"
      PROVE  q \in Creations /\ CreationSound(q) /\ SettingsSound(q)
  BY <1>2, Kinds DEF IInv, CreationSound
<1>3. CASE GetDraft(r)
  <2>1. q \in Creations /\ SettingsSound(q)
    BY <1>2, <1>3 DEF GetDraft, At
  <2> DEFINE n == [q EXCEPT !.step = "insert"]
  <2>2. n \in Creations /\ n.step = "insert" /\ SettingsSound(n)
    BY <2>1, CreationTo
  <2>3. Becomes(r, Idle) \/ Becomes(r, n)
    BY <1>3 DEF GetDraft, To
  <2> HIDE DEF n
  <2>4. Sound(n)
    BY <2>2 DEF Sound, CreationSound
  <2>5. QED BY <1>3, <2>3, <2>4, IdleSound, ReadsOn DEF GetDraft
<1>4. CASE InsertDraft(r)
  <2>1. q \in Creations /\ SettingsSound(q) /\ q.system \in Systems
    BY <1>2, <1>4 DEF InsertDraft, At, Creations
  <2>2. CASE assessment[Key(q, "draft")] = NoAssessment
    <3>1. Created(q, "draft") /\ Becomes(r, Idle)
          /\ UNCHANGED <<organisation_vars, now, configuration, edited>>
      BY <1>4, <2>2 DEF InsertDraft
    <3>2. "draft" \in Statuses
      BY DEF Statuses
    <3>3. Base' /\ Grown
      BY <2>1, <2>2, <3>1, <3>2, AssessmentsGrow DEF IInv
    <3>4. RequestsOK'
      BY <3>1, <3>3, IdleSound, SoundGrows, RequestsGrow DEF IInv
    <3>5. QED BY <3>3, <3>4 DEF IInv
  <2>3. CASE assessment[Key(q, "draft")] # NoAssessment
    <3> DEFINE n == [q EXCEPT !.step = "again"]
    <3>1. Becomes(r, n) /\ UNCHANGED <<organisation_vars, period_vars>>
      BY <1>4, <2>3 DEF InsertDraft, To, period_vars
    <3>2. n \in Creations /\ n.step = "again" /\ SettingsSound(n) /\ Refused(n)
      BY <2>1, <2>3, CreationTo DEF Refused
    <3> HIDE DEF n
    <3>3. Sound(n)
      BY <3>2 DEF Sound, CreationSound
    <3>4. QED BY <3>1, <3>3, ReadsOn
  <2>4. QED BY <2>2, <2>3
<1>5. CASE GetDraftAgain(r)
  <2>1. q \in Creations /\ SettingsSound(q) /\ Refused(q)
    BY <1>2, <1>5 DEF GetDraftAgain, At, CreationSound
  <2>2. UNCHANGED <<organisation_vars, period_vars>>
    BY <1>5 DEF GetDraftAgain
  <2>3. CASE GotDraft(q)
    <3>1. Becomes(r, Idle)
      BY <1>5, <2>3 DEF GetDraftAgain
    <3>2. QED BY <2>2, <3>1, IdleSound, ReadsOn
  <2>4. CASE ~GotDraft(q)
    <3> DEFINE n == [q EXCEPT !.step = "error"]
    <3>1. Becomes(r, n)
      BY <1>5, <2>4 DEF GetDraftAgain, To
    <3>2. Failed(q)
      <4>1. Key(q, "draft") \in Keys /\ Key(q, "submitted") \in Keys
        BY <2>1 DEF Key, Keys, Creations, SettingsSound, Periods, Statuses
      <4>2. assessment[Key(q, "draft")] # NoAssessment =>
               assessment[Key(q, "draft")].framework \in Frameworks
        BY <4>1 DEF IInv, Base, AssessmentsOK, Assessments
      <4>3. QED BY <2>1, <2>4, <4>2, ImportsAssumption DEF Refused, Failed, GotDraft
    <3>3. n \in Creations /\ n.step = "error" /\ SettingsSound(n) /\ Failed(n)
      BY <2>1, <3>2, CreationTo
    <3> HIDE DEF n
    <3>4. Sound(n)
      BY <3>3 DEF Sound, CreationSound
    <3>5. QED BY <2>2, <3>1, <3>4, ReadsOn
  <2>5. QED BY <2>3, <2>4
<1>6. QED BY <1>1, <1>3, <1>4, <1>5 DEF CreateStep

LEMMA UploadsKeep ==
    ASSUME IInv, NEW r \in Requests, ImportExcelStep(r)
    PROVE  IInv'
<1>1. CASE PreviewExcelImport(r)
  <2>1. PICK c \in get_default_config :
           Becomes(r, [handler |-> "import_excel", step |-> "preview", settings |-> c])
    BY <1>1 DEF PreviewExcelImport
  <2> DEFINE n == [handler |-> "import_excel", step |-> "preview", settings |-> c]
  <2>2. SettingsSound(n)
    BY DefaultConfig
  <2>3. c \in Configured
    BY ImportsAssumption DEF get_default_config
  <2>4. n \in Previews
    BY <2>3 DEF Previews
  <2>5. Becomes(r, n) /\ Sound(n)
    BY <2>1, <2>2, <2>4 DEF Sound
  <2> HIDE DEF n
  <2>6. QED BY <1>1, <2>5, ReadsOn DEF PreviewExcelImport
<1>2. CASE PostExcelImport(r)
  <2>1. PICK s \in Systems, status \in Statuses, c \in get_default_config :
           LET q == [handler |-> "import_excel", step |-> "create", system |-> s,
                     settings |-> c, status |-> status]
           IN  Becomes(r, IF assessment[Key(q, status)] = NoAssessment THEN q ELSE Idle)
    BY <1>2 DEF PostExcelImport, Chosen
  <2> DEFINE n == [handler |-> "import_excel", step |-> "create", system |-> s,
                   settings |-> c, status |-> status]
  <2>2. SettingsSound(n)
    BY DefaultConfig
  <2>3. c \in Configured
    BY ImportsAssumption DEF get_default_config
  <2>4. n \in Uploads
    BY <2>3 DEF Uploads
  <2>5. Sound(n) /\ (Becomes(r, n) \/ Becomes(r, Idle))
    BY <2>1, <2>2, <2>4 DEF Sound
  <2> HIDE DEF n
  <2>6. QED BY <1>2, <2>5, IdleSound, ReadsOn DEF PostExcelImport
<1>3. CASE CreateFromImport(r)
  <2> DEFINE q == request[r]
  <2>1. /\ q \in Uploads /\ SettingsSound(q)
        /\ q.system \in Systems /\ q.status \in Statuses
    <3>1. q \in Previews \cup Uploads /\ SettingsSound(q)
      BY <1>3, Kinds DEF IInv, CreateFromImport, At
    <3>2. q.step = "create"
      BY <1>3 DEF CreateFromImport, At
    <3>3. QED BY <3>1, <3>2 DEF Previews, Uploads
  <2>2. Becomes(r, Idle) /\ UNCHANGED <<organisation_vars, now, configuration, edited>>
    BY <1>3 DEF CreateFromImport
  <2>3. CASE assessment[Key(q, q.status)] = NoAssessment
    <3>1. Created(q, q.status)
      BY <1>3, <2>3 DEF CreateFromImport
    <3>2. Base' /\ Grown
      BY <2>1, <2>2, <2>3, <3>1, AssessmentsGrow DEF IInv
    <3>3. RequestsOK'
      BY <2>2, <3>2, IdleSound, SoundGrows, RequestsGrow DEF IInv
    <3>4. QED BY <3>2, <3>3 DEF IInv
  <2>4. CASE assessment[Key(q, q.status)] # NoAssessment
    <3>1. UNCHANGED <<organisation_vars, period_vars>>
      BY <1>3, <2>4, <2>2 DEF CreateFromImport, period_vars
    <3>2. QED BY <2>2, <3>1, IdleSound, ReadsOn
  <2>5. QED BY <2>3, <2>4
<1>4. QED BY <1>1, <1>2, <1>3 DEF ImportExcelStep

-----------------------------------------------------------------------------
(* An import that no other has overlapped: what it has done of its file    *)

\* The references in a file are those of organisations that have one.
ReferencesKnown(file) ==
    \A i \in DOMAIN file :
        file[i].reference # None => organisation[file[i].reference].reference

EmailDone(file, i, k) ==
    \E j \in DOMAIN accounts :
        /\ normalize_email(accounts[j]) = normalize_email(file[i].emails[k])
        /\ profiles[<<accounts[j], find_organisation(file[i])>>] = 1

\* Row i has had its second pass, as far as rows before row n go.
ParentDone(file, i, n) ==
    LET o == find_organisation(file[i])
        lead == file[i].lead
    IN  organisation[lead].here =>
            /\ organisation[o].reference
            /\ (\A j \in DOMAIN file :
                  i < j /\ j < n /\ find_organisation(file[j]) = o =>
                      ~organisation[file[j].lead].here)
               => organisation[o].parent = IF o = lead THEN None ELSE lead

Found(file) == [i \in DOMAIN file |-> find_organisation(file[i])]

Mailed(file) ==
    [i \in DOMAIN file |-> {k \in DOMAIN file[i].emails : EmailDone(file, i, k)}]

Placed(file) ==
    [n \in 1..(Len(file) + 1) |-> {i \in DOMAIN file : ParentDone(file, i, n)}]

\* Rows before row n have their organisation, with its advisors.
RowsDone(file, n, found, mailed) ==
    \A i \in DOMAIN file : i < n =>
        found[i] # None /\ DOMAIN file[i].emails \subseteq mailed[i]

\* What lies behind an import, from the step it is at.
Behind(q, found, mailed, placed) ==
    /\ q.step \notin {"parent", "done"} => RowsDone(q.file, q.row, found, mailed)
    /\ q.step \in {"find", "create", "reference"} => q.email = 0
    /\ q.step = "create" => found[q.row] = None
    /\ q.step \in {"reference", "email", "user", "profile", "insert"} =>
          /\ q.organisation # None
          /\ found[q.row] = q.organisation
          /\ \A k \in DOMAIN q.file[q.row].emails : k < q.email => k \in mailed[q.row]
    /\ q.step \in {"parent", "done"} =>
          RowsDone(q.file, Len(q.file) + 1, found, mailed)
    /\ q.step = "parent" =>
          \A i \in DOMAIN q.file : i < q.row => i \in placed[q.row]
    /\ q.step = "done" =>
          \A i \in DOMAIN q.file : i \in placed[Len(q.file) + 1]

\* The account at hand is that of the address, and a profile that is about to
\* be inserted is the first.
UserAtHand(q) ==
    /\ q.step \in {"profile", "insert"} =>
          normalize_email(q.user) = normalize_email(q.file[q.row].emails[q.email])
    /\ q.step = "insert" => profiles[<<q.user, q.organisation>>] = 0

Progress(q) ==
    /\ ReferencesKnown(q.file)
    /\ Behind(q, Found(q.file), Mailed(q.file), Placed(q.file))
    /\ UserAtHand(q)

\* request r is an import that no other has overlapped.
Alone(r) == request[r].handler = "import_csv" /\ request[r].alone

AloneOK ==
    \A r \in Requests : Alone(r) =>
        /\ \A t \in Requests : request[t].handler = "import_csv" => t = r
        /\ Progress(request[r])

LEMMA NextRowBehind ==
    ASSUME NEW q \in Imports, q.row \in 1..Len(q.file), NEW found, NEW mailed, NEW placed,
           \/ /\ q.step # "parent" /\ q.email = 0
              /\ RowsDone(q.file, q.row + 1, found, mailed)
           \/ /\ q.step = "parent"
              /\ RowsDone(q.file, Len(q.file) + 1, found, mailed)
              /\ \A i \in DOMAIN q.file : i < q.row + 1 => i \in placed[q.row + 1]
    PROVE  LET n == NextRow(q) IN
           n.file = q.file /\ Behind(n, found, mailed, placed) /\ n.step \notin {"profile", "insert"}
<1>1. /\ Len(q.file) \in Nat /\ Len(q.file) > 0 /\ DOMAIN q.file = 1..Len(q.file)
      /\ q.row \in Nat
  BY FileTypes DEF Imports
<1>2. CASE q.row < Len(q.file)
  <2> DEFINE st == IF q.step = "parent" THEN q.step ELSE "find"
  <2> DEFINE row == q.row + 1
  <2> DEFINE n == [q EXCEPT !.row = row, !.step = st]
  <2>1. NextRow(q) = n
    BY <1>2 DEF NextRow, Imports
  <2>2. (q.step = "parent" /\ st = "parent") \/ (q.step # "parent" /\ st = "find")
    OBVIOUS
  <2> HIDE DEF st
  <2>3. n.file = q.file /\ n.step = st /\ n.row = row /\ n.email = q.email
    BY DEF Imports
  <2> HIDE DEF n
  <2>4. Behind(n, found, mailed, placed) /\ n.step \notin {"profile", "insert"}
    BY <2>2, <2>3 DEF Behind
  <2>5. QED BY <2>1, <2>3, <2>4
<1>3. CASE ~(q.row < Len(q.file)) /\ q.step = "parent"
  <2> DEFINE n == [q EXCEPT !.step = "done"]
  <2>1. NextRow(q) = n
    BY <1>3 DEF NextRow
  <2>2. n.file = q.file /\ n.step = "done"
    BY DEF Imports
  <2>3. q.row = Len(q.file)
    BY <1>1, <1>3
  <2>4. \A i \in DOMAIN q.file : i \in placed[Len(q.file) + 1]
    BY <1>1, <1>3, <2>3
  <2> HIDE DEF n
  <2>5. Behind(n, found, mailed, placed) /\ n.step \notin {"profile", "insert"}
    BY <1>3, <2>2, <2>4 DEF Behind
  <2>6. QED BY <2>1, <2>2, <2>5
<1>4. CASE ~(q.row < Len(q.file)) /\ q.step # "parent"
  <2> DEFINE n == [q EXCEPT !.row = 1, !.step = "parent"]
  <2>1. NextRow(q) = n
    BY <1>4 DEF NextRow
  <2>2. n.file = q.file /\ n.step = "parent" /\ n.row = 1
    BY DEF Imports
  <2>3. RowsDone(q.file, Len(q.file) + 1, found, mailed)
    <3>1. q.row = Len(q.file)
      BY <1>1, <1>4
    <3>2. QED BY <1>4, <3>1
  <2> HIDE DEF n
  <2>4. \A i \in DOMAIN n.file : ~(i < 1)
    BY <1>1, <2>2
  <2>5. Behind(n, found, mailed, placed) /\ n.step \notin {"profile", "insert"}
    BY <2>2, <2>3, <2>4 DEF Behind
  <2>6. QED BY <2>1, <2>2, <2>5
<1>5. QED BY <1>2, <1>3, <1>4

\* From an address that has its profile, or from an organisation that is found,
\* on to the next address or row.
LEMMA NextEmailBehind ==
    ASSUME NEW q \in Imports, q.row \in 1..Len(q.file), NEW found, NEW mailed, NEW placed,
           q.step # "parent",
           RowsDone(q.file, q.row, found, mailed),
           q.organisation # None,
           found[q.row] = q.organisation,
           \A k \in DOMAIN q.file[q.row].emails : k < q.email + 1 => k \in mailed[q.row]
    PROVE  LET n == NextEmail(q) IN
           n.file = q.file /\ Behind(n, found, mailed, placed) /\ n.step \notin {"profile", "insert"}
<1> DEFINE emails == q.file[q.row].emails
<1>1. /\ DOMAIN q.file = 1..Len(q.file) /\ Len(q.file) \in Nat /\ q.row \in Nat
      /\ q.email \in Nat /\ Len(emails) \in Nat /\ DOMAIN emails = 1..Len(emails)
  <2>1. q.file \in Seq(FileRows) /\ q.file[q.row] \in FileRows
    BY FileTypes
  <2>2. emails \in Seq(Emails)
    BY <2>1 DEF FileRows
  <2>3. QED BY <2>1, <2>2 DEF Imports
<1>2. CASE q.email < Len(emails)
  <2> DEFINE email == q.email + 1
  <2> DEFINE n == [q EXCEPT !.email = email, !.user = <<>>, !.step = "email"]
  <2>1. NextEmail(q) = n
    BY <1>2 DEF NextEmail
  <2> HIDE DEF email
  <2>2. /\ n.file = q.file /\ n.step = "email" /\ n.row = q.row /\ n.email = email
        /\ n.organisation = q.organisation
    BY DEF Imports
  <2> HIDE DEF n
  <2>3. Behind(n, found, mailed, placed) /\ n.step \notin {"profile", "insert"}
    BY <2>2 DEF Behind, email
  <2>4. QED BY <2>1, <2>2, <2>3
<1>3. CASE ~(q.email < Len(emails))
  <2> DEFINE n == [q EXCEPT !.email = 0, !.user = <<>>, !.organisation = None]
  <2>1. NextEmail(q) = NextRow(n)
    BY <1>3 DEF NextEmail
  <2>2. n \in Imports /\ n.row = q.row /\ n.file = q.file /\ n.email = 0 /\ n.step = q.step
    BY DEF Imports
  <2>3. \A k \in DOMAIN emails : k \in mailed[q.row]
    BY <1>1, <1>3
  <2>4. RowsDone(q.file, q.row + 1, found, mailed)
    <3>1. ASSUME NEW i \in DOMAIN q.file, i < q.row + 1
          PROVE  found[i] # None /\ DOMAIN q.file[i].emails \subseteq mailed[i]
      <4>1. CASE i = q.row
        BY <2>3, <4>1
      <4>2. CASE i # q.row
        <5>1. i < q.row
          BY <1>1, <3>1, <4>2
        <5>2. QED BY <5>1 DEF RowsDone
      <4>3. QED BY <4>1, <4>2
    <3>2. QED BY <3>1 DEF RowsDone
  <2> HIDE DEF n
  <2>5. QED BY <2>1, <2>2, <2>4, NextRowBehind
<1>4. QED BY <1>2, <1>3

\* What the statements of an import do to the tables: nothing that was done is
\* undone.
Builds ==
    /\ \A n \in Names :
          /\ organisation[n].here => organisation'[n].here
          /\ organisation[n].reference => organisation'[n].reference
    /\ \A j \in DOMAIN accounts : j \in DOMAIN accounts' /\ accounts'[j] = accounts[j]
    /\ \A p \in Emails \X Names : profiles[p] = 1 => profiles'[p] = 1

LEMMA FoundStays ==
    ASSUME Builds, NEW file \in Files, ReferencesKnown(file), NEW i \in DOMAIN file
    PROVE  /\ file[i].reference # None => organisation'[file[i].reference].reference
           /\ find_organisation(file[i]) # None =>
                 find_organisation(file[i])' = find_organisation(file[i])
<1>1. file[i] \in FileRows
  BY ImportsAssumption
<1>2. file[i].name \in Names /\ file[i].reference \in Names \cup {None}
  BY <1>1 DEF FileRows
<1>3. file[i].reference # None =>
         /\ organisation[file[i].reference].reference
         /\ organisation'[file[i].reference].reference
  BY <1>2 DEF ReferencesKnown, Builds
<1>4. QED BY <1>2, <1>3 DEF Builds, find_organisation

\* What an import has behind it stays behind it.
LEMMA DoneStays ==
    ASSUME IInv, Builds, NEW file \in Files, ReferencesKnown(file)
    PROVE  /\ ReferencesKnown(file)'
           /\ \A i \in DOMAIN file : Found(file)[i] # None =>
                 /\ Found(file)'[i] = Found(file)[i]
                 /\ Mailed(file)[i] \subseteq Mailed(file)'[i]
           /\ \A n : RowsDone(file, n, Found(file), Mailed(file))
                     => RowsDone(file, n, Found(file)', Mailed(file)')
<1>1. ReferencesKnown(file)'
  BY FoundStays DEF ReferencesKnown
<1>2. ASSUME NEW i \in DOMAIN file, Found(file)[i] # None
      PROVE  /\ Found(file)'[i] = Found(file)[i]
             /\ Mailed(file)[i] \subseteq Mailed(file)'[i]
  <2> DEFINE o == find_organisation(file[i])
  <2>1. o # None /\ Found(file)[i] = o /\ Found(file)'[i] = o'
    BY <1>2 DEF Found
  <2>2. o' = o
    BY <2>1, FoundStays
  <2>3. file[i] \in FileRows
    BY ImportsAssumption
  <2>4. o \in Names
    BY <2>1, <2>3, FindTypes DEF IInv, Base
  <2>5. ASSUME NEW k \in DOMAIN file[i].emails, EmailDone(file, i, k)
        PROVE  EmailDone(file, i, k)'
    <3>1. PICK j \in DOMAIN accounts :
             /\ normalize_email(accounts[j]) = normalize_email(file[i].emails[k])
             /\ profiles[<<accounts[j], o>>] = 1
      BY <2>5 DEF EmailDone
    <3>2. accounts[j] \in Emails
      BY DEF IInv, Base, AccountsOK
    <3>3. /\ j \in DOMAIN accounts' /\ accounts'[j] = accounts[j]
          /\ profiles'[<<accounts[j], o>>] = 1
      BY <2>4, <3>1, <3>2 DEF Builds
    <3>4. normalize_email(accounts'[j]) = normalize_email(file[i].emails[k])
      BY <3>1, <3>3
    <3> HIDE DEF o
    <3>5. profiles'[<<accounts'[j], o'>>] = 1
      BY <2>2, <3>3
    <3>6. QED BY <3>3, <3>4, <3>5 DEF EmailDone, o
  <2> HIDE DEF o
  <2>6. Mailed(file)[i] \subseteq Mailed(file)'[i]
    BY <2>5 DEF Mailed
  <2>7. QED BY <2>1, <2>2, <2>6
<1>3. ASSUME NEW n, RowsDone(file, n, Found(file), Mailed(file))
      PROVE  RowsDone(file, n, Found(file)', Mailed(file)')
  <2>1. QED BY <1>2, <1>3 DEF RowsDone
<1>4. QED BY <1>1, <1>2, <1>3

\* A statement that leaves the organisations and their advisors alone.
LEMMA ProgressReads ==
    ASSUME UNCHANGED organisation_vars, NEW q, Progress(q)
    PROVE  Progress(q)'
<1>1. UNCHANGED <<organisation, accounts, profiles>>
  BY DEF organisation_vars
<1>2. \A i : find_organisation(q.file[i])' = find_organisation(q.file[i])
  BY <1>1 DEF find_organisation
<1>3. \A i, k : EmailDone(q.file, i, k)' <=> EmailDone(q.file, i, k)
  BY <1>1, <1>2 DEF EmailDone
<1>4. \A i, n : ParentDone(q.file, i, n)' <=> ParentDone(q.file, i, n)
  BY <1>1, <1>2 DEF ParentDone
<1>5. Found(q.file)' = Found(q.file)
  BY <1>2 DEF Found
<1>6. Mailed(q.file)' = Mailed(q.file)
  BY <1>3 DEF Mailed
<1>7. Placed(q.file)' = Placed(q.file)
  BY <1>4 DEF Placed
<1>8. ReferencesKnown(q.file)' /\ UserAtHand(q)'
  BY <1>1 DEF Progress, ReferencesKnown, UserAtHand
<1>9. QED BY <1>5, <1>6, <1>7, <1>8 DEF Progress

\* Where an import is that has its progress.
LEMMA ProgressAt ==
    ASSUME IInv, NEW r \in Requests, request[r].handler = "import_csv",
           request[r].step # "done", Progress(request[r])
    PROVE  LET q == request[r] IN
           /\ q \in Imports /\ CsvSound(q)
           /\ q.file \in Files /\ DOMAIN q.file = 1..Len(q.file)
           /\ q.row \in DOMAIN q.file /\ q.row \in 1..Len(q.file)
           /\ q.file[q.row] = FileRow(r) /\ FileRow(r) \in FileRows
           /\ ReferencesKnown(q.file) /\ UserAtHand(q)
           /\ Behind(q, Found(q.file), Mailed(q.file), Placed(q.file))
           /\ Found(q.file)[q.row] = find_organisation(FileRow(r))
<1>1. request[r] \in Imports /\ CsvSound(request[r])
      /\ request[r].row \in 1..Len(request[r].file) /\ FileRow(r) \in FileRows
  BY CsvAt
<1>2. request[r].file \in Files /\ request[r].file \in Seq(FileRows)
  BY <1>1, FileTypes DEF Imports
<1>3. DOMAIN request[r].file = 1..Len(request[r].file)
  BY <1>2
<1>4. QED BY <1>1, <1>2, <1>3 DEF Progress, Found, FileRow

LEMMA FindOrganisationOn ==
    ASSUME IInv, NEW r \in Requests, Progress(request[r]), FindOrganisation(r)
    PROVE  \E n : Becomes(r, n) /\ Progress(n)'
<1> DEFINE q == request[r]
<1> DEFINE o == find_organisation(FileRow(r))
<1> DEFINE m == [q EXCEPT !.organisation = o]
<1>1. /\ q \in Imports /\ q.file \in Files /\ q.row \in 1..Len(q.file)
      /\ DOMAIN q.file = 1..Len(q.file) /\ ReferencesKnown(q.file)
      /\ Behind(q, Found(q.file), Mailed(q.file), Placed(q.file))
      /\ Found(q.file)[q.row] = o /\ o \in Names \cup {None} /\ q.step = "find"
  BY ProgressAt, FindTypes DEF FindOrganisation, At, IInv, Base
<1>2. RowsDone(q.file, q.row, Found(q.file), Mailed(q.file)) /\ q.email = 0
  BY <1>1 DEF Behind
<1>3. /\ Becomes(r, IF o = None THEN [m EXCEPT !.step = "create"] ELSE NextEmail(m))
      /\ UNCHANGED organisation_vars
  BY DEF FindOrganisation
<1>4. /\ m \in Imports /\ m.row = q.row /\ m.file = q.file /\ m.email = 0
      /\ m.organisation = o /\ m.step = "find"
  <2> HIDE DEF o
  <2>1. QED BY <1>1, <1>2 DEF Imports
<1> HIDE DEF m, o, q
<1>5. CASE o = None
  <2> DEFINE n == [m EXCEPT !.step = "create"]
  <2>1. n.step = "create" /\ n.row = q.row /\ n.file = q.file /\ n.email = 0
    BY <1>4 DEF Imports
  <2>2. Becomes(r, n)
    BY <1>3, <1>5
  <2> HIDE DEF n
  <2>3. Behind(n, Found(n.file), Mailed(n.file), Placed(n.file)) /\ UserAtHand(n)
    BY <1>1, <1>2, <1>5, <2>1 DEF Behind, UserAtHand
  <2>4. Progress(n)
    BY <1>1, <2>1, <2>3 DEF Progress
  <2>5. QED BY <1>3, <2>2, <2>4, ProgressReads
<1>6. CASE o # None
  <2> DEFINE n == NextEmail(m)
  <2>1. Becomes(r, n)
    BY <1>3, <1>6
  <2>2. \A k \in DOMAIN m.file[m.row].emails :
           k < m.email + 1 => k \in Mailed(q.file)[m.row]
    <3>1. m.file[m.row].emails \in Seq(Emails)
      BY <1>1, <1>4, FileTypes DEF FileRows
    <3>2. QED BY <1>4, <3>1
  <2>3. /\ n.file = q.file
        /\ Behind(n, Found(q.file), Mailed(q.file), Placed(q.file))
        /\ n.step \notin {"profile", "insert"}
    BY <1>1, <1>2, <1>4, <1>6, <2>2, NextEmailBehind
  <2> HIDE DEF n
  <2>4. Progress(n)
    BY <1>1, <2>3 DEF Progress, UserAtHand
  <2>5. QED BY <1>3, <2>1, <2>4, ProgressReads
<1>7. QED BY <1>5, <1>6

LEMMA CreateOrganisationOn ==
    ASSUME IInv, NEW r \in Requests, Progress(request[r]), CreateOrganisation(r)
    PROVE  \E n : Becomes(r, n) /\ (n = Idle \/ Progress(n)')
<1>0. PICK q, row, o : q = request[r] /\ row = FileRow(r) /\ o = FileRow(r).name
  OBVIOUS
<1>1. /\ q \in Imports /\ q.file \in Files /\ q.row \in DOMAIN q.file
      /\ ReferencesKnown(q.file) /\ row = q.file[q.row]
      /\ Behind(q, Found(q.file), Mailed(q.file), Placed(q.file))
      /\ Found(q.file)[q.row] = find_organisation(row)
      /\ row \in FileRows /\ row.name = o /\ o \in Names /\ q.step = "create"
  BY <1>0, ProgressAt, CsvAt DEF CreateOrganisation, At
<1>2. /\ RowsDone(q.file, q.row, Found(q.file), Mailed(q.file)) /\ q.email = 0
      /\ find_organisation(row) = None
  BY <1>1 DEF Behind
<1>3. row.reference = None
  <2>1. row.reference # None => organisation[row.reference].reference
    BY <1>1 DEF ReferencesKnown
  <2>2. row.reference \in Names \cup {None} /\ None \notin Names
    BY <1>1, ImportsAssumption DEF FileRows
  <2>3. QED BY <1>2, <2>1, <2>2 DEF find_organisation
<1>4. CASE organisation[o].here
  BY <1>0, <1>4 DEF CreateOrganisation
<1>5. CASE ~organisation[o].here
  <2>0. PICK n : n = [q EXCEPT !.step = "reference", !.organisation = o]
    OBVIOUS
  <2>1. /\ organisation' = [organisation EXCEPT ![o].here = TRUE]
        /\ Becomes(r, n) /\ UNCHANGED <<accounts, profiles>>
    BY <1>0, <1>5, <2>0 DEF CreateOrganisation
  <2>2. /\ n.step = "reference" /\ n.row = q.row /\ n.file = q.file /\ n.email = 0
        /\ n.organisation = o
    BY <1>1, <1>2, <2>0 DEF Imports
  <2>3. Builds /\ organisation'[o].here
    BY <1>1, <2>1 DEF Builds, IInv, Base, OrganisationsOK, Organisations
  <2>4. find_organisation(row)' = o
    BY <1>1, <1>3, <2>3 DEF find_organisation
  <2>5. Found(q.file)'[q.row] = o
    BY <1>1, <2>4 DEF Found
  <2>6. ReferencesKnown(q.file)' /\ RowsDone(q.file, q.row, Found(q.file)', Mailed(q.file)')
    BY <1>1, <1>2, <2>3, DoneStays
  <2>7. o # None
    BY <1>1, ImportsAssumption
  <2>8. \A k \in DOMAIN q.file[q.row].emails : ~(k < 0)
    <3>1. q.file[q.row].emails \in Seq(Emails)
      BY <1>1 DEF FileRows
    <3>2. QED BY <3>1
  <2>9. Behind(n, Found(n.file)', Mailed(n.file)', Placed(n.file)') /\ UserAtHand(n)'
    BY <2>2, <2>5, <2>6, <2>7, <2>8 DEF Behind, UserAtHand
  <2>10. QED BY <2>1, <2>2, <2>6, <2>9 DEF Progress
<1>6. QED BY <1>4, <1>5

\* What an import that is past the search for its organisation has behind it.
LEMMA ProgressOfRow ==
    ASSUME IInv, NEW r \in Requests, request[r].handler = "import_csv",
           request[r].step \in {"reference", "email", "user", "profile", "insert"},
           Progress(request[r])
    PROVE  LET q == request[r] IN
           /\ q \in Imports /\ q.file \in Files /\ q.row \in DOMAIN q.file
           /\ q.row \in 1..Len(q.file) /\ q.file[q.row].emails \in Seq(Emails)
           /\ ReferencesKnown(q.file) /\ UserAtHand(q)
           /\ RowsDone(q.file, q.row, Found(q.file), Mailed(q.file))
           /\ q.organisation \in Names /\ q.organisation # None
           /\ Found(q.file)[q.row] = q.organisation
           /\ \A k \in DOMAIN q.file[q.row].emails :
                 k < q.email => k \in Mailed(q.file)[q.row]
           /\ q.step = "reference" => q.email = 0
           /\ q.step # "reference" => q.email \in DOMAIN q.file[q.row].emails
<1>1. /\ request[r] \in Imports /\ request[r].file \in Files
      /\ request[r].row \in DOMAIN request[r].file
      /\ request[r].row \in 1..Len(request[r].file)
      /\ request[r].file[request[r].row] \in FileRows
      /\ ReferencesKnown(request[r].file) /\ UserAtHand(request[r])
      /\ Behind(request[r], Found(request[r].file), Mailed(request[r].file),
                Placed(request[r].file))
      /\ CsvSound(request[r])
  BY ProgressAt
<1>2. request[r].file[request[r].row].emails \in Seq(Emails)
  BY <1>1 DEF FileRows
<1>3. request[r].organisation \in Names
  BY <1>1 DEF CsvSound
<1>4. request[r].step # "reference" =>
         request[r].email \in DOMAIN request[r].file[request[r].row].emails
  BY <1>1, <1>2 DEF CsvSound
<1>5. QED BY <1>1, <1>2, <1>3, <1>4 DEF Behind

\* From an address that has its profile on to the next, while others stay.
LEMMA NextEmailOn ==
    ASSUME IInv, Builds, NEW q \in Imports, q.step # "parent", q.row \in 1..Len(q.file),
           ReferencesKnown(q.file),
           RowsDone(q.file, q.row, Found(q.file), Mailed(q.file)),
           q.organisation # None, Found(q.file)[q.row] = q.organisation,
           \A k \in DOMAIN q.file[q.row].emails : k < q.email => k \in Mailed(q.file)[q.row],
           q.email \in DOMAIN q.file[q.row].emails => q.email \in Mailed(q.file)'[q.row]
    PROVE  Progress(NextEmail(q))'
<1>1. q.file \in Files /\ q.row \in DOMAIN q.file /\ q.email \in Nat
  BY FileTypes DEF Imports
<1>2. /\ ReferencesKnown(q.file)'
      /\ Found(q.file)'[q.row] = q.organisation
      /\ Mailed(q.file)[q.row] \subseteq Mailed(q.file)'[q.row]
      /\ RowsDone(q.file, q.row, Found(q.file)', Mailed(q.file)')
  BY <1>1, DoneStays
<1>3. ASSUME NEW k \in DOMAIN q.file[q.row].emails, k < q.email + 1
      PROVE  k \in Mailed(q.file)'[q.row]
  <2>1. DOMAIN q.file[q.row].emails = 1..Len(q.file[q.row].emails)
        /\ Len(q.file[q.row].emails) \in Nat
    BY FileTypes DEF FileRows
  <2>2. k < q.email \/ k = q.email
    BY <1>1, <1>3, <2>1
  <2>3. QED BY <1>2, <2>2
<1> DEFINE n == NextEmail(q)
<1>4. /\ n.file = q.file /\ Behind(n, Found(q.file)', Mailed(q.file)', Placed(q.file)')
      /\ n.step \notin {"profile", "insert"}
  BY <1>2, <1>3, NextEmailBehind
<1> HIDE DEF n
<1>5. Progress(n)'
  BY <1>2, <1>4 DEF Progress, UserAtHand
<1>6. QED BY <1>5 DEF n

\* Within a row and an address, an import keeps what is behind it.
LEMMA SameRowOn ==
    ASSUME IInv, Builds, NEW q \in Imports, q.row \in 1..Len(q.file),
           ReferencesKnown(q.file),
           RowsDone(q.file, q.row, Found(q.file), Mailed(q.file)),
           q.organisation # None, Found(q.file)[q.row] = q.organisation,
           \A k \in DOMAIN q.file[q.row].emails : k < q.email => k \in Mailed(q.file)[q.row],
           NEW n, n.step \in {"user", "profile", "insert"}, n.file = q.file, n.row = q.row,
           n.email = q.email, n.organisation = q.organisation,
           UserAtHand(n)'
    PROVE  Progress(n)'
<1>1. q.file \in Files /\ q.row \in DOMAIN q.file
  BY FileTypes DEF Imports
<1>2. /\ ReferencesKnown(q.file)'
      /\ Found(q.file)'[q.row] = q.organisation
      /\ Mailed(q.file)[q.row] \subseteq Mailed(q.file)'[q.row]
      /\ RowsDone(q.file, q.row, Found(q.file)', Mailed(q.file)')
  BY <1>1, DoneStays
<1>3. Behind(n, Found(q.file)', Mailed(q.file)', Placed(q.file)')
  BY <1>2 DEF Behind
<1>4. QED BY <1>2, <1>3 DEF Progress

LEMMA BuildsAlways ==
    ASSUME UNCHANGED organisation_vars
    PROVE  Builds
  BY DEF Builds, organisation_vars

LEMMA SetReferenceOn ==
    ASSUME IInv, NEW r \in Requests, Progress(request[r]), SetReference(r)
    PROVE  \E n : Becomes(r, n) /\ Progress(n)'
<1>0. PICK q : q = request[r]
  OBVIOUS
<1>1. /\ q \in Imports /\ q.row \in 1..Len(q.file) /\ q.step = "reference" /\ q.email = 0
      /\ ReferencesKnown(q.file) /\ q.organisation \in Names /\ q.organisation # None
      /\ RowsDone(q.file, q.row, Found(q.file), Mailed(q.file))
      /\ Found(q.file)[q.row] = q.organisation
      /\ q.file[q.row].emails \in Seq(Emails)
      /\ \A k \in DOMAIN q.file[q.row].emails : k < q.email => k \in Mailed(q.file)[q.row]
  BY <1>0, ProgressOfRow DEF SetReference, At
<1>2. /\ organisation' = [organisation EXCEPT ![q.organisation].reference = TRUE]
      /\ Becomes(r, NextEmail(q)) /\ UNCHANGED <<accounts, profiles>>
  BY <1>0 DEF SetReference
<1>3. Builds
  BY <1>1, <1>2 DEF Builds, IInv, Base, OrganisationsOK, Organisations
<1>4. q.email \notin DOMAIN q.file[q.row].emails
  BY <1>1
<1>5. Progress(NextEmail(q))'
  BY <1>1, <1>3, <1>4, NextEmailOn
<1>6. QED BY <1>2, <1>5

LEMMA FindUserOn ==
    ASSUME IInv, NEW r \in Requests, Progress(request[r]), FindUser(r)
    PROVE  \E n : Becomes(r, n) /\ Progress(n)'
<1>0. PICK q, e : q = request[r] /\ e = FileEmail(r)
  OBVIOUS
<1>1. /\ q \in Imports /\ q.row \in 1..Len(q.file) /\ q.step = "email"
      /\ ReferencesKnown(q.file) /\ q.organisation # None
      /\ RowsDone(q.file, q.row, Found(q.file), Mailed(q.file))
      /\ Found(q.file)[q.row] = q.organisation
      /\ \A k \in DOMAIN q.file[q.row].emails : k < q.email => k \in Mailed(q.file)[q.row]
      /\ e = q.file[q.row].emails[q.email]
  BY <1>0, ProgressOfRow DEF FindUser, At, FileEmail, FileRow
<1>2. Builds
  BY BuildsAlways DEF FindUser
<1>3. CASE To(r, "user")
  <2>0. PICK n : n = [q EXCEPT !.step = "user"]
    OBVIOUS
  <2>1. Becomes(r, n)
    BY <1>0, <1>3, <2>0 DEF To
  <2>2. /\ n.step = "user" /\ n.file = q.file /\ n.row = q.row /\ n.email = q.email
        /\ n.organisation = q.organisation
    BY <1>1, <2>0 DEF Imports
  <2>3. UserAtHand(n)'
    BY <2>2 DEF UserAtHand
  <2>4. Progress(n)'
    BY <1>1, <1>2, <2>2, <2>3, SameRowOn
  <2>5. QED BY <2>1, <2>4
<1>4. CASE \E i \in DOMAIN accounts :
              /\ normalize_email(accounts[i]) = e
              /\ Becomes(r, [q EXCEPT !.step = "profile", !.user = accounts[i]])
  <2>0. PICK i \in DOMAIN accounts :
              /\ normalize_email(accounts[i]) = e
              /\ Becomes(r, [q EXCEPT !.step = "profile", !.user = accounts[i]])
    BY <1>4
  <2>1. PICK u : u = accounts[i]
    OBVIOUS
  <2>2. PICK n : n = [q EXCEPT !.step = "profile", !.user = u]
    OBVIOUS
  <2>3. Becomes(r, n)
    BY <2>0, <2>1, <2>2
  <2>4. /\ n.step = "profile" /\ n.file = q.file /\ n.row = q.row /\ n.email = q.email
        /\ n.organisation = q.organisation /\ n.user = u
    BY <1>1, <2>2 DEF Imports
  <2>5. normalize_email(u) = e
    BY <2>0, <2>1
  <2>6. normalize_email(u) = normalize_email(e)
    BY <2>5 DEF normalize_email
  <2>7. UserAtHand(n)'
    BY <1>1, <2>4, <2>6 DEF UserAtHand
  <2>8. Progress(n)'
    BY <1>1, <1>2, <2>4, <2>7, SameRowOn
  <2>9. QED BY <2>3, <2>8
<1>5. QED BY <1>0, <1>3, <1>4 DEF FindUser

LEMMA CreateUserOn ==
    ASSUME IInv, NEW r \in Requests, Progress(request[r]), CreateUser(r)
    PROVE  \E n : Becomes(r, n) /\ (n = Idle \/ Progress(n)')
<1>0. PICK q, e : q = request[r] /\ e = FileEmail(r)
  OBVIOUS
<1>1. /\ q \in Imports /\ q.row \in 1..Len(q.file) /\ q.step = "user"
      /\ ReferencesKnown(q.file) /\ q.organisation # None
      /\ RowsDone(q.file, q.row, Found(q.file), Mailed(q.file))
      /\ Found(q.file)[q.row] = q.organisation
      /\ \A k \in DOMAIN q.file[q.row].emails : k < q.email => k \in Mailed(q.file)[q.row]
      /\ e = q.file[q.row].emails[q.email]
  BY <1>0, ProgressOfRow DEF CreateUser, At, FileEmail, FileRow
<1>2. CASE \E i \in DOMAIN accounts : accounts[i] = e
  BY <1>0, <1>2 DEF CreateUser
<1>3. CASE ~\E i \in DOMAIN accounts : accounts[i] = e
  <2>0. PICK n : n = [q EXCEPT !.step = "profile", !.user = e]
    OBVIOUS
  <2>1. /\ accounts' = Append(accounts, e) /\ Becomes(r, n)
        /\ UNCHANGED <<organisation, profiles>>
    BY <1>0, <1>3, <2>0 DEF CreateUser
  <2>2. \A j \in DOMAIN accounts : j \in DOMAIN accounts' /\ accounts'[j] = accounts[j]
    BY <2>1 DEF IInv, Base, AccountsOK
  <2>3. Builds
    BY <2>1, <2>2 DEF Builds
  <2>4. /\ n.step = "profile" /\ n.file = q.file /\ n.row = q.row /\ n.email = q.email
        /\ n.organisation = q.organisation /\ n.user = e
    BY <1>1, <2>0 DEF Imports
  <2>5. UserAtHand(n)'
    BY <1>1, <2>4 DEF UserAtHand
  <2>6. Progress(n)'
    BY <1>1, <2>3, <2>4, <2>5, SameRowOn
  <2>7. QED BY <2>1, <2>6
<1>4. QED BY <1>2, <1>3

LEMMA GetProfileOn ==
    ASSUME IInv, NEW r \in Requests, Progress(request[r]), GetProfile(r)
    PROVE  \E n : Becomes(r, n) /\ (n = Idle \/ Progress(n)')
<1>0. PICK q, p : q = request[r] /\ p = ProfileOf(r)
  OBVIOUS
<1>1. /\ q \in Imports /\ q.row \in 1..Len(q.file) /\ q.step = "profile"
      /\ ReferencesKnown(q.file) /\ q.organisation # None /\ UserAtHand(q)
      /\ RowsDone(q.file, q.row, Found(q.file), Mailed(q.file))
      /\ Found(q.file)[q.row] = q.organisation
      /\ \A k \in DOMAIN q.file[q.row].emails : k < q.email => k \in Mailed(q.file)[q.row]
      /\ q.email \in DOMAIN q.file[q.row].emails
  BY <1>0, ProgressOfRow DEF GetProfile, At
<1>2. /\ p = <<q.user, q.organisation>>
      /\ normalize_email(q.user) = normalize_email(q.file[q.row].emails[q.email])
      /\ HasAccount(q.user)
  BY <1>0, <1>1, CsvAt DEF ProfileOf, UserAtHand, CsvSound, GetProfile, At
<1>3. Builds /\ UNCHANGED organisation_vars
  BY BuildsAlways DEF GetProfile
<1>4. Becomes(r, CASE profiles[p] = 0 -> [q EXCEPT !.step = "insert"]
                   [] profiles[p] = 1 -> NextEmail(q)
                   [] OTHER -> Idle)
  BY <1>0 DEF GetProfile
<1>5. CASE profiles[p] = 0
  <2>0. PICK n : n = [q EXCEPT !.step = "insert"]
    OBVIOUS
  <2>1. Becomes(r, n)
    BY <1>4, <1>5, <2>0
  <2>2. /\ n.step = "insert" /\ n.file = q.file /\ n.row = q.row /\ n.email = q.email
        /\ n.organisation = q.organisation /\ n.user = q.user
    BY <1>1, <2>0 DEF Imports
  <2>3. profiles'[<<n.user, n.organisation>>] = 0
    BY <1>2, <1>3, <1>5, <2>2 DEF organisation_vars
  <2>4. UserAtHand(n)'
    BY <1>2, <2>2, <2>3 DEF UserAtHand
  <2>5. Progress(n)'
    BY <1>1, <1>3, <2>2, <2>4, SameRowOn
  <2>6. QED BY <2>1, <2>5
<1>6. CASE profiles[p] = 1
  <2>1. Becomes(r, NextEmail(q))
    BY <1>4, <1>6
  <2>2. find_organisation(q.file[q.row]) = q.organisation /\ q.row \in DOMAIN q.file
    BY <1>1, FileTypes DEF Found
  <2>3. PICK j \in DOMAIN accounts : accounts[j] = q.user
    BY <1>2 DEF HasAccount
  <2>4. EmailDone(q.file, q.row, q.email)
    BY <1>2, <1>6, <2>2, <2>3 DEF EmailDone
  <2>5. q.email \in Mailed(q.file)[q.row]
    BY <1>1, <2>2, <2>4 DEF Mailed
  <2>6. q.email \in Mailed(q.file)'[q.row]
    BY <1>1, <1>3, <2>2, <2>5, DoneStays DEF Imports
  <2>7. Progress(NextEmail(q))'
    BY <1>1, <1>3, <2>6, NextEmailOn
  <2>8. QED BY <2>1, <2>7
<1>7. CASE ~(profiles[p] = 0) /\ ~(profiles[p] = 1)
  BY <1>4, <1>7
<1>8. QED BY <1>5, <1>6, <1>7

LEMMA InsertProfileOn ==
    ASSUME IInv, NEW r \in Requests, Progress(request[r]), InsertProfile(r)
    PROVE  \E n : Becomes(r, n) /\ Progress(n)'
<1>0. PICK q, p : q = request[r] /\ p = ProfileOf(r)
  OBVIOUS
<1>1. /\ q \in Imports /\ q.row \in 1..Len(q.file) /\ q.step = "insert"
      /\ ReferencesKnown(q.file) /\ q.organisation # None /\ UserAtHand(q)
      /\ RowsDone(q.file, q.row, Found(q.file), Mailed(q.file))
      /\ Found(q.file)[q.row] = q.organisation
      /\ \A k \in DOMAIN q.file[q.row].emails : k < q.email => k \in Mailed(q.file)[q.row]
      /\ q.email \in DOMAIN q.file[q.row].emails
  BY <1>0, ProgressOfRow DEF InsertProfile, At
<1>2. /\ p = <<q.user, q.organisation>> /\ profiles[p] = 0 /\ p \in Emails \X Names
      /\ normalize_email(q.user) = normalize_email(q.file[q.row].emails[q.email])
      /\ HasAccount(q.user)
  BY <1>0, <1>1, ProfileAt DEF ProfileOf, UserAtHand, CsvSound, InsertProfile, At
<1>3. /\ profiles' = [profiles EXCEPT ![p] = @ + 1] /\ Becomes(r, NextEmail(q))
      /\ UNCHANGED <<organisation, accounts>>
  BY <1>0 DEF InsertProfile
<1>4. profiles \in [Emails \X Names -> Nat]
  BY DEF IInv, Base, ProfilesOK
<1>5. profiles'[p] = 1 /\ \A h \in Emails \X Names : h # p => profiles'[h] = profiles[h]
  BY <1>2, <1>3, <1>4
<1>6. Builds
  BY <1>2, <1>3, <1>5 DEF Builds
<1>7. q.row \in DOMAIN q.file /\ q.file \in Files
  BY <1>1, FileTypes DEF Imports
<1>8. find_organisation(q.file[q.row])' = q.organisation
  <2>1. find_organisation(q.file[q.row]) = q.organisation
    BY <1>1, <1>7 DEF Found
  <2>2. QED BY <1>1, <1>6, <1>7, <2>1, FoundStays
<1>9. PICK j \in DOMAIN accounts : accounts[j] = q.user
  BY <1>2 DEF HasAccount
<1>10. EmailDone(q.file, q.row, q.email)'
  BY <1>2, <1>3, <1>5, <1>8, <1>9 DEF EmailDone
<1>11. q.email \in Mailed(q.file)'[q.row]
  BY <1>1, <1>7, <1>10 DEF Mailed
<1>12. Progress(NextEmail(q))'
  BY <1>1, <1>6, <1>11, NextEmailOn
<1>13. QED BY <1>3, <1>12

\* The second pass: a row that names its organisation again has the last word.
LEMMA SetParentOn ==
    ASSUME IInv, NEW r \in Requests, Progress(request[r]), SetParent(r)
    PROVE  \E n : Becomes(r, n) /\ Progress(n)'
<1>0. PICK q, row, o, lead :
         q = request[r] /\ row = FileRow(r) /\ o = find_organisation(row) /\ lead = row.lead
  OBVIOUS
<1>1. /\ q \in Imports /\ q.file \in Files /\ q.row \in 1..Len(q.file)
      /\ q.row \in DOMAIN q.file /\ DOMAIN q.file = 1..Len(q.file)
      /\ row = q.file[q.row] /\ row \in FileRows
      /\ ReferencesKnown(q.file)
      /\ Behind(q, Found(q.file), Mailed(q.file), Placed(q.file))
      /\ Found(q.file)[q.row] = o /\ q.step = "parent"
  BY <1>0, ProgressAt DEF SetParent, At
<1>2. /\ RowsDone(q.file, Len(q.file) + 1, Found(q.file), Mailed(q.file))
      /\ \A i \in DOMAIN q.file : i < q.row => i \in Placed(q.file)[q.row]
  BY <1>1 DEF Behind
<1>3. /\ Len(q.file) \in Nat /\ q.row \in Nat
      /\ \A i \in DOMAIN q.file : i \in Nat /\ i < Len(q.file) + 1
  BY <1>1, FileTypes
<1>4. \A i \in DOMAIN q.file : find_organisation(q.file[i]) # None
  BY <1>2, <1>3 DEF RowsDone, Found
<1>5. o \in Names /\ organisation[o].here /\ lead \in Names
  BY <1>0, <1>1, <1>4, FindTypes DEF IInv, Base, FileRows
<1>6. PICK parent : parent = IF o = lead THEN None ELSE lead
  OBVIOUS
<1>7. /\ organisation' =
            IF ~organisation[lead].here THEN organisation
            ELSE [organisation EXCEPT ![o] =
                    [here |-> TRUE, reference |-> TRUE, parent |-> parent]]
      /\ Becomes(r, NextRow(q)) /\ UNCHANGED <<accounts, profiles>>
  BY <1>0, <1>6 DEF SetParent
<1>8. /\ \A m \in Names : organisation'[m].here <=> organisation[m].here
      /\ \A m \in Names : organisation[m].reference => organisation'[m].reference
      /\ \A m \in Names : m # o => organisation'[m] = organisation[m]
      /\ organisation[lead].here =>
            organisation'[o].reference /\ organisation'[o].parent = parent
      /\ ~organisation[lead].here => organisation' = organisation
  BY <1>5, <1>7 DEF IInv, Base, OrganisationsOK
<1>9. Builds
  BY <1>7, <1>8 DEF Builds
<1>10. \A i \in DOMAIN q.file :
          find_organisation(q.file[i])' = find_organisation(q.file[i])
  BY <1>1, <1>4, <1>9, FoundStays
<1>11. \A i \in DOMAIN q.file :
          find_organisation(q.file[i]) \in Names /\ q.file[i].lead \in Names
  <2>1. \A i \in DOMAIN q.file : q.file[i] \in FileRows
    BY <1>1, FileTypes
  <2>2. QED BY <1>4, <2>1, FindTypes DEF IInv, Base, FileRows
<1>12. ASSUME NEW i \in DOMAIN q.file, i < q.row + 1
       PROVE  ParentDone(q.file, i, q.row + 1)'
  <2>0. PICK oi, li : oi = find_organisation(q.file[i]) /\ li = q.file[i].lead
    OBVIOUS
  <2>1. SUFFICES ASSUME organisation'[li].here
        PROVE  /\ organisation'[oi].reference
               /\ (\A j \in DOMAIN q.file :
                     i < j /\ j < q.row + 1 /\ find_organisation(q.file[j]) = oi =>
                         ~organisation'[q.file[j].lead].here)
                  => organisation'[oi].parent = IF oi = li THEN None ELSE li
    <3>1. oi = find_organisation(q.file[i])'
      BY <1>10, <2>0
    <3>2. \A j \in DOMAIN q.file :
             find_organisation(q.file[j])' = oi <=> find_organisation(q.file[j]) = oi
      BY <1>10
    <3>3. QED BY <2>0, <3>1, <3>2 DEF ParentDone
  <2>2. organisation[li].here /\ oi \in Names
    BY <1>8, <1>11, <2>0, <2>1
  <2>3. CASE i = q.row
    <3>1. oi = o /\ li = lead
      BY <1>0, <1>1, <2>0, <2>3
    <3>2. QED BY <1>6, <1>8, <2>2, <3>1
  <2>4. CASE i # q.row
    <3>1. i < q.row
      BY <1>3, <1>12, <2>4
    <3>2. ParentDone(q.file, i, q.row)
      <4>1. q.row \in 1..(Len(q.file) + 1) /\ i \in Placed(q.file)[q.row]
        BY <1>1, <1>2, <1>3, <3>1
      <4>2. QED BY <4>1 DEF Placed
    <3>3. organisation[oi].reference
      BY <2>0, <2>2, <3>2 DEF ParentDone
    <3>4. ASSUME \A j \in DOMAIN q.file :
                    i < j /\ j < q.row + 1 /\ find_organisation(q.file[j]) = oi =>
                        ~organisation'[q.file[j].lead].here
          PROVE  organisation'[oi].parent = IF oi = li THEN None ELSE li
      <4>1. \A j \in DOMAIN q.file :
               i < j /\ j < q.row /\ find_organisation(q.file[j]) = oi =>
                   ~organisation[q.file[j].lead].here
        BY <1>3, <1>8, <1>11, <3>4
      <4>2. organisation[oi].parent = IF oi = li THEN None ELSE li
        BY <2>0, <2>2, <3>2, <4>1 DEF ParentDone
      <4>3. organisation'[oi] = organisation[oi]
        <5>1. oi = o => ~organisation[lead].here
          <6>1. find_organisation(q.file[q.row]) = o /\ q.file[q.row].lead = lead
            BY <1>0, <1>1
          <6>2. q.row < q.row + 1
            BY <1>3
          <6>3. oi = o => ~organisation'[lead].here
            BY <1>1, <3>1, <3>4, <6>1, <6>2
          <6>4. QED BY <1>5, <1>8, <6>3
        <5>2. QED BY <1>8, <2>2, <5>1
      <4>4. QED BY <4>2, <4>3
    <3>5. QED BY <1>8, <2>2, <3>3, <3>4
  <2>5. QED BY <2>3, <2>4
<1>13. \A i \in DOMAIN q.file : i < q.row + 1 => i \in Placed(q.file)'[q.row + 1]
  <2>1. q.row + 1 \in 1..(Len(q.file) + 1)
    BY <1>1, <1>3
  <2>2. QED BY <1>12, <2>1 DEF Placed
<1>14. /\ ReferencesKnown(q.file)'
       /\ RowsDone(q.file, Len(q.file) + 1, Found(q.file)', Mailed(q.file)')
  BY <1>1, <1>2, <1>9, DoneStays
<1>15. PICK n : n = NextRow(q)
  OBVIOUS
<1>16. /\ n.file = q.file /\ Behind(n, Found(q.file)', Mailed(q.file)', Placed(q.file)')
       /\ n.step \notin {"profile", "insert"}
  BY <1>1, <1>13, <1>14, <1>15, NextRowBehind
<1>17. Progress(n)'
  BY <1>14, <1>16 DEF Progress, UserAtHand
<1>18. QED BY <1>7, <1>15, <1>17

\* An import begins with nothing behind it.
LEMMA ImportBegins ==
    ASSUME NEW f \in Files, ReferencesKnown(f), NEW q,
           q.step = "find", q.row = 1, q.email = 0, q.file = f
    PROVE  Progress(q)
<1>1. DOMAIN f = 1..Len(f) /\ Len(f) \in Nat
  BY ImportsAssumption
<1>2. \A i \in DOMAIN f : ~(i < 1)
  BY <1>1
<1>3. RowsDone(f, 1, Found(f), Mailed(f))
  BY <1>2 DEF RowsDone
<1>4. QED BY <1>3 DEF Progress, Behind, UserAtHand

\* Nothing but another import ends that an import is alone.
LEMMA NextAlone ==
    ASSUME NEW q \in Imports
    PROVE  NextRow(q).alone = q.alone /\ NextEmail(q).alone = q.alone
<1>1. ASSUME NEW p \in Imports PROVE NextRow(p).alone = p.alone
  BY DEF NextRow, Imports
<1>2. NextEmail(q).alone = q.alone
  <2>1. CASE q.email < Len(q.file[q.row].emails)
    BY <2>1 DEF NextEmail, Imports
  <2>2. CASE ~(q.email < Len(q.file[q.row].emails))
    <3> DEFINE p == [q EXCEPT !.email = 0, !.user = <<>>, !.organisation = None]
    <3>1. p \in Imports /\ p.alone = q.alone
      BY DEF Imports
    <3> HIDE DEF p
    <3>2. NextEmail(q) = NextRow(p)
      BY <2>2 DEF NextEmail, p
    <3>3. QED BY <1>1, <3>1, <3>2
  <2>3. QED BY <2>1, <2>2
<1>3. QED BY <1>1, <1>2

ImportCsvGoesOn(r) ==
    \/ FindOrganisation(r)
    \/ CreateOrganisation(r)
    \/ SetReference(r)
    \/ FindUser(r)
    \/ CreateUser(r)
    \/ GetProfile(r)
    \/ InsertProfile(r)
    \/ SetParent(r)

LEMMA AloneStays ==
    ASSUME IInv, NEW r \in Requests, ImportCsvGoesOn(r)
    PROVE  /\ request[r].handler = "import_csv"
           /\ \E n : Becomes(r, n) /\ (n = Idle \/ n.alone = request[r].alone)
<1>0. PICK q : q = request[r]
  OBVIOUS
<1>1. q \in Imports /\ q.handler = "import_csv"
  BY <1>0, CsvAt DEF ImportCsvGoesOn, At, FindOrganisation, CreateOrganisation,
     SetReference, FindUser, CreateUser, GetProfile, InsertProfile, SetParent
<1>2. NextRow(q).alone = q.alone /\ NextEmail(q).alone = q.alone
  BY <1>1, NextAlone
<1>3. CASE FindOrganisation(r)
  <2>1. PICK o : Becomes(r, IF o = None
                            THEN [[q EXCEPT !.organisation = o] EXCEPT !.step = "create"]
                            ELSE NextEmail([q EXCEPT !.organisation = o]))
                 /\ o = find_organisation(FileRow(r))
    BY <1>0, <1>3 DEF FindOrganisation
  <2>2. FileRow(r) \in FileRows
    BY <1>3, CsvAt DEF FindOrganisation, At
  <2>3. o \in Names \cup {None}
    BY <2>1, <2>2, FindTypes DEF IInv, Base
  <2>4. PICK p : p = [q EXCEPT !.organisation = o]
    OBVIOUS
  <2>5. p \in Imports /\ p.alone = q.alone /\ [p EXCEPT !.step = "create"].alone = p.alone
    BY <1>1, <2>3, <2>4 DEF Imports
  <2>6. NextEmail(p).alone = p.alone
    BY <2>5, NextAlone
  <2>7. QED BY <1>0, <1>1, <2>1, <2>4, <2>5, <2>6
<1>4. CASE CreateOrganisation(r)
  <2>1. PICK o : \/ Becomes(r, Idle)
                 \/ Becomes(r, [q EXCEPT !.step = "reference", !.organisation = o])
    BY <1>0, <1>4 DEF CreateOrganisation
  <2>2. [q EXCEPT !.step = "reference", !.organisation = o].alone = q.alone
    BY <1>1 DEF Imports
  <2>3. QED BY <1>0, <1>1, <2>1, <2>2
<1>5. CASE SetReference(r) \/ InsertProfile(r) \/ SetParent(r)
  BY <1>0, <1>1, <1>2, <1>5 DEF SetReference, InsertProfile, SetParent
<1>6. CASE FindUser(r) \/ CreateUser(r)
  <2>1. PICK u : \/ Becomes(r, Idle) \/ Becomes(r, [q EXCEPT !.step = "user"])
                 \/ Becomes(r, [q EXCEPT !.step = "profile", !.user = u])
    BY <1>0, <1>6 DEF FindUser, CreateUser, To
  <2>2. /\ [q EXCEPT !.step = "user"].alone = q.alone
        /\ [q EXCEPT !.step = "profile", !.user = u].alone = q.alone
    BY <1>1 DEF Imports
  <2>3. QED BY <1>0, <1>1, <2>1, <2>2
<1>7. CASE GetProfile(r)
  <2>1. \/ Becomes(r, [q EXCEPT !.step = "insert"]) \/ Becomes(r, NextEmail(q))
        \/ Becomes(r, Idle)
    BY <1>0, <1>7 DEF GetProfile
  <2>2. [q EXCEPT !.step = "insert"].alone = q.alone
    BY <1>1 DEF Imports
  <2>3. QED BY <1>0, <1>1, <1>2, <2>1, <2>2
<1>8. QED BY <1>3, <1>4, <1>5, <1>6, <1>7 DEF ImportCsvGoesOn

LEMMA ProgressOn ==
    ASSUME IInv, NEW r \in Requests, Progress(request[r]), ImportCsvGoesOn(r)
    PROVE  \E n : Becomes(r, n) /\ (n = Idle \/ Progress(n)')
<1>1. CASE FindOrganisation(r)
  BY <1>1, FindOrganisationOn
<1>2. CASE CreateOrganisation(r)
  BY <1>2, CreateOrganisationOn
<1>3. CASE SetReference(r)
  BY <1>3, SetReferenceOn
<1>4. CASE FindUser(r)
  BY <1>4, FindUserOn
<1>5. CASE CreateUser(r)
  BY <1>5, CreateUserOn
<1>6. CASE GetProfile(r)
  BY <1>6, GetProfileOn
<1>7. CASE InsertProfile(r)
  BY <1>7, InsertProfileOn
<1>8. CASE SetParent(r)
  BY <1>8, SetParentOn
<1>9. QED BY <1>1, <1>2, <1>3, <1>4, <1>5, <1>6, <1>7, <1>8 DEF ImportCsvGoesOn

\* The forms, the import of a workbook and the end of a request.
LEMMA OthersLeave ==
    ASSUME IInv, NEW r \in Requests, CreateStep(r) \/ ImportExcelStep(r) \/ Over(r)
    PROVE  /\ UNCHANGED organisation_vars
           /\ \E n : Becomes(r, n) /\ n.handler # "import_csv"
<1>0. PICK q : q = request[r]
  OBVIOUS
<1>1. Idle.handler # "import_csv"
  BY IdleHandler, NoneIsNone
<1>2. ASSUME q.handler = "CreateAssessmentView", NEW step
      PROVE  [q EXCEPT !.step = step].handler # "import_csv"
  BY <1>0, <1>2, Kinds DEF IInv, Creations
<1>3. CASE CreateAssessmentView(r)
  BY <1>3 DEF CreateAssessmentView
<1>4. CASE GetDraft(r) \/ InsertDraft(r) \/ GetDraftAgain(r)
  <2>1. /\ q.handler = "CreateAssessmentView" /\ UNCHANGED organisation_vars
        /\ \E step : Becomes(r, Idle) \/ Becomes(r, [q EXCEPT !.step = step])
    BY <1>0, <1>4 DEF GetDraft, InsertDraft, GetDraftAgain, To, At
  <2>2. QED BY <1>1, <1>2, <2>1
<1>5. CASE PreviewExcelImport(r)
  BY <1>5 DEF PreviewExcelImport
<1>6. CASE PostExcelImport(r)
  <2>1. PICK s, status, c :
           LET n == [handler |-> "import_excel", step |-> "create", system |-> s,
                     settings |-> Chosen(r, c), status |-> status]
           IN  Becomes(r, IF assessment[Key(n, status)] = NoAssessment THEN n ELSE Idle)
    BY <1>6 DEF PostExcelImport
  <2>2. UNCHANGED organisation_vars
    BY <1>6 DEF PostExcelImport
  <2>3. QED BY <1>1, <2>1, <2>2
<1>7. CASE CreateFromImport(r) \/ Over(r)
  BY <1>1, <1>7 DEF CreateFromImport, Over
<1>8. QED BY <1>3, <1>4, <1>5, <1>6, <1>7 DEF CreateStep, ImportExcelStep

LEMMA AloneKept ==
    ASSUME IInv, AloneOK, [Next]_vars
    PROVE  AloneOK'
<1>0. DOMAIN request = Requests
  BY DEF IInv, RequestsOK
<1>1. ASSUME NEW r \in Requests, ImportCsv(r)
      PROVE  AloneOK'
  <2>1. PICK f \in Files :
           /\ ReferencesKnown(f)
           /\ request' = [t \in Requests |->
                IF t = r
                THEN [handler |-> "import_csv", step |-> "find", file |-> f,
                      row |-> 1, email |-> 0, organisation |-> None, user |-> <<>>,
                      alone |-> \A s \in Requests : request[s].handler # "import_csv"]
                ELSE IF request[t].handler = "import_csv"
                THEN [request[t] EXCEPT !.alone = FALSE] ELSE request[t]]
    BY <1>1 DEF ImportCsv, ReferencesKnown
  <2>2. UNCHANGED organisation_vars
    BY <1>1 DEF ImportCsv
  <2>3. PICK alone : alone = \A s \in Requests : request[s].handler # "import_csv"
    OBVIOUS
  <2>4. PICK q : q = [handler |-> "import_csv", step |-> "find", file |-> f,
                      row |-> 1, email |-> 0, organisation |-> None, user |-> <<>>,
                      alone |-> alone]
    OBVIOUS
  <2>5. request'[r] = q /\ q.alone = alone
    BY <2>1, <2>3, <2>4
  <2>6. Progress(q)
    BY <2>1, <2>4, ImportBegins
  <2>7. Progress(q)'
    BY <2>2, <2>6, ProgressReads
  <2>8. ASSUME NEW t \in Requests, t # r, request'[t].handler = "import_csv"
        PROVE  request'[t].alone = FALSE /\ request[t].handler = "import_csv"
    <3>1. CASE request[t].handler = "import_csv"
      <4>1. request[t] \in Imports
        BY <3>1, Kinds DEF IInv
      <4>2. request'[t] = [request[t] EXCEPT !.alone = FALSE]
        BY <2>1, <2>8, <3>1
      <4>3. QED BY <3>1, <4>1, <4>2 DEF Imports
    <3>2. CASE request[t].handler # "import_csv"
      BY <2>1, <2>8, <3>2
    <3>3. QED BY <3>1, <3>2
  <2>9. ASSUME NEW t \in Requests, Alone(t)'
        PROVE  /\ \A s \in Requests : request'[s].handler = "import_csv" => s = t
               /\ Progress(request[t])'
    <3>1. t = r
      BY <2>8, <2>9 DEF Alone
    <3>2. \A s \in Requests : request[s].handler # "import_csv"
      BY <2>3, <2>5, <2>9, <3>1 DEF Alone
    <3>3. \A s \in Requests : request'[s].handler = "import_csv" => s = t
      BY <2>8, <3>1, <3>2
    <3>4. QED BY <2>5, <2>7, <3>1, <3>3 DEF Progress
  <2>10. QED BY <2>9 DEF AloneOK
<1>2. ASSUME NEW r \in Requests, ImportCsvGoesOn(r)
      PROVE  AloneOK'
  <2>1. PICK n : Becomes(r, n) /\ (n = Idle \/ n.alone = request[r].alone)
    BY <1>2, AloneStays
  <2>2. request'[r] = n /\ \A t \in Requests : t # r => request'[t] = request[t]
    BY <1>0, <2>1 DEF Becomes
  <2>3. request[r].handler = "import_csv"
    BY <1>2, AloneStays
  <2>4. ASSUME NEW t \in Requests, Alone(t)'
        PROVE  /\ \A s \in Requests : request'[s].handler = "import_csv" => s = t
               /\ Progress(request[t])'
    <3>1. t = r
      <4>1. t # r => Alone(t)
        BY <2>2, <2>4 DEF Alone
      <4>2. QED BY <2>3, <4>1 DEF AloneOK
    <3>2. n # Idle /\ Alone(r)
      BY <2>1, <2>2, <2>3, <2>4, <3>1, IdleHandler, NoneIsNone DEF Alone
    <3>3. \A s \in Requests : request'[s].handler = "import_csv" => s = t
      BY <2>2, <3>1, <3>2 DEF AloneOK
    <3>4. PICK m : Becomes(r, m) /\ (m = Idle \/ Progress(m)')
      BY <1>2, <3>2, ProgressOn DEF AloneOK
    <3>5. m = n
      BY <1>0, <2>2, <3>4 DEF Becomes
    <3>6. Progress(n)'
      BY <3>2, <3>4, <3>5
    <3>7. QED BY <2>2, <3>1, <3>3, <3>6 DEF Progress
  <2>5. QED BY <2>4 DEF AloneOK
<1>3. ASSUME UNCHANGED organisation_vars,
             \A t \in Requests : \/ request'[t] = request[t]
                                 \/ request'[t].handler # "import_csv"
      PROVE  AloneOK'
  <2>1. ASSUME NEW t \in Requests, Alone(t)'
        PROVE  /\ \A s \in Requests : request'[s].handler = "import_csv" => s = t
               /\ Progress(request[t])'
    <3>1. request'[t] = request[t] /\ Alone(t)
      BY <1>3, <2>1 DEF Alone
    <3>2. \A s \in Requests : request'[s].handler = "import_csv" => s = t
      BY <1>3, <3>1 DEF AloneOK
    <3>3. PICK q : q = request[t]
      OBVIOUS
    <3>4. Progress(q)'
      BY <1>3, <3>1, <3>3, ProgressReads DEF AloneOK
    <3>5. QED BY <3>1, <3>2, <3>3, <3>4 DEF Progress
  <2>2. QED BY <2>1 DEF AloneOK
<1>4. ASSUME NEW r \in Requests, CreateStep(r) \/ ImportExcelStep(r) \/ Over(r)
      PROVE  AloneOK'
  <2>1. PICK n : Becomes(r, n) /\ n.handler # "import_csv"
    BY <1>4, OthersLeave
  <2>2. UNCHANGED organisation_vars
    BY <1>4, OthersLeave
  <2>3. \A t \in Requests : \/ request'[t] = request[t]
                            \/ request'[t].handler # "import_csv"
    BY <1>0, <2>1 DEF Becomes
  <2>4. QED BY <1>3, <2>2, <2>3
<1>5. ASSUME Tick \/ ConfigurationAdmin \/ Submit \/ UNCHANGED vars
      PROVE  AloneOK'
  <2>1. UNCHANGED organisation_vars /\ UNCHANGED request
    BY <1>5 DEF Tick, ConfigurationAdmin, Submit, vars, organisation_vars
  <2>2. QED BY <1>3, <2>1
<1>6. QED BY <1>1, <1>2, <1>4, <1>5 DEF Next, ImportCsvStep, ImportCsvGoesOn

-----------------------------------------------------------------------------
(* The theorems                                                            *)

LEMMA InitInv == Init => IInv
<1> SUFFICES ASSUME Init PROVE IInv
  OBVIOUS
<1> USE DEF Init
<1>1. OrganisationsOK
  BY DEF OrganisationsOK, Organisations, NoOrganisation
<1>2. AccountsOK /\ ProfilesOK
  BY DEF AccountsOK, ProfilesOK
<1>3. PeriodsOK
  <2> HIDE DEF Init
  <2>1. now = 0 /\ edited = FALSE /\ configuration \in [Configurations -> Settings]
        /\ \A c, d \in Configurations :
              configuration[c].period = configuration[d].period => c = d
    BY Zenon DEF Init
  <2>2. now \in 0..MaxTime
    BY <2>1, ImportsAssumption
  <2>3. QED BY <2>1, <2>2, Zenon DEF PeriodsOK
<1>4. AssessmentsOK
  <2> HIDE DEF Init
  <2>1. assessment = [k \in Keys |-> NoAssessment]
    BY DEF Init
  <2>2. \A k \in Keys : assessment[k] = NoAssessment
    BY <2>1
  <2>3. QED BY <2>1, <2>2 DEF AssessmentsOK
<1>5. RequestsOK
  BY IdleSound DEF RequestsOK
<1>6. QED BY <1>1, <1>2, <1>3, <1>4, <1>5 DEF IInv, Base

LEMMA NextInv == IInv /\ [Next]_vars => IInv'
<1> SUFFICES ASSUME IInv, [Next]_vars PROVE IInv'
  OBVIOUS
<1>1. ASSUME NEW r \in Requests, ImportCsvStep(r)
      PROVE  IInv'
  BY <1>1, ImportCsvSound, FindOrganisationSound, CreateOrganisationSound,
     SetReferenceSound, FindUserSound, CreateUserSound, GetProfileSound,
     InsertProfileSound, SetParentSound DEF ImportCsvStep
<1>2. ASSUME NEW r \in Requests, CreateStep(r) \/ ImportExcelStep(r)
      PROVE  IInv'
  BY <1>2, CreationsKeep, UploadsKeep
<1>3. ASSUME NEW r \in Requests, Over(r)
      PROVE  IInv'
  BY <1>3, IdleSound, ReadsOn DEF Over
<1>4. ASSUME Tick \/ ConfigurationAdmin \/ Submit
      PROVE  IInv'
  <2>1. Base' /\ Grown
    BY <1>4, PeriodKeeps, SubmitKeeps DEF IInv
  <2>2. UNCHANGED request
    BY <1>4 DEF Tick, ConfigurationAdmin, Submit
  <2>3. ASSUME NEW t \in Requests PROVE Sound(request[t])'
    <3>1. Sound(request[t]) /\ request'[t] = request[t]
      BY <2>2 DEF IInv, RequestsOK
    <3>2. QED BY <2>1, <3>1, SoundGrows DEF Sound
  <2>4. RequestsOK'
    BY <2>2, <2>3 DEF IInv, RequestsOK
  <2>5. QED BY <2>1, <2>4 DEF IInv
<1>5. CASE UNCHANGED vars
  <2>1. UNCHANGED <<organisation_vars, period_vars>> /\ UNCHANGED request
    BY <1>5 DEF vars, organisation_vars, period_vars
  <2>2. Base' /\ Grown
    BY <2>1, Reads DEF IInv
  <2>3. ASSUME NEW t \in Requests PROVE Sound(request[t])'
    <3>1. Sound(request[t]) /\ request'[t] = request[t]
      BY <2>1 DEF IInv, RequestsOK
    <3>2. QED BY <2>2, <3>1, SoundGrows DEF Sound
  <2>4. RequestsOK'
    BY <2>1, <2>3 DEF IInv, RequestsOK
  <2>5. QED BY <2>2, <2>4 DEF IInv
<1>6. QED BY <1>1, <1>2, <1>3, <1>4, <1>5 DEF Next

LEMMA Invariant == Spec => []IInv
  BY InitInv, NextInv, PTL DEF Spec

LEMMA AloneInvariant == Spec => []AloneOK
<1>1. Init => AloneOK
  BY IdleHandler, NoneIsNone DEF Init, AloneOK, Alone
<1>2. QED BY <1>1, Invariant, AloneKept, PTL DEF Spec

\* A row that is behind the second pass with the rest of its file is as Whole
\* says.
LEMMA AllBehind ==
    ASSUME NEW file \in Files,
           RowsDone(file, Len(file) + 1, Found(file), Mailed(file)),
           \A i \in DOMAIN file : i \in Placed(file)[Len(file) + 1]
    PROVE  Whole(file)
<1>1. Len(file) \in Nat /\ DOMAIN file = 1..Len(file) /\ Len(file) + 1 \in 1..(Len(file) + 1)
  BY ImportsAssumption
<1>2. ASSUME NEW i \in DOMAIN file
      PROVE  LET o == find_organisation(file[i])
                 lead == file[i].lead
             IN  /\ o # None
                 /\ organisation[lead].here =>
                       /\ organisation[o].reference
                       /\ LastWord(file, i) =>
                             organisation[o].parent = IF o = lead THEN None ELSE lead
                 /\ \A k \in DOMAIN file[i].emails :
                       \E j \in DOMAIN accounts :
                           /\ normalize_email(accounts[j]) =
                                 normalize_email(file[i].emails[k])
                           /\ profiles[<<accounts[j], o>>] = 1
  <2>1. i < Len(file) + 1 /\ \A j \in DOMAIN file : j < Len(file) + 1
    BY <1>1
  <2>2. find_organisation(file[i]) # None
        /\ \A k \in DOMAIN file[i].emails : EmailDone(file, i, k)
    BY <2>1 DEF RowsDone, Found, Mailed
  <2>3. ParentDone(file, i, Len(file) + 1)
    BY <1>1 DEF Placed
  <2>4. \A j \in DOMAIN file : j > i <=> i < j
    BY <1>1
  <2>5. LastWord(file, i) =>
           \A j \in DOMAIN file :
               /\ i < j /\ j < Len(file) + 1
               /\ find_organisation(file[j]) = find_organisation(file[i])
               => ~organisation[file[j].lead].here
    BY <2>4 DEF LastWord
  <2>6. QED BY <2>2, <2>3, <2>5 DEF ParentDone, EmailDone
<1>3. QED BY <1>2 DEF Whole

\* import_csv: an import that gets to its end without another overlapping it
\* has done all of its file, whatever earlier imports left behind where they
\* were killed or refused and whatever the rows of the file repeat or
\* contradict.
THEOREM ImportsAreWhole == Spec => []ImportedWhole
<1>1. IInv /\ AloneOK => ImportedWhole
  <2> SUFFICES ASSUME IInv, AloneOK, NEW r \in Requests,
                      At(r, "import_csv", "done"), request[r].alone
               PROVE  Whole(request[r].file)
    BY DEF ImportedWhole
  <2>1. Progress(request[r]) /\ request[r] \in Imports /\ request[r].step = "done"
    BY Kinds DEF AloneOK, Alone, At, IInv
  <2>2. request[r].file \in Files
    BY <2>1 DEF Imports
  <2>3. QED BY <2>1, <2>2, AllBehind DEF Progress, Behind
<1>2. QED BY <1>1, Invariant, AloneInvariant, PTL

\* The variables have their types, and whoever has an advisor's profile has an
\* account and an organisation, at whichever statement an import was killed.
THEOREM TypeCorrect == Spec => []TypeOK
<1>1. IInv => TypeOK
  <2> SUFFICES ASSUME IInv PROVE TypeOK
    OBVIOUS
  <2>1. organisation \in [Names -> Organisations]
    BY DEF IInv, Base, OrganisationsOK
  <2>2. \A i \in DOMAIN accounts : accounts[i] \in Emails
    BY DEF IInv, Base, AccountsOK
  <2>3. \A r \in Requests :
          request[r] \in Imports \cup Creations \cup Previews \cup Uploads \cup {Idle}
    BY DEF IInv, RequestsOK, Sound
  <2>4. assessment \in [Keys -> [framework : Frameworks, due : Nat] \cup {NoAssessment}]
    BY DEF IInv, Base, AssessmentsOK, Assessments
  <2>5. QED BY <2>1, <2>2, <2>3, <2>4
            DEF TypeOK, IInv, Base, ProfilesOK, HasAccount, PeriodsOK
<1>2. QED BY <1>1, Invariant, PTL

\* CreateAssessmentView: whoever creates the draft of a system comes to the
\* one draft, however creations, imports and submissions overlap.
THEOREM CreatorsComeToTheDraft == Spec => []CreatorsMeet
<1>1. IInv => CreatorsMeet
  <2> SUFFICES ASSUME IInv, NEW r \in Requests, At(r, "CreateAssessmentView", "error")
               PROVE  Failed(request[r])
    BY DEF CreatorsMeet, Failed
  <2>1. QED BY Kinds DEF IInv, At, CreationSound
<1>2. QED BY <1>1, Invariant, PTL

\* The assessments of a period have one framework and one due date while the
\* configuration is not changed.
THEOREM PeriodHasOneDueDate == Spec => []OneDueDate
<1>1. IInv => OneDueDate
  <2> SUFFICES ASSUME IInv, NEW s \in Systems, NEW t \in Systems,
                      NEW u \in Statuses, NEW v \in Statuses, NEW p \in Periods,
                      NoAssessment \notin {assessment[<<s, p, u>>], assessment[<<t, p, v>>]},
                      ~edited
               PROVE  /\ assessment[<<s, p, u>>].framework = assessment[<<t, p, v>>].framework
                      /\ assessment[<<s, p, u>>].due = assessment[<<t, p, v>>].due
    BY DEF OneDueDate
  <2> DEFINE k == <<s, p, u>>
  <2> DEFINE h == <<t, p, v>>
  <2>1. k \in Keys /\ h \in Keys /\ k[2] = p /\ h[2] = p
    BY DEF Keys
  <2>2. OfConfiguration(assessment[k], p) /\ OfConfiguration(assessment[h], p)
    BY <2>1 DEF IInv, Base, AssessmentsOK
  <2>3. \A c, d \in Configurations :
           configuration[c].period = configuration[d].period => c = d
    BY DEF IInv, Base, PeriodsOK
  <2>4. QED BY <2>2, <2>3 DEF OfConfiguration
<1>2. QED BY <1>1, Invariant, PTL

-----------------------------------------------------------------------------
(* The references                                                          *)

\* Different indices are written as different characters.
LEMMA CharactersDiffer ==
    \A i, j \in 0..29 : CHAR_SET[i + 1] = CHAR_SET[j + 1] => i = j
  BY SMT DEF CHAR_SET

\* Five characters tell the values apart up to the one that is not written.
LEMMA CharactersTell ==
    ASSUME NEW v \in Nat, NEW w \in Nat, Characters(v) = Characters(w)
    PROVE  v % Size = w % Size
<1>1. /\ v % 30 = w % 30
      /\ (v \div 30) % 30 = (w \div 30) % 30
      /\ (v \div 900) % 30 = (w \div 900) % 30
      /\ (v \div 27000) % 30 = (w \div 27000) % 30
      /\ (v \div 810000) % 30 = (w \div 810000) % 30
  BY SMT DEF Characters
<1>2. ASSUME NEW n \in Nat
      PROVE  n % Size = (n % 30) + 30 * ((n \div 30) % 30) + 900 * ((n \div 900) % 30)
                        + 27000 * ((n \div 27000) % 30) + 810000 * ((n \div 810000) % 30)
  <2>1. n = 30 * (n \div 30) + (n % 30)
    BY SMT
  <2>2. n \div 30 = 30 * (n \div 900) + ((n \div 30) % 30)
    BY SMT
  <2>3. n \div 900 = 30 * (n \div 27000) + ((n \div 900) % 30)
    BY SMT
  <2>4. n \div 27000 = 30 * (n \div 810000) + ((n \div 27000) % 30)
    BY SMT
  <2>5. n \div 810000 = 30 * (n \div 24300000) + ((n \div 810000) % 30)
    BY SMT
  <2>6. n = 24300000 * (n \div 24300000) + (n % 24300000)
    BY SMT
  <2>7. QED BY SMT, <2>1, <2>2, <2>3, <2>4, <2>5, <2>6 DEF Size
<1>3. QED BY SMT, <1>1, <1>2

LEMMA ValuesTell ==
    ASSUME NEW prime_set \in DOMAIN PRIMES, NEW p \in Nat, NEW q \in Nat,
           generate_reference(p, prime_set) = generate_reference(q, prime_set)
    PROVE  (p * PRIMES[prime_set][1] + PRIMES[prime_set][2]) % Size
           = (q * PRIMES[prime_set][1] + PRIMES[prime_set][2]) % Size
<1> DEFINE v == reference_value(p, prime_set)
<1> DEFINE w == reference_value(q, prime_set)
<1> DEFINE x == (p * PRIMES[prime_set][1] + PRIMES[prime_set][2])
<1> DEFINE y == (q * PRIMES[prime_set][1] + PRIMES[prime_set][2])
<1>1. x \in Nat /\ y \in Nat
  <2>1. PRIMES[prime_set][1] \in Nat /\ PRIMES[prime_set][2] \in Nat
    BY SMT DEF PRIMES
  <2> DEFINE a == PRIMES[prime_set][1]
  <2> DEFINE b == PRIMES[prime_set][2]
  <2>2. a \in Nat /\ b \in Nat
    BY SMT, <2>1
  <2> HIDE DEF a, b
  <2>3. p * a + b \in Nat /\ q * a + b \in Nat
    BY SMT, <2>2
  <2>4. QED BY SMT, <2>3 DEF a, b
<1>2. v = (x % Size) + 810000 /\ w = (y % Size) + 810000
  BY SMT DEF reference_value
<1> HIDE DEF v, w, x, y
<1>3. v \in Nat /\ w \in Nat
  BY SMT, <1>1, <1>2 DEF Size
<1>4. Characters(v) = Characters(w)
  <2> DEFINE c == Characters(v)
  <2> DEFINE d == Characters(w)
  <2>1. \A i \in 1..5 : CHAR_SET[c[i] + 1] = CHAR_SET[d[i] + 1]
    <3> DEFINE f(e) == [i \in 1..5 |-> CHAR_SET[e[i] + 1]]
    <3>1. f(c) = f(d)
      BY SMT DEF generate_reference, v, w
    <3>2. \A i \in 1..5 : f(c)[i] = f(d)[i]
      BY SMT, <3>1
    <3> HIDE DEF c, d
    <3>3. QED BY SMT, <3>2
  <2>2. \A i \in 1..5 : c[i] \in 0..29 /\ d[i] \in 0..29
    <3>1. \A u \in Nat : /\ u % 30 \in 0..29 /\ (u \div 30) % 30 \in 0..29
                         /\ (u \div 900) % 30 \in 0..29
                         /\ (u \div 27000) % 30 \in 0..29
                         /\ (u \div 810000) % 30 \in 0..29
      BY SMT
    <3>2. /\ c[1] \in 0..29 /\ c[2] \in 0..29 /\ c[3] \in 0..29
          /\ c[4] \in 0..29 /\ c[5] \in 0..29
      BY SMT, <1>3, <3>1 DEF Characters
    <3>3. /\ d[1] \in 0..29 /\ d[2] \in 0..29 /\ d[3] \in 0..29
          /\ d[4] \in 0..29 /\ d[5] \in 0..29
      BY SMT, <1>3, <3>1 DEF Characters
    <3>4. \A i \in 1..5 : i = 1 \/ i = 2 \/ i = 3 \/ i = 4 \/ i = 5
      BY SMT
    <3> HIDE DEF c, d
    <3>5. QED BY SMT, <3>2, <3>3, <3>4
  <2>3. c = <<c[1], c[2], c[3], c[4], c[5]>> /\ d = <<d[1], d[2], d[3], d[4], d[5]>>
    BY SMT DEF Characters
  <2> HIDE DEF c, d
  <2>4. ASSUME NEW i \in 1..5 PROVE c[i] = d[i]
    <3>1. PICK k, m : k = c[i] /\ m = d[i]
      OBVIOUS
    <3>2. k \in 0..29 /\ m \in 0..29 /\ CHAR_SET[k + 1] = CHAR_SET[m + 1]
      BY <2>1, <2>2, <3>1
    <3>3. QED BY <3>1, <3>2, CharactersDiffer
  <2>5. QED BY SMT, <2>3, <2>4 DEF c, d
<1>5. v % Size = w % Size
  BY SMT, <1>3, <1>4, CharactersTell
<1>6. QED BY SMT, <1>1, <1>2, <1>5 DEF Size, x, y

\* No two organisations and no two systems are given the same reference.
THEOREM ReferencesDiffer ==
    \A prime_set \in {"organisation", "system"}, p, q \in Nat :
        /\ p < Size /\ q < Size
        /\ generate_reference(p, prime_set) = generate_reference(q, prime_set)
        => p = q
<1> SUFFICES ASSUME NEW prime_set \in {"organisation", "system"},
                    NEW p \in Nat, NEW q \in Nat, p < Size, q < Size,
                    generate_reference(p, prime_set) = generate_reference(q, prime_set)
             PROVE  p = q
  BY SMT
<1>1. p < 24300000 /\ q < 24300000
  BY SMT DEF Size
<1>2. prime_set \in DOMAIN PRIMES
  BY SMT DEF PRIMES
<1>3. (p * PRIMES[prime_set][1] + PRIMES[prime_set][2]) % Size
      = (q * PRIMES[prime_set][1] + PRIMES[prime_set][2]) % Size
  BY SMT, <1>1, <1>2, ValuesTell
<1>4. CASE prime_set = "organisation"
  <2>0. PRIMES[prime_set][1] = 94327 /\ PRIMES[prime_set][2] = 747811
    BY SMT, <1>4 DEF PRIMES
  <2>1. (p * 94327 + 747811) % 24300000 = (q * 94327 + 747811) % 24300000
    BY SMT, <1>3, <2>0 DEF Size
  <2>2. PICK d \in Int : (p - q) * 94327 = 24300000 * d
    <3> DEFINE x == p * 94327 + 747811
    <3> DEFINE y == q * 94327 + 747811
    <3>1. x \in Nat /\ y \in Nat
      BY SMT, <1>1
    <3>2. (p - q) * 94327 = 24300000 * ((x \div 24300000) - (y \div 24300000))
      BY SMT, <1>1, <2>1
    <3>3. (x \div 24300000) - (y \div 24300000) \in Int
      BY SMT, <3>1
    <3> HIDE DEF x, y
    <3>4. QED BY SMT, <3>2, <3>3
  <2>3. p - q = 24300000 * (d * 19496263 - 75680 * (p - q))
    BY SMT, <1>1, <2>2
  <2>4. QED BY SMT, <1>1, <2>3 DEF Size
<1>5. CASE prime_set = "system"
  <2>0. PRIMES[prime_set][1] = 97103 /\ PRIMES[prime_set][2] = 907757
    BY SMT, <1>5 DEF PRIMES
  <2>1. (p * 97103 + 907757) % 24300000 = (q * 97103 + 907757) % 24300000
    BY SMT, <1>3, <2>0 DEF Size
  <2>2. PICK d \in Int : (p - q) * 97103 = 24300000 * d
    <3> DEFINE x == p * 97103 + 907757
    <3> DEFINE y == q * 97103 + 907757
    <3>1. x \in Nat /\ y \in Nat
      BY SMT, <1>1
    <3>2. (p - q) * 97103 = 24300000 * ((x \div 24300000) - (y \div 24300000))
      BY SMT, <1>1, <2>1
    <3>3. (x \div 24300000) - (y \div 24300000) \in Int
      BY SMT, <3>1
    <3> HIDE DEF x, y
    <3>4. QED BY SMT, <3>2, <3>3
  <2>3. p - q = 24300000 * (d * 3774767 - 15084 * (p - q))
    BY SMT, <1>1, <2>2
  <2>4. QED BY SMT, <1>1, <2>3 DEF Size
<1>6. QED BY SMT, <1>4, <1>5

\* 11547 is 9 * 1283 and shares the 9 with 30 ^ 5: assessments whose keys are
\* 2700000 apart are given the same reference.
THEOREM AssessmentReferencesRepeat ==
    \A p \in Nat :
        generate_reference(p, "assessment") = generate_reference(p + 2700000, "assessment")
<1> SUFFICES ASSUME NEW p \in Nat
             PROVE  reference_value(p, "assessment")
                    = reference_value(p + 2700000, "assessment")
  BY SMT DEF generate_reference
<1>1. (p * 11547 + 492761) % 24300000 = ((p + 2700000) * 11547 + 492761) % 24300000
  BY SMT
<1>2. QED BY SMT, <1>1 DEF reference_value, PRIMES, Size
=============================================================================
