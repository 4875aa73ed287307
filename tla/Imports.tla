------------------------------ MODULE Imports ------------------------------
(***************************************************************************)
(* What the admin site imports, organisations with their cyber advisors    *)
(* from a CSV file and assessments from a workbook, and the form on which  *)
(* an advisor creates an assessment of the current period.                 *)
(*                                                                         *)
(* None of it runs in a transaction of its own: a worker that is killed    *)
(* leaves what it has written so far, and the file is imported again.      *)
(* Imports and forms overlap at every statement.                           *)
(***************************************************************************)
EXTENDS Naturals, Sequences

CONSTANTS
    Names,          \* names of organisations, which are unique
    Files,          \* CSV files: sequences of rows, see FileRows
    Mailboxes,      \* local parts of e-mail addresses
    Systems,        \* the systems of the organisation Home
    Home,
    Frameworks,
    Configurations, \* rows of Configuration
    Settings,       \* what a Configuration may hold, see Configured
    Requests,       \* slots: requests that can be under way at a time
    MaxTime         \* bound: hours that pass

None == "none"

VARIABLES
    organisation,   \* the rows of Organisation, by name
    accounts,       \* the usernames of User, in the order of their keys
    profiles,       \* how many advisor profiles a user has at an organisation
    now,            \* the time
    configuration,  \* the rows of Configuration
    edited,         \* history: a Configuration was changed
    assessment,     \* the rows of Assessment, by their unique key
    request         \* what runs in each slot

vars == <<organisation, accounts, profiles, now, configuration, edited,
          assessment, request>>

\* An address may be written with capitals in its domain.
Emails == Mailboxes \X {"gov.uk", "GOV.UK"}

\* A reference in a file is that of the organisation of the name given here.
FileRows == [reference : Names \cup {None}, name : Names, lead : Names,
             emails : Seq(Emails)]

\* When a period ends, in hours; in summer London is an hour ahead of UTC.
Configured == [period : STRING, end : Nat, summer : 0..1, framework : Frameworks]

ASSUME ImportsAssumption ==
    /\ None \notin Names \cup Frameworks
    /\ Home \in Names
    /\ Files \subseteq Seq(FileRows)
    /\ \A f \in Files : Len(f) > 0
    /\ Settings \subseteq Configured
    /\ \A s \in Settings : s.end >= s.summer
    /\ MaxTime \in Nat

NoOrganisation == [here |-> FALSE, reference |-> FALSE, parent |-> None]
NoAssessment == [framework |-> None]
Idle == [handler |-> None, step |-> None]

Organisations == [here : BOOLEAN, reference : BOOLEAN, parent : Names \cup {None}]
Statuses == {"draft", "submitted"}
Periods == {s.period : s \in Settings}
Keys == Systems \X Periods \X Statuses

Init ==
    /\ organisation = [n \in Names |-> NoOrganisation]
    /\ accounts = <<>>
    /\ profiles = [p \in Emails \X Names |-> 0]
    /\ now = 0
    /\ configuration \in [Configurations -> Settings]
    /\ \A c, d \in Configurations :
          configuration[c].period = configuration[d].period => c = d
    /\ edited = FALSE
    /\ assessment = [k \in Keys |-> NoAssessment]
    /\ request = [r \in Requests |-> Idle]

At(r, handler, step) == request[r].handler = handler /\ request[r].step = step

Becomes(r, q) == request' = [request EXCEPT ![r] = q]

To(r, step) == Becomes(r, [request[r] EXCEPT !.step = step])

organisation_vars == <<organisation, accounts, profiles>>
period_vars == <<now, configuration, edited, assessment>>

-----------------------------------------------------------------------------
(* OrganisationAdmin.import_csv                                            *)

FileRow(r) == request[r].file[request[r].row]
FileEmail(r) == FileRow(r).emails[request[r].email]

\* By its reference if the row has one, else by its name.
find_organisation(row) ==
    IF row.reference # None /\ organisation[row.reference].reference
    THEN row.reference
    ELSE IF organisation[row.name].here THEN row.name ELSE None

\* The file is read twice: for the organisations, then for their parents.
NextRow(q) ==
    IF q.row < Len(q.file)
    THEN [q EXCEPT !.row = @ + 1, !.step = IF @ = "parent" THEN @ ELSE "find"]
    ELSE IF q.step = "parent" THEN [q EXCEPT !.step = "done"]
    ELSE [q EXCEPT !.row = 1, !.step = "parent"]

NextEmail(q) ==
    IF q.email < Len(q.file[q.row].emails)
    THEN [q EXCEPT !.email = @ + 1, !.user = <<>>, !.step = "email"]
    ELSE NextRow([q EXCEPT !.email = 0, !.user = <<>>, !.organisation = None])

\* A file has the references of organisations that were given one.  alone:
\* no other import has run meanwhile.
ImportCsv(r) ==
    /\ request[r] = Idle
    /\ \E f \in Files :
          /\ \A i \in DOMAIN f :
                f[i].reference # None => organisation[f[i].reference].reference
          /\ request' =
               [t \in Requests |->
                  IF t = r
                  THEN [handler |-> "import_csv", step |-> "find", file |-> f,
                        row |-> 1, email |-> 0, organisation |-> None, user |-> <<>>,
                        alone |-> \A s \in Requests : request[s].handler # "import_csv"]
                  ELSE IF request[t].handler = "import_csv"
                  THEN [request[t] EXCEPT !.alone = FALSE] ELSE request[t]]
    /\ UNCHANGED <<organisation_vars, period_vars>>

FindOrganisation(r) ==
    /\ At(r, "import_csv", "find")
    /\ LET o == find_organisation(FileRow(r))
           q == [request[r] EXCEPT !.organisation = o]
       IN  Becomes(r, IF o = None THEN [q EXCEPT !.step = "create"] ELSE NextEmail(q))
    /\ UNCHANGED <<organisation_vars, period_vars>>

\* The INSERT, without a reference; the name is unique.
CreateOrganisation(r) ==
    /\ At(r, "import_csv", "create")
    /\ LET n == FileRow(r).name IN
       IF organisation[n].here
       THEN Becomes(r, Idle) /\ UNCHANGED organisation
       ELSE /\ organisation' = [organisation EXCEPT ![n].here = TRUE]
            /\ Becomes(r, [request[r] EXCEPT !.step = "reference", !.organisation = n])
    /\ UNCHANGED <<accounts, profiles, period_vars>>

\* ReferenceGeneratorMixin.save: the UPDATE that needs the primary key.
SetReference(r) ==
    /\ At(r, "import_csv", "reference")
    /\ organisation' = [organisation EXCEPT ![request[r].organisation].reference = TRUE]
    /\ Becomes(r, NextEmail(request[r]))
    /\ UNCHANGED <<accounts, profiles, period_vars>>

\* create_user keeps the username as it is and normalises the address.
normalize_email(e) == <<e[1], "gov.uk">>

\* The first account with this very address.
FindUser(r) ==
    /\ At(r, "import_csv", "email")
    /\ LET found == {i \in DOMAIN accounts : normalize_email(accounts[i]) = FileEmail(r)} IN
       IF found = {}
       THEN To(r, "user")
       ELSE \E i \in found :
               /\ \A j \in found : i <= j
               /\ Becomes(r, [request[r] EXCEPT !.step = "profile", !.user = accounts[i]])
    /\ UNCHANGED <<organisation_vars, period_vars>>

\* Mutant: the username is normalised too.
CreateUser_Normalised(r) ==
    /\ At(r, "import_csv", "user")
    /\ accounts' = Append(accounts, normalize_email(FileEmail(r)))
    /\ Becomes(r, [request[r] EXCEPT !.step = "profile", !.user = FileEmail(r)])
    /\ UNCHANGED <<organisation, profiles, period_vars>>

\* Usernames are unique.
CreateUser(r) ==
    /\ At(r, "import_csv", "user")
    /\ IF \E i \in DOMAIN accounts : accounts[i] = FileEmail(r)
       THEN Becomes(r, Idle) /\ UNCHANGED accounts
       ELSE /\ accounts' = Append(accounts, FileEmail(r))
            /\ Becomes(r, [request[r] EXCEPT !.step = "profile", !.user = FileEmail(r)])
    /\ UNCHANGED <<organisation, profiles, period_vars>>

ProfileOf(r) == <<request[r].user, request[r].organisation>>

\* Mutant: the profile is created without looking for it.
GetProfile_Create(r) ==
    /\ At(r, "import_csv", "profile")
    /\ profiles[ProfileOf(r)] < 2
    /\ To(r, "insert")
    /\ UNCHANGED <<organisation_vars, period_vars>>

\* get_or_create, which fails when it finds two.
GetProfile(r) ==
    /\ At(r, "import_csv", "profile")
    /\ Becomes(r, CASE profiles[ProfileOf(r)] = 0 -> [request[r] EXCEPT !.step = "insert"]
                    [] profiles[ProfileOf(r)] = 1 -> NextEmail(request[r])
                    [] OTHER -> Idle)
    /\ UNCHANGED <<organisation_vars, period_vars>>

\* No key keeps two requests from creating the profile.
InsertProfile(r) ==
    /\ At(r, "import_csv", "insert")
    /\ profiles' = [profiles EXCEPT ![ProfileOf(r)] = @ + 1]
    /\ Becomes(r, NextEmail(request[r]))
    /\ UNCHANGED <<organisation, accounts, period_vars>>

\* If the lead department is there, the organisation is saved under it; the
\* save sets a reference that is missing.
SetParent(r) ==
    /\ At(r, "import_csv", "parent")
    /\ LET o == find_organisation(FileRow(r))
           lead == FileRow(r).lead
       IN  organisation' =
             IF ~organisation[lead].here THEN organisation
             ELSE [organisation EXCEPT ![o] =
                     [here |-> TRUE, reference |-> TRUE,
                      parent |-> IF o = lead THEN None ELSE lead]]
    /\ Becomes(r, NextRow(request[r]))
    /\ UNCHANGED <<accounts, profiles, period_vars>>

-----------------------------------------------------------------------------
(* The assessment period                                                   *)

Tick ==
    /\ now < MaxTime
    /\ now' = now + 1
    /\ UNCHANGED <<organisation_vars, configuration, edited, assessment, request>>

\* CustomConfigForm.save, over the whole configuration.
ConfigurationAdmin ==
    /\ \E c \in Configurations, s \in Settings :
          configuration' = [configuration EXCEPT ![c] = s]
    /\ ~edited      \* bound: one change
    /\ edited' = TRUE
    /\ UNCHANGED <<organisation_vars, now, assessment, request>>

\* The configurations that end first of those that have not ended.  The end
\* is compared as if it were UTC.
get_default_config ==
    LET open == {configuration[c] : c \in Configurations} \cap {s \in Settings : s.end >= now}
    IN  {s \in open : \A t \in open : s.end <= t.end}

\* The end in the time of London.
get_submission_due_date(s) == s.end - s.summer

Key(q, status) == <<q.system, q.settings.period, status>>

Created(q, status) ==
    assessment' = [assessment EXCEPT ![Key(q, status)] =
                     [framework |-> q.settings.framework,
                      due |-> get_submission_due_date(q.settings)]]

-----------------------------------------------------------------------------
(* CreateAssessmentView.form_valid                                         *)

\* An advisor of the organisation posts the last field that was missing.
CreateAssessmentView(r) ==
    /\ request[r] = Idle
    /\ \E u \in Emails : profiles[<<u, Home>>] > 0
    /\ \E s \in Systems, c \in get_default_config :
          Becomes(r, [handler |-> "CreateAssessmentView", step |-> "get",
                      system |-> s, settings |-> c])
    /\ UNCHANGED <<organisation_vars, period_vars>>

\* The framework is part of what is looked for, not of the unique key.
GotDraft(q) == assessment[Key(q, "draft")].framework = q.settings.framework

GetDraft(r) ==
    /\ At(r, "CreateAssessmentView", "get")
    /\ IF GotDraft(request[r]) THEN Becomes(r, Idle) ELSE To(r, "insert")
    /\ UNCHANGED <<organisation_vars, period_vars>>

\* Mutant: the draft is created, and not looked for when it is refused.
InsertDraft_Once(r) ==
    /\ At(r, "CreateAssessmentView", "insert")
    /\ IF assessment[Key(request[r], "draft")] = NoAssessment
       THEN Created(request[r], "draft") /\ Becomes(r, Idle)
       ELSE UNCHANGED assessment /\ To(r, "error")
    /\ UNCHANGED <<organisation_vars, now, configuration, edited>>

InsertDraft(r) ==
    /\ At(r, "CreateAssessmentView", "insert")
    /\ IF assessment[Key(request[r], "draft")] = NoAssessment
       THEN Created(request[r], "draft") /\ Becomes(r, Idle)
       ELSE UNCHANGED assessment /\ To(r, "again")
    /\ UNCHANGED <<organisation_vars, now, configuration, edited>>

\* get_or_create looks once more when its INSERT was refused.
GetDraftAgain(r) ==
    /\ At(r, "CreateAssessmentView", "again")
    /\ IF GotDraft(request[r]) THEN Becomes(r, Idle) ELSE To(r, "error")
    /\ UNCHANGED <<organisation_vars, period_vars>>

\* A draft is submitted, see Assessment; two submissions of a system in one
\* period are refused.
Submit ==
    /\ \E s \in Systems, p \in Periods :
          /\ assessment[<<s, p, "draft">>] # NoAssessment
          /\ assessment[<<s, p, "submitted">>] = NoAssessment
          /\ assessment' = [assessment EXCEPT
                              ![<<s, p, "submitted">>] = assessment[<<s, p, "draft">>],
                              ![<<s, p, "draft">>] = NoAssessment]
    /\ UNCHANGED <<organisation_vars, now, configuration, edited, request>>

-----------------------------------------------------------------------------
(* AssessmentAdmin.import_excel_standalone                                 *)

\* The workbook is shown with the period, the framework and the due date.
PreviewExcelImport(r) ==
    /\ request[r] = Idle
    /\ \E c \in get_default_config :
          Becomes(r, [handler |-> "import_excel", step |-> "preview", settings |-> c])
    /\ UNCHANGED <<organisation_vars, period_vars>>

\* Mutant: the period is that of the preview, the rest is read again.
Chosen_Previewed(r, c) == [c EXCEPT !.period = request[r].settings.period]

\* What the assessment is created with: the configuration of now.
Chosen(r, c) == c

\* _create_assessment_from_import, up to the look for an existing one.
PostExcelImport(r) ==
    /\ At(r, "import_excel", "preview")
    /\ organisation[Home].here
    /\ \E s \in Systems, status \in Statuses, c \in get_default_config :
          LET q == [handler |-> "import_excel", step |-> "create", system |-> s,
                    settings |-> Chosen(r, c), status |-> status]
          IN  Becomes(r, IF assessment[Key(q, status)] = NoAssessment THEN q ELSE Idle)
    /\ UNCHANGED <<organisation_vars, period_vars>>

\* Assessment.objects.create; the unique key has the last word.
CreateFromImport(r) ==
    /\ At(r, "import_excel", "create")
    /\ IF assessment[Key(request[r], request[r].status)] = NoAssessment
       THEN Created(request[r], request[r].status)
       ELSE UNCHANGED assessment
    /\ Becomes(r, Idle)
    /\ UNCHANGED <<organisation_vars, now, configuration, edited>>

-----------------------------------------------------------------------------
(* The specification                                                       *)

\* The answer, an error page, a page that is closed or a killed worker.
Over(r) ==
    /\ request[r] # Idle
    /\ Becomes(r, Idle)
    /\ UNCHANGED <<organisation_vars, period_vars>>

ImportCsvStep(r) ==
    \/ ImportCsv(r)
    \/ FindOrganisation(r)
    \/ CreateOrganisation(r)
    \/ SetReference(r)
    \/ FindUser(r)
    \/ CreateUser(r)
    \/ GetProfile(r)
    \/ InsertProfile(r)
    \/ SetParent(r)

CreateStep(r) ==
    \/ CreateAssessmentView(r)
    \/ GetDraft(r)
    \/ InsertDraft(r)
    \/ GetDraftAgain(r)

ImportExcelStep(r) ==
    \/ PreviewExcelImport(r)
    \/ PostExcelImport(r)
    \/ CreateFromImport(r)

Next ==
    \/ \E r \in Requests :
          ImportCsvStep(r) \/ CreateStep(r) \/ ImportExcelStep(r) \/ Over(r)
    \/ Tick
    \/ ConfigurationAdmin
    \/ Submit

Spec == Init /\ [][Next]_vars

-----------------------------------------------------------------------------
(* Properties                                                              *)

Imports == [handler : {"import_csv"},
            step : {"find", "create", "reference", "email", "user", "profile",
                    "insert", "parent", "done"},
            file : Files, row : Nat, email : Nat,
            organisation : Names \cup {None}, user : Emails \cup {<<>>},
            alone : BOOLEAN]
Creations == [handler : {"CreateAssessmentView"},
              step : {"get", "insert", "again", "error"},
              system : Systems, settings : Configured]
Previews == [handler : {"import_excel"}, step : {"preview"}, settings : Configured]
Uploads == [handler : {"import_excel"}, step : {"create"},
            system : Systems, settings : Configured,
            status : Statuses]

\* The types of the variables; a profile is that of an account and of an
\* organisation.
TypeOK ==
    /\ organisation \in [Names -> Organisations]
    /\ \A i \in DOMAIN accounts : accounts[i] \in Emails
    /\ profiles \in [Emails \X Names -> Nat]
    /\ \A p \in Emails \X Names : profiles[p] > 0 =>
          organisation[p[2]].here /\ \E i \in DOMAIN accounts : accounts[i] = p[1]
    /\ now \in 0..MaxTime
    /\ configuration \in [Configurations -> Settings]
    /\ edited \in BOOLEAN
    /\ assessment \in [Keys ->
          [framework : Frameworks, due : Nat] \cup {NoAssessment}]
    /\ \A r \in Requests :
          request[r] \in Imports \cup Creations \cup Previews \cup Uploads \cup {Idle}

\* No row after row i gives its organisation another lead department, of those
\* that are known.
LastWord(file, i) ==
    \A j \in DOMAIN file :
        j > i /\ find_organisation(file[j]) = find_organisation(file[i]) =>
            ~organisation[file[j].lead].here

\* Every row of the file has its organisation, with one profile for each of
\* its advisors and, where the lead department is known, a reference and that
\* department as its parent; rows that contradict each other: the last one.
Whole(file) ==
    \A i \in DOMAIN file :
        LET o == find_organisation(file[i])
            lead == file[i].lead
        IN  /\ o # None
            /\ organisation[lead].here =>
                  /\ organisation[o].reference
                  /\ LastWord(file, i) =>
                        organisation[o].parent = IF o = lead THEN None ELSE lead
            /\ \A k \in DOMAIN file[i].emails :
                  \E j \in DOMAIN accounts :
                      /\ normalize_email(accounts[j]) = normalize_email(file[i].emails[k])
                      /\ profiles[<<accounts[j], o>>] = 1

\* import_csv: an import that gets to its end has done all of the file, no
\* matter at which statement earlier imports of it, or of another file, were
\* killed or refused.  Other imports that overlap it are excepted, and the pages
\* that remove profiles or change an organisation are not part of this module.
ImportedWhole ==
    \A r \in Requests :
        At(r, "import_csv", "done") /\ request[r].alone => Whole(request[r].file)

\* CreateAssessmentView: advisors who create the draft of a system at the same
\* time, while it is also imported, all come to the one draft.  One is refused
\* only when the draft has another framework or was submitted.
CreatorsMeet ==
    \A r \in Requests :
        At(r, "CreateAssessmentView", "error") =>
            \/ assessment[Key(request[r], "draft")].framework
                  \notin {None, request[r].settings.framework}
            \/ assessment[Key(request[r], "submitted")] # NoAssessment

\* Whichever form or file made them, from however old a page, the assessments
\* of a period have one framework and one due date, unless the configuration
\* is changed.  That a period has one configuration at first is assumed: the
\* code asks for different names only.
OneDueDate ==
    \A s, t \in Systems, u, v \in Statuses, p \in Periods :
        LET a == assessment[<<s, p, u>>]
            b == assessment[<<t, p, v>>]
        IN  NoAssessment \notin {a, b} /\ ~edited =>
              a.framework = b.framework /\ a.due = b.due
=============================================================================
