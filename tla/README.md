# WebCAF in TLA+

WebCAF is the Django application with which government organisations assess
their systems against the Cyber Assessment Framework. An organisation answers
a *self-assessment* of a system and submits it; an assessor *reviews* it and
finalises a report; the organisation then answers a *targeted improvement plan*
(Tip) that the department approves or rejects.

The records are edited by many people at once, from several browser tabs and from
the Django admin site, through five gunicorn workers that may be killed at a timeout.
There are almost no row locks: each request loads a row, changes the instance and
writes all of it back; hardly anything runs in a transaction of its own. What keeps
the records right is a handful of status checks, one optimistic lock, a few unique
keys and the order of the statements. That is what is modelled here: **the three
records, the accounts, profiles, sessions and e-mails around them and the imports
into them, under interleaved, interrupted and out-of-date requests.**

Paths below are relative to `src/webcaf/webcaf/` unless they start with `src/`.

## 1. Inventory

### Components, their state and their operations

| Component | State | Operations | Model |
|---|---|---|---|
| Assessment (`models.py` 173-392, `views/assesment.py`, `caf/views/factory.py`, `views/sections.py`, `utils/session.py`) | table `webcaf_assessment`, unique per system, period and status; `session["draft_assessment"]` | create a draft, edit system / profile / review type, answer an outcome, confirm it, submit | `Assessment`; creation and periods in `Imports` |
| Review, the row (`models.py` 604-1219, `views/assessor/`) | table `webcaf_review`: status, `last_updated`, `review_data` (response, completion, finalise stamp) | answer, confirm scope, create report, reopen, finalise, edit the system | `Review` |
| Review, its content and versions (`models.py` 688-1296, `views/assessor/review_assessment.py`) | sections of the response; the history table | decide, recommend, comment, create a report, list and show versions | `Reports` |
| Tip (`models.py` 1342-1829, `tip/`) | table `webcaf_tip`: status and `tip_data` (actions, confirmation, finalise mark) | answer, bulk answer, confirm, submit, approve, reject, reopen | `Tip` |
| Notify client (`notification.py`, `utils/email.py`) | a batch: recipients left, retries left, responses, failures | send, retry, aggregate, go on | `Notify` |
| Sign in (`src/webcaf/auth.py`, `src/webcaf/middleware.py`, `views/two_factor_auth.py`, `views/one_login.py`, `views/internal_access.py`, `views/account.py`) | accounts, sessions, e-mail devices, `AllowedEmailDomain`, `Settings` | authenticate, create an account, send and verify a code, time out, sign out | `SignIn` |
| Permissions and current profile (`utils/permission.py`, `utils/session.py`, `src/webcaf/context_processors.py`) | profile id in session and cookie | choose, switch, check a role | `Profiles` |
| Users, profiles and systems (`views/user_profiles.py`, `views/system.py`, `forms/user_profile.py`) | tables of profiles and systems | create, change, remove | `Profiles` |
| Configuration (`models.py` 450-560, `admin.py`) | assessment periods with end, framework and due date | current period, due date, change | `Imports` |
| CSV import of organisations (`admin.py` 280-412) | organisations, accounts, profiles | find or create, row by row; set parents | `Imports` |
| Excel import of assessments and reviews (`admin.py`, `utils/excel_importer.py`) | none of its own | preview, create | `Imports`, `Reports` |
| Reference numbers (`utils/references.py`, `models.py` 44-60) | `reference` column | computed from the key after the insert | `References`, `Imports` |
| Admin site (`admin.py`) | none of its own | change forms of Review and Tip, Un Finalise, decisions, imports | in the module of what it changes |
| Outcome status rules (`caf/util.py`, `assessment-rules` in `src/frameworks/`) | none | status from the ticked statements, CAF profile met | `Rules`, `Reports` |
| CAF framework files, PDF, templates, template tags, spreadsheets, data analysis, export and migration | none, or operator commands | load, parse, format, render | not modelled (section 8) |

### How they interact

* **Sign-in to pages.** A callback finds or makes an account and binds it to a session;
  the middleware lets a request through to a page; the page finds the profile it acts
  under from the session, the cookie or the table. `SignIn` ends, and `Profiles` begins,
  at the page. Accounts are also made by the users' form and by the CSV import.
* **Creation.** An advisor's form and the import of a workbook create the assessments of
  the current period; `Imports` ends, and `Assessment` begins, at the row.
* **Submission** inserts the `Review` in a second statement
  (`views/sections.py` 85-91). `Assessment` ends, and `Review` begins, there.
* **Finalisation** inserts the `Tip` and sends e-mails *before* it saves the review
  (`views/assessor/review.py` 136-161). `Review` ends, and `Tip` begins, there.
* **The report** is not stored: its versions are read back from the history that each
  save of the review adds to (`models.py` 1221-1296).
* **The plan** reads its recommendations from the finalised review each time it is
  shown, and keeps the answers under positional ids (`utils/review.py` 94-142). The
  admin site can un-finalise a review and so move the ground under a plan: `Tip` has
  the rework of the review as actions.
* **E-mails** go out before the save of a decision and after that of a submission;
  `Notify` has both orders.
* The `System` row is shared by assessments and reviews: its description is shown
  in the review and its confirmation is reset when it changes.
* The browser session carries a copy of the draft's key, system, profile and review
  type, and the current profile, from page to page.

### What is hard

* **Overlap.** Two requests load the same row and write it one after the other.
  `Review.save()` has an optimistic lock, which re-reads, compares and writes in
  separate statements; `Tip`, `Assessment` and profiles have none. Look-ups that are
  followed by an insert (accounts, organisations, drafts, profiles) have a unique key
  behind them, or have not.
* **Old pages.** A form rendered before a change is posted after it: the
  admin forms carry whole JSON documents, the lead's confirmation page shows answers
  that may have changed, a workbook is confirmed in another period than it was shown
  in, two tabs share one session, a cookie outlives its user.
* **Several writes of one request.** Submission and its review; Tip, e-mails and
  finalisation; System and its change record; two saves of the scope page; an
  organisation and its reference; a file of organisations. Any of them may be refused
  or never happen.
* **A service that fails.** Notify refuses, is slow, loses an answer or sends one that
  cannot be read, after it may have delivered.
* **Long legal sequences.** Completed, reopened, completed, finalised,
  un-finalised; confirmed, changed, submitted, rejected, changed, submitted; a response
  that comes back to what an earlier version held.

### What makes each component correct

* Assessment: what is submitted is complete and stays as submitted; a confirmation
  belongs to the answers beside it; the enhanced profile has an independent review;
  a review exists exactly for the submissions that need one; whoever creates a draft
  comes to the one draft; a period has one due date.
* Review: no acknowledged answer is lost; the response of a completed review is
  frozen; a finalised review changes no more and has a plan; the life cycle is serial.
* Reports: a report to which the summary leads is filled in; the pages ask for exactly what
  is missing; a version number shows the same content for ever.
* Tip: a submitted plan is complete, confirmed, and frozen until the decision; the
  confirmation stands for answers that were read; the life cycle is serial.
* Notify: nobody gets an e-mail twice; the retry budget bounds the batch; the counts are
  true; no trouble with an e-mail keeps a handler from ending or saving.
* Sign in: a session's data are its user's, behind the second factor; a mailbox has one account.
* Profiles: the key of a profile stands for the organisation it was given out for, and a
  request changes its own organisation only.
* Imports: a file that is imported to its end is imported whole, whatever happened before.

The hazards, each at its line and with the properties that cover it, are listed in
`PROJECT.json`.

## 2. Modules

| Module | What it is | Proofs |
|---|---|---|
| `Review` | one review row, its Tip and System, and the requests that change it | `Review_proofs` |
| `ReviewLifecycle` | abstract: the serial life of a review; `Review` implements it | |
| `Tip` | one plan, the review behind it, and the requests that change it | `Tip_proofs` |
| `TipLifecycle` | abstract: the serial life of a plan; `Tip` implements it | |
| `Assessment` | the assessments of an organisation in one period, the sessions and their requests | `Assessment_proofs` |
| `AssessmentLifecycle` | abstract: how the assessments of a period are drafted, submitted and reviewed; `Assessment` implements it | |
| `Notify` | `send_notify_email`, its callers and the service | `Notify_proofs` |
| `Delivery` | abstract: what a batch of e-mails promises; `Notify` implements it | |
| `SignIn` | accounts, sessions and one-time codes | `SignIn_proofs` |
| `Profiles` | current profiles, and the pages that manage users and systems | `Profiles_proofs` |
| `Reports` | the content of a review, and the versions of its report | `Reports_proofs` |
| `Imports` | CSV import, creation and import of assessments, the period | `Imports_proofs` |
| `References` | `generate_reference`, as operators | in `Imports_proofs` |
| `Rules` | the status that ticked statements give an outcome, as operators | in `Reports_proofs` |
| `MCReview`, `MCTip`, `MCAssessment`, `MCNotify`, `MCSignIn`, `MCProfiles`, `MCReports`, `MCImports` | the sets the configurations give to the constants | |

### The shape they share

A request is a record in `request`, and moves through program counters that stand
for the points where *another* request's statements can come between. A handler's
Python code between two database statements is one action; the action's guard is the
handler's own test, evaluated on the instance that was loaded. `Crash`, `Killed` or `Over`
ends a request at any such point; what is committed stays. In the modules of the records,
conditions on users (is the user of this organisation, may the role edit) are decided
before a handler changes anything; they are the subject of `Profiles`, and where they
reach another model they are a choice made when the request starts.

History variables (`overlapped`, `acked`, `outdated`, `happened`, `late`, `inbox`, `tries`,
`edited`, `alone`, `origin`, `linked`) are read by properties only. The one guard that reads one,
`~edited` in `ConfigurationAdmin`, is a bound and says so.

Operators whose name ends in a word after an underscore (`Retry_Always`,
`CreateUser_Normalised`) and whose comment begins with "Mutant:" are variants a plausible
bug would make of the operator below them; nothing uses them, and each shows that a
property can fail.

### Review

* `review` is the row. `response` maps each section (outcome, recommendation
  list, comment) to an abstract value, 0 when empty; `scope` is the version of the
  System description that was confirmed, 0 if none; `records` counts
  `assessor_actions`; `completion` and `finalised` are the stamps; `last_updated` is
  the lock's time stamp. `clock` gives each save a fresh one (`auto_now`, microseconds).
* Program counters: `page` (a form is open), `effects` (Tip and e-mails before the
  save), `record` (between the System's save and the change record), `save` (before
  the re-read in `Review.save()`) and `write` (between re-read and UPDATE).
* `refused` is the disjunction of the `ValidationError`s of `Review.save()`; `old`
  is what it has just re-read. `SaveChecked`, `SaveRefused` and `SaveWritten` are the
  save that every handler ends with. The scope page saves twice; `Saved` starts the
  second save. `read` is the stamp of the row that the check saw: a write that finds
  another one has `overlapped`.
* `ReviewAdmin` posts back the response of the page, with the row's *current*
  `last_updated`: the POST loads the row anew, so the lock cannot see that the page is old.
* `ImportedRows` are the rows of the Excel import, as initial states; the theorems cover
  them, and no run starts from them.

### Tip

* `tip` is the row. An action carries, as history, the text of the recommendation it
  was given to (`about`). `confirmation` is `None`, or the answers the lead had on the
  page: the code stores a name and a time, the model what they stand for.
* Program counters: `page` (the confirmation page or the admin form is open) and `write`.
* The bulk form writes all of its positions; the admin form posts the `tip_data` it
  was rendered with.
* `FinaliseReview`, `UnfinaliseReview` and `EditRecommendations` are the review behind
  the plan. `UnfinaliseReview` and `EditRecommendations` belong to the handler "Rework".

### Assessment

* `rows` maps keys to rows; `status = "none"` is a key not used yet. An answer sheet of
  an outcome is one value of `Answers`; `confirmed[o]` is the value that `outcome_status`
  was computed from. A changed answer takes the confirmation back.
* `session` is `draft_assessment`. It is kept between requests, since views call
  `session.save()` and `SESSION_SAVE_EVERY_REQUEST` is on. Each session (browser) has at
  most one request in flight; several tabs of a browser are several pages of one session.
* Program counters: `edit` (after `get_form_kwargs` has checked the id in the URL),
  `confirm` (between the two loads of a confirmation), `save`, `submit` (before the
  UPDATE), `review` (between the UPDATE and `Review.get_or_create`).
* `EditAssessmentView.form_valid` works on the id of the *session*, not that of the
  URL, and does not test its status: `Edited` does the same.
* `unique_together` is `IntegrityError`; the period and framework are constant, so the
  key is system and status. `completed` and `cancelled` are assigned by no user handler.
* The review-type forms may be posted whatever the profile is: the template hides
  the choice for an enhanced profile, so this stands for a page opened before. It
  is marked `stray`.
* `Phase`, `Content` and `UnderReview` are what `AssessmentLifecycle` sees of a state: the
  status of each row, the rows that were submitted, and the reviews. An overlap or a stray
  page tears the promise (`Tear`); a kill does not. `Submittable` is what it lets be submitted: every outcome confirmed,
  beside the answers it was confirmed with, and the review type that the profile asks for.

### Notify

* One handler runs at a time: submission (save, then a confirmation and an alert),
  the decisions on reviews and plans (e-mails, then the save), the one-time code and the
  test command. `todo` is what it still sends, `pc` where it is; `Save` may be refused.
* A batch is a list of addresses as written; `Key` is the mailbox after `casefold()`, so
  that `unique_email_addresses` sends to the first of each. `left` are the positions not
  yet dealt with, `verdict` is what `responses` and `failed_emails` record, `report` the
  counts in the `NotifyError`.
* The service is `flight` and `Accept`: a request is with Notify until it is accepted, at
  any time, also long after the client gave up. What the client then sees is any
  answer that is `Possible`: a 2xx only for an accepted request, a refusal only for one
  that is not, a 5xx or no answer for either. `classify` is the cascade of `except`
  clauses: what is retried, what has failed, what counts as unanswered.
* `NotStarted`: no API key, or no client. `CallerGoesOn`: all callers but the test
  command log the exception and go on. `Killed`: gunicorn's timeout.

### SignIn

* `SSO_MODE` is fixed when the process starts. `email` and `username` are the columns of
  `User`, compared without regard to case by `filter_users_by_claims`, and unique as
  they are written. `pending` is the point between the search for an account and its insert,
  where two browsers may be at once.
* `session` has the user, the code that was verified (`otp`), `idle` (the time since
  the last request has passed `USER_IDLE_TIMEOUT`), `rejected`, and `data`: the working
  data of the pages, by the user who put them there.
* `codes` is the user each code was sent to, `device` the code that a user's device
  accepts now. A new one replaces the old one; any may expire.
* `login`, `Flush` and `login_failure` are Django's `login()` and `flush()` as the code uses
  them: the session of another user is flushed, one's own is kept.
* `UserProfileForm` and `ImportAdvisor` are the other makers of accounts, `SettingsAdmin`
  the tables of domains and settings.

### Profiles

* `row` are the profiles by key, `issued` the last key; keys are not given out again.
  `session[b].profile` and `last_org[b]` are `current_profile_id` and the cookie.
* A request reads profile, role, organisation and target in `Begin`, and writes in one of
  `Writes`; anything may happen in between. `attached` is FALSE once its session is gone:
  it then saves no session, but still sets the cookie.
* The form of a profile saves the instance it loaded, so that an edit writes a row that
  was removed meanwhile anew; if the row was gone already when the form was posted, the
  form creates one without an organisation. Both are in `UserProfileView`.
* `UserProfileAdmin` removes a profile, changes its user, organisation and role in any way
  (`Entered`), or adds one. `origin` is history: the organisation a key was given out for, or
  `Moved` once operators have put its profile elsewhere.

### Reports

* `review.response` has the scope, a decision and a list of recommendations for each
  outcome, and which comments and details are there. `is_outcome_complete`,
  `is_all_objectives_complete` and `is_ready_to_submit` are the rules of the code, and
  `recommendations_required` is the rule of the page.
* A POST is one step: it loads and saves, and the post-save signal adds the history row in
  the same transaction. That two POSTs overlap is the subject of `Review`. Pages that
  carry content (the recommendation formset through preview and confirmation, the
  workbook, the change form of the admin site with the whole row) stay open in `form` while
  others work; so does the page of the report. Only the link to that page depends on
  `is_ready_to_submit`; the page opens for any review, as `CreateReportView` looks at no more
  than the status. `linked` is history: the review was ready when the page was opened, and no
  change form has put back another content since.
* `history` has the responses of the completed rows, oldest first. `all_versions` drops a
  row that equals its newer neighbour; `version_number` counts from the oldest;
  `ShowReportView` is what version n shows.

### Imports

* `ImportCsv` to `SetParent` are `import_csv` statement by statement: find, create, set
  the reference, find the user, create it, `get_or_create` of the profile as look and
  insert, and the second pass over the file. `alone` notes that no other import ran
  meanwhile.
* `configuration` are the periods; `get_default_config` picks the first that has not
  ended, by a clock in UTC, and `get_submission_due_date` takes the end in London time.
* `CreateAssessmentView` is Django's `get_or_create` in its three statements, where the
  framework is part of the look-up and not of the unique key.
* `PreviewExcelImport`, `PostExcelImport` and `CreateFromImport` are the two pages of the
  import and its insert.

### References

`generate_reference` for the three models that use it. Its five characters are a
base-30 number of which the code writes the lowest digits.

### Rules

`get_status_for_indicator` counts, for each kind of statement, whether all, some or none are
ticked (`generate_key`), and looks the three up in the `assessment-rules`, a table of 27 rows that is
the same in both framework files. `Deserved` is the declarative rule, `Better` compares two
ways to tick the page. TLC evaluates `RulesHold` of `MCReports` before each run of it: every
outcome with up to two statements of each kind, ticked and ticked again in every way.

## 3. Runs

| Run | Instance | Shows |
|---|---|---|
| `review_users` | 2 requests, 2 sections, 2 values, leads and assessors, all user handlers, crashes | `TypeOK`, `FinalisedHasTip`, `AckedAnswersKept`, `CompletedFrozen`; implements `ReviewLifecycle` |
| `review_admin` | as above with 1 section, without leads, with the admin form instead of the System page | `FinalisedHasTip`, `CompletedFrozen`, `FinalisedFrozen` hold with the admin site too |
| `tip_department` | 2 requests, 1 priority and 1 other recommendation, both kinds of answer, crashes, the department's buttons | `TypeOK`, `SubmittedIsComplete`, `ConfirmedWasRead`, `SubmittedFrozen`; implements `TipLifecycle` |
| `tip_all` | 2 requests, 1 recommendation, with the superuser's Save and the reworked review | implements `TipLifecycle` there too |
| `assessment_answers` | 2 sessions, 1 row, 2 outcomes, 2 answers | `TypeOK`, `SubmittedIsComplete`, `ConfirmedOutcomesMatch`, `SubmittedFrozen` |
| `assessment_drafts` | 2 sessions, 2 rows of 1 system, 1 outcome, both profiles, review types with and without a review | `ProfileDecidesReview`, `ReviewOfSubmission`; implements `AssessmentLifecycle` |
| `notify` | 3 mailboxes, one of them written in two ways and one blank, lists of up to 3, 2 retries, all handlers | `TypeOK`, `AtMostOnce`, `RetriesAreShared`; implements `Delivery`; `EndsRecorded` (liveness) |
| `sign_in` | 2 browsers, 3 accounts of which 1 is staff, an address in two cases, 3 modes, 2 codes | `TypeOK`, `WorkBelongsToItsUser`, `OneAccountPerMailbox` |
| `profiles` | 2 users, 2 organisations, 1 shared browser, 2 requests, 3 profile keys, operators who make anyone a lead anywhere | `TypeOK`, `OwnOrganisation`, `KeysKeepTheirOrganisation` |
| `reports` | 2 users with pages open, 1 outcome, both review types, 6 saves, admin form, import | `TypeOK`, `AsksForWhatIsMissing`, `VersionsKeepTheirNumbers`, `LinkedReportsAreFilledIn` |
| `imports` | 2 requests, 2 files, 3 organisations, 2 configurations, 1 system, 3 hours | `TypeOK`, `ImportedWhole`, `CreatorsMeet`, `OneDueDate` |
| `review_lost_update` | as `review_users`, 1 section | *violation* of `NoLostAnswer` |

Deadlock is checked in all passing runs but those of `Review` and `Reports`: their saves
are bounded, so the model really stops when the last one is used.

### Bounds, and why they are enough

* **Two requests, sessions, browsers or users.** Every hazard is a race of one request
  with one other writer; a third only repeats the second. The theorems have any number.
* `Review`. **`MaxClock`** bounds the saves of a behaviour, six in both passing runs. It takes four
  to finalise a review (the scope page saves twice, then the report and the finalisation, which
  need no answers), so that two more saves are left: for answers before, for reopening and a
  second report between, for users to write to what is completed or finalised, or for the admin
  site to un-finalise it and somebody to go on. **Two sections** let a stale instance overwrite
  an answer it did not edit. What a longer life adds is covered by the theorems.
  **`MaxSystem`** bounds the changes of the System.
  **`VIEW UpToStamps`**, in both passing runs, identifies states that differ
  only in the values of time stamps. Stamps are only compared with the row's, and
  `StampInv`, which is proved, says that a pending stamp is new to the row, to every
  instance and to every other write; so which instances carry the row's stamp decides
  everything that can follow.
* **`Tip`, `Assessment` and `Notify` have no bound**: their state spaces are finite.
* `Assessment`. **Two outcomes, two answers** are what it takes to change one answer while
  another is confirmed; **two rows of one system** to have a second draft beside a
  submitted one, to be refused by the unique key, and to have two tabs on two drafts.
  `assessment_drafts` has the constraint `BeforeIncident`: it does not look beyond an
  overlap, a stray page or a kill (its properties are about behaviour without them,
  except that `ProfileDecidesReview` holds after overlaps and kills too, which is
  proved). `assessment_answers` has no constraint and goes on after all three.
  One system makes `EditAssessmentSystemView` keep the system it had; the theorems
  have any number of systems.
* `Notify`. Three positions of which two are one mailbox, and two retries: the budget can be
  spent on the first recipient, on the second, or on both.
* `SignIn`. An address in **two cases** is what look-ups and unique keys treat
  differently; one domain, allowed or not. **Three accounts**: staff, and two, so that
  a mailbox can get a second one. **`MaxCodes`** = 2: a code of another user, or an older one of one's own.
* `Profiles`. **`MaxProfiles`** = 3: the two that were imported, in all combinations of
  user and organisation, and one that a page or an operator creates. Operators make anyone a lead
  of either organisation. **`OneAtATime`** constrains the run: systems are added, or profiles are,
  or operators move a profile while an edit of it is under way, and TLC does not look at what
  mixes the three; systems and profiles meet only in the organisation of a request. The theorems
  do without it. One browser shared by both users has
  session, cookie and late requests of somebody else.
* `Reports`. **`MaxSaves`** = 6 is what three reports of a review take, when it is reopened
  twice, and also what it takes for the response of the first to come back in the third (versions
  A, B, A): an operator completes, reopens and completes the review, with an assessor's change
  between, and posts a change form of the first version. A linked report of an independent
  review takes five, a save for the decision, the comment, the detail, the scope and the report;
  the sixth is for others while its page is open. **One outcome**, because outcomes do not
  influence each other; its requirement is the lowest, so that the rules of the two review
  types differ. One comment and one detail stand for all of theirs. Of the statuses an
  operator can set, the run has `in_progress` and `completed`; the theorems have all.
* `Imports`. **Two files**: a body and its department, after the body so that the
  second pass has work; and the body found by its reference under a new name, with an
  address whose domain has capitals, and once more as its own lead department, so that two
  rows of a file contradict each other and the last must win. **`ImportedFirst`** constrains the run: organisations
  are imported before the first assessment is created and before time passes, since
  the two parts share only the organisation and its advisors, which then exist. The
  theorems about this module do without it. **`MaxTime`** = 3 hours passes both ends, and the
  hour between the end in London and in UTC. **`edited`** allows one change of the
  configuration, after which the properties ask nothing more of due dates.
* Symmetry: request slots, sessions, browsers, keys, systems, outcomes, answers, users and
  organisations are interchangeable where a configuration says so; no definition tells them apart. It is used
  with invariants and `[][A]_vars` only, for which it is sound; `notify`, which checks a
  liveness property, has none.

### Fairness

`Notify` assumes `WF_vars(Works)`: a worker that is not killed goes on with its loop.
The code justifies it: every request to Notify comes back, since the client is made with a
timeout (`NOTIFY_API_TIMEOUT_SECONDS`), the loop has no other wait, and when the worker
*is* killed the handler has come to its end, which `Killed` makes a step. Nothing is assumed of users,
who need not ask for anything, nor of Notify, which need not accept anything. Under
this, `EndsRecorded` says that every handler ends, and that one that saves has by then
saved or been refused, however Notify behaves. A worker that is killed leaves no handler
behind, so nothing is claimed of its save.

No fairness is assumed elsewhere: nothing in the other modules runs by itself, a user may
always close the browser, and every property there is a safety property.

## 4. Findings

One is a run that TLC refutes, with the quoted text of the repository in `PROJECT.json`:

* `NoLostAnswer`: the optimistic lock of `Review.save()` compares and writes in separate
  statements, without `select_for_update`. Two saves that both pass the comparison lose
  the earlier answer, though both users are told it is saved. `AckedAnswersKept`,
  which holds, is the same property for saves that do not overlap there.

Seen while modelling, and in the models, but not runs of their own because no text
of the repository says otherwise, because they follow from one another, or because it
takes no model to see them:

* *Old pages.* The admin form of a review posts back the whole `review_data` it was rendered
  with over answers saved since, without overlap. A plan's button in the admin site does the same
  with `tip_data` (`outdated`). An answer that was loaded before the submission of a plan, written
  after it, takes the plan back to in progress. A review type posted from a page opened before the
  profile became enhanced is stored with the enhanced profile (`stray`). A list of
  recommendations that was shown for confirmation replaces what is stored by the time it is
  confirmed. An edit of a profile that was under way when operators moved the profile takes it
  back to the organisation it came from (`OwnOrganisation`).
* *Reports of reviews that are not ready.* `CreateReportView` looks at the readiness neither when
  its page is opened nor when it is posted: the link on the summary is all that depends on it. Whoever
  knows the address creates a report of a review without decisions, as
  `src/tests/test_views/test_create_report_view.py` does with a fresh one. Whoever follows the
  link gets a report that is filled in, since no page of an assessor takes a decision, a comment or a detail away
  (`LinkedReportsAreFilledIn`); but recommendations may be deleted meanwhile, the scope may have
  to be confirmed anew, and a change form of the admin site may bring back anything.
* *Order of writes.* The Tip and the e-mails of a finalisation come before its save, which may
  be refused or never happen; so does the e-mail of a plan's submission. A worker killed between
  `assessment.save()` and `Review.objects.get_or_create` leaves a submitted assessment without a
  review, and no later request creates it (`kill`). `EditReviewSystemView` saves the System before
  the review refuses or loses the change record; no page links to this view.
* *Rework.* After a review was un-finalised and reworked, an answer of the plan is shown with a
  recommendation it was not given to.
* *Imported and administered reviews.* A review imported as completed is finalised and has no plan.
  Its sections count as complete but for decisions, scope and recommendations, since the import writes
  every comment key, mostly blank. An administrator, too, may complete a review without decisions;
  the report pages of such a review fail on the missing keys. `get_completed_outcomes_info` counts outcomes by
  a rule that is not that of `is_ready_to_submit`.
* *Versions.* `ShowReportView` shows an old version with the assessment and the system of today.
* *Accounts.* In the mode for internal access two accounts can come to share a mailbox: the
  users' form stores the address in lower case, sign-in as the provider writes it
  (`docs/INTERNAL_ACCESS.md`), and the insert looks at the username as written. After that
  neither can sign in. `OneAccountPerMailbox` is the property for One Login, where it holds.
* *Imports.* `create_user` normalises the domain of an address, and the look-up compares it as
  written: a file with a capital in a domain can be imported once, and stops with an
  `IntegrityError` the second time, before the rows that follow. Overlapping imports may
  create a profile twice, after which `get_or_create` fails for it. An organisation that was
  left without a reference stays so if its lead department is not in the database.
  `ImportedWhole` says "that gets to its end" for these reasons. It excepts imports that overlap, and
  `Imports` does without the pages that remove profiles and the form of an organisation, which saves
  the whole row: run during an import, they undo some of it too. Where rows of a file contradict
  each other about the lead department of a body, the last has its way (`LastWord`).
* *Drafts.* The POST of the create page accepts a system that has a submitted assessment; the
  second draft can then never be submitted. When the framework of the configuration changes under a
  draft, the create page is refused for that system from then on (`CreatorsMeet`).
* *Periods.* Configurations need different names, not different periods. With two for one period the
  due dates of its assessments may differ; `OneDueDate` assumes one for each, and ends where a
  configuration is changed. `get_default_config` compares the end as if it were UTC and
  `get_submission_due_date` takes it as London time: in summer a period is current for an hour
  after its due date. The bounds of the year on the form of a review's period are computed when
  the process starts.
* *References.* 11547, the multiplier for assessments, is 9 * 1283 and shares the 9 with 30^5:
  references repeat after 2 700 000 keys (`AssessmentReferencesRepeat`), though the docstring of
  `generate_reference` promises uniqueness without a check. The term 30^4 does not keep the
  last character from being the first of the alphabet, since what it carries is cut off.
* `excel_to_assessment_json` is documented as the parser that is "used when importing for
  real"; the admin import uses that of the preview, which skips what it cannot read.

## 5. What is proved

`tlapm` checks the following for every value of the constants that satisfies the
modules' assumptions: any number of requests, sessions, accounts, organisations, outcomes,
recommendations, rows, files, and without the bounds of the runs being small.

| Theorem | States | Holds for |
|---|---|---|
| `Review_proofs!TypeCorrect` | `[]TypeOK` | all |
| `Review_proofs!FinalisedReviewHasTip` | `[]FinalisedHasTip` | no imported rows |
| `Review_proofs!CompletedStaysFrozen` | `CompletedFrozen` | all |
| `Review_proofs!FinalisedStaysFrozen` | `FinalisedFrozen` | all |
| `Review_proofs!LockKeepsAnswers` | `[]AckedAnswersKept` | no admin form (section 4) |
| `Review_proofs!ImplementsLifecycle` | `LifecycleSpec` | no admin form, no imported rows |
| `Tip_proofs!TipTypeCorrect` | `[]TypeOK` | all |
| `Tip_proofs!SubmittedPlanIsComplete` | `[]SubmittedIsComplete` | no superuser's Save, no rework |
| `Tip_proofs!ConfirmationIsOfTheAnswers` | `[]ConfirmedWasRead` | all |
| `Tip_proofs!SubmittedPlanIsFrozen` | `SubmittedFrozen` | all |
| `Tip_proofs!PlanImplementsLifecycle` | `LifecycleSpec` | all |
| `Assessment_proofs!AssessmentTypeCorrect` | `[]TypeOK` | all |
| `Assessment_proofs!SubmittedAssessmentIsComplete` | `[]SubmittedIsComplete` | all |
| `Assessment_proofs!SubmittedAssessmentIsFrozen` | `SubmittedFrozen` | all |
| `Assessment_proofs!ReviewFollowsSubmission` | `[]ReviewOfSubmission` | all |
| `Assessment_proofs!EnhancedNeedsReview` | `[]ProfileDecidesReview` | all |
| `Assessment_proofs!ConfirmationsMatch` | `[]ConfirmedOutcomesMatch` | all |
| `Assessment_proofs!AssessmentImplementsLifecycle` | `LifecycleSpec` | all |
| `Notify_proofs!TypeCorrect` | `[]TypeOK` | all |
| `Notify_proofs!MailedOnce` | `[]AtMostOnce` | all |
| `Notify_proofs!BudgetOfTheBatch` | `[]RetriesAreShared` | all |
| `Notify_proofs!KeepsThePromise` | `DeliverySpec` | all |
| `Notify_proofs!OverMeansRecorded` | the safety part of `EndsRecorded` | all |
| `Notify_proofs!NeverStuck` | a handler that runs has a step to take | all |
| `Notify_proofs!HandlersEnd` | its steps make a well-founded measure smaller | all |
| `SignIn_proofs!TypeCorrect` | `[]TypeOK` | all |
| `SignIn_proofs!SessionsAreOnesOwn` | `[]WorkBelongsToItsUser` | all |
| `SignIn_proofs!MailboxHasOneAccount` | `[]OneAccountPerMailbox` | all |
| `Profiles_proofs!TypeCorrect` | `[]TypeOK` | all |
| `Profiles_proofs!ChangesOwnOrganisation` | `OwnOrganisation` | all |
| `Profiles_proofs!KeysAreKept` | `[]KeysKeepTheirOrganisation` | all |
| `Reports_proofs!TypeCorrect` | `[]TypeOK` | all |
| `Reports_proofs!PagesAskForWhatIsMissing` | `[]AsksForWhatIsMissing` | all |
| `Reports_proofs!VersionsAreKept` | `VersionsKeepTheirNumbers` | all |
| `Reports_proofs!LinkedReportsHoldWhatWasReady` | `LinkedReportsAreFilledIn` | all |
| `Reports_proofs!RulesGiveWhatIsDeserved` | the table of rules is the declarative rule | every set of statements |
| `Reports_proofs!MoreNeverLowersTheStatus` | and is monotone, up to the CAF profile | every set of statements |
| `Imports_proofs!TypeCorrect` | `[]TypeOK` | all |
| `Imports_proofs!ImportsAreWhole` | `[]ImportedWhole` | all |
| `Imports_proofs!CreatorsComeToTheDraft` | `[]CreatorsMeet` | all |
| `Imports_proofs!PeriodHasOneDueDate` | `[]OneDueDate` | all |
| `Imports_proofs!ReferencesDiffer` | references of organisations and of systems are unique | every key the code accepts |
| `Imports_proofs!AssessmentReferencesRepeat` | those of assessments are not | |

Assumptions: `ReviewAssumption`, `TipAssumption`, `AssessmentAssumption`, `NotifyAssumption`,
`SignInAssumption`, `ProfilesAssumption`, `ReportsAssumption`, `ImportsAssumption` (a null value
is not a value; `Key` and `Lower` are functions; files and lists are sequences; handlers in use are
handlers), which TLC evaluates on every run.

### The arguments

**The lock of Review.** `AckedAnswersKept` is not inductive: it says nothing of an
instance that has passed the check and is about to be written. `StampInv` says that the
stamp of a write to come is new to the row, to every instance and to every other write
to come. Hence an instance with the row's stamp was made from the row as it is, and one
that has passed the check would pass it again (`FreshInv`). A write whose instance
carries the row's stamp then applies its handler to the row, and a write whose instance
does not is an overlap. `CompletedFrozen` and `FinalisedFrozen` follow from what
`refused` tests, `AckedAnswersKept` from what each handler changes (`AckInv`), and the
refinement from `RowInv`, which keeps the status of rows and instances in step with
their stamps. `FinalisedHasTip` needs only `TipInv`: a finalise stamp, in the row or in
an instance past its effects, is younger than the Tip. This holds under overlap as well.

**The plan.** Status and `tip_data` are always written together, so an instance is a
plan as good as the row it was loaded from: `CompleteInv` says of every instance that
may be written what `SubmittedIsComplete` says of the row. `ReadInv` does the same for
the confirmation. `FreshInv` ties an instance that no other write has overtaken to the
row; `OutdatedInv` does so for the open pages.

**The assessment.** `CompleteInv` is `SubmittedIsComplete` for rows and for instances
about to be written: no handler makes a submitted instance but `SectionConfirmationView`,
which has just tested it, and the edit forms, which leave the answers alone. `LoadedInv`
says that a request no other has overtaken works on a draft, since whoever submits
the row makes the others late; freezing and `ReviewOfSubmission` follow. `ProfileInv`
carries the consistency of profile and review type through rows, sessions and instances,
between which the fields are copied. `MatchInv` says that what a confirmation loaded
first has still the answers of the row; it needs `PointsInv`, that sessions point at
rows that exist. The refinement puts these together: what is submitted is `Submittable` by
`CompleteInv`, `MatchInv` and `ProfileInv` of the state after the save, and the first of its
system since `IntegrityError` looked; a save of a draft is a stutter by `LoadedInv`; and
`ReviewedInv`, which unlike `ReviewOfSubmission` survives a killed worker, says that only
what was submitted for a review gets one.

**The batch.** `AtMostOnce` is about mailboxes, the loop about positions. `Untried` says
that nothing has been asked of Notify for a position that is left, but for the one being
waited for; `MailOnce` that a request in flight has not arrived and an accepted one has.
A retry asks only after an answer that `classify` takes for one that precedes acceptance.
`Budget` is the equation of tries, positions left and retries left that each step keeps.
Each step of the loop is then a step of `Delivery` or none; `DueIsLeft` makes the counts final.

**The end of a batch.** `EndsRecorded` is that every handler ends, and has by then tried its
save. The second half is safety: `Recorded` says of each point of a handler whether its
save is behind it, and `OverMeansRecorded` follows. Of the first half `NeverStuck` and `HandlersEnd` prove
what does not mention fairness. In each state of a handler that runs, the guard of one of its
steps holds (`GoesOn`). And each of its steps makes `Measure` smaller: first the number of batches
to do, then what there is to do in the open one, where a retry takes from the budget and an answer from
what is left; a late delivery by Notify leaves it alone. The order is lexicographic on pairs of numbers and well-founded.

**Sessions.** `Good(s)` says of each session that its code was sent to its user, that its
data are that user's, and that they were put there after the code where one is asked for.
It is kept since every change of a session's user goes through `login` or `Flush`, and a device
accepts only codes of its own user (`CodesOK`). `LowerCase` says that with One Login user names,
addresses and claims under way are in lower case; with the unique user name (`OneUsername`) two
accounts of a mailbox are one.

**Profiles.** What a request read in `Begin` may be out of date when it writes, and keys are all
that sessions, cookies and requests remember. The invariant speaks of keys, not of rows, since a
row may go and be written anew: the key of a row (`RowsKeep`), of a profile a request runs
under (`RequestsKeep`) and of a row that an edit will write (`EditsKeep`) is of the organisation
that each of them has, or was moved. No action but that of operators changes the origin of a key
that was given out (`OldKeysKept`), so what a request knows of its keys is not disturbed by
others (`OthersKept`), and an edit puts a row where its key belongs. `OwnOrganisation` follows:
an edit finds its row where the request began, or the key was moved; a removal compares again;
a new key had no row.

**Versions.** A new row of the history adds at most a last version: which rows are versions is
decided by the neighbour that is newer, so nothing changes before the last row, and if the
last row is no longer a version the new one, which equals it, takes its number
(`AppendKeepsNumbers`, on the strictly increasing numbers of `NumbersIncrease`).
`LinkedReportsAreFilledIn` follows from `ReadyInv`, that a page which counts as linked is that of a
report, of a review that exists and is filled in. Every page of the assessors saves a row that
adds to the content and takes no decision away (`AddsToIt`); an import finds no review where a
linked page is open; and a change form that puts back another content ends the link (`AdminInv`).

**Imports.** `Sound(q)` says where a request is and what it relies on in the tables: the
organisation, user and address at hand are there; the settings of a form are those of a
configuration unless one was changed; an insert that was refused found a row under
its key. `Grown` is what every action leaves of that: organisations and accounts stay, a change
is noted, a draft stays until it is submitted. So one lemma (`SoundGrows`) keeps
all other requests sound. `OneDueDate` follows since each assessment is
`OfConfiguration` of its period, of which there is one.

`ImportedWhole` needs to know what an import has left behind at every statement.
`Progress(q)` says it: in the first pass, that the rows before the one at hand have their
organisation, reference, accounts and profiles, and so have the addresses before the one at
hand; in the second pass, that this is so of all rows, and that the rows passed have their
lead department unless a later row has the last word. `AloneOK` is `Progress` of the
import that no other overlaps. The steps of the import itself add what they do
(`ProgressOn`), the other requests leave organisations, accounts and profiles
alone (`OthersLeave`), and at the end `Progress` is `Whole` (`AllBehind`). It holds
of every file, whatever its rows repeat or contradict and wherever earlier imports stopped.

**References.** Equal references have equal digits, hence equal values modulo 30^5
(`CharactersTell`); 94327 and 97103 have the inverses 19496263 and 3774767 there.

**Rules.** `KeyOfStatements` turns "all" and "none" into statements about sets, also for an empty
kind, and `RulesSay` the table into four cases. That more never lowers the status then
needs no table, and the scores carry it to `min_profile_requirement_met`.

## 6. What is only model-checked

* `EndsRecorded`: liveness under fairness is not within reach of the prover. What is missing between
  `NeverStuck`, `HandlersEnd` and `OverMeansRecorded` and the property is the step from weak fairness
  to "some step is taken", for which `ENABLED` would have to be computed, and the
  induction over a well-founded order in temporal logic.
* The violation (a counterexample needs no proof).

Every other property of a passing run has its theorem.

## 7. Plan

What a continuation would take up, in this order:

1. `Journey`: `Assessment`, `Review` and `Tip` composed over one system, each abstracted
   to its life cycle: a plan exists only for a finalised review of a submitted assessment,
   and the periods of `Imports` move under all three.
2. The positional ids of `get_review_recommendations`: which answers of a plan still belong to
   their recommendation after a review was reworked.
3. The change form of assessments in the admin site, which may write any field at any time.

## 8. Not modelled, and why

* Excel import and export cell by cell, PDF, templates, template tags, spreadsheets:
  parsing, formatting and rendering without state. An action that opens a page has
  the tests of the view as its guard; that no other page links to it is none.
* CAF framework files and router: loaded once, constant; they appear as `Sections`
  and `Outcomes`. The status of an outcome is a value of the answer sheet in `Assessment`; `Rules`
  says which. When a status changed (`get_when_the_status_changed`) is shown by no page.
* The change form of assessments in the admin site; deletion of organisations and systems (which
  takes the profiles of an organisation along); the contact form of an organisation
  and the fields of a system other than its name. Nothing in the code constrains them, and the
  properties would have to except them.
* The texts of comments and details, and the changes to the system that a review records
  (`Reports` has their presence, `Review` their number).
* The exchange of tokens with the identity provider: a library does it, and `Authenticate`
  has its outcomes.
* `add_organisations`, which reads a column of names; data analysis, export and migration:
  operator commands that read, or run before users arrive.
* Deployment, logging, static files, health checks.

## 9. Checking it

    tlc -workers 2 -config review_users.cfg MCReview.tla
    tlc -workers 2 -config imports.cfg MCImports.tla
    tlapm Review_proofs.tla
    tlapm Imports_proofs.tla

and so on for each run of section 3 and each `_proofs` module. The longest runs, `review_admin`
and `review_users` (2.5 million distinct states each), `profiles`, `tip_department`, `imports` and
`reports`, take about two minutes each.
