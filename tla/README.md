# Verification of the junior college admission app

TLA+ models of the admission counselling application under `src/app`: a Flask
program over PostgreSQL (READ COMMITTED, SQLAlchemy sessions, `SELECT ... FOR
UPDATE` where the code asks for it), signed-cookie sessions and a directory of
temporary files.  Every request is a transaction of its own and several worker
processes serve requests at once, so most questions are about what two requests
can do to one another between a read, a lock and a commit; the rest are about
the arithmetic and the selection that turn school records into a score.

Run one with `tlc -workers 2 -config Sharing.cfg MCSharedRecords`, and check a
proof with `tlapm MembershipProofs.tla`.

## 1. The system's parts

| Part | Code (`src/app/...`) | State it keeps | What makes it correct | Modules |
|---|---|---|---|---|
| Account directory | `services/membership.py`, `member_routes.py` | role, status, approval of every account | an administrator always remains; nobody unapproved is privileged; a decision is taken on locked, current rows | `Membership`, `AccountTxn` |
| Classroom links | `services/classroom_links.py`, `teacher_routes.py`, `account_routes.py` | roster entries, their codes and links | a link ends with the capability of its teacher; a code is used once and only while it is the newest | `Membership`, `AccountTxn` |
| Sessions | `auth.py` | the cookie (user, `auth_version`), the Google intent | a cookie is good for exactly one version of the account | `AccountSecurity` |
| Account security | `services/account_security.py`, `auth_routes.py` | one-time tokens, passwords, Google identity | a token works once, on the account it was issued for, unchanged since; an approved account can sign in | `AccountSecurity` |
| Rule lifecycle | `services/rule_admin.py`, `published_rules.py`, `score_rule_csv_drafts.py`, `admin_routes.py` | rule versions, evidence, audit chain | one published rule per track, with complete and fresh evidence | `RuleLifecycle` |
| Source rules | `services/verified_source_rules.py` | confirmations bound to a digest | a confirmation never covers another text | `Consultation` |
| Rule payloads | `services/score_rule_schema.py`, `z_score_previews.py` | none | what is accepted can be computed; a table gives one answer | `ScoreRuleSchema` |
| Calculation | `services/score_inputs.py`, `score_selection.py`, `score_components.py`, `score_conversion.py`, `score_calculation.py` | none | the best semesters are taken, unverified courses never count, a grade is a grade | `ScoreSelection`, `ScoreConversion`, `ScoreCalculation`, `Decimals` |
| Eligibility, policies | `services/eligibility.py`, `application_policies.py` | none | more knowledge never contradicts a decision; limits hold | `Eligibility` |
| Consultations | `services/consultations.py` | none of its own | every track of a batch uses the same records; a built-in rule never replaces a published one | `Consultation`, `Evaluation` |
| Result imports | `services/admission_result_*.py`, `admission_results.py`, `admission_result_import_routes.py` | datasets, rows, publication state | one result per program and year on show; one published dataset per source | `ResultImports` |
| One-time calculations | `services/anonymous_calculations.py`, `temporary_uploads.py`, `review_state.py`, `routes.py` | files with a 30 minute life, saved results | what is said to be erased is erased, and stays so; a calculation is kept once | `Workspace`, `OneTimeCalculation` |
| Saved records | `services/student_record_access.py`, `account_consultations.py`, `anonymous_calculations.py`, `account_routes.py`, `teacher_routes.py` | academic records, consultations, notes | read only while linked, changed only by the owner, never mixed between students | `SharedRecords` |
| Source documents | `services/source_documents.py` | documents and validation decisions | a decision is resolved once | not modelled |
| AI drafts | `services/ai_*.py` | encrypted keys, drafts | a draft is confirmed or rejected once | not modelled |
| Readers | `structured_imports.py`, `*_pdf_imports.py`, `image_imports.py` | none | string work | not modelled |
| Demo and seed | `demo_*.py`, `phase14_*.py` | sample accounts and data | demo accounts never act on real ones | only the demo account of the directory |

Components call one another directly inside one request and share nothing but
the database, the cookie and the temporary files.  The account directory is the
centre: changing an account revokes classroom links in the same transaction,
kills tokens and cookies through `auth_version`, and decides what every view
decorator lets through.  Links in turn decide which records and consultations
are shared.  A published rule and the published results are what a consultation
computes with, from records that a one-time calculation may have saved.  The
hard behaviours are the ones the decorator pattern invites: `session_user()`
reads the account without a lock, the service then locks some rows, or none,
and what was read before may be old.

## 2. Plan, and where it stands

1. **Core** (done): `Membership`, what directory and links promise, one
   transaction per step; `AccountTxn`, the same handlers lock by lock, shown to
   implement it; `MembershipProofs`, `AccountTxnProofs`.
2. **Account security** (done): `AccountSecurity`, `AccountSecurityProofs`.
3. **Rule lifecycle** (done for the five stages of score rules):
   `RuleLifecycle`, `RuleLifecycleProofs`.
4. **Result imports** (done): `ResultImports`, `ResultImportsProofs`.
5. **One-time calculations** (done): `Workspace`, file call by file call, shown to
   implement `OneTimeCalculation`; `WorkspaceProofs`.
6. **Saved records and sharing** (done): `SharedRecords`, which composes the
   directory and the links of `Membership` with what they share;
   `SharedRecordsProofs`.
7. **Pure algorithms and consultations** (done): rule payloads, selection,
   conversion, calculation, eligibility, policies as operators; `Evaluation` runs
   them task by task against reference definitions, and `Consultation` composes
   them with the rules and records that change under a batch;
   `ConsultationProofs`.
8. **Next**: AI drafts and source documents (small state machines); type
   correctness and answers of `Evaluation` as theorems.

The number of runs is kept at a dozen, so that all of them are run on every
change.  Type invariants are proved where there are proofs (section 6) and are
not among the properties of the runs; `TypeOK`, `TxnTypeOK` and `SharedTypeOK`
can be added to any `.cfg` of their module.

## 3. The modules

### `Membership`

State: `role`, `status`, `verified` per account; `link`, `code`, `serial` per
roster entry.  `verified` stands for `login_name IS NOT NULL OR
email_verified_at IS NOT NULL`, the condition of `approve_pending_member`.
`code` is "live" or "expired" while `link_code_digest` is set; `serial` counts
the codes an entry has had, so that a stale code can be told from the current
one.  An account is "ABSENT" before its row exists; an entry exists once
`serial > 0`.

| Action | Code |
|---|---|
| `Register`, `VerifyEmail` | `register_local_member`, `register_google_member`, `verify_email_token` |
| `BootstrapDemo`, `RevokeDemo` | the demo bootstrap and `_suspend_demo_account` |
| `Approve`, `ChangeRole`, `ChangeStatus` | `approve_pending_member`, `change_member_role`, `change_member_status`, with `_revoke_classroom_links` inside |
| `IssueCode`, `Redeem`, `Disconnect` | `add_classroom_student` and `rotate_connection_code`, `connect_student_account`, `disconnect_student_account` |
| `ExpireCode` | the clock passing `link_code_expires_at` |

Left out: audit rows (written in the same transaction, never read back by these
handlers), `auth_version` and the sessions it guards (account security),
display data.  An account that may redeem or issue is only required to have been
approved at some time, because that is all the code checks under its locks.

### `AccountTxn`

A request starts with the decorator's unlocked read (`MayStart`), then runs its
statements.  A statement states the rows it needs (`todo`), takes them one at a
time in its `ORDER BY` order (`TakeLock`), and the handler decides on what it
then holds (`Decide`, `CheckRow`).  `Refuse` is every rollback: a
`MembershipError`, a `ClassroomLinkError`, an `IntegrityError`, a detected
deadlock, a lost worker.  Membership handlers re-read accounts under the lock
(`populate_existing`), which is what `Reread` records; an administrator who was
demoted while its lock was awaited is locked but not returned (READ COMMITTED
re-evaluates the WHERE clause).  Foreign keys of the audit row lock the actor's
account FOR KEY SHARE; the model keeps it because it closes wait cycles.  The
lock on the `TeacherClassroom` row of the joins is left out: the row is never
updated, so the lock can only add waiting.

`AccountTxn` refines `Membership` with the identity mapping: the property `Spec`
of the run `directory`, `PromisedSteps` for the classroom handlers.

A step of `Membership` says that *some* administrator decided, so the refinement
does not show who did; `DecidedByAdministrator` does.

### `AccountSecurity`

State: the credential columns of every account with its Google identity
(`account`), the tokens in the order they were issued (`token`), the signed
session of each browser (`cookie`), the Google intent in it (`intent`) and the
request each browser has under way (`req`).  `basis` in a token or a cookie is
the account as it was when the token or cookie was made; the code stores and
compares only `basis.ver`, and the theorem of section 6 says why that is enough.

A request is three steps, because the code commits between them:

| Step | Code |
|---|---|
| `Ask...`, `Login`, `CallbackLink`, `CallbackLogin` | what the route checks on the row `session_user()` or a plain query read, without a lock |
| `Commit...` | the service: it locks and re-reads the account (`_locked_user`), checks again what it checks again, writes, commits; `Refuse` is every rollback |
| `OpenSession` | `start_user_session(user)` after the commit: SQLAlchemy expires the row at the commit, so `auth_version` is read again here |

| Action | Code |
|---|---|
| `RegisterLocal` | `register`: account and first token in one transaction |
| `Login` | `login_view`, `authenticate_local_member` |
| `AskPassword`, `CommitPassword` | `change_security_password`, `change_password` |
| `AskEmail`, `AskResend`, `CommitIssue` | `change_security_email`, `resend_email_verification`, `issue_email_verification_token` |
| `AskForgot`, `CommitForgot` | `forgot_password`, `issue_password_reset_token` |
| `AskToken`, `CommitVerify`, `CommitReset` | `verify_email`, `verify_email_token`; `reset_password`, `reset_password_with_token` |
| `BeginGoogle`, `ExpireIntent`, `CallbackLink`, `CommitConnect` | `connect_google` or `google_start`, the intent's life, `google_callback`, `connect_google_identity` |
| `CallbackLogin` | `google_callback`, `register_google_member` |
| `AskDisconnect`, `CommitDisconnect` | `disconnect_google`, `disconnect_google_identity` |
| `AdminChanges` | what `approve`, `change_role` and `change_status` do to `auth_version` and `status` |
| `Restart` | `bootstrap_admin` with another password in the environment |
| `DropCookie`, `Logout`, `Lose`, `Expire` | `session_user()` on an old cookie, `logout`, a lost worker or answer, the clock |

A browser has one request at a time; several browsers stand for several tabs.
The UNIQUE constraints on the address and on the Google subject appear as
refusals: the transaction that would break them rolls back.  Demo accounts,
which every operation refuses, and the wording of answers are left out; so are
the row locks on `external_identities`, which are taken after the account lock
and can only add waiting.

### `RuleLifecycle`

State: `rule`, the rows of `score_rules`; `creator` and `audit`, the audit
events that a check reads (the creating event and, per stage, the newest one);
`review`, the approved `RuleReview` of each reviewer; `artifact`, the golden test
runs; `source`, the documents, pages and catalogue rows a rule cites, as they are
now; `req`, the requests under way, with the row each one read.

No stage locks a row.  A request is three steps: `Begin...` reads the rule with
`session.get` and asks for the status it needs, `Check...` asks for the evidence
(each query sees what has been committed by then), `Commit...` writes.  The
checks of one stage are one step, because nothing that they compare is compared
again inside the stage.  `Updated` is SQLAlchemy's UPDATE: only the columns that
differ from the row *as it was read*, so that a stale commit keeps columns that
others wrote and overwrites the ones it set.  `Allowed` is the partial unique
index with the CHECK of published rows; a commit that breaks them rolls back.

A digest is modelled by what it digests: two digests are equal when the text
(payload, track and citation) and the state of the source are.

| Action | Code |
|---|---|
| `Create` | `persist_score_rule_drafts` |
| `BeginClone`, `CommitClone` | `clone_rule`, `clone_published_rule_as_draft` |
| `BeginUpdate`, `CommitUpdate` | `edit_score_rule`, `update_score_rule_draft` |
| `BeginExtract`, `CommitExtract` | `extract_rule`, `mark_rule_extracted` |
| `BeginVerify`, `CheckVerify`, `CommitVerify` | `verify_rule`, `verify_extracted_rule` |
| `BeginGolden`, `CheckGolden`, `CommitGolden` | `record_golden_test_artifact`, called offline |
| `BeginTest`, `CheckTest`, `CommitTest` | `test_rule`, `mark_rule_tested` |
| `BeginApprove`, `CheckApprove`, `CommitApprove` | `approve_rule`, `human_approve_tested_rule` |
| `BeginPublish`, `CheckPublish`, `CommitPublish` | `publish_rule`, `publish_human_approved_rule` |
| `Abort` | a refused or lost request |
| `Sign`, `Withdraw`, `ChangeSource` | the world outside: no code of the program writes an approved review |
| `Loads` | `validate_rule_execution_contract` and `_exactly_one` of the loader |

A time is its rank among the times on record, which is all the comparisons
(`<=`, `=`) can see.  Left out: the four other rule types, which run through the
same functions; events that no check reads; the text formats; the
detail of `validate_rule_publication_source`, which is the constant `Usable`, the
pairs of text and source that pass it.

`PublicationServes` and `ReplacedAtOnce` are about commits, `LoadedTextStable` and
`ReviewerIndependent` about what the loader hands out after any history of stale
commits: the stages protect neither the status nor the text of a row, so the
digests must.  `PublicationServes` relates the two: the publication and the loader
ask for evidence with checks of their own, and what the first lets through (while
the row, its source and its evidence are still what it read, `Undisturbed`) the
second runs, unless the commit was refused; and a commit is refused only when
another rule of the track was published after the request looked, and then keeps
neither the superseded predecessor nor an event.

### `ResultImports`

State: the `dataset` of each uploaded file, the `row` of each line, the `raw`
batches of collected pages, and `req`, the requests under way with the dataset
each one read.  `overtaken` is history: the sources of which a request has
written over a commit it had not read.  A file's dataset appears with all its
rows.  The catalogue (`Programs`, `Tracks`) is constant; an institution is left
out and a region is part of the campus, so that a name with its day or night
half decides a program as in `DatabaseCatalogResolver.resolve`.

| Action | Code |
|---|---|
| `Collect`, `FetchPage`, `FetchFails`, `StoreRaw` | `crawl_admission_results`: pages with `max_retries`, then the raw batch |
| `ConfirmMapping`, `PersistPreview` | the upload and mapping pages; `parse_admission_result_upload`, `persist_admission_result_preview` |
| `OpenRetarget`, `LoadRows`, `Retarget` | `retarget_admission_result_dataset`: dataset, rows, UPDATEs and commit |
| `OpenPublish`, `FindPrevious`, `Publish` | `publish_admission_result_dataset`: dataset, the published one of the source, UPDATEs and commit |
| `Parsed`, `Remapped`, `Marked`, `Counted` | `_canonical_row`, `_status_for_issue_payloads`, the duplicate keys and the counts of a dataset |
| `Listed` | `list_published_imported_results_for_program` |

`Flushed` is SQLAlchemy's UPDATE, the columns changed since the row was read;
`Accepted` is the partial unique index of published rows with the CHECKs, and a
commit that breaks them is `RollBack`.  UPDATEs and commit are one step: a
unique index makes the second of two writers wait for the first and then fail,
which is what the order of the steps already says.  A refused request changes
nothing and is a stutter.  Left out: temporary files of an upload (the files of
`Workspace` live the same way), sheets and headers, re-collecting a page that is
already stored, the statistics.

### `Workspace` and `OneTimeCalculation`

State: `disk`, the directory of each calculation with its five kinds of files,
their contents and ages; the browser's `cookie`; the requests; and `saved`, what
accounts keep.  Every file call is a step: a clean-up lists a directory, unlinks
one name after the other and removes it, while another request may create the
`.tmp` file, write to its descriptor and rename it.  An open file keeps its inode
when its name goes (`Moved`), two writers of one inode leave a torn file, and a
request may be lost anywhere (`Crash`).

| Action | Code |
|---|---|
| `BeginSweep`, `Sweep`, `List`, `Unlink`, `RemoveSession` | `purge_expired_sessions`, `purge_session` with its check that the directory is gone |
| `StartCalculation`, `Create` | `start_public_calculation`, `create_session` |
| `Review`, `Discard`, `ViewTargets`, `Results`, `SaveForm`, `Complete` | the routes of the same names in `routes.py` |
| `Load` | `_anonymous_state`, `ReviewStateStore.load`, `AnonymousCalculationStore.load` with the expiry |
| `Attach` | `attach_consultation_snapshot` |
| `OpenTemporary`, `Write`, `Replace`, `CleanUp` | `_write_state`, `AnonymousCalculationStore.save`, `purge_originals` |
| `Save`, `Answer` | `save_anonymous_consultation`, the answer of the route |

`OneTimeCalculation` is the promise: input is on disk from the start of a
calculation until it is erased, and never again; a result is kept once.
`Workspace` implements it (`KeepsPromise`) with `onDisk` the existing
directories and `erased` those that are gone.

### `SharedRecords`

It EXTENDS `Membership` and adds `records`, `consultations`, `written` (for whom
each table of courses was entered; a table is only its number) and the pages and
requests of people.  `DirectoryStep` takes the actions of `Membership` that can
matter to sharing: `ChangeRole`, `ChangeStatus`, `Redeem`, `Disconnect`.

A request goes by the role that its decorator read, then its transaction reads
again, locks what it changes, and is one step (`Handle` and the others).  Each
of `Requests` may be overtaken between the two; any number of other requests is
served at once (`ServeAtOnce`).  An edit page keeps the courses it showed until
it is submitted, a consultation those it was computed from until it is stored.

| Definition | Code |
|---|---|
| `LinkedStudents`, `LinkedEntries`, `LinkedTeachers` | the queries of `classroom_links.py` |
| `CanChange`, `CanReadRecord`, `CanReadConsultation` | `can_access_academic_record`, `can_read_academic_record`, `can_read_saved_consultation` |
| `VisibleRecords`, `VisibleConsultations`, `EntryPage`, `OwnEntries` | `visible_academic_records`, `visible_saved_consultations`, `classroom_student_records`, `list_classroom_students` |
| `Printouts`, `NoteShown`, `ClonePage` | `print_saved_consultation`, the note in `account_records.html`, `clone_consultation` |
| `SaveCalculation`, `AddCourse`, `EditRecord` | `save_anonymous_records`, `add_classroom_course`, `update_academic_record_courses` |
| `DeleteRecord`, `DeleteConsultation`, `EditNote` | the three services of `student_record_access.py` |
| `Evaluate`, `Store` | `save_consultation_result`, `save_account_consultation` |

Terms are "ordinary" or the first semester of grade 3, the only one that may be
spent in training.  Consultations are a set: nothing relates two of them, and two
that agree in every field behave alike.

### Rule payloads, calculation, eligibility

These are operators.  `Decimals` is fixed-point arithmetic: the integer `Unit`
stands for 1, a product is kept exactly at `Unit * Unit`, and only a division
rounds, half to even like the 28 digit context of the code, or as the rule says
(`Quantize`).  A small `Unit` makes the errors of a division large; the
properties say what slack they need, and do not depend on the size of `Unit`.

| Module | Code |
|---|---|
| `ScoreRuleSchema` | `validate_score_rule_payload` (`ValidPayload`), `parse_score_rule_csv` (`ParsedRows`), the Z table file (`ParsedTable`) |
| `ScoreSelection` | `_select` of `score_inputs.py` (`SelectInputs`), `select_terms_and_subjects` (`SelectTerms`) with scope, best subjects and semesters, credits |
| `ScoreConversion` | Z scores (`ConvertZ`), achievement levels, attendance; `None` where the code raises |
| `ScoreCalculation` | `_weighted_components` in its four modes, `_require_rank_grade`, the transformation and the rounding stages |
| `Eligibility` | `_evaluate_condition` (three-valued), `evaluate_eligibility` (`Decide`), disqualification, `evaluate_multiple_application` (`Apply`) |

A condition is the sequence of the nodes of its tree, each after its parts
(`ValidCondition` is what `_parse_condition` accepts), so that the outcomes of its
nodes are one recursive function.  `ParsedTable` gives the numbers of the rows it
keeps, since a file may hold the same row twice.

Tables, courses and records are sets where the order cannot matter, and carry
the sort key where it does.  Traces, messages and cell formats are left out.
`calculate_selected_score`, achievement and attendance conversion, the Z table
parser, the multiple-application and the disqualification policy are called by
the repository's tests only; they are modelled as those tests use them.  No
property depends on the rows kept of a rule file (`ParseDrafts`), nor on the
achievement and attendance conversions.

`Evaluation` picks a task and runs its entry point once, except for a history of
applications, which grows while choices are allowed.

### `Consultation`

It EXTENDS `Evaluation` with a batch over tracks (`run_batch_consultation`): one
query per rule, the records loaded at the first track that is scored and kept
for the batch, the fallback to a built-in rule when a published one is missing
or unusable, one savepoint per track.  Meanwhile rules are published and
withdrawn (`Publish`), records edited, built-in rules confirmed (`Confirm`, which
stores a digest of the text) and redeployed (`Deploy`, which ends the batch).

## 4. Runs

| Run | Question | Instance and why it is enough |
|---|---|---|
| `directory` | do locks and re-reads make concurrent administrator requests equivalent to atomic ones? | 2 requests, 3 accounts of which one demo, roles ADMIN and STUDENT: mutual demotion, promotion during a wait, a crash anywhere |
| `classroom` | do links end with the teacher, are only current codes redeemed, can one student take two entries? | 2 requests against 2 entries of a classroom with 2 codes each, in a school already in operation |
| `progress` | does every request end? | the school with one entry, fair |
| `accounts` | is `auth_version` enough, are tokens used once and in time, can one always sign in, is a verified address proven? | the bootstrap administrator, who has asked for a mail and used it or, after a restart, has it still on its way (version 2 in both cases: `InitAsked`), and one person, 2 browsers, 2 passwords, 2 real addresses, a Google account, one more token, versions up to 3: mails to both addresses are open at once and used in any order, a token expires or is overtaken by a password change, an administrator or a restart |
| `publication` | is a rule that was published one that is run, and does a refused publication leave a trace, or no rule? | 3 rules of one track, approved, one of them about to be approved twice, published or missing, 2 requests: both read the same predecessor, or each names the other, a clone takes the free place, or an approval commits between the reading and the checks of a publication |
| `rule_race` | can a stale edit reach what is loaded, is what is loaded independently reviewed? | one rule from draft to publication, 2 texts and 2 states of its source, 2 administrators of whom one is also the reviewer, 2 requests at once |
| `workspace` | is what is said to be erased erased, and does a late writer bring it back? | one calculation, 2 inputs, 2 requests (each may sweep), a life of one tick: two forms at once with other courses, a form against an expiry, a crash anywhere |
| `cleanup` | is everything a person typed in erased in the end? | one calculation, one request and the clean-up loop, a life of 2 ticks, fair |
| `results` | can a program have two results on show, a source two published datasets, and is a retargeted dataset what an upload would have been? | 3 files of one source, one collected, 2 consultation years with other programs, 2 requests; one file with a duplicate, a line out of range and one that cannot be read |
| `sharing` | do checks, lists and references agree on whose a record is and who reads it, whatever changes meanwhile? | an administrator, a teacher and a student who may swap roles, one roster entry, 2 records, 2 course tables, one consultation at a time, one page of the teacher or the student that may be overtaken (`Overtaken`) and any requests beside it |
| `evaluation` | are the rules the schema accepts computed as they should be, and does a batch use one state of the records and the right rules? | 16 rules, every history of up to 2 courses in 4 terms, vocational, unverified and manual records beside them; conditions to depth 2 over 2 facts; tables of 2 rows in one table or two, and of 3 rows; 3 applications; 2 tracks, one with a built-in rule |
| `equal_weights` | "EQUAL weights the selected semesters alike" | the same instance, expected to fail |

The bounds are `MaxSerial` (codes per entry), `MaxTokens` (tokens ever issued),
`MaxVersion` (changes of one account), `MaxTime` (times told apart; a rule needs
7 from its review to its publication), `TTL` (ticks in the life of a
calculation), `Pages` and `MaxRetries` (of a collection), `MaxRecords`,
`MaxConsultations` and `MaxWrites` (records ever, consultations at once, course
tables ever), `MaxApplications`, and the sets of accounts, entries, requests,
browsers, passwords, addresses and files; everything else is finite in the code.

The classroom and sharing runs start in an `InitSchool`, a state that
`Membership` reaches, because reaching it through registrations would multiply
the state space and add no new interleaving.  The runs with `Seeds` start from
rules that separate requests have already taken to a stage each (`SeedInit`
writes out the rows, events and evidence that such a history leaves).  Two
requests suffice for every race between a check and a commit; in `sharing` one
suffices, because a request is overtaken by anything between its two halves and
the steps that overtake it are whole requests.  The two halves of two requests
are independent but for the records, and a third party who edits between them
is there.  The index and the CHECK make the tracks of rules independent, so one
track is enough.  Texts, sources and passwords are only compared for equality.
Request symmetry is used only in runs without liveness.  The proofs need no
bound.

Deadlock checking is off: a directory in which every account is absent or
suspended may legitimately have no next step within the bounds, an evaluation
ends, and waiting cycles are the subject of `RequestsEnd` instead.

**Fairness.**  `progress`: every step of a request is weakly fair, since a worker
runs its request to the end and PostgreSQL's deadlock detector always fires;
taking a lock is strongly fair, since PostgreSQL queues the waiters of a row.
`cleanup`: a worker goes on with what it has begun, or is lost; the clean-up loop
of the start script begins again every five minutes; time passes.  Nothing is
assumed about new requests or crashes.

## 5. Where code and documentation disagree

`equal_weights` (a run, and a finding): `_weighted_components` multiplies the
values of EQUAL semesters by `Decimal(1) / count`.  For three semesters of grade
1 the products add up to 0.99...9, `_require_rank_grade` asks for 1 to 9 without a
tolerance, and the student gets no grade; six semesters of grade 9 fail at the
other end.

Other statements of the documentation are written down as properties of the
modules, and no run checks them because they fail; adding one to the `.cfg`
named shows the history.

| Statement | Where it is said | What the code does | Property, `.cfg` |
|---|---|---|---|
| a password change ends all sessions | `tasks/PHASE_19_ACCOUNT_SECURITY.md:8` | `login_view` checks the password on an unlocked row, commits, and stores the `auth_version` it reads after the commit (`auth_routes.py:190`): a login that raced the change gets a session of the new version | invariant `SessionsHoldCurrentPassword`, `Accounts.cfg` |
| suspension discards shares and unused codes | `docs/PHASE_16_ACCOUNT_COLLABORATION.md:22`, `README.md:90` | the classroom handlers check their actor on the unlocked row of `session_user()`; a suspension that commits before they do finds nothing to revoke yet | invariant `LinkedIsActiveStudent`, `Classroom.cfg` |
| DRAFT → ... → SUPERSEDED | `docs/RULE_SCHEMA.md:5` | a second approval that read the rule as TESTED sets a published rule back to HUMAN_APPROVED | property `LifecycleForward`, `Publication.cfg` with `Rules = {"r1", "r2"}`, `Artifacts = {"r1", "r2"}`, `Seeds <- TestedSeeds` |
| the reviewer is not the author | the check in `rule_admin.py:792` | the reviewer is compared with the first event of the rule, not with who rewrote the draft since | invariant `AuthorNotReviewer`, `RuleRace.cfg` |
| when a link ends, sharing stops at once; consultations of the other cannot be cloned into a form | `account_records.html:39`, `docs/PHASE_16_ACCOUNT_COLLABORATION.md:21` | the rows of a teacher's own consultation about a student are found by reference only (`saved_consultation_input_rows`), link or no link | invariant `CloneReadable`, `Sharing.cfg` |
| the official Z table stands in for a missing rank grade | `z_score_previews.py:50`, `tests/test_z_score_previews.py:87` | the preview says so; the calculation of a semester that holds such a course still asks for rank grades throughout and refuses (`score_calculation.py:265-286`) | invariant `OfficialTableApplies`, `Evaluation.cfg` |

Three more are visible in the definitions: a retarget checks the lifecycle before
its UPDATE, so that a dataset published in between goes back to READY with its
rows still on show (`admission_result_imports.py:188`; `OnePublishedDataset` is
therefore about sources that were not overtaken); the results of a one-time
calculation are attached to the courses found when the file is loaded again
(`Attach`), so that an account may keep courses that were entered meanwhile with
the result of the earlier ones, which `OneTimeCalculation` allows; and a conflict
of published rules, which `docs/RULE_SCHEMA.md:68` calls an explicit failure,
falls back to the built-in rule in a batch, like a missing rule.

## 6. Proofs

Nothing is assumed but the named assumptions on the constants, which TLC
evaluates on every instance:

| Assumption | Why the code justifies it |
|---|---|
| `UsersAssumption`, `RowsAssumption`, `RootAssumption`, `RolesAssumption`, `MaxSerialAssumption` (`Membership`) | keys are numbers; a classroom, so every entry of it, has one teacher, who is no demo account; the bootstrap administrator exists |
| `RootAssumption`, `GoogleAssumption` (`AccountSecurity`) | its address is not deliverable, so no Google account has it |
| `UsableAssumption` (`RuleLifecycle`) | what is fit to publish could be extracted |
| `ImportAssumption`, `CatalogAssumption` (`ResultImports`) | a line belongs to one file, files and catalogue are finite; the catalogue requires names, and a line without one has an issue |
| `TracksAssumption` (`Consultation`) | a track has one rule or none of each kind; a built-in rule has a text |
| `TasksAssumption` (`Evaluation`) | inputs have the fields and the types that the entry points check or declare: a history is finite, its records and courses have ids of their own, a semester is 1 or 2 of a grade the schema allows (`models.py:1035`), a rounding keeps digits that `Unit` has, the display digits that a grade has |
| `NoneAssumption`, `IntentAssumption`, `TxnAssumption`, `FileAssumption`, `BlankAssumption` | a value that stands for "nothing" is none of the values |
| `BoundsAssumption`, `TimeAssumption`, `SessionAssumption`, `SharedAssumption` | bounds are numbers, of any size |

`MembershipProofs` proves, for any accounts, roster entries and roles:

* `TypeCorrect`: `Spec => []TypeOK`;
* `AdministratorRemains`: `Spec => []AdminRemains`, which is inductive with the
  type invariant alone: demotion and suspension need another active
  administrator, and nothing else takes the role or the status away;
* `ApprovalSound`, `ActiveVerified`: the two approval invariants are inductive
  together (an account becomes active only out of "PENDING_APPROVAL" with a
  proof, and keeps its proof);
* `LinksSound`, `LinkedOnce`: link invariants, inductive together with `TypeOK`;
  the case that matters is `RevokeLinks`, which must cover the teacher's entries
  and the student's.

`AccountTxnProofs` proves that the handlers implement all that, for any accounts,
entries and number of concurrent requests: `ImplementsMembership` (`SpecTxn =>
Spec`) and `StepsPromised`; hence `HandlersSafe`, the five invariants above of the
handlers as they run.  `TxnInv` (`LocksSound`) says, statement by statement, which
rows a request has locked and that what it has read under a lock is still so.
It is inductive because two requests never hold conflicting locks and a commit
changes locked rows only: whatever a request relies on, the commit of another
one leaves alone.  Each commit is then, from the rows under its locks, a step
of `Membership`; every other step is a stutter.  The same invariant gives
`DecidedUnderLock`, `NewestCodeRedeemed` and the types (`TxnTypes`).

`AccountSecurityProofs` proves, for any accounts, browsers, passwords, addresses
and Google accounts, and any bounds:

* `CredentialTypes`, `VersionSound`, `TokensSound`: the inductive invariant
  `IInv` adds to the types that every token and cookie names an existing account
  and was based on an earlier or the present state of it (`Kept`: a version
  below the present one, or the very same account), and what a request's
  unlocked check leaves true until its commit (`RequestSound`).  The argument is
  in two halves: `FollowingPreserves` shows that `IInv` survives any step in
  which accounts only change upwards, tokens keep their basis and new tokens and
  cookies are based on the account as it becomes (`Follows`); one lemma per
  group of actions then shows that every action follows.  `Kept` is needed
  because `VersionIdentifiesAccount` alone says nothing of old versions, which a
  counter that went down would bring back;
* `SignInRemains`: `AllCanSignIn` adds that every account has a password or
  Google from the day it exists, which is what approval relies on when it only
  asks for a proven address;
* `AddressesProven`: `Standing` adds to `IInv` that a verified address rests on a
  consumed token that was mailed to it, or on the Google account of an account
  without password; that only an account with a password is sent a reset and
  that Google is connected to a verified address only; and what each request
  under way is for.  Nothing takes a verification or a password away.

`RuleLifecycleProofs` proves, for any rules, tracks, requests, people, texts and
sources, and any bound on times: `RuleTypes`, `PublicationTakesEffect`,
`LoadedRulesReviewed`, `PublicationReplaces`, `LoadedTextKept`.  The inductive
invariant `IInv` adds to the types and to `Allowed`, what the database accepts of
the rows, what a request carries
from its reading and its checks to its commit (`RequestSound`: the rule it names
still exists, the row it read had the status it needed, its predecessor is
another rule, a checked test names a reviewer who is neither its actor nor the
creator of the rule) and that recorded TESTED events are independent in the same
sense.  `Follows` summarises a step by variable; besides preserving `IInv` it
says the two things the action properties need: a step that changes a text
changes no evidence, and a step that supersedes a rule leaves one published.
`LoadedRulesReviewed` then combines two comparisons made at different stages:
the test event's own (reviewer against creator and tester) and the loader's
re-check of the verification (reviewer against verifier), with the equality of
the two reviewers in between.

`PublicationTakesEffect` needs a second invariant, `TimesInv`: the loader reads
the latest event of a stage, and the event a publication logs is the latest only
when no other publication of the rule has logged one since.  Such a request would
carry a row whose approval is older than that event; `ApprovedAnew` says that then
the rule is no longer in that state, because whoever approved it again did so at
a time of its own.  `NowIsLater` (a request's time is later than all on record,
from the least number principle, `LeastNumber`), `Unused` (the time of an approval
under way stands in no row) and `OnRecord` (an approval in a row is in the log, or
a later one is) carry it through every step; three kinds of step (`Quiet`,
`Beginning`, `Approval`) are all there is to consider.  The theorem then follows
the checks of the loader one by one through the commit.

`ResultImportsProofs` proves `OneResult`, for any files, catalogue, years and
number of requests.  `OneResultShown` is not inductive: it counts what is on
show.  What carries it is `PublishedOnce`, the content of the index over
published rows, with `InsertKnown` (a request that is about to insert names
a file and a year of the instance).  The three commits then only have to be seen to
pass `Accepted` or to publish nothing, and `PublishedOnce` bounds `Listed`.

`OneDataset` and `StagedAsUploaded` are about sources that were not overtaken
(their requests read what they wrote over), and rest on `ImportInv` of every
variable: a request that goes on names a dataset that exists and was unpublished
when it read it (`Remembers`), and a commit over what it has not read marks the
source.  The hard part is retargeting, which
reads no file: a row keeps the campus and the day of its line, or of a program
it was matched with once (`ReadFrom`), and resolving again from either finds the same program
(`ResolveAgain`), also when the line matched nothing in the year before.  A
row's issues but for the mapping ones are those of its line, so verdicts and
numbers follow.  `ImportTypes` is the type invariant.

`WorkspaceProofs` proves `ErasedWhenAnswered`, for any number of calculations,
requests and clean-up loops and any life of a calculation.  A request that is
about to answer knows its directory to be gone (`Knows`, an invariant of every
request by its step), and a directory that is gone, or was ever opened, stays
so (`Lasting`), whatever the other workers do: files are only created inside a
directory that exists, and only `Create` makes one, with an id never used.  The
lemmas `KnowsLasts` and `Turn` split every step into what the worker learns and
what the others keep.

`WorkspaceTypes` and `PromiseKept` (`Spec => KeepsPromise`, the refinement of
`OneTimeCalculation`) need what is inside the directories: a file that a request
has open is where its descriptor says, because whoever renames or removes it
moves the descriptors of all others (`Moved`), and what a request has loaded or
computed is whole (`FilesInv`).  A step then maps to `Start`, `Erase` or `Keep` of
the promise, or to a stutter.

`SharedRecordsProofs` proves the six properties of the run `sharing`, for any
accounts, classrooms, records and requests: `OneOwner`, `ListsAgree`,
`TrainingAgrees`, `OwnCourses`, `NotesStayPrivate`, `EditsAsShown`, and the type
invariant `RecordTypes`.  `IInv` describes each record and each consultation by
the request that made it, and each page and each computed consultation by what
it read; records are only added, edited by their owner or manager, or deleted,
and course tables only added (`Grown`), so that what a page holds stays true of
the record of that number or of nothing.  Nothing in it says in what state the
directory is: an owner, a manager and a reference are written together, by the
role of one request, which is why no change of roles or links can part them.

`ConsultationProofs` proves, for any tracks, rules and records:

* `OneHistory`, `FallbackOnlyWhenLacking`, `ConfirmedText`, of batches.  The
  inductive `BatchInv` says what has been read at each step of a track; it treats
  the calculation as a black box, so the results hold whatever a rule computes;
* `ApplicationsLimited`, for any policy and any order of choices: an allowed
  choice makes the counts of its own institution and campus grow by one, which
  the policy has checked, and leaves the others;
* `UnverifiedIgnored`: the inputs that `SelectInputs` makes of a history without
  its unverified and excluded parts are the same, so all that follows is;
* `DecisionsStand`, for rules of any number of cases over conditions of any
  size.  A node whose outcome is decided keeps it when facts are added
  (`FirmerNode`).  The induction over the nodes is by least number
  (`LeastNumber`): a first node that broke the rule would have parts before it that do not;
* `TablesUnambiguous`, for Z tables of any length: rows are compared with the
  row before them only, and the first row (`FirstOf`, of a finite strict order)
  that were not apart from some earlier one would have a row in between that is;
* `SelectionBest`, for any history: the order by value, grade, semester and source
  is total on records with ids of their own, so that `Best` takes exactly `n`
  of them (`BestCount`), and whatever it left out comes after whatever it took.
  Exchanging one element at a time (`Exchange`, `BestTotal`) then gives that no
  selection of that size has a better total;
* `GradesWithin`: credits and weights are averages of averages.  A weighted sum
  lies between two of its values times the sum of the weights
  (`WeightedBetween`), a rounding moves it by less than its last digit
  (`QuantizeBetween`), and the groups of `GRADE_WITHIN_SEMESTER` can be summed one
  by one (`SumOfGroups`).  With EQUAL shares the weights add up to 1 only up to what the
  quotients drop (`NearlyOne`), which the slack of the property allows for;
* `CoveredComputes`, for any history: a rule that leaves nothing to a reviewer
  (`Settled`) reads, values and selects all records that can be counted
  (`AllRead`, `AllSelected`); averages of ranks are ranks, since a rounding to
  digits that 1 has never passes 1 or 9 (`AverageOfRanks`); weights that the
  records cover fit, within each grade too (`CoveredWeights`, `CoveredTerms`), so
  that the contributions add up to a grade (`RankedAggregate`).

`Settled` says what the proof found missing in an earlier form of `Computable`:
also a subject scope that leaves a term without courses, an undecided inclusion
flag, a rank outside 1 to 9 (which the forms refuse, the table does not) and a
display rounding left to a reviewer make the calculation refuse.

Sums over sets (`SumFunction`) are folds, which have no induction theorem here.
`SetInduction` is proved from a least cardinality, for a set of subsets instead
of a predicate; `FoldExists` (the recursive function that a fold is exists) and
`SumRemove` turn that into "the sum is one element and the sum of the rest".

Model-checked only:

* liveness, `ErasedInTheEnd` and `RequestsEnd`: the prover does not reach fairness;
* what fails: `EqualComputable` and the statements of section 5.

## 7. Not modelled

* **AI credentials and drafts** (`services/ai_*.py`).  Planned.  A generation
  reads its draft without a lock; the CHECK `confirmed_draft_complete` stops a
  rejection after a confirmation.  HTTP and payload validation stay out.
* **Source documents**: decisions are resolved once.  Planned.
* **Institutional outcomes**: single-row transactions of one teacher.
* **Readers and OCR, the page parser, forms, templates, statistics**: string
  handling and listings without state.  `confirmed_imports.py` waits for review
  sessions of a kind no page creates any more.
* **Mail, Google and AI providers**: external; what they prove is in
  `AccountSecurity`.
* **Demo sandbox, demo content, seeds**: fixed data, loaded once.
* **Factory, configuration, schema**: the constraints of `models.py` appear in
  the modules of the components that own the tables.
* Within the modelled parts: the four other rule types (they run through the
  functions of score rules), audit rows no check reads, display names and field
  formats, CSRF tokens, the legacy environment administrator, the row locks on
  `external_identities` (taken after the account lock, they can only add
  waiting), two accounts that verify one address at once (the UNIQUE constraint
  decides, and appears as a refusal).
