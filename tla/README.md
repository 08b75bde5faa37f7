# Offboarding System: a TLA+ verification

The repository is a FastAPI service with two processes for HR and IT of a
company. *Offboarding* revokes what an employee holds in Active Directory,
InTouch (Staffbase), IFS and Snipe-IT and keeps an audit trail, a history and a
notification. *Onboarding* keeps checklists whose items are resolved one by one.
Paths below are relative to `src/app/`.

## 1. The system

| Component | State | Operations | Correct when |
|---|---|---|---|
| Orchestrator `modules/offboarding/service.py`, `router.py`, `repository.py` | per request: services map, `successfully_revoked`; database: record with its systems | `verify_services`, `execute_offboarding`, `create_offboarding_record`, manual check-in, history | what it claims is so; nothing it saw active is dropped; it ends |
| Use cases `modules/offboarding/use_cases/` | per request: `any_success`, outcomes | equipment, InTouch, IFS, Active Directory, (gate) | each call has its row, a SUCCESS row is true |
| Active Directory `integrations/active_directory/` | the directory (external) | search, disable in three writes, manual disable | disabled accounts stay disabled; one employee's account only |
| InTouch `integrations/intouch/` | user status (external) | search, deactivate, activate | a blocking call, so never interleaved in this process |
| IFS `integrations/ifs/` | two installations (external) | token, person, user + ETag, PATCH | both installations disabled |
| Snipe-IT `integrations/snipe_it/` | assets, templates (external) | search, check-in, terms, notes | assets of this employee only |
| Gate `integrations/gate/` | turnstiles (external) | deactivate | never reached from the orchestrator |
| Onboarding `modules/onboarding/` | checklist and item rows | create, complete item, queries | status of the checklist = function of its items |
| Audit `modules/audit/` | audit rows, exported files | append, list, export in background, download | rows are true, never lost |
| Cleanup `modules/audit/cleanup/` | - | delete expired rows, files | deletes what is past its retention, and only that |
| Users `modules/users/` | user rows | create, update, login, roles | unique names, true rows |
| E-mail `modules/shared/email_service.py` | - | send | sent once per revocation |
| Process `main.py`, `core/`, `Dockerfile`, compose file | event loop, sessions | start, crash, restart | one process: the loop serialises what does not await |

**How they interact.** A request of `/offboarding/execute` is a coroutine on the
one event loop (`Dockerfile:19` starts one worker). It reaches LDAP in a worker
thread, Snipe-IT and IFS with `httpx` (awaited, default timeout), InTouch with
`requests` **on the loop thread** (timeout 10 s), the database synchronously on
the loop thread. The e-mail is a background task of the response. The manual
endpoints touch the same accounts; InTouch and Active Directory are called there
on the loop thread too, and a directory that never answers such a call stops the loop
for good. Onboarding endpoints are plain `def` functions: each call
has its own thread and session on SQLite.

**What is hard.** Concurrent executions for one employee (a client that gave up
and retries) and manual endpoints; answers of external systems lost after the
effect; a commit that fails and leaves its session unusable; `current_user`
expired by each commit, whose reload may fail in the middle of a use case; refusals
that pass for success;
crashes with all claims in memory; the one lookup timeout; LDAP without any;
unprotected read-compute-write in onboarding. The list, each with its line and
its properties, is under `hazards` in `PROJECT.json`.

## 2. Modules

| Module | What it is |
|---|---|
| `Revocation` | abstract: what an execution promises HR |
| `Offboarding` | orchestrator + use cases for one employee, the external systems as the code sees them; implements `Revocation` |
| `MCOffboarding` + `Offboarding*.cfg` | instances |
| `OffboardingProofs` | TLAPS: types and the four safety properties |
| `OffboardingRefinement` | TLAPS: the refinement |
| `Onboarding` | creation of one checklist, and completion of its items by concurrent calls |
| `MCOnboarding` + `Onboarding*.cfg` | instances |
| `OnboardingProofs` | TLAPS: types, the five properties, and when the sixth would hold |
| `Equipment` | `checkin_assets` and `SnipeItService` request by request, several employees, manual check-ins, the IT staff |
| `MCEquipment` + `Equipment.cfg` | instance |
| `EquipmentProofs` | TLAPS: types, the four safety properties, and what a sufficient page would give |
| `Audit` | the trail under those who append, walk its pages, export and clean up |
| `MCAudit` + `Audit.cfg` | instance |
| `AuditProofs` | TLAPS: types and the four safety properties |
| `AccountRevocation` | abstract: what a deactivation promises its callers |
| `ActiveDirectory` | `ADService.disable_user`: the search and the three LDAP writes of concurrent calls; implements `AccountRevocation` |
| `IFS` | `IFSService.disable_employee` in one installation against other calls and its administrators; implements `AccountRevocation` |
| `MCIFS` + `IFS.cfg` | instance |
| `IFSProofs` | TLAPS: types, the property, the refinement |
| `MCActiveDirectory` + `ActiveDirectory*.cfg` | instances |
| `ActiveDirectoryProofs` | TLAPS: types, the three properties, the refinement, and when the violated one would hold |
| `Registry` | abstract: what creations and updates promise their callers |
| `Users` | `create_user` and `update_user` with their audit rows; implements `Registry` |
| `MCUsers` + `Users*.cfg` | instances |
| `UsersProofs` | TLAPS: types, the three properties, the refinement, and what the constraints refuse |

### Offboarding: state and actions

`pc[r]` is where request `r` is. `verify` is the `gather`; `Equipamentos`,
`InTouch`, `IFS`, `Network` are the blocks of `execute_offboarding` (named by the
systems), each followed by its `..._reply` point where the outcome is logged and
claimed; `record` and `reply` are the end. `Ended` points are the answer
(`responded`), 504 (`timeout`), 500 (`error`) and the crash (`lost`).

| Code | Model |
|---|---|
| `search_user`, `if not target_user` | `Locate` (continues in both cases, as the code does) |
| the four lookups, their errors, `wait_for` | `Lookup`, `VerifyTimeout`, `VerifyDone` |
| the chain of `if services_map.get(...)` | `FirstBlock`, `AfterEquipment`, `AfterInTouch`, `AfterIfs`, `AfterNetwork` |
| `checkin_assets` | `EquipSearch`, `TemplateFetch`, `CheckinCall`, `CheckinAudit`, `NextAsset` |
| `disable_intouch_access` | `InTouchCall`, `InTouchAudit` |
| `disable_ifs_access` | `IfsDisable` per installation, `IfsAudit` |
| `disable_ad_account` | `AdSearch`, `AdWrite`, `AdAudit` |
| audit commit fails, handler fails on the same session | `Abort` |
| `current_user` cannot be reloaded after a commit | `FAILED` in `Statuses` |
| record, answer, e-mail | `PersistRecord`, `Reply`, `SendEmail` |
| manual endpoints, container restart | `ManualActivateInTouch`, `ManualDisable`, `DirectoryHangs`, `ManualCheckin`, `Crash` |

The event loop is the guard `CanRun(r)`: no other request is at a `Busy` point,
from the block of InTouch to its claim and from the record to the answer. `Busy`
holds the points between which the code has no `await`. Steps of worker threads
(LDAP) and of remote servers (the effects of `httpx` requests) have no such guard.
The manual endpoints that block the loop are one step and need `LoopIdle`; the two that
call the directory there may also never come back (`DirectoryHangs`, at any moment, so
after the effect of a `ManualDisable` too). Then `hung` stops everything but the threads
and remote servers that are at work already, until a restart (`Crash`).

Abstractions, and why the properties do not see them: one employee (requests
for different employees share nothing but the database); the network account is
the one the LDAP filter matches; a 2xx answer of InTouch or IFS means that the external
system did what was asked, while one of Snipe-IT may also be a refusal (`refused`
remembers who got one, `Warranted` is what he may then say); terms, notes and texts are left out; rows carry the system and
the status only; the audit trail is a set per request.

`Revocation` has of an execution how far it is (`phase`), what it saw, claims, has written,
recorded and mailed, and of the world the systems the employee is out of. It says in
which relation these stand, whatever blocks, threads and answers bring them about: a
system is reported once, while the request is revoking, only if it was seen, and as a
success only while the employee is out of it; the claim goes with the row, or, for
Active Directory, comes without one when the account is found disabled (`Rechecked`);
equipment is reported piece by piece and claimed with the last (`Piecewise`); all claims
are recorded or none; an answer leaves out nothing that was seen, except equipment of
which no piece was found; who claimed something is notified of it, and only then. A
system may refuse a request in a way that passes for success (`Mislead`, of `Unchecked`
systems); what the request then says of that system is `Warranted` though it is not so. The
employee may leave a system at any time and comes back to InTouch only (`Reversible`).
The mapping: `Phase` collects the points of `pc`, `out` are the systems that are `Out`, `misled` are the `refused` with the equipment,
and the rest are the variables of the same meaning. `AdSearch`, calls and replies
stutter; a disabled account or the first asset is `Leave`, a refused check-in `Mislead`; the four `...Audit` steps are
`Report`, and `AdAudit` of a found account `FindRevoked`; an exception, 504 and the
crash are `Fail`.

### Onboarding: state and actions

A call reads its item (`ReadItem`), the checklist row (`ReadChecklist`) and the
items (`ReadItems`) in three SELECTs, for which the SQLite driver opens no
transaction, and writes in one transaction (`Commit`) the attributes that changed
against what it read (`Write`). `Fail` is the locked database or the end of the
process. `NewStatus` is the computation of `complete_item`, which sees its own
unflushed change (`InSession`).

`CreateChecklist` is the transaction of the checklist with its items, `LogCreation`
the commit of its row, `FailCreation` an exception of either (the handler of a
failing row writes through the session that the failure made unusable). Items can
be completed as soon as they are stored; before that a call is answered 404
(`NotFound`). `by` stands for `completed_by_id` and `completed_at`, which `Stamp`
writes in every commit, also when the status is not part of the UPDATE.

### Equipment: state and actions

A run (`Runs`) is one execution of `checkin_assets` with the notes that follow it: `SearchUser`
and `ListAssets` (`search_assets_by_user`), `FetchTemplate`, and for each asset
`SkipUntagged`, or `GenerateTerm`, `GetAsset`, then `CheckIn`, `Refuse` or
`FailCheckIn` (what Snipe-IT makes of the check-in) and `WriteRow` or `FailRow`;
`UpdateNotes` ends a run that returned something. Every step is one awaited request or
the code between two of them. `Answers` is a page of the fuzzy search: all the users
that mention the number if the page holds them, or else as many as it holds; `Employee` is the row with
the exact number, or else the first row. `Refuse` is an error in the body of a 200
answer. `CheckIn` followed by `failed` is a lost answer. `HandOver` is the IT staff,
who move equipment in Snipe-IT itself; `StartManual` is `POST /offboarding/checkin`.
`DirectoryHangs` holds the loop as in `Offboarding`: no run goes on but by what Snipe-IT
still does (`CanGoOn`). `moved`, `refused` are history. `Offboarding` has of all this the outcome of each
check-in for one employee.

### Audit: state and actions

`Append` is `create_audit_log`: one INSERT with the time of the server. An export is
`RequestExport` (or `RefuseExport`, `FailRequest`): its row, whose `resource` is the
file, the answer with the file's name, and the background task `ReadRows`, `OpenFile`,
`CloseFile`, which `FailTask` or `Crash` may end. A download only reads `file`. `Matches` is the WHERE of the
export, with the end date that the endpoint fills in (`Until`). `CleanupStart` takes
the time, `CleanupCommit` deletes, action by action, what is past `RETENTION_POLICY`
at that time, in one transaction; the files stay, since only `cleanup_audit_logs_db` is
scheduled. A walk is a reader who asks for page 1, 2, ... of
`GET /logs` as far as the latest answer says there are pages: `CountRows` and
`SelectPage` are the two queries of a page. Times are hours.

### ActiveDirectory: state and actions

A call is started (`Start`) by the event loop, which does nothing else while a
manual call runs on it (`LoopFree`); then `GetUniqueUser` (`get_unique_user`, and
the answer `already_disabled`), `UpdateDescription`, `DisableAccount`, `MoveToOu`
and `Return`. Each is one LDAP connection; between two of them other calls, `Fail`
(an exception) and `Crash` come in. A write that took effect while its answer was
lost is the write followed by `Fail`. A write names the entry by the distinguished
name that was read, which is void once the entry was moved (`Addresses`).
`Contains` is the substring relation of the filter, `DisabledOuInBase` whether
the configuration puts the target unit under the search base. The description is
the set of the calls whose suffix it has; of `userAccountControl` there is the one
bit the code changes. An entry in the target unit is disabled at the start: who
enables an account by hand is assumed to move it back. `DirectoryAssumption` and
`DeploymentAssumption` say the types of the constants.

`AccountRevocation` is the view of a caller: before a call answers, accounts that
match its registration may become disabled; an answer of success is given only
while such an account is disabled, or by a call that noted (`noted`) that it disabled
one itself; an error says nothing. Nobody but a call disables an account, anybody may
enable one. `ActiveDirectory` implements it with no call ever noting anything, the
strong form, because nobody else writes its directory; `IFS` with the note that the
call's PATCH was carried out, because an administrator may activate the user before
the call answers. `AdSearch`, `AdWrite`, `AdAudit`, `IfsDisable` and `IfsAudit` of
`Offboarding` rely on this and on nothing else.

### IFS: state and actions

`GetPerson`, `GetUser` and `Patch` are the three requests of `disable_employee` (the
token belongs to the first: a failing one is `Fail`). `person` is the first of the
persons with that `AlternativeName`, in any order; `seen` the ETag. `Patch` takes
effect if the ETag still holds (`IfMatch`), `Refused` is the answer 412; a lost
answer is `Patch` followed by `Fail`, which every exception ends in. `Edit` and
`Activate` are the administrators of IFS, at most `MaxSaves` times. That they
deactivate somebody themselves is left out, so that whoever is disabled was disabled
by a call.

### Users: state and actions

`create_user` is `CheckUsername`, `CheckEmail`, `LogCreation`, `Insert`;
`update_user` is `GetUser`, `CheckNewName`, `CheckNewEmail`, `CommitUpdate`,
`LogUpdate`; both end with `Respond`, or at any point with `Fail` (a constraint, a
locked database, the end of the process). `Unique` is the pair of unique constraints.
An update does not look for an empty username (`Blank`), which only the constraints
refuse. `Write` is the UPDATE of a session: only attributes whose value differs from the one
it read. Name and address stand for all attributes; passwords and roles are set the
same way.

`Registry` knows no checks, no statements and no stale reads: a user is created whole
(`Create`), and an update finds attributes as it wants them (`Find`) and sets the
others at once (`Set`), and only those, so that each caller who is told "ok" has had
every attribute as he wanted it at one moment of his call or another. It answers "conflict"
only while somebody has the value, "missing" only while the user is not there, and
keeps the order of rows and effects: a creation is on record first, an update after.
The mapping is `Met`, the attributes that have been as the call wants them: after
`GetUser` those that were found so, after `CommitUpdate` or `Insert` all. `GetUser` is
`Find`, `CommitUpdate` is `Set`, `Insert` is `Create`, a check refuses or stutters.

## 3. Runs

| Run | Instance | Shows |
|---|---|---|
| `offboarding_access` | 2 requests, accounts Network, InTouch, turnstiles; no asset | all safety properties and `Progress` under two concurrent executions |
| `offboarding_all` | 1 request, all accounts, two assets, one untagged; the first search may fail | `NoSilentDrop`, `AuditTruth` and `Promised`, the refinement, through every block, IFS and equipment included |
| `offboarding_steps` | 1 request | `StepsIndependent` is violated (`checkin_assets.py:54`) |
| `onboarding` | a creation, 3 calls, 2 items, any status sent | the properties of creation and completion |
| `onboarding_race` | 2 calls, 2 items | `AllResolvedMeansCompleted` is violated (`repository.py:174`) |
| `active_directory` | 3 calls, one manual; 2 accounts, one number part of the other; target unit outside the base | the four properties and `Promised`, the refinement |
| `active_directory_colleague` | 2 calls | `OwnAccountOnly` is violated (`active_directory/repository.py:118`) |
| `equipment` | 2 runs for one employee or two, a manual check-in, 3 assets, one untagged, one hand-over; a page of 2 users, of 3 that mention the number | whose equipment is returned, rows, notes, and that runs end |
| `audit` | 2 exports, with a window and without, or refused; 2 other actions, 3 rows, pages of 2, the clock in steps of 90 days | exports, cleanup, walks, and that due rows go |
| `ifs` | 2 calls, 3 persons, two with one registration, one registration of nobody; 2 saves | `ActivationsStand` and `Promised`, the refinement |
| `users` | 1 user, 1 creation, 2 updates, 2 names, one of them empty, 2 addresses | the four properties of users and `Promised`, the refinement |
| `users_created` | 2 creations | `CreationRowTrue` is violated (`user_router.py:118`) |

**Properties.** `ClaimJustified`: a system enters `successfully_revoked` only
while the employee is out of it; for InTouch, which another user can activate at
any time, this holds because the loop is not released between the call and the
claim. `NoSilentDrop`: a request that answered has each account it saw active in
`details` or in a FAILED row. `AuditTruth`: SUCCESS rows are true, those of crashed
and failed requests too. Both except equipment that Snipe-IT refused with status 200
(`Warranted`), which the code takes for returned. `RecordSound`: the history says no more than the trail.
`Promised` ties all of them to each other and to time: what is claimed, written, recorded,
answered and mailed agree at every step, in the order `Revocation` gives (a property
that fails, for instance, when a request without claims sends its e-mail, which the
others do not see).
`Progress`: a request ends or waits for Active Directory, in its own block or because a
manual call that waits for it holds the loop; a queued e-mail does not stay queued. In onboarding, `CompletedMeansResolved` and `PendingMeansUntouched`
say which two disagreements between checklist and items no race produces,
`UndisturbedCommitAgrees` that only a race produces the third, which
`onboarding_race` exhibits. Clients that send `pending`, against the docstring, are
part of the instance but excluded from the statement of two of the properties.
In Active Directory, `AnswersAreTrue` says what an answer means when other calls
write the same entry, `DisabledIsDescribed` that no order of stops and
overwritten descriptions disables an account without a name on it, `MovedIsFinal`
that a slower call can no longer touch a deactivated account. For users,
`PartialUpdatesSurvive` says that concurrent updates of different attributes do not
undo each other, and `CreatedIsLogged` the half of "row and user belong together"
that holds; `users_created` exhibits the other half. `Promised` is the
view of racing callers: it fails, for instance, when an update assigns what it found
as wanted and so overwrites what another call set since.

For the creation, `CreationOnRecord` says that
checklist and row go together unless the creation failed, and `StampsTell` that the
name on an item belongs to a call that asked for the status it has, except when the
call found that status there already (the status is then not written).
In `Equipment`, `OwnEquipmentOnly` names the two ways in which a run takes equipment
of somebody with another number (a search cut off at the page size, an asset handed over since it was
listed) and excludes every other one; `RowPerAsset` counts: one row per tagged
asset, whatever failed; `ReturnsAreTrue` bounds SUCCESS rows by the assets that
really left their holder; `NotesAreEarned` is about the notes that runs overwrite.
In `Audit`, `FilesAreOnRecord` and `ExportsAreComplete` tie each file to the row that names it and to the rows
there were when the export was answered; `OnlyDueRowsGo` and `DueRowsGo` say that rows leave when
their own retention is over, not before, and eventually, `WalksMissNothing` that
the shifting pages hide a row from a reader only in the two cases it names.
`ActivationsStand` says that an offboarding does not undo an activation it has not seen.

**Bounds.** Two requests are the smallest instance in which one overtakes the
other between any two of its steps, and properties speak about one request or one
account; equipment and IFS interleave with nothing they share but the external
state, so that one request against the manual endpoints meets every interleaving of
theirs; the proofs cover all other sizes. Two assets give a first and a last
iteration, one tag missing the skipped one. Two items and three calls give two
calls that overtake a third. Three deactivations of two accounts contain two for one
account with a third that makes a number unambiguous by moving the other; two updates
and a creation contain each pair of racing writers. In `Equipment` three scenarios (a run
against a manual check-in with three assets, two runs for two employees with two, two
runs for one employee with one) meet every pair of actors, and one hand-over
is enough to make a list stale. In `Audit` three rows are more than a page, steps of 90 days
up to 270 (`MaxTime`) reach each side of the retentions of 90 and 180 days, two exports are enough for the row of one to be taken for
that of the other, and exports and a walk, which only read the rows, are checked one at a
time. The user at the start of `users` has the empty name, so that an unchecked update
meets it. In `IFS` two saves are an edit and an
activation around the two requests of a call. Deadlock is not checked: finitely many requests end.

**Fairness.** All of it holds only while no manual call that waits for Active Directory
holds the loop (`hung`): nothing ends such a call but the directory or a restart, and
neither is owed. Otherwise: `LoopStep`: the event loop runs every ready coroutine, and what
it waits for has a timeout (verification 10 s, `httpx` 5 s, `requests` 10 s); `HttpStep`:
every HTTP request is answered or times out; `SendEmail`: a background task is run, SMTP
has a timeout of 10 s. There is none for `LdapStep` (`client.py` sets no timeout), none for
starting a request, for the manual endpoints, for a directory that hangs or for crashes. In
`Equipment` a run that began and a manual check-in go on for the same reasons and under the
same condition. In `Audit` the scheduler, a `BackgroundScheduler` with a thread of its own
that a held loop does not stop, starts the cleanup again and again (weak fairness of
`CleanupStart`), and since it may fail or be killed on some nights its commit has strong
fairness; the clock has none. Without fairness of lookups `Progress` needs `VerifyTimeout`.

Each property is paired in `PROJECT.json` with a seeded fault (the operators
commented `Fault:`) that the run detects.

## 4. What the code does not do

Four runs exhibit disagreements between the code and its docs, comments or messages:
a failing template request or audit commit ends the request (`StepsIndependent`);
two concurrent completions leave a finished checklist in progress
(`AllResolvedMeansCompleted`); a repeated deactivation can hit a colleague whose
number contains the one given (`OwnAccountOnly`); the row of a creation may be of a
user that does not exist (`CreationRowTrue`). The lines and the quoted statements are
under `findings`. A fifth disagreement is one of the documents: `src/README.md:142-144` lists
`userAccountControl` before the description, code and docstring (`service.py:99-103`) have
the description first. `DisabledIsDescribed` is about the order of the code; the documented
one is its seeded fault and would lose it.

More facts need no counterexample, since the model states them as they are in the
code: the not-found test of `execute_offboarding` never fires (`Locate` continues in
both cases, and `offboarding_all` checks the properties in both); IFS counts as
revoked when one of the two installations was, production or test (`IfsSuccess`); the
turnstile step is unreachable, because nothing sets its key (`TypeOK`: `ACCESS` enters
no map). Equipment may be taken from a colleague (the two exceptions of
`OwnEquipmentOnly`). A check-in that Snipe-IT refuses with status 200 and an error in the
body counts as a return (`snipe_it/service.py:93`): claimed, logged as SUCCESS, recorded
(`Refuse`, `CheckinCall`). A directory that hangs during `GET /aduser/` or
`POST /aduser/disable` stops every request of the process, whose timeouts cannot fire
(`DirectoryHangs`). An update to an empty username is not checked (`user_router.py:178`) and
ends, if there is one, with 500 instead of 409. The file of an export is served in part
while it is written, and after a crash; and no file is ever deleted, although
`cleanup_files.py` has retentions of 30 and 60 days for them. `POST /intouch/disable`
reports success when the deactivation failed (`intouch_router.py:37` tests an object that is
always true); the model has the effect on the account and not this answer.

How far these reach is proved (section 5). `NumbersApartOwnAccount`: with numbers of
which none is part of another, for instance all of one length, no deactivation hits a
colleague. `OneReaderCompletes`: the checklist goes wrong only when two calls are between
their read of the items and their commit at once; nothing else needs to be serialised.
`PageIsTheOnlyGuess`: with a page that holds everybody who mentions the number, a run
takes no colleague's equipment but what was handed over since it was listed, and writes
no note for a colleague. `OnlyRivalsRefuse`: an insertion fails, and leaves its row alone,
only if another call wants the same name or address, or by a stop or a locked database;
an update also when it sets the empty username.

## 5. Proofs

All for arbitrary constants; the assumptions are `ConstantsAssumption`,
`WantedAssumption`, `NobodyAssumption`, `DirectoryAssumption`, `DeploymentAssumption`,
`CallsAssumption`, `ValuesAssumption`, `PeopleAssumption`, `EquipmentAssumption`,
`FiltersAssumption`, `SizesAssumption`, `PersonsAssumption` and `SavesAssumption` (the
parameters have their types; calls, users and the markers for nobody are distinct; the
users at the start have distinct names and addresses; a page holds at least one row;
the assets of `Equipment` are finitely many). The number of requests, assets of
`Offboarding`, items and calls is not even assumed finite.

*Offboarding.* `TypeCorrect` is inductive with the lemmas on what each helper
returns (`BlockOrder`, `StatusesSound`, `ClaimType`, `NextAssetType`).
`ClaimsAreJustified` and `AuditIsTrue` need to know what an answer of an external
call still means when the request uses it, which neither property says (a check-in that was acknowledged is `Warranted`, no more): the
strengthening is `AllKnow`. Its proof (`KnowsStep`) rests on `OnlyInTouchReturns`
(equipment only leaves, refusals are not forgotten; of the accounts only InTouch comes back, and only while no
request holds the loop) and on `QuietKnows` (a step of somebody else does not
disturb what a request knows). `UseCasesSound` is the one place that looks into the
four use cases: what they claim and write is true at that moment. `OutStays` then
makes SUCCESS rows true for good. `NothingIsDropped` uses `AllAccounted`: every
block behind a request has left its system accounted for; `ChainPassesNone` says
that the chain of blocks passes over a system only when the map does not hold it,
and `Accumulates` that accounts are never lost. `RecordsAreSound` uses `AllBacked`:
claims, and not only records, have their rows, and the network is claimed last.

The refinement (`OffboardingRefinement`, `KeepsItsPromise`) needs, beside what these
theorems say, that a report comes in its turn: `AllStaged`. A request at a block has
said nothing of its system nor of one whose block comes later, and the system is in the
map, so that the report it is about to make is `Open`; `StagedStep` keeps it so by the
order of the blocks (`ChainEnters`), and because no other request writes what a request
says (`OthersApart`). `AccountLeaves` and `AssetLeaves` map the effects of external
calls, `StepReports` the rows and claims of the four use cases, `EnvironmentRefines` the
manual endpoints, the e-mail and the crash; that a claim is true when it is made comes from
`AllKnow`, that an answer leaves nothing out from `AllAccounted`.

*Onboarding.* `PendingIsUntouched` needs that a call that read a status other than
pending knows it is not pending now; `CompletedIsResolved` that resolved items stay
resolved; `UndisturbedAgrees` follows from the types and `CommitResolves`.
`StampsAreTrue` needs `StampedByCommitted`: only calls that committed are on an item, and
these read nothing any more. `OneReaderCompletes` takes the absence of the race as a hypothesis
(`OneReader`, with `OnlyResolving`, what the docstring asks of clients): then what the one
call between read and commit has read is true (`ReadersKnow`), so that it computes the status of
what it leaves behind. A checklist without items (`Items = {}`) is excluded; it is never completed,
because only the completion of an item computes the status. `CreationsAreOnRecord` is inductive with where the creation is.

*Equipment.* `Aware` says of each run where it got its employee (`Found`), that what it
listed was held by that user or moved since (`Held`), and which assets are behind
it (`Fresh`, `Ordered`); `TakesOwnOnly` follows. `EveryAssetReported` needs `Counted`,
the number of rows against the cardinality of the assets behind the run (why `Assets`
is finite); `ReturnsHold` needs `Truthful`, an asset that was believed returned has
moved or was refused; `NotesAreDeserved` needs `Noted`. What a run knows is disturbed
by another run only through `holder` (`RunsApart`, `ManualApart`, `StepMoves`).
`PageIsTheOnlyGuess` assumes `PageSuffices`, a limit no smaller than the number of users that
mention a wanted number, of whom one has it. `NobodyMissed` then shows that an answer
contains that one, and `Searched` that the run works for them.

*Audit.* `Timed` (types, finitely many rows, a cutoff that is past) gives
`OnlyDueRowsLeave`. `ExportsSound` adds that what an export owes is still stored or due,
and was read; `FilesHaveRows`, of the row that names the file, and `ExportsContainAll` follow. `WalksAreComplete` counts: `Rank`, the number of rows
before a row, only grows unless a cleanup ran (`RankGrows`), so every row that is
there from start to end and not seen yet is at or behind the next page (`WalkSound`),
and the pages the last count tells of cover it (`PagesCover`).

*IFS.* `Inv` says what a call knows (`Knows`) and that activations are versions
(`Versioned`). `ActivationsHold` and the refinement `KeepsItsPromise` follow.

*Active Directory.* `Inv` says of each call that every write it is past has left its
mark on its account (`Knows`); since no step takes a mark away (`MarksStay`), a call
need only look at its own step (`OneCall`, `OthersKnow`). The properties and the
refinement `KeepsItsPromise` follow; the abstract answers are those of `GetUniqueUser`,
`Return` and `Fail`, the abstract `Disable` is `DisableAccount`, the rest stutters.
`NumbersApartOwnAccount` follows from `Inv` when `Contains` is the identity.

*Users.* `UsersAreUnique` is inductive by the constraints alone, which shows that the
checks before them are not needed for it. `CreationsAreLogged` needs that a creation
about to insert has its row (`LoggedFirst`). `UpdatesSurvive` needs `UpdateInv`: until
the only setter of an attribute commits, the attribute is the one it read.
`OnlyRivalsRefuse` needs `Fresh`: what a check found free stays free for a call without a
rival (`TakenBy`: values come from the calls that ask for them), unless nothing was checked
(`Blanks`). The refinement
`KeepsItsPromise` needs `Answering`, that a call answers once and comes to "ok" over its
row, and `MetMoves`, that a step moves the `Met` of one call; `CreateRefines` and
`UpdateRefines` go through the steps. An update that commits finds the attributes it does
not write as `Registry` leaves them, because `Write` and `Find` use the same comparison.

Only model-checked: `Progress`, `RunsEnd`, `DueRowsGo` (liveness is outside what the prover does here) and
the violations.

## 6. Not modelled

- InTouch: an account is active or not. Pending invitations (deleted, not deactivated;
  one accepted between search and DELETE loses an active user) and protected
  statuses are left out. InTouch does not implement `AccountRevocation`: its users
  can be activated by an endpoint of this program.
- Turnstiles: no caller that can run reaches `integrations/gate/`.
- `cleanup_export_files` and `run_audit_cleanup`: scheduled by nothing; `checkout_asset`
  of Snipe-IT: called by nothing.
- Pure functions on strings and dates: the LDAP escape, the layout of exports, terms,
  notes and e-mails. The rounding of the date range is in `Accepted`.
- Flags of `userAccountControl` other than ACCOUNTDISABLE, and other writers of the
  directory.
- Queries that change nothing but may write a row of their own: history, lists,
  searches. Such a row is a `RecordAction` of `Audit`.
- `limit=0` in `GET /logs`, which divides by zero; the model takes a positive limit.
- Login, tokens and password hashing (libraries), configuration, migrations, the
  nginx proxy, health checks.
