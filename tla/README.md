# Formal models of AI-application-automation

This directory holds TLA+ models of the program in `src/`, the TLC configurations that check them on
small instances, and proofs that TLAPS checks for every value of the constants. The program is a
single-user service that discovers job vacancies, prepares applications, and submits them with a
human's approval or under a policy. A duplicate submission, a lost cancellation or two browsers on
one profile cannot be taken back, so these are what the models are about.

Reading order: this file, `Delivery.tla` (what the submission machinery promises),
`Quota.tla`, `Applications.tla`; `ScanRuns.tla` and `Scheduler.tla`;
`BrowserSessions.tla`; `Inference.tla`; `TicketLedger.tla`, `Interventions.tla`; `Requests.tla`;
`Storage.tla`; `Matching.tla`. The proofs about a module are in its `<module>Proofs.tla`, those about
`Scheduler` and `Matching` in `RulesProofs.tla`. Each `MC<module>.tla` with its `.cfg` is an instance for TLC.

## 1. The system

One Node.js process (`apps/web-app`) serves the HTTP API and the dashboard *and* runs the background
worker (`lib/runtime.ts`). The worker polls once a second: it ticks the schedules, then claims the
oldest queued row of `operations` and carries it out. All state is in one SQLite database accessed
synchronously (better-sqlite3), in files, and in one in-memory map of browser sessions. So:

* code between two `await`s runs without interruption by other code of the process;
* what does fall between two `await`s is any HTTP handler, timer, signal or browser event;
* what can fall between two separately committed statements is the death of the process; on the next
  start `startRuntime` repairs what it finds (`runtime.ts:53-57`).

| Component | State | Operations | Hard behaviour |
| --- | --- | --- | --- |
| Applications (`api/applications/**`, `adapters/applications.ts`) | `application_attempts`, `submission_intents`, `application_events` | create, read, edit answers, approve, submit, cancel, retry, resolve; worker: prepare, submit | stale screens, retries, crash between claim and dispatch, three tables that must agree |
| Policies and quota (`adapters/scheduler.ts`, `adapters/policies.ts`, `domain/scheduling.ts`) | `application_policies`, `quota_reservations` | patch, reserve, consume, release | cap at its boundary, day in an editable time zone, unknown deliveries holding a slot |
| Operation worker (`lib/runtime.ts`, `adapters/repositories.ts`) | `operations`, the operation in hand | claim, run, finish, stop, restart | crash at any statement, order of queued operations |
| Browser sessions (`lib/browser-sessions.ts`, `api/sources/[id]/browser`) | map source -> session, Chromium contexts, idle timers | open, use, finish, agent page, idle close, shutdown | every step awaits; deaths and failed launches while another step waits |
| Discovery runs (`lib/scraping.ts`, `api/runs/**`, `api/searches/[id]/runs`) | `scan_runs`, `discovered_listings`, `exports/<run>/base.json` | start, traverse, pause, resume, cancel | requests during the page await, shutdown, crash between verdict and export |
| Schedules (`api/schedules/**`, `tickSchedules`) | `schedule_definitions`, `schedule_cursors` | set, observe, enqueue | definition and cursor, cursor and operation committed separately; boundaries missed by a late poll |
| Inference service (`services/inference/server.py`) | model, load task, active request count | load, unload, idle unload, chat | threads and coroutines around one lock |
| Interventions (`lib/interventions.ts`, `domain/intervention.ts`) | interventions, viewer tickets, browser generations | open, take control, ticket, consume, resolve | one-time tickets, generations, expiry |
| Artifacts and exports (`adapters/artifacts.ts`, `lib/exports.ts`) | immutable files | stage, publish, list, read | verdict, staging and rename are separate steps; a run exported twice |
| Backup, restore, retention (`adapters/backup.ts`, `retention.ts`) | database file and trees | backup, verify, restore, purge | no common snapshot, crash within a restore |
| Idempotency (`lib/api.ts`) | `api_idempotency_records` | find, save | record committed apart from the work, awaits in between |
| Questions, facts, resources (`api/profile/**`, `api/facts/**`, `api/resources/**`, `adapters/resources.ts`) | `profile_questions`, `applicant_facts`, `resource_documents`, the mounted files | ask, answer, decide by revision, upload, index | a question and its operation in separate commits; files that change under the index |
| Matching, egress, configuration, model adapter, contracts | none | pure functions, one HTTP call | boundaries only |
| Searches, sources, settings, profile, auth | single rows | guarded edits | little interaction |
| Dashboard and browser views | React state | requests to the API | the clients of `Applications` |

Interactions. Handlers queue `operations` rows; the worker is the only reader of the queue. A scan
opens an agent page through the browser sessions and fails the source when a user holds it
(`BROWSER_SESSION_BUSY`). Submission takes its authority and quota from the policy at the moment of
the commit. Discovered listings are what application attempts refer to. Shutdown stops the worker,
waits for the operation in hand, then closes the browser sessions, then the database.

What makes each component correct: a vacancy is never delivered to twice and what was approved is
what is submitted; the daily cap is never exceeded; every operation ends; a page is used by one
caller and a profile by one browser; every session is saved and closed once and the shutdown ends;
a paused run stays paused, a cancelled one reports nothing, a run shown as running has somebody at
work and a reported result has its export; the model is loaded once and never freed in use; a ticket
opens one viewer once; an artifact never changes.

## 2. The modules

### Delivery - what a submission promises

The abstract specification: per vacancy the set of intents that may have reached the employer, with
commit (only when there is none), confirm, and disprove. `Applications` implements it through the
refinement mapping `DeliveryPromise`; the run `apps_retry` checks it as the property `DeliversOnce`.

### Applications - attempts, intents, quota, worker

| State | Code |
| --- | --- |
| `attempt`, `lastEvent` | `application_attempts` (migrations 007, 014) and the newest `application_events` row |
| `intent` | `submission_intents` (migration 009) |
| `reservation`, `policy`, `today` | `quota_reservations`, `application_policies`, the UTC day; a policy's zone shifts the day |
| `operation`, `worker` | the attempt's `operations` rows and the last statement the worker committed |
| `view` | what each client read last: the source of stale requests |
| `approved` | history variable: the answers on the user's screen at the approval |

Each handler is one action (`Create`, `Read`, `EditAnswers`, `Approve`, `Submit`, `Cancel`, `Retry`,
`ResolveSubmission`, `PatchPolicy`); each has no `await` after its first read of a row, and the
policy patch, which has one, is guarded by its revision. The worker's statements are separate actions
(`ClaimOperation`, `EnterPreparation`, `AskForReview`, `DispatchSubmission`, `FinishOperation`) so
that `Crash` can fall between them; `Serving` keeps handlers out of that span because the code has no
`await` there. Refused requests change nothing and are no action.

Points where the source decides the model: the approval snapshot hash covers id, revision and
answers, and `If-Match` accepts `*`, so only the hash protects approve and submit; the states
`needs_input` and `closed` of an attempt and `dispatched` of an intent are never written and are left
out; no route stores an attachment, so automatic authority needs attempts that were already in the
database (`Stored`, as in `tests/application.test.ts:95`); `runtime_control.paused` is written only
by a restore and is the constant `WorkPaused`; `created_at` has ties, so any queued operation may be
claimed next. The patch of a policy covers its creation through arbitrary initial settings. The worker's statements do
not fail here; they are separated by deaths only.

### Quota - the daily quota as the domain defines it

The pure functions `reserveQuota`, `releaseQuota`, `consumeQuota` of `domain/scheduling.ts` as a state
machine over one policy and one of its days. The program does not call them; it keeps the same
rules in SQL (`adapters/scheduler.ts`). `Applications` therefore instantiates `Quota` once for every policy
and day (`DayQuota`) and the run `apps_quota` checks each instance as a refinement (`ImplementsQuota`): a
slot is taken only below the cap of that moment, given back only when nothing was delivered, and
never by a restart, a policy edit or a change of the day.

### ScanRuns - schedules, runs and their control

`schedule` stands for the definition and its cursor (off, waiting, due), `operation` for the scan and
control operations, `run` for the `scan_runs` row with its two request flags and its base export,
`worker` for the place in `discover` and its local counts. A run keeps its operation when resumed
(`scraping.ts:66-67`), so it has the operation's name. `BeforeSource`, `PageEnds`, `AfterSource`,
`FinishRun`, `WriteExport` are the parts of `discover` between two commits or at its only `await`; handlers
and the stop signal come when the worker is idle or waits for the page, a crash anywhere. The number
of enabled sources is chosen anew at each start of a traversal (up to `MaxSources`). Whether a page
yields listings is a choice; a source that succeeds has at least one, so `Verdict` needs no count. The claim ignores
`runtime_control.paused`, which only adds behaviours, and no statement of `discover` fails.

### BrowserSessions - profiles, pages, idle timers, shutdown

`entry` is the map from source to session, `session` a session object with its context, owner, busy
flag, timer and `closing` promise, `using` the callers that hold its page, and `stop`, `snapshot`,
`shuttingDown`, `probe` the shutdown of `closeBrowserSessions` and the Chromium probe of
`startRuntime`. Every `await` in `createSession`, `withUserPage`, `withSourcePage`, `closeSession`,
`saveAndClose` is a boundary between actions. The return of `createSession` and the statements of its
caller up to the next `await` follow as microtasks and are one action (`Ready`). The idle timer is a
flag (armed or not) that may fire whenever armed. Sources interact only through the shutdown, so the
instances have one source; sessions are the successive objects made for it.

### Inference - the model's life in the inference service

`loaded` and `used` are the globals `model` and `last_used_at` (zero, recent, or longer ago than the idle
interval), `active` is `active_requests`, `at` the place of each request, `running` the request that holds the event
loop, `thread` the worker threads with the job of each, `task` the thread of `load_task`, `idleLoop` and
`awaited` the idle loop and what it waits for. A generation has no `await`, so it holds the loop
(`running`); only threads run beside it. Sections under `model_lock` are single steps; the re-check of
`unload_model` in its thread is apart from the check of its caller, which is where the hazards are.
`shield` lets a load outlive the request that started it, and a timed-out unload leaves its thread running.
Health and readiness only read and are left out. The service keeps nothing, so a restart is the initial state.

### Scheduler - definitions, cursors, boundaries

`definition` and `cursor` are the two tables, `hand` is the handler or the poll that is running with the time it
read and the definitions it has yet to observe, `poller` whether the next poll is armed, runs or is neither, `now`
the wall clock in minutes (the unit of the API).
Every commit is an action: `SetSchedule` and `SetScheduleCursor` of the handlers, `ObserveDue` or
`ObserveNotDue` and `InsertScan` of the poll; between two of them only `Crash` and `StatementFails` can come,
since nothing is awaited. After `EndTick` the poll works on an operation while requests are served, and
`PollEnds` arms the timer whatever became of it, as does a statement that fails. `NextDueAtAfter` is the arithmetic
of the domain. History variables hold the scans queued under the present cadence (`scans`), those lost between cursor
and operation (`lost`), when the cadence was set (`since`, unless its edit was cut short) and when the schedule was last
edited at all (`edited`), and when the poll was done with the search last (`looked`). `ScanRuns` has the
same two steps of the poll without time; there the question is what a queued scan meets.

### TicketLedger and Interventions - control of the browser by a human

`TicketLedger` is the in-memory `ViewerTicketLedger` of `domain/intervention.ts`: issue, consume once in
time, revoke. `Interventions` is the program: the `interventions` row with its revision, the
`intervention_viewer_tickets` rows, what each screen shows (`seen`), a resolve request that awaits its body
(`waiting`), the generation of the browser that is really open (`browser`) and the clock. Each library call
is one immediate transaction and one action. The browser bridge is not in the repository
(`docs/development.md:95`); its calls of the exported hooks, and the events of the transition table that no
code sends yet, are environment actions. Never checked against the source but assumed: the bridge presents the
generation of the browser it has open. `ImplementsLedger` maps the ticket rows to the ledger.

### Requests - keyed requests and what they set in motion

The idempotency records around eight routes, chosen so that each shape of the code occurs: the record
in the transaction of the command (`AskQuestion`, `Reindex`, the three decisions on a fact), the record in a
commit after it (`StartRun`, `TestModel` with `SaveAnswer`), and the lookup before an `await` (`BeginUpload`,
`RenameUpload`, `CommitUpload`, `UploadConflicts`). `request` is where each client's request is; a client may
send any command again at any time. The worker's side has the questions (`BeginAnswer`,
`AnswerProfileQuestion`) and the resource index: `file` is the mounted file, `row` its row, `Indexed` what
one pass makes of the row. The history variables `told`, `denied`, `cut` and `stray` remember the answers, the
refusals of what had been done, the keys whose work a death separated from its record, and what changed the file, or
kept it from being indexed, with no operation to follow: a refused upload, the user, a failed pass, a death.

Data left out: the upload writes below `RESOURCES_ROOT` and the indexer reads `RESOURCE_ROOT`, one directory here,
as their defaults are; a file beyond the size limit or of another type (`resources.ts:61-73`) is like one that
cannot be read.

### Storage - exports, backup and restore

`main` is the database (a verdict per run, whether sessions exist, whether work is paused), `log` the `-wal`
and `-shm` beside it and whether they are its own, `volume` and `backup` map paths to contents, `left` the temporary file of
each process id. `FinishRun`, `StageExport`, `PublishExport`, `ExportPresent`, `ExportFails` are the end of
a run; `BeginBackup` to `WriteManifest` are `createBackup`, `BeginRestore` to `EndRestore` are
`restoreBackup`, one file operation or statement per action, and `Crash` comes anywhere. SQLite is external:
opening a database replays the log that lies beside it, whoever wrote it (`LogOpened`). The two removals of `-wal` and
`-shm` are one step, for a `-shm` alone replays nothing, and the temporary file is written whole: a death within the
write leaves a part that `wx` refuses later just as a whole one. `held` remembers whether the database is a restored one
nobody has resumed the work of, and whether its restore was cut off after the rename. Only tests call
`createBackup` and `restoreBackup`; their hooks are assumed to do what their names say, that is the worker is stopped
before the copy and the server before the replacement.

### Matching - code before model

The pure functions of `domain/index.ts` and `domain/matching.ts` as operators: texts are sequences of
words, the adapter may answer with nothing, with garbage or with any list of results. Words have no white space at
their ends, which hides that an equality compares an untrimmed value with a trimmed one (`domain/src/index.ts:15-16`); no
theorem depends on it. No state and no caller but the tests; its theorems are in `RulesProofs`.

## 3. What the runs check

| Run | Instance | Shows |
| --- | --- | --- |
| `apps_retry` | 1 vacancy, 2 attempts, 2 intents, 2 answer sets, 1 stale client, 1 crash | `NoSecondDelivery`, `IntentMatchesAttempt`, `ApprovedIsSubmitted`, `RevisionIdentifiesRow`, `TransitionsPermitted`, refinement `DeliversOnce` |
| `apps_quota` | 2 vacancies, 3 attempts, 1 policy with 3 settings, 2 days, 1 crash | `ReservationMatchesIntent`, refinement `ImplementsQuota` |
| `apps_live` | 1 vacancy, 2 attempts, 2 crashes, fair worker | `OperationsEnd` |
| `scans` | 1 run, 2 sources, 3 control requests, 1 stop, 1 crash, fair worker | `RunningIsDriven`, `CancelWins`, `ResultIsExported`, `RunMovesAsAsked`, `CancelSettles` |
| `rules` | 1 search, intervals of 2 and 3 minutes, a clock from 0 to 6, 1 crash, failing statements, fair event loop | `OneScanPerInterval`, `EachIntervalScanned`, `DueIsObserved` |
| `browser` | 1 source, 3 sessions, fair steps | `PageUsedByOne`, `IdleTimerArmed`, `ClosesOnce`, `AgentLeaves`, `ShutdownEndsOtherwise` |
| `inference` | 2 requests, administrator, idle loop, 3 threads | `InUseIsLoaded`, `LoadsOnce`, `LoadedIsStamped`, `RequestsEnd`, `IdleReleasedOtherwise` |
| `interventions` | 1 task, 1 principal, 1 screen, 3 tickets, 1 browser restart, 4 moments, tickets that live for 2 | `ControlAfterSuspension`, `ResolverSawResolving`, `ViewsTheOpenBrowser`, refinement `ImplementsLedger` |
| `requests` | 2 clients, 1 key, 9 commands on 8 routes of which a behaviour mixes 2, 1 file, 1 crash | `AtMostOnce`, `RetriesRepeatTheAnswer`, `QuestionMatchesOperation`, `IndexFollowsFile` |
| `storage` | 1 run with 2 possible documents, 1 destination, 2 process ids, 2 crashes | `NoForeignLog`, `BackupHoldsExports`, `LiveHoldsExports`, `PublishedNeverChanges`, `RestoredWaits` |
| `browser_exclusive`, `scans_active` | as small as the case allows | two counterexamples: `ExclusiveProfile`, `OneActiveRun` (section 6) |

Bounds. `MaxRevision` only stops the editing of answers, the one action that could go on for ever.
Two attempts make the retry of a failed one, the largest chain the unique index allows at a time; a
third adds only a repetition of the same states. Two days and a zone offset make the day boundary move
both by the clock and by an edit of the policy. One crash is enough for safety, since every restart
starts from an arbitrary reachable database; liveness has two, so that a recovery is interrupted too.
Three control requests make every ordered triple of pause, resume and cancel; two sources give a
position between sources and a partial verdict. Three sessions are needed for a profile to be taken
over twice, which the disagreement of `browser_exclusive` is about. Two requests meet at one load, and three
threads let a hung load, an abandoned unload and a new one exist together; a generation excludes every
other, so more requests only queue. The clock of `rules` ends at 6: with an interval of 2 a
poll can be two boundaries late and still be followed by others, with 3 the grid and the poll are out of step. Searches
meet in a poll only, where the failure of one skips those after it; for the one search of `rules` that is a statement that
fails before its observation, and the proofs hold for any number. Three tickets are
one used, one expired and one fresh; a life of 2 in 4 moments lets one expire and its successor be issued.
Routes have disjoint records and meet only in the queue of the worker, the revision of the fact and the file, so
two of them (`FewRoutes`, a CONSTRAINT that `MCRequests` states) show every interference of a pair. Two deaths in `storage`
let a death interrupt the recovery from the first, and two ids let a restore find, or not find, what one has left behind. Symmetry is used only in runs
without liveness and only over ids the module treats alike.

Fairness. Every page call has a time limit (`scraping.ts:80`, `browser-sessions.ts:71`) and the container is
restarted by `compose.yml`: worker, restart and the continuation of an await are weakly fair. That the worker's
poll goes on is not assumed but checked, in `Scheduler` (`DueIsObserved`): there the event loop takes a due timer and a
finished operation between requests, however many come in, and an observation that is tried again and again succeeds
in the end - strong fairness of `TickSchedules`, `PollEnds` and the observations of each search - and the timer must be
armed by the code (`runtime.ts:107`). The asyncio loop runs ready coroutines in turn, hence strong fairness for each
request and the idle loop of `Inference`; a model load may hang, so it has none, and it is the time limit that answers.
Users, clients, clocks, crashes and browser deaths never are fair. The runs `browser*` and `scans*` say
`CHECK_DEADLOCK FALSE`: a stopped process, or one whose bounded ids are used up, really stops.

Exceptions. The code has cases in which it does not do what one would like. A property that holds names such a case
and sets it aside; the property without the exception is stated in the module as well, and a configuration of its own
lets TLC show the case (section 6):

| Holds | What it sets aside | Refuted |
| --- | --- | --- |
| `OperationsEnd` | what becomes of the attempt of an operation that a death interrupted | `StaleSubmissionsSettle` |
| `ResultIsExported`, `LiveHoldsExports`, `BackupHoldsExports` | a death between verdict and export | `ExportRecovered` |
| `PageUsedByOne` | a probe that answers after the stop | `NoBrowserAfterStop` |
| `ShutdownEndsOtherwise` | a launch that fails during the shutdown | `ShutdownEnds` |
| `IdleReleasedOtherwise` | an idle loop that has ended | `IdleReleased` |
| `AtMostOnce` | a run or model test whose request died between its two commits | `KeyedOnce` |
| `RetriesRepeatTheAnswer` | an upload that is refused what was answered before | `SameBodySameAnswer` |
| `IndexFollowsFile` | an upload that fails after its rename | `UploadsAreIndexed` |
| `QuestionMatchesOperation` | a death between the claim of a question and its first statement | `InterruptedQuestionsEnd` |
| `EachIntervalScanned` | a scan lost between cursor and operation | `EveryIntervalScanned` |
| `OneScanPerInterval`, `EachIntervalScanned` (by `Whole`) | an edit cut short between definition and cursor | `EditStartsFreshInterval` |
| `RestoredWaits` | a restore that died between the rename and the pause | `RestoredBeginsPaused` |
| `BackupHoldsExports` | a destination used twice | `AcceptedBackupIsWhole` |

No counterpart have the preparation that a death interrupts (no document promises more than that the user may retry, and the
attempt can be cancelled), a file that comes back with the bytes of its row (`IndexFollowsFile`), and a cancellation whose
operation a death caught in hand: the run stays paused with its request set, and `CancelSettles` demands that any further
operation of the run ends it.

Type invariants. Every state machine states `TypeOK`; those of the modules that model code directly are proved, those of the
abstract specifications (`Delivery`, `Quota`, `TicketLedger`) are not yet. The runs spend their time on the other properties.

## 4. What is proved

Every safety property of section 3 - invariants, action properties and refinements - is also a theorem of its
module's `Spec`, for every value of the constants: any number of attempts, runs, sessions, clients, keys,
destinations, deaths, any clock. tlapm checks the proofs from nothing. Each proof module lists its invariant first,
then lemmas on the kind of change a step makes, then one step per action, then the theorems.
The assumptions are the named ASSUMEs of the modules: ids are disjoint from `None` and from each other's sets,
bounds are naturals, intervals are positive, run ids are no path segment such as `..` (they are UUIDs). TLC
evaluates all of them in the runs.

| Module | Theorem | Property |
| --- | --- | --- |
| `ApplicationsProofs` | `NeverTwoDeliveries`, `TablesAgree` | `NoSecondDelivery`, `IntentMatchesAttempt` |
| | `RevisionsNameRows`, `OnlyTheApproved`, `TransitionTable` | `RevisionIdentifiesRow`, `ApprovedIsSubmitted`, `TransitionsPermitted` |
| | `ReservationsFollowIntents` | `ReservationMatchesIntent` |
| | `PromiseKept`, `QuotaImplemented` | the refinements `DeliversOnce` and `ImplementsQuota` |
| `ScanRunsProofs` | `NeverAbandoned`, `CancelledHasNoResult`, `ResultsAreExported`, `OnlyAsAsked` | `RunningIsDriven`, `CancelWins`, `ResultIsExported`, `RunMovesAsAsked` |
| `RulesProofs` | `ScannedOnce`, `NoIntervalPassedOver` | `OneScanPerInterval`, `EachIntervalScanned` |
| | `ModelOnlySettlesUnknowns`, `CodeDecidesFirst` | two facts of `Matching`, which has no state |
| `BrowserSessionsProofs` | `OneUserOfAPage`, `TimerNeverLost`, `ClosedOnce` | `PageUsedByOne`, `IdleTimerArmed`, `ClosesOnce` |
| `InferenceProofs` | `NeverTakenInUse`, `LoadedByOne`, `AlwaysStamped` | `InUseIsLoaded`, `LoadsOnce`, `LoadedIsStamped` |
| `InterventionsProofs` | `NoControlBeforeSuspension`, `NoStaleResolve` | `ControlAfterSuspension`, `ResolverSawResolving` |
| | `RevisionNamesStage` | the lemma `RevisionTellsState` on what a revision says |
| | `OldBrowserStaysClosed`, `LedgerImplemented` | `ViewsTheOpenBrowser`, the refinement `ImplementsLedger` |
| `RequestsProofs` | `WorkedAtOnce`, `RetriesAnsweredAlike`, `QuestionsEndWithWork`, `IndexKeepsUp` | `AtMostOnce`, `RetriesRepeatTheAnswer`, `QuestionMatchesOperation`, `IndexFollowsFile` |
| `StorageProofs` | `OwnLogOnly`, `BackupIsWhole`, `FinishedIsReadable`, `PublishedIsFinal`, `RestoredIsHeld` | `NoForeignLog`, `BackupHoldsExports`, `LiveHoldsExports`, `PublishedNeverChanges`, `RestoredWaits` |

Each of these modules proves its type invariant as well (`TypeCorrect`, `SchedulesTyped`).

### Why the invariants are what they are

*Applications.* `NoSecondDelivery` is not inductive: that a retry is refused depends on the attempt's state, while
the danger is in the intent's. `DeliveryInv == IntentMatchesAttempt /\ OneActiveAttempt /\ OneIntentPerAttempt` says
that a live intent's attempt is in the mirrored state, hence active; a vacancy has one active attempt (the partial
unique index of migration 007); an attempt has one live intent (that of migration 009). Two live intents for a
vacancy would have two active attempts, or one attempt with two. On top of it, `Shape` says what a step may do to one
row - its vacancy stays, and its revision rises by one with every change - from which follow the transition
table and that a screen with the row's revision shows the row; `ReadyIsApproved` carries the approval to the submission.

The refinement of `Delivery` maps an attempt to nothing and an intent to what may have reached its vacancy.
`SubmitCommits` needs `DeliveryInv` for the abstract guard (nothing is exposed there), `ResolveSettles` that the resolved
intent is the one that is exposed; every other step leaves all three mapped variables as they are (`DeliveryStutters`).
For `Quota` the count of slots must be finite, so `FiniteReservations` is an invariant of its own; `UsedSplits` relates
the count the SQL takes over two states to the sum the domain forms, and `ReservationMatchesIntent` gives the guards of
consume and release.

*ScanRuns.* `WorkerAgrees` ties the worker's place to the operation and the run in its hand, `OperationsAgree` a control
operation to its run, `FlagsAgree` says that a paused run still has its flag up - otherwise a second resumption would
run it twice. `RunningAgrees` names who works for a running run: the traversal, or a resumption that is queued or
claimed. `ExportsAgree` names what stands behind a result without its export: the worker about to write it, or a death.

*Scheduler.* The properties count scans per interval, the code computes boundaries. `TimesOrdered` orders the times in the
two tables, the hand and the clock; `OnGrid` says that the cursor's next boundary lies on the grid of the definition's cadence;
`OneScan` and `EachScanned` relate the scans to the slots before that boundary, with the poll's hand between
cursor and operation. `NextDueAhead` and `NextDueKeepsGrid` are the arithmetic of `nextDueAt`, `SlotMonotone` and
`SlotOfBoundary` turn times into intervals; these are proved for all naturals.

*BrowserSessions.* `Safe` adds to `IdleTimerArmed`, for each session: nobody uses or closes an object before `createSession`
has returned it (`NotOpenYet`), the flag covers the use (`UseIsBusy`), what is being closed is not in use
(`ClosingIsUnused`) and stays refused (`ClosingIsBusy`), and a frame finds the timer armed (`FrameKeepsTimer`). The exception `probe # "late"`
of the property runs through all of them.

*Inference.* `IInv` adds who holds the loop (`HolderAgrees`), that the count is one exactly during a generation
(`CountAgrees`), that `load_task` is the one loading thread (`TaskAgrees`) and that a thread loads only what is missing
(`LoadIsNeeded`): without `CountAgrees` the guard of the unload says nothing about the generation, without
`TaskAgrees` a second thread could load.

*Interventions.* `IInv` joins the type, the stage a revision names, the state of the task behind every ticket, and the
agreement of a ticket's generation with its task's row. That the revision names the stage is also why a resolve
request cannot rest on an older screen, however long its body is awaited. The refinement needs `OneUsableTicket`, because the ledger refuses a
second usable ticket for one binding while the program only looks at its table.

*Requests.* `WorkInv`: a dead process has nothing in hand, the running operation is the worker's, and a question stands as its
operation and the worker's place say (`QuestionOf`). `RecordInv`: one handler at most is between work and record (`OneSaves`),
every operation goes back to a record, a handler that is saving, or a death between the two (`WorkIsRecorded`), a key has one
operation unless such a death cut it off (`OneOfKey`), one requested run at most is at work (`OneScan`), and what was told is on record (`ToldIsRecorded`). For the index,
`HashIsReadable` - only a file that could be read leaves its hash in the row - makes `IndexFollowsFile` inductive.

*Storage.* The properties speak of the end of a backup or a restore, the invariant of every point within. `Processes`
says who runs beside whom, and that the worker's payload is the verdict it committed. `LogBelongs`: another file's log lies only where
there is no database file, and is gone when one is renamed in. `RestoreReads`: the temporary file and then the database are those of
the backup the restore reads. `BackupOf(d)` follows a copy file by file: what is not in `rest` is copied, and the listing tells
the verdicts of the database copied before it. `VolumeTells` holds outside the window of a restore and, while its files are put
back, for those already there. `WorkHeld` carries the pause. Deaths are harmless where the
runs they may hurt (`InHand`) are those the invariant leaves out at that point (`Awaited`).

Two models were changed so that they could be reasoned about, without a change of behaviour: the sets of rows of `Requests`
and `Storage` have names (`Record`, `Request`, `Export`, ...), and their `NoneAssumption` says of these too that `None`
is none of their members - TLC's model value never is, but a prover has to be told.

Only model-checked: liveness - `OperationsEnd`, `CancelSettles`, `AgentLeaves`, `ShutdownEndsOtherwise`, `RequestsEnd`,
`IdleReleasedOtherwise`, `DueIsObserved` - since fairness and ENABLED are out of the prover's reach. The counterexamples of section 6
have nothing to prove.

## 5. The plan

1. Done: `Delivery`, `Applications`, `ApplicationsProofs`.
2. Done: `ScanRuns`, `BrowserSessions`, `Inference` and their proofs.
3. Done: `TicketLedger`, `Interventions`, `InterventionsProofs`.
4. Done: `Storage` (exports, backup, restore), `Requests` (idempotency, questions, facts, resources) and their proofs.
5. Done: `Quota` as a specification that `Applications` implements, `Scheduler`, `Matching`, `RulesProofs`.
6. To come: facts about the abstract specifications themselves (what `Delivery`, `Quota` and `TicketLedger` promise), from
   which the refinements carry them to the program; safety lemmas on the way to the liveness properties, such as that a waiting
   operation always has a poll that can take it.
7. Left out so far: artifact expiry and retention; a composition of the scan with the browser sessions it waits
   for, whose only exchange - a page or a refusal - both models already take as a choice.

## 6. Where code and documents disagree

Each of these is a property that a document, comment or test asks for and TLC refutes. The first two are runs of the
project; the others are reproduced with the configuration named (`tlc -config <name>.cfg MC<module>`, for `Scheduler` `MCRules`).

* `ExclusiveProfile` (`browser_exclusive`): three cleanups delete the map entry of their source whoever owns it now
  (`browser-sessions.ts:96,136,143`); only the close handler looks (line 89).
* `OneActiveRun` (`scans_active`): `tickSchedules` passes no `activeRun` (`scheduler.ts:144`), and the request route
  ignores paused runs (`searches/[id]/runs/route.ts:13`).
* `ShutdownEnds` (`BrowserStop.cfg`): the wait loop of `browser-sessions.ts:150` never ends for a session whose launch fails.
* `NoBrowserAfterStop` (`BrowserResumed.cfg`): the Chromium probe calls `resumeBrowserSessions` whenever it answers, also
  after the stop signal (`runtime.ts:127`).
* `ExportRecovered` (`ScansExport.cfg`): a death between the verdict (`scraping.ts:102`) and the base export leaves a completed run
  whose export nothing remembers to write.
* `StaleSubmissionsSettle` (`AppsStranded.cfg`): a restart leaves an interrupted submission in `submitting` (`runtime.ts:53-57`),
  while `08-applications-and-recovery.md:124` says it becomes `submission_unknown`. No route resolves `submitting`,
  so the vacancy is blocked - on the safe side of `NoSecondDelivery`.
* `IdleReleased` (`InferenceIdle.cfg`): the idle loop of the inference service ends at `MODEL_IN_USE` (`server.py:179-184`).
* `KeyedOnce` (`RequestsKeyed.cfg`): starting a run and testing the model save the idempotency record after the commit of
  the operation (`searches/[id]/runs/route.ts:17-20`). The retry meets `ACTIVE_RUN_EXISTS` while the first run is at
  work (`AtMostOnce`) and starts another afterwards.
* `SameBodySameAnswer` (`RequestsUpload.cfg`): two uploads under one key both pass the lookup; the second meets the primary
  key and answers 500 (`resources/route.ts:17-21`).
* `UploadsAreIndexed` (`RequestsFile.cfg`): that second upload has replaced the file before it fails, and nothing indexes it.
* `InterruptedQuestionsEnd` (`RequestsQuestion.cfg`): a death between the claim of a question's operation and the first
  statement on the question leaves it `queued` beside a failed operation (`runtime.ts:56`).
* `EveryIntervalScanned` (`RulesLost.cfg`): the cursor is advanced in one commit and the scan inserted in the next
  (`scheduler.ts:154`).
* `EditStartsFreshInterval` (`RulesEdit.cfg`): the definition is edited in one commit and the cursor in the next
  (`schedules/[id]/route.ts:34-37`).
* `RestoredBeginsPaused` (`StoragePaused.cfg`): a restore puts the database in place before it pauses it (`backup.ts:19`). A
  death before the rename leaves no database, and the next start migrates an empty one.
* `AcceptedBackupIsWhole` (`StorageReused.cfg`): a backup into a used destination overwrites the database and only then
  fails, since only the files are written with `wx` (`backup.ts:12-16`); the older manifest vouches for the newer database.

Stated as an exception of a property:

* Preparation transitions record no event (`runtime.ts:88-89`) against `08:42` (`TransitionsPermitted`), and a
  preparation that a death interrupts stays `preparing`, with a failed operation (`OperationsEnd`).
* A file that is removed and comes back with the same bytes stays `missing`, because an unchanged hash is
  passed over (`resources.ts:67`; `IndexFollowsFile`).

Met while reading, with no property:

* Viewer tickets live five minutes in the code, sixty seconds in the deployment document. `POST resolve` needs
  `resolving`, which only the absent bridge could reach. Registering a task again keeps the old browser
  generation, although `09:168` speaks of the current one.
* `setWorkPaused` has no caller, so restored work stays paused for ever; a `.restore-<pid>` file left behind blocks the
  next restore under the same process id; `SingletonLock` links of Chromium profiles end a backup with
  `BACKUP_UNSUPPORTED_FILE`. A restore leaves newer exports in place, so a run repeated after it ends in
  `EXPORT_FAILED`, which `LiveHoldsExports` shows as the safe outcome. An export retry is finished by the worker
  without writing anything (`runtime.ts`, the last branch of `poll`).
* Uploads are written to `RESOURCES_ROOT`, the indexer reads `RESOURCE_ROOT`.
* `setScheduleCursor` clears `last_enqueued_at`; an exception in one search's tick skips the searches after it until the
  next poll. A run resumed but not yet claimed is failed by a restart; a cancelled run finalises no base export although
  `05-discovery-matching-and-identity.md:61` asks for one. A source's settings are read before the request body is
  awaited (`browser/route.ts:46-48`).

## 7. Not modelled, and why

Extraction of candidates from pages, prompts and model answers, canonical serialisation, address checks
of the egress guard: data without protocol. React views: the clients of the models send whatever
they could. Migrations, configuration, contracts: run once or declarative; the table constraints they
declare are in the modules that depend on them. Retention and artifact expiry: deletions by age in one
transaction that nothing else waits for. Authentication beyond login and revocation, searches, sources, settings and the
profile row: single-row edits that interact with nothing above.
