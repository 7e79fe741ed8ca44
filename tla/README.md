# cc-fix: specification and proofs

cc-fix makes a Windows machine look like it is in another region: it writes the
time zone, the locale, browser policies and a few environment settings, keeps a
backup of what the user had, and can put all of it back.  The hard part is not
the settings, it is the promise around them: whatever crashes, fails or is
refused half way, the machine is never left changed without the program knowing
and saying so, and the values the user had are never lost.

This directory states that promise in TLA+, checks it with TLC on small
instances and proves it with TLAPS for instances of any size: every safety
property that a run checks is also a theorem, and liveness is left to TLC.
Paths below are relative to the repository.

## 1. The system

| Component | Code | State it keeps | Operations | What makes it correct |
|---|---|---|---|---|
| persist transaction | `src/persist/transaction/` | nothing between calls; one operation in memory | `status`, `protect`, `restore`, `recover`, `setPreferredRegion` | changes are announced before they are made; a target is committed only when realised; what fails is undone; daily is published only when every setting is back; recovery ends |
| transaction journal | `src/state/journal.ts` | `transaction-journal.json` (phases), `.values` (originals), each with `.prev` | `plan`, `transition`, `read` | a step is reported before it is written; it can always be read |
| state and backup repositories | `src/state/repository.ts`, `schema.ts`, `persist/verified-backup-delete.ts` | `state.json` (revision, target, health, active transaction), `persist-backup.json`, the restore proof | `read`, `commit`, `create`, `deleteAfterVerifiedRestore` and its reconciliation | a revision names one state; what was reported survives; a later version's file is left alone; the proof follows the backup |
| durable checked file | `src/state/durable-file.ts`, `checksum.ts`, `native-helper/` | current, `.prev`, temporary file | `readCheckedFile`, `writeCheckedFile`, `deleteCheckedFile` | two files rotated, replaced and deleted one at a time are one register for whoever reads them |
| mutation lock | `src/state/lock.ts`, `file-lock-store.ts`, `mutation-coordinator.ts`, `process-owner.ts` | lock file, claim file, heartbeat timer | acquire, heartbeat, release, takeover by recovery | two processes never write at once; a dead owner is replaced, by recovery alone |
| legacy migration | `src/state/migration.ts`, `persist/runtime.ts`, `persist/backup-mapper.ts` | sentinel, evidence, the converted backup | migrate on start, undo, retry | the old bytes are kept; state and backup are settled together; it can be repeated |
| Windows authorities | `src/platform/windows/` | registry, policies, environment | `read`, `write` (done, read back as a folded language list, denied in part, thrown) | a write is read back, each setting as its own readback compares it |
| GUI server | `src/gui/server.ts`, `session.ts`, `sidecar.ts` | busy flag, shared runtime, scores before and after a fix, event streams | requests that start a job, status, event stream | whoever waits gets an answer; scores are compared across the fix |
| GUI page | `assets/gui/app.js`, `state.js`, `renderers.js` | controls, pending requests, the stream | events, answers, clicks | no control stays disabled or missing |
| font fix | `src/fonts/service.ts`, `elevated-script.ts` | backups, marker of scheduled deletions | `remove`, `restore`, the elevated script | nothing is deleted that a backup could have saved and did not; what was restored stays |
| detection runner | `src/detection/` | one run | probes in a worker pool, scoring | every probe reports once; a slow one does not hold the rest |
| IP intelligence | `src/proxy/ip-intel.ts` | cache, request in flight | lookup | one request in flight; a failure is not cached |
| desktop shell | `src-tauri/` | the sidecar's process | start, kill on exit | the sidecar ends with the window, in the middle of anything |
| command line | `src/index.ts`, `cli/exit-codes.ts`, `persist/preflight.ts`, `domain/region.ts`, `run/injector.ts` | none; the child process of `run` | a region and a target from the options, an exit code from what was thrown or returned | what a script or the installer reads from the exit code is true of the state left behind |
| others | scoring, history, packaging | log | | not part of the promise |

**Interaction.** The CLI and the GUI server call the transaction module.  Every
operation of it takes the root lock of the state directory for its whole
duration, reads state, backup and journal once, plans, and then alternates
durable writes (journal, state, backup) with system writes (authorities).
`recover` starts from the files alone.  Only `recover` takes over the lock of a
dead process.  The repositories write through the durable file, and take a
scoped lock under the root lock; reads take none.  Before the first operation of
a process, `createPersistRuntime` initialises the state directory or migrates
what a version 3 left in it.  The desktop shell starts a sidecar with the GUI
server; its page talks to it by requests, answered before the work is done, and
one stream of events.  All jobs of the server share one runtime and one busy
flag.  The font fix starts a script that runs elevated and is waited for through
a marker file.

**What is hard.** A crash between any two writes.  A durable write that throws
after the new content is on disk (`possiblyCommitted`).  A policy write that is
denied for some slots and kept for others.  A compensation that fails itself.  A
recovery that crashes.  A journal whose current generation is corrupt, so that
an older one is read.  A backup left over from an earlier attempt.  Two
processes that find the same dead lock.  A power loss that keeps a rename and
loses the content, or the other way round.  A deletion whose answer is lost.  An
elevated script that outlives the service.  A stream that breaks with the event
that would have enabled the controls.  `PROJECT.json` lists these hazards with
the line where each one bites.

## 2. Modules

| Module | Role |
|---|---|
| `PersistPlan` | Vocabulary without behaviour: steps, targets, the planner, journal, legal phase transitions, state records |
| `PersistTransaction` | The transaction module over the state directory and the machine |
| `PersistTransactionProofs` | Its types, the announcement of changes, and what is committed, proved |
| `Commands` | The command line over it: what a command asks for, and its exit codes |
| `RecoveryProofs` | What protections, restores, recoveries and exit codes leave behind, proved |
| `MCPersistTransaction` | Instance for TLC |
| `RootGate` | What the lock promises its callers: an abstract specification |
| `FileLock` | The mutation lock: lock file, claim file, heartbeat, release, takeover; its refinement of `RootGate` |
| `FileLockProofs` | Types, mutual exclusion, the refinement, and that heartbeats are harmless, proved |
| `MCFileLock` | Instance for TLC |
| `CheckedRegister` | What a checked file promises: a register that may be damaged. An abstract specification |
| `DurableFile` | Reading, writing and deleting the two generations of a file; power loss |
| `Repositories` | `state.json` and `persist-backup.json` over it, with two concurrent callers; the verified deletion of the backup |
| `StateDirectory` | `Repositories` with migration, processes that die, power losses, damage and later versions; its refinement of two `CheckedRegister`s |
| `StateDirectoryProofs` | All of its safety properties and the refinement, proved |
| `BackupSnapshot` | Pure: the user's settings as authorities, backup and version 3 backup write them |
| `BackupSnapshotProofs` | The three notations agree, proved |
| `MCStateDirectory` | Instance for TLC, with `BackupSnapshot` evaluated over a small instance |
| `FontFix` | The font service, its backups and marker, and the elevated script |
| `GuiServer` | The sidecar: jobs, shared runtime, IP intelligence, scores, events |
| `GuiPage` | The page: stream, requests, controls |
| `Desktop` | The three with the shell, an earlier version's removal of fonts, and restarts of Windows |
| `DesktopProofs` | No font goes without a backup, and nobody waits in vain, proved |
| `RestoredFontsProofs` | Restored fonts stay, proved |
| `SidecarProofs` | What checks ask and comparisons show, that a quiet page can be used, and all types, proved |
| `MCDesktop` | Instance for TLC |

`PersistTransaction` sees the lock as one variable: free, held, or stale after a
crash, with only `recover` allowed to turn stale into held.  That is `RootGate`
with one process at a time, and `FileLock` shows that the files give it until an
unlink steals the claim of a takeover.  In the same way it sees `state.json` and
the backup as registers that a write changes or not, whatever it reports: that
is `CheckedRegister`, and `StateDirectory` shows that the files give it.  It takes a backup for the
settings it was made from: that is what `BackupSnapshotProofs` proves.
`GuiServer` sees an operation of `PersistTransaction` as a job that ends well or
not.

### How the state corresponds

| Variable | Code |
|---|---|
| `authority` | the value of each managed setting; `Partial` is what an interrupted or partly denied write leaves |
| `state` | `state.json`: `committedTarget`, `preferredRegion`, `health`, `activeTransactionId` |
| `backup` | `persist-backup.json` |
| `values`, `journal`, `previousJournal`, `torn` | the journal's two files; `.prev` of the phase table; a checksum failure of its current generation |
| `lock` | the root gate; `"stale"` when its holder died |
| `pc`, `op`, `memory`, `pending`, `modified`, `failed`, `degraded` | the running call: the next write, what it read and decided at the start, its copy of the journal, the steps still to do, the steps to undo, whether some undoing failed, whether a policy write was denied in part |
| `daily`, `ignored` | history: the settings as the user last left them in daily mode; steps whose compensating write was denied, or answered by a folded language list, without anybody noticing |
| `transactions`, `faults`, `tears`, `drifts` | counters for the bounds |

A step is its position in `ALL_STEP_IDS`.  A value is a region code (what that
region dictates), a value only the user chooses, or `Partial`.  `LanguageStep` is
`user_languages`, whose readback compares base languages only: `Base` gives the
base languages of a value, and `Accepted(s, v)` is what the readback of step `s`
takes for `v`, which for every other step is `v` alone (`locale.ts:7-16`).

### How the actions correspond

Every durable write and every system write is an action, so that a crash or a
failure can fall between any two; everything the code does from one write to the
next belongs to the action of the write.  `Crash` may happen at every location.

| Code | Actions |
|---|---|
| `protect` (`index.ts`, `service.ts`) | `StartProtect`, `CreateDailySnapshot`, `PlanValues`, `PlanPhases`, `BeginTransaction`, `CompleteProtect` |
| `executePlan` (`executor.ts`) | `ReportApplying`, `ApplyStep`, `ReportVerified`; `ReportCompensating`, `RewriteOriginal`, `ReportCompensated`, `MarkUncompensated`; `PublishPrevious` |
| `restore` (`restore-service.ts`) | `StartRestore`, then `PlanValues` .. `BeginTransaction`, `BeginDailyStep`, `WriteDaily`, `ReportDailyVerified`, `MarkDailyFailed`, `PublishDaily` |
| `convergeBackupCleanup` (`backup-cleanup.ts`) | `BeginCleanup`, `DeleteDailySnapshot`, `VerifyCleanup`, `MarkCleanupFailed`, `FailCleanup`, `CompleteDaily` |
| `recover` (`index.ts`, `recovery-executor.ts`) | `StartRecover`, `RecoverReturnsEarly`, then the compensation actions with `RecoverUntouched` and `RecoverDoubtful`, or the daily and cleanup actions |
| `setPreferredRegion` | `SetPreferredRegion` |
| environment | `Crash`, `TearJournal`, `UserChangesSetting` |

Helpers stand for one function each: `Health` is `derivePersistStatus`,
`Readable` is `mergeValues`, `Transition` is `journalRepository.transition`
(an illegal phase change throws before it writes), `WriteJournal` is
`writeCheckedFile`'s rotation of the generations, `PlanTransition` the planner,
`BackupConflict` the check of `ensureDailySnapshot`.

A durable write has three outcomes: `"ok"`, `"lost"` (it threw, old content), and
`"committed"` (it threw, new content).  A system write has four: `"done"`,
`"folded"` (the language list only: success over another list of the same base
languages, as Windows leaves `ja` for `ja-JP`), `"denied"` (policies only: some
slots refused, nothing thrown) and `"threw"` (old, new or in between).  The
executor takes a folded list as it is (`executor.ts:68-69`), also when it
compensates; restore (`restore.ts:57-58`) and recovery
(`recovery-executor.ts:68-69`) read the setting again and compare it literally,
so that the step fails.  The in-memory journal moves only with `"ok"`, as in
the code, so after `"committed"` it lags behind the disk.

Two disjuncts exist in the code and in the model, and no behaviour takes them:
the phases of `BeginDailyStep` that a restore journal never holds, and
`VerifyCleanup` finding the cleanup verified by somebody else.

### The command line

`Commands` is pure: a command keeps no state between its calls.

| Code | Operators |
|---|---|
| `classifyError`, the top-level `catch` of `index.ts` | `ClassifyError`, `ExitOfOutcome`, `Exit`; `Before` for calls of which the first that throws decides |
| `resolveRegion`, `resolveProtectionRequest` | `ResolveRegion`, `RegionError`, `ResolveProtectionRequest`, `LevelError`, `DetectionRegion` |
| `persist on`, `off`, `recover`, `status`; `region set` | `PersistOnTarget`, `PersistOnExit`, `PersistOffExit`, `PersistRecoverExit`, `StatusExit`, `RegionSetExit` |
| the installer's preflight | `InstallerPreflight`, `PreflightExit` |
| `check`, `run`, `gui`, parsing | `CheckExit`, `RunExit` with `ChildExit`, `GuiExit`, `ParseExit` |

`Outcome` and `ExitCode` give the answer of the command whose operation ends with
the step under consideration, so that exit codes are checked against the state
that the transaction really leaves.

### The lock

`FileLock` has one action per file operation of a process, so that any two
processes interleave between `open` and `write`, between comparing and renaming,
between reading a claim and unlinking it.

| Variable | Code |
|---|---|
| `lock`, `claim` | the lock file and `<lock>.claim`; a file exists from `open('wx')` on and parses as a record once `written` |
| `alive`, `lingering` | the processes that run; those dead for less than five seconds, of which another process may still keep the answer "alive" (`cachedQuery`) |
| `pc`, `mode`, `attempts`, `mine`, `seen` | the call of acquire and release: where it is, whether it is `recover` and has `recoveryComplete`, the depth of the retry recursion, the id it proposed or holds, the lock it found |
| `at`, `outcome` | the claim section of the caller (`"main"`) and of the heartbeat timer (`"beat"`): the next file operation, and what `replace` or `remove` will return |
| `stolen` | history: an unlink of the claim file has hit the claim of a takeover that had not replaced the lock yet |
| `faults` | counter for the bound |

| Code | Actions |
|---|---|
| `acquireStateMutationLock`, `acquireRootGate` | `StartAcquire`, `CreateLock`, `WriteLock`, `ReadLock`, `Inspect` |
| coordinator: timer and `release` | `EnterSection(p, "beat")`, `StartRelease`, `EnterSection(p, "main")` |
| `claim`, `createAt` | `CreateClaim`, `WriteClaim`, `ReadClaim`, `UnlinkClaim` |
| `replace`, `remove` | `CheckLock`, `CommitLock`, `ReadOwnClaim`, `ReleaseClaim` |
| environment | `Crash`, `Expire` |

A process of the model is one incarnation, a pid with its start time.  A lock id
is named when it first matters, by its owner and a number from `LockIds`; at
most two of one owner are remembered by the other two processes, so four do.

Takeovers contend as they like: two recoveries of one dead lock may be anywhere
in their claim sections, and it is the claim file that keeps them apart.  It does
so until one of them removes the claim of the other: `claim` unlinks by path what
it has read as dead or half-written (`file-lock-store.ts:58`), and what lies there
by then may be new; `releaseClaim` (65-67) compares before it unlinks.  `stolen`
records such an unlink, while the claim was still needed.  Then the lock is
broken (finding 6); exclusion, the gate and the harmlessness of heartbeats are
stated, checked and proved up to that step and with no other condition.  Locks of
single files, which the repositories take under the root lock, are taken over
only by its holder, so that no two takeovers contend for them.

A write of the lock file or of a claim that fails has written its record or has
not: the sync that comes after the write may be what fails.

Two ways a lock stays closed for good, both seen in the model and neither
excluded by the code: a lock file whose record was never written (a crash
between `open` and `write`) parses as no lock, so that acquire gives up after
its attempts, in `recover` too; and a claim whose unlinking failed blocks every
takeover and release for as long as its maker lives (`Orphaned`).

### The state directory

| Variable | Code |
|---|---|
| `disk`, `survives`, `syncable` | per file and generation what it holds; what a power loss may leave of it; whether directories can be synced |
| `write` | the `writeCheckedFile` under way: file, payload, next file operation |
| `op` | the change under way: `commit`, `create`, `deleteAfterVerifiedRestore` or the migration, and where it is |
| `proof` | the verified-restore proof: available, reserved, finalized |
| `known`, `reading`, `reported` | per caller the state it read last and how far a lock-free read is; per revision the states whose commit was reported as done |
| `sentinel`, `evidence`, `legacyFits` | `legacy-migration.json`; the copy of the version 3 bytes; whether these are complete and fit the settings found on the machine |
| `running` | a process has its runtime |
| `faults`, `damages` | counters for the bounds |

| Code | Actions |
|---|---|
| `writeCheckedFile` | `Rotate`, `Replace`, `SyncReplaced`, `WriteFails` (anywhere, the new content in place or not) |
| `readCheckedFile`, `readInternal` | `ReadCheckedFile`, `RepositoryRead`, `BackupRead`; a read without a lock in two steps, `ReadCurrent` and `ReadPrevious` |
| `StateRepository.commit` | `Commit`, `CommitReturns` |
| `BackupRepository.create` | `CreateBackup`, `CreateReturns` |
| `deleteAfterVerifiedRestore`, `deleteCheckedFile`, `reconcileVerifiedRestoreDeletion` | `BeginDelete`, `DeletePrepared`, `DeleteCurrent(Fails)`, `DeletePrevious(Fails)`, `ObserveDeletion`, `SyncDeleted(Fails)`, `Reconcile` |
| `createPersistRuntime` | `StartMigrated`, `StartInitialised`, `Settled` with `WriteSentinel` |
| `initializeImported` | `Initialize`, of `Daily` (nothing to import) or `Imported`; the two first revisions differ in their writer |
| `migrateLegacyProtection` | `StartDaily`, `StartLegacy`, `PreserveEvidence`, `Convert`, `ConvertReturns`, `ImportReturns`, `RestoreLegacy` |
| environment | `Die`, `PowerLoss`, `DamageGeneration`, `NewerVersionWrites` |

A file write puts new content beside what a power loss may still bring back;
syncing the directory, where that works, makes it the only one.  `Left` is the
set of what a power loss may leave.  The backup is deleted by a restore, or the
recovery of one, which has committed the daily state before
(`restore-service.ts:49`, `index.ts:308-310`): `DailyPublished` is that guard.

### Desktop and fonts

| Variable | Code |
|---|---|
| `installed`, `registered`, `scheduled` | font files by name; values of the registry, each a font with one of `Names`, since several may name one file; `PendingFileRenameOperations` |
| `inventory`, `backups`, `marker` | the files copied into the backup being made; the complete backup directories; `font-remove-last.json` |
| `call`, `helpers` | the call of the service; the elevated script it waits for and one that nobody waits for, each with what it was given and its next statement |
| `restored`, `forgotten`, `fresh` | history: what the last restoration has reported; fonts of removals whose result was lost; values that appeared since a backup last read the registry |
| `server`, `busy`, `jobs`, `runtime`, `creations`, `intel` | the sidecar; its flag; how far the job of each kind is; `runtimePromise`; the cache and request of `fetchIpIntelligence` |
| `scores`, `fixes`, `compared` | `lastDetectScore`, `pendingRecheck` and the score being measured; the last `recheck` event |
| `streaming`, `inbox`, `missed` | the stream, the events on it, whether one that matters was lost |
| `rendered`, `disabled`, `fixActive`, `fatal`, `syncDue` | the controls of the page |
| `fixAsked`, `checkAsked`, `checkDue`, `checkHeld`, `unchecked`, `statusAsked` | the page's requests and timers |

| Code | Actions |
|---|---|
| `service.ts` | `StartRemoval` (the files, line 305), `RunRemoval` (the registry, 323, and the script), `BackupFails`, `RemovalReturns`, `StartRestore`, `RestoreReturns` |
| `elevated-script.ts` | `DeleteFonts`, `RemoveValues`, `ScheduleDeletes`; `CopyFonts`, `WriteValues`, `CancelDeletes`; `ScriptFails`, `StrayEnds` |
| `server.ts` handlers | `AcceptFix`, `AcceptCheck`, `AcceptFonts`; `ResolveTarget`, `EndFix`, `EndFonts`; `StartDetection`, `EndDetection` (with `CompareScores`), `FailDetection` |
| `getRuntime`, `fetchIpIntelligence` | `AskRuntime`, `RuntimeIsReady`, `RuntimeFails`; `AskIntel`, `IntelArrives`, `IntelExpires` |
| `app.js` | `OpenStream`, `BreakStream`, `ReceiveStart`, `ReceiveSummary`, `ReceiveDone`, `StatusArrives`; `ClickFix`, `ClickFonts`, `ClickRefresh`, `CheckIsDue`, `FixAccepted`, `FixRefused`, `CheckAccepted`, `CheckRefused` |
| `main.rs` | `OpenWindow`, `CloseWindow` |
| environment | `AskedElsewhere`, `EarlierVersion`, `Reboot`, `FontAppears` |

No command of this version reaches `remove()` any more; the versions before it
did, and `restore` undoes what they left.  So `EarlierVersion` removes fonts
only while the sidecar is down.  A removal looks twice, at the files and then at
the registry, and a file, values that name it, or both may appear at any time
(`FontAppears`).  The script compares names of files with the backup's and then
deletes every value that names one of them, saved or not.

A score is represented by the number of fixes that had been reported when its
detection began: whether two scores span a fix is what a comparison is about.

### What is abstracted

- A process id that is used again within five seconds of its owner's death, the
  temporary file of `replace`, and files that cannot be opened or read, are left
  out of the lock.
- Reading a file or a setting does not fail.  A failed read before the first
  write throws and changes nothing; one inside an operation is, for the next
  write, a write that threw.
- The revision of `state.json` is left out of the transactions: with one
  operation under the lock no other writer exists to conflict with.
  `StateDirectory` has it, and callers that read without the lock.
- `degradation` is empty exactly when health is not `degraded` (`schema.ts`), so
  health stands for both.
- Only the journal's phase table has a previous generation; `state.json` and the
  values snapshot do not get corrupt.
- The verified delete of the backup, and the lock, are each one step of the
  transactions.
- In the state directory a generation is a state, a backup, unreadable, of a
  later version, or missing; checksums, paths and links are not looked into.
  The scoped locks are left out: one change at a time is taken for granted.
  Evidence is named by a hash of the bytes, so that of other bytes is left out.
- A language list is a value with its base languages; the tags are not spelled
  out.  A folded list is one of the counted faults, so that a machine which folds
  the user's own list every time is not in the liveness run: there `restore` and
  `recover`, which compare literally, do not get through, and
  `RecoveryConverges` says nothing of it.
- A version 3 backup is complete and fits the machine, or not; which of its
  facts is missing or which JSON is malformed leads to the same end.
- A backup of fonts counts only when complete, so copying its files is one step
  and reading the registry and finishing it another.  A file is known by its
  name: what lies under the name of a file that was backed up counts as backed
  up, as for the script (`elevated-script.ts:87-89`).  The `.reg` format of old
  backups and deletions that somebody else has scheduled are left out.  Whether a script that runs elevated belongs to the sidecar's
  job object, and is killed with it, is left open: it may go on (`"stray"`) or
  fail at any point.  At most one stray script at a time.
- Of the events of the server those are kept that a page acts upon.  The hint
  about running browsers, progress, history, sessions and tokens, the limit of
  16 streams and a sidecar that crashes under an open window are left out.  Two
  automatic checks that are due together count as one.  Whether a failed summary
  is fatal is a choice, as is the visibility of the button for recovery.
- The user changes settings only while no operation is under way or unfinished:
  what a hand edit in the middle of a transaction should mean, the code does not
  say.
- `compensate` and `restore` bring a step back as one write, although the policy
  authority writes several slots; `Partial` stands for every mixture.

## 3. Runs

All runs of the transaction use three steps, one of each sort the code tells apart: a plain standard
step, the policy step (the only one that can be denied) and a deep-only step.
More steps of a sort repeat what one does, but with three there is a first, a
middle and a last, so that a failure can have steps before and after it.  Two
regions are the least with which a target can change.  The deep-only step is the
language list; in `PersistSafety` and `PersistLiveness` all regions are of one
language (`BaseLanguages`: en-US, en-GB, en-SG), so that a list of one region
passes for that of another and a change of region may leave it as it was; in the
violation runs no two values are (`DistinctLanguages`), since their findings owe
nothing to it.  Safety runs take regions
as symmetric; the liveness run does not.  `PlainRequests`, evaluated by both, says
that `persist on` without options asks for what is on already, or for the
standard protection of the preferred region.  Deadlock is not checked: the counters
end every behaviour.

| Run | Bounds (transactions, faults, tears, drifts) | Shows |
|---|---|---|
| `PersistSafety` | 3, 2, 1, 1 | the type invariant, seven safety properties and the exit codes: three transactions cover protect, change or downshift, restore; two faults cover a failure, a denial or a folded list and a failure of its repair; one tear makes recovery work from the previous generation; one drift covers a leftover backup |
| `PersistLiveness` | 2, 2, 0, 0 | recovery converges |
| five violation runs | the least bounds that show each | findings 1 to 5 of section 5 |

| Run | Bounds (processes, faults, attempts) | Shows |
|---|---|---|
| `LockSafety` | 3, 2, 2, symmetric | types, mutual exclusion, the gate, and that heartbeats cost nobody the lock: a dead owner and two who take over, or one who takes over and one who interferes, with a second crash or a failed operation in between |
| `LockLiveness` | 3, 1, 1 | a dead lock is taken over; a refused attempt fails at once, and it is the whole recovery that is repeated.  The one fault is the death of the owner: a recovery that dies as well is in `LockSafety` only |
| `LiveLockIsKept` | 3, 1, 2, symmetric | finding 6 |

In `LockSafety` two attempts stand for sixteen: the first fails, and there is or is
no other.

| Run | Bounds | Shows |
|---|---|---|
| `StateDirectory` | two callers, one new backup, revisions to 1, two faults, one damage | ten properties of the two files, the migration and the deletion of the backup, and that each file implements `CheckedRegister` |
| `Desktop` | two fonts with two values each, at first one each, three jobs, one fault, requests of other pages, symmetric in fonts and values | seven properties of jobs, page and fonts |

`StateDirectory`: two callers meet in one revision, and a caller may meet itself
before and after a restart; two faults are a failure and a failure or death in
its repair, or a failure in each of two files; one damage is a power loss, a
rotten generation or a later version's file in front of every prefix that two
faults allow.  Both kinds of platform are initial states: with directory sync
(the tests' file systems) and without (Windows).  With revisions to 2, or two
backups and one fault, the same properties have been checked by hand; they take
too long to be run every time.  The run also evaluates the conversions of
`BackupSnapshot` over all backups of two texts, one list and two policies.

`Desktop`: with three jobs there are a check, a fix and the check after it, or
removal, removal or restoration, restoration; one fault is a failed job, a
broken stream, a backup or a script that fails, a script that outlives its
service, or a font, or another value of one, that appears in the middle.  Other
pages ask for a switch, a check or a restoration of fonts; switching off and
recovering, which end like a switch, are asked for by the page itself.

Distinct states and time with two workers: `PersistSafety` 4.3 million in a
minute and a half, `PersistLiveness` in half a minute, `LockSafety` 600 000 in
half a minute, `LockLiveness` 490 000 in a minute and a half, `StateDirectory`
700 000 in a minute, `Desktop` 3.9 million in two and a half.

The properties:

- `ChangesAreAnnounced`: once an operation has changed a setting, the status
  derived from the files is `recovery_required` until the last commit.
- `UntouchedUntilReported`: the write-ahead rule.  In an open protect journal, a
  step that is still `planned` has not been written.  `recover` relies on it.
- `BackupIsDaily`: while a target is committed the backup is what the user had.
- `DailyIsClean`: daily, healthy and nothing open means that the settings are
  the user's (`BackAt`), save steps in `ignored`: a policy whose compensation was
  denied (finding 2) may hold anything, a language list must still be one of the
  user's base languages.
- `CommittedTargetIsRealised`: `protect` commits only over settings that read back
  as the target's: every setting has the target's value, the language list one of
  its base languages, and only the policy step may differ, and then the commit
  is `degraded`; after a downshift the deep-only settings read back as the
  backup's.  A committed list may so be `ja` for `ja-JP`, and en-GB for en-US; it
  is never one of other languages.
- `DailyOnlyWhenRestored`: the target is dropped only when all settings equal
  the backup.
- `CompensationRestores`: the old state is announced without a mark only over
  the original settings, save `ignored` in the same sense.
- `ExitCodesAreTrue`: after exit code 0 nothing is open and the installer's
  preflight passes; after 2 the target is on and known to be degraded; after 22
  the old target stands; after 23 the status asks to recover.  The clause for 0
  is for an `Intact` journal: if recovery had to read an older generation, that
  one may lag behind the restore it finishes, and `recover` ends with 0 though
  the phase table it leaves is still open (TLC finds it with one step, one tear
  and five faults; the status says `recovery_required`, so that nothing is
  hidden).
- `MutualExclusion`: at most one process is between acquire and release, up to
  the first unlink that steals the claim of a takeover (finding 6).
- `GateIsKept`: up to there, the lock file implements `RootGate`, with `owner` what the file
  says, `live` the processes that run, and `recovering` those that may take over.
- `HeartbeatNeverCostsTheLock`: a release that finds its own record and still
  reports a lost lock has met somebody else's claim, or an orphaned one; up to
  there as well.
- `DeadLockIsTakenOver`: a written lock of a dead owner does not last, unless an
  orphaned claim is in the way.
- `FilesAreRegisters`: what `readCheckedFile` finds changes only from the write
  or deletion under way, at one moment, or by damage.
- `RevisionNamesOneState`: two commits never both report success for one
  revision, however stale the state their callers have read.
- `ReportedCommitsSurvive`: where directories can be synced, no power loss takes
  back a reported commit.
- `ReadsAreCurrent`: a read that falls back to `.prev` returns what the file
  holds, although a write may have come between its two looks; except when the
  first look failed for a transient reason.
- `NewerIsLeftAlone`: no change begins on a file of a later version.  The
  exception is a read that fails at that moment, which hides the version
  (`repository.ts:361` looks at the failure of the read).
- `ProofFollowsBackup`: the proof is used up only when no generation is left,
  and given back only while the backup can be read.
- `LegacyIsKept`: the version 3 bytes are in their place or preserved.
- `ImportedWithItsBackup`: in every step of a running program whose files are not
  damaged, an imported state has the converted backup beside it: after the
  migration that reports it and after later starts.  There is one exception.  If
  the write of the state is reported as failed but took effect
  (`durable-file.ts:740-744`), `migration.ts:439-445` puts the version 3 backup
  back; the next start finds a state, takes the migration for settled
  (`runtime.ts:144-152`) and runs it beside a backup that nothing reads any more,
  although `migration.test.ts:308` restores the old bytes "so a retry can
  converge".  The property says that this pair comes from no migration that
  reports success, and that no third kind of pair exists.
- `MigrationSettles`: started again after every failure, the program comes up,
  or is in one of four situations that `Blocked` names and the code cannot leave
  by itself: facts that do not fit, a state that cannot be read, torn evidence,
  and a backup converted by a migration that died before it wrote the state.  To
  come up may be to come up over the pair that `ImportedWithItsBackup` excepts.
- `RemovedFontsAreBackedUp`: no font file goes that is not in a complete backup,
  and no value that was there when a backup last read the registry, though files
  and values appear at any time, scripts outlive the service, and deletions wait
  for the next start.  The exception are values in `fresh`: one that is added
  for a file already backed up, after the registry was read (`service.ts:323`), is
  deleted with the others (`elevated-script.ts:103-108`) and is in no backup, which
  is less than ADR-0013 asks for.
- `RestoredFontsStay`: what a restoration has reported stays, at the next start
  too; except fonts of a removal whose result was lost, whose scheduled
  deletions nobody knows of.
- `RecheckSpansTheFix`: of the two scores that are compared one was measured
  before the last fix and the other after it.
- `ChecksAskForThemselves`: a check goes without IP intelligence only if the
  query it waited for failed.
- `NobodyWaitsInVain`: while somebody waits for the runtime, for intelligence or
  for the script, that is being made, and the flag is set for a job that exists.
- `QuietPageIsUsable`: when nothing is under way or due, controls are on the page
  and enabled, unless the stream lost an event or the check was refused.
- `RecoveryConverges`: whoever is told to recover gets there, as long as the
  journal can be read (finding 1).

Once the journal has been corrupted, `BackupIsDaily`, `DailyIsClean`,
`DailyOnlyWhenRestored`, `UntouchedUntilReported` and `CompensationRestores`
fail, each of them as a consequence of findings 4 and 5; they are stated for an
`Intact` journal.  `ChangesAreAnnounced` and `CommittedTargetIsRealised` hold
with a corrupted one as well.

**Fairness.** `WF_vars(Proceed)`: a process that lives takes its next step; the
code between two writes waits for nothing but I/O.  `WF_vars(Recover)`: the user
runs `recover`, as every other operation tells them to; it is enabled as long as
the state asks for it and the journal can be read, because no other operation is
accepted meanwhile.  Nothing is assumed of faults except that they are bounded:
under an unbounded number of crashes no recovery ends.  For the lock:
`WF_vars(Proceed(p))`, a live process goes on, an operation that holds the lock
ends; `WF_vars(Expire(p))`, five seconds pass; `SF_vars(StartAcquire(p,
"recover"))`, somebody who is told to recover does so, though other operations of
the same process may come in between.  Heartbeats and other operations are under
no fairness.  For the state directory: a write that has begun goes on, and
`WF_vars(MigrationStep)`, the migration goes on and a program that is not running
is started again, which is how the code retries.  Callers, deletion and
everything that fails are under none.  `Desktop` has only safety properties and
no fairness.

## 4. Proofs

`PersistTransactionProofs` proves for every number of steps, regions and user
values, and without any bound on transactions, faults, tears or drifts (the
constants `Max...` are not assumed to be anything):

| Theorem | Statement |
|---|---|
| `TypeCorrect` | `Spec => []TypeOK` |
| `ChangesAnnounced` | `Spec => []ChangesAreAnnounced` |
| `CommitRealised` | `Spec => CommittedTargetIsRealised` |

Assumptions: `PlanAssumption` (there is a step, the policy step is a standard
one, the language list is not the policies, the special values are none of the
ordinary ones) and `NoneAssumption`
(`None` is no record, no number and no settings).  TLC evaluates both in every
run.

*Type correctness.*  That variables have their types is not inductive: a step
reads `memory.phase[s]` and `op.goal[s]`, which exist only where the program has
got to.  `TypeOK` therefore ends with `Located`: at every location after the
plan there is a journal in memory and one that can be read on disk, protect
locations are reached by protect only, and so on.  The proof cuts the state into
the part on the machine, the records, the process and the counters, and has one
lemma per action.

*Changes are announced.*  The invariant `Announced` says that, while protect or
restore runs, the settings are the original ones up to the commit that opens the
transaction, and that from then on `state.active` is set.  That is what makes
`Health` report recovery; the journal alone would not do, because it may be torn.

*Commits are realised.*  `ProtectProgress` joins two facts.  `PlanFits`: the plan
is the planner's for the settings read at the start.  `PendingFits`: every step
the plan contains is either still pending or holds its goal, or is the policy
step of a degraded run, while every `noop` step still holds what the target
asks.  When nothing is pending these give `Realised`.  "Holds" means `Accepted`
throughout: that a value, its goal and what the readback accepts are of the same
base languages is all that the proof needs of `Base`.

`RecoveryProofs` proves, from the same assumptions and for the same generality:

| Theorem | Statement |
|---|---|
| `BackupKept` | `Spec => []BackupIsDaily` |
| `DailyClean` | `Spec => []DailyIsClean` |
| `WriteAhead` | `Spec => []UntouchedUntilReported` |
| `DailyPublished` | `Spec => DailyOnlyWhenRestored` |
| `PreviousRestored` | `Spec => CompensationRestores` |
| `ExitCodesTrue` | `Spec => ExitCodesAreTrue` |

*What is left behind.*  None of the six is inductive: each is about the end of an
operation, or about files that a crash may have left at any place, and recovery
goes on from those.  `IInv` joins `TypeOK` and `Announced` with two kinds of
facts.  `Durable` is what the files say whoever reads them: the backup is `daily`
while a target is on, `Clean` in daily mode, and of an open journal `Undoable`
(a step that it shows as untouched or compensated has its original, and for a
first protection original, backup and daily are one) or `Bringable` (a restore
has its backup, or all settings are back and verified).  The other kind is what
the operation under way knows: `Starting`, until its journal is planned;
`SameTransaction`, `Reversible`, `Undoing` for a protect and its compensation;
`Backed` and `Restoring` for a restore, each of the journal in memory and the one
on disk, because a write that throws after it took effect sets the two apart
(`Agree` says when they are not).  A crash keeps `Durable` and ends the
operation; `StartRecover` gets back from `Durable` what an operation knows.  All
of this is under `Intact`; `Fresh` and `Applied`, which say how the phases follow
from what is pending, hold of a torn journal too, and that is what exit code 2 of
a degraded `protect` needs.

`FileLockProofs` proves, for any number of processes, crashes and failed
operations, any limit of attempts, and however takeovers overlap, from
`LockAssumption` alone:

| Theorem | Statement |
|---|---|
| `Exclusion` | `Spec => []MutualExclusion` |
| `GateImplemented` | `Spec => GateIsKept` |
| `HeartbeatIsHarmless` | `Spec => HeartbeatNeverCostsTheLock` |
| `TypeCorrect` | `Spec => []TypeOK` |

*The lock.*  Mutual exclusion says nothing about the file, so it is not inductive.
`LockInv` adds `OwnersAreNamed` (from creating or replacing the file to unlinking
it, the file names the process), which gives exclusion at once, and
`TakeoversAreDue`: whoever is about to take over has found a dead owner, and
between its comparison and its rename the file still names that owner.  That
holds because whoever changes the file is either the named owner, who lives and
is therefore not the one found dead, or another takeover, and of those only one
gets as far as its comparison: `ClaimsInHand`, a takeover between making its claim
and replacing the lock has its own claim in the claim file, and there is one such
file.  A claim is made only where there is none, and removed by its maker after
the replacement, or by an unlink that was meant for another; the latter, and
nothing else, sets `stolen`.  `SectionsFit` keeps heartbeat and release of one
process out of each other's way.  The lemmas prove `[](stolen \/ LockInv)`; the
gate is implemented in every step that ends with `stolen` still false.

*Types of the lock.*  That the lock file always holds a drawn id needs
`IdsAreDrawn`: whoever is about to write a record has drawn its id, and the
heartbeat writes the id that its process holds.  `SectionsHaveCalls` says which
call a thread in a claim section belongs to, and that two threads of a process
are never in one at the same time (`withClaimTurn`).

*Heartbeats.*  A release returns "lost" when its comparison fails or when its
claim fails.  `HeldIsWritten`: while a process holds or releases, its record is in
the file in full, so that the comparison succeeds.  What is left is the claim;
and since the timer of the same process is not in its section, the claim that is
in the way is somebody else's or `Orphaned`, as the property says.

`StateDirectoryProofs` proves, for any callers, snapshots and revisions, without
any bound on faults and damages, and for both kinds of platform:

| Theorem | Statement |
|---|---|
| `TypeCorrect` | `Spec => []TypeOK` |
| `OneStatePerRevision` | `Spec => []RevisionNamesOneState` |
| `CommitsSurvive` | `Spec => []ReportedCommitsSurvive` |
| `LegacyKept` | `Spec => []LegacyIsKept` |
| `NewerLeftAlone` | `Spec => NewerIsLeftAlone` |
| `ReadsCurrent` | `Spec => ReadsAreCurrent` |
| `ProofFollows` | `Spec => ProofFollowsBackup` |
| `ImportedTogether` | `Spec => ImportedWithItsBackup` |
| `RegistersImplemented` | `Spec => FilesAreRegisters` |

Assumptions: `ContentAssumption`, `RepositoryAssumption`, `DirectoryAssumption`
and `RegisterAssumption`: contents of different sorts differ (a state or a backup
is not unreadable, `None` is no write, no change and no answer, the importer and
the writer of a first daily state are no callers and not the same).

*The state directory.*  `IInv` says of every change under way what its write has
put where.  `Written`: from the sync on the payload is the current generation,
and after it all that a power loss may leave.  `Deleting`: both generations hold
the backup before the first is deleted, so that the reconciliation finds the
whole backup or none.  `Committing`: the state replaced is of the revision before,
and its own revision has been reported by nobody.  `Importing`: who migrates is
alone, with no state but the one it writes, and the evidence is whole before it
converts.  `Paired`: beside an imported state lies the converted backup or the
version 3 one it was made from, and no change is under way that takes it: a backup
is created only where there is none, deleted only beside a committed daily state
(`DailyPublished`), and converted only where there is no state yet.  `ImportPairs`
then shows that a reported import finds the former.  Of all times:
`ReportedOnce`, `Landed` (what was reported is in place, or damage is), `DamageShows` (damage is never written over: a commit does not
replace a generation that it cannot read), `Readers` (nobody reads before there
is a state or a sentinel; what a first look could not read no write repairs,
which is why the second look is current) and `Kept` (until the evidence is whole
nothing touches the old backup).

*The registers.*  Every action is, for each file, a step of `RegisterStep`: what
can be read of it stays, or becomes what is pending and nothing else, or is
damaged.  The one moment of a write is `Replace`, of a deletion the removal of
the last generation, and of an undone conversion the removal of the current one.

`BackupSnapshotProofs` proves, for any strings, lists and policies, from
`NotationAssumption` (the empty string is a string; null and a missing key are
neither strings nor lists):

| Theorem | Statement |
|---|---|
| `SnapshotIsValid` | what the authorities can have read makes a backup that the repository accepts and restore can write |
| `RestoredAsCaptured` | the daily values of that backup are what was read |
| `MigratedAsWritten` | a complete version 3 backup becomes a valid one with the same daily values |

*The notations.*  Each setting goes through its own pair of conversions; a lemma
for single values, one for policies and one for variables say that the pair is
the identity, and the theorems put them together field by field.

`DesktopProofs`, `RestoredFontsProofs` and `SidecarProofs` prove, for any set of
fonts and any clients of the session, and without any bound on jobs and faults:

| Theorem | Statement |
|---|---|
| `NothingGoesWithoutBackup` | `Spec => RemovedFontsAreBackedUp` |
| `WaitingIsNotInVain` | `Spec => []NobodyWaitsInVain` |
| `RestoredStays` | `Spec => []RestoredFontsStay` |
| `ChecksAskAlways` | `Spec => ChecksAskForThemselves` |
| `ComparisonsSpanTheFix` | `Spec => RecheckSpansTheFix` |
| `QuietPageUsable` | `Spec => []QuietPageIsUsable` |
| `TypeCorrect` | `Spec => []TypeOK` |

Assumptions: `FontAssumption` and `JobAssumption` (`None` is no call, no script
and no state of a job; there is a font), `PageAssumption` (clients ask for what
the session offers; `None` is no request).  The bounds on scripts (one of the service, one stray) and
on status requests stay.  Two lemmas, `FontSteps` and `SidecarSteps`, sort the
actions of the whole program into those that concern the fonts and those that
concern the jobs; everything else leaves them alone.

*Backups.*  A backup lists the files of one moment and the values of a later one.
`BackupsCover` says that once there is a backup every value in the registry is in
one of them or in `fresh`: a backup takes all that are there and empties `fresh`,
what appears afterwards enters it, and a restoration writes back only what a
backup has; and that every file whose deletion is scheduled is in a backup.
`ScriptsWorkFromBackups` says that a script works only from names
and values of complete backups.  A script deletes values only after its names
were compared, so that there is a backup by then.

*Restored fonts.*  A deletion scheduled from before could take a restored font at
the next start.  `RestoredInv` says where such deletions can come from: the
marker lists them, so the restoration cancels them; the removal under way has
scheduled them, and its fonts no longer count as restored; or the removal is
forgotten, which is the exception in the property.  The marker lists all of the
first kind because there is no removal while another is pending
(`MarkerIsOfTheLast`) and an earlier version removes only while the sidecar is
down (`RemovesOffline`).  The service's own script and a stray one may interleave
in every way; a stray removal is a forgotten one.

*Waiting.*  `JobInv` is the property with types; that a restoration has its
script follows from `CallHasScript` of the fonts.

*Comparisons.*  The busy flag gives `OneJob`; so no fix is reported during a
detection, and `ScoresAreDated`: the score being measured is that of all fixes
reported, and one that waits for its comparison is older than the last of them.

*The page.*  A quiet page says nothing of how it became quiet, so `PageInv` says
who owes what.  `ControlsComeBack`: controls are disabled only while the request
or the job of a fix, its summary or an answer of the status is on its way.
`CardComesBack`, `StartsAreClosed`: a card is marked by a start, and behind every
start on the stream comes a summary, or its job is still there.  `PageComesBack`:
controls are missing only while a check is held, asked for, under way or has its
end on the stream.  `DownIsQuiet`: without a sidecar there is nothing of all
this.  `TellingKeepsPage` has the argument once for all jobs: a job that ends
either puts its event at the end of the stream or sets `missed`.

*Types of the desktop program.*  `Counted` is what does not follow from shapes:
a fix is counted when it ends and was counted as begun before (`FixesAreBegun`),
and one runtime is made at a time (`OneCreation`).

Only model-checked: `RecoveryConverges`, `DeadLockIsTakenOver` and
`MigrationSettles`.  They are liveness properties under fairness, and need
ENABLED, which is out of the prover's reach.  `PlainRequests` and the
conversions of `BackupSnapshot` are evaluated over small instances; the latter
are proved as well.

## 5. Findings

1. `plan()` writes the values file before the phase table.  A crash in between
   leaves two transaction ids and `read()` throws for every operation, `recover`
   included (`journal.ts:160`; run `JournalStaysReadable`).
2. The executor drops the result of a compensating write, so a denied policy
   slot passes for compensated (`executor.ts:78`; run `CompensationIsVerified`).
3. After a fully compensated failure the steps never reached stay `planned`, so
   the status asks for recovery although exit code 22 says the old target stands
   (`executor.ts:77`; run `CompensatedLeavesNothingOpen`).
4. With a corrupt journal, `recover` replays a transaction that `state.json`
   shows as closed (`index.ts:256`; run `CompletedIsNotReplayed`).
5. The doubt about a journal read from `.prev` is lost once recovery has written
   it; a second recovery closes steps without writing their originals back
   (`recovery-executor.ts:48`; run `ClosedStepsAreUntouched`).
6. `claim()` unlinks a dead or half-written claim without looking again.  Two
   recoveries of one dead lock remove each other's claim, and the second renames
   its record over the lock of the first, which is alive and holds it
   (`file-lock-store.ts:58`; run `LiveLockIsKept`).

## 6. Plan

1. `ProtectionContract`: what a caller may rely on (mode, open or not, user
   values), which `PersistTransaction` implements under a refinement mapping,
   checked as a property of `PersistSafety`.
2. The scoped locks under the root lock, as a composition of two `FileLock`s.
3. A sidecar that crashes under an open window, and the single instance of the
   shell.

Proofs to follow: those of `ProtectionContract` and of the scoped locks.  What
each step of a recovery or a migration comes nearer to its end by could be stated
as a measure and proved to decrease; the convergence itself stays with TLC.

Not to be modelled: probes and registry access (I/O), output and commander's
parsing of arguments, scoring (a table whose tests enumerate it; an operator
would repeat it), the history log (nothing reads it to decide), the variables
that `run` gives its child, installer and release scripts.
