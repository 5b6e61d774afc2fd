# WinMedic in TLA+

WinMedic checks a Windows PC, lists what it finds and repairs what the user
ticked. This directory holds TLA+ modules that model it, the TLC runs that check
them on small instances, and TLAPS proofs of what matters most for every
instance. Paths below are relative to `src/src/` unless they start with `docs/`.

    tlasany M.tla                       # parse
    tlc -config X.cfg M                 # one of the runs below
    tlapm MProofs.tla                   # check proofs

`PROJECT.json` lists the components, the runs, the source lines each definition
stands for, the hazards, what was found, and one mutant per checked property: a
plausible bug, which TLC has to find.

## 1. Inventory

WinMedic is one executable with three faces: a window (`gui/`, `app/`), a command
line (`main.rs` `run_headless`), and the background helper, which is the command
line started by a scheduled task (`--helper`). They share the engine
(`engine/runner.rs`), the checks (`modules/`) and what is kept: `config.json`,
`last_scan.json`, the audit log and the crash logs under the data directory, the
registry backups in `.reg` files, each with its hash in a key that only
administrators can write (`HKLM\SOFTWARE\WinMedic\Backups`).

| component | state it keeps | operations | makes it correct |
|---|---|---|---|
| diagnostic scan: `engine/runner.rs` `run_scan`, `app/events.rs` | a task per check, a progress channel, an event channel, a cancellation token; a row per check and the findings in the window | spawn, join, forward progress, cancel, drain | nothing after the end, nothing reported twice or lost, what is returned is what is shown, a cancelled scan ends |
| repair run: `run_repairs`, `app/run_control.rs`, `app/events.rs` | a copy of the findings, the repair's task, its command, three channels in a row | restore point, simulate, repair, cancel, drain | nothing in a simulation or before the restore point, one repair at a time, window and engine agree, the run ends |
| checks and repairs: `modules/*.rs` | none between scans | query Windows, decide findings, look again, back up, change, read back, report | what is found is there, what was repaired stays repaired, nothing else is touched, nothing is changed without its backup, what is reported is so |
| checks that only report: `modules/service_chain.rs`, `feature_rollback.rs`, `storage.rs`, `crash_timeline.rs` | none | read logs by their ends and newest events, walk along dependencies | no cause and no loss is hidden by what was not read |
| services a repair stops: `utils/service.rs`, `modules/windows_updates.rs`, `modules/devices.rs` | a guard with the services it stopped | stop with dependents, work, start, check, start in the background when dropped | what was stopped runs again; nothing is touched while it runs |
| command runner: `utils/cmd.rs`, `utils/job.rs` | the child, its readers, a job object, PowerShell's slots | start, time out, cancel, kill, drain, try again | every call returns, nothing it gave up runs on |
| decoding: `utils/decode.rs`, `utils/cmd.rs` | the bytes of an unfinished line, the last redraw | feed, finish | lines come out whole however they are cut |
| decisions kept from scan to scan: `app/state.rs`, `app/archive.rs`, `app/filters.rs`, `app/scan_state.rs` | shown and archived findings, ticks, waits for a restart; `last_scan.json` | scan, tick, archive, save, load, poll, settle after a restart | what the user left out stays out, what waits for a restart waits exactly until it |
| pages: `app/filters.rs`, `app/preview.rs`, `gui/views/` | filter, cursor, preview | filter, move, count, foretell | every page agrees with the findings, what is promised comes true |
| window session: `app/confirm.rs`, `app/input.rs`, `app/safety.rs`, `app/settings.rs`, `gui/mod.rs` | the pending dialog, busy flags, token, settings and the engine built for them | a frame: take in events, restart, poll, keys, draw | dialogs act when idle, one installation, an update starts in the end |
| background helper: `main.rs`, `utils/background_task.rs` | the scheduled task, the setting, the executable's path | register, remove, start, run | the task matches the setting; nothing scans when it is off |
| headless run: `main.rs` `run_headless` | options, exit code | scan, choose, repair, save, print, Ctrl+C | exit code, document and saved scan say what happened |
| registry backups: `safety/reg_backup.rs` | `.reg` files and their anchors | export before a change, list, delete, roll back | what was there before a repair can be put back, and only what WinMedic wrote is imported |
| restore points: `safety/restore_point.rs` | Windows' limit on them | lift the limit, ask, put it back, look | protection means a new point |
| configuration and saved scan: `config.rs`, `app/scan_state.rs` | `config.json`, `last_scan.json` | load, move aside, save through a temporary file | never half written; an unusable file is kept |
| logs: `safety/audit.rs`, `utils/crash_log.rs`, `utils/crash_report.rs`, `app/crash_offer.rs` | files of bounded size, the time crashes were seen until | append, rotate, offer a crash | order, nothing lost within the bound, one offer |
| self update: `utils/updater.rs`, `utils/self_update.rs` | the release offered; staging file, executable, parked old one | choose, download, verify, rename twice, restart, sweep | forward only; always an executable, only a verified one put in place |
| debug log, drawing, report writer, Windows bindings: `utils/debug_log.rs`, `gui/`, `engine/reporter.rs`, `utils/` | widget state | append, draw, format, wrap | - |

They interact through

- **channels**: checks -> forwarder -> engine's event channel -> window; a
  repair's command -> line channel -> progress channel -> event channel ->
  window; background tasks -> `bg_rx`. The first five are bounded and block their
  senders. `process_background_events` drains them once a frame;
- **the cancellation token**: set by `[Esc]` or Ctrl+C, polled first in each
  `select!` of the engine;
- **files**: `last_scan.json` is written by the window and by the helper and
  polled by the window once a second; `config.json` by the window, which the
  helper reads; the executable itself, replaced beside other starts;
- **Windows**: services, registry, tasks, restore points, logs, through commands
  that have time limits, and which somebody else may change meanwhile.

What is hard here: results and progress take different ways to the window; a
cancellation races everything; a repair is dropped at any `await`; a query may
have no answer; a command that ran into its limit may have worked; what a
command leaves running holds its pipes; window and helper write the same files;
checks made when a dialog opens are relied on when it is answered; work begun in
the background outlives the run, and maybe the process. `PROJECT.json` lists
each such hazard at its line with the properties that cover it, and what they
leave open.

## 2. Modules and their correspondence to the code

### The core

`Findings` - `engine/issue.rs`, the score and `engine/exit_code.rs`. What a finding is, how
`record_repair` changes it, which are repaired. Operators only, used by
`RepairRun`, `Decisions`, `Pages` and `Headless`.

`ScanContract`, `ScanRun` - the scan. `ScanRun` has the engine's loop as the
states of `engine`, each `.await` a state of its own; `task` is the JoinSet;
`progQ`/`held`/`events` are the two channels and the message the forwarder holds;
the `On...` actions are the arms of `process_scan_events`. A channel of capacity
n is a sequence, a `send().await` is a guard on its length, a dropped receiver a
send that does nothing. `select!` is biased: `Join` is only enabled without the
token. `JoinSet::shutdown` makes running tasks `aborting`: they may still report
progress until their next `await`, but lose their result. `ScanContract` is the
promise to whoever started the scan; `ScanRun!Contract` is the refinement
mapping (outcomes are the window's rows).

`RepairContract`, `RepairRun` - the repair run, with at most one streamed
command per repair. The output passes `lineQ` (`run_cmd_streaming`'s channel),
`bridge` (`console_lines`), `fixQ` (the repair's progress channel), `forwarder`,
`events`. A command that has ended but left a process holding its pipe is
`command = "left"`: the line channel's readers do not end then, nor does the
forwarder. Restore point, simulation, missing modules, abort and drain follow
`run_repairs`; the `On...` actions are the arms of `process_repair_events`.
`RepairContract` is the promise to the machine.

`Decisions` - several sessions of the window, restarts of Windows, and the
helper, over the file of the last scan. A list of findings is a function from
ids to records, `shown` and `hidden` the two lists `archive::split` makes.
`CarryOver`, `KeepWaiting`, `Settled` are `carry_over`, `keep_waiting`,
`settle_after_restart`. Scans and repair runs are reduced to the order in which
results arrive (`ScanRun` and `RepairRun` have the rest). `leftOut` and `waiting`
are history variables: what the user unticked, and the repairs recorded as
waiting for the end of this boot. A `World` says what goes on around the window;
several are checked in one run.

`ServiceRepairs` - emptying the update cache, resetting the update components
and clearing the print queue over `utils/service.rs`. `repair` is the repair at
work, with its guard (`StartAgain`) as a field; `background[n]` what the guard
of the n-th repair still starts after it was dropped; `sweeping` the blocking
thread that empties the cache and is not ended by a cancellation. Windows is
external: `net stop` stops a service only when nothing that runs depends on it,
at once, late (`world.slow`) or not at all; `net start` starts a service with
what it depends on, and does nothing while one of them is stopping; nobody else
starts or stops services; Windows Update makes its folders anew. A service that
`net start` or a dependency brought up may be "starting" for a while and then
run or fail. `CheckStarted` takes it for running, as `service.rs` does
(`SERVICE_START_PENDING`), so that `repair.pending` keeps those of which the
repair knows no more.

`Session` - one window. A frame is the sequence `runs` (`process_scan_events`,
`process_repair_events`), `background` (`process_bg_events`, one event per step),
`restart` (`restart_into_update_when_idle`), `poll`, `keys`; a minimised window
skips the last. Tasks end between any two steps, and the window hears of it only
where it looks. `busy`, `token`, `restoring`, `updating`, `restartInto`, `quit`
are the fields of `App`; `task`, `restores`, `installs` what really goes on.
Settings are a version number, the engine the version it was built with. Left
out: tabs, filters, the text input of a setting, the crash report.

### Checks and repairs

`Fixes` - what they have in common. `setting` is a record of what Windows holds
of one part of it, `saved` the backups, `reported` the findings of the last scan.
A check is an operator `...Findings(s, answered)`: its findings as a function of
the settings and of which queries were answered. A repair is a disjunction over
`repair.at`, the place it has come to; between two places lies an `await`, where
`Cancel` may drop it. The steps are those the repairs are written with: `BackUp`
(`export_key`: without a backup, no change), `Command` (works, fails, has worked
when its time is over, or is undone at once), `LookAgain`, `ReadBack`, `Each`
(one item after the other), `Return` and `End` (`Ok` is "done" or "nothing",
`Err` "failed", or "unchanged" where its message says that nothing was changed,
`RepairError::unchanged`). Some repairs return `Ok` although what they read back
at the end did not say whether they had worked: the state of a task that its
service does not report, the packages that cannot be counted after the cleanup,
a policy whose edition reads otherwise than before. The code reports these as
done and says so in its message at most; here they are "unproved", and `done`
keeps the findings whose repair was reported done and did read back.

| module | code | parts of Windows |
|---|---|---|
| `Tweaks` | `modules/tweaks.rs` | core services, system devices, the threshold for processes of services, policies, hosts file |
| `Network` | `modules/network.rs` | adapter with address, DNS servers and name cache; proxies and Winsock catalog |
| `Startup` | `modules/page_file.rs`, `registry_startup.rs`, `clock_restart.rs` | page file, Run values, the clock, restarts |
| `Hardware` | `modules/devices.rs`, `opengl_driver.rs`, `whea_logger.rs`, `event_log.rs` | OpenGL entries, devices, print queue, hardware errors |
| `Cleaner` | `modules/storage.rs`, `system_cleaner.rs`, `windows_updates.rs` | dirty bit, icon cache, temporary folders, caches, logs, recycle bin, component store's packages |
| `Integrity` | `modules/system_integrity.rs`, `install_media.rs` | component store with its ISOs, system files, shadow copies, recovery, WMI, store apps |
| `Upkeep` | `modules/scheduled_tasks.rs`, `windows_updates.rs` | tasks, failed updates, update services, a pending restart |
| `Crashes` | `modules/crash_analysis.rs`, `event_log.rs`, `shell_extensions.rs` | blue screens, how dumps are written, add-ons of Explorer |
| `AllFixes` | puts them together | one part per behaviour |

In `AllFixes` a scan has any subset of its queries answered, and between scans
and repairs Windows restarts (`Restart`) or somebody else changes what was
reported (`SomebodyElse`). What each part says of itself (`About`): its queries,
which findings are advice, which are settled by a restart, which repairs look
again first, what they back up.

### What is kept, read and shown

`Records` puts ten modules together that share no state; `subject` says which one
a behaviour is about.

- `Backups` - `safety/reg_backup.rs`. `files` and `anchors`: an export writes the
  file, then its hash; a rollback compares them, checks the contents and imports.
  Crashes, edits of the files and values made by a repair in between. Two exports
  of a key in one second write the same file (`Overwrite`). "odd" is text that
  goes on over a line break: one such value cannot be cut from an export, and
  `CheckContents` refuses a whole key that holds it, though WinMedic wrote it.
- `Saves` - `config.rs` and the saved scan: temporary file, rename, move aside
  what cannot be read, by processes that may die at any step.
- `AuditLog` - `safety/audit.rs`: take over what an older version
  logged, check the size, shift the files, append.
- `CrashOffers` - `utils/crash_log.rs` and the offer of a report: a crash log, an
  event of Windows, or both, against the time up to which they were seen. The
  query for events looks back `LookBack`, brings the newest only or nothing at
  all, and the time is saved either way; the first look reaches back
  `FirstLookBack`. `missed` is the history of what a saved look could not see.
- `Releases` - `utils/updater.rs`: tags as numbers and a pre-release, the assets
  in any order, and which release is offered.
- `Decoding` - `utils/decode.rs`: bytes in pieces cut anywhere, three encodings,
  redrawn lines.
- `Rollbacks` - `modules/feature_rollback.rs`: the ends of servicing logs that
  Windows goes on writing.
- `StorageErrors` - the disk errors of `modules/storage.rs`: a query that returns
  only the newest, and the second one when it was full.
- `Pages` - what the list, the badges and Easy mode derive from the findings.
- `Timeline` - `modules/crash_timeline.rs`: what changed before a series of
  crashes. `installed` is when each program, update and driver was really
  installed or registered again, also where the log no longer says so.

### What else WinMedic does

`Operations` does the same for six.

- `Headless` - `run_headless`: its switches, the scan, the restore point, the
  repairs, the documents, the saved scan, the exit code, Ctrl+C at any moment.
- `HelperTask` - `utils/background_task.rs` with the settings page, a start, an
  update that renames the executable, `--uninstall` and the helper.
- `RestorePoints` - the script of `safety/restore_point.rs`, step by step, under
  Windows' limit of one a day. Its 180 seconds may be over, or the run cancelled,
  at every step (`Killed`), also while it has the limit lifted; either list of
  points may be unreadable; two may ask at once.
- `ServiceChains` - `modules/service_chain.rs` on every graph of three services
  and a driver.
- `Commands` - `utils/cmd.rs`, `utils/job.rs`: start suspended, join the job, end,
  hang, leave a process behind; slots and the queue for PowerShell.
- `SelfUpdate` - `utils/self_update.rs`: download, checksum, signature, the two
  renames and their undoing, the sweeps of other starts.

`MCDecisions` and `MCServiceRepairs` give the constants that a configuration
cannot. `ScanRunProofs`, `RepairRunProofs`, `DecisionsProofs`, `SessionProofs`,
`ServiceRepairsProofs`, `AllFixesProofs`, `RecordsProofs` and `OperationsProofs`
hold the proofs about the modules they are named after.

Where modules depend on each other's results they take them instead of importing
variables: `Decisions` takes from `ScanRun` that the findings of a scan arrive
check by check and that nothing follows its end; `Session` and `Headless` take
from `ScanRun` and `RepairRun` that a run ends, exactly once; `ServiceRepairs`
and `Fixes` take from `RepairRun` that repairs come one at a time and may be
dropped at any `await`, and from `Commands` that a command ends within its limit.

## 3. Runs

Bounds are small but chosen so that every case arises: channels of capacity one
or two fill up and block; three checks are needed for one to end, one to fail and
one to be cut off; two repairs for one to run into what the other left behind.

| run | question | bounds, and why they are enough |
|---|---|---|
| `ScanRun` | does a scan keep its contract, and end? | 3 checks, 1 progress message each, capacities 1 and 2: both channels fill up, a check's progress overtakes and is overtaken by results |
| `RepairRun` | does a repair run keep its promise, tell the truth and end? | 3 findings (plain, needing a restart, module gone), 2 lines of output through channels of 1, all options |
| `RepairRun_leftover` | violated: may a process that a command left running hold up the run? | 1 line, capacities 1 |
| `Decisions` | do decisions outlive scans, sessions, the helper and restarts? | 2 findings of 2 checks (one needs a restart, one is the advice to restart), 3 scans, 1 restart, three worlds |
| `Decisions_unticks` | violated: does a cancelled scan forget what was unticked? | 2 findings, 3 scans |
| `ServiceRepairs` | does what was stopped run again, and is nothing touched while it runs? | 2 update services with a dependent that needs both, the spooler; 2 folders; 2 repairs of any kind: the guard of the first may be at work beside the second |
| `ServiceRepairs_ends` | violated: also if WinMedic ends with the run? | the same |
| `Session` | do dialogs act when idle, is one update installed, and started in the end? | 2 runs, 2 restores, 1 change of settings, 1 foreign scan, 1 update |
| `Session_settings` | violated: does the next scan use the settings shown? | the same, 1 restore |
| `AllFixes` | is what was repaired repaired, backed up, all that was touched, and truly reported? | each of 37 parts, all four configurations, 2 repairs: the second may undo the first |
| `Records` | is what is kept, read and shown whole and true? | 2 processes, writers, values, releases, scans; 2 rotated files; 3 crashes; outputs of 4 characters in pieces of 3 bytes; 10 lines of servicing logs read by ends of 4; 5 disk errors for a query of 2; 4 happenings before crashes |
| `Operations` | do the operations beside scans and repairs tell and do what they say? | 2 problems; 2 places of the executable; 2 requests for a restore point; all graphs of 3 services with 2 dependencies; a query and DISM; 1 updating window, 2 installations, 2 other starts with 2 tries each |

In `Decisions` the process may be quit, in `Session` the window closes, and in
`ServiceRepairs`, `AllFixes`, `Records` and `Operations` the bounded number of
repairs, saves, crashes or requests is used up: there TLC is told not to look
for deadlocks. `ScanRun` has a stuttering end (`ScanOver`), so that any other
stop is a deadlock; `RepairRun` can always toggle the simulation switch or end.

### What the passing runs show

`ScanRun`: `EndIsTheEnd`, the event that ends a scan is the last of all, which
needs the wait for the forwarder; `WindowShowsWhatWasReturned`; the refinement
`ImplementsContract`; `EveryScanEnds`: a cancelled one even with a check that
never ends by itself, any other if the checks do.
`RepairRun`: `EventsInOrder` (output inside its step, nothing after the end),
`WindowTellsTheOutcome` of each finding and in the tally,
`SimulationChangesNothing`, the refinement `ImplementsContract`, which says that
nothing is done before the restore point, and `EveryRunEnds`.
`Decisions`: `ArchiveIsSortedOut` at every moment, `DecisionsHold` (what was left
out is not taken up again or lost to both lists, what was repaired is not
scheduled again),
`WaitsUntilRestart`, `NothingWaitsForAPastRestart`. Each names the worlds it is
about in its first conjuncts.
`ServiceRepairs`: `RunsAgainInOrder`, `TouchesWhileStopped`, `ReportsAreTrue`.
The order in which services start again (what others need first) and that
nothing runs while a repair touches files are promised of a repair that is
`alone`: the guard of an earlier one that failed, still at work in the
background, may start what this one has just stopped, and what depends on it.
`Session`: `OnlyWhenIdle` (the answers of dialogs, `AnsweredWhenIdle`, and the
start of an update, `StartedWhenIdle`), `OneInstall`, `UpdateIsStarted`.
`AllFixes`: `RepairedStaysRepaired`, `BackedUpFirst`, `OnlyWhatWasReported`,
`PutRightIsLeftAlone`, `ReportsAreTrue`.
`Records`: `RollsBack` (`Backups`), `NothingIsLost` (`Saves`, `AuditLog`,
`CrashOffers`), `LinesHoweverCut` (`Decoding`), `UpdatesGoForward` (`Releases`),
`PagesAgree` (`Pages`), `TellsTheTruth` (`Rollbacks`, `StorageErrors`,
`Timeline`, and that Repair does what its page promised).
`Operations`: `RunIsToldTruly` (`Headless`), `TaskFollowsSetting` (`HelperTask`),
`ProtectedMeansNew` (`RestorePoints`), `EveryCauseIsTold` (`ServiceChains`),
`NothingLeftBehind` (`Commands`), `UpdateIsSafe` (`SelfUpdate`) and, that calls
return and what an update replaced is deleted, `WhatIsBegunEnds` (both).

### What the violated ones show

Each quotes in `PROJECT.json` the line of the repository that says otherwise.

1. `RepairRun_leftover`: the wait for a repair's forwarder has no limit and no
   token. `PIPE_DRAIN_LIMIT` bounds the wait for a command's readers, but not the
   forwarder, which ends only when those readers let go of the line channel.
2. `Decisions_unticks`: `start_scan` keeps the decisions in `last_findings`, which
   every end of a scan clears; after a cancelled scan the decisions about what
   was not reported are gone.
3. `ServiceRepairs_ends`: the guard starts services in a spawned task; on the
   command line the process ends without waiting for it.
4. `Session_settings`: a setting changed during a run never reaches the engine
   until the next change.

Defined beside these and violated as well, but in no run: `ScanRun!DoneRowsAreFull`
(a bar falls back), `ServiceRepairs!HalfwayRunsAgain` (a service that stops after
the guard gave up on it), `ServiceRepairs!AlwaysTouchesWhileStopped` (the guard
of a failed repair works beside the next repair), `Session!NothingCutByUpdate` (a
key of the very frame that decided to close starts a run) and
`Session!SameSelectionAgain` (while the question whether to repair without a
restore point is open, the poll may replace the list; yes repairs the new ticks).
What the source or its docs say without the exceptions of the properties is
defined beside them too, and violated: see the next section.
`Decisions!NeverScheduledAgain` is violated where the helper runs at any time: it
loads the last scan and saves over it without looking whether it changed in
between, and a window that is then quit has lost what it recorded. The
properties of `Decisions` say in their first conjuncts that they leave this out.

### What the properties except

Some promises of the code hold but for cases that its own steps bring about.
These cases are in the models and in the runs; the property names each of them,
and beside it stands the promise as the source has it, which is violated.

| property | except | as the source says it |
|---|---|---|
| `AllFixes!RepairedStaysRepaired` | `BeyondRepair`: a folder of which some files were held open while others were deleted (`cleanup_result` reports done as soon as one was deleted); memory no larger than the default threshold; memory that fails its test, or crashes without a time to compare with it; and "unproved" repairs. The reset of the updates is judged by the next update that installs | `EveryRepairedStaysRepaired` |
| `Backups!CanBeRolledBack` | the file was edited or its backups given up; a later repair in the same second overwrote it (`reg export /y`); the value was not there, so that an import leaves what the repair wrote; the file holds text that the content check takes for another key | `EachCanBeRolledBack` |
| `CrashOffers!OfferedOnce` | `missed`: the query for events failed, timed out or did not reach back as far, or the crash came while the window looked, or in the second of the look, or before the first look begins; `Displaced`: newer logs took the place of its own | `OfferedAtNextStart` |
| `RestorePoints!ProtectedMeansNew` | the first list could not be read and the second could: an old point then counts as new; the limit was left lifted by a script that was killed, or refused the write back, or was found lifted by a second script | `CreatedIsNew`, `LimitIsPutBack` |
| `ServiceRepairs!DoneMeansRunning` | services that were still starting when they were asked about (`repair.pending`) and may have failed since | `DoneMeansAllRun` |
| `Timeline!OnlyNewIsListed` | a driver that was registered before the week and not once within it, whose events were cleared | |

### Circumstances that are switched off

Some modules have a constant that names circumstances which are rare, or outside
of what the code answers for. The runs leave them out, and the properties are
about the rest; switching one on shows what it costs.

| module: constant | circumstance | what happens then |
|---|---|---|
| `AllFixes`: `Lapses` | "late": `reg add` for the first OpenGL entry works after its time was over | `UnchangedMeansUnchanged` fails |
| | "names", "netsh": no answer about names, or about the Winsock catalog, is taken for a bad one | `NothingInvented` fails |
| | "unsaid": which ISOs are mounted is not answered, and the search for one fails after it mounted them | `OnlyWhatWasReported` fails: they stay mounted |
| `Saves`: `Lapses` | "together": two WinMedics save through the same temporary file; "locked": a broken file cannot be moved aside | a file is half written, or overwritten |
| `AuditLog`: `Tears` | "together", "cut", "held", "unread": two rotations or takeovers at once, a death within one, a file held open, a history of an older version that cannot be read | entries are out of order, there twice, or lost |
| `Releases`: `Slips` | "marked": a pre-release that is not marked as one | it is offered |
| `Decoding`: `Scripts` | "foreign": text beyond ASCII in UTF-16 without a mark | its lines are not recognised |
| `Rollbacks`: `Mishaps` | "cut", "rotated": power lost within a start, a log renamed while it is read | what is told is not what stands |
| `HelperTask`: `Slips` | "beside", "name": `--uninstall` beside a window; an executable whose name cannot be compared with the task | the task is not as it is shown |
| `Commands`: `Gaps` | "suspended": WinMedic dies before the command joined its job; "no job": Windows gives none; "kept": a job is not let go of | a command stays behind, or one ends that should go on |
| `SelfUpdate`: `Lapses` | "cut": death between the renames; "stuck": the undoing fails | no executable under its name |
| | "slow": a window closes slowly; "ended": a start ends before its tries | what was moved aside stays |
| `SelfUpdate`: `Windows` | two windows that update at once | `FailsCleanly` fails |

### Fairness

Safety is checked without any. Liveness assumes, by name:

- `Scheduling` (`ScanRun`, `RepairRun`): weak fairness of the engine's task, the
  forwarders and the window. Tokio polls tasks that are ready, and the window
  repaints every 40 ms while it is busy, minimised or not. An aborted task is
  dropped at its next `await`.
- `ChecksEnd`, `RepairsEnd`: checks and repairs end, because every command they
  run has a timeout after which it is killed. They are premises of
  `EveryScanEnds` and `EveryRunEnds` only; the cancellation parts hold without.
- `LeftoversEnd`: what a command leaves running ends. Nothing in WinMedic sees to
  it, which is what `RepairRun_leftover` shows; it is a premise, not part of the
  specification.
- `Session`: frames follow each other (an idle window repaints once a second),
  and tasks end. `UpdateIsStarted` holds because the number of runs a user starts
  is bounded: a user who starts a restore in every run and a run in every restore
  for ever can put the restart off for ever.
- `Commands`: weak fairness of each call's own steps, which timers and readers
  drive; that a command ends is not assumed.
- `ServiceChains`: the walk goes on. `SelfUpdate`: a window that has installed
  closes, and a start goes on with its sweep; both are steps of WinMedic itself.

## 4. Proofs

TLAPS proves for every value of the constants:

| theorem | statement | argument |
|---|---|---|
| `ScanRunProofs!TypeCorrect` | `Spec => []TypeOK` | one lemma per group of actions |
| `ScanRunProofs!EndIsLast` | `Spec => []EndIsTheEnd` | `IInv == TypeOK /\ Quiet /\ Terminals`. `EndIsTheEnd` alone is not inductive: that the final event is last has to be known together with the state of the engine that allows it. `Quiet`: the result of a join is held only while it is reported, and nothing lives before the checks are started nor once the engine has returned, so nobody is left who could send. `Terminals`: a terminal event stands at the end of the channel and only behind a returned engine, and a window that has ended saw one with nothing behind it |
| `ScanRunProofs!WindowShowsTheScan` | `Spec => []WindowShowsWhatWasReturned` | `WInv == IInv /\ Tasks /\ Verdict /\ Delivery /\ ...`. `Delivery`: a check that was joined is in exactly one place, held by the engine, on its way in the channel, or in its row; what the channel holds is news to the window, in order. `Tasks` and `Verdict`: where the engine is tells which checks were joined, and the event that ends the scan counts them |
| `ScanRunProofs!KeepsContract` | `Spec => ImplementsContract` | step by step from `WInv`: a result taken in by the window is a step of the contract, every other a stutter |
| `RepairRunProofs!TypeCorrect` | `Spec => []TypeOK` | the invariants of the run hold each other up and are proved together, as the conjuncts of `IInv` |
| `RepairRunProofs!EventsStayInOrder` | `Spec => []EventsInOrder` | `Terminals` as above; `Lines`: a line of output follows the start of its own repair or another of its lines, in the channel as across the window's end of it |
| `RepairRunProofs!SimulationIsHarmless` | `Spec => []SimulationChangesNothing` | a simulation changes no finding, starts no repair and no command, tries nothing and makes no restore point. `Protected`: it is never at a place that starts a repair or a restore point, nor has one; `Simulated`: both lists stay the same; and the switch does not move while a run is on |
| `RepairRunProofs!WindowTellsTheTruth` | `Spec => []WindowTellsTheOutcome` | `Results`: the window's list and the engine's differ by the results on their way, one for a finding; `Counted` and `Ends` relate the numbers to the findings visited |
| `RepairRunProofs!KeepsContract` | `Spec => ImplementsContract` | step by step: `Protected` says that the restore point or its waiver stands before the first repair starts |
| `DecisionsProofs!TypeCorrect` | `Spec => []TypeOK` | findings as functions with a varying domain: a lemma for each operator on lists (`CarriedList`, `DecidedList`, `SettledList`, ...) |
| `DecisionsProofs!ArchivedIsNotShown` | `Spec => []ArchiveIsSortedOut` | `IInv == TypeOK /\ Sorted /\ Runs /\ Scans`: `Sorted` is the property without its condition, for a window that is closed shows nothing; `Runs` ties the lists of checks and repairs still to come to what the window is busy with; `Scans` says that every repair that waits when a scan starts is in the list it leaves |
| `DecisionsProofs!WaitsAreKept` | `Spec => WaitsUntilRestart` | an action property from the same invariant: `Keeps` is shown of every action, and is `IInv'` together with the property |
| `DecisionsProofs!NoPastRestartIsAwaited` | `Spec => []NothingWaitsForAPastRestart` | `Past`: every list that may become the window's, in the file if it is of this boot, with the helper, from before a scan, lists as waiting only what was repaired in this boot; `Marked`: only what needs a restart waits |
| `DecisionsProofs!DecisionsAreKept` | `Spec => []DecisionsHold` | `Kept`: what waits is listed as waiting wherever the next run may get its list from, in the window, in the file or with the helper about to save over it. `WindowKnows`, `FileKnows`, `ScanKnows`: the same of what was left out, in the middle of a scan by whether its check is still to report. Each under the first conjuncts of the property (`Calm`, `Uncut`) |
| `SessionProofs!TypeCorrect` | `Spec => []TypeOK` | `IInv == TypeOK /\ Tasks /\ Asked /\ Installed`. `TypeOK` says that the window knows of every task at work, which the end of one task could undo for another of its sort; `Tasks` adds that of each sort at most one is between its start and the moment the window takes in its end |
| `SessionProofs!InstalledOneAtATime` | `Spec => []OneInstall` | from `Tasks`: a second installation needs the notice, which is shut while the first is open |
| `SessionProofs!DoneOnlyWhenIdle` | `Spec => OnlyWhenIdle` | Answers (`AnswersComeWhenIdle`): `Asked`: what a dialog needed when it was asked for still holds, because an open dialog takes all keys. Then by the one action that can restart Windows, and the one that can start a restore. Updates (`UpdateStartsWhenIdle`): the code asks for runs and restores only; that no *installation* is at work follows from `Installed`: the update that waits to be started was the last, since the check for an update answers once (`Unanswered`) and its notice is gone |
| `ServiceRepairsProofs!TypeCorrect` | `Spec => []TypeOK` | with `Own`: the guard of the repair at work and those of earlier ones are told apart by their number |
| `ServiceRepairsProofs!WhatWasStoppedRunsAgain` | `Spec => []RunsAgainInOrder` | `IInv == TypeOK /\ Own /\ NeedsRun /\ NoneLate /\ Started /\ Covered /\ Renamed /\ Alone`. `Covered`: every service that was stopped and neither runs, nor is starting, nor was refused by Windows is with a guard, that of the repair or one at work in the background. `NeedsRun`: a service runs only with all it needs. `Alone`: the guard holds services in the order in which they were stopped, and none of what is still to be stopped needs one that is in it |
| `ServiceRepairsProofs!NothingIsTouchedInUse` | `Spec => []TouchesWhileStopped` | of repairs that start while no guard of an earlier one is at work; beside one, it does not hold (`AlwaysTouchesWhileStopped`). `Alone`: what a guard holds that no other guard disturbs is stopped; with `NeedsRun` so is what needs it |
| `ServiceRepairsProofs!WhatIsReportedIsTrue` | `Spec => ReportsAreTrue` | `Started`: of the guard everything runs, was down before, was found starting (`repair.pending`), or is still to be started; `Renamed`: what was moved away is in the list of what to move back |
| `AllFixesProofs!NothingIsChangedUnsaved` | `Spec => []BackedUpFirst` | `BInv`: a repair writes some steps after it has backed up, and what it writes over must then be in a backup (`Owed`, of the items it is about to change, `Due`). A backup is of what Windows holds now, not of what it held at first; but where the two differ, an earlier repair made the difference and `Backed` says that the first is in an earlier backup. `Remaining` ties what is left to change to what was backed up, `Known` says that repairs are of findings their module makes. Three lemmas (`LookKeeps`, `BackUpKeeps`, `ChangeKeeps`) say it of the sorts of steps in `Fixes`, so that each of the ten parts only shows of which sort its steps are. No circumstance is excluded |
| `RecordsProofs!WhatWasBackedUpGoesBack` | `Spec => []RollsBack` | with the exceptions the property names and no other. `BackupsInv`: unless a later repair of the same second wrote to it, what each value's last repair began with is in its file and its anchor; a rollback under way imports contents a repair wrote |
| `RecordsProofs!NothingIsEverLost` | `"together"`, `"locked" \notin Lapses`, `Tears = {}` imply `Spec => []NothingIsLost` | one invariant for each of the three. `SavesInv`: who is about to rename has written its save to the end, and one process saves the settings at a time. `AuditInv`: one rotates and one takes over at a time; entries are in order across the files (`Ordered`) and an interval that ends with the last one written (`NoGap`); after each entry of an older file as many were logged as fill the ones between (`Rotated`), so that what is dropped has a full set of files behind it (`KeptLong`). `OffersInv`: of every crash there is the event or the log, unless newer logs took its place, and it was offered, is newer than the time up to which they were seen, or was missed by a look that could not see it |
| `RecordsProofs!UpdatesDoGoForward` | `"marked" \notin Slips` implies `Spec => UpdatesGoForward` | `ReleasesInv`: what is told as final has no pre-release in its tag, and what is offered is final, from the right page and newer than what runs, also after another release took its place. `FinalByEitherOrder`: of final releases the order of the code, which compares pre-releases by their text, is SemVer's |
| `OperationsProofs!ProtectionIsNew` | `Spec => []ProtectedMeansNew` | for every kill, refusal and overlap. `PointsInv`: a point that was made since a script asked is known to it as such, unless its first list was not read; unless the limit has strayed, one script at a time has it lifted, and knows what it was |
| `OperationsProofs!RunsAreToldTruly` | `Spec => []RunIsToldTruly` | `RunInv`: what is wrong with the machine is in the list unless archived or its check failed; of every repair started the list says how it went, and a failed one is counted and marked; a run that goes on to its report has tried them all |
| `OperationsProofs!UpdatesAreSafe` | one window, `"cut"`, `"stuck" \notin Lapses` imply `Spec => UpdateIsSafe` | `UpdateInv`: where the window is with its installation tells which files there are. `MovedAside`: between the renames the executable is under its retired name; `Verified`: what is about to be moved into place has passed its checks, though other starts sweep the staging files until it is; `Held`: nobody removes a staged file while it is written. That a failed installation leaves nothing needs the one window: a second one works with the same staging files |
| `OperationsProofs!TaskDoesFollow` | `"beside"`, `"name" \notin Slips` imply `Spec => TaskFollowsSetting` | `TaskInv`: what the window shows is what the task does unless the user was told (`Shown`); but the next window knows only the file, so the file has to agree as well, or the task has to be one that window will put right (`SavedAsShown`, `Filed`); what was turned off is off in the file too (`TurnedOff`) |
| `OperationsProofs!CommandsLeaveNothing` | `"suspended"`, `"no job"`, `"kept" \notin Gaps` imply `Spec => NothingLeftBehind` | `CallInv`: where a call is tells what its process and its job are (`Fitting`). `QueueInv`: the calls in the queue are those that wait, each once, and only calls under way hold a slot (`Queued`); no call stands in the queue or holds a slot behind which a heavy call that started has still to wait (`Ordered`), which is what a queue in order and a heavy call that takes all slots give |
| `AllFixesProofs!RepairedFindingsStayRepaired` | `Spec => []RepairedStaysRepaired` | no circumstance is excluded; what `BeyondRepair` excepts is part of the property. `Sound`: what was reported repaired is cured in the settings as they are (`Lasting`), for which no later repair of the same part may undo it: `Cured` says it of each finding in terms of the settings, stronger than that a check does not find it; `Underway` says where a repair is what it has reached so far; `Once`, of parts whose state names one finding, that no second one is repaired after; `World`, what no repair changes, and that a folder whose repair was done with held files left had others that were deleted. One lemma for each part says what its steps come to (`...Steps`), one that they keep what is cured (`...Lasts`), and that what is cured is not found comes last (`NotFoundAgain`) |
| `AllFixesProofs!WhatIsSaidIsSo` | `Lapses \cap {"names", "netsh", "late"} = {}` implies `Spec => ReportsAreTrue` | Scans (`FindsNothingElse`): fewer answers lead to fewer findings, or to one of `LessExactly`; one case for each part. Repairs: `Upright`, `WellMade` and, of each step, `Behaves`. `Moves`: a step is before the first change of its repair (`Early`) or after it, and what ends with the word that nothing was changed ends as it began. `Lefts`: what is left to change tells at the later places whether something was changed already (of the OpenGL entries, one of two) |
| `AllFixesProofs!WhatWasPutRightStaysAlone` | `Spec => PutRightIsLeftAlone` | `Heeds`, of each step: when nothing was wrong as the repair began, it changes nothing. What "wrong" is has to be said as the repair looks at it, not as the check does: `Wrong` is what the repair reads again, `Holds` what it takes from the scan and nobody else changes in between (`FindsWhatHolds`, `KeepsRooms`), and `WrongIsFound` that the two together are a finding of the check. No circumstance is excluded |
| `AllFixesProofs!OnlyTheFindingIsRepaired` | `"unsaid" \notin Lapses` implies `Spec => OnlyWhatWasReported` | `Spares` of each step, for parts that keep all they do not name; for the others (hosts, temporary files, app packages, SFC, add-ons, ...) what they keep is compared with `before` directly. Images the search for a repair source mounted are given back: `Lefts` says at which places which are mounted and which are still to be dismounted |

Assumptions: those the modules state about their constants (`ModulesAssumption`,
`CapAssumption`, `FindingsAssumption`, `WorldsAssumption`, `ServicesAssumption`,
`LookedAssumption`, `RecordsAssumption`, ...), evaluated by TLC in every run.
Nothing else is taken on trust. `ServicesAssumption` says of the list of update
services what their order in `CACHE_SERVICES` (`windows_updates.rs`) relies on:
none of them needs one that is stopped before it. The hypotheses of
some theorems are the circumstances of the table above, which break the property
when they are switched on; each is satisfied by the runs. All inductive
invariants were checked by TLC on the bounds of the runs before they were proved.

Found while proving, and corrected in the model: the order in which services
start again cannot be promised beside the guard of an earlier repair (the
instance had no service that needs two others, so the run did not show it); and
`EntriesStay` has to say that entries are an interval in order across all files,
for a set of entries that is complete may still be out of order.
Proving that the task follows its setting showed that the model of the helper was
wrong: after an update that renames the executable, the start that follows could
never register the task for the new file, because only the file that was there
before counted as one that is there. With that put right, one way remains in
which window and task differ, and the user was told of it: the frequency is
changed, cannot be saved, and the next start, of a renamed executable, registers
the task again with the frequency of the file. So a report counts until the task
is registered anew for settings that are saved. The queue of `Commands` needed to
be said of calls that are of one kind each, and `FixPolicy` of `Tweaks` had two
cases that overlap.

Two things about the prover. Its translation compares two `CASE` expressions by
their first arms; a lemma that went through for that reason alone (`AboutStays`)
was given a proof that does not need it, and all proofs were checked once more
with every `CASE` written as `IF`. And it reads `UNION f \ N` as `UNION (f \ N)`,
TLC as `(UNION f) \ N`, likewise `SUBSET`; the modules have parentheses there, so
that both read the same formula.

### Only model-checked

- Liveness: `EveryScanEnds`, `EveryRunEnds`, `UpdateIsStarted`,
  `WhatIsBegunEnds`, and that a service chain is walked to its end. Liveness under
  fairness and `ENABLED` are out of the prover's reach. (The two contracts promise
  safety only, so that their refinement is proved.)
- `EveryCauseIsTold` as a whole: which services are blocked by which is a
  recursive function over the graph, so that the walk agrees with it would need
  induction over data.
- `Records!LinesHoweverCut` compares with a recursive definition over all inputs,
  which would need induction over data; `PagesAgree` and `TellsTheTruth` are about
  selections from lists (`SelectSeq`) and folds, likewise recursive.

No module uses recursive operators. The modules that `Records` and `Operations`
put together define the assumptions on their constants, and these two assume
them.

## 5. Plan

What is left: tabs and the text input of a setting in `Session`; and the
modules' texts, where a property would be about them.

## 6. Not modelled

- Drawing, colours, the taskbar (`gui/`): no state of their own that anything
  depends on; what the pages say of the findings is in `Pages`.
- The report writer: formatting. The debug log: appended to when verbose, never
  read by the program.
- The Windows bindings (`utils/registry.rs`, `utils/acl.rs`, ...): wrappers of
  system calls; what callers make of their failures belongs to the callers.
- The parsing of what commands print, and the texts of findings and advice: a
  check is a function of what is recognised, and advice without a repair is one
  finding of its kind.
- Shortcuts that are pointed at a renamed executable, and the Run entry of older
  versions, which is removed.
- Clock ties: scans are told apart by their time to the second, and two that end
  in the same second are taken for one; `Decisions` gives every scan a time of
  its own.
