# Verification of the Arclap station

TLA+ models of the station's backend (`src/backend/arclap_station`), checked
with TLC, and theorems about them, proved with TLAPS. Paths below are relative
to `src/backend/arclap_station` unless they start with `src/`.

## 1. The system

One Raspberry Pi drives one DSLR. A single Python process (FastAPI on one
asyncio loop, plus threads) takes photos on schedules, stores them on the SD
card and uploads them to destinations the operator configured. A root timer
(the camera watchdog) and nightly timers (backup, retention sweep) run as
processes of their own. The state that outlives a process is one SQLite
database and a few small JSON files. systemd restarts the process whenever it
ends (`Restart=always`) or stops petting the watchdog.

| part | state | operations | talks to |
|---|---|---|---|
| upload queue `uploaders/queue.py` | table `upload_queue`; 4 worker threads | enqueue, start/recover, claim, upload, settle, requeue, drain-once | photo store, destinations, uploaders, audit |
| destination manager `uploaders/manager.py` | table `destinations` | create (+ orphan rescue), update, delete, mark_ok/mark_error | queue |
| capture pipeline `scheduler/engine.py` `api/camera.py` | none of its own | skip rules, shoot, register, enqueue | camera adapter, photo store, queue |
| photo store, gallery `photos/store.py` `api/gallery.py` | table `photos`, the JPEG files, thumbnails | register, star, delete | queue (cascade) |
| retention `retention/policy.py` | none | sweep | photo store, audit |
| schedule engine `scheduler/engine.py` | table `schedules`, the APScheduler job store | create, update, delete, hydrate, fire | capture pipeline |
| camera adapter `camera/adapter.py` | PTP handle, failure counters, restart sentinel file | ensure, detect, capture, power-cycle, self-restart | beacon, systemd |
| health beacon `camera/health.py` | `camera_health.json`, shared by two processes | write_ok, write_failure, write_reset, clear_failure | adapter, watchdog |
| camera watchdog `watchdog/camera.py` | `camera_watchdog.json` | probe_once (USB reset, lock-up latch) | beacon, sysfs, audit |
| audit log `audit.py` | table `audit_log`, anchor file | emit, prune, verify_chain, export | everything |
| authentication `auth.py` | `auth.json`: PIN, failures, lock-out, epoch | set/verify PIN, revoke, validate session | API |
| wizard, settings `setup_wizard.py` `station_config.py` `api/settings.py` | `station.json` | steps of the first boot, forms, factory reset | authentication, engine |
| cloud link `cloud/pairing.py` `cloud/mqtt.py` | certificate files, publisher thread | pair, unpair, start, stop | `station.json` |
| backup, boot guard `backup.py` | snapshot files | snapshot, rotate, restore | database |
| self-test, alerts `health/` | `health_state.json` | self-test, alert on a change | photos, schedules, webhook |
| UPS `hardware/ups.py` | none | safe shutdown | systemd |
| acceptance `acceptance/runner.py` | tables `acceptance_*`, a thread | start, run, status | everything, reading |

What is hard in it, by component:

- **Queue.** Threads interleave between transactions; the process dies at any
  point, often on purpose; destinations fail, or report failure after they
  received everything; operators delete and requeue what is being uploaded.
  Correct means: one thread per row, no row lost or reopened, `upload_state`
  in agreement with the rows, the local file never removed while it is the
  only copy, every row settled in the end.
- **Photos and retention.** A photo is a row and a file written one after the
  other, and another process decides from an old snapshot what to delete.
  Correct means: no only copy deleted, no row without a picture, and room again.
- **Camera.** Three parties (capture, reconnect loop, root watchdog) recover one
  device with counters, cool-downs and resets, through a file nobody locks.
  Correct means: no session while the bus re-enumerates, resets within a
  budget, pictures again once the camera can, trouble that escalates.
- **Schedules.** Two stores, one of which cannot be cleaned before it starts;
  windows over midnight written three times. Correct means: what is enabled
  captures, what is not is quiet.
- **Wizard, PIN, pairing.** Several files written one after the other, each
  rewritten whole, with a crash anywhere. Correct means: nobody is locked out
  of a station for good, a revoked session stays revoked, the link follows the
  pairing.
- **Audit log.** A hash chain that is pruned, with its anchor outside the
  database.
- **Backup.** Damage that is noticed late, restores that may be cut off.
- **Care.** A verdict from clock, calendar and the age of a photo; an alert on
  a change that two callers may see; a battery looked at every five minutes.

The list of hazards with their lines is in `PROJECT.json`.

## 2. Modules

| module | models | refined or proved by |
|---|---|---|
| `UploadQueue` | the queue with every writer of its tables | `DeliveryLedger`, `UploadQueueProofs` |
| `DeliveryLedger` | what the queue promises: a ledger of deliveries | |
| `Gallery` | photos as rows and files; the retention sweep | `GalleryProofs` |
| `Schedules` | schedules table, job store, jobs that fire, camera loop | `SchedulesProofs` |
| `Camera` | adapter, beacon and watchdog, composed | `CameraProofs` |
| `Station` | PIN and sessions, wizard, `station.json`, pairing, publisher | `StationProofs` |
| `AuditChain` | the audit log: emit, prune, verify | `AuditChainProofs` |
| `BootGuard` | snapshots, rotation, the restore before the database is opened | `BootGuardProofs` |
| `Freshness` | the self-test's verdict on a scheduled camera | `CareProofs` |
| `HealthAlerts` | record and announcement of the overall status | `CareProofs` |
| `PowerGuard` | the shutdown on battery | `CareProofs` |
| `Acceptance` | the acceptance runner | `CareProofs` |
| `Care` | the last five and the audit log, composed | `CareProofs` |
| `MCUploadQueue`, `MCSchedules`, `MCCare` | instances for TLC | |

`Camera` composes what shares one device; `Station` what shares two files.
`Care` puts six components that share nothing side by side: a behaviour
moves one of them and leaves the others at their initial states, since their
interleavings say nothing about any of them (`CareComposes`: each component sees
a behaviour of its own). The other modules meet at narrow
points, each of which a module carries in the form it needs: the queue's
`upload_state` is `done` and `owed` in `Gallery`, with `kept` for a row whose
picture some destination keeps, and the camera is a Boolean with
failures in `Schedules` and `Freshness`, and each module has the part of the
life of the process it depends on.

### UploadQueue

State: `phase` is the process; `photos`, `job` and `file` are the photo's row
and its JPEG; `dest` and `failing` the `destinations` table (`failing` is
`last_error IS NOT NULL`); `keep` is `conditions.keep_local`; `state`,
`attempts` and `waiting` the rows of `upload_queue` (`waiting` is
`next_at > now`); `received` is what destinations hold; `pc`, `held` and
`snap` are each thread's place in `_handle`, its item and the `attempts` it
read with the claim; `cap` is each capture in progress and `rescue` the orphan
rescue of a destination being created.

One action is one transaction, one stand-alone read, one network call or one
file removal. `db.tx()` is `BEGIN IMMEDIATE`, so a transaction is atomic.

| code | actions |
|---|---|
| `lifespan`, `UploadQueue.start` | `Boot` (engine runs, captures may fire), `QueueStart` (recover, then workers) |
| power cut, watchdog kill, `os._exit`, stop | `Crash` |
| `fire_capture`, `POST /capture` | `Shoot`, `Register`, `ReadDestinations`, `EnqueueCapture` |
| `DestinationManager.create` | `CreateDestination`, `RescueRead`, `RescueEnqueue` (one per photo) |
| `update`, `delete` of a destination | `ToggleDestination`, `DeleteDestination` |
| `ScheduleEngine.update` | `SetKeepLocal` |
| `requeue_failed` | `RequeueFailed` |
| `PhotoStore.delete` | `DeletePhoto`, `SweepPhoto` |
| `_claim` (after the breaker) | `Claim` |
| `_handle` | `Lookup`, `GiveUp`, `Upload`, `MarkOk`, `CheckKeepLocal`, `CheckKinds`, `RemoveLocal`, `MarkRetry`, `NoteOutcome` |
| an SQLite error | `Fault` |
| time | `BackoffElapses` |

Rows are identified by photo, destination and the path that queued them:
destination ids are never reused, the capture path queues a photo once, and a
rescue runs once per destination, so no two rows share all three.

Simplifications, each with its reason:

- API handlers are `async` functions on one event loop that do not await
  between their transactions, so at most one of them is in progress
  (`ApiFree`); drain requests run in threads and are `Drainers`.
- Only the destinations-offline gate of the skip rules is kept, with its
  default (on): the other gates only decide whether a capture happens.
- Deleting a photo's row and its file is one step.
- The circuit breaker's one-hour window is left out (every failure is
  recent), and its check is atomic with the claim: it can only pause when no
  row is due, when the claim would find nothing anyway.
- The attempt that reaches the limit is not written to the row, as in the code.

### AuditChain

State: the columns of every row ever emitted (`data`, `prev`, `hash`), the
retained ones being `first .. last`; `anchor` is `audit_anchor.json`; `pruning`
the retention process inside `prune()`; `pc`, `pos`, `running`, `breaks` each
verification's place, `last_id`, `prev` and its report. `calm` and `known` are
history: whether the anchor fitted when the verification began and no prune has
committed or saved since, and which rows were altered by then.

| code | actions |
|---|---|
| `emit` | `Emit` (one transaction: read the newest hash, insert) |
| `prune` | `PruneCount`, `PruneDelete`, then `SaveAnchor` or `LoseAnchor` |
| `verify_chain` | `VerifyStart` (read the anchor), `ReadPage`, `VerifyEnd` |
| somebody edits the table | `Alter` |

Processes of the station emit at any moment; the sweep is a process of its own
and never overlaps itself (one systemd timer). SHA-256 is taken as injective,
and a row's content is sound or altered. Removing rows by hand is not modelled.
A verification that overlaps a prune may report rows that are in order, because
the anchor it began from has moved: the code does not prevent it and the
repository makes no promise about it, so `VerdictTrue` speaks of `calm` ones.

### BootGuard

State: `live` is the file at `state.db` (rows and health: sound, torn, which
opens but fails `integrity_check`, or unreadable); `conn` each thread's cached
connection, to that file or to one moved aside; `phase` the process and its
place in `lifespan`; `restoring` the file a restore is about to install;
`snaps` the archives; `backup` the nightly process and its copy. `written`,
`covered` and the `late` flag of snapshots are history or bounds.

| code | actions |
|---|---|
| `ensure_db_integrity_on_boot` | `BootFresh`, `BootCheck`, `NothingToRestore` |
| `restore_latest` | `ChooseSnapshot`, `MoveAside`, `Install` or `InstallFails` |
| `get_db().initialise()` in `lifespan` | `Open` or `OpenRaises` |
| any handler or thread that writes | `Write` |
| `take_snapshot` and its rotation | `CopyDatabase`, `PublishSnapshot`, `InterruptBackup` |
| wear, power cut, kill | `Damage`, `Crash` |

A connection goes on using the file it opened after the path is renamed: this
is how SQLite behaves in WAL mode on Linux, tried out with the repository's
`Database` class. Simplifications: the `-wal` and `-shm` renames belong to the
main one; at most one snapshot a night; `NextDay` waits for the backup; the
clock does not go backwards; a file that a late connection creates without
tables counts as none; systemd's start limit (5 starts in 600 s) is not modelled.

### Gallery

State: `row` is the `photos` table by id (name of the file, number of the shot,
`old` for the cold tiers, `done`, `starred`, and `owed` for open queue rows);
`file` what each name holds on the card; `cap` the capture under way; `del` each
removal under way, with what is left of it; `sweep` the sweep's list and counts;
`sent` how far each shot got: nowhere, reported (metadata only) or stored by a
destination that keeps files; `clashed` remembers the shots taken under a name that
a row or a removal under way still had.

| code | actions |
|---|---|
| `capture`, `maybe_drop_duplicate`, `register`, `enqueue` | `Shoot`, `DropDuplicate`, `Register`, `Enqueue` |
| `set_starred` | `Star`, `Unstar` |
| `delete_photo`, bulk delete, `PhotoStore.delete` | `DeletePhoto`, then `RequestRemoves` twice (row, file) |
| an upload and `_maybe_delete_local` | `Upload`, then `RequestRemoves` (file) |
| `sweep` | `SweepBegins` (disk, snapshot), `SweepNext`, `SweepRemoves`, `SweepCounts`, `SweepEnds` |
| days, kills | `GrowOld`, `ServiceCrash`, `SweepCrash` |

Disk use is counted in files. Ages are two tiers, because `_should_keep` tells
hot from warm and cold from archive nowhere. A shot is a schedule's or, if
its number is in `ByHand`, the operator's: `Critical` (2% free) refuses both, `High`
(10% free) the schedules' unless their `skip_disk_full` is off, which is what
`SkipDiskFull` says, and only they drop near-duplicates and let an upload remove the
local copy. The camera writes to its internal RAM and numbers its files anew in
every session, so that a shot takes any name of no existing file. An
upload counts as `done` whether the queue's rows were of destinations that keep
the picture or only report it.

### Schedules

State: `row` the `schedules` table; `job` the job store (interval and ticks
left); `inst` the instance of `fire_capture` of each schedule; `strays` the pictures
it has taken since it was disabled or deleted; `api` the request
between table and job store; a clock of ticks and days; `clear` and `camera` what
the gates ask.

| code | actions |
|---|---|
| `create`, `update`, `delete` | `CreateSchedule`, `UpdateSchedule`, `DeleteSchedule` |
| `_sync_job` | `SyncRemove`, `SyncAdd` |
| `hydrate_from_db`, `start` | `Boot` |
| APScheduler | `Fire` (one instance at a time) |
| `fire_capture` | `ReadRow`, `CheckRules`, `Shoot`, `EndRun` |
| `_camera_reconnect_loop` | `ReconnectCamera` |
| clock, kills, trouble | `Tick`, `Crash`, `Trouble`, `Cleared` |

A job is processed in the tick in which it is due: misfires and coalescing are
left out. `should_skip` and `is_within_window` are translated each by itself
(`OutsideWindow`, `IsWithinWindow`) and compared with each other and with a walk
round the clock (`InSpan`) for every window and moment. The gates of disk and
destinations are one Boolean. At most `MaxSlow` ticks pass while a job runs.

### Camera

State: `body` the camera (fine; wedged, which opens but does not capture; locked,
which is on the bus but does not open; absent) and `stuck` the process's own view
of the bus; `handle`, `initFails`, `captureFails`, `escalated`, `lock` and `pc` the
adapter; `restarted` the sentinel; `beacon` the file and `upd` each writer's
read-modify-write of it; `wd`, `wdpc` the watchdog's file and place. The rest is
history for the properties.

| code | actions |
|---|---|
| `detect`, `reconnect_camera` | `Detect`, `DetectOpens`, `DetectExits`, `Reconnect` |
| `capture` | `Shoot`, `ShootOpens`, `Retry`, `RetryOpens`, `ShootTimesOut`, `ShootExits` |
| `_note_capture_failure` | `CountFailure`, `ClimbLadder`, `LadderExits` |
| `_ensure` | `HasHandle`, `RefusedInGrace` or `SetsOut` (grace looked at, lock taken) in the caller's first step; `EnsureRaises`, `EnsureExits` or an open handle in its next |
| `write_ok/failure/reset`, `clear_failure` | `Update`, then `ThreadPublishes` or `Announce` |
| `POST /usb-reset` | `RequestReset`, then `Truncate` and `Rewrite` (the beacon, in place) |
| `probe_once` | `Probe`, `Latch`, `ResetBus`, `SaveReset`, `Announce` |
| systemd, kills | `Start`, `Crash`, `WatchdogCrash` |
| device, time | `Trouble`, `Plug`, `GraceEnds`, `RestartCoolsDown`, `EscalationCoolsDown` |

Simplifications: a schedule is inside its window throughout; the reconnect loop
and requests of the API are one poller; whether a failed poll is followed by a
heavy reconnect (every eighth in the code) is left open; the attempts of one
opening end in one step, apart from the look at the grace, so that a reset, its
announcement and everything else may fall between the two; failed captures are
counted up to their limit only, since the code, which counts on in the cool-down,
compares with nothing above it; the capture timer fires for a camera that
hangs in a capture, and, counted as a trouble, for a capture that waited too long
for the lock; the grace period counts from its announcement. Two writers
share the name of the beacon's temporary file, so that an update which overlaps
another may publish an empty record, which reads as an empty beacon; `usb-reset`
writes the file itself, which is empty until that write ends.

### Station

State: `auth` and `fails` are `auth.json`; `cookie` the token each browser holds;
`station` the three flags of `station.json`; `sched` the wizard's schedule;
`certs` the files of the mTLS pair; `doing` the request between two of its writes
and `pending` the wizard's request that has passed the gate; `thread`, `current`,
`stop` the publisher.

| code | actions |
|---|---|
| `verify_pin` in any request | `WrongPin`, `OnlyConfirm`, `Login` |
| logout, change of PIN | `Logout`, `ChangePin` |
| `require_first_boot` | `Ask` |
| `setup_pin` ... `setup_pair` | `SetupPin`, `SetupRefused`, `SetupStation`, `SetupSchedule`, `SetupPair` |
| `setup_finish` | `SetupFinish`, `Arm`, `Complete` |
| `update_general`, `update_alerts` | `Settings` |
| `factory_reset` | `FactoryReset`, `WipeTables`, `WipeAuth`, `WipeStation`, `RestartAfterReset` |
| `pair` | `Pair`, `PairCrt`, `PairKey`, `PairGivesUp`, `PairFlag`, `PairBroker` |
| `unpair` | `Unpair`, `DropKey`, `DropFlag` |
| `MqttPublisher` | `Start`, `ReadBroker`, `Connect`, `ConnectFails`, `Wake`, `ThreadEnds` |

Simplifications: one wizard that waits for its answers (with two tabs a schedule
could be added after the last step); a token's age limit is left out; the
heartbeats only send.

### Freshness, HealthAlerts, PowerGuard, Acceptance

`Freshness` is `_capture_freshness` on a clock, a calendar of days and one
schedule (with several, the code takes the most frequent active one); shots
land at once or a unit late, fail, or are skipped. `whole` says that every shot
since the last photo, or since the window opened at its hour, was really asked
for; the false alarms of section 5 are the cases in which it is FALSE. A shot
taken before the opening is no failure of the new window (`Earlier`). `HealthAlerts` is
`evaluate_and_alert` in two steps, record and announcement, called by the health
loop and by the cockpit, with the state that `GET /state` records. `PowerGuard`
is `maybe_safe_shutdown` at every look of the health loop; a unit of charge is
what the battery can lose in a unit of time. `Acceptance` is the runner's thread
row by row; a check is an arbitrary outcome.

### Fairness

- `UploadQueue`: weak fairness of boot and start (systemd restarts), of captures,
  rescue and a thread's handling once begun (uploads have time-outs), and that
  time passes. A row that keeps coming due is claimed: `_claim` orders by
  `next_at`, and a row that is backed off or requeued goes behind. That is strong
  fairness of claiming that row by some worker.
- `BootGuard` (in `care`, `LiveSpec`): weak fairness of the guard's steps
  (`Restart=always`; `lifespan` runs to its end).
- `Camera`: the poll, the schedule and the watchdog's timer come round for ever,
  and a thread that waits for the adapter's lock gets it in the end (strong
  fairness of `Detect`, `Shoot`, `Escalate`); an update that was begun ends; the
  grace and both cool-downs end. Nothing is assumed of troubles, of cures by a
  reset, or of requests.
- `Gallery`: what was begun is ended, uploads succeed in the end, the sweep's
  timer comes round. Captures, requests and crashes are free.
- `Schedules`: systemd, requests and jobs go on, the clock runs, the operator
  clears the disk. Strong fairness of `ReconnectCamera` says that windows are
  longer than the reconnect loop takes.
- `Station`: the installer goes on with the PIN and the last step while the gate
  is open; handlers and threads go on; a broker that answers again and again is
  reached.

`AuditChain` and the four small modules state no liveness.

## 3. Runs

| run | module | question | result |
|---|---|---|---|
| `restart` | `MCUploadQueue` | exclusive claims, recovery, `ok` means received, the queue implements `DeliveryLedger` | holds |
| `operator` | `MCUploadQueue` | `upload_state` follows the rows, clean-up is safe, `ok` is final, with requests racing two workers | holds |
| `settle` | `MCUploadQueue` | every row settles, through a crash; `keep_local = false` frees the file | holds |
| `storage` | `Gallery` | no row outlives the only copy, the sweep takes only what was sent and stops, space returns | holds |
| `schedule` | `MCSchedules` | both stores agree, what is disabled takes at most one more picture, runs are spaced, windows agree, enabled schedules capture | holds |
| `camera` | `Camera` | the post-reset grace, the budget of resets and alerts | holds |
| `recover` | `Camera` | pictures again after any trouble; a wedge escalates | holds |
| `access` | `Station` | revoked sessions, the last step, setting up ends, the link follows the pairing | holds |
| `care` | `MCCare` | the audit chain; true verdicts on camera, alerts, battery and acceptance; no row of a sound snapshot is lost, a sound snapshot outlives silent damage, the station comes up | holds |
| `swept` | `MCUploadQueue` | "NEVER delete a photo that hasn't safely uploaded" | violated |
| `reused` | `Gallery` | "Un-uploaded photos are NEVER deleted" | violated |
| `broker` | `Station` | "Broker + cockpit URL are part of station.json schema already" | violated |

Bounds, and why they are enough:

- `UploadQueue`: one photo (photos share no row; a second one changes only claim
  order and the breaker's counts), two destinations of which one keeps files, one
  schedule and the capture button, at most two threads, `MaxAttempts` 2 (a first
  failure that retries, a second that gives up), breaker threshold 1.
  Disturbances are spread over the runs: `restart` has a crash, a fault and an
  operator request, `operator` two requests and a requeue between two workers,
  `settle` a crash and a request with both destinations there from the start.
- `Gallery`: three shots (one in the sweep's list, one registered meanwhile, one
  protected), of which the last is the operator's; target 1 file, trigger and `High`
  2, emergency and `Critical` 3, so that normal mode, a card on which schedules skip
  and the sweep is no emergency, and a full one all occur; a look at the disk after every second deletion so that a
  batch is longer than one, one crash; the first photo may be starred and unstarred
  freely (`Favourites`), the others never are.
- `Schedules`: two schedules, one over midnight on one day, intervals 1 and 2 in a
  week of two days of three ticks; two requests, one crash, one slow run, one
  trouble. `WindowsAgree` enumerates every window of that week.
- `Camera`: `camera` has a hub, two troubles and a crash, budget 1, two failed
  openings and one failed capture up to the limits (neither property depends on the
  capture ladder's length); `recover` has no hub, one trouble and no crash, because
  any trouble leaves the counters and cool-downs in every state they can be in,
  and limits of one failed opening and two failed captures.
- `Station`: one browser and one address (an address's counters touch no other;
  the marks of tokens are independent), lock-out after one failure for one tick,
  two publisher threads (one left over, one new), three changes by the operator
  (pair, unpair, pair), one crash.
- `BootGuard` in `care`: two threads of which one is the event loop, `RetainDays` 2 and four
  days, so that snapshots expire, two damages and two crashes, so that a restored
  file is damaged again.
- `AuditChain` in `care`: `Keep` 2 and `PageSize` 2 with up to 6 rows: two prunes
  fit, a prune cuts one row or several, pages end in the middle of the table.
- `reused`: as `storage`, with all three shots scheduled, `High` 3 and `Critical` 4, and
  without crash, star and near-duplicates.
- The others in `care`: a calendar of two days of eleven units and four schedules,
  one with a window within the day on one of the days, one over midnight on both,
  the same on one of them, and one whose window has no end; intervals 2 and 3,
  grace 1; two testers, one restart; charge 20, threshold 12, period 5, one failing power-off
  and one restart, within what `Assumption` allows (5*2 + 1*1 <= 12); two runs
  of two checks.

Deadlock is checked in `schedule` only: elsewhere bounded photos, rows, days or
disturbances let a model end.

## 4. Proofs

Eight modules prove invariants for every value of the constants. All rest on the
modules' `ConstantsAssumption` only (in `BootGuard`, `Assumption`); `CareProofs` on
`CareAssumption`, which collects the `Assumption` of each component. That of `PowerGuard`, that the
battery outlives a period, is a premise about the hardware; the others only give
the constants their types. Every invariant, every action property and the
refinement that the passing runs check is stated by a theorem.

`UploadQueueProofs`: `TypeCorrect`, `OwnershipCorrect`, `ClaimsAreExclusive`,
`HeldRowsAreInFlight`, `OkRowsAreReceived`, `OkRowsAreFinal`, `NoRowIsStranded`,
`UploadStateIsRight`, `LocalCopiesAreSafe`, `QueueImplementsLedger`. `ClaimExclusive` is
not inductive by itself: a claimed row could be put back to `pending` by an
`INSERT` for the same row, so one must know that a capture or a rescue in progress
has not queued its rows yet (`CaptureInv`, `RescueInv`), and that what a thread
holds is `in_flight` or has gone with its photo for good (`ThreadInv`: no row
appears for a deleted photo, by the foreign key). `OwnershipInv` is the
conjunction with `TypeOK`; each of its parts has one lemma per action that can
disturb it. The others stand on it. `LocalCopySafe` needs in addition what a thread
in the clean-up has seen (`CopyInv`): once an `ok` row of a file-keeping
destination was read, the copy stays, even when row and destination go.
`UploadStateTracksRows` is inductive beside `OwnershipInv`, because the row
a thread settles is still `in_flight` when it counts the others. The refinement is
proved for the safety part, `SafetySpec`: a lemma for each kind of step of the
ledger (`LedgerOwes`, `LedgerReceives`, `LedgerDelivers`, `LedgerAbandons`,
`LedgerWithdraws`) and one for the steps it does not see (`LedgerStutters`).

`AuditChainProofs`: `ChainCorrect`, `RetainedRowsAreLinked`, `AnchorIsSaved`,
`VerdictsAreTrue`, `NewestRowsAreKept`. `ChainInv` adds to the properties that
every hash is that of the row as emitted (`HashOfEmitted`), that a prune which
counted still has rows to cut and one which cut remembers the row before the
retained ones (`PruneInv`), and that an undisturbed verification carries the hash
of the last row it read and has judged every row so far (`VerifyInv`). The step
that matters is `ReadPageChain`: a page is an interval that begins right after
`pos`, so that the carried hash is the `prev` of its first row.

`BootGuardProofs`: `GuardCorrect`, `NoSnapshotIsLost`, `SnapshotsOutliveDamage`; the
last two are stated of the composition in `CareProofs`, by way of an instance.
`GuardInv` says, as long as no restore was cut off between its renames, that the
sound snapshots grow with the day (`SnapshotsGrow`), that a copy in progress has
the rows of all of them (`CopyInv`) and so has the file about to be installed
(`RestoreInv`). A snapshot published from a copy older than a restore is `late`
and is not compared: the restore could not have chosen it.

`SchedulesProofs`: `StoresCorrect`, `EnabledSchedulesHaveJobs`,
`DisabledSchedulesFallQuiet`, `RunsKeepTheirDistance`, `WindowsAlwaysAgree`. `Agree`
says that the stores agree but for the schedule a request is moving, and that this request ends when
the process does; hydration then restores every enabled schedule, so that the
crash needs no case of its own. `Quiet` says that nothing has been counted while the
schedule is on or a run that has read its row may still shoot: so the picture of such a
run is the first, and no later run gets that far. `Spaced` adds up what is left of an
interval and what has gone since the last run: no edit, restart or skipped run brings
the sum below the interval. `WindowsAgree` is about the window rules alone: the walk
round the clock from `from` to the moment is shorter than the one to `to` exactly
when the two comparisons of the code say so (`WindowWalk`, with `Around` for the
remainders), whatever the length of the day.

`StationProofs`: `StationCorrect`, `StationTypeCorrect`, `RevokedStaysRevoked`,
`FinishedArms`. Sessions need that tokens of an earlier epoch are behind the
file's and live ones not ahead (`Sessions`). `FinishedIsArmed` needs to know that a
wizard's request which has passed the gate still finds it open (`Wizard`): the
last step is the only one that closes it, and nothing of the wizard is pending
while it runs.

`GalleryProofs`: `GalleryTypes`, `ListedPhotosExist`, `SweepSparesUnuploaded`,
`SweepStopsAtTarget`. No premise says how the camera names its files. `CopyInv`
is about the shots that did not clash. A row's picture is in its file or is stored, and
what the row says of it is true (`RowInv`); a file that holds such a shot is known under
the shot's own number, to its row (`OwnRow`) and to the removals that have read its
name (`OwnRemoval`), of which the sweep's has seen it sent and a clean-up's, stored;
a shot not registered yet has its file to itself (`CapInv`); what the sweep has chosen
was sent when it chose it (`SweptInv`). A shot that takes a name in use is in `clashed`,
so that a removal which comes late can only hit such a one.
`StopInv` counts the deletions since a look at the disk against the remainder
of their number by `CheckEvery`.

`CameraProofs`: `BudgetHolds`, `GraceHolds`, on `CameraTypes`. `BudgetInv` says by how
much the saved counts lag behind what was done, by the watchdog's place and the
crashes so far. For the grace, one must know that after an undisturbed announcement
every update under way was read from an announced beacon, so that whoever publishes
last writes the announcement back (`ResetWritten`), unless the file was emptied in
place, which counts as a disturbance; and that a probe never begins within the grace.

`CareProofs`: `CareComposes`, `StationShutsDown`, `BadIsAnnounced`,
`SummaryAgrees`, `NoFalseAlarmHolds`, `OutageShowsHolds`, `NoSnapshotIsLost`,
`SnapshotsOutliveDamage`. A step of the composition
is a step of each component or leaves it alone (`StepOfEach`), so that the theorems
follow from invariants of the components:

- Battery. `Budget` says what a running station has left: threshold and time to
  the next look are below the charge plus what failures and restarts may have cost
  so far; `SpentBound` that they cost no more than the threshold in all.
- Alerts. `Together`: unless alerts were `shaken`, when `bad` is recorded every
  announcement under way says so, and when none is under way it has been told.
  `BadIsTold` is silent while a test announces, so that alone it does not say what
  that test is about to tell.
- Acceptance. `RunInv`: the counts of a summary are those of the report's rows, and
  the thread's but for the outcome in its hand (`Counted`); the row under way is
  the last and the only one (`UnderWayLast`); a run not begun is empty, and a
  verdict is final and agrees with the rows (`Unstarted`, `Concluded`). `CountAppend` and `CountSettle` say what a row begun or settled does
  to the counts.
- Camera. `Timely`: a shot under way was just taken by a schedule that is on.
  `Spans`, for `OutageShows`: the shots of this window that failed, one interval
  each, take no more time than has gone since the window opened and since a photo
  landed, and what is left to the next shot. `Punctual`, for `NoFalseAlarm`: when
  none failed and none was left out, staleness and the time to the next shot stay
  within one interval, or two while a shot is under way. The hard step is `Tick` over
  midnight, over the end of the calendar and over the opening of a window
  (`SinceOpenGoesOn`); the windows are of any length and any days.

Only model-checked: liveness, since fairness is out of the prover's reach. These
are `EveryRowSettles`, `LocalCopyReleased`, `SpaceReturns`, `EnabledCaptures`,
`FramesResume`, `WedgeEscalates`, `SetupCompletes`, `LinkComesUp`, `UnpairStops` and
`ComesUp`. The refinement of `DeliveryLedger` is proved for its safety part; that
the queue delivers in the end is `EveryRowSettles`.

## 5. Known divergences

Three runs show disagreements between what the repository says and what its code
does; `PROJECT.json` quotes both sides. More were met while modelling. They have
no run: either the models show them in passing, or a property names them as its
exception.

Queue and photos:

- README.md:65 promises a breaker that pauses the queue for five minutes when every
  destination fails; `queue.py:312` returns at most the time until the oldest
  open row is due, so it never holds back a row that could be claimed.
- A crash between `register()` and `enqueue()` (`engine.py:284`) leaves a photo
  pending for ever; no recovery looks for it.
- `_worker_loop` (`queue.py:245`) has no handler: one SQLite error ends a worker
  for good, and the row it held stays `in_flight` until a restart.
- An orphan rescue may queue a photo whose capture is about to queue its own rows,
  so a new destination gets it twice and the file may go before the capture's
  rows are there; a rescue that meets a deleted photo ends early.
- A photo starred after the sweep's snapshot is deleted although starred photos
  are promised to survive.
- The camera numbers its files anew in every session, and `capture` changes a name
  only if the file exists. After a clean-up has removed the file, `register` keeps the
  old photo's row with its `done` state (`ON CONFLICT(path)`), and the sweep may delete
  the new picture before it is uploaded; a removal that has read the name before may
  unlink the new file. `reused` shows the first; `UnuploadedKept` and `RowsHaveFiles`
  name these pictures as their exception (`clashed`).
- policy.py:18-20 promises that the station "keeps capturing rather than refuse new
  shots", by deleting young photos in an emergency. That begins at 95% used, and a
  schedule with `skip_disk_full`, the default, skips from 90% on (`engine.py:214`): with
  young photos only, scheduled captures stand still in between, until photos grow
  old or somebody takes some by hand. `SpaceReturns` names this as its last disjunct.
- A crash between the deletion of a row and of its file leaves a file nothing
  frees; `reconcile` is never called.

Schedules:

- A service that restarts more often than an interval never fires: every start
  sets each job an interval ahead.
- A 24-hour interval whose moment falls outside the window never captures; an
  overnight window is cut by its day list at midnight.

Camera:

- With a hub, a power cycle that reports success resets the counters, so the ladder
  never reaches the self-restart; `WedgeEscalates` is checked without one.
- `detect()` writes `ok` for a body that does not capture, so the watchdog need
  never engage for the capture wedge it was written for.
- Between the bus reset and `write_reset()` nothing holds the adapter back, and an
  update of the beacon that overlaps the announcement can erase it: the two
  exceptions of `GraceKept`.
- `_ensure` looks at the grace once (`adapter.py:227`) and then tries to open up to
  three times, with four seconds of sleep in all: a reset announced meanwhile does not stop it, although the
  adapter is to keep away from a bus that re-enumerates (`health.py:15`). `GraceKept`
  is about setting out.
- `POST /usb-reset` resets the bus without announcing it, and rewrites the beacon in
  place: whoever reads it meanwhile finds no announcement, and whoever had read it
  empty writes it back without one.
- The lock-up latch survives an unplugging, so that the next lock-up is not
  reported.
- The capture timer starts before the adapter's lock is taken and closes whatever
  handle is current when it fires.

Wizard, PIN, pairing:

- A factory reset cut short between its two files leaves a station whose wizard the
  PIN alone closes, with the schedule still paused (`cut`). It also leaves the
  certificates, the job store and the audit anchor.
- The session epoch begins at 0 with every new `auth.json`.
- A forced new pairing keeps the live thread on the old broker; a failed write can
  leave a new certificate with an old key (`odd`).
- The wizard counts an upstream nobody can reach as paired.
- `stop()` forgets a thread it waited five seconds for; a start afterwards clears
  its event, and it lives on beside the new one.

Audit, backup, care:

- A prune that ends between its transaction and its anchor file makes intact rows
  verify as broken until the next prune (`audit.py:105`).
- A restore leaves the event loop's connection on the file it moved aside
  (`backup.py:144`, the audit row opens it first); a crash between its two renames
  makes the next boot start empty (`backup.py:251`).
- Staleness is to count only "from when the window opened"
  (`selftest.py:107`), so that no alarm is raised on entering a window, but
  `_minutes_since_window_open` (`selftest.py:84`) knows the hour of a window and
  not its days. A window over midnight whose day before is not one of the
  schedule's (Monday to Friday from 22:00 to 06:00, on Monday at 00:01) is taken for
  one that has been open since the evening before, and a schedule enabled within its
  window for one that has fired since the window opened: an alarm is raised before
  any shot was due. So it is after shots that were skipped. `NoFalseAlarm` leaves
  these out (`whole`).
- A window without an end (`to` is the minute before `from`) forgets an outage once
  a day: at `from` the time since it opened is 0 again, the verdict goes to `ok`
  and, when the intervals are over, back to `bad`. Windows shorter than twice the
  interval plus grace can never be bad.
- Alerts: a recovery by way of `unknown` is not announced; a restart between record
  and announcement, two overlapping tests, a failed write or `GET /state` lose
  one (`shaken`).
- The INA219 path reports no mains state, so such a UPS never shuts down; the
  threshold is safe only for batteries that lose less than it in a period
  (`Assumption`); mains that come back at every look hide an outage from it, so
  `ShutsDownInTime` speaks of the last one.
- A database error ends an acceptance thread and leaves the runner occupied until
  a restart; the wizard starts a run beside another.

## 6. Not modelled

Migrations; the software watchdog's petting; misfires; preview, camera settings and
keep-alive; Wi-Fi, Ethernet, DNS, NTP and host name forms, WireGuard, the uploader
protocols and image processing: calls to tools and libraries without state of the
program's own. Terminal, telemetry, metrics and diagnostics only report; the
front-end is a client of the API; the installer is run once by a person. That a
factory reset empties the queue, destination and audit tables is not in the modules
of those tables.

What could come next: factory reset and queue composed; the stores of `Schedules`
under a restore of the database.
