-------------------------------- MODULE Camera --------------------------------
(***************************************************************************)
(* One camera, recovered by three parties: the captures (adapter.capture), *)
(* the reconnect loop and the API's requests (detect, reconnect_camera,    *)
(* usb-reset), and the root watchdog (watchdog/camera.py), a process of    *)
(* its own.  They share the adapter's handle and counters, under its lock, *)
(* and the health beacon, a file each of them reads, changes and rewrites  *)
(* without one.                                                            *)
(*                                                                         *)
(* Some schedule is inside its window throughout.  Time appears only as    *)
(* what has not yet expired: the grace after a USB reset, and the two      *)
(* cool-downs; the beacon is fresh or not at each probe.                   *)
(***************************************************************************)
EXTENDS Naturals

CONSTANTS
  Poller,    \* the reconnect loop, and requests of the API
  Shooter,   \* the thread that captures
  Watchdog,  \* the other process
  HasHub,    \* is there a switchable USB hub?
  MaxInitFailures, MaxCaptureFailures,  \* the adapter's limits
  FailThreshold, MaxResets              \* the watchdog's

\* Bounds of the model: troubles (of the camera, or an operator's reset of the
\* bus), and crashes of either process.
CONSTANTS MaxTroubles, MaxCrashes

Threads == {Poller, Shooter}
Actors == Threads \cup {Watchdog}

ASSUME ConstantsAssumption ==
  /\ HasHub \in BOOLEAN
  /\ {MaxInitFailures, MaxCaptureFailures, FailThreshold, MaxResets} \subseteq Nat \ {0}
  /\ {MaxTroubles, MaxCrashes} \subseteq Nat
  /\ Poller # Shooter /\ Watchdog \notin Threads

VARIABLES
  body,       \* the camera
  stuck,      \* libgphoto2 in this process no longer finds it
  handle,     \* _cam; stale when the camera was unplugged or reset since
  initFails, captureFails,
  escalated,  \* the last escalation is within its cool-down
  lock, pc,   \* the adapter's lock; each thread's place
  up,         \* the station's process
  restarted,  \* the sentinel: the last self-restart is within its cool-down
  beacon,     \* camera_health.json
  upd,        \* each actor's read-modify-write of the beacon
  wd, wdpc    \* camera_watchdog.json; where a probe is

\* History: a USB reset lately; was its announcement disturbed by an update that
\* overlapped it, or by a crash; resets and alerts since the watchdog last saw a
\* camera in order; troubles and crashes so far.
VARIABLES resetLately, disturbed, resetsDone, alertsDone, troubles, crashes

bodyVars == <<body, stuck, troubles>>
adapterVars == <<handle, initFails, captureFails, escalated, lock, pc>>
processVars == <<up, restarted>>
beaconVars == <<beacon, upd>>
watchdogVars == <<wd, wdpc>>
historyVars == <<resetLately, disturbed, resetsDone, alertsDone>>
vars == <<bodyVars, adapterVars, processVars, beaconVars, watchdogVars, historyVars,
          crashes>>

NoLock == "free"

\* Fields ok, last_error, and whether last_reset_at lies within the grace period.
NoBeacon == [ok |-> "unset", error |-> FALSE, reset |-> FALSE]

NoUpdate == [op |-> "none", new |-> NoBeacon]

Init ==
  /\ body = "fine" /\ stuck = FALSE /\ troubles = 0 /\ crashes = 0
  /\ handle = "none" /\ initFails = 0 /\ captureFails = 0 /\ escalated = FALSE
  /\ lock = NoLock /\ pc = [t \in Threads |-> "idle"]
  /\ up = TRUE /\ restarted = FALSE
  /\ beacon = NoBeacon /\ upd = [a \in Actors |-> NoUpdate]
  /\ wd = [fails |-> 0, resets |-> 0, alerted |-> FALSE] /\ wdpc = "idle"
  /\ resetLately = FALSE /\ disturbed = FALSE /\ resetsDone = 0 /\ alertsDone = 0

-----------------------------------------------------------------------------
(* The camera.  A wedged one opens but does not capture; a locked one is on
   the bus but does not open. *)

Enumerated == body # "absent"
Opens == body \in {"fine", "wedged"} /\ ~stuck

\* What a reset, a power cycle or a new session may do for it.
Cured == {body} \cup (IF Enumerated THEN {"fine"} ELSE {})

Trouble(b) ==
  /\ troubles < MaxTroubles /\ troubles' = troubles + 1
  /\ body = "fine" /\ b \in {"wedged", "locked", "absent"} /\ body' = b
  /\ handle' = IF b = "absent" /\ handle = "live" THEN "stale" ELSE handle
  /\ UNCHANGED <<stuck, initFails, captureFails, escalated, lock, pc,
                 processVars, beaconVars, watchdogVars, historyVars, crashes>>

Plug ==
  /\ body = "absent" /\ body' = "fine" /\ stuck' \in {stuck, up}
  /\ UNCHANGED <<troubles, adapterVars, processVars, beaconVars, watchdogVars,
                 historyVars, crashes>>

\* Re-enumeration: the process's own view of the bus may be lost in it.
BusReset == body' \in Cured /\ stuck' \in {stuck, up}

-----------------------------------------------------------------------------
(* The process. *)

ProcessEnds ==
  /\ up' = FALSE /\ stuck' = FALSE
  /\ handle' = "none" /\ initFails' = 0 /\ captureFails' = 0 /\ escalated' = FALSE
  /\ lock' = NoLock /\ pc' = [t \in Threads |-> "idle"]
  /\ upd' = [a \in Actors |-> IF a = Watchdog THEN upd[a] ELSE NoUpdate]
  /\ UNCHANGED <<body, troubles, beacon, watchdogVars, historyVars>>

\* Mutant: the exit ends the thread that calls it, and the service runs on.
SelfRestart_OfThread ==
  /\ ~restarted /\ restarted' = TRUE
  /\ handle' = "none" /\ initFails' = 0 /\ captureFails' = 0
  /\ lock' = NoLock /\ pc' = [t \in Threads |-> "idle"]
  /\ upd' = [a \in Actors |-> IF a = Watchdog THEN upd[a] ELSE NoUpdate]
  /\ UNCHANGED <<bodyVars, escalated, up, beacon, watchdogVars, historyVars, crashes>>

\* _trigger_service_restart, when its sentinel allows: os._exit(1).
SelfRestart ==
  /\ ~restarted /\ restarted' = TRUE
  /\ ProcessEnds /\ UNCHANGED crashes

\* Restart=always; the new process opens a new session.
Start ==
  /\ ~up /\ up' = TRUE /\ body' \in Cured
  /\ UNCHANGED <<stuck, troubles, adapterVars, restarted, beaconVars, watchdogVars,
                 historyVars, crashes>>

Crash ==
  /\ up /\ crashes < MaxCrashes /\ crashes' = crashes + 1
  /\ ProcessEnds /\ UNCHANGED restarted

-----------------------------------------------------------------------------
(* The health beacon: _read, then _write through a temporary file whose name
   all writers share.  Only the request for a USB reset writes the file in place. *)

\* Mutant: a failure starts a new record.
Apply_Fresh(op, b) ==
  CASE op = "ok"      -> [b EXCEPT !.ok = "ok"]
    [] op = "failure" -> [NoBeacon EXCEPT !.ok = "failed", !.error = TRUE]
    [] op = "clear"   -> [b EXCEPT !.error = FALSE]
    [] op = "reset"   -> [b EXCEPT !.ok = "failed", !.reset = TRUE]

\* write_ok, write_failure, clear_failure, write_reset.
Apply(op, b) ==
  CASE op = "ok"      -> [b EXCEPT !.ok = "ok"]
    [] op = "failure" -> [b EXCEPT !.ok = "failed", !.error = TRUE]
    [] op = "clear"   -> [b EXCEPT !.error = FALSE]
    [] op = "reset"   -> [b EXCEPT !.ok = "failed", !.reset = TRUE]

Updating(a) == upd[a].op # "none"

\* What will be written follows from what is read here, right after the camera
\* call, the bus reset or the save that the update reports.
Update(op) == [op |-> op, new |-> Apply(op, beacon)]

\* clear_failure writes nothing where there is no error.
UpdateClear == IF beacon.error THEN Update("clear") ELSE NoUpdate

InPlace(a) == upd[a].op \in {"rewrite", "rewriting"}

Overlapped(a) == \E b \in Actors \ {a} : Updating(b)

\* While another writer has the temporary file open, an empty one may be
\* published; it reads as an empty record.
Clashes(a) == \E b \in Actors \ {a} : Updating(b) /\ ~InPlace(b)

\* The file is replaced; who is writing the old one writes to no avail.
PublishBeacon(a) ==
  /\ Updating(a) /\ ~InPlace(a)
  /\ beacon' \in {upd[a].new} \cup (IF Clashes(a) THEN {NoBeacon} ELSE {})
  /\ disturbed' = (resetLately /\ (disturbed \/ Overlapped(a)))
  /\ upd' = [b \in Actors |-> IF b = a \/ upd[b].op = "rewriting" THEN NoUpdate ELSE upd[b]]

\* write_text: the file is empty, for whoever reads it, until it is written.
Truncate ==
  /\ upd[Poller].op = "rewrite" /\ upd' = [upd EXCEPT ![Poller].op = "rewriting"]
  /\ beacon' = NoBeacon
  /\ disturbed' = (disturbed \/ (resetLately /\ beacon.reset))
  /\ UNCHANGED <<bodyVars, adapterVars, processVars, watchdogVars, resetLately, resetsDone,
                 alertsDone, crashes>>

Rewrite ==
  /\ upd[Poller].op = "rewriting" /\ upd' = [upd EXCEPT ![Poller] = NoUpdate]
  /\ beacon' = upd[Poller].new
  /\ UNCHANGED <<bodyVars, adapterVars, processVars, watchdogVars, historyVars, crashes>>

\* Mutant: a detect that opens the camera forgives its failed captures.
Forgives_Detect(a) == upd[a].op = "ok"

\* Only a capture that succeeds forgives them.
Forgives(a) == a = Shooter /\ upd[a].op = "ok"

\* A thread is through with its update: what follows it in the caller.
AfterUpdate(a) ==
  LET op == upd[a].op
  IN  /\ lock' = IF lock = a THEN NoLock ELSE lock
      /\ pc' = [pc EXCEPT ![a] = CASE @ = "clearing" -> "cleared"
                                   [] op = "failure" /\ a = Shooter -> "failing"
                                   [] OTHER -> "idle"]
      /\ captureFails' = IF Forgives(a) THEN 0 ELSE captureFails

ThreadPublishes(a) ==
  /\ PublishBeacon(a) /\ AfterUpdate(a)
  /\ UNCHANGED <<bodyVars, handle, initFails, escalated, processVars, watchdogVars,
                 resetLately, resetsDone, alertsDone, crashes>>

\* _reset_grace_remaining() > 0.
Grace == beacon.reset

-----------------------------------------------------------------------------
(* The adapter. *)

Free(t) == up /\ lock = NoLock /\ ~Updating(t)

\* _ensure: within the grace period it raises, and whoever called it drops the
\* handle; a handle it has is returned without a look at it.
HasHandle == ~Grace /\ handle # "none"
RefusedInGrace == Grace /\ handle' = "none" /\ UNCHANGED <<bodyVars, initFails>>

\* Otherwise it sets out to open a session, with the lock and not looking at the
\* grace again: up to three attempts with sleeps of seconds between them.
SetsOut(t, place) ==
  /\ ~Grace /\ handle = "none" /\ lock' = t /\ pc' = [pc EXCEPT ![t] = place]
  /\ UNCHANGED <<bodyVars, handle, initFails, upd>>

Opening(t, place) == up /\ pc[t] = place /\ ~Updating(t)

\* The last attempt has failed.  At the limit the bus is power-cycled, or, if
\* there is no hub, a restart suppressed by its sentinel.
EnsureRaises ==
  /\ ~Opens /\ handle' = "none"
  /\ \/ /\ initFails + 1 < MaxInitFailures
        /\ initFails' = initFails + 1 /\ UNCHANGED bodyVars
     \/ /\ initFails + 1 >= MaxInitFailures /\ initFails' = 0
        /\ \/ HasHub /\ BusReset /\ UNCHANGED troubles
           \/ ~HasHub /\ restarted /\ UNCHANGED bodyVars

\* ... or the process ends.
EnsureExits ==
  /\ ~Opens /\ initFails + 1 >= MaxInitFailures /\ ~HasHub
  /\ SelfRestart

Holding(t, op) == lock' = t /\ upd' = [upd EXCEPT ![t] = Update(op)]

\* detect: nothing asks an open handle whether the camera answers.
Detect ==
  /\ Free(Poller) /\ pc[Poller] \in {"idle", "cleared"}
  /\ \/ /\ HasHandle /\ Holding(Poller, "ok")
        /\ UNCHANGED <<bodyVars, handle, initFails, pc>>
     \/ RefusedInGrace /\ Holding(Poller, "failure") /\ UNCHANGED pc
     \/ SetsOut(Poller, "opening")
  /\ UNCHANGED <<captureFails, escalated, processVars, beacon, watchdogVars,
                 historyVars, crashes>>

DetectOpens ==
  /\ Opening(Poller, "opening")
  /\ \/ /\ Opens /\ handle' = "live" /\ initFails' = 0
        /\ Holding(Poller, "ok") /\ UNCHANGED bodyVars
     \/ EnsureRaises /\ Holding(Poller, "failure")
  /\ UNCHANGED <<captureFails, escalated, pc, processVars, beacon, watchdogVars,
                 historyVars, crashes>>

DetectExits == Opening(Poller, "opening") /\ EnsureExits

\* reconnect_camera: close, clear_failure, then detect; at some failed polls of
\* the loop, or at an operator's request.
Reconnect ==
  /\ Free(Poller) /\ pc[Poller] = "idle"
  /\ handle' = "none"
  /\ pc' = [pc EXCEPT ![Poller] = IF beacon.error THEN "clearing" ELSE "cleared"]
  /\ upd' = [upd EXCEPT ![Poller] = UpdateClear]
  /\ UNCHANGED <<bodyVars, initFails, captureFails, escalated, lock, processVars, beacon,
                 watchdogVars, historyVars, crashes>>

\* The first attempt has failed: the handle is dropped, the lock kept.
TriesAgain ==
  /\ handle' = "none" /\ lock' = Shooter
  /\ pc' = [pc EXCEPT ![Shooter] = "retry"] /\ UNCHANGED upd

\* The second has: the beacon is written without the lock.
GivesUp == lock' = NoLock /\ upd' = [upd EXCEPT ![Shooter] = Update("failure")]

\* capture, with a handle it has; a stale or wedged one takes no picture.
Shoot ==
  /\ Free(Shooter) /\ pc[Shooter] = "idle"
  /\ \/ /\ HasHandle /\ UNCHANGED <<bodyVars, initFails>>
        /\ \/ /\ handle = "live" /\ body = "fine"
              /\ Holding(Shooter, "ok") /\ UNCHANGED <<handle, pc>>
           \/ ~(handle = "live" /\ body = "fine") /\ TriesAgain
     \/ RefusedInGrace /\ TriesAgain
     \/ SetsOut(Shooter, "opening")
  /\ UNCHANGED <<captureFails, escalated, processVars, beacon,
                 watchdogVars, historyVars, crashes>>

\* capture, with the session it has opened for it.
ShootOpens ==
  /\ Opening(Shooter, "opening")
  /\ \/ /\ Opens /\ initFails' = 0 /\ UNCHANGED bodyVars
        /\ \/ /\ body = "fine" /\ handle' = "live"
              /\ Holding(Shooter, "ok") /\ UNCHANGED pc
           \/ body # "fine" /\ TriesAgain
     \/ EnsureRaises /\ TriesAgain
  /\ UNCHANGED <<captureFails, escalated, processVars, beacon,
                 watchdogVars, historyVars, crashes>>

\* The second attempt.
Retry ==
  /\ pc[Shooter] = "retry" /\ ~Updating(Shooter)
  /\ \/ RefusedInGrace /\ GivesUp /\ UNCHANGED pc
     \/ SetsOut(Shooter, "reopening")
  /\ UNCHANGED <<captureFails, escalated, processVars, beacon,
                 watchdogVars, historyVars, crashes>>

RetryOpens ==
  /\ Opening(Shooter, "reopening")
  /\ \/ /\ Opens /\ handle' = "live" /\ initFails' = 0 /\ UNCHANGED bodyVars
        /\ \/ body = "fine" /\ Holding(Shooter, "ok")
           \/ body # "fine" /\ GivesUp
     \/ EnsureRaises /\ GivesUp
  /\ UNCHANGED <<captureFails, escalated, pc, processVars, beacon,
                 watchdogVars, historyVars, crashes>>

\* The capture hung, or waited so long for the lock, that its timer fired: it
\* fails, although it may have taken the picture, and the handle the timer closed
\* is kept, to be reopened by its next use.  A long wait counts as a trouble.
ShootTimesOut ==
  /\ \/ /\ Free(Shooter) /\ pc[Shooter] = "idle" /\ HasHandle /\ handle = "live"
        /\ UNCHANGED initFails
     \/ /\ Opening(Shooter, "opening") \/ Opening(Shooter, "reopening")
        /\ Opens /\ initFails' = 0
  /\ \/ body = "wedged" /\ UNCHANGED troubles
     \/ body = "fine" /\ troubles < MaxTroubles /\ troubles' = troubles + 1
  /\ handle' = "live" /\ GivesUp
  /\ UNCHANGED <<body, stuck, captureFails, escalated, pc, processVars,
                 beacon, watchdogVars, historyVars, crashes>>

ShootExits ==
  /\ Opening(Shooter, "opening") \/ Opening(Shooter, "reopening")
  /\ EnsureExits

\* _note_capture_failure: the count, and at the limit, if not within its
\* cool-down, the ladder: power cycle, or drop the handle and restart.  Within
\* the cool-down the code counts on; here counts at and above the limit are one
\* value, as nothing tells them apart.
CountFailure ==
  /\ Free(Shooter) /\ pc[Shooter] = "failing"
  /\ pc' = [pc EXCEPT ![Shooter] = "idle"]
  /\ captureFails + 1 < MaxCaptureFailures \/ escalated
  /\ captureFails' = IF captureFails < MaxCaptureFailures THEN captureFails + 1
                     ELSE captureFails
  /\ UNCHANGED <<bodyVars, handle, initFails, escalated, lock, processVars,
                 beaconVars, watchdogVars, historyVars, crashes>>

Climbs ==
  /\ Free(Shooter) /\ pc[Shooter] = "failing"
  /\ captureFails + 1 >= MaxCaptureFailures /\ ~escalated

ClimbLadder ==
  /\ Climbs /\ pc' = [pc EXCEPT ![Shooter] = "idle"]
  /\ escalated' = TRUE /\ handle' = "none"
  /\ \/ HasHub /\ captureFails' = 0 /\ BusReset /\ UNCHANGED <<initFails, troubles>>
     \/ /\ ~HasHub /\ restarted
        /\ captureFails' = MaxCaptureFailures /\ initFails' = 0 /\ UNCHANGED bodyVars
  /\ UNCHANGED <<lock, processVars, beaconVars, watchdogVars, historyVars,
                 crashes>>

LadderExits == Climbs /\ ~HasHub /\ SelfRestart

\* POST /usb-reset: the bus is reset, unannounced, and the failure cleared in a
\* beacon that is read here.
RequestReset ==
  /\ up /\ pc[Poller] = "idle" /\ ~Updating(Poller)
  /\ troubles < MaxTroubles /\ troubles' = troubles + 1
  /\ BusReset
  /\ handle' = IF handle = "live" THEN "stale" ELSE handle
  /\ upd' = [upd EXCEPT ![Poller] = [op |-> "rewrite", new |-> Apply("clear", beacon)]]
  /\ UNCHANGED <<initFails, captureFails, escalated, lock, pc, processVars, beacon,
                 watchdogVars, historyVars, crashes>>

-----------------------------------------------------------------------------
(* The watchdog, probe_once. *)

Well == [fails |-> 0, resets |-> 0, alerted |-> FALSE]

SeenWell ==
  /\ wd' = Well /\ wdpc' = "idle"
  /\ resetsDone' = 0 /\ alertsDone' = 0

\* gphoto2 --auto-detect; it does not open the camera.
Responsive == IF body = "locked" THEN BOOLEAN ELSE {Enumerated}

\* Mutant: the budget is not looked at.
BudgetSpent_Never == FALSE

BudgetSpent == wd.resets >= MaxResets

ProbeUnattached ==
  /\ ~Enumerated
  /\ wd' = [wd EXCEPT !.fails = 0, !.resets = 0] /\ resetsDone' = 0
  /\ UNCHANGED <<wdpc, alertsDone>>

\* The count is saved first; then nothing yet, a reset, or, once, an alert
\* (camera.firmware_locked), which is audited before its latch is saved.
ProbeUnhealthy ==
  LET reached == wd.fails + 1 >= FailThreshold
      locked == reached /\ BudgetSpent /\ ~wd.alerted
  IN  /\ Enumerated
      /\ wd' = [wd EXCEPT !.fails = IF reached THEN FailThreshold ELSE @ + 1]
      /\ wdpc' = CASE locked -> "latching"
                   [] reached /\ ~BudgetSpent -> "resetting"
                   [] OTHER -> "idle"
      /\ alertsDone' = IF locked THEN alertsDone + 1 ELSE alertsDone
      /\ UNCHANGED resetsDone

\* probe_once, up to what it decides.  In the grace period it does nothing.
\* Any time may have passed since the beacon was written: a probe finds it
\* fresh or not.
Probe ==
  /\ wdpc = "idle" /\ ~Grace
  /\ \E fresh \in BOOLEAN :
       LET fine == fresh /\ beacon.ok = "ok"
           failing == fresh /\ beacon.ok = "failed" /\ beacon.error
       IN  \/ fine /\ SeenWell
           \/ ~fine /\ ProbeUnattached
           \/ ~fine /\ ~failing /\ Enumerated /\ TRUE \in Responsive /\ SeenWell
           \/ ~fine /\ (failing \/ FALSE \in Responsive) /\ ProbeUnhealthy
  /\ UNCHANGED <<bodyVars, adapterVars, processVars, beaconVars, resetLately, disturbed,
                 crashes>>

Latch ==
  /\ wdpc = "latching" /\ wdpc' = "idle" /\ wd' = [wd EXCEPT !.alerted = TRUE]
  /\ UNCHANGED <<bodyVars, adapterVars, processVars, beaconVars, historyVars, crashes>>

\* authorized 0, 1: every open handle is dead.
ResetBus ==
  /\ wdpc = "resetting" /\ wdpc' = "saving"
  /\ BusReset
  /\ handle' = IF handle = "live" THEN "stale" ELSE handle
  /\ resetLately' = TRUE /\ disturbed' = FALSE /\ resetsDone' = resetsDone + 1
  /\ UNCHANGED <<troubles, initFails, captureFails, escalated, lock, pc, processVars,
                 beaconVars, wd, alertsDone, crashes>>

\* The state is saved, and only then the reset announced.
SaveReset ==
  /\ wdpc = "saving" /\ wdpc' = "announcing"
  /\ wd' = [wd EXCEPT !.fails = 0, !.resets = @ + 1]
  /\ upd' = [upd EXCEPT ![Watchdog] = Update("reset")]
  /\ UNCHANGED <<bodyVars, adapterVars, processVars, beacon, historyVars, crashes>>

Announce ==
  /\ PublishBeacon(Watchdog) /\ wdpc' = "idle"
  /\ UNCHANGED <<bodyVars, adapterVars, processVars, wd, resetLately, resetsDone,
                 alertsDone, crashes>>

WatchdogCrash ==
  /\ wdpc # "idle" /\ wdpc' = "idle"
  /\ crashes < MaxCrashes /\ crashes' = crashes + 1
  /\ upd' = [upd EXCEPT ![Watchdog] = NoUpdate] /\ disturbed' = resetLately
  /\ UNCHANGED <<bodyVars, adapterVars, processVars, beacon, wd, resetLately,
                 resetsDone, alertsDone>>

-----------------------------------------------------------------------------
(* Time. *)

\* The devices have come back and the grace period is over; a slow watchdog may
\* announce its reset after that, and starts another.
GraceEnds ==
  /\ resetLately \/ Grace
  /\ resetLately' = FALSE /\ disturbed' = FALSE
  /\ beacon' = [beacon EXCEPT !.reset = FALSE]
  /\ upd' = [a \in Actors |->
                IF a = Watchdog THEN upd[a] ELSE [upd[a] EXCEPT !.new.reset = FALSE]]
  /\ UNCHANGED <<bodyVars, adapterVars, processVars, watchdogVars,
                 resetsDone, alertsDone, crashes>>

RestartCoolsDown ==
  /\ restarted /\ restarted' = FALSE
  /\ UNCHANGED <<bodyVars, adapterVars, up, beaconVars, watchdogVars, historyVars,
                 crashes>>

EscalationCoolsDown ==
  /\ escalated /\ escalated' = FALSE
  /\ UNCHANGED <<bodyVars, handle, initFails, captureFails, lock, pc,
                 processVars, beaconVars, watchdogVars, historyVars, crashes>>

Capture == Shoot \/ ShootOpens \/ ShootTimesOut \/ Retry \/ RetryOpens \/ ShootExits
Escalate == CountFailure \/ ClimbLadder \/ LadderExits
Poll == Detect \/ DetectOpens \/ DetectExits \/ Reconnect
Watch == Probe \/ Latch \/ ResetBus \/ SaveReset \/ Announce

Next ==
  \/ (\E b \in {"wedged", "locked", "absent"} : Trouble(b)) \/ Plug
  \/ Start \/ Crash \/ WatchdogCrash
  \/ \E t \in Threads : ThreadPublishes(t)
  \/ Poll \/ RequestReset \/ Truncate \/ Rewrite \/ Capture \/ Escalate \/ Watch
  \/ GraceEnds \/ RestartCoolsDown \/ EscalationCoolsDown

SafetySpec == Init /\ [][Next]_vars

\* systemd restarts; the loop, the timer of the watchdog and the schedule come
\* round for ever; a thread that waits for the lock gets it in the end; an
\* update that was begun ends, and time passes.
Spec ==
  /\ SafetySpec
  /\ WF_vars(Start) /\ SF_vars(Detect) /\ WF_vars(DetectOpens \/ DetectExits)
  /\ SF_vars(Shoot) /\ WF_vars(ShootOpens \/ Retry \/ RetryOpens \/ ShootExits)
  /\ SF_vars(Escalate) /\ WF_vars(Watch)
  /\ \A t \in Threads : WF_vars(ThreadPublishes(t))
  /\ WF_vars(Truncate \/ Rewrite)
  /\ SF_vars(GraceEnds) /\ WF_vars(RestartCoolsDown) /\ WF_vars(EscalationCoolsDown)

-----------------------------------------------------------------------------
(* Properties *)

Beacons == [ok : {"unset", "ok", "failed"}, error : BOOLEAN, reset : BOOLEAN]
Updates == [op : {"none", "ok", "failure", "clear", "reset", "rewrite", "rewriting"},
            new : Beacons]
Openings == {"opening", "reopening"}

TypeOK ==
  /\ body \in {"fine", "wedged", "locked", "absent"} /\ stuck \in BOOLEAN
  /\ handle \in {"none", "live", "stale"}
  /\ initFails \in 0 .. MaxInitFailures - 1 /\ captureFails \in 0 .. MaxCaptureFailures
  /\ escalated \in BOOLEAN /\ lock \in Threads \cup {NoLock}
  /\ pc \in [Threads -> {"idle", "clearing", "cleared", "retry", "failing"} \cup Openings]
  /\ up \in BOOLEAN /\ restarted \in BOOLEAN
  /\ beacon \in Beacons /\ upd \in [Actors -> Updates]
  /\ wd \in [fails : 0 .. FailThreshold, resets : Nat, alerted : BOOLEAN]
  /\ wdpc \in {"idle", "latching", "resetting", "saving", "announcing"}

\* The post-reset grace (CHANGELOG, G): once the watchdog has announced a reset,
\* and unless another update of the beacon overlapped the announcement or emptied
\* the file, no thread sets out to open a session while the kernel re-enumerates,
\* whatever the other parties write to the file meanwhile.  One that had set out
\* before may still open it.
GraceKept ==
  [][\A t \in Threads : pc[t] \notin Openings /\ pc'[t] \in Openings =>
       ~(resetLately /\ wdpc = "idle" /\ ~disturbed)]_vars

\* A reset budget over processes that crash: between two sightings of a camera
\* in order, the bus is reset at most MaxResets times, and one time more for
\* each crash that fell between a reset and its being saved; a lock-up is
\* reported once, and once more for each crash.
WatchdogBounded ==
  resetsDone <= MaxResets + crashes /\ alertsDone <= 1 + crashes

\* The ladder (README: service self-restart after N consecutive init failures):
\* a camera that is in order from some time on, and whose bus the watchdog then
\* leaves alone, is photographed with again, whatever state its last troubles
\* left process, handle and counters in.
FramesResume ==
  <>[](body = "fine" /\ wdpc # "resetting") => []<>(upd[Shooter].op = "ok")

\* The capture ladder (adapter.py, J): a camera that opens but never captures
\* makes the process restart, again and again, although every detect succeeds.
WedgeEscalates == <>[](body = "wedged") => []<>~up
===============================================================================
