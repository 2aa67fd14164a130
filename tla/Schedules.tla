------------------------------- MODULE Schedules -------------------------------
(***************************************************************************)
(* The schedule engine: the schedules table, the job store of APScheduler  *)
(* that follows it, the jobs that fire, and the loop that keeps the camera *)
(* connected while a schedule is in its window.                            *)
(*                                                                         *)
(* Time is a clock of Day ticks a day and Days days a week.  A job is      *)
(* processed in the tick in which it is due.  Both stores are files and    *)
(* outlive the service.                                                    *)
(***************************************************************************)
EXTENDS Naturals, FiniteSets

CONSTANTS
  Ids,          \* ids of schedules
  Plans,        \* what an operator can enter: interval, from, to, days
  Day, Days,    \* ticks of a day, days of a week
  MaxInterval,  \* bound: longest interval of a plan
  MaxEdits,     \* bound: requests of the operator
  MaxCrashes,   \* bound: ends of the service
  MaxSlow,      \* bound: ticks that pass while a job runs
  MaxTroubles   \* bound: wedged cameras, full disks or disabled destinations

Windows == [from : 0 .. Day - 1, to : 0 .. Day - 1, days : SUBSET (0 .. Days - 1)]

ASSUME ConstantsAssumption ==
  /\ {Day, Days, MaxInterval} \subseteq Nat \ {0}
  /\ {MaxEdits, MaxCrashes, MaxSlow, MaxTroubles} \subseteq Nat
  /\ \A p \in Plans : /\ p.interval \in 1 .. MaxInterval
                      /\ [from |-> p.from, to |-> p.to, days |-> p.days] \in Windows

VARIABLES
  row,     \* table schedules
  job,     \* the job store: interval and ticks left until the job is due
  inst,    \* fire_capture, run for a schedule
  api,     \* the request under way
  up,      \* is the service running?
  now,     \* the clock
  clear,   \* do disk and destinations allow captures?
  camera,  \* does the camera answer?
  since,   \* history: ticks since the job last started, up to MaxInterval
  strays,  \* history: pictures taken since the schedule was disabled or deleted
  edits, crashes, slow, troubles

stores == <<row, job>>
world == <<now, clear, camera>>
history == <<since, strays>>
counters == <<edits, crashes, slow, troubles>>
vars == <<row, job, inst, api, up, now, clear, camera, history, counters>>

NoRow == [on |-> FALSE]
NoJob == [interval |-> 0]
Idle == [pc |-> "idle"]  \* of an instance, a request

Times == 0 .. Day * Days - 1

Init ==
  /\ row = [i \in Ids |-> NoRow] /\ job = [i \in Ids |-> NoJob]
  /\ inst = [i \in Ids |-> Idle] /\ api = Idle
  /\ up = FALSE /\ now \in Times /\ clear = TRUE /\ camera = TRUE
  /\ since = [i \in Ids |-> MaxInterval] /\ strays = [i \in Ids |-> 0]
  /\ edits = 0 /\ crashes = 0 /\ slow = 0 /\ troubles = 0

-----------------------------------------------------------------------------
(* The rules.  should_skip and is_within_window state the window twice. *)

DayOf(t) == t \div Day
MinuteOf(t) == t % Day

\* should_skip, up to the window; no day named is every day.
OutsideWindow(w, t) ==
  \/ w.days # {} /\ DayOf(t) \notin w.days
  \/ IF w.from <= w.to THEN ~(w.from <= MinuteOf(t) /\ MinuteOf(t) <= w.to)
                       ELSE MinuteOf(t) < w.from /\ MinuteOf(t) > w.to

\* Mutant: a window over midnight is taken for an empty one.
IsWithinWindow_NoMidnight(w, t) ==
  /\ w.days = {} \/ DayOf(t) \in w.days
  /\ w.from <= MinuteOf(t) /\ MinuteOf(t) <= w.to

IsWithinWindow(w, t) ==
  /\ w.days = {} \/ DayOf(t) \in w.days
  /\ \/ w.from <= MinuteOf(t) /\ MinuteOf(t) <= w.to
     \/ w.from > w.to /\ (MinuteOf(t) >= w.from \/ MinuteOf(t) <= w.to)

AnyActiveNow == \E i \in Ids : row[i].on /\ IsWithinWindow(row[i], now)

-----------------------------------------------------------------------------
(* Requests.  They run on the event loop, one after the other; a crash can fall
   between the table and the job store, and jobs fire meanwhile. *)

Write(i, r) ==
  /\ up /\ api = Idle /\ edits < MaxEdits /\ edits' = edits + 1
  /\ row' = [row EXCEPT ![i] = r] /\ api' = [pc |-> "remove", id |-> i]
  /\ strays' = IF r.on THEN [strays EXCEPT ![i] = 0] ELSE strays
  /\ UNCHANGED <<job, inst, up, world, since, crashes, slow, troubles>>

Entry(p, on) == [interval |-> p.interval, from |-> p.from, to |-> p.to,
                 days |-> p.days, on |-> on]

CreateSchedule(i, p, on) == row[i] = NoRow /\ Write(i, Entry(p, on))

\* Fields the request leaves out keep their value: p is what comes of it.
UpdateSchedule(i, p, on) == row[i] # NoRow /\ Write(i, Entry(p, on))

DeleteSchedule(i) == row[i] # NoRow /\ Write(i, NoRow)

\* Mutant: a job starts at once and then every interval.
Fresh_AtOnce(interval) == [interval |-> interval, left |-> 0]

\* add_job with an IntervalTrigger: the first run is an interval away.
Fresh(interval) == [interval |-> interval, left |-> interval]

\* _sync_job, or the end of delete: the job is taken out ...
SyncRemove ==
  /\ api.pc = "remove" /\ job' = [job EXCEPT ![api.id] = NoJob]
  /\ api' = IF row[api.id].on THEN [api EXCEPT !.pc = "add"] ELSE Idle
  /\ UNCHANGED <<row, inst, up, world, history, counters>>

\* ... and put back if the schedule is enabled.
SyncAdd ==
  /\ api.pc = "add" /\ api' = Idle
  /\ job' = [job EXCEPT ![api.id] = Fresh(row[api.id].interval)]
  /\ UNCHANGED <<row, inst, up, world, history, counters>>

-----------------------------------------------------------------------------
(* The service starts and ends. *)

\* Mutant: jobs the store has already are left as they are.
Hydrated_IfMissing(i) ==
  IF row[i].on /\ job[i] = NoJob THEN Fresh(row[i].interval) ELSE job[i]

\* Mutant: the job store is trusted.
Hydrated_Stored(i) == job[i]

\* hydrate_from_db before start: a stopped scheduler has no job to remove, so
\* jobs of schedules that are gone or disabled stay in the store.
Hydrated(i) == IF row[i].on THEN Fresh(row[i].interval) ELSE job[i]

Boot ==
  /\ ~up /\ up' = TRUE /\ job' = [i \in Ids |-> Hydrated(i)]
  /\ UNCHANGED <<row, inst, api, world, history, counters>>

Crash ==
  /\ up /\ crashes < MaxCrashes /\ crashes' = crashes + 1
  /\ up' = FALSE /\ api' = Idle /\ inst' = [i \in Ids |-> Idle]
  /\ UNCHANGED <<row, job, world, history, edits, slow, troubles>>

-----------------------------------------------------------------------------
(* Jobs. *)

Due(i) == up /\ job[i] # NoJob /\ job[i].left = 0

\* One instance of a job at a time: if it still runs, this run is skipped.
Fire(i) ==
  /\ Due(i) /\ job' = [job EXCEPT ![i].left = job[i].interval]
  /\ IF inst[i] = Idle
     THEN inst' = [inst EXCEPT ![i] = [pc |-> "fired"]] /\ since' = [since EXCEPT ![i] = 0]
     ELSE UNCHANGED <<inst, since>>
  /\ UNCHANGED <<row, api, up, world, strays, counters>>

Step(i, next) ==
  /\ inst' = [inst EXCEPT ![i] = next]
  /\ UNCHANGED <<stores, api, up, world, history, counters>>

\* Mutant: whatever has a row is fired.
Admitted_HasRow(i) == row[i] # NoRow

\* "no_such_schedule" and "disabled" are refused.
Admitted(i) == row[i].on

ReadRow(i) ==
  /\ inst[i].pc = "fired"
  /\ Step(i, IF Admitted(i) THEN [pc |-> "read", plan |-> row[i]] ELSE Idle)

\* should_skip and the gate of the destinations, of the row that was read.
CheckRules(i) ==
  /\ inst[i].pc = "read"
  /\ Step(i, IF ~OutsideWindow(inst[i].plan, now) /\ clear
             THEN [inst[i] EXCEPT !.pc = "ready"] ELSE Idle)

\* detect, the gates of the disk, capture.
Shoot(i) ==
  /\ inst[i].pc = "ready"
  /\ inst' = [inst EXCEPT ![i] = IF camera /\ clear THEN [pc |-> "shot"] ELSE Idle]
  /\ strays' = IF camera /\ clear /\ ~row[i].on THEN [strays EXCEPT ![i] = @ + 1] ELSE strays
  /\ UNCHANGED <<stores, api, up, world, since, counters>>

\* What is done with the photo is the matter of other modules.
EndRun(i) == inst[i].pc = "shot" /\ Step(i, Idle)

-----------------------------------------------------------------------------
(* Surroundings. *)

MinOf(a, b) == IF a <= b THEN a ELSE b

Tick ==
  /\ \A i \in Ids : ~Due(i)
  /\ IF \E i \in Ids : inst[i] # Idle THEN slow < MaxSlow /\ slow' = slow + 1
                                      ELSE slow' = slow
  /\ now' = (now + 1) % (Day * Days)
  /\ job' = [i \in Ids |-> IF job[i] # NoJob /\ job[i].left > 0
                           THEN [job[i] EXCEPT !.left = @ - 1] ELSE job[i]]
  /\ since' = [i \in Ids |-> MinOf(since[i] + 1, MaxInterval)]
  /\ UNCHANGED <<row, inst, api, up, clear, camera, strays, edits, crashes, troubles>>

Trouble ==
  /\ troubles < MaxTroubles /\ troubles' = troubles + 1
  /\ \/ camera /\ camera' = FALSE /\ UNCHANGED clear
     \/ clear /\ clear' = FALSE /\ UNCHANGED camera
  /\ UNCHANGED <<stores, inst, api, up, now, history, edits, crashes, slow>>

Cleared ==
  /\ ~clear /\ clear' = TRUE
  /\ UNCHANGED <<stores, inst, api, up, now, camera, history, counters>>

\* _camera_reconnect_loop: only while a schedule is active.
ReconnectCamera ==
  /\ up /\ AnyActiveNow /\ ~camera /\ camera' = TRUE
  /\ UNCHANGED <<stores, inst, api, up, now, clear, history, counters>>

Run(i) == ReadRow(i) \/ CheckRules(i) \/ Shoot(i) \/ EndRun(i)

Next ==
  \/ SyncRemove \/ SyncAdd \/ Boot \/ Crash \/ Tick \/ Trouble \/ Cleared
  \/ ReconnectCamera
  \/ \E i \in Ids : \/ Fire(i) \/ Run(i) \/ DeleteSchedule(i)
                    \/ \E p \in Plans, on \in BOOLEAN :
                         CreateSchedule(i, p, on) \/ UpdateSchedule(i, p, on)

\* Systemd starts the service, requests and jobs go on, the clock runs, the
\* operator clears the disk.  A camera is lost for longer than a window at worst
\* several times: the windows are longer than the ladder of the reconnect loop.
Fairness ==
  /\ WF_vars(Boot) /\ WF_vars(SyncRemove) /\ WF_vars(SyncAdd)
  /\ WF_vars(Tick) /\ WF_vars(Cleared) /\ SF_vars(ReconnectCamera)
  /\ \A i \in Ids : WF_vars(Fire(i)) /\ WF_vars(Run(i))

Spec == Init /\ [][Next]_vars /\ Fairness

-----------------------------------------------------------------------------
(* Properties *)

TypeOK ==
  /\ \A i \in Ids : row[i] = NoRow \/ \E p \in Plans, on \in BOOLEAN : row[i] = Entry(p, on)
  /\ \A i \in Ids : job[i] = NoJob \/ job[i] \in [interval : 1 .. MaxInterval,
                                                   left : 0 .. MaxInterval]
  /\ \A i \in Ids : inst[i].pc \in {"idle", "fired", "read", "ready", "shot"}
  /\ api = Idle \/ api \in [pc : {"remove", "add"}, id : Ids]
  /\ {up, clear, camera} \subseteq BOOLEAN /\ now \in Times
  /\ since \in [Ids -> 0 .. MaxInterval] /\ strays \in [Ids -> Nat]

\* engine.py: each schedule has a paired job.  Wherever a crash fell between the
\* two stores, a running station that serves no request has a job, with its
\* interval, for every enabled schedule.
EnabledHasJob ==
  up /\ api = Idle =>
    \A i \in Ids : row[i].on => job[i] # NoJob /\ job[i].interval = row[i].interval

\* Disabling stops a schedule: after the operator has disabled or deleted it, it
\* takes at most the one picture whose run had read the row before, whatever jobs
\* the store still holds, over crashes and boots that leave them there.
QuietOnceDisabled == \A i \in Ids : strays[i] <= 1

\* Edits, restarts and skipped runs never bring two runs of a schedule closer
\* together than the interval of its job.
RunsAreSpaced ==
  [][\A i \in Ids : inst[i] = Idle /\ inst'[i] # Idle => since[i] >= job[i].interval]_vars

\* The moments of a window, walked from its first round the clock to its last;
\* its days are those of the moment, not of the evening the window began.
InSpan(w, t) ==
  \E k \in 0 .. (w.to + Day - w.from) % Day : MinuteOf(t) = (w.from + k) % Day

\* The job and the camera loop decide alike, and as the window says, over
\* midnight, with equal ends and with no day named.
WindowsAgree ==
  \A w \in Windows :
    /\ IsWithinWindow(w, now) = ~OutsideWindow(w, now)
    /\ IsWithinWindow(w, now) = (InSpan(w, now) /\ (w.days = {} \/ DayOf(now) \in w.days))

\* A window as long as the interval has a run of the job in it.
LongEnough(r) ==
  \E s \in Times : \A k \in 0 .. r.interval - 1 : IsWithinWindow(r, (s + k) % (Day * Days))

\* README.md: schedules are persisted across reboots.  Once the operator leaves
\* it alone, an enabled schedule whose window is as long as its interval goes on
\* capturing, whatever crashed between its two stores and whether or not the
\* camera was lost outside the window.
EnabledCaptures ==
  \A i \in Ids :
    <>[](row[i].on /\ LongEnough(row[i])) => []<>(inst[i].pc = "shot")
===============================================================================
