------------------------------ MODULE Freshness ------------------------------
(***************************************************************************)
(* The self-test's verdict on the camera of a scheduled station: are       *)
(* photos landing?  A schedule fires every Interval and takes photos in    *)
(* the window of its days; the verdict is a function of the clock, the     *)
(* schedule and the age of the newest photo, looked at at any time.        *)
(***************************************************************************)
EXTENDS Naturals

CONSTANTS
  Day,    \* units of time in a day
  Week,   \* days, after which the calendar repeats
  Plans,  \* schedules: interval, window and days
  Grace   \* what a photo may be late before anything is said

Assumption ==
  /\ {Day, Week, Grace} \subseteq Nat \ {0}
  /\ \A p \in Plans : /\ p.interval \in Nat \ {0}
                      /\ {p.from, p.to} \subseteq 0 .. Day - 1
                      /\ p.days \subseteq 0 .. Week - 1

VARIABLES
  plan,    \* the schedule
  on,      \* is it enabled, and the service up?
  now,     \* the station's clock
  next,    \* time until the schedule fires
  shot,    \* a shot: none, just taken, taken a unit ago
  photo,   \* is there a photo in the table?
  age,     \* of the newest
  cam,     \* does the camera work?
  missed,  \* shots of this window that failed since a photo landed
  whole    \* was every shot asked for since then, or since the window opened?

vars == <<plan, on, now, next, shot, photo, age, cam, missed, whole>>

\* Bound: no verdict tells greater ages apart.
AgeCap == 2 * Day

Weekday(t) == t \div Day
Minute(t) == t % Day

\* _schedule_active_now, and the window rule of the captures; no day named is
\* every day.
Active(t) ==
  /\ on /\ (plan.days = {} \/ Weekday(t) \in plan.days)
  /\ IF plan.from <= plan.to
     THEN plan.from <= Minute(t) /\ Minute(t) <= plan.to
     ELSE Minute(t) >= plan.from \/ Minute(t) <= plan.to

SinceOpen == (Minute(now) + Day - plan.from) % Day

Init ==
  /\ plan \in Plans /\ on = FALSE /\ now = 0 /\ next = plan.interval
  /\ shot = "none" /\ photo = FALSE /\ age = AgeCap /\ cam = TRUE
  /\ missed = 0 /\ whole = FALSE

\* A window opens at its hour, one without an end too; and with its day, when
\* it is open over midnight and the day before is none of the schedule's.
Opens == Active(now') /\ (~Active(now) \/ Minute(now') = plan.from)

\* Time goes on when what is due now has been done.
Tick ==
  /\ next > 0 /\ shot # "late"
  /\ now' = (now + 1) % (Day * Week)
  /\ next' = IF on THEN next - 1 ELSE next
  /\ shot' = IF shot = "taken" THEN "late" ELSE shot
  /\ age' = IF age < AgeCap THEN age + 1 ELSE age
  /\ IF Opens
     THEN missed' = 0 /\ whole' = (Minute(now') = plan.from)
     ELSE UNCHANGED <<missed, whole>>
  /\ UNCHANGED <<plan, on, photo, cam>>

Fire ==
  /\ on /\ next = 0 /\ shot = "none" /\ next' = plan.interval
  /\ shot' = IF Active(now) THEN "taken" ELSE "none"
  /\ UNCHANGED <<plan, on, now, photo, age, cam, missed, whole>>

\* At once, or up to a unit late.
Land ==
  /\ shot # "none" /\ cam /\ shot' = "none"
  /\ photo' = TRUE /\ age' = 0 /\ missed' = 0 /\ whole' = TRUE
  /\ UNCHANGED <<plan, on, now, next, cam>>

\* A shot that was taken before the window opened is not one of it.
Earlier == shot = "late" /\ SinceOpen = 0

\* The count is cut at Day, more than a window has.
Fail ==
  /\ shot # "none" /\ ~cam /\ shot' = "none"
  /\ missed' = IF missed < Day /\ ~Earlier THEN missed + 1 ELSE missed
  /\ UNCHANGED <<plan, on, now, next, photo, age, cam, whole>>

\* A full disk, a destination that is down, a duplicate: no row, no failure.
Skip ==
  /\ shot # "none" /\ shot' = "none" /\ whole' = FALSE /\ missed' = 0
  /\ UNCHANGED <<plan, on, now, next, photo, age, cam>>

CameraBreaks == cam /\ cam' = FALSE
             /\ UNCHANGED <<plan, on, now, next, shot, photo, age, missed, whole>>
CameraWorks == ~cam /\ cam' = TRUE
             /\ UNCHANGED <<plan, on, now, next, shot, photo, age, missed, whole>>

\* The operator, or the end and the start of the service: the job is new.
Toggle ==
  /\ shot = "none" /\ on' = ~on /\ next' = plan.interval
  /\ whole' = FALSE /\ missed' = 0
  /\ UNCHANGED <<plan, now, shot, photo, age, cam>>

Next ==
  \/ Tick \/ Fire \/ Land \/ Fail \/ Skip
  \/ CameraBreaks \/ CameraWorks \/ Toggle

Spec == Init /\ [][Next]_vars

-----------------------------------------------------------------------------
(* The verdict. *)

\* Mutant: what went on before the window opened counts.
Stale_Age == age
Stale == IF age < SinceOpen THEN age ELSE SinceOpen

\* Mutant: one interval too many.
TooOld_Tripled == Stale > 3 * plan.interval + Grace
TooOld == Stale > 2 * plan.interval + Grace

\* Outside every window, and before the first photo, the beacon is asked.
CameraCheck ==
  CASE ~Active(now) \/ ~photo               -> "beacon"
    [] Active(now) /\ photo /\ TooOld        -> "bad"
    [] Active(now) /\ photo /\ ~TooOld
       /\ Stale > plan.interval + Grace      -> "warn"
    [] OTHER                                 -> "ok"

-----------------------------------------------------------------------------
TypeOK ==
  /\ plan \in Plans /\ on \in BOOLEAN /\ now \in 0 .. Day * Week - 1
  /\ next \in 0 .. plan.interval /\ shot \in {"none", "taken", "late"}
  /\ photo \in BOOLEAN /\ age \in 0 .. AgeCap /\ cam \in BOOLEAN
  /\ missed \in 0 .. Day /\ whole \in BOOLEAN

\* A station whose shots all land on schedule, each up to a unit late, is not
\* called sick: not at the opening of a window, not at midnight
\* (_capture_freshness).  Two cases are left out, where the code counts from
\* an hour at which it took no photos (`whole' is FALSE until one lands): a
\* schedule enabled within its window, and the morning after a day on which
\* a window over midnight did not open.
NoFalseAlarm == whole /\ missed = 0 => CameraCheck \in {"ok", "beacon"}

\* An outage is not missed: when the failed shots in a row, from the first to
\* the last, span more than two intervals and the grace - the fourth, if the
\* interval is longer than the grace - the camera is bad until a photo lands
\* or the window opens anew.
OutageShows ==
  photo /\ Active(now) /\ missed * plan.interval > 3 * plan.interval + Grace
    => CameraCheck = "bad"
=============================================================================
