--------------------------------- MODULE Care ---------------------------------
(***************************************************************************)
(* Six components that look after the station and share no variable: the   *)
(* audit log, the shutdown on battery, the verdict on the camera, the      *)
(* alerts, the acceptance runner, and the backups with the guard that      *)
(* restores them.  Each property is about one of them, so that their       *)
(* interleavings add nothing: a behaviour moves one component and leaves   *)
(* the others in their initial states.                                     *)
(***************************************************************************)
EXTENDS AuditChain

CONSTANTS
  Full, Low, Period, StartDelay, MaxFails, MaxRestarts,
  Day, Week, Plans, Grace, Loop, Cockpit, Runs, NoRun, Checks, MaxEnds,
  Threads, RetainDays, MaxWritten, MaxDays, MaxDamages, MaxCrashes, MaxCutOffs

VARIABLES
  charge, mains, began, due, power, fails, restarts,
  plan, on, now, next, shot, photo, age, cam, missed, whole,
  record, test, told, shaken, alertRestarts,
  run, result, current, thread, ends,
  live, conn, phase, restoring, snaps, backup, written, day, damages, crashes, cutOffs,
  covered,
  part  \* the component that moves

powerVars == <<charge, mains, began, due, power, fails, restarts>>
freshVars == <<plan, on, now, next, shot, photo, age, cam, missed, whole>>
alertVars == <<record, test, told, shaken, alertRestarts>>
acceptVars == <<run, result, current, thread, ends>>
guardVars == <<live, conn, phase, restoring, snaps, backup, written, day, damages, crashes,
               cutOffs, covered>>
careVars == <<vars, powerVars, freshVars, alertVars, acceptVars, guardVars, part>>

Power == INSTANCE PowerGuard
Fresh == INSTANCE Freshness
Alerts == INSTANCE HealthAlerts WITH restarts <- alertRestarts
Runner == INSTANCE Acceptance
Boot == INSTANCE BootGuard WITH MaxRows <- MaxWritten

ASSUME CareAssumption ==
  /\ Power!Assumption /\ Fresh!Assumption /\ Alerts!Assumption /\ Runner!Assumption
  /\ Boot!Assumption

CareInit ==
  /\ Init /\ Power!Init /\ Fresh!Init /\ Alerts!Init /\ Runner!Init /\ Boot!Init
  /\ part \in {"audit", "power", "freshness", "alerts", "acceptance", "guard"}
  /\ part # "freshness" => plan = CHOOSE p \in Plans : TRUE

AuditMoves ==
  /\ part = "audit" /\ Next
  /\ UNCHANGED <<powerVars, freshVars, alertVars, acceptVars, guardVars, part>>

PowerMoves ==
  /\ part = "power" /\ Power!Next
  /\ UNCHANGED <<vars, freshVars, alertVars, acceptVars, guardVars, part>>

FreshnessMoves ==
  /\ part = "freshness" /\ Fresh!Next
  /\ UNCHANGED <<vars, powerVars, alertVars, acceptVars, guardVars, part>>

AlertsMove ==
  /\ part = "alerts" /\ Alerts!Next
  /\ UNCHANGED <<vars, powerVars, freshVars, acceptVars, guardVars, part>>

AcceptanceMoves ==
  /\ part = "acceptance" /\ Runner!Next
  /\ UNCHANGED <<vars, powerVars, freshVars, alertVars, guardVars, part>>

OthersRest == UNCHANGED <<vars, powerVars, freshVars, alertVars, acceptVars, part>>

GuardMoves == part = "guard" /\ Boot!Next /\ OthersRest

CareNext ==
  \/ AuditMoves \/ PowerMoves \/ FreshnessMoves \/ AlertsMove \/ AcceptanceMoves
  \/ GuardMoves

CareSpec == CareInit /\ [][CareNext]_careVars

\* systemd restarts the process, and lifespan goes on: see BootGuard.
LiveSpec == CareSpec /\ WF_careVars(part = "guard" /\ Boot!Guard /\ OthersRest)

\* The power is not lost under a running station: see PowerGuard.
ShutsDownInTime == Power!ShutsDownInTime

\* The verdict raises no false alarm: see Freshness.
NoFalseAlarm == Fresh!NoFalseAlarm

\* The verdict misses no outage: see Freshness.
OutageShows == Fresh!OutageShows

\* A failure is announced: see HealthAlerts.
BadIsTold == Alerts!BadIsTold

\* The summary of an acceptance run agrees with its report: see Acceptance.
SummaryTrue == Runner!SummaryTrue

\* No row of a sound snapshot is lost: see BootGuard.
SnapshotsSurvive == Boot!SnapshotsSurvive

\* A sound snapshot outlives silent damage: see BootGuard.
AWeekToNotice == Boot!AWeekToNotice

\* While there is a sound snapshot, no damage keeps the station down: see BootGuard.
ComesUp == part = "guard" => Boot!ComesUp
=============================================================================
