----------------------------- MODULE CameraProofs -----------------------------
(***************************************************************************)
(* Type correctness of Camera, the watchdog's budget and the grace after a *)
(* USB reset, proved for limits, troubles and crashes of any number.       *)
(***************************************************************************)
EXTENDS Camera, TLAPS

-----------------------------------------------------------------------------
(* Types. *)

\* Where a thread can be.
Places == {"idle", "clearing", "cleared", "retry", "failing"} \cup Openings

LEMMA ApplyTypes ==
  ASSUME NEW op \in {"ok", "failure", "clear", "reset"}, NEW b \in Beacons
  PROVE  /\ Apply(op, b) \in Beacons
         /\ b.reset => Apply(op, b).reset
         /\ op = "reset" => Apply(op, b).reset
PROOF BY DEF Apply, Beacons

LEMMA UpdateTypes ==
  ASSUME NEW op \in {"ok", "failure", "clear", "reset"}, beacon \in Beacons
  PROVE  /\ Update(op) \in Updates /\ UpdateClear \in Updates /\ NoUpdate \in Updates
         /\ Update(op).op = op /\ Update(op).new = Apply(op, beacon)
PROOF
  <1>1. Apply(op, beacon) \in Beacons /\ Apply("clear", beacon) \in Beacons
    BY ApplyTypes
  <1>2. NoUpdate \in Updates
    BY DEF NoUpdate, NoBeacon, Updates, Beacons
  <1> QED BY <1>1, <1>2 DEF Update, UpdateClear, Updates

\* What every action keeps of the camera and of the process.
LEMMA BusResetTypes ==
  ASSUME TypeOK, BusReset PROVE body' \in {"fine", "wedged", "locked", "absent"} /\ stuck' \in BOOLEAN
PROOF BY DEF TypeOK, BusReset, Cured

LEMMA EnsureTypes ==
  ASSUME ConstantsAssumption, TypeOK
  PROVE  /\ EnsureRaises => /\ handle' = "none" /\ initFails' \in 0 .. MaxInitFailures - 1
                             /\ body' \in {"fine", "wedged", "locked", "absent"}
                             /\ stuck' \in BOOLEAN
         /\ RefusedInGrace => /\ handle' = "none" /\ initFails' \in 0 .. MaxInitFailures - 1
                               /\ body' \in {"fine", "wedged", "locked", "absent"}
                               /\ stuck' \in BOOLEAN
         /\ 0 \in 0 .. MaxInitFailures - 1
PROOF
  <1>1. MaxInitFailures \in Nat /\ 0 < MaxInitFailures
    BY DEF ConstantsAssumption
  <1> QED BY <1>1, BusResetTypes
      DEF EnsureRaises, RefusedInGrace, TypeOK, bodyVars

\* A thread sets out to open a session, tries again, or gives up.
LEMMA PlaceTypes ==
  ASSUME TypeOK, NEW t \in Threads, NEW place \in Openings
  PROVE  /\ SetsOut(t, place) => /\ UNCHANGED <<body, stuck, handle, initFails, upd>>
                                 /\ lock' \in Threads /\ pc' \in [Threads -> Places]
         /\ TriesAgain => /\ handle' = "none" /\ upd' = upd /\ lock' \in Threads
                          /\ pc' \in [Threads -> Places]
         /\ \A op \in {"ok", "failure"} :
              Holding(t, op) => lock' \in Threads /\ upd' \in [Actors -> Updates]
         /\ GivesUp => lock' = NoLock /\ upd' \in [Actors -> Updates]
PROOF
  <1>1. Shooter \in Threads /\ Threads \subseteq Actors /\ Openings \subseteq Places
    BY DEF Threads, Actors, Openings, Places
  <1>2. pc \in [Threads -> Places] /\ upd \in [Actors -> Updates]
    BY DEF TypeOK, Places, Openings
  <1>3. \A op \in {"ok", "failure"} : Update(op) \in Updates
    BY UpdateTypes DEF TypeOK
  <1>4. "retry" \in Places
    BY DEF Places
  <1> QED BY <1>1, <1>2, <1>3, <1>4 DEF SetsOut, TriesAgain, Holding, GivesUp, bodyVars

LEMMA EndTypes ==
  ASSUME ConstantsAssumption, TypeOK, ProcessEnds, restarted' \in BOOLEAN PROVE TypeOK'
PROOF
  <1>1. NoUpdate \in Updates
    BY DEF NoUpdate, NoBeacon, Updates, Beacons
  <1>2. upd' \in [Actors -> Updates]
    BY <1>1 DEF TypeOK, ProcessEnds
  <1>3. 0 \in 0 .. MaxInitFailures - 1 /\ 0 \in 0 .. MaxCaptureFailures
    BY DEF ConstantsAssumption
  <1>4. [t \in Threads |-> "idle"] \in [Threads -> Places]
    BY DEF Places
  <1> QED BY <1>2, <1>3, <1>4 DEF TypeOK, ProcessEnds, watchdogVars, Places

\* What the watchdog saves.
LEMMA SavedTypes ==
  ASSUME NEW F, NEW k \in F, NEW r \in Nat,
         NEW w \in [fails : F, resets : Nat, alerted : BOOLEAN]
  PROVE  /\ [w EXCEPT !.fails = k] \in [fails : F, resets : Nat, alerted : BOOLEAN]
         /\ [w EXCEPT !.fails = k, !.resets = r]
              \in [fails : F, resets : Nat, alerted : BOOLEAN]
         /\ [fails |-> k, resets |-> 0, alerted |-> FALSE]
              \in [fails : F, resets : Nat, alerted : BOOLEAN]
         /\ w.fails \in F /\ w.resets \in Nat
PROOF OBVIOUS

LEMMA InitTypes == ASSUME ConstantsAssumption, Init PROVE TypeOK
PROOF
  <1>1. NoUpdate \in Updates /\ NoBeacon \in Beacons
    BY DEF NoUpdate, NoBeacon, Updates, Beacons
  <1>2. 0 \in 0 .. MaxInitFailures - 1 /\ 0 \in 0 .. MaxCaptureFailures
        /\ 0 \in 0 .. FailThreshold
    BY DEF ConstantsAssumption
  <1> QED BY <1>1, <1>2 DEF Init, TypeOK

\* No step leaves the types: what is written to the beacon is a record of it.
LEMMA StepTypes == ASSUME ConstantsAssumption, TypeOK, [Next]_vars PROVE TypeOK'
PROOF
  <1>1. /\ MaxInitFailures \in Nat /\ 0 < MaxInitFailures
        /\ MaxCaptureFailures \in Nat /\ 0 < MaxCaptureFailures
        /\ FailThreshold \in Nat /\ 0 < FailThreshold
        /\ Poller \in Threads /\ Shooter \in Threads
        /\ Threads \subseteq Actors /\ Watchdog \in Actors
    BY DEF ConstantsAssumption, Threads, Actors
  <1>0. Openings \subseteq Places /\ "opening" \in Openings /\ "reopening" \in Openings
    BY DEF Openings, Places
  <1>2. /\ \A op \in {"ok", "failure", "clear", "reset"} :
             Update(op) \in Updates
        /\ UpdateClear \in Updates /\ NoUpdate \in Updates
    BY UpdateTypes DEF TypeOK
  <1>3. /\ NoBeacon \in Beacons
        /\ \A a \in Actors : upd[a].new \in Beacons
    BY DEF NoBeacon, Beacons, TypeOK, Updates
  <1>4. CASE \E b \in {"wedged", "locked", "absent"} : Trouble(b)
    BY <1>4 DEF Trouble, TypeOK, processVars, beaconVars, watchdogVars
  <1>5. CASE Plug
    BY <1>5 DEF Plug, TypeOK, adapterVars, processVars, beaconVars, watchdogVars
  <1>6. CASE Start
    BY <1>6 DEF Start, Cured, TypeOK, adapterVars, beaconVars, watchdogVars
  <1>7. CASE Crash
    BY <1>7, EndTypes DEF Crash, TypeOK
  <1>8. CASE WatchdogCrash
    BY <1>1, <1>2, <1>8 DEF WatchdogCrash, TypeOK, bodyVars, adapterVars, processVars
  <1>9. CASE \E t \in Threads : ThreadPublishes(t)
    <2>1. PICK t \in Threads : ThreadPublishes(t)
      BY <1>9
    <2>2. beacon' \in Beacons /\ upd' \in [Actors -> Updates]
      BY <1>1, <1>2, <1>3, <2>1 DEF ThreadPublishes, PublishBeacon, TypeOK
    <2>3. /\ lock' \in Threads \cup {NoLock}
          /\ pc' \in [Threads -> Places]
          /\ captureFails' \in 0 .. MaxCaptureFailures
      BY <1>1, <2>1 DEF ThreadPublishes, AfterUpdate, TypeOK, Places
    <2> QED BY <2>1, <2>2, <2>3
        DEF ThreadPublishes, TypeOK, bodyVars, processVars, watchdogVars, Places
  <1>10. CASE Detect \/ DetectOpens
    BY <1>0, <1>1, <1>10, EnsureTypes, PlaceTypes
    DEF Detect, DetectOpens, TypeOK, Places, bodyVars, processVars, watchdogVars
  <1>11. CASE Reconnect
    BY <1>1, <1>2, <1>11 DEF Reconnect, TypeOK, bodyVars, processVars, watchdogVars
  <1>12. CASE RequestReset
    <2>1. [op |-> "rewrite", new |-> Apply("clear", beacon)] \in Updates
      BY ApplyTypes DEF Updates, TypeOK
    <2> QED BY <1>1, <1>12, <2>1, BusResetTypes
        DEF RequestReset, TypeOK, processVars, watchdogVars
  <1>13. CASE Shoot \/ ShootOpens
    BY <1>0, <1>1, <1>13, EnsureTypes, PlaceTypes
    DEF Shoot, ShootOpens, TypeOK, Places, bodyVars, processVars, watchdogVars
  <1>14. CASE ShootTimesOut
    BY <1>0, <1>1, <1>14, EnsureTypes, PlaceTypes
    DEF ShootTimesOut, TypeOK, Places, processVars, watchdogVars
  <1>15. CASE Retry \/ RetryOpens
    BY <1>0, <1>1, <1>15, EnsureTypes, PlaceTypes
    DEF Retry, RetryOpens, TypeOK, Places, bodyVars, processVars, watchdogVars
  <1>16. CASE DetectExits \/ ShootExits \/ LadderExits
    BY <1>16, EndTypes DEF DetectExits, ShootExits, LadderExits, EnsureExits, SelfRestart
  <1>17. CASE CountFailure
    BY <1>1, <1>17 DEF CountFailure, TypeOK, bodyVars, processVars, beaconVars, watchdogVars
  <1>18. CASE ClimbLadder
    BY <1>1, <1>18, BusResetTypes
    DEF ClimbLadder, TypeOK, bodyVars, processVars, beaconVars, watchdogVars
  <1>19. CASE Probe
    <2> DEFINE F == 0 .. FailThreshold
               W == [fails : F, resets : Nat, alerted : BOOLEAN]
               P == {"idle", "latching", "resetting", "saving", "announcing"}
    <2>1. wd \in W /\ wdpc \in P /\ 0 \in F
      BY <1>1 DEF TypeOK
    <2>2. wd.fails + 1 >= FailThreshold \/ wd.fails + 1 \in F
      <3>1. wd.fails \in F
        BY <2>1, SavedTypes
      <3> QED BY <1>1, <3>1
    <2>3. FailThreshold \in F
      BY <1>1
    <2> HIDE DEF F
    <2>4. ASSUME SeenWell PROVE wd' \in W /\ wdpc' \in P
      BY <2>1, <2>4, SavedTypes DEF SeenWell, Well
    <2>5. ASSUME ProbeUnattached PROVE wd' \in W /\ wdpc' \in P
      BY <2>1, <2>5, SavedTypes DEF ProbeUnattached
    <2>6. ASSUME ProbeUnhealthy PROVE wd' \in W /\ wdpc' \in P
      <3>1. PICK k \in F : wd' = [wd EXCEPT !.fails = k]
        BY <2>1, <2>2, <2>3, <2>6 DEF ProbeUnhealthy
      <3>2. wdpc' \in P
        BY <2>6 DEF ProbeUnhealthy
      <3> QED BY <2>1, <3>1, <3>2, SavedTypes
    <2>7. wd' \in W /\ wdpc' \in P
      BY <1>19, <2>4, <2>5, <2>6 DEF Probe
    <2> QED BY <1>19, <2>7
        DEF F, Probe, TypeOK, bodyVars, adapterVars, processVars, beaconVars
  <1>20. CASE Latch
    BY <1>20 DEF Latch, TypeOK, bodyVars, adapterVars, processVars, beaconVars
  <1>21. CASE ResetBus
    BY <1>21, BusResetTypes DEF ResetBus, TypeOK, processVars, beaconVars
  <1>22. CASE SaveReset
    <2>1. wd' \in [fails : 0 .. FailThreshold, resets : Nat, alerted : BOOLEAN]
      <3> DEFINE F == 0 .. FailThreshold
      <3>1. 0 \in F /\ wd \in [fails : F, resets : Nat, alerted : BOOLEAN]
        BY <1>1 DEF TypeOK
      <3> HIDE DEF F
      <3>2. wd.resets + 1 \in Nat
        BY <3>1
      <3>3. wd' \in [fails : F, resets : Nat, alerted : BOOLEAN]
        BY <1>22, <3>1, <3>2, SavedTypes DEF SaveReset
      <3> QED BY <3>3 DEF F
    <2>2. upd' \in [Actors -> Updates]
      BY <1>1, <1>2, <1>22 DEF SaveReset, TypeOK
    <2> QED BY <1>22, <2>1, <2>2 DEF SaveReset, TypeOK, bodyVars, adapterVars, processVars
  <1>23. CASE Announce
    <2>1. beacon' \in Beacons /\ upd' \in [Actors -> Updates]
      BY <1>1, <1>2, <1>3, <1>23 DEF Announce, PublishBeacon, TypeOK
    <2> QED BY <1>23, <2>1 DEF Announce, TypeOK, bodyVars, adapterVars, processVars
  <1>24. CASE GraceEnds
    <2>1. \A u \in Updates : [u EXCEPT !.new.reset = FALSE] \in Updates
      BY DEF Updates, Beacons
    <2>2. upd' \in [Actors -> Updates]
      BY <1>24, <2>1 DEF GraceEnds, TypeOK
    <2>3. beacon' \in Beacons
      BY <1>24 DEF GraceEnds, TypeOK, Beacons
    <2> QED BY <1>24, <2>2, <2>3
        DEF GraceEnds, TypeOK, bodyVars, adapterVars, processVars, watchdogVars
  <1>25. CASE RestartCoolsDown
    BY <1>25 DEF RestartCoolsDown, TypeOK, bodyVars, adapterVars, beaconVars, watchdogVars
  <1>26. CASE EscalationCoolsDown
    BY <1>26 DEF EscalationCoolsDown, TypeOK, bodyVars, processVars, beaconVars, watchdogVars
  <1>27. CASE Truncate \/ Rewrite
    <2>1. upd[Poller] \in Updates /\ [upd[Poller] EXCEPT !.op = "rewriting"] \in Updates
      BY <1>1 DEF TypeOK, Updates
    <2>2. beacon' \in Beacons /\ upd' \in [Actors -> Updates]
      BY <1>1, <1>2, <1>3, <1>27, <2>1 DEF Truncate, Rewrite, TypeOK
    <2> QED BY <1>27, <2>2
        DEF Truncate, Rewrite, TypeOK, bodyVars, adapterVars, processVars, watchdogVars
  <1>28. CASE UNCHANGED vars
    BY <1>28 DEF vars, TypeOK, bodyVars, adapterVars, processVars, beaconVars, watchdogVars
  <1> QED
    BY <1>4, <1>5, <1>6, <1>7, <1>8, <1>9, <1>10, <1>11, <1>12, <1>13, <1>14, <1>15,
       <1>16, <1>17, <1>18, <1>19, <1>20, <1>21, <1>22, <1>23, <1>24, <1>25, <1>26, <1>27, <1>28
    DEF Next, Capture, Escalate, Poll, Watch

\* The beacon is a record of it, whatever crashes and whoever writes, and each
\* thread, probe and update is in a place it knows.  (That the count of failed
\* captures stays at its limit is the model's: the code counts on.)
THEOREM CameraTypes == SafetySpec => []TypeOK
PROOF
  <1>1. Init => TypeOK
    BY InitTypes, ConstantsAssumption
  <1>2. TypeOK /\ [Next]_vars => TypeOK'
    BY StepTypes, ConstantsAssumption
  <1> QED BY <1>1, <1>2, PTL DEF SafetySpec
-----------------------------------------------------------------------------
(* The watchdog's update. *)

\* The watchdog writes to the beacon only to announce a reset it has saved.
AnnouncesResets ==
  IF wdpc = "announcing"
  THEN upd[Watchdog].op = "reset" /\ upd[Watchdog].new.reset
  ELSE upd[Watchdog] = NoUpdate

\* Nobody else touches what the watchdog is about to write.
LEMMA WatchdogsOwn ==
  ASSUME ConstantsAssumption, TypeOK, AnnouncesResets, [Next]_vars, ~Watch, ~WatchdogCrash
  PROVE  upd'[Watchdog] = upd[Watchdog] /\ (wdpc' = wdpc)
PROOF
  <1>1. Poller # Watchdog /\ Shooter # Watchdog /\ Watchdog \notin Threads
        /\ Watchdog \in Actors /\ upd \in [Actors -> Updates]
        /\ upd[Watchdog].op # "rewriting"
    BY DEF ConstantsAssumption, Threads, Actors, TypeOK, AnnouncesResets, NoUpdate
  <1>2. ASSUME ProcessEnds PROVE upd'[Watchdog] = upd[Watchdog] /\ wdpc' = wdpc
    BY <1>1, <1>2 DEF ProcessEnds, watchdogVars
  <1>3. CASE \/ \E b \in {"wedged", "locked", "absent"} : Trouble(b)
             \/ Plug \/ Start \/ CountFailure \/ ClimbLadder
             \/ RestartCoolsDown \/ EscalationCoolsDown \/ UNCHANGED vars
    BY <1>3 DEF Trouble, Plug, Start, CountFailure, ClimbLadder, RestartCoolsDown,
                EscalationCoolsDown, vars, beaconVars, watchdogVars
  <1>4. CASE Crash \/ DetectExits \/ ShootExits \/ LadderExits
    BY <1>2, <1>4 DEF Crash, DetectExits, ShootExits, LadderExits, EnsureExits, SelfRestart
  <1>5. CASE \E t \in Threads : ThreadPublishes(t)
    BY <1>1, <1>5 DEF ThreadPublishes, PublishBeacon, watchdogVars
  <1>6. CASE Detect \/ DetectOpens \/ Reconnect \/ RequestReset \/ Truncate \/ Rewrite
    BY <1>1, <1>6 DEF Detect, DetectOpens, Holding, SetsOut, Reconnect, RequestReset,
                      Truncate, Rewrite, watchdogVars
  <1>7. CASE Shoot \/ ShootOpens \/ ShootTimesOut \/ Retry \/ RetryOpens
    BY <1>1, <1>7 DEF Shoot, ShootOpens, ShootTimesOut, Retry, RetryOpens, Holding, SetsOut,
                      TriesAgain, GivesUp, watchdogVars
  <1>8. CASE GraceEnds
    BY <1>1, <1>8 DEF GraceEnds, watchdogVars
  <1> QED BY <1>3, <1>4, <1>5, <1>6, <1>7, <1>8 DEF Next, Capture, Escalate, Poll

LEMMA StepAnnounces ==
  ASSUME ConstantsAssumption, TypeOK, AnnouncesResets, [Next]_vars PROVE AnnouncesResets'
PROOF
  <1>1. Watchdog \in Actors /\ upd \in [Actors -> Updates]
    BY DEF Actors, TypeOK
  <1>2. CASE Probe
    BY <1>2 DEF Probe, SeenWell, ProbeUnattached, ProbeUnhealthy, AnnouncesResets, beaconVars
  <1>3. CASE Latch \/ ResetBus
    BY <1>3 DEF Latch, ResetBus, AnnouncesResets, beaconVars
  <1>4. CASE SaveReset
    <2>1. Update("reset").op = "reset" /\ Update("reset").new.reset
      BY UpdateTypes, ApplyTypes DEF TypeOK
    <2> QED BY <1>1, <1>4, <2>1 DEF SaveReset, AnnouncesResets
  <1>5. CASE Announce \/ WatchdogCrash
    BY <1>1, <1>5 DEF Announce, PublishBeacon, WatchdogCrash, AnnouncesResets
  <1> QED BY <1>2, <1>3, <1>4, <1>5, WatchdogsOwn DEF Watch, AnnouncesResets

-----------------------------------------------------------------------------
(* The watchdog's budget. *)

Counted == resetsDone \in Nat /\ alertsDone \in Nat /\ crashes \in Nat

\* A probe goes on to a reset only with budget left for it.
WithinBudget ==
  wd.resets + (IF wdpc \in {"resetting", "saving"} THEN 1 ELSE 0) <= MaxResets

\* What the saved count misses is the reset being saved, and one for each crash.
ResetsSaved ==
  resetsDone <= wd.resets + crashes + (IF wdpc = "saving" THEN 1 ELSE 0)

\* What the latch misses is the alert being latched, and one for each crash.
AlertsLatched ==
  /\ alertsDone <= crashes + (IF wd.alerted \/ wdpc = "latching" THEN 1 ELSE 0)
  /\ wdpc = "latching" => ~wd.alerted

BudgetInv == Counted /\ WithinBudget /\ ResetsSaved /\ AlertsLatched

LEMMA BudgetKept ==
  ASSUME TypeOK, BudgetInv, UNCHANGED <<wd, wdpc, resetsDone, alertsDone>>,
         crashes' = crashes \/ crashes' = crashes + 1
  PROVE  BudgetInv'
PROOF
  <1>1. wd.resets \in Nat
    BY DEF TypeOK
  <1> QED BY <1>1
      DEF BudgetInv, Counted, WithinBudget, ResetsSaved, AlertsLatched

\* What the counts may miss is what a step of the watchdog leaves for its next.
LEMMA StepBudget ==
  ASSUME ConstantsAssumption, TypeOK, AnnouncesResets, BudgetInv, [Next]_vars
  PROVE  BudgetInv'
PROOF
  <1>1. wd.resets \in Nat /\ wd.alerted \in BOOLEAN /\ MaxResets \in Nat
        /\ wd \in [fails : 0 .. FailThreshold, resets : Nat, alerted : BOOLEAN]
    BY DEF TypeOK, ConstantsAssumption
  <1>2. Counted /\ WithinBudget /\ ResetsSaved /\ AlertsLatched
    BY DEF BudgetInv
  <1>3. CASE Probe
    <2>1. wdpc = "idle" /\ crashes' = crashes
      BY <1>3 DEF Probe
    <2>2. CASE SeenWell
      BY <1>1, <1>2, <2>1, <2>2
      DEF SeenWell, Well, BudgetInv, Counted, WithinBudget, ResetsSaved, AlertsLatched
    <2>3. CASE ProbeUnattached
      <3>1. wd'.resets = 0 /\ wd'.alerted = wd.alerted /\ wdpc' = wdpc
            /\ resetsDone' = 0 /\ alertsDone' = alertsDone
        BY <1>1, <2>3 DEF ProbeUnattached
      <3> QED BY <1>1, <1>2, <2>1, <3>1
          DEF BudgetInv, Counted, WithinBudget, ResetsSaved, AlertsLatched
    <2>4. CASE ProbeUnhealthy
      <3>1. wd'.resets = wd.resets /\ wd'.alerted = wd.alerted /\ resetsDone' = resetsDone
        BY <1>1, <2>4 DEF ProbeUnhealthy
      <3>2. \/ /\ wdpc' = "latching" /\ ~wd.alerted /\ alertsDone' = alertsDone + 1
            \/ wdpc' = "resetting" /\ ~BudgetSpent /\ alertsDone' = alertsDone
            \/ wdpc' = "idle" /\ alertsDone' = alertsDone
        BY <2>4 DEF ProbeUnhealthy
      <3> QED BY <1>1, <1>2, <2>1, <3>1, <3>2
          DEF BudgetSpent, BudgetInv, Counted, WithinBudget, ResetsSaved, AlertsLatched
    <2> QED BY <1>3, <2>2, <2>3, <2>4 DEF Probe
  <1>4. CASE Latch
    <2>1. wd'.resets = wd.resets /\ wd'.alerted = TRUE /\ wdpc = "latching" /\ wdpc' = "idle"
          /\ UNCHANGED <<resetsDone, alertsDone, crashes>>
      BY <1>1, <1>4 DEF Latch, historyVars
    <2> QED BY <1>1, <1>2, <2>1
        DEF BudgetInv, Counted, WithinBudget, ResetsSaved, AlertsLatched
  <1>5. CASE ResetBus
    BY <1>1, <1>2, <1>5
    DEF ResetBus, BudgetInv, Counted, WithinBudget, ResetsSaved, AlertsLatched
  <1>6. CASE SaveReset
    <2>1. wd'.resets = wd.resets + 1 /\ wd'.alerted = wd.alerted
          /\ wdpc = "saving" /\ wdpc' = "announcing"
          /\ UNCHANGED <<resetsDone, alertsDone, crashes>>
      BY <1>1, <1>6 DEF SaveReset, historyVars
    <2> QED BY <1>1, <1>2, <2>1
        DEF BudgetInv, Counted, WithinBudget, ResetsSaved, AlertsLatched
  <1>7. CASE Announce
    <2>1. wdpc = "announcing"
      BY <1>7 DEF Announce, PublishBeacon, Updating, AnnouncesResets, NoUpdate
    <2> QED BY <1>1, <1>2, <1>7, <2>1
        DEF Announce, BudgetInv, Counted, WithinBudget, ResetsSaved, AlertsLatched
  <1>8. CASE WatchdogCrash
    BY <1>1, <1>2, <1>8
    DEF WatchdogCrash, BudgetInv, Counted, WithinBudget, ResetsSaved, AlertsLatched
  <1>9. CASE ~Watch /\ ~WatchdogCrash
    <2>1. wdpc' = wdpc
      BY <1>9, WatchdogsOwn
    <2>2. UNCHANGED <<wd, resetsDone, alertsDone>> /\ crashes' \in {crashes, crashes + 1}
      BY <1>9
      DEF Next, vars, Capture, Escalate, Poll, Trouble, Plug, Start, CountFailure,
          ClimbLadder, RestartCoolsDown, EscalationCoolsDown, Crash, DetectExits,
          ShootExits, LadderExits, EnsureExits, SelfRestart, ProcessEnds,
          ThreadPublishes, Detect, DetectOpens, Reconnect, RequestReset, Truncate, Rewrite,
          Shoot, ShootOpens, ShootTimesOut, Retry, RetryOpens, GraceEnds, watchdogVars,
          historyVars
    <2> QED BY <2>1, <2>2, BudgetKept
  <1> QED BY <1>3, <1>4, <1>5, <1>6, <1>7, <1>8, <1>9 DEF Watch

\* probe_once (watchdog/camera.py): however its processes crash, the watchdog
\* resets the bus at most MaxResets times and reports a lock-up once, and once
\* more for each crash, between two sightings of a camera in order.
THEOREM BudgetHolds == SafetySpec => []WatchdogBounded
PROOF
  <1> DEFINE Inv == TypeOK /\ AnnouncesResets /\ BudgetInv
  <1>1. Init => Inv
    <2>1. MaxResets \in Nat
      BY ConstantsAssumption DEF ConstantsAssumption
    <2>2. Init => AnnouncesResets
      BY DEF Init, AnnouncesResets, Actors
    <2>3. Init => BudgetInv
      BY <2>1 DEF Init, BudgetInv, Counted, WithinBudget, ResetsSaved, AlertsLatched
    <2> QED BY <2>2, <2>3, InitTypes, ConstantsAssumption
  <1>2. Inv /\ [Next]_vars => Inv'
    BY StepTypes, StepAnnounces, StepBudget, ConstantsAssumption
  <1>3. Inv => WatchdogBounded
    <2>1. MaxResets \in Nat /\ (TypeOK => wd.resets \in Nat)
      BY ConstantsAssumption DEF ConstantsAssumption, TypeOK
    <2> QED BY <2>1
        DEF BudgetInv, Counted, WithinBudget, ResetsSaved, AlertsLatched, WatchdogBounded
  <1> QED BY <1>1, <1>2, <1>3, PTL DEF SafetySpec
-----------------------------------------------------------------------------
(* The grace after a reset. *)

\* A reset lately, announced, and no writer beside the announcement.
Announced == resetLately /\ ~disturbed /\ wdpc = "idle"

\* While a reset is announced, the file says so, and so will it after each of
\* the updates under way: they were read from it.
ResetWritten ==
  Announced => beacon.reset /\ \A a \in Actors : Updating(a) => upd[a].new.reset

\* A probe that went on to an alert began outside the grace.
AlertsOutside == wdpc = "latching" /\ resetLately => disturbed

GraceInv == ResetWritten /\ AlertsOutside

\* An update begins with what it reads; it keeps what it does not report.
LEMMA BeginsKeep ==
  ASSUME TypeOK, GraceInv, NEW a \in Actors,
         UNCHANGED <<beacon, wdpc, resetLately, disturbed>>,
         \/ upd' = upd
         \/ upd' = [upd EXCEPT ![a] = NoUpdate]
         \/ \E op \in {"ok", "failure", "clear", "reset"} :
              upd' = [upd EXCEPT ![a] = Update(op)]
         \/ upd' = [upd EXCEPT ![a] = [op |-> "rewrite", new |-> Apply("clear", beacon)]]
  PROVE  GraceInv'
PROOF
  <1>1. Announced' = Announced
    BY DEF Announced
  <1>2. AlertsOutside'
    BY DEF GraceInv, AlertsOutside
  <1>3. ASSUME Announced PROVE beacon'.reset /\ \A b \in Actors : Updating(b)' => upd'[b].new.reset
    <2>1. beacon.reset /\ \A b \in Actors : Updating(b) => upd[b].new.reset
      BY <1>3 DEF GraceInv, ResetWritten
    <2>2. /\ \A op \in {"ok", "failure", "clear", "reset"} : Update(op).new.reset
          /\ Apply("clear", beacon).reset
      BY <2>1, UpdateTypes, ApplyTypes DEF TypeOK
    <2>3. upd \in [Actors -> Updates]
      BY DEF TypeOK
    <2> QED BY <2>1, <2>2, <2>3 DEF Updating, NoUpdate
  <1> QED BY <1>1, <1>2, <1>3 DEF GraceInv, ResetWritten

\* A writer leaves the record it made, unless another was writing too.
LEMMA PublishKeeps ==
  ASSUME TypeOK, NEW a \in Actors, PublishBeacon(a), resetLately' = resetLately
  PROVE  /\ resetLately' /\ ~disturbed' =>
              /\ ~disturbed /\ beacon' = upd[a].new
              /\ \A b \in Actors : ~Updating(b)'
         /\ resetLately' /\ disturbed => disturbed'
PROOF
  <1>1. upd \in [Actors -> Updates]
    BY DEF TypeOK
  <1>2. resetLately' /\ ~disturbed' => ~Overlapped(a) /\ ~disturbed
    BY DEF PublishBeacon
  <1>3. ~Overlapped(a) => beacon' = upd[a].new /\ \A b \in Actors : ~Updating(b)'
    BY <1>1 DEF PublishBeacon, Overlapped, Clashes, Updating, NoUpdate
  <1> QED BY <1>2, <1>3 DEF PublishBeacon

\* Of a process that ends no update is left.
LEMMA EndKeeps == ASSUME TypeOK, GraceInv, ProcessEnds PROVE GraceInv'
PROOF
  <1>1. UNCHANGED <<beacon, wdpc, resetLately, disturbed>>
    BY DEF ProcessEnds, watchdogVars, historyVars
  <1>2. \A a \in Actors : Updating(a)' => upd'[a] = upd[a] /\ Updating(a)
    BY DEF ProcessEnds, Updating, NoUpdate, TypeOK
  <1> QED BY <1>1, <1>2 DEF GraceInv, ResetWritten, AlertsOutside, Announced

LEMMA StepGrace ==
  ASSUME ConstantsAssumption, TypeOK, AnnouncesResets, GraceInv, [Next]_vars
  PROVE  GraceInv'
PROOF
  <1>1. Poller \in Actors /\ Shooter \in Actors /\ Watchdog \in Actors
        /\ Threads \subseteq Actors
    BY DEF Threads, Actors
  <1>3. CASE \/ \E b \in {"wedged", "locked", "absent"} : Trouble(b)
             \/ Plug \/ Start \/ CountFailure \/ ClimbLadder
             \/ RestartCoolsDown \/ EscalationCoolsDown \/ UNCHANGED vars
    BY <1>1, <1>3, BeginsKeep
    DEF Trouble, Plug, Start, CountFailure, ClimbLadder, RestartCoolsDown,
        EscalationCoolsDown, vars, beaconVars, watchdogVars, historyVars
  <1>4. CASE Crash \/ DetectExits \/ ShootExits \/ LadderExits
    BY <1>4, EndKeeps DEF Crash, DetectExits, ShootExits, LadderExits, EnsureExits, SelfRestart
  <1>5. CASE \E t \in Threads : ThreadPublishes(t)
    <2>1. PICK t \in Threads : ThreadPublishes(t)
      BY <1>5
    <2>2. PublishBeacon(t) /\ UNCHANGED <<wdpc, resetLately>> /\ t \in Actors /\ Updating(t)
      BY <1>1, <2>1 DEF ThreadPublishes, PublishBeacon, watchdogVars
    <2>3. Announced' => Announced /\ beacon' = upd[t].new /\ \A b \in Actors : ~Updating(b)'
      BY <2>2, PublishKeeps DEF Announced
    <2>4. AlertsOutside'
      BY <2>2, PublishKeeps DEF GraceInv, AlertsOutside
    <2> QED BY <2>2, <2>3, <2>4 DEF GraceInv, ResetWritten
  <1>6. CASE Detect \/ DetectOpens \/ Reconnect \/ RequestReset
    <2>1. UNCHANGED <<beacon, wdpc, resetLately, disturbed>>
      BY <1>6 DEF Detect, DetectOpens, Reconnect, RequestReset, watchdogVars, historyVars
    <2>2. \/ upd' = upd
          \/ upd' = [upd EXCEPT ![Poller] = NoUpdate]
          \/ \E op \in {"ok", "failure", "clear"} : upd' = [upd EXCEPT ![Poller] = Update(op)]
          \/ upd' = [upd EXCEPT ![Poller] = [op |-> "rewrite", new |-> Apply("clear", beacon)]]
      BY <1>6 DEF Detect, DetectOpens, Holding, SetsOut, Reconnect, UpdateClear, RequestReset
    <2> QED BY <1>1, <2>1, <2>2, BeginsKeep
  <1>7. CASE Shoot \/ ShootOpens \/ ShootTimesOut \/ Retry \/ RetryOpens
    <2>1. UNCHANGED <<beacon, wdpc, resetLately, disturbed>>
      BY <1>7 DEF Shoot, ShootOpens, ShootTimesOut, Retry, RetryOpens, watchdogVars,
                  historyVars
    <2>2. \/ upd' = upd
          \/ \E op \in {"ok", "failure"} : upd' = [upd EXCEPT ![Shooter] = Update(op)]
      BY <1>7 DEF Shoot, ShootOpens, ShootTimesOut, Retry, RetryOpens, Holding, SetsOut,
                  TriesAgain, GivesUp
    <2> QED BY <1>1, <2>1, <2>2, BeginsKeep
  <1>8. CASE GraceEnds
    BY <1>8 DEF GraceEnds, watchdogVars, GraceInv, ResetWritten, AlertsOutside, Announced
  <1>9. CASE Probe
    <2>1. UNCHANGED <<beacon, upd, resetLately, disturbed>> /\ wdpc = "idle" /\ ~beacon.reset
      BY <1>9 DEF Probe, Grace, beaconVars
    <2>2. ~Announced
      BY <2>1 DEF GraceInv, ResetWritten
    <2> QED BY <2>1, <2>2 DEF Announced, GraceInv, ResetWritten, AlertsOutside
  <1>10. CASE Latch
    BY <1>10 DEF Latch, historyVars, Announced, GraceInv, ResetWritten, AlertsOutside
  <1>11. CASE ResetBus
    BY <1>11 DEF ResetBus, Announced, GraceInv, ResetWritten, AlertsOutside
  <1>12. CASE SaveReset
    BY <1>12 DEF SaveReset, Announced, GraceInv, ResetWritten, AlertsOutside
  <1>13. CASE Announce
    <2>1. PublishBeacon(Watchdog) /\ resetLately' = resetLately /\ wdpc' = "idle"
          /\ upd[Watchdog].new.reset
      BY <1>13 DEF Announce, PublishBeacon, Updating, AnnouncesResets, NoUpdate
    <2>2. Announced' => beacon' = upd[Watchdog].new /\ \A b \in Actors : ~Updating(b)'
      BY <1>1, <2>1, PublishKeeps DEF Announced
    <2> QED BY <2>1, <2>2 DEF GraceInv, ResetWritten, AlertsOutside
  <1>14. CASE WatchdogCrash
    BY <1>14 DEF WatchdogCrash, Announced, GraceInv, ResetWritten, AlertsOutside
  <1>15. CASE Truncate
    BY <1>15 DEF Truncate, watchdogVars, Announced, GraceInv, ResetWritten, AlertsOutside
  <1>16. CASE Rewrite
    <2>1. /\ UNCHANGED <<wdpc, resetLately, disturbed>> /\ Updating(Poller)
          /\ beacon' = upd[Poller].new /\ upd' = [upd EXCEPT ![Poller] = NoUpdate]
      BY <1>16 DEF Rewrite, watchdogVars, historyVars, Updating
    <2>2. \A a \in Actors : Updating(a)' => upd'[a] = upd[a] /\ Updating(a)
      BY <1>1, <2>1 DEF Updating, NoUpdate, TypeOK
    <2> QED BY <1>1, <2>1, <2>2 DEF Announced, GraceInv, ResetWritten, AlertsOutside
  <1> QED
    BY <1>3, <1>4, <1>5, <1>6, <1>7, <1>8, <1>9, <1>10, <1>11, <1>12, <1>13, <1>14, <1>15,
       <1>16
    DEF Next, Capture, Escalate, Poll, Watch

\* A thread sets out to open a session only where _ensure finds no grace.
LEMMA SetsOutOutside ==
  ASSUME TypeOK, [Next]_vars, NEW t \in Threads, pc[t] \notin Openings, pc'[t] \in Openings
  PROVE  ~Grace
PROOF
  <1>1. /\ pc \in [Threads -> Places] /\ Shooter \in Threads /\ Poller \in Threads
        /\ "idle" \notin Openings /\ "clearing" \notin Openings /\ "cleared" \notin Openings
        /\ "retry" \notin Openings /\ "failing" \notin Openings
    BY DEF TypeOK, Places, Openings, Threads
  <1>2. pc' # pc
    OBVIOUS
  <1>3. CASE \/ \E b \in {"wedged", "locked", "absent"} : Trouble(b)
             \/ Plug \/ Start \/ WatchdogCrash \/ Watch \/ RequestReset \/ Truncate \/ Rewrite
             \/ DetectOpens \/ RetryOpens \/ ShootTimesOut
             \/ GraceEnds \/ RestartCoolsDown \/ EscalationCoolsDown \/ UNCHANGED vars
    BY <1>2, <1>3 DEF Trouble, Plug, Start, WatchdogCrash, Watch, Probe, Latch, ResetBus,
      SaveReset, Announce, RequestReset, Truncate, Rewrite, DetectOpens, RetryOpens,
      ShootTimesOut, GraceEnds, RestartCoolsDown, EscalationCoolsDown, vars, adapterVars
  <1>4. CASE Crash \/ DetectExits \/ ShootExits \/ LadderExits
    BY <1>1, <1>4 DEF Crash, DetectExits, ShootExits, LadderExits, EnsureExits, SelfRestart,
      ProcessEnds
  <1>5. CASE Reconnect \/ CountFailure \/ ClimbLadder
    BY <1>1, <1>5 DEF Reconnect, CountFailure, ClimbLadder
  <1>6. CASE \E u \in Threads : ThreadPublishes(u)
    BY <1>1, <1>6 DEF ThreadPublishes, AfterUpdate
  <1>7. CASE Detect \/ Shoot \/ Retry \/ ShootOpens
    BY <1>1, <1>2, <1>7
    DEF Detect, Shoot, Retry, ShootOpens, HasHandle, SetsOut, TriesAgain, GivesUp
  <1> QED BY <1>3, <1>4, <1>5, <1>6, <1>7 DEF Next, Capture, Escalate, Poll

\* The post-reset grace (camera/health.py): no thread sets out to open a session
\* while the kernel re-enumerates after a reset whose announcement no update
\* overlapped, whatever is written through the temporary file from then on, and
\* until a rewriting in place empties the announcement.
THEOREM GraceHolds == SafetySpec => GraceKept
PROOF
  <1> DEFINE Inv == TypeOK /\ AnnouncesResets /\ GraceInv
  <1>1. Init => Inv
    <2>1. Init => AnnouncesResets
      BY DEF Init, AnnouncesResets, Actors
    <2>2. Init => GraceInv
      BY DEF Init, GraceInv, ResetWritten, AlertsOutside, Announced
    <2> QED BY <2>1, <2>2, InitTypes, ConstantsAssumption
  <1>2. Inv /\ [Next]_vars => Inv'
    BY StepTypes, StepAnnounces, StepGrace, ConstantsAssumption
  <1>3. Inv /\ [Next]_vars =>
          [\A t \in Threads : pc[t] \notin Openings /\ pc'[t] \in Openings =>
             ~(resetLately /\ wdpc = "idle" /\ ~disturbed)]_vars
    BY SetsOutOutside DEF GraceInv, ResetWritten, Announced, Grace
  <1> QED BY <1>1, <1>2, <1>3, PTL DEF SafetySpec, GraceKept
===============================================================================
