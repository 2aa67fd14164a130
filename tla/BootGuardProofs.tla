---------------------------- MODULE BootGuardProofs ----------------------------
(***************************************************************************)
(* Theorems about BootGuard, for any threads and bounds.                   *)
(***************************************************************************)
EXTENDS BootGuard, TLAPS

LEMMA Bounds ==
  ASSUME Assumption PROVE RetainDays \in Nat /\ MaxRows \in Nat /\ MaxDays \in Nat
  BY DEF Assumption

(***************************************************************************)
(* Types.                                                                  *)
(***************************************************************************)
LEMMA TypesAre ==
  ASSUME TypeOK
  PROVE  /\ written \in Nat /\ day \in Nat /\ damages \in Nat /\ crashes \in Nat
         /\ cutOffs \in Nat /\ covered \in Nat
         /\ \A s \in snaps : /\ s.day \in Nat /\ s.rows \in SUBSET (1 .. MaxRows)
                             /\ s.health \in {"sound", "torn"} /\ s.late \in BOOLEAN
  BY DEF TypeOK

\* Booting, restoring and opening.
LEMMA GuardType == ASSUME Assumption, TypeOK, Guard PROVE TypeOK'
<1> USE DEF TypeOK, boundVars, NoFile, Healths
<1>1. CASE BootFresh
  BY <1>1 DEF BootFresh
<1>2. CASE BootCheck
  <2>1. PICK c \in {"live", "none"} : conn' = [conn EXCEPT ![Loop] = c]
    BY <1>2 DEF BootCheck
  <2> QED
    BY <1>2, <2>1 DEF BootCheck
<1>3. CASE ChooseSnapshot
  <2>1. PICK s \in Sound : restoring' = [rows |-> s.rows, health |-> s.health]
    BY <1>3 DEF ChooseSnapshot, Chosen
  <2>2. restoring' \in [rows : SUBSET (1 .. MaxRows), health : {"sound", "missing"}]
    BY <2>1 DEF Sound
  <2>3. backup' \in [pc : {"idle", "copied"}, rows : SUBSET (1 .. MaxRows),
                     health : {"sound", "torn", "missing"}, late : BOOLEAN]
    BY <1>3 DEF ChooseSnapshot
  <2> QED
    BY <1>3, <2>2, <2>3 DEF ChooseSnapshot
<1>4. CASE NothingToRestore
  BY <1>4 DEF NothingToRestore
<1>5. CASE MoveAside
  BY <1>5 DEF MoveAside
<1>6. CASE Install
  BY <1>6 DEF Install
<1>7. CASE InstallFails
  BY <1>7 DEF InstallFails
<1>8. CASE Open
  BY <1>8 DEF Open, Opened
<1>9. CASE OpenRaises
  BY <1>9 DEF OpenRaises
<1> QED
  BY <1>1, <1>2, <1>3, <1>4, <1>5, <1>6, <1>7, <1>8, <1>9 DEF Guard

\* The running station, the backup, time and damage.
LEMMA RestType == ASSUME Assumption, TypeOK, [Next]_vars, ~Guard PROVE TypeOK'
<1> USE DEF TypeOK, boundVars, appVars, NoFile, NoBackup, Healths
<1>1. ASSUME NEW t \in Threads, Write(t) PROVE TypeOK'
  <2>1. written' \in Nat /\ written' \in 1 .. MaxRows
    BY <1>1, Bounds DEF Write
  <2>2. live' \in [rows : SUBSET (1 .. MaxRows), health : Healths \cup {"missing"}]
    BY <1>1, <2>1 DEF Write
  <2>3. live'.health = "missing" => live' = NoFile
    <3>1. CASE conn'[t] = "live"
      <4>1. conn[t] # "aside"
        BY <1>1, <3>1 DEF Write
      <4>2. live.health # "missing"
        BY <1>1, <4>1 DEF Write
      <4> QED
        BY <1>1, <3>1, <4>2 DEF Write
    <3>2. CASE conn'[t] # "live"
      BY <1>1, <3>2 DEF Write
    <3> QED
      BY <3>1, <3>2
  <2> QED
    BY <1>1, <2>1, <2>2, <2>3 DEF Write
<1>2. CASE CopyDatabase
  BY <1>2 DEF CopyDatabase
<1>3. CASE PublishSnapshot
  <2>1. Snapshot(day, backup) \in [day : Nat, rows : SUBSET (1 .. MaxRows),
                                   health : {"sound", "torn"}, late : BOOLEAN]
    BY <1>3 DEF PublishSnapshot, Snapshot
  <2>2. snaps' \subseteq snaps \cup {Snapshot(day, backup)}
    BY <1>3 DEF PublishSnapshot
  <2> HIDE DEF NoBackup
  <2>3. snaps' \subseteq [day : Nat, rows : SUBSET (1 .. MaxRows),
                         health : {"sound", "torn"}, late : BOOLEAN]
    BY <2>1, <2>2
  <2> QED
    BY <1>3, <2>3 DEF PublishSnapshot, NoBackup
<1>4. CASE InterruptBackup
  BY <1>4 DEF InterruptBackup
<1>5. CASE NextDay
  BY <1>5 DEF NextDay
<1>6. ASSUME NEW h \in Healths, Damage(h) PROVE TypeOK'
  <2>1. (\E s \in Sound : Chosen(s)) => (CHOOSE s \in Sound : Chosen(s)) \in Sound
    OBVIOUS
  <2>2. covered' \in Nat
    BY <1>6, <2>1 DEF Damage, Sound
  <2> QED
    BY <1>6, <2>2 DEF Damage
<1>7. CASE Crash
  BY <1>7 DEF Crash
<1>8. CASE UNCHANGED vars
  BY <1>8 DEF vars
<1> QED
  BY <1>1, <1>2, <1>3, <1>4, <1>5, <1>6, <1>7, <1>8 DEF Next

LEMMA StepType == ASSUME Assumption PROVE TypeOK /\ [Next]_vars => TypeOK'
  BY GuardType, RestType

(***************************************************************************)
(* The inductive invariant.                                                *)
(***************************************************************************)
LEMMA InitGuard == ASSUME Assumption PROVE Init => GuardInv
  BY Bounds
  DEF Assumption, Init, GuardInv, TypeOK, SnapshotsGrow, CopyInv, RestoreInv, Settled, Sound, NoFile,
      NoBackup, Healths

\* The steps that leave the snapshots and the copy alone.
LEMMA GuardStep ==
  ASSUME Assumption, GuardInv, Guard, cutOffs' = 0
  PROVE  SnapshotsGrow' /\ CopyInv' /\ RestoreInv'
<1>0. TypeOK /\ SnapshotsGrow /\ CopyInv /\ RestoreInv
  <2>1. cutOffs = 0
    BY DEF GuardInv, TypeOK, Guard, BootFresh, BootCheck, ChooseSnapshot, NothingToRestore,
       MoveAside, Install, InstallFails, Open, OpenRaises
  <2> QED
    BY <2>1 DEF GuardInv
<1>1. snaps' = snaps /\ day' = day /\ Sound' = Sound /\ Settled' = Settled
  BY DEF Guard, BootFresh, BootCheck, ChooseSnapshot, NothingToRestore, MoveAside, Install,
     InstallFails, Open, OpenRaises, boundVars, Sound, Settled
<1>2. SnapshotsGrow'
  BY <1>0, <1>1 DEF SnapshotsGrow
<1>3. CASE BootFresh
  BY <1>0, <1>1, <1>2, <1>3 DEF BootFresh, CopyInv, RestoreInv
<1>4. CASE BootCheck
  <2>1. live.health # "missing"
    BY <1>0, <1>4 DEF BootCheck, TypeOK, RestoreInv
  <2> QED
    BY <1>0, <1>1, <1>2, <1>4, <2>1 DEF BootCheck, CheckOk, CopyInv, RestoreInv, TypeOK, Healths
<1>5. CASE ChooseSnapshot
  <2>1. PICK s \in snaps : Chosen(s) /\ restoring' = [rows |-> s.rows, health |-> s.health]
    BY <1>5 DEF ChooseSnapshot
  <2>2. restoring'.health = "sound" /\ \A o \in Settled : o.rows \subseteq restoring'.rows
    BY <1>0, <2>1 DEF Chosen, Sound, Settled, SnapshotsGrow
  <2>3. /\ backup'.pc = backup.pc /\ backup'.rows = backup.rows
        /\ backup'.health = backup.health
        /\ backup.pc = "copied" => backup'.late
    BY <1>0, <1>5 DEF ChooseSnapshot, TypeOK
  <2>4. live' = live /\ phase = "corrupt" /\ phase' = "chosen"
    BY <1>5 DEF ChooseSnapshot
  <2> QED
    BY <1>0, <1>1, <1>2, <2>2, <2>3, <2>4 DEF CopyInv, RestoreInv
<1>6. CASE NothingToRestore
  BY <1>0, <1>1, <1>2, <1>6 DEF NothingToRestore, CopyInv, RestoreInv
<1>7. CASE MoveAside
  BY <1>0, <1>1, <1>2, <1>7 DEF MoveAside, CopyInv, RestoreInv, NoFile
<1>8. CASE Install
  BY <1>0, <1>1, <1>2, <1>8 DEF Install, CopyInv, RestoreInv, NoFile
<1>9. CASE InstallFails
  BY <1>0, <1>9 DEF InstallFails, TypeOK
<1>10. CASE Open
  BY <1>0, <1>1, <1>2, <1>10 DEF Open, CopyInv, RestoreInv, NoFile, Settled, Sound
<1>11. CASE OpenRaises
  BY <1>0, <1>1, <1>2, <1>11 DEF OpenRaises, CopyInv, RestoreInv
<1> QED
  BY <1>3, <1>4, <1>5, <1>6, <1>7, <1>8, <1>9, <1>10, <1>11 DEF Guard

LEMMA PublishStep ==
  ASSUME Assumption, TypeOK, SnapshotsGrow, CopyInv, RestoreInv, PublishSnapshot
  PROVE  SnapshotsGrow' /\ CopyInv' /\ RestoreInv'
<1> DEFINE new == Snapshot(day, backup)
<1>1. /\ backup.pc = "copied" /\ backup' = NoBackup /\ snaps' \subseteq snaps \cup {new}
      /\ UNCHANGED <<live, phase, restoring, day>>
  BY DEF PublishSnapshot, appVars, boundVars
<1>2. /\ new.day = day /\ new.rows = backup.rows /\ new.health = backup.health
      /\ new.late = backup.late
  BY DEF Snapshot
<1> HIDE DEF new
<1>3. Sound' \subseteq Sound \cup {new} /\ Settled' \subseteq Settled \cup {new}
  BY <1>1 DEF Sound, Settled
<1>4. new \in Sound' => backup.health = "sound"
  BY <1>2 DEF Sound
<1>5. new \in Settled' => ~backup.late /\ backup.health = "sound"
  BY <1>2 DEF Sound, Settled
<1>6. SnapshotsGrow'
  <2> SUFFICES ASSUME NEW s \in Settled', NEW o \in Sound', s.day <= o.day
               PROVE  s.rows \subseteq o.rows
    BY DEF SnapshotsGrow
  <2>1. CASE s = new
    <3>1. o \notin snaps
      BY <1>1, <1>2, <2>1, TypesAre DEF CopyInv
    <3> QED
      BY <1>3, <2>1, <3>1 DEF Sound
  <2>2. CASE s \in Settled /\ o = new
    BY <1>1, <1>2, <1>4, <2>2 DEF CopyInv
  <2>3. CASE s \in Settled /\ o \in Sound
    BY <2>3 DEF SnapshotsGrow
  <2> QED
    BY <1>3, <2>1, <2>2, <2>3
<1>7. CopyInv'
  BY <1>1 DEF CopyInv, NoBackup
<1>8. RestoreInv'
  <2>1. live = NoFile /\ phase # "moved" => FALSE
    BY <1>1 DEF RestoreInv
  <2>2. phase \in {"chosen", "moved"} => Settled' \subseteq Settled
    BY <1>1, <1>3, <1>5 DEF RestoreInv
  <2>3. live.health = "sound" => \A s \in Settled' : s.rows \subseteq live.rows
    BY <1>1, <1>2, <1>3, <1>5 DEF RestoreInv, CopyInv
  <2> QED
    BY <1>1, <2>1, <2>2, <2>3 DEF RestoreInv, NoBackup
<1> QED
  BY <1>6, <1>7, <1>8

LEMMA RestStep ==
  ASSUME Assumption, GuardInv, [Next]_vars, ~Guard, cutOffs' = 0
  PROVE  SnapshotsGrow' /\ CopyInv' /\ RestoreInv'
<1>0. TypeOK /\ SnapshotsGrow /\ CopyInv /\ RestoreInv /\ \A s \in snaps : s.day <= day
  <2>1. cutOffs = 0
    BY DEF GuardInv, TypeOK, Next, Write, CopyDatabase, PublishSnapshot, InterruptBackup,
       NextDay, Damage, Crash, vars
  <2> QED
    BY <2>1 DEF GuardInv
<1> USE <1>0 DEF appVars, boundVars, Sound, Settled, SnapshotsGrow
<1>1. ASSUME NEW t \in Threads, Write(t) PROVE SnapshotsGrow' /\ CopyInv' /\ RestoreInv'
  <2>1. /\ live'.health = live.health /\ live.rows \subseteq live'.rows
        /\ live' = NoFile => live = NoFile
    BY <1>1, TypesAre DEF Write, TypeOK, NoFile
  <2> QED
    BY <1>1, <2>1 DEF Write, CopyInv, RestoreInv
<1>2. CASE CopyDatabase
  BY <1>2, TypesAre DEF CopyDatabase, CopyInv, RestoreInv, NoFile
<1>3. CASE PublishSnapshot
  BY <1>3, PublishStep
<1>4. CASE InterruptBackup
  BY <1>4 DEF InterruptBackup, CopyInv, RestoreInv, NoBackup
<1>5. CASE NextDay
  BY <1>5 DEF NextDay, CopyInv, RestoreInv
<1>6. ASSUME NEW h \in Healths, Damage(h) PROVE SnapshotsGrow' /\ CopyInv' /\ RestoreInv'
  <2>1. live'.health = h /\ h \in {"torn", "unreadable"} /\ live' # NoFile
    BY <1>6 DEF Damage, TypeOK, NoFile
  <2> QED
    BY <1>6, <2>1 DEF Damage, CopyInv, RestoreInv, NoFile
<1>7. CASE Crash
  BY <1>7, TypesAre DEF Crash, CopyInv, RestoreInv, TypeOK
<1>8. CASE UNCHANGED vars
  BY <1>8 DEF vars, CopyInv, RestoreInv
<1> QED
  BY <1>1, <1>2, <1>3, <1>4, <1>5, <1>6, <1>7, <1>8 DEF Next

LEMMA StepGuard == ASSUME Assumption PROVE GuardInv /\ [Next]_vars => GuardInv'
<1> SUFFICES ASSUME GuardInv, [Next]_vars PROVE GuardInv'
  OBVIOUS
<1>1. TypeOK'
  BY StepType DEF GuardInv
<1>2. \A s \in snaps' : s.day <= day'
  <2>1. TypeOK /\ \A s \in snaps : s.day <= day
    BY DEF GuardInv
  <2>2. CASE PublishSnapshot
    BY <2>1, <2>2, TypesAre DEF PublishSnapshot, Snapshot, boundVars
  <2>3. CASE NextDay
    BY <2>1, <2>3, TypesAre DEF NextDay
  <2>4. CASE ~PublishSnapshot /\ ~NextDay
    <3>1. snaps' = snaps /\ day' = day
      BY <2>4 DEF Next, Guard, BootFresh, BootCheck, ChooseSnapshot, NothingToRestore,
         MoveAside, Install, InstallFails, Open, OpenRaises, Write, CopyDatabase,
         InterruptBackup, Damage, Crash, vars, boundVars
    <3> QED
      BY <2>1, <3>1
  <2> QED
    BY <2>2, <2>3, <2>4
<1>3. cutOffs' = 0 => SnapshotsGrow' /\ CopyInv' /\ RestoreInv'
  BY GuardStep, RestStep
<1> QED
  BY <1>1, <1>2, <1>3 DEF GuardInv

(***************************************************************************)
(* The theorems.                                                           *)
(***************************************************************************)
\* The inductive invariant of the restore, types included.
THEOREM GuardCorrect == ASSUME Assumption PROVE SafetySpec => []GuardInv
  BY InitGuard, StepGuard, PTL DEF SafetySpec

\* Unless a restore was cut off between its renames, the running station has the
\* rows of every sound snapshot (backup.restore_latest).
THEOREM NoSnapshotIsLost == ASSUME Assumption PROVE SafetySpec => []SnapshotsSurvive
<1>1. GuardInv => SnapshotsSurvive
  BY DEF GuardInv, RestoreInv, SnapshotsSurvive, Settled
<1> QED
  BY <1>1, GuardCorrect, PTL

\* AWeekToNotice without the condition on the file, which is what is inductive.
Covered ==
  0 < covered /\ day < covered + RetainDays => \E s \in Sound : s.day >= covered

LEMMA StepCovered ==
  ASSUME Assumption PROVE TypeOK /\ Covered /\ [Next]_vars => Covered'
<1> SUFFICES ASSUME TypeOK, Covered, [Next]_vars, 0 < covered',
                    day' < covered' + RetainDays
             PROVE  \E s \in Sound' : s.day >= covered'
  BY DEF Covered
<1>1. CASE PublishSnapshot
  <2>1. covered' = covered /\ day' = day
    BY <1>1 DEF PublishSnapshot, boundVars
  <2>2. PICK s \in Sound : s.day >= covered
    BY <2>1 DEF Covered
  <2>3. s \in snaps /\ s.health = "sound" /\ day - s.day < RetainDays
    BY <2>1, <2>2, Bounds, TypesAre DEF Sound
  <2>4. ~Expired(s) /\ day - s.day # RetainDays
    BY <2>3, Bounds, TypesAre DEF Expired
  <2>5. s \in snaps'
    BY <1>1, <2>3, <2>4 DEF PublishSnapshot
  <2> QED
    BY <2>1, <2>2, <2>3, <2>5 DEF Sound
<1>2. ASSUME NEW h \in Healths, Damage(h) PROVE \E s \in Sound' : s.day >= covered'
  <2>1. Sound' = Sound
    BY <1>2 DEF Damage, Sound
  <2>2. \E s \in Sound : Chosen(s)
    BY <1>2 DEF Damage
  <2> DEFINE newest == CHOOSE s \in Sound : Chosen(s)
  <2>3. newest \in Sound
    BY <2>2
  <2>4. covered' = newest.day
    BY <1>2, <2>2 DEF Damage
  <2> HIDE DEF newest
  <2>5. newest.day \in Nat
    BY <2>3, TypesAre DEF Sound
  <2> QED
    BY <2>1, <2>3, <2>4, <2>5
<1>3. CASE ~PublishSnapshot /\ \A h \in Healths : ~Damage(h)
  <2>1. snaps' = snaps /\ covered' = covered /\ day <= day'
    BY <1>3, TypesAre DEF Next, Guard, BootFresh, BootCheck, ChooseSnapshot,
       NothingToRestore, MoveAside, Install, InstallFails, Open, OpenRaises, Write,
       CopyDatabase, InterruptBackup, NextDay, Crash, vars, boundVars
  <2>2. day < covered + RetainDays
    <3>1. day' \in Nat
      BY StepType, TypesAre DEF TypeOK
    <3> QED
      BY <2>1, <3>1, Bounds, TypesAre
  <2> QED
    BY <2>1, <2>2 DEF Covered, Sound
<1> QED
  BY <1>1, <1>2, <1>3

\* A sound snapshot from before the damage outlives RetainDays of damaged ones
\* (backup._rotate_old_snapshots).
THEOREM SnapshotsOutliveDamage == ASSUME Assumption PROVE SafetySpec => []AWeekToNotice
<1>1. Init => TypeOK /\ Covered
  BY InitGuard DEF Init, GuardInv, Covered
<1>2. TypeOK /\ Covered /\ [Next]_vars => TypeOK' /\ Covered'
  BY StepType, StepCovered
<1>3. Covered => AWeekToNotice
  BY DEF Covered, AWeekToNotice
<1> QED
  BY <1>1, <1>2, <1>3, PTL DEF SafetySpec
===============================================================================
