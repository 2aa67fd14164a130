------------------------------- MODULE BootGuard -------------------------------
(***************************************************************************)
(* The database file across power cuts (backup.py, main.lifespan): nightly *)
(* snapshots, and the guard that restores the newest sound one before the  *)
(* station opens a damaged database.                                       *)
(*                                                                         *)
(* A thread of the station keeps its connection for as long as the process *)
(* lives (Database.connect), and a connection follows the file it opened,  *)
(* not the path: after a rename it goes on reading and writing the renamed *)
(* file.                                                                   *)
(***************************************************************************)
EXTENDS Naturals, FiniteSets

CONSTANTS
  Threads, Loop,   \* threads of the station; lifespan runs on the event loop
  RetainDays       \* RETAIN_DAYS

\* Bounds of the model: rows written, days, damages of the file, crashes, and
\* restores that end between their two renames.
CONSTANTS MaxRows, MaxDays, MaxDamages, MaxCrashes, MaxCutOffs

Assumption ==
  /\ Loop \in Threads
  /\ {RetainDays, MaxRows, MaxDays, MaxDamages, MaxCrashes, MaxCutOffs} \subseteq Nat

VARIABLES
  live,      \* the file at state.db: its rows and its health
  conn,      \* each thread's connection: to that file, to one moved aside, none
  phase,     \* the station process, and within lifespan where the guard is
  restoring, \* state.db.restoring
  snaps,     \* the archives in backups/
  backup,    \* the backup process and the copy it has made
  written, day, damages, crashes, cutOffs,
  covered    \* history: day of the newest sound snapshot when damage struck

appVars == <<conn, phase, restoring>>
boundVars == <<day, damages, crashes>>
vars == <<live, appVars, snaps, backup, written, boundVars, cutOffs, covered>>

\* A torn file opens, though statements may fail; an unreadable one does not.
Healths == {"sound", "torn", "unreadable"}
NoFile == [rows |-> {}, health |-> "missing"]
NoBackup == [pc |-> "idle", rows |-> {}, health |-> "missing", late |-> FALSE]

\* Snapshots are named by the second; a night has at most one.  `late' is
\* history: published after a restore chose among the older ones.
Snapshot(d, b) == [day |-> d, rows |-> b.rows, health |-> b.health, late |-> b.late]

Sound == {s \in snaps : s.health = "sound"}

Init ==
  /\ live = NoFile
  /\ conn = [t \in Threads |-> "none"]
  /\ phase = "down" /\ restoring = NoFile
  /\ snaps = {} /\ backup = NoBackup
  /\ written = 0 /\ day = 1 /\ damages = 0 /\ crashes = 0 /\ cutOffs = 0
  /\ covered = 0

-----------------------------------------------------------------------------
(* The guard, ensure_db_integrity_on_boot. *)

\* No file: a fresh station, as far as the guard can tell.
BootFresh ==
  /\ phase = "down" /\ live = NoFile
  /\ phase' = "opening"
  /\ UNCHANGED <<live, conn, restoring, snaps, backup, written, boundVars, cutOffs,
                 covered>>

\* Mutant: a file that cannot be opened passes.
CheckOk_OpenErrorPasses == live.health # "torn"

\* integrity_check: one that cannot be opened fails.
CheckOk == live.health = "sound"

\* The check, and the audit row about it either way: get_db()
\* opens and initialises the file.  When that raises, no connection is kept.
BootCheck ==
  /\ phase = "down" /\ live # NoFile
  /\ phase' = IF CheckOk THEN "opening" ELSE "corrupt"
  /\ conn' \in {[conn EXCEPT ![Loop] = c] :
                  c \in CASE live.health = "sound" -> {"live"}
                          [] live.health = "torn" -> {"live", "none"}
                          [] OTHER -> {"none"}}
  /\ UNCHANGED <<live, restoring, snaps, backup, written, boundVars, cutOffs, covered>>

\* Mutant: the oldest snapshot is tried first.
Chosen_Oldest(s) == s \in Sound /\ \A o \in Sound : s.day <= o.day

\* Newest first; one that does not decompress and check is passed over.
Chosen(s) == s \in Sound /\ \A o \in Sound : o.day <= s.day

ChooseSnapshot ==
  /\ phase = "corrupt"
  /\ \E s \in snaps :
       /\ Chosen(s)
       /\ restoring' = [rows |-> s.rows, health |-> s.health]
  /\ phase' = "chosen"
  /\ backup' = [backup EXCEPT !.late = backup.pc = "copied"]
  /\ UNCHANGED <<live, conn, snaps, written, boundVars, cutOffs, covered>>

\* no_backup, no_valid_backup: the station goes on with the file it has.
NothingToRestore ==
  /\ phase = "corrupt" /\ Sound = {}
  /\ phase' = "opening"
  /\ UNCHANGED <<live, conn, restoring, snaps, backup, written, boundVars, cutOffs,
                 covered>>

\* The damaged file is renamed; whoever has it open keeps it.
MoveAside ==
  /\ phase = "chosen" /\ phase' = "moved"
  /\ live' = NoFile
  /\ conn' = [t \in Threads |-> IF conn[t] = "live" THEN "aside" ELSE conn[t]]
  /\ UNCHANGED <<restoring, snaps, backup, written, boundVars, cutOffs, covered>>

Install ==
  /\ phase = "moved" /\ phase' = "opening"
  /\ live' = restoring /\ restoring' = NoFile
  /\ UNCHANGED <<conn, snaps, backup, written, boundVars, cutOffs, covered>>

\* restore_error: the second rename fails.
InstallFails ==
  /\ phase = "moved" /\ phase' = "opening"
  /\ cutOffs < MaxCutOffs /\ cutOffs' = cutOffs + 1
  /\ restoring' = NoFile
  /\ UNCHANGED <<live, conn, snaps, backup, written, boundVars, covered>>

\* What the event loop's connection is to when the database is initialised.
Opened == IF conn[Loop] = "none" THEN "live" ELSE conn[Loop]

\* get_db().initialise() creates the file if there is none, unless the event
\* loop has the one moved aside open.
Open ==
  /\ phase = "opening" /\ phase' = "up"
  /\ conn[Loop] = "none" => live.health # "unreadable"
  /\ live' = IF Opened = "live" /\ live = NoFile
             THEN [rows |-> {}, health |-> "sound"] ELSE live
  /\ conn' = [conn EXCEPT ![Loop] = Opened]
  /\ UNCHANGED <<restoring, snaps, backup, written, boundVars, cutOffs, covered>>

\* It raises: lifespan fails, the process ends, systemd starts it again.
OpenRaises ==
  /\ phase = "opening" /\ phase' = "down"
  /\ Opened = "aside" \/ live.health \in {"torn", "unreadable"}
  /\ conn' = [t \in Threads |-> "none"]
  /\ UNCHANGED <<live, restoring, snaps, backup, written, boundVars, cutOffs, covered>>

-----------------------------------------------------------------------------
(* The running station, the nightly backup, and what befalls them. *)

\* A thread commits a row on its connection, opening one if it has none.  A
\* file created by opening it has no tables, and the statement raises.
Write(t) ==
  /\ phase = "up" /\ written < MaxRows
  /\ conn[t] = "aside" \/ live # NoFile
  /\ conn[t] = "none" => live.health # "unreadable"
  /\ written' = written + 1
  /\ conn' = [conn EXCEPT ![t] = IF @ = "none" THEN "live" ELSE @]
  /\ live' = IF conn'[t] = "live"
             THEN [live EXCEPT !.rows = @ \cup {written'}] ELSE live
  /\ UNCHANGED <<phase, restoring, snaps, backup, boundVars, cutOffs, covered>>

\* The page-by-page copy does not look at what it copies.
CopyDatabase ==
  /\ backup.pc = "idle" /\ \A s \in snaps : s.day < day
  /\ live.health \in {"sound", "torn"}
  /\ backup' = [pc |-> "copied", rows |-> live.rows, health |-> live.health,
                late |-> FALSE]
  /\ UNCHANGED <<live, appVars, snaps, written, boundVars, cutOffs, covered>>

\* Mutant: every snapshot replaces the older ones.
Expired_Replaced(s) == s.day < day

\* mtime < now - RETAIN_DAYS.
Expired(s) == day - s.day > RetainDays

\* The finished archive is renamed into place, then old ones are removed; the
\* timer's delay varies, so one of exactly RetainDays may go too.
PublishSnapshot ==
  /\ backup.pc = "copied" /\ backup' = NoBackup
  /\ LET kept == {s \in snaps : ~Expired(s)} \cup {Snapshot(day, backup)}
         onTheDay == {s \in kept : day - s.day = RetainDays /\ s.day < day}
     IN  snaps' \in {kept, kept \ onTheDay}
  /\ UNCHANGED <<live, appVars, written, boundVars, cutOffs, covered>>

\* Interrupted: only temporary files are left, which no restore looks at.
InterruptBackup ==
  /\ backup.pc = "copied" /\ backup' = NoBackup
  /\ UNCHANGED <<live, appVars, snaps, written, boundVars, cutOffs, covered>>

NextDay ==
  /\ day < MaxDays /\ day' = day + 1 /\ backup.pc = "idle"
  /\ UNCHANGED <<live, appVars, snaps, backup, written, damages, crashes, cutOffs,
                 covered>>

\* The card wears out or a write is torn.
Damage(h) ==
  /\ live.health = "sound" /\ h \in {"torn", "unreadable"}
  /\ damages < MaxDamages /\ damages' = damages + 1
  /\ live' = [live EXCEPT !.health = h]
  /\ covered' = IF \E s \in Sound : Chosen(s) THEN (CHOOSE s \in Sound : Chosen(s)).day
                ELSE 0
  /\ UNCHANGED <<appVars, snaps, backup, written, day, crashes, cutOffs>>

\* Power cut, kill, os._exit.
Crash ==
  /\ phase # "down" /\ phase' = "down"
  /\ crashes < MaxCrashes /\ crashes' = crashes + 1
  /\ phase = "moved" => cutOffs < MaxCutOffs
  /\ cutOffs' = IF phase = "moved" THEN cutOffs + 1 ELSE cutOffs
  /\ conn' = [t \in Threads |-> "none"]
  /\ restoring' = NoFile
  /\ UNCHANGED <<live, snaps, backup, written, day, damages, covered>>

Guard ==
  \/ BootFresh \/ BootCheck \/ ChooseSnapshot \/ NothingToRestore \/ MoveAside
  \/ Install \/ InstallFails \/ Open \/ OpenRaises

Next ==
  \/ Guard \/ \E t \in Threads : Write(t)
  \/ CopyDatabase \/ PublishSnapshot \/ InterruptBackup
  \/ NextDay \/ (\E h \in Healths : Damage(h)) \/ Crash

SafetySpec == Init /\ [][Next]_vars

\* systemd restarts the process (Restart=always), and lifespan goes on.
Spec == SafetySpec /\ WF_vars(Guard)

-----------------------------------------------------------------------------
(* Properties *)

TypeOK ==
  /\ live \in [rows : SUBSET (1 .. MaxRows), health : Healths \cup {"missing"}]
  /\ live.health = "missing" => live = NoFile
  /\ restoring \in [rows : SUBSET (1 .. MaxRows), health : {"sound", "missing"}]
  /\ restoring.health = "missing" => restoring = NoFile
  /\ conn \in [Threads -> {"none", "live", "aside"}]
  /\ phase \in {"down", "corrupt", "chosen", "moved", "opening", "up"}
  /\ snaps \subseteq [day : Nat, rows : SUBSET (1 .. MaxRows),
                      health : {"sound", "torn"}, late : BOOLEAN]
  /\ backup \in [pc : {"idle", "copied"}, rows : SUBSET (1 .. MaxRows),
                 health : {"sound", "torn", "missing"}, late : BOOLEAN]
  /\ backup.pc = "copied" => backup.health # "missing"
  /\ {written, day, damages, crashes, cutOffs, covered} \subseteq Nat

\* A running station with a sound database has every row of every sound
\* snapshot that was there to restore from, through damage, crashes in the
\* guard, damaged newer snapshots and the rotation, as long as no restore was
\* cut off between its renames.
SnapshotsSurvive ==
  cutOffs = 0 /\ phase = "up" /\ live.health = "sound" =>
    \A s \in Sound : s.late \/ s.rows \subseteq live.rows

\* What the proof of it rests on.  A sound snapshot has the rows of the ones
\* before it;
Settled == {s \in Sound : ~s.late}

SnapshotsGrow ==
  \A s \in Settled, o \in Sound : s.day <= o.day => s.rows \subseteq o.rows

\* a copy in progress is the first of its day, has the rows of all of them, and
\* the database it was made from has not been replaced;
CopyInv ==
  backup.pc = "copied" =>
    /\ \A s \in snaps : s.day < day
    /\ backup.health = "sound" =>
         /\ \A s \in Settled : s.rows \subseteq backup.rows
         /\ ~backup.late /\ live.health = "sound" => backup.rows \subseteq live.rows

\* so have the file about to be installed, for which nothing is missed, and the
\* database; only a new station has none.
RestoreInv ==
  /\ phase \in {"chosen", "moved"} =>
       /\ restoring.health = "sound"
       /\ \A s \in Settled : s.rows \subseteq restoring.rows
       /\ backup.pc = "copied" => backup.late \/ backup.health # "sound"
  /\ phase \in {"corrupt", "chosen"} => live.health \in {"torn", "unreadable"}
  /\ phase = "moved" => live = NoFile
  /\ live = NoFile /\ phase # "moved" => snaps = {} /\ backup.pc = "idle"
  /\ live.health = "sound" => \A s \in Settled : s.rows \subseteq live.rows

GuardInv ==
  /\ TypeOK /\ \A s \in snaps : s.day <= day
  /\ cutOffs = 0 => SnapshotsGrow /\ CopyInv /\ RestoreInv

\* When silent damage strikes a database that is backed up every night, the
\* snapshot from before stays for RetainDays, however many damaged copies are
\* made meanwhile.
AWeekToNotice ==
  live.health = "torn" /\ 0 < covered /\ day < covered + RetainDays =>
    \E s \in Sound : s.day >= covered

\* While there is a sound snapshot to restore, no damage keeps the station
\* down.
ComesUp == <>[](Sound # {}) => []<>(phase = "up")
===============================================================================
