------------------------------- MODULE Gallery -------------------------------
(***************************************************************************)
(* Photos on the card: captures that add them, requests of the gallery     *)
(* that star and delete them, the clean-up after an upload, and the        *)
(* retention sweep, a process of its own.  A photo is a row of the photos  *)
(* table and a file, and the two are written one after the other.          *)
(*                                                                         *)
(* Shots are numbered in the order they are taken.  A row has the number   *)
(* of the shot that inserted it as its id; its file is found by name.  The *)
(* camera names its files anew in every session, so that a shot may have   *)
(* the name of an earlier one.  Disk use is counted in files.              *)
(***************************************************************************)
EXTENDS Naturals, Sequences, FiniteSets

CONSTANTS
  MaxShots,    \* bound: photos taken
  ByHand,      \* bound: the shots that are the operator's; the others are scheduled
  MaxCrashes,  \* bound: crashes of the service or the sweep
  Favourites,  \* bound: the photos that are starred
  Dedup,       \* does the station drop near-duplicates?
  SkipDiskFull,\* do the schedules skip captures when the disk is high?
  Requests,    \* threads that remove files: the gallery's and a queue worker's
  CheckEvery,  \* deletions between two looks at the disk
  Target, Trigger, High, Emergency, Critical  \* disk thresholds

ASSUME ConstantsAssumption ==
  /\ {MaxShots, MaxCrashes} \subseteq Nat
  /\ {CheckEvery, Target, Trigger, High, Emergency, Critical} \subseteq Nat \ {0}
  /\ Target < Trigger /\ Trigger <= High /\ High <= Emergency /\ Emergency <= Critical
  /\ {Dedup, SkipDiskFull} \subseteq BOOLEAN /\ {ByHand, Favourites} \subseteq SUBSET Nat
  /\ IsFiniteSet(Requests) /\ "sweep" \notin Requests

VARIABLES
  row,    \* table photos, by id
  file,   \* what each name holds on the card
  cap,    \* the capture under way
  del,    \* removals under way, the sweep's among them
  sweep,  \* the sweep's snapshot and counters
  shots,  \* shots taken
  sent,   \* how far each shot got: nowhere, reported, or stored elsewhere
  clashed,  \* history: shots taken under a name still in use
  crashes

vars == <<row, file, cap, del, sweep, shots, sent, clashed, crashes>>

Shots == 1 .. MaxShots
Nothing == 0
NoRow == [name |-> Nothing]
Removers == Requests \cup {"sweep"}

Idle == [pc |-> "idle"]  \* of a capture, a removal, a sweep

Rows == {i \in Shots : row[i] # NoRow}
Used == Cardinality({n \in Shots : file[n] # Nothing})

Stored == {s \in Shots : sent[s] = "stored"}
Uploaded == {s \in Shots : sent[s] # "nowhere"}

Init ==
  /\ row = [i \in Shots |-> NoRow] /\ file = [n \in Shots |-> Nothing]
  /\ cap = Idle /\ del = [r \in Removers |-> Idle] /\ sweep = Idle
  /\ shots = 0 /\ sent = [s \in Shots |-> "nowhere"] /\ clashed = {}
  /\ crashes = 0

-----------------------------------------------------------------------------
(* Captures. *)

\* Taken, or inserted, by a schedule (job_id).
Scheduled(i) == i \notin ByHand

\* Someone still knows this name: a row, or a removal that has read it.
InUse(n) == \/ \E i \in Rows : row[i].name = n
            \/ \E r \in Removers : del[r] # Idle /\ del[r].name = n

\* Below 2% free nothing is taken, and below 10% nothing that a schedule takes
\* unless it says otherwise.  A name is changed if its file exists.
Shoot(n) ==
  /\ cap = Idle /\ shots < MaxShots /\ shots' = shots + 1
  /\ Used < Critical /\ (Scheduled(shots') /\ SkipDiskFull => Used < High)
  /\ n <= shots' /\ file[n] = Nothing /\ file' = [file EXCEPT ![n] = shots']
  /\ cap' = [pc |-> "shot", name |-> n, id |-> Nothing]
  /\ clashed' = IF InUse(n) THEN clashed \cup {shots'} ELSE clashed
  /\ UNCHANGED <<row, del, sweep, sent, crashes>>

\* maybe_drop_duplicate, in a schedule's capture: the frame before it is a
\* registered photo.
DropDuplicate ==
  /\ Dedup /\ cap.pc = "shot" /\ Scheduled(shots) /\ \E i \in Rows : Scheduled(i)
  /\ file' = [file EXCEPT ![cap.name] = Nothing] /\ cap' = Idle
  /\ UNCHANGED <<row, del, sweep, shots, sent, clashed, crashes>>

\* The insert; a row that has the path already is kept as it is, its upload
\* state included, but for its time of capture.
Register ==
  LET same == {i \in Rows : row[i].name = cap.name}
      id == IF same = {} THEN shots ELSE CHOOSE i \in same : TRUE
  IN  /\ cap.pc = "shot" /\ cap' = [cap EXCEPT !.pc = "registered", !.id = id]
      /\ row' = [row EXCEPT ![id] =
                   IF same = {}
                   THEN [name |-> cap.name, taken |-> shots, old |-> FALSE,
                         starred |-> FALSE, owed |-> FALSE, done |-> FALSE, kept |-> FALSE]
                   ELSE [@ EXCEPT !.taken = shots, !.old = FALSE]]
      /\ UNCHANGED <<file, del, sweep, shots, sent, clashed, crashes>>

\* The queue gets new rows; it fails if the photo was deleted meanwhile.
Enqueue ==
  /\ cap.pc = "registered" /\ cap' = Idle
  /\ row' = IF cap.id \in Rows THEN [row EXCEPT ![cap.id].owed = TRUE] ELSE row
  /\ UNCHANGED <<file, del, sweep, shots, sent, clashed, crashes>>

\* Days go by.
GrowOld(i) ==
  /\ i \in Rows /\ ~row[i].old /\ \A j \in Rows : row[j].taken < row[i].taken => row[j].old
  /\ row' = [row EXCEPT ![i].old = TRUE]
  /\ UNCHANGED <<file, cap, del, sweep, shots, sent, clashed, crashes>>

-----------------------------------------------------------------------------
(* Requests of the gallery, and the queue's clean-up. *)

\* set_starred; a photo that is gone is refused.
Star(i) ==
  /\ i \in Rows /\ i \in Favourites /\ ~row[i].starred
  /\ row' = [row EXCEPT ![i].starred = TRUE]
  /\ UNCHANGED <<file, cap, del, sweep, shots, sent, clashed, crashes>>

Unstar(i) ==
  /\ i \in Rows /\ row[i].starred /\ row' = [row EXCEPT ![i].starred = FALSE]
  /\ UNCHANGED <<file, cap, del, sweep, shots, sent, clashed, crashes>>

\* Mutant: the file goes first.
Removal_FileFirst == <<"file", "row">>

\* PhotoStore.delete: the row, with those of the queue, then the file (and its
\* thumbnail), wherever it is by then.
Removal == <<"row", "file">>

\* The record is read before anything is removed.
Find(r, i, todo) ==
  /\ del[r] = Idle /\ i \in Rows
  /\ del' = [del EXCEPT ![r] = [pc |-> "found", id |-> i, name |-> row[i].name,
                                todo |-> todo]]

Remove(r) ==
  /\ del[r] # Idle
  /\ \/ /\ Head(del[r].todo) = "row"
        /\ row' = [row EXCEPT ![del[r].id] = NoRow] /\ UNCHANGED file
     \/ /\ Head(del[r].todo) = "file"
        /\ file' = [file EXCEPT ![del[r].name] = Nothing] /\ UNCHANGED row
  /\ del' = [del EXCEPT ![r] = IF Len(del[r].todo) = 1 THEN Idle
                               ELSE [del[r] EXCEPT !.todo = Tail(del[r].todo)]]

\* delete_photo, or one photo of a bulk-delete.
DeletePhoto(r, i) ==
  /\ Find(r, i, Removal)
  /\ UNCHANGED <<row, file, cap, sweep, shots, sent, clashed, crashes>>

\* The upload queue, seen from here: every row of the photo is ok.  What the file
\* holds was sent as a picture, or only reported (MQTT), and both count as done.
\* The local copy goes if its schedule says so and a destination that keeps
\* files has the photo (_maybe_delete_local).
Upload(r, i, picture) ==
  /\ i \in Rows /\ row[i].owed /\ file[row[i].name] # Nothing
  /\ row' = [row EXCEPT ![i].owed = FALSE, ![i].done = TRUE, ![i].kept = @ \/ picture]
  /\ sent' = [sent EXCEPT ![file[row[i].name]] =
                IF picture \/ @ = "stored" THEN "stored" ELSE "reported"]
  /\ \/ Scheduled(i) /\ (row[i].kept \/ picture) /\ Find(r, i, <<"file">>)
     \/ del[r] = Idle /\ UNCHANGED del
  /\ UNCHANGED <<file, cap, sweep, shots, clashed, crashes>>

RequestRemoves(r) ==
  /\ Remove(r)
  /\ UNCHANGED <<cap, sweep, shots, sent, clashed, crashes>>

-----------------------------------------------------------------------------
(* The retention sweep. *)

\* Mutant: in an emergency everything that is not starred may go.
ShouldKeep_Emergency(p, emergency) ==
  p.starred \/ (~emergency /\ (~p.done \/ ~p.old))

\* Mutant: what is young is kept in an emergency too.
ShouldKeep_Young(p, emergency) == p.starred \/ ~p.done \/ ~p.old

\* _should_keep; hot and warm are young, cold and archive old.
ShouldKeep(p, emergency) ==
  p.starred \/ ~p.done \/ (~emergency /\ ~p.old)

\* The disk is looked at and all photos are read; what may go is decided by
\* what is read here.
SweepBegins ==
  /\ sweep = Idle /\ Used >= Trigger
  /\ sweep' = [pc |-> "next", deleted |-> 0, needless |-> 0,
               list |-> {[id |-> i, taken |-> row[i].taken] :
                           i \in {j \in Rows : ~ShouldKeep(row[j], Used >= Emergency)}}]
  /\ UNCHANGED <<row, file, cap, del, shots, sent, clashed, crashes>>

Oldest == CHOOSE e \in sweep.list : \A f \in sweep.list : e.taken <= f.taken

\* Mutant: the disk is not looked at again.
EnoughFreed_Never(deleted) == FALSE

EnoughFreed(deleted) == deleted % CheckEvery = 0 /\ Used <= Target

\* History, needless: deletions begun with the target reached, since a look at
\* the disk last found that it was not.
NeedlessAfter(deleted) ==
  IF deleted % CheckEvery = 0 /\ Used > Target THEN 0 ELSE sweep.needless

\* The next in the list is looked up; if it is gone the disk is looked at.
SweepNext ==
  /\ sweep.pc = "next" /\ sweep.list # {}
  /\ \/ /\ Find("sweep", Oldest.id, Removal)
        /\ sweep' = [sweep EXCEPT !.pc = "deleting", !.list = @ \ {Oldest}]
     \/ /\ Oldest.id \notin Rows /\ UNCHANGED del
        /\ sweep' = IF EnoughFreed(sweep.deleted) THEN Idle
                    ELSE [sweep EXCEPT !.list = @ \ {Oldest},
                                       !.needless = NeedlessAfter(sweep.deleted)]
  /\ UNCHANGED <<row, file, cap, shots, sent, clashed, crashes>>

SweepRemoves ==
  /\ Remove("sweep")
  /\ sweep' = IF Head(del["sweep"].todo) = "file" /\ Used <= Target
              THEN [sweep EXCEPT !.needless = @ + 1] ELSE sweep
  /\ UNCHANGED <<cap, shots, sent, clashed, crashes>>

SweepCounts ==
  /\ sweep.pc = "deleting" /\ del["sweep"] = Idle
  /\ sweep' = IF EnoughFreed(sweep.deleted + 1) THEN Idle
              ELSE [sweep EXCEPT !.pc = "next", !.deleted = @ + 1,
                                 !.needless = NeedlessAfter(sweep.deleted + 1)]
  /\ UNCHANGED <<row, file, cap, del, shots, sent, clashed, crashes>>

SweepEnds ==
  /\ sweep.pc = "next" /\ sweep.list = {} /\ sweep' = Idle
  /\ UNCHANGED <<row, file, cap, del, shots, sent, clashed, crashes>>

-----------------------------------------------------------------------------
ServiceCrash ==
  /\ crashes < MaxCrashes /\ crashes' = crashes + 1
  /\ cap' = Idle /\ del' = [r \in Removers |-> IF r = "sweep" THEN del[r] ELSE Idle]
  /\ UNCHANGED <<row, file, sweep, shots, sent, clashed>>

SweepCrash ==
  /\ sweep # Idle /\ crashes < MaxCrashes /\ crashes' = crashes + 1
  /\ sweep' = Idle /\ del' = [del EXCEPT !["sweep"] = Idle]
  /\ UNCHANGED <<row, file, cap, shots, sent, clashed>>

Photograph == (\E n \in Shots : Shoot(n)) \/ DropDuplicate \/ Register \/ Enqueue

Sweep == SweepBegins \/ SweepNext \/ SweepRemoves \/ SweepCounts \/ SweepEnds

Next ==
  \/ Photograph \/ Sweep \/ ServiceCrash \/ SweepCrash
  \/ \E i \in Shots : \/ GrowOld(i) \/ Star(i) \/ Unstar(i)
                      \/ \E r \in Requests : \/ DeletePhoto(r, i)
                                               \/ \E picture \in BOOLEAN : Upload(r, i, picture)
  \/ \E r \in Requests : RequestRemoves(r)

\* The schedule goes on, uploads succeed in the end, the timer of the sweep comes
\* round, and what was begun is ended.
Fairness ==
  /\ WF_vars(Register) /\ WF_vars(Enqueue) /\ WF_vars(Sweep)
  /\ \A i \in Shots : WF_vars(\E r \in Requests, picture \in BOOLEAN : Upload(r, i, picture))
  /\ \A r \in Requests : WF_vars(RequestRemoves(r))

SafetySpec == Init /\ [][Next]_vars
Spec == SafetySpec /\ Fairness

-----------------------------------------------------------------------------
(* Properties *)

Photos == [name : Shots, taken : 0 .. MaxShots, old : BOOLEAN, starred : BOOLEAN,
           owed : BOOLEAN, done : BOOLEAN, kept : BOOLEAN]
Captures == [pc : {"shot", "registered"}, name : Shots, id : 0 .. MaxShots]
Removals == [pc : {"found"}, id : Shots, name : Shots, todo : {Removal, <<"file">>}]
Sweeps == [pc : {"next", "deleting"}, deleted : Nat, needless : Nat,
           list : SUBSET [id : Shots, taken : 0 .. MaxShots]]

TypeOK ==
  /\ row \in [Shots -> {NoRow} \cup Photos]
  /\ file \in [Shots -> 0 .. MaxShots] /\ clashed \subseteq Shots
  /\ sent \in [Shots -> {"nowhere", "reported", "stored"}]
  /\ cap = Idle \/ cap \in Captures
  /\ del \in [Removers -> {Idle} \cup Removals]
  /\ sweep = Idle \/ sweep \in Sweeps
  /\ shots \in 0 .. MaxShots /\ crashes \in 0 .. MaxCrashes

\* The files the sweep removes in a step held shots of this set.
SweepTakes(S) ==
  del["sweep"] # del'["sweep"] =>
    \A n \in Shots : file[n] # file'[n] => file[n] \in S

\* retention/policy.py: un-uploaded photos are never deleted.  Whatever the
\* sweep's snapshot said, no file it removes holds a photo that the queue has
\* not sent; a photo taken under a name that was still in use is not protected.
UnuploadedKept == [][SweepTakes(Uploaded \cup clashed)]_vars


\* A photo the gallery lists can be looked at or is stored elsewhere: whoever
\* removes files and whatever crashes, no row outlives the only copy, unless
\* that was taken under a name still in use.
RowsHaveFiles ==
  \A i \in Rows : \/ file[row[i].name] # Nothing
                  \/ row[i].taken \in Stored \cup clashed

\* The sweep stops at its target, in an emergency too: whoever frees the space
\* and whoever fills it again, between two looks at the disk it begins at most
\* one batch of deletions that the target no longer asked for.
SweepStops == sweep # Idle => sweep.needless <= CheckEvery

\* Nothing frees a file that a crash left without a row or without an upload,
\* nor the photo of a starred row.
Protected(n) ==
  \A i \in Rows : row[i].name = n => row[i].starred \/ ~(row[i].owed \/ row[i].done)

Young(n) == \A i \in Rows : row[i].name = n => ~row[i].old

\* A card too full for the schedules becomes free again, or all that is on it is
\* protected, or too young for a sweep that is no emergency: from 90% used on
\* the schedules skip, and only from 95% on the sweep takes young photos.
SpaceReturns ==
  Used >= High ~>
    \/ Used < High
    \/ \A n \in Shots : file[n] # Nothing =>
         Protected(n) \/ (Used < Emergency /\ Young(n))
===============================================================================
