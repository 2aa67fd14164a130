----------------------------- MODULE UploadQueue -----------------------------
(***************************************************************************)
(* The persistent upload queue of the station (uploaders/queue.py) with    *)
(* everything that writes to its tables: the capture jobs that register a  *)
(* photo and queue it (scheduler/engine.py, api/camera.py), the            *)
(* destination manager with its orphan rescue (uploaders/manager.py), the  *)
(* operator's requests, and the worker threads that claim a row, upload    *)
(* outside any transaction and then record the outcome.                    *)
(*                                                                         *)
(* One action is one SQLite transaction, one stand-alone read, one network *)
(* call or one file removal: db.tx() is BEGIN IMMEDIATE, so a transaction  *)
(* is atomic, and threads interleave between transactions.  A crash may    *)
(* fall between any two of them.                                           *)
(***************************************************************************)
EXTENDS Naturals, FiniteSets

CONSTANTS
  Photos,        \* photos the station may take
  Dests,         \* destination ids (uuid4, never reused)
  Storing,       \* the destinations of a kind that keeps the file itself
  InitialDests,  \* the destinations enabled when the behaviour starts
  Jobs,          \* schedule ids
  Manual,        \* the cockpit's capture button
  DestFilter,    \* the destinations each schedule's dest_filter lets through
  Workers,       \* the upload worker threads
  Drainers,      \* threads running /api/queue/drain-once
  MaxAttempts,   \* 12 in the code
  BreakerFailThreshold,  \* 10 in the code
  NoRow, NoDest, NoPhoto, NoJob

\* Bounds of the model: how often each disturbance may happen.
CONSTANTS MaxCrashes, MaxFaults, MaxRequeues, MaxOperator

Threads == Workers \cup Drainers
Capturers == Jobs \cup {Manual}
Upsets == {"crash", "fault", "requeue", "operator"}

\* A queue row.  The capture path queues a photo at most once per
\* destination, and so does the orphan rescue: `via' tells the two apart.
Rows == [photo: Photos, dest: Dests, via: {"capture", "rescue"}]

ASSUME ConstantsAssumption ==
  /\ Storing \subseteq Dests /\ InitialDests \subseteq Dests
  /\ DestFilter \in [Jobs -> SUBSET Dests]
  /\ Workers \cap Drainers = {}
  /\ Manual \notin Jobs /\ NoJob \notin Jobs
  /\ NoRow \notin Rows /\ NoDest \notin Dests /\ NoPhoto \notin Photos
  /\ MaxAttempts \in Nat \ {0} /\ BreakerFailThreshold \in Nat
  /\ {MaxCrashes, MaxFaults, MaxRequeues, MaxOperator} \subseteq Nat

VARIABLES
  phase,     \* the process: "down", "booting" (engine up, queue not) or "up"
  photos,    \* photos.upload_state, "none" before register, "gone" once deleted
  job,       \* photos.job_id
  file,      \* the JPEG on the SD card
  dest,      \* destinations: absent, enabled, disabled, deleted
  failing,   \* destinations whose last_error is set
  keep,      \* schedules.conditions.keep_local
  state,     \* upload_queue.state of each row, "absent" when there is none
  attempts,  \* upload_queue.attempts
  waiting,   \* failed rows whose next_at is still in the future
  received,  \* what each destination has been sent in full: <<photo, dest>>
  pc, held, snap,  \* each thread: where it is, its item, item.attempts
  cap,       \* each capturer: where it is, its photo, the dest_ids it read
  rescue,    \* the orphan rescue a destination's creation runs
  budget     \* disturbances left

queueVars == <<state, attempts, waiting>>
threadVars == <<pc, held, snap>>
photoVars == <<photos, job, file>>
operatorVars == <<dest, keep>>
vars == <<phase, photoVars, operatorVars, failing, queueVars, received,
          threadVars, cap, rescue, budget>>

Holding == {"claimed", "doomed", "uploading", "sent", "errored"}
Noting == {"cleanup", "kinds", "unlink", "noteok", "noteerr"}
Resting == {"off", "idle", "dead"}

Idle == [pc |-> "idle", photo |-> NoPhoto, dests |-> {}]
NoRescue == [pc |-> "idle", dest |-> NoDest, left |-> {}]

TypeOK ==
  /\ phase \in {"down", "booting", "up"}
  /\ photos \in [Photos -> {"none", "pending", "done", "gone"}]
  /\ job \in [Photos -> Jobs \cup {NoJob}]
  /\ file \in [Photos -> {"none", "present", "removed", "deleted", "swept"}]
  /\ dest \in [Dests -> {"absent", "enabled", "disabled", "deleted"}]
  /\ failing \subseteq Dests
  /\ keep \in [Jobs -> BOOLEAN]
  /\ state \in [Rows -> {"absent", "pending", "in_flight", "failed", "ok",
                         "failed_permanent"}]
  /\ attempts \in [Rows -> 0 .. MaxAttempts - 1]
  /\ waiting \subseteq Rows
  /\ received \subseteq Photos \X Dests
  /\ pc \in [Threads -> Holding \cup Noting \cup Resting]
  /\ held \in [Threads -> Rows \cup {NoRow}]
  /\ \A t \in Threads : pc[t] \notin Resting => held[t] \in Rows
  /\ snap \in [Threads -> 0 .. MaxAttempts - 1]
  /\ cap \in [Capturers -> [pc: {"idle", "shot", "registered", "listed"},
                            photo: Photos \cup {NoPhoto}, dests: SUBSET Dests]]
  /\ rescue \in [pc: {"idle", "read", "enqueue"}, dest: Dests \cup {NoDest},
                 left: SUBSET Photos]
  /\ budget \in [Upsets -> Nat]

Registered == {p \in Photos : photos[p] \in {"pending", "done"}}
Enabled == {d \in Dests : dest[d] = "enabled"}
Open(r) == state[r] \in {"pending", "in_flight", "failed"}
RowsOf(p) == {r \in Rows : r.photo = p /\ state[r] # "absent"}

\* API handlers run on the one event loop and do not await in the middle:
\* none of them starts while another is between two of its transactions.
ApiFree == phase = "up" /\ rescue = NoRescue /\ cap[Manual] = Idle

Spend(u) == budget[u] > 0 /\ budget' = [budget EXCEPT ![u] = @ - 1]

Init ==
  /\ phase = "down"
  /\ photos = [p \in Photos |-> "none"]
  /\ job = [p \in Photos |-> NoJob]
  /\ file = [p \in Photos |-> "none"]
  /\ dest = [d \in Dests |-> IF d \in InitialDests THEN "enabled" ELSE "absent"]
  /\ failing = {}
  /\ keep \in [Jobs -> BOOLEAN]
  /\ state = [r \in Rows |-> "absent"]
  /\ attempts = [r \in Rows |-> 0]
  /\ waiting = {}
  /\ received = {}
  /\ pc = [t \in Threads |-> "off"]
  /\ held = [t \in Threads |-> NoRow]
  /\ snap = [t \in Threads |-> 0]
  /\ cap = [c \in Capturers |-> Idle]
  /\ rescue = NoRescue
  /\ budget = [u \in Upsets |-> CASE u = "crash" -> MaxCrashes
                                  [] u = "fault" -> MaxFaults
                                  [] u = "requeue" -> MaxRequeues
                                  [] u = "operator" -> MaxOperator]

-----------------------------------------------------------------------------
(* Process life cycle *)

\* The engine starts, and so captures may fire, before the queue does.
Boot ==
  /\ phase = "down" /\ phase' = "booting"
  /\ UNCHANGED <<photoVars, operatorVars, failing, queueVars, received,
                 threadVars, cap, rescue, budget>>

\* Mutant: no recovery.
RecoverInFlight_Skipped == UNCHANGED queueVars

\* Every row stranded in_flight goes back to pending before a worker exists.
RecoverInFlight ==
  /\ state' = [r \in Rows |-> IF state[r] = "in_flight" THEN "pending" ELSE state[r]]
  /\ UNCHANGED <<attempts, waiting>>

QueueStart ==
  /\ phase = "booting" /\ phase' = "up"
  /\ RecoverInFlight
  /\ pc' = [t \in Threads |-> "idle"]
  /\ UNCHANGED <<photoVars, operatorVars, failing, received, held, snap, cap,
                 rescue, budget>>

\* Power cut, watchdog kill or os._exit: threads vanish, the database stays.
Crash ==
  /\ phase # "down" /\ phase' = "down"
  /\ Spend("crash")
  /\ pc' = [t \in Threads |-> "off"]
  /\ held' = [t \in Threads |-> NoRow]
  /\ snap' = [t \in Threads |-> 0]
  /\ cap' = [c \in Capturers |-> Idle]
  /\ rescue' = NoRescue
  /\ UNCHANGED <<photoVars, operatorVars, failing, queueVars, received>>

-----------------------------------------------------------------------------
(* Captures: shoot, register, read the destination ids, enqueue *)

\* The INSERTs of one enqueue() call.  The foreign key makes them fail when
\* the photo has been deleted meanwhile, and the transaction rolls back.
Enqueue(p, D, via) ==
  LET new == {r \in Rows : r.photo = p /\ r.dest \in D /\ r.via = via}
  IN  IF p \in Registered
      THEN /\ state' = [r \in Rows |-> IF r \in new THEN "pending" ELSE state[r]]
           /\ attempts' = [r \in Rows |-> IF r \in new THEN 0 ELSE attempts[r]]
           /\ waiting' = waiting \ new
      ELSE UNCHANGED queueVars

\* dest_filter of a schedule; the cockpit's capture passes None.
Filter(c) == IF c \in Jobs THEN DestFilter[c] ELSE Dests

\* list_destination_ids: the enabled destinations the filter lets through.
ListDestinationIds(c) == Enabled \cap Filter(c)

\* A schedule fires only while some enabled destination matches its filter
\* (skip_destinations_offline, on by default); the button has no such gate.
Shoot(c) ==
  /\ cap[c] = Idle
  /\ IF c \in Jobs THEN phase # "down" /\ ListDestinationIds(c) # {} ELSE ApiFree
  /\ \E p \in Photos :
       /\ file[p] = "none"
       /\ file' = [file EXCEPT ![p] = "present"]
       /\ cap' = [cap EXCEPT ![c] = [pc |-> "shot", photo |-> p, dests |-> {}]]
  /\ UNCHANGED <<phase, photos, job, operatorVars, failing, queueVars, received,
                 threadVars, rescue, budget>>

Register(c) ==
  /\ cap[c].pc = "shot"
  /\ photos' = [photos EXCEPT ![cap[c].photo] = "pending"]
  /\ job' = [job EXCEPT ![cap[c].photo] = IF c \in Jobs THEN c ELSE NoJob]
  /\ cap' = [cap EXCEPT ![c].pc = "registered"]
  /\ UNCHANGED <<phase, file, operatorVars, failing, queueVars, received,
                 threadVars, rescue, budget>>

\* Without a destination the photo stays local (audit "capture.orphan"), as
\* it does when the button's request says enqueue=false.
ReadDestinations(c) ==
  /\ cap[c].pc = "registered"
  /\ \/ cap' = [cap EXCEPT ![c] =
            IF ListDestinationIds(c) = {} THEN Idle
            ELSE [pc |-> "listed", photo |-> @.photo, dests |-> ListDestinationIds(c)]]
     \/ c = Manual /\ cap' = [cap EXCEPT ![c] = Idle]
  /\ UNCHANGED <<phase, photoVars, operatorVars, failing, queueVars, received,
                 threadVars, rescue, budget>>

EnqueueCapture(c) ==
  /\ cap[c].pc = "listed"
  /\ Enqueue(cap[c].photo, cap[c].dests, "capture")
  /\ cap' = [cap EXCEPT ![c] = Idle]
  /\ UNCHANGED <<phase, photoVars, operatorVars, failing, received, threadVars,
                 rescue, budget>>

-----------------------------------------------------------------------------
(* Operator requests, and the retention sweep *)

CreateDestination(d, enabled) ==
  /\ ApiFree /\ dest[d] = "absent"
  /\ Spend("operator")
  /\ dest' = [dest EXCEPT ![d] = IF enabled THEN "enabled" ELSE "disabled"]
  /\ rescue' = IF enabled THEN [pc |-> "read", dest |-> d, left |-> {}] ELSE NoRescue
  /\ UNCHANGED <<phase, photoVars, keep, failing, queueVars, received,
                 threadVars, cap>>

\* The rescue reads, in one SELECT, the pending photos without a queue row.
Orphans == {p \in Photos : photos[p] = "pending" /\ RowsOf(p) = {}}

RescueRead ==
  /\ rescue.pc = "read"
  /\ rescue' = IF Orphans = {} THEN NoRescue
               ELSE [rescue EXCEPT !.pc = "enqueue", !.left = Orphans]
  /\ UNCHANGED <<phase, photoVars, operatorVars, failing, queueVars, received,
                 threadVars, cap, budget>>

\* One transaction per photo; a photo deleted meanwhile raises and ends the
\* whole rescue.
RescueEnqueue ==
  /\ rescue.pc = "enqueue"
  /\ \E p \in rescue.left :
       /\ Enqueue(p, {rescue.dest}, "rescue")
       /\ rescue' = IF p \in Registered /\ rescue.left # {p}
                    THEN [rescue EXCEPT !.left = @ \ {p}]
                    ELSE NoRescue
  /\ UNCHANGED <<phase, photoVars, operatorVars, failing, received, threadVars,
                 cap, budget>>

\* update(enabled=...): re-enabling runs no rescue.
ToggleDestination(d) ==
  /\ ApiFree /\ d \in Dests
  /\ Spend("operator")
  /\ \/ dest[d] = "enabled" /\ dest' = [dest EXCEPT ![d] = "disabled"]
     \/ dest[d] = "disabled" /\ dest' = [dest EXCEPT ![d] = "enabled"]
  /\ UNCHANGED <<phase, photoVars, keep, failing, queueVars, received,
                 threadVars, cap, rescue>>

\* The queue rows of a deleted destination stay behind.
DeleteDestination(d) ==
  /\ ApiFree /\ dest[d] \in {"enabled", "disabled"}
  /\ Spend("operator")
  /\ dest' = [dest EXCEPT ![d] = "deleted"]
  /\ failing' = failing \ {d}
  /\ UNCHANGED <<phase, photoVars, keep, queueVars, received, threadVars, cap,
                 rescue>>

SetKeepLocal(j) ==
  /\ ApiFree
  /\ Spend("operator")
  /\ keep' = [keep EXCEPT ![j] = ~@]
  /\ UNCHANGED <<phase, photoVars, dest, failing, queueVars, received,
                 threadVars, cap, rescue>>

\* Mutant: everything that is not being worked on.
Requeueable_AllIdle == {"failed", "failed_permanent", "ok"}

Requeueable == {"failed", "failed_permanent"}

\* requeue_failed(photo_id): one photo, or every photo when it is None.
RequeueFailed(S) ==
  /\ ApiFree
  /\ Spend("requeue")
  /\ LET again == {r \in Rows : r.photo \in S /\ state[r] \in Requeueable}
     IN  /\ again # {}
         /\ state' = [r \in Rows |-> IF r \in again THEN "pending" ELSE state[r]]
         /\ attempts' = [r \in Rows |-> IF r \in again THEN 0 ELSE attempts[r]]
         /\ waiting' = waiting \ again
  /\ UNCHANGED <<phase, photoVars, operatorVars, failing, received, threadVars,
                 cap, rescue>>

\* PhotoStore.delete: the queue rows go with the photo (ON DELETE CASCADE).
Delete(p, how) ==
  /\ p \in Registered
  /\ photos' = [photos EXCEPT ![p] = "gone"]
  /\ file' = [file EXCEPT ![p] = IF @ = "present" THEN how ELSE @]
  /\ state' = [r \in Rows |-> IF r.photo = p THEN "absent" ELSE state[r]]
  /\ attempts' = [r \in Rows |-> IF r.photo = p THEN 0 ELSE attempts[r]]
  /\ waiting' = {r \in waiting : r.photo # p}
  /\ UNCHANGED <<phase, job, operatorVars, failing, received, threadVars, cap,
                 rescue>>

DeletePhoto(p) == ApiFree /\ Spend("operator") /\ Delete(p, "deleted")

\* The nightly sweep is a process of its own; an uploaded photo is one whose
\* upload_state is done.
SweepPhoto(p) == photos[p] = "done" /\ Spend("operator") /\ Delete(p, "swept")

-----------------------------------------------------------------------------
(* Worker threads *)

\* Mutant: the claim does not look at the state.
Due_AnyOpen == {r \in Rows : Open(r) /\ r \notin waiting}

\* A row is due when it is pending (every path into pending sets next_at to
\* now) or when the back-off of a failed row has run out.
Due == {r \in Rows : state[r] = "pending" \/ (state[r] = "failed" /\ r \notin waiting)}

FailedRows(d) == {r \in Rows : r.dest = d /\ state[r] = "failed"}

\* Every enabled destination has a last_error and enough failed rows.  The
\* one-hour window of the count is left out: all failures here are recent.
AllFailing ==
  /\ Enabled # {}
  /\ \A d \in Enabled : d \in failing /\ Cardinality(FailedRows(d)) >= BreakerFailThreshold

\* Mutant: the pause lasts as long as the failures do.
BreakerPauses_Unbounded == AllFailing

\* _breaker_pause_remaining() > 0: the pause lasts until the oldest next_at,
\* which lies in the past as soon as one row is due.
BreakerPauses == AllFailing /\ Due = {}

\* Mutant: SELECT without UPDATE.
MarkInFlight_Forgotten(r) == UNCHANGED <<state, waiting>>

MarkInFlight(r) ==
  /\ state' = [state EXCEPT ![r] = "in_flight"]
  /\ waiting' = waiting \ {r}

\* The claim and the row it returns are read in one transaction, the row as
\* it was before the update.  ORDER BY next_at is the fairness of Fairness.
ClaimRow(t, r) ==
  /\ phase = "up" /\ pc[t] = "idle"
  /\ t \in Workers => ~BreakerPauses
  /\ r \in Due
  /\ MarkInFlight(r)
  /\ pc' = [pc EXCEPT ![t] = "claimed"]
  /\ held' = [held EXCEPT ![t] = r]
  /\ snap' = [snap EXCEPT ![t] = attempts[r]]
  /\ UNCHANGED <<phase, photoVars, operatorVars, failing, attempts, received,
                 cap, rescue, budget>>

Claim(t) == \E r \in Rows : ClaimRow(t, r)

Goto(t, label) == pc' = [pc EXCEPT ![t] = label] /\ UNCHANGED <<held, snap>>

\* _handle reads the photo and the destination.
Lookup(t) ==
  /\ pc[t] = "claimed"
  /\ Goto(t, IF held[t].photo \in Registered /\ held[t].dest \in Enabled
             THEN "uploading" ELSE "doomed")
  /\ UNCHANGED <<phase, photoVars, operatorVars, failing, queueVars, received,
                 cap, rescue, budget>>

Release(t) ==
  /\ pc' = [pc EXCEPT ![t] = "idle"]
  /\ held' = [held EXCEPT ![t] = NoRow]
  /\ snap' = [snap EXCEPT ![t] = 0]

\* UPDATE ... WHERE id=?: no effect on a row that is gone.
SetState(r, new) == state' = [state EXCEPT ![r] = IF @ = "absent" THEN @ ELSE new]

\* Missing or disabled: _mark_failed(permanent=True) and back to the loop.
GiveUp(t) ==
  /\ pc[t] = "doomed"
  /\ SetState(held[t], "failed_permanent")
  /\ Release(t)
  /\ UNCHANGED <<phase, photoVars, operatorVars, failing, attempts, waiting,
                 received, cap, rescue, budget>>

\* Mutant: an exception counts as success.
Upload_SwallowsErrors(t) ==
  /\ pc[t] = "uploading" /\ Goto(t, "sent")
  /\ UNCHANGED <<phase, photoVars, operatorVars, failing, queueVars, received,
                 cap, rescue, budget>>

\* uploader.upload(): the file must still be there; an error may be reported
\* although the destination got everything.
Upload(t) ==
  /\ pc[t] = "uploading"
  /\ \/ /\ file[held[t].photo] = "present"
        /\ received' = received \cup {<<held[t].photo, held[t].dest>>}
        /\ \E outcome \in {"sent", "errored"} : Goto(t, outcome)
     \/ Goto(t, "errored") /\ UNCHANGED received
  /\ UNCHANGED <<phase, photoVars, operatorVars, failing, queueVars, cap,
                 rescue, budget>>

\* Mutant: the row itself is counted, read before its update.
OthersOk_CountsItself(r) == \A q \in RowsOf(r.photo) : state[q] = "ok"

\* Mutant: only pending rows are counted.
OthersOk_NonePending(r) == \A q \in RowsOf(r.photo) \ {r} : state[q] # "pending"

\* No row of the photo but this one is left to do.
OthersOk(r) == \A q \in RowsOf(r.photo) \ {r} : state[q] = "ok"

\* One transaction: the row is ok; with no other row left to do the photo is
\* done, and a scheduled photo goes on to the keep_local clean-up.
MarkOk(t) ==
  LET r == held[t]  p == held[t].photo
  IN  /\ pc[t] = "sent"
      /\ SetState(r, "ok")
      /\ IF OthersOk(r) /\ p \in Registered
         THEN /\ photos' = [photos EXCEPT ![p] = "done"]
              /\ Goto(t, IF job[p] # NoJob THEN "cleanup" ELSE "noteok")
         ELSE UNCHANGED photos /\ Goto(t, "noteok")
      /\ UNCHANGED <<phase, job, file, operatorVars, failing, attempts, waiting,
                     received, cap, rescue, budget>>

\* _maybe_delete_local: first the schedule's conditions, then the kinds of
\* the destinations that still exist and hold an ok row, then the unlink.
CheckKeepLocal(t) ==
  /\ pc[t] = "cleanup"
  /\ Goto(t, IF keep[job[held[t].photo]] THEN "noteok" ELSE "kinds")
  /\ UNCHANGED <<phase, photoVars, operatorVars, failing, queueVars, received,
                 cap, rescue, budget>>

OkDests(p) == {r.dest : r \in {q \in RowsOf(p) : state[q] = "ok"}}
Existing == {d \in Dests : dest[d] \in {"enabled", "disabled"}}

\* Mutant: any upload counts, MQTT's too.
StoredElsewhere_Any(p) == OkDests(p) # {}

\* Mutant: every destination has to keep the file.
StoredElsewhere_All(p) == OkDests(p) \subseteq Existing \cap Storing

\* Some uploaded destination that still exists keeps the file itself.
StoredElsewhere(p) == OkDests(p) \cap Existing \cap Storing # {}

CheckKinds(t) ==
  /\ pc[t] = "kinds"
  /\ Goto(t, IF StoredElsewhere(held[t].photo) THEN "unlink" ELSE "noteok")
  /\ UNCHANGED <<phase, photoVars, operatorVars, failing, queueVars, received,
                 cap, rescue, budget>>

RemoveLocal(t) ==
  /\ pc[t] = "unlink"
  /\ file' = [file EXCEPT ![held[t].photo] = IF @ = "present" THEN "removed" ELSE @]
  /\ Goto(t, "noteok")
  /\ UNCHANGED <<phase, photos, job, operatorVars, failing, queueVars, received,
                 cap, rescue, budget>>

\* destinations.mark_ok / mark_error, after the queue row is settled.
NoteOutcome(t) ==
  /\ \/ pc[t] = "noteok" /\ failing' = failing \ {held[t].dest}
     \/ pc[t] = "noteerr" /\ failing' = failing \cup ({held[t].dest} \cap Existing)
  /\ Release(t)
  /\ UNCHANGED <<phase, photoVars, operatorVars, queueVars, received, cap,
                 rescue, budget>>

Exhausted(n) == n + 1 >= MaxAttempts

\* The attempt that reaches the limit is not written to the row.
MarkRetry(t) ==
  LET r == held[t]
  IN  /\ pc[t] = "errored"
      /\ \/ /\ Exhausted(snap[t])
            /\ SetState(r, "failed_permanent")
            /\ UNCHANGED <<attempts, waiting>>
         \/ /\ ~Exhausted(snap[t])
            /\ SetState(r, "failed")
            /\ attempts' = [attempts EXCEPT ![r] = IF state[r] = "absent" THEN @ ELSE snap[t] + 1]
            /\ waiting' = waiting \cup ({r} \ {q \in Rows : state[q] = "absent"})
      /\ Goto(t, "noteerr")
      /\ UNCHANGED <<phase, photoVars, operatorVars, failing, received, cap,
                     rescue, budget>>

\* A statement raises (locked or full database).  build_uploader and the
\* clean-up run inside a handler; nowhere else does the loop catch it, so a
\* worker thread ends and a drain request returns an error.
Fault(t) ==
  /\ Spend("fault")
  /\ \/ /\ pc[t] \in {"cleanup", "kinds", "unlink"} /\ Goto(t, "noteok")
     \/ /\ pc[t] \in (Holding \ {"uploading"}) \cup {"noteok", "noteerr"}
           \/ (pc[t] = "idle" /\ t \in Workers)
        /\ pc' = [pc EXCEPT ![t] = IF t \in Workers THEN "dead" ELSE "idle"]
        /\ held' = [held EXCEPT ![t] = NoRow]
        /\ snap' = [snap EXCEPT ![t] = 0]
  /\ UNCHANGED <<phase, photoVars, operatorVars, failing, queueVars, received,
                 cap, rescue>>

BackoffElapses(r) ==
  /\ r \in waiting /\ waiting' = waiting \ {r}
  /\ UNCHANGED <<phase, photoVars, operatorVars, failing, state, attempts,
                 received, threadVars, cap, rescue, budget>>

-----------------------------------------------------------------------------

Capture(c) == Shoot(c) \/ Register(c) \/ ReadDestinations(c) \/ EnqueueCapture(c)

\* The rest of _handle once a row is claimed.
Handle(t) ==
  \/ Lookup(t) \/ GiveUp(t) \/ Upload(t) \/ MarkOk(t) \/ MarkRetry(t)
  \/ CheckKeepLocal(t) \/ CheckKinds(t) \/ RemoveLocal(t) \/ NoteOutcome(t)

Operator ==
  \/ \E d \in Dests : \/ \E enabled \in BOOLEAN : CreateDestination(d, enabled)
                      \/ ToggleDestination(d)
                      \/ DeleteDestination(d)
  \/ \E j \in Jobs : SetKeepLocal(j)
  \/ RequeueFailed(Photos)
  \/ \E p \in Photos : RequeueFailed({p}) \/ DeletePhoto(p) \/ SweepPhoto(p)

Next ==
  \/ Boot \/ QueueStart \/ Crash
  \/ \E c \in Capturers : Capture(c)
  \/ RescueRead \/ RescueEnqueue
  \/ Operator
  \/ \E t \in Threads : Claim(t) \/ Handle(t) \/ Fault(t)
  \/ \E r \in Rows : BackoffElapses(r)

\* systemd restarts the process (Restart=always), started jobs and requests
\* run on, uploads end by their own time-outs, time passes.  A row that keeps
\* coming due is claimed: ORDER BY next_at puts it before every row that came
\* due later, and a row requeued or backed off goes behind it.
Fairness ==
  /\ WF_vars(Boot) /\ WF_vars(QueueStart)
  /\ \A c \in Capturers : WF_vars(Register(c) \/ ReadDestinations(c) \/ EnqueueCapture(c))
  /\ WF_vars(RescueRead \/ RescueEnqueue)
  /\ \A t \in Threads : WF_vars(Handle(t))
  /\ \A r \in Rows : WF_vars(BackoffElapses(r))
                     /\ SF_vars(\E t \in Workers : ClaimRow(t, r))

SafetySpec == Init /\ [][Next]_vars
Spec == SafetySpec /\ Fairness

-----------------------------------------------------------------------------
(* Safety *)

\* A queue row is worked on by one thread at a time, worker or drain request,
\* whatever crashes and faults have happened: _claim's single transaction.
ClaimExclusive ==
  \A t, u \in Threads :
    pc[t] \in Holding /\ pc[u] \in Holding /\ held[t] = held[u] => t = u

\* A row some thread is working on is in_flight, unless its photo has been
\* deleted under the upload: nobody else can settle, requeue or claim it.
HeldIsInFlight ==
  \A t \in Threads : pc[t] \in Holding => state[held[t]] \in {"in_flight", "absent"}

\* Once the queue runs no row is stuck in_flight without a thread, the
\* purpose of recover_in_flight; only a fault of a statement can leave one.
InFlightIsHeld ==
  phase = "up" /\ budget["fault"] = MaxFaults =>
    \A r \in Rows : state[r] = "in_flight" =>
      \E t \in Threads : pc[t] \in Holding /\ held[t] = r

\* A row marked ok was received in full by its destination, even when the
\* worker that marked it raced a deletion, a crash or a requeue.
OkIsReceived ==
  \A r \in Rows : state[r] = "ok" => <<r.photo, r.dest>> \in received

\* upload_state agrees with the queue: done as soon as every row of the photo
\* is ok, whichever of several workers settled the last one, and never
\* without an ok row.
UploadStateTracksRows ==
  \A p \in Registered :
    /\ RowsOf(p) # {} /\ (\A r \in RowsOf(p) : state[r] = "ok") => photos[p] = "done"
    /\ photos[p] = "done" => \E r \in RowsOf(p) : state[r] = "ok"

\* The keep_local clean-up never removes the only copy: the photo came from a
\* schedule and a destination that keeps the file has it.
LocalCopySafe ==
  \A p \in Photos : file[p] = "removed" =>
    job[p] # NoJob /\ \E d \in Storing : <<p, d>> \in received

\* Nothing reopens an uploaded row: not a stale worker, a requeue or a boot.
OkIsFinal ==
  [][\A r \in Rows : state[r] = "ok" => state'[r] \in {"ok", "absent"}]_vars

-----------------------------------------------------------------------------
(* The inductive invariant the proofs rest on, in named parts *)

\* A photo is captured by one job, registered after its file exists, and
\* queued by its capture only once: rows belong to registered photos, and a
\* capture in progress has queued none of its photo's rows yet.
CaptureInv ==
  /\ \A p \in Photos : photos[p] # "none" => file[p] # "none"
  /\ \A r \in Rows : state[r] # "absent" => r.photo \in Registered
  /\ \A c \in Capturers : cap[c].pc # "idle" =>
       /\ cap[c].photo \in Photos /\ file[cap[c].photo] # "none"
       /\ cap[c].pc = "shot" <=> photos[cap[c].photo] = "none"
       /\ \A r \in Rows : r.photo = cap[c].photo /\ r.via = "capture" => state[r] = "absent"
       /\ \A b \in Capturers : cap[b].pc # "idle" /\ cap[b].photo = cap[c].photo => b = c

\* A rescue runs once, when its destination is created, and has yet to queue
\* what it still holds.
RescueInv ==
  /\ \A r \in Rows : r.via = "rescue" /\ state[r] # "absent" => dest[r.dest] # "absent"
  /\ rescue.pc # "idle" => rescue.dest \in Dests /\ dest[rescue.dest] # "absent"
  /\ \A r \in Rows : r.via = "rescue" /\ r.dest = rescue.dest =>
       /\ rescue.pc = "read" => state[r] = "absent"
       /\ rescue.pc = "enqueue" /\ r.photo \in rescue.left => state[r] = "absent"

\* Threads run only while the queue does; the item a thread works on is its
\* own and in_flight, or went with its photo; what it is about to mark ok has
\* been received.
ThreadInv ==
  /\ phase # "up" => \A t \in Threads : pc[t] = "off"
  /\ \A t \in Threads : pc[t] \in Holding =>
       \/ state[held[t]] = "in_flight"
       \/ state[held[t]] = "absent" /\ photos[held[t].photo] = "gone"
  /\ \A t \in Threads : pc[t] = "sent" => <<held[t].photo, held[t].dest>> \in received
  /\ ClaimExclusive

OwnershipInv == TypeOK /\ CaptureInv /\ RescueInv /\ ThreadInv

-----------------------------------------------------------------------------
(* Refinement: a row the workers still have to deal with is owed. *)

LedgerStatus(r) ==
  CASE photos[r.photo] = "gone" -> "withdrawn"
    [] state[r] = "ok" -> "delivered"
    [] state[r] = "failed_permanent" -> "abandoned"
    [] Open(r) -> "owed"
    [] OTHER -> "none"

Ledger == INSTANCE DeliveryLedger WITH
  Items <- Rows,
  ledger <- [r \in Rows |-> LedgerStatus(r)],
  uploaded <- {p \in Photos : photos[p] = "done"}

\* The queue with all its threads, crashes, faults and requests implements
\* the ledger: nothing is marked delivered that was not received, nothing is
\* sent that is not owed, nothing leaves the ledger but with its photo.
ImplementsLedger == Ledger!Spec

-----------------------------------------------------------------------------
(* Liveness *)

\* Every queued upload ends: ok, given up for the operator to see, or gone
\* with its photo, through crashes in any place.
EveryRowSettles == \A r \in Rows : Open(r) ~> ~Open(r)

\* A schedule that opted out of keep_local gets its space back once a
\* destination that keeps files has the photo (a crash, or a change of the
\* settings after the check, may forfeit this).
Releasable(p) ==
  /\ photos[p] = "done" /\ file[p] = "present" /\ job[p] # NoJob
  /\ ~keep[job[p]] /\ \E d \in OkDests(p) : d \in Existing /\ d \in Storing
LocalCopyReleased ==
  \A p \in Photos : Releasable(p) ~>
    \/ ~Releasable(p)
    \/ budget["crash"] < MaxCrashes \/ budget["operator"] < MaxOperator

-----------------------------------------------------------------------------
(* What the documentation says and the code does not do *)

\* "NEVER delete a photo that hasn't safely uploaded - the local file is the
\* only copy": what the sweep takes is kept by some destination.
SweptIsStored ==
  \A p \in Photos : file[p] = "swept" => \E d \in Storing : <<p, d>> \in received
==============================================================================
