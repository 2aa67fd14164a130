-------------------------- MODULE UploadQueueProofs --------------------------
EXTENDS UploadQueue, TLAPS

(***************************************************************************)
(* Type correctness.                                                       *)
(***************************************************************************)
LEMMA InitType == Init => TypeOK
  BY ConstantsAssumption DEF Init, TypeOK, Idle, NoRescue, Upsets, Holding, Noting,
     Resting

LEMMA CaptureType ==
  ASSUME TypeOK, NEW c \in Capturers, Capture(c)
  PROVE  TypeOK'
<1> USE ConstantsAssumption DEF TypeOK, operatorVars, queueVars, threadVars, photoVars
<1>1. CASE Shoot(c)
  BY <1>1 DEF Shoot
<1>2. CASE Register(c)
  BY <1>2 DEF Register
<1>3. CASE ReadDestinations(c)
  BY <1>3 DEF ReadDestinations, ListDestinationIds, Enabled, Idle
<1>4. CASE EnqueueCapture(c)
  BY <1>4 DEF EnqueueCapture, Enqueue, Idle
<1> QED
  BY <1>1, <1>2, <1>3, <1>4 DEF Capture

LEMMA OperatorType ==
  ASSUME TypeOK, Operator
  PROVE  TypeOK'
<1> USE ConstantsAssumption DEF TypeOK, operatorVars, queueVars, threadVars, photoVars,
        Spend, Upsets
<1>1. ASSUME NEW d \in Dests, NEW enabled \in BOOLEAN, CreateDestination(d, enabled)
      PROVE  TypeOK'
  BY <1>1 DEF CreateDestination, NoRescue
<1>2. ASSUME NEW d \in Dests, ToggleDestination(d)
      PROVE  TypeOK'
  BY <1>2 DEF ToggleDestination
<1>3. ASSUME NEW d \in Dests, DeleteDestination(d)
      PROVE  TypeOK'
  BY <1>3 DEF DeleteDestination
<1>4. ASSUME NEW j \in Jobs, SetKeepLocal(j)
      PROVE  TypeOK'
  BY <1>4 DEF SetKeepLocal
<1>5. ASSUME NEW S \in SUBSET Photos, RequeueFailed(S)
      PROVE  TypeOK'
  BY <1>5 DEF RequeueFailed, Requeueable
<1>6. ASSUME NEW p \in Photos, DeletePhoto(p)
      PROVE  TypeOK'
  BY <1>6 DEF DeletePhoto, Delete
<1>7. ASSUME NEW p \in Photos, SweepPhoto(p)
      PROVE  TypeOK'
  BY <1>7 DEF SweepPhoto, Delete
<1>8. \A p \in Photos : {p} \in SUBSET Photos
  OBVIOUS
<1> HIDE DEF TypeOK, Spend
<1> QED
  BY <1>1, <1>2, <1>3, <1>4, <1>5, <1>6, <1>7, <1>8 DEF Operator

LEMMA ThreadType ==
  ASSUME TypeOK, NEW t \in Threads, Claim(t) \/ Handle(t) \/ Fault(t)
  PROVE  TypeOK'
<1> USE ConstantsAssumption DEF TypeOK, operatorVars, queueVars, threadVars, photoVars,
        Goto, Release, SetState, Holding, Noting, Resting
<1>1. CASE Claim(t)
  <2>1. PICK r \in Rows : ClaimRow(t, r)
    BY <1>1 DEF Claim
  <2> QED
    BY <2>1 DEF ClaimRow, MarkInFlight
<1>2. CASE Lookup(t)
  BY <1>2 DEF Lookup
<1>3. CASE GiveUp(t)
  BY <1>3 DEF GiveUp
<1>4. CASE Upload(t)
  <2>1. <<held[t].photo, held[t].dest>> \in Photos \X Dests
    BY <1>4 DEF Upload, Rows
  <2> QED
    BY <1>4, <2>1 DEF Upload
<1>5. CASE MarkOk(t)
  BY <1>5 DEF MarkOk
<1>6. CASE MarkRetry(t)
  <2>1. held[t] \in Rows /\ snap[t] \in Nat
    BY <1>6 DEF MarkRetry
  <2>2. attempts' \in [Rows -> 0 .. MaxAttempts - 1]
    <3>1. CASE UNCHANGED attempts
      BY <3>1
    <3>2. CASE /\ ~Exhausted(snap[t])
               /\ attempts' = [attempts EXCEPT ![held[t]] =
                                IF state[held[t]] = "absent" THEN @ ELSE snap[t] + 1]
      <4>1. snap[t] + 1 \in 0 .. MaxAttempts - 1
        BY <3>2, <2>1 DEF Exhausted
      <4> QED
        BY <4>1, <3>2, <2>1
    <3> QED
      BY <1>6, <3>1, <3>2 DEF MarkRetry
  <2> QED
    BY <1>6, <2>1, <2>2 DEF MarkRetry
<1>7. CASE CheckKeepLocal(t) \/ CheckKinds(t)
  BY <1>7 DEF CheckKeepLocal, CheckKinds
<1>8. CASE RemoveLocal(t)
  BY <1>8 DEF RemoveLocal
<1>9. CASE NoteOutcome(t)
  BY <1>9 DEF NoteOutcome, Existing
<1>10. CASE Fault(t)
  <2>1. budget' \in [Upsets -> Nat]
    BY <1>10 DEF Fault, Spend, Upsets
  <2>2. CASE pc[t] \in {"cleanup", "kinds", "unlink"} /\ Goto(t, "noteok")
    BY <1>10, <2>1, <2>2 DEF Fault
  <2>3. CASE /\ pc' = [pc EXCEPT ![t] = IF t \in Workers THEN "dead" ELSE "idle"]
             /\ held' = [held EXCEPT ![t] = NoRow]
             /\ snap' = [snap EXCEPT ![t] = 0]
    BY <1>10, <2>1, <2>3 DEF Fault
  <2> QED
    BY <1>10, <2>2, <2>3 DEF Fault
<1> QED
  BY <1>1, <1>2, <1>3, <1>4, <1>5, <1>6, <1>7, <1>8, <1>9, <1>10 DEF Handle

LEMMA SystemType ==
  ASSUME TypeOK,
         \/ Boot \/ QueueStart \/ Crash \/ RescueRead \/ RescueEnqueue
         \/ \E r \in Rows : BackoffElapses(r)
         \/ UNCHANGED vars
  PROVE  TypeOK'
<1> USE ConstantsAssumption DEF TypeOK, operatorVars, queueVars, threadVars, photoVars,
        Holding, Noting, Resting
<1>1. CASE Boot
  BY <1>1 DEF Boot
<1>2. CASE QueueStart
  BY <1>2 DEF QueueStart, RecoverInFlight
<1>3. CASE Crash
  BY <1>3 DEF Crash, Spend, Upsets, Idle, NoRescue
<1>4. CASE RescueRead
  BY <1>4 DEF RescueRead, NoRescue, Orphans
<1>5. CASE RescueEnqueue
  BY <1>5 DEF RescueEnqueue, NoRescue, Enqueue
<1>6. ASSUME NEW r \in Rows, BackoffElapses(r)
      PROVE  TypeOK'
  BY <1>6 DEF BackoffElapses
<1>7. CASE UNCHANGED vars
  BY <1>7 DEF vars
<1> QED
  BY <1>1, <1>2, <1>3, <1>4, <1>5, <1>6, <1>7

\* Every variable keeps its type in every step, for any number of photos,
\* destinations, schedules and threads and any attempt limit.
THEOREM TypeCorrect == SafetySpec => []TypeOK
<1>1. TypeOK /\ [Next]_vars => TypeOK'
  BY CaptureType, OperatorType, ThreadType, SystemType DEF Next
<1> QED
  BY <1>1, InitType, PTL DEF SafetySpec

(***************************************************************************)
(* The inductive invariant.                                                *)
(***************************************************************************)
LEMMA InitOwnership == Init => CaptureInv /\ RescueInv /\ ThreadInv
<1> SUFFICES ASSUME Init PROVE CaptureInv /\ RescueInv /\ ThreadInv
  OBVIOUS
<1> USE DEF Init
<1>1. CaptureInv
  BY DEF CaptureInv, Idle
<1>2. RescueInv
  BY DEF RescueInv, NoRescue
<1>3. ThreadInv
  BY DEF ThreadInv, ClaimExclusive, Holding
<1> QED
  BY <1>1, <1>2, <1>3

\* CaptureInv reads photos, file, state and cap only.
LEMMA CaptureInvFrame ==
  ASSUME CaptureInv, UNCHANGED <<photos, file, state, cap>>
  PROVE  CaptureInv'
  BY DEF CaptureInv, Registered

\* What enqueue() changes: rows of a registered photo, for the given
\* destinations and caller, become pending.
LEMMA EnqueueStates ==
  ASSUME TypeOK, NEW p, NEW D, NEW via, Enqueue(p, D, via)
  PROVE  \A r \in Rows : \/ state'[r] = state[r]
                         \/ /\ r.photo = p /\ r.dest \in D /\ r.via = via
                            /\ p \in Registered /\ state'[r] = "pending"
<1> DEFINE new == {r \in Rows : r.photo = p /\ r.dest \in D /\ r.via = via}
<1>1. CASE p \in Registered
  <2>1. state' = [r \in Rows |-> IF r \in new THEN "pending" ELSE state[r]]
    BY <1>1 DEF Enqueue
  <2> QED
    BY <1>1, <2>1
<1>2. CASE p \notin Registered
  BY <1>2 DEF Enqueue, queueVars
<1> QED
  BY <1>1, <1>2

LEMMA CaptureInvCapture ==
  ASSUME TypeOK, CaptureInv, NEW c \in Capturers, Capture(c)
  PROVE  CaptureInv'
<1> USE DEF TypeOK, CaptureInv, Registered, Rows, queueVars, photoVars
<1>1. CASE Shoot(c)
  BY <1>1 DEF Shoot, Idle
<1>2. CASE Register(c)
  BY <1>2 DEF Register
<1>3. CASE ReadDestinations(c)
  <2>1. UNCHANGED <<photos, file, state>>
    BY <1>3 DEF ReadDestinations
  <2>2. \/ cap' = [cap EXCEPT ![c] = Idle]
        \/ /\ cap[c].pc = "registered"
           /\ cap' = [cap EXCEPT ![c] = [pc |-> "listed", photo |-> cap[c].photo,
                                        dests |-> ListDestinationIds(c)]]
    BY <1>3 DEF ReadDestinations
  <2>3. \A b \in Capturers :
           \/ cap'[b].pc = "idle"
           \/ /\ cap[b].pc # "idle" /\ cap'[b].photo = cap[b].photo
              /\ cap'[b].pc = "shot" <=> cap[b].pc = "shot"
    BY <2>2 DEF Idle
  <2> QED
    BY <2>1, <2>3
<1>4. CASE EnqueueCapture(c)
  <2> DEFINE p == cap[c].photo
  <2>1. /\ UNCHANGED <<photos, file>>
        /\ cap' = [cap EXCEPT ![c] = Idle]
        /\ cap[c].pc = "listed"
    BY <1>4 DEF EnqueueCapture
  <2>2. \A r \in Rows : \/ state'[r] = state[r]
                        \/ r.photo = p /\ p \in Registered
    BY <1>4, EnqueueStates DEF EnqueueCapture
  <2>3. \A b \in Capturers : cap'[b].pc # "idle" => b # c /\ cap'[b] = cap[b]
    BY <2>1 DEF Idle
  <2>4. \A r \in Rows : state'[r] # "absent" => r.photo \in Registered
    BY <2>2
  <2> HIDE DEF TypeOK, Rows
  <2> QED
    BY <2>1, <2>2, <2>3, <2>4
<1> QED
  BY <1>1, <1>2, <1>3, <1>4 DEF Capture

\* A step that leaves the captures alone and makes no row of a photo that is
\* not registered keeps CaptureInv.
LEMMA CaptureInvRows ==
  ASSUME CaptureInv, UNCHANGED <<photos, cap>>,
         \A p \in Photos : file[p] # "none" => file'[p] # "none",
         \A r \in Rows : state[r] = "absent" => state'[r] = "absent"
  PROVE  CaptureInv'
  BY DEF CaptureInv, Registered

LEMMA CaptureInvOperator ==
  ASSUME TypeOK, CaptureInv, Operator
  PROVE  CaptureInv'
<1>1. ASSUME NEW d \in Dests, NEW enabled \in BOOLEAN, CreateDestination(d, enabled)
      PROVE  CaptureInv'
  BY <1>1, CaptureInvFrame DEF CreateDestination, photoVars, queueVars
<1>2. ASSUME NEW d \in Dests, ToggleDestination(d)
      PROVE  CaptureInv'
  BY <1>2, CaptureInvFrame DEF ToggleDestination, photoVars, queueVars
<1>3. ASSUME NEW d \in Dests, DeleteDestination(d)
      PROVE  CaptureInv'
  BY <1>3, CaptureInvFrame DEF DeleteDestination, photoVars, queueVars
<1>4. ASSUME NEW j \in Jobs, SetKeepLocal(j)
      PROVE  CaptureInv'
  BY <1>4, CaptureInvFrame DEF SetKeepLocal, photoVars, queueVars
<1>5. ASSUME NEW S \in SUBSET Photos, RequeueFailed(S)
      PROVE  CaptureInv'
  <2>1. \A r \in Rows : state[r] = "absent" => state'[r] = "absent"
    BY <1>5 DEF RequeueFailed, Requeueable
  <2> QED
    BY <1>5, <2>1, CaptureInvRows DEF RequeueFailed, photoVars
<1>6. ASSUME NEW p \in Photos, NEW how \in {"deleted", "swept"}, Delete(p, how)
      PROVE  CaptureInv'
  BY <1>6 DEF Delete, TypeOK, CaptureInv, Registered
<1>7. \A p \in Photos : {p} \in SUBSET Photos
  OBVIOUS
<1> QED
  BY <1>1, <1>2, <1>3, <1>4, <1>5, <1>6, <1>7 DEF Operator, DeletePhoto, SweepPhoto

LEMMA CaptureInvThread ==
  ASSUME TypeOK, CaptureInv, NEW t \in Threads, Claim(t) \/ Handle(t) \/ Fault(t)
  PROVE  CaptureInv'
<1> USE DEF photoVars, queueVars
<1>1. CASE Claim(t)
  BY <1>1, CaptureInvRows DEF Claim, ClaimRow, MarkInFlight, Due, TypeOK
<1>2. CASE Lookup(t)
  BY <1>2, CaptureInvFrame DEF Lookup
<1>3. CASE GiveUp(t)
  BY <1>3, CaptureInvRows DEF GiveUp, SetState, TypeOK
<1>4. CASE Upload(t)
  BY <1>4, CaptureInvFrame DEF Upload
<1>5. CASE MarkOk(t)
  <2>1. \A p \in Photos : photos'[p] = photos[p] \/ (p \in Registered /\ photos'[p] = "done")
    BY <1>5 DEF MarkOk, TypeOK
  <2>2. \A r \in Rows : state[r] = "absent" => state'[r] = "absent"
    BY <1>5 DEF MarkOk, SetState, TypeOK
  <2>3. UNCHANGED <<file, cap>>
    BY <1>5 DEF MarkOk
  <2> QED
    BY <2>1, <2>2, <2>3 DEF CaptureInv, Registered, Rows
<1>6. CASE MarkRetry(t)
  <2>1. \A r \in Rows : state[r] = "absent" => state'[r] = "absent"
    BY <1>6 DEF MarkRetry, SetState, TypeOK
  <2>2. UNCHANGED <<photos, cap, file>>
    BY <1>6 DEF MarkRetry
  <2> QED
    BY <2>1, <2>2, CaptureInvRows
<1>7. CASE CheckKeepLocal(t) \/ CheckKinds(t)
  BY <1>7, CaptureInvFrame DEF CheckKeepLocal, CheckKinds
<1>8. CASE RemoveLocal(t)
  BY <1>8, CaptureInvRows DEF RemoveLocal, TypeOK
<1>9. CASE NoteOutcome(t)
  BY <1>9, CaptureInvFrame DEF NoteOutcome
<1>10. CASE Fault(t)
  BY <1>10, CaptureInvFrame DEF Fault
<1> QED
  BY <1>1, <1>2, <1>3, <1>4, <1>5, <1>6, <1>7, <1>8, <1>9, <1>10 DEF Handle

LEMMA CaptureInvSystem ==
  ASSUME TypeOK, CaptureInv,
         \/ Boot \/ QueueStart \/ Crash \/ RescueRead \/ RescueEnqueue
         \/ \E r \in Rows : BackoffElapses(r)
         \/ UNCHANGED vars
  PROVE  CaptureInv'
<1> USE DEF photoVars, queueVars
<1>1. CASE Boot
  BY <1>1, CaptureInvFrame DEF Boot
<1>2. CASE QueueStart
  BY <1>2, CaptureInvRows DEF QueueStart, RecoverInFlight
<1>3. CASE Crash
  <2>1. \A c \in Capturers : cap'[c].pc = "idle"
    BY <1>3 DEF Crash, Idle
  <2> QED
    BY <1>3, <2>1 DEF Crash, CaptureInv, Registered
<1>4. CASE RescueRead
  BY <1>4, CaptureInvFrame DEF RescueRead
<1>5. CASE RescueEnqueue
  <2>1. PICK p \in rescue.left : Enqueue(p, {rescue.dest}, "rescue")
    BY <1>5 DEF RescueEnqueue
  <2>2. UNCHANGED <<photos, file, cap>>
    BY <1>5 DEF RescueEnqueue
  <2>3. \A r \in Rows : state'[r] = state[r] \/ (r.via = "rescue" /\ r.photo \in Registered)
    BY <2>1, EnqueueStates
  <2> QED
    BY <2>2, <2>3 DEF CaptureInv, Registered
<1>6. ASSUME NEW r \in Rows, BackoffElapses(r)
      PROVE  CaptureInv'
  BY <1>6, CaptureInvFrame DEF BackoffElapses
<1>7. CASE UNCHANGED vars
  BY <1>7, CaptureInvFrame DEF vars
<1> QED
  BY <1>1, <1>2, <1>3, <1>4, <1>5, <1>6, <1>7

\* Unless a destination is created, a step that makes no rescue row and
\* leaves the rescue alone keeps RescueInv.
LEMMA RescueInvFrame ==
  ASSUME RescueInv, UNCHANGED rescue,
         \A d \in Dests : dest[d] # "absent" => dest'[d] # "absent",
         \A r \in Rows : r.via = "rescue" /\ state[r] = "absent" => state'[r] = "absent"
  PROVE  RescueInv'
<1>1. \A r \in Rows : r.dest \in Dests
  BY DEF Rows
<1> QED
  BY <1>1 DEF RescueInv

LEMMA RescueInvCapture ==
  ASSUME TypeOK, RescueInv, NEW c \in Capturers, Capture(c)
  PROVE  RescueInv'
<1> USE DEF queueVars, operatorVars
<1>1. CASE Shoot(c)
  BY <1>1, RescueInvFrame DEF Shoot
<1>2. CASE Register(c)
  BY <1>2, RescueInvFrame DEF Register
<1>3. CASE ReadDestinations(c)
  BY <1>3, RescueInvFrame DEF ReadDestinations
<1>4. CASE EnqueueCapture(c)
  <2>1. \A r \in Rows : r.via = "rescue" => state'[r] = state[r]
    BY <1>4, EnqueueStates DEF EnqueueCapture
  <2>2. UNCHANGED <<dest, rescue>>
    BY <1>4 DEF EnqueueCapture
  <2> QED
    BY <2>1, <2>2, RescueInvFrame
<1> QED
  BY <1>1, <1>2, <1>3, <1>4 DEF Capture

LEMMA RescueInvOperator ==
  ASSUME TypeOK, RescueInv, Operator
  PROVE  RescueInv'
<1> USE DEF queueVars, operatorVars
<1>1. ASSUME NEW d \in Dests, NEW enabled \in BOOLEAN, CreateDestination(d, enabled)
      PROVE  RescueInv'
  <2>1. /\ UNCHANGED state /\ dest[d] = "absent"
        /\ dest'[d] # "absent" /\ \A e \in Dests : e # d => dest'[e] = dest[e]
        /\ rescue' = [pc |-> "read", dest |-> d, left |-> {}] \/ rescue' = NoRescue
    BY <1>1 DEF CreateDestination, TypeOK
  <2>2. \A r \in Rows : r.via = "rescue" /\ r.dest = d => state[r] = "absent"
    BY <2>1 DEF RescueInv
  <2>3. \A r \in Rows : r.dest \in Dests
    BY DEF Rows
  <2> QED
    BY <2>1, <2>2, <2>3 DEF RescueInv, NoRescue
<1>2. ASSUME NEW d \in Dests, ToggleDestination(d)
      PROVE  RescueInv'
  BY <1>2, RescueInvFrame DEF ToggleDestination, TypeOK
<1>3. ASSUME NEW d \in Dests, DeleteDestination(d)
      PROVE  RescueInv'
  BY <1>3, RescueInvFrame DEF DeleteDestination, TypeOK
<1>4. ASSUME NEW j \in Jobs, SetKeepLocal(j)
      PROVE  RescueInv'
  BY <1>4, RescueInvFrame DEF SetKeepLocal
<1>5. ASSUME NEW S \in SUBSET Photos, RequeueFailed(S)
      PROVE  RescueInv'
  BY <1>5, RescueInvFrame DEF RequeueFailed, Requeueable
<1>6. ASSUME NEW p \in Photos, NEW how \in {"deleted", "swept"}, Delete(p, how)
      PROVE  RescueInv'
  BY <1>6, RescueInvFrame DEF Delete
<1>7. \A p \in Photos : {p} \in SUBSET Photos
  OBVIOUS
<1> QED
  BY <1>1, <1>2, <1>3, <1>4, <1>5, <1>6, <1>7 DEF Operator, DeletePhoto, SweepPhoto

LEMMA RescueInvThread ==
  ASSUME TypeOK, RescueInv, NEW t \in Threads, Claim(t) \/ Handle(t) \/ Fault(t)
  PROVE  RescueInv'
<1> USE DEF queueVars, operatorVars
<1>1. CASE Claim(t)
  BY <1>1, RescueInvFrame DEF Claim, ClaimRow, MarkInFlight, Due, TypeOK
<1>2. CASE Lookup(t)
  BY <1>2, RescueInvFrame DEF Lookup
<1>3. CASE GiveUp(t)
  BY <1>3, RescueInvFrame DEF GiveUp, SetState, TypeOK
<1>4. CASE Upload(t)
  BY <1>4, RescueInvFrame DEF Upload
<1>5. CASE MarkOk(t)
  <2>1. UNCHANGED <<dest, rescue>> /\ \A r \in Rows : state[r] = "absent" => state'[r] = "absent"
    BY <1>5 DEF MarkOk, SetState, TypeOK
  <2> QED
    BY <2>1, RescueInvFrame
<1>6. CASE MarkRetry(t)
  <2>1. UNCHANGED <<dest, rescue>> /\ \A r \in Rows : state[r] = "absent" => state'[r] = "absent"
    BY <1>6 DEF MarkRetry, SetState, TypeOK
  <2> QED
    BY <2>1, RescueInvFrame
<1>7. CASE CheckKeepLocal(t) \/ CheckKinds(t)
  BY <1>7, RescueInvFrame DEF CheckKeepLocal, CheckKinds
<1>8. CASE RemoveLocal(t)
  BY <1>8, RescueInvFrame DEF RemoveLocal
<1>9. CASE NoteOutcome(t)
  BY <1>9, RescueInvFrame DEF NoteOutcome
<1>10. CASE Fault(t)
  BY <1>10, RescueInvFrame DEF Fault
<1> QED
  BY <1>1, <1>2, <1>3, <1>4, <1>5, <1>6, <1>7, <1>8, <1>9, <1>10 DEF Handle

LEMMA RescueInvSystem ==
  ASSUME TypeOK, RescueInv,
         \/ Boot \/ QueueStart \/ Crash \/ RescueRead \/ RescueEnqueue
         \/ \E r \in Rows : BackoffElapses(r)
         \/ UNCHANGED vars
  PROVE  RescueInv'
<1> USE DEF queueVars, operatorVars
<1>1. CASE Boot
  BY <1>1, RescueInvFrame DEF Boot
<1>2. CASE QueueStart
  BY <1>2, RescueInvFrame DEF QueueStart, RecoverInFlight
<1>3. CASE Crash
  BY <1>3 DEF Crash, RescueInv, NoRescue
<1>4. CASE RescueRead
  BY <1>4 DEF RescueRead, RescueInv, NoRescue, TypeOK
<1>5. CASE RescueEnqueue
  <2>1. PICK p \in rescue.left :
           /\ Enqueue(p, {rescue.dest}, "rescue")
           /\ rescue' = IF p \in Registered /\ rescue.left # {p}
                        THEN [rescue EXCEPT !.left = @ \ {p}] ELSE NoRescue
    BY <1>5 DEF RescueEnqueue
  <2>2. UNCHANGED dest /\ rescue.pc = "enqueue"
    BY <1>5 DEF RescueEnqueue
  <2>3. \A r \in Rows : \/ state'[r] = state[r]
                        \/ r.photo = p /\ r.dest = rescue.dest /\ r.via = "rescue"
    BY <2>1, EnqueueStates
  <2>4. \/ rescue'.pc = "idle"
        \/ /\ rescue'.pc = "enqueue" /\ rescue'.dest = rescue.dest
           /\ rescue'.left = rescue.left \ {p}
    BY <2>1, <2>2 DEF NoRescue, TypeOK
  <2> QED
    BY <2>2, <2>3, <2>4 DEF RescueInv
<1>6. ASSUME NEW r \in Rows, BackoffElapses(r)
      PROVE  RescueInv'
  BY <1>6, RescueInvFrame DEF BackoffElapses
<1>7. CASE UNCHANGED vars
  BY <1>7, RescueInvFrame DEF vars
<1> QED
  BY <1>1, <1>2, <1>3, <1>4, <1>5, <1>6, <1>7

\* What a step of anything but the threads may do to the rows: it leaves
\* in_flight rows alone or takes them away with their photo, and brings
\* nothing back that went with its photo.
RowsRespected ==
  \A r \in Rows :
    /\ state[r] = "in_flight" =>
         state'[r] = "in_flight" \/ (state'[r] = "absent" /\ photos'[r.photo] = "gone")
    /\ state[r] = "absent" /\ photos[r.photo] = "gone" =>
         state'[r] = "absent" /\ photos'[r.photo] = "gone"

LEMMA ThreadInvFrame ==
  ASSUME TypeOK, ThreadInv, UNCHANGED <<pc, held>>, phase' = "up" <=> phase = "up",
         received \subseteq received', RowsRespected
  PROVE  ThreadInv'
<1>1. \A t \in Threads : pc[t] \in Holding => held[t] \in Rows
  BY DEF TypeOK, Holding, Resting
<1> QED
  BY <1>1 DEF ThreadInv, RowsRespected, ClaimExclusive

LEMMA RowsRespectedFrame ==
  ASSUME UNCHANGED <<state, photos>>
  PROVE  RowsRespected
  BY DEF RowsRespected

\* enqueue() makes rows of registered photos, of which the capture or the
\* rescue has queued none before: no row a thread works on is among them.
LEMMA RowsRespectedEnqueue ==
  ASSUME TypeOK, NEW p, NEW D, NEW via, Enqueue(p, D, via), UNCHANGED photos,
         \A r \in Rows : r.photo = p /\ r.dest \in D /\ r.via = via => state[r] = "absent"
  PROVE  RowsRespected
  BY EnqueueStates DEF RowsRespected, Registered

LEMMA RowsRespectedCapture ==
  ASSUME TypeOK, CaptureInv, NEW c \in Capturers, Capture(c)
  PROVE  RowsRespected
<1> USE DEF queueVars, photoVars
<1>1. CASE Shoot(c)
  BY <1>1, RowsRespectedFrame DEF Shoot
<1>2. CASE Register(c)
  BY <1>2 DEF Register, RowsRespected, CaptureInv, TypeOK, Registered
<1>3. CASE ReadDestinations(c)
  BY <1>3, RowsRespectedFrame DEF ReadDestinations
<1>4. CASE EnqueueCapture(c)
  BY <1>4, RowsRespectedEnqueue DEF EnqueueCapture, CaptureInv
<1> QED
  BY <1>1, <1>2, <1>3, <1>4 DEF Capture

LEMMA RowsRespectedOperator ==
  ASSUME TypeOK, Operator
  PROVE  RowsRespected
<1> USE DEF queueVars, photoVars
<1>1. ASSUME NEW S \in SUBSET Photos, RequeueFailed(S)
      PROVE  RowsRespected
  BY <1>1 DEF RequeueFailed, Requeueable, RowsRespected, TypeOK
<1>2. ASSUME NEW p \in Photos, NEW how \in {"deleted", "swept"}, Delete(p, how)
      PROVE  RowsRespected
  BY <1>2 DEF Delete, RowsRespected, TypeOK, Rows
<1>3. ASSUME \/ \E d \in Dests : \/ \E enabled \in BOOLEAN : CreateDestination(d, enabled)
                                 \/ ToggleDestination(d) \/ DeleteDestination(d)
             \/ \E j \in Jobs : SetKeepLocal(j)
      PROVE  RowsRespected
  BY <1>3, RowsRespectedFrame
     DEF CreateDestination, ToggleDestination, DeleteDestination, SetKeepLocal
<1>4. \A p \in Photos : {p} \in SUBSET Photos
  OBVIOUS
<1> QED
  BY <1>1, <1>2, <1>3, <1>4 DEF Operator, DeletePhoto, SweepPhoto

LEMMA ThreadInvCapture ==
  ASSUME TypeOK, CaptureInv, ThreadInv, NEW c \in Capturers, Capture(c)
  PROVE  ThreadInv'
<1>1. UNCHANGED <<phase, received, pc, held>>
  BY DEF Capture, Shoot, Register, ReadDestinations, EnqueueCapture, threadVars
<1> QED
  BY <1>1, RowsRespectedCapture, ThreadInvFrame

LEMMA ThreadInvOperator ==
  ASSUME TypeOK, ThreadInv, Operator
  PROVE  ThreadInv'
<1>1. UNCHANGED <<phase, received, pc, held>>
  BY DEF Operator, CreateDestination, ToggleDestination, DeleteDestination, SetKeepLocal,
         RequeueFailed, DeletePhoto, SweepPhoto, Delete, threadVars
<1> QED
  BY <1>1, RowsRespectedOperator, ThreadInvFrame

LEMMA ThreadInvSystem ==
  ASSUME TypeOK, RescueInv, ThreadInv,
         \/ Boot \/ QueueStart \/ Crash \/ RescueRead \/ RescueEnqueue
         \/ \E r \in Rows : BackoffElapses(r)
         \/ UNCHANGED vars
  PROVE  ThreadInv'
<1> USE DEF queueVars, photoVars, threadVars
<1>1. CASE Boot
  BY <1>1, ThreadInvFrame, RowsRespectedFrame DEF Boot
<1>2. CASE QueueStart
  BY <1>2 DEF QueueStart, ThreadInv, ClaimExclusive, Holding
<1>3. CASE Crash
  BY <1>3 DEF Crash, ThreadInv, ClaimExclusive, Holding
<1>4. CASE RescueRead
  BY <1>4, ThreadInvFrame, RowsRespectedFrame DEF RescueRead
<1>5. CASE RescueEnqueue
  <2>1. PICK p \in rescue.left : Enqueue(p, {rescue.dest}, "rescue")
    BY <1>5 DEF RescueEnqueue
  <2>2. \A r \in Rows : r.photo = p /\ r.dest \in {rescue.dest} /\ r.via = "rescue"
          => state[r] = "absent"
    BY <1>5 DEF RescueEnqueue, RescueInv
  <2>3. UNCHANGED <<photos, phase, received, pc, held>>
    BY <1>5 DEF RescueEnqueue
  <2> QED
    BY <2>1, <2>2, <2>3, RowsRespectedEnqueue, ThreadInvFrame
<1>6. ASSUME NEW r \in Rows, BackoffElapses(r)
      PROVE  ThreadInv'
  BY <1>6, ThreadInvFrame, RowsRespectedFrame DEF BackoffElapses
<1>7. CASE UNCHANGED vars
  BY <1>7, ThreadInvFrame, RowsRespectedFrame DEF vars
<1> QED
  BY <1>1, <1>2, <1>3, <1>4, <1>5, <1>6, <1>7

\* A thread's step keeps ThreadInv when it concerns that thread, its item and
\* nothing else a thread relies on.
LEMMA ThreadInvStep ==
  ASSUME TypeOK, ThreadInv, NEW t \in Threads, phase = "up", phase' = phase,
         \A u \in Threads \ {t} : pc'[u] = pc[u] /\ held'[u] = held[u],
         \A r \in Rows \ {held[t]} : state'[r] = state[r],
         \A p \in Photos : photos[p] = "gone" => photos'[p] = "gone",
         received \subseteq received',
         pc[t] \in Holding,
         \/ pc'[t] \notin Holding
         \/ pc'[t] \in Holding /\ held'[t] = held[t] /\ state'[held[t]] = state[held[t]],
         pc'[t] = "sent" => <<held'[t].photo, held'[t].dest>> \in received'
  PROVE  ThreadInv'
<1>1. \A u \in Threads : pc[u] \in Holding => held[u] \in Rows /\ held[u].photo \in Photos
  BY DEF TypeOK, Holding, Resting, Rows
<1>2. \A u \in Threads : pc'[u] \in Holding =>
         /\ pc[u] \in Holding /\ held'[u] = held[u] /\ state'[held[u]] = state[held[u]]
  BY <1>1 DEF ThreadInv, ClaimExclusive
<1>3. \A u \in Threads : pc'[u] = "sent" => <<held'[u].photo, held'[u].dest>> \in received'
  BY DEF ThreadInv
<1> QED
  BY <1>1, <1>2, <1>3 DEF ThreadInv, ClaimExclusive

LEMMA ThreadInvThread ==
  ASSUME TypeOK, ThreadInv, NEW t \in Threads, Claim(t) \/ Handle(t) \/ Fault(t)
  PROVE  ThreadInv'
<1> USE DEF queueVars, photoVars, threadVars, Goto, Release, Holding, Noting
<1>1. CASE Claim(t)
  <2>1. PICK r \in Rows : ClaimRow(t, r)
    BY <1>1 DEF Claim
  <2>2. /\ phase = "up" /\ UNCHANGED <<phase, photos, received>>
        /\ state[r] # "in_flight" /\ state[r] # "absent" /\ state'[r] = "in_flight"
        /\ \A q \in Rows \ {r} : state'[q] = state[q]
        /\ pc'[t] = "claimed" /\ held'[t] = r
        /\ \A u \in Threads \ {t} : pc'[u] = pc[u] /\ held'[u] = held[u]
    BY <2>1 DEF ClaimRow, MarkInFlight, Due, TypeOK
  <2>3. \A u \in Threads \ {t} : pc[u] \in Holding => held[u] \in Rows \ {r}
    BY <2>2 DEF ThreadInv, TypeOK, Resting
  <2> QED
    BY <2>2, <2>3 DEF ThreadInv, ClaimExclusive
<1>2. ASSUME pc[t] \notin Resting
      PROVE  phase = "up"
  BY <1>2 DEF ThreadInv, Resting
<1>3. CASE Lookup(t)
  BY <1>2, <1>3, ThreadInvStep DEF Lookup, TypeOK, Resting
<1>4. CASE GiveUp(t)
  BY <1>2, <1>4, ThreadInvStep DEF GiveUp, SetState, TypeOK, Resting
<1>5. CASE Upload(t)
  BY <1>2, <1>5, ThreadInvStep DEF Upload, TypeOK, Resting
<1>6. CASE MarkOk(t)
  <2>1. \A r \in Rows \ {held[t]} : state'[r] = state[r]
    BY <1>6 DEF MarkOk, SetState, TypeOK
  <2>2. \A p \in Photos : photos[p] = "gone" => photos'[p] = "gone"
    BY <1>6 DEF MarkOk, Registered, TypeOK
  <2>3. /\ pc[t] = "sent" /\ pc'[t] \in {"cleanup", "noteok"}
        /\ \A u \in Threads \ {t} : pc'[u] = pc[u] /\ held'[u] = held[u]
        /\ UNCHANGED <<phase, received>>
    BY <1>6 DEF MarkOk, TypeOK
  <2> QED
    BY <1>2, <2>1, <2>2, <2>3, ThreadInvStep DEF Resting
<1>7. CASE MarkRetry(t)
  <2>1. \A r \in Rows \ {held[t]} : state'[r] = state[r]
    BY <1>7 DEF MarkRetry, SetState, TypeOK
  <2>2. /\ pc[t] = "errored" /\ pc'[t] = "noteerr"
        /\ \A u \in Threads \ {t} : pc'[u] = pc[u] /\ held'[u] = held[u]
        /\ UNCHANGED <<phase, received, photos>>
    BY <1>7 DEF MarkRetry, TypeOK
  <2> QED
    BY <1>2, <2>1, <2>2, ThreadInvStep DEF Resting
<1>8. ASSUME /\ UNCHANGED <<phase, state, photos, received>>
             /\ \A u \in Threads \ {t} : pc'[u] = pc[u] /\ held'[u] = held[u]
             /\ pc'[t] \notin Holding
             /\ phase = "up"
      PROVE  ThreadInv'
  BY <1>8 DEF ThreadInv, ClaimExclusive
<1>9. CASE CheckKeepLocal(t) \/ CheckKinds(t) \/ RemoveLocal(t) \/ NoteOutcome(t)
  BY <1>2, <1>8, <1>9 DEF CheckKeepLocal, CheckKinds, RemoveLocal, NoteOutcome, TypeOK, Resting
<1>10. CASE Fault(t)
  <2>1. /\ UNCHANGED <<phase, state, photos, received>>
        /\ \A u \in Threads \ {t} : pc'[u] = pc[u] /\ held'[u] = held[u]
        /\ pc'[t] \in {"noteok", "dead", "idle"}
        /\ pc[t] # "off"
    BY <1>10 DEF Fault, TypeOK
  <2> QED
    BY <1>8, <2>1 DEF ThreadInv
<1> QED
  BY <1>1, <1>3, <1>4, <1>5, <1>6, <1>7, <1>9, <1>10 DEF Handle

\* Who works on what stays clear through every interleaving of captures,
\* rescue, requests, claims, crashes and faults: the invariant from which the
\* safety theorems below follow.
THEOREM OwnershipCorrect == SafetySpec => []OwnershipInv
<1>1. OwnershipInv /\ Next => CaptureInv'
  BY CaptureInvCapture, CaptureInvOperator, CaptureInvThread, CaptureInvSystem
     DEF OwnershipInv, Next
<1>2. OwnershipInv /\ Next => RescueInv'
  BY RescueInvCapture, RescueInvOperator, RescueInvThread, RescueInvSystem
     DEF OwnershipInv, Next
<1>3. OwnershipInv /\ Next => ThreadInv'
  BY ThreadInvCapture, ThreadInvOperator, ThreadInvThread, ThreadInvSystem
     DEF OwnershipInv, Next
<1>4. OwnershipInv /\ UNCHANGED vars => CaptureInv' /\ RescueInv' /\ ThreadInv'
  BY CaptureInvSystem, RescueInvSystem, ThreadInvSystem DEF OwnershipInv
<1>5. TypeOK /\ Next => TypeOK'
  BY CaptureType, OperatorType, ThreadType, SystemType DEF Next
<1>6. TypeOK /\ UNCHANGED vars => TypeOK'
  BY SystemType
<1>7. OwnershipInv /\ [Next]_vars => OwnershipInv'
  BY <1>1, <1>2, <1>3, <1>4, <1>5, <1>6 DEF OwnershipInv
<1>8. Init => OwnershipInv
  BY InitType, InitOwnership DEF OwnershipInv
<1> QED
  BY <1>7, <1>8, PTL DEF SafetySpec

\* A queue row is worked on by at most one thread: the single transaction of
\* _claim is enough, for any number of workers and drain requests.
THEOREM ClaimsAreExclusive == SafetySpec => []ClaimExclusive
<1>1. OwnershipInv => ClaimExclusive
  BY DEF OwnershipInv, ThreadInv
<1> QED
  BY <1>1, OwnershipCorrect, PTL

\* While a thread works on a row, the row is in_flight or went with its
\* photo: nobody else settles, requeues or claims it.
THEOREM HeldRowsAreInFlight == SafetySpec => []HeldIsInFlight
<1>1. OwnershipInv => HeldIsInFlight
  BY DEF OwnershipInv, ThreadInv, HeldIsInFlight
<1> QED
  BY <1>1, OwnershipCorrect, PTL

(***************************************************************************)
(* The transitions of one row, from which what is said of ok rows follows. *)
(***************************************************************************)
RowTransition(r) ==
  \/ state'[r] = state[r]
  \/ state'[r] = "absent"
  \/ state[r] # "ok" /\ state'[r] \in {"pending", "in_flight", "failed", "failed_permanent"}
  \/ state[r] = "in_flight" /\ state'[r] = "ok" /\ <<r.photo, r.dest>> \in received

LEMMA RowTransitionThread ==
  ASSUME OwnershipInv, NEW t \in Threads, Claim(t) \/ Handle(t) \/ Fault(t), NEW r \in Rows
  PROVE  RowTransition(r)
<1> USE DEF queueVars, OwnershipInv
<1>1. CASE Claim(t)
  BY <1>1 DEF Claim, ClaimRow, MarkInFlight, Due, TypeOK, RowTransition
<1>2. CASE GiveUp(t)
  BY <1>2 DEF GiveUp, SetState, TypeOK, RowTransition, ThreadInv, Holding
<1>3. CASE MarkRetry(t)
  <2>1. pc[t] = "errored" /\ state[held[t]] # "ok"
    BY <1>3 DEF MarkRetry, ThreadInv, Holding
  <2>2. \/ state'[r] = state[r]
        \/ r = held[t] /\ state'[r] \in {"failed", "failed_permanent"}
    BY <1>3 DEF MarkRetry, SetState, TypeOK
  <2> QED
    BY <2>1, <2>2 DEF RowTransition
<1>4. CASE MarkOk(t)
  <2>1. /\ pc[t] = "sent"
        /\ state[held[t]] \in {"in_flight", "absent"}
        /\ <<held[t].photo, held[t].dest>> \in received
    BY <1>4 DEF MarkOk, ThreadInv, Holding
  <2>2. \/ state'[r] = state[r]
        \/ r = held[t] /\ state[r] # "absent" /\ state'[r] = "ok"
    BY <1>4 DEF MarkOk, SetState, TypeOK
  <2> QED
    BY <2>1, <2>2 DEF RowTransition
<1>5. CASE Lookup(t) \/ Upload(t) \/ CheckKeepLocal(t) \/ CheckKinds(t) \/ RemoveLocal(t)
           \/ NoteOutcome(t) \/ Fault(t)
  BY <1>5 DEF Lookup, Upload, CheckKeepLocal, CheckKinds, RemoveLocal, NoteOutcome, Fault, RowTransition
<1> QED
  BY <1>1, <1>2, <1>3, <1>4, <1>5 DEF Handle

LEMMA RowTransitionOther ==
  ASSUME OwnershipInv, NEW r \in Rows,
         \/ \E c \in Capturers : Capture(c)
         \/ Operator
         \/ Boot \/ QueueStart \/ Crash \/ RescueRead \/ RescueEnqueue
         \/ \E q \in Rows : BackoffElapses(q)
         \/ UNCHANGED vars
  PROVE  RowTransition(r)
<1> USE DEF queueVars, OwnershipInv
<1>1. ASSUME NEW c \in Capturers, Capture(c)
      PROVE  RowTransition(r)
  <2>1. CASE EnqueueCapture(c)
    BY <2>1, EnqueueStates DEF EnqueueCapture, CaptureInv, RowTransition
  <2>2. CASE Shoot(c) \/ Register(c) \/ ReadDestinations(c)
    BY <2>2 DEF Shoot, Register, ReadDestinations, RowTransition
  <2> QED
    BY <1>1, <2>1, <2>2 DEF Capture
<1>2. CASE Operator
  <2>1. ASSUME NEW S \in SUBSET Photos, RequeueFailed(S)
        PROVE  RowTransition(r)
    BY <2>1 DEF RequeueFailed, Requeueable, RowTransition, TypeOK
  <2>2. ASSUME NEW p \in Photos, NEW how \in {"deleted", "swept"}, Delete(p, how)
        PROVE  RowTransition(r)
    BY <2>2 DEF Delete, RowTransition, TypeOK
  <2>3. ASSUME \/ \E d \in Dests : \/ \E enabled \in BOOLEAN : CreateDestination(d, enabled)
                                   \/ ToggleDestination(d) \/ DeleteDestination(d)
               \/ \E j \in Jobs : SetKeepLocal(j)
        PROVE  RowTransition(r)
    BY <2>3 DEF CreateDestination, ToggleDestination, DeleteDestination, SetKeepLocal,
       RowTransition
  <2>4. \A p \in Photos : {p} \in SUBSET Photos
    OBVIOUS
  <2> QED
    BY <1>2, <2>1, <2>2, <2>3, <2>4 DEF Operator, DeletePhoto, SweepPhoto
<1>3. CASE QueueStart
  BY <1>3 DEF QueueStart, RecoverInFlight, RowTransition
<1>4. CASE RescueEnqueue
  <2>1. PICK p \in rescue.left : Enqueue(p, {rescue.dest}, "rescue")
    BY <1>4 DEF RescueEnqueue
  <2>2. \A q \in Rows : q.photo = p /\ q.dest = rescue.dest /\ q.via = "rescue"
          => state[q] = "absent"
    BY <1>4 DEF RescueEnqueue, RescueInv
  <2> QED
    BY <2>1, <2>2, EnqueueStates DEF RowTransition
<1>5. CASE Boot \/ Crash \/ RescueRead \/ (\E q \in Rows : BackoffElapses(q)) \/ UNCHANGED vars
  BY <1>5 DEF Boot, Crash, RescueRead, BackoffElapses, vars, RowTransition
<1> QED
  BY <1>1, <1>2, <1>3, <1>4, <1>5

LEMMA RowTransitions ==
  ASSUME OwnershipInv, [Next]_vars
  PROVE  \A r \in Rows : RowTransition(r)
  BY RowTransitionThread, RowTransitionOther DEF Next

\* What a destination was sent is never forgotten.
LEMMA ReceivedGrows ==
  ASSUME [Next]_vars
  PROVE  received \subseteq received'
  BY DEF Next, vars, Boot, QueueStart, Crash, Capture, Shoot, Register, ReadDestinations,
     EnqueueCapture, RescueRead, RescueEnqueue, Operator, CreateDestination,
     ToggleDestination, DeleteDestination, SetKeepLocal, RequeueFailed, DeletePhoto,
     SweepPhoto, Delete, Claim, ClaimRow, Handle, Lookup, GiveUp, Upload, MarkOk,
     CheckKeepLocal, CheckKinds, RemoveLocal, NoteOutcome, MarkRetry, Fault, BackoffElapses

\* A row marked ok was received in full by its destination, whatever crash,
\* deletion or requeue the upload raced.
THEOREM OkRowsAreReceived == SafetySpec => []OkIsReceived
<1>1. Init => OkIsReceived
  BY DEF Init, OkIsReceived
<1>2. OkIsReceived /\ OwnershipInv /\ [Next]_vars => OkIsReceived'
  BY RowTransitions, ReceivedGrows DEF OkIsReceived, RowTransition
<1> QED
  BY <1>1, <1>2, OwnershipCorrect, PTL DEF SafetySpec

\* An uploaded row is never reopened: not by a stale worker, a requeue, a
\* late enqueue or the recovery at boot; it leaves only with its photo.
THEOREM OkRowsAreFinal == SafetySpec => OkIsFinal
<1>1. OwnershipInv /\ [Next]_vars =>
        [\A r \in Rows : state[r] = "ok" => state'[r] \in {"ok", "absent"}]_vars
  BY RowTransitions DEF RowTransition
<1> QED
  BY <1>1, OwnershipCorrect, PTL DEF SafetySpec, OkIsFinal

(***************************************************************************)
(* No row is stranded: what is in_flight is held by a thread.              *)
(***************************************************************************)
HeldBySome(r) == \E t \in Threads : pc[t] \in Holding /\ held[t] = r

FaultBudget == budget["fault"] <= MaxFaults

HeldInv == FaultBudget /\ InFlightIsHeld

\* Outside the threads no step makes a row in_flight or takes one from its
\* thread; only a crash does, and then the queue is down.
LEMMA InFlightOther ==
  ASSUME TypeOK,
         \/ \E c \in Capturers : Capture(c)
         \/ Operator
         \/ RescueRead \/ RescueEnqueue
         \/ \E q \in Rows : BackoffElapses(q)
         \/ UNCHANGED vars
  PROVE  /\ UNCHANGED <<phase, pc, held>> /\ budget'["fault"] = budget["fault"]
         /\ \A r \in Rows : state'[r] = "in_flight" => state[r] = "in_flight"
<1> DEFINE Kept == /\ UNCHANGED <<phase, pc, held>> /\ budget'["fault"] = budget["fault"]
                   /\ \A r \in Rows : state'[r] = "in_flight" => state[r] = "in_flight"
<1> USE DEF queueVars, threadVars, Spend, TypeOK, Upsets
<1>1. ASSUME NEW c \in Capturers, Capture(c)
      PROVE  Kept
  <2>1. CASE EnqueueCapture(c)
    BY <2>1, EnqueueStates DEF EnqueueCapture
  <2>2. CASE Shoot(c) \/ Register(c) \/ ReadDestinations(c)
    BY <2>2 DEF Shoot, Register, ReadDestinations
  <2> QED
    BY <1>1, <2>1, <2>2 DEF Capture
<1>2. ASSUME NEW S \in SUBSET Photos, RequeueFailed(S)
      PROVE  Kept
  BY <1>2 DEF RequeueFailed
<1>3. ASSUME NEW p \in Photos, DeletePhoto(p) \/ SweepPhoto(p)
      PROVE  Kept
  BY <1>3 DEF DeletePhoto, SweepPhoto, Delete
<1>4. ASSUME \/ \E d \in Dests : \/ \E enabled \in BOOLEAN : CreateDestination(d, enabled)
                                 \/ ToggleDestination(d) \/ DeleteDestination(d)
             \/ \E j \in Jobs : SetKeepLocal(j)
      PROVE  Kept
  BY <1>4 DEF CreateDestination, ToggleDestination, DeleteDestination, SetKeepLocal
<1>5. CASE RescueEnqueue
  <2>1. PICK p \in rescue.left : Enqueue(p, {rescue.dest}, "rescue")
    BY <1>5 DEF RescueEnqueue
  <2> QED
    BY <1>5, <2>1, EnqueueStates DEF RescueEnqueue
<1>6. CASE RescueRead \/ (\E q \in Rows : BackoffElapses(q)) \/ UNCHANGED vars
  BY <1>6 DEF RescueRead, BackoffElapses, vars
<1>7. \A p \in Photos : {p} \in SUBSET Photos
  OBVIOUS
<1> QED
  BY <1>1, <1>2, <1>3, <1>4, <1>5, <1>6, <1>7 DEF Operator

\* A thread's step makes in_flight only the row it claims, and lets go of a
\* row only by settling it, or by a fault.
LEMMA InFlightThread ==
  ASSUME TypeOK, NEW t \in Threads, Claim(t) \/ Handle(t),
         \A r \in Rows : state[r] = "in_flight" => HeldBySome(r)
  PROVE  \A r \in Rows : state'[r] = "in_flight" => HeldBySome(r)'
<1> SUFFICES ASSUME NEW r \in Rows, state'[r] = "in_flight"
             PROVE  HeldBySome(r)'
  OBVIOUS
<1> USE DEF TypeOK, Goto, Release, SetState, Holding, HeldBySome
<1>1. CASE Claim(t)
  <2>1. PICK q \in Rows : ClaimRow(t, q)
    BY <1>1 DEF Claim
  <2>2. CASE q = r
    BY <2>1, <2>2 DEF ClaimRow
  <2>3. CASE q # r
    <3>1. PICK u \in Threads : pc[u] \in Holding /\ held[u] = r
      BY <2>1, <2>3 DEF ClaimRow, MarkInFlight
    <3>2. u # t
      BY <2>1, <3>1 DEF ClaimRow
    <3> QED
      BY <2>1, <3>1, <3>2 DEF ClaimRow
  <2> QED
    BY <2>2, <2>3
<1>2. ASSUME \A u \in Threads \ {t} : pc'[u] = pc[u] /\ held'[u] = held[u],
             state[r] = "in_flight",
             \/ pc[t] \notin Holding
             \/ held[t] # r
             \/ pc'[t] \in Holding /\ held'[t] = held[t]
      PROVE  HeldBySome(r)'
  <2>1. PICK u \in Threads : pc[u] \in Holding /\ held[u] = r
    BY <1>2
  <2> QED
    BY <1>2, <2>1
<1>3. CASE Lookup(t)
  BY <1>2, <1>3 DEF Lookup, queueVars
<1>4. CASE Upload(t)
  BY <1>2, <1>4 DEF Upload, queueVars
<1>5. CASE GiveUp(t)
  BY <1>2, <1>5 DEF GiveUp
<1>6. CASE MarkOk(t)
  BY <1>2, <1>6 DEF MarkOk
<1>7. CASE MarkRetry(t)
  BY <1>2, <1>7 DEF MarkRetry
<1>8. CASE CheckKeepLocal(t) \/ CheckKinds(t) \/ RemoveLocal(t) \/ NoteOutcome(t)
  BY <1>2, <1>8 DEF CheckKeepLocal, CheckKinds, RemoveLocal, NoteOutcome, queueVars
<1> QED
  BY <1>1, <1>3, <1>4, <1>5, <1>6, <1>7, <1>8 DEF Handle

\* As long as no statement has failed, every in_flight row of a running queue
\* has its thread: the recovery at start clears what a crash left, and no
\* step of the threads, the captures or the operator strands a row.
THEOREM NoRowIsStranded == SafetySpec => []InFlightIsHeld
<1>1. Init => HeldInv
  BY ConstantsAssumption DEF Init, HeldInv, FaultBudget, InFlightIsHeld, Upsets
<1>2. TypeOK /\ HeldInv /\ [Next]_vars => HeldInv'
  <2> SUFFICES ASSUME TypeOK, HeldInv, [Next]_vars
               PROVE  HeldInv'
    OBVIOUS
  <2> USE ConstantsAssumption DEF HeldInv, FaultBudget
  <2>1. CASE \/ \E c \in Capturers : Capture(c)
             \/ Operator
             \/ RescueRead \/ RescueEnqueue
             \/ \E q \in Rows : BackoffElapses(q)
             \/ UNCHANGED vars
    BY <2>1, InFlightOther DEF InFlightIsHeld
  <2>2. CASE Boot
    BY <2>2 DEF Boot, InFlightIsHeld
  <2>3. CASE QueueStart
    <3>1. \A r \in Rows : state'[r] # "in_flight"
      BY <2>3 DEF QueueStart, RecoverInFlight
    <3> QED
      BY <2>3, <3>1 DEF QueueStart, InFlightIsHeld
  <2>4. CASE Crash
    <3>1. budget'["fault"] = budget["fault"] /\ phase' = "down"
      BY <2>4 DEF Crash, Spend, TypeOK, Upsets
    <3> QED
      BY <3>1 DEF InFlightIsHeld
  <2>5. ASSUME NEW t \in Threads, Claim(t) \/ Handle(t)
        PROVE  HeldInv'
    <3>1. UNCHANGED <<phase, budget>>
      BY <2>5 DEF Claim, ClaimRow, Handle, Lookup, GiveUp, Upload, MarkOk, MarkRetry,
         CheckKeepLocal, CheckKinds, RemoveLocal, NoteOutcome
    <3>2. CASE phase = "up" /\ budget["fault"] = MaxFaults
      BY <2>5, <3>1, <3>2, InFlightThread DEF InFlightIsHeld, HeldBySome
    <3> QED
      BY <3>1, <3>2 DEF InFlightIsHeld
  <2>6. ASSUME NEW t \in Threads, Fault(t)
        PROVE  HeldInv'
    <3>1. /\ budget["fault"] \in Nat /\ budget["fault"] > 0
          /\ budget'["fault"] = budget["fault"] - 1
      BY <2>6 DEF Fault, Spend, TypeOK, Upsets
    <3>2. budget'["fault"] # MaxFaults /\ budget'["fault"] <= MaxFaults
      BY <3>1
    <3> QED
      BY <3>2 DEF InFlightIsHeld
  <2> QED
    BY <2>1, <2>2, <2>3, <2>4, <2>5, <2>6 DEF Next
<1>3. HeldInv => InFlightIsHeld
  BY DEF HeldInv
<1> QED
  BY <1>1, <1>2, <1>3, TypeCorrect, PTL DEF SafetySpec

(***************************************************************************)
(* upload_state agrees with the queue rows.                                *)
(***************************************************************************)
\* A step that leaves the photos alone, settles no row as ok and takes none
\* away keeps the agreement, whatever else it does to the rows.
LEMMA StateTracksFrame ==
  ASSUME UploadStateTracksRows, UNCHANGED photos,
         \A r \in Rows : /\ state'[r] = "ok" <=> state[r] = "ok"
                         /\ state[r] # "absent" => state'[r] # "absent"
  PROVE  UploadStateTracksRows'
<1> SUFFICES ASSUME NEW p \in Registered'
             PROVE  /\ RowsOf(p)' # {} /\ (\A r \in RowsOf(p)' : state'[r] = "ok")
                         => photos'[p] = "done"
                    /\ photos'[p] = "done" => \E r \in RowsOf(p)' : state'[r] = "ok"
  BY DEF UploadStateTracksRows
<1>1. p \in Registered
  BY DEF Registered
<1>2. ASSUME RowsOf(p)' # {}, \A r \in RowsOf(p)' : state'[r] = "ok"
      PROVE  photos'[p] = "done"
  <2>1. \A r \in RowsOf(p)' : r \in RowsOf(p)
    BY <1>2 DEF RowsOf
  <2>2. \A r \in RowsOf(p) : state[r] = "ok"
    BY <1>2 DEF RowsOf
  <2> QED
    BY <1>1, <1>2, <2>1, <2>2 DEF UploadStateTracksRows
<1>3. ASSUME photos'[p] = "done"
      PROVE  \E r \in RowsOf(p)' : state'[r] = "ok"
  <2>1. PICK r \in RowsOf(p) : state[r] = "ok"
    BY <1>1, <1>3 DEF UploadStateTracksRows
  <2> QED
    BY <2>1 DEF RowsOf
<1> QED
  BY <1>2, <1>3

\* The upload that settles a row settles the photo exactly when no other row
\* of the photo is left to do.
LEMMA StateTracksMarkOk ==
  ASSUME OwnershipInv, UploadStateTracksRows, NEW t \in Threads, MarkOk(t)
  PROVE  UploadStateTracksRows'
<1> DEFINE r == held[t]  p == held[t].photo
<1> USE DEF OwnershipInv, TypeOK
<1>1. /\ pc[t] = "sent" /\ r \in Rows /\ p \in Photos
      /\ state[r] = "in_flight" \/ (state[r] = "absent" /\ photos[p] = "gone")
  BY DEF MarkOk, ThreadInv, Holding, Resting, Rows
<1>2. /\ \A q \in Rows \ {r} : state'[q] = state[q]
      /\ state[r] = "absent" => state'[r] = "absent"
      /\ state[r] # "absent" => state'[r] = "ok"
  BY <1>1 DEF MarkOk, SetState
<1>3. photos' = IF OthersOk(r) /\ p \in Registered THEN [photos EXCEPT ![p] = "done"] ELSE photos
  BY DEF MarkOk
<1>4. ASSUME NEW q \in Photos, q \in Registered'
      PROVE  /\ RowsOf(q)' # {} /\ (\A s \in RowsOf(q)' : state'[s] = "ok")
                  => photos'[q] = "done"
             /\ photos'[q] = "done" => \E s \in RowsOf(q)' : state'[s] = "ok"
  <2>1. q \in Registered
    BY <1>3, <1>4 DEF Registered
  <2>2. CASE q # p
    <3>1. photos'[q] = photos[q]
      BY <1>3, <2>2
    <3>2. \A s \in Rows : s.photo = q => state'[s] = state[s]
      BY <1>2, <2>2
    <3>3. RowsOf(q)' = RowsOf(q)
      BY <3>2 DEF RowsOf
    <3>4. \A s \in RowsOf(q) : state'[s] = state[s]
      BY <3>2 DEF RowsOf
    <3> QED
      BY <2>1, <3>1, <3>3, <3>4 DEF UploadStateTracksRows
  <2>3. CASE q = p
    <3>1. state[r] = "in_flight" /\ state'[r] = "ok" /\ r \in RowsOf(q)'
      BY <1>1, <1>2, <2>1, <2>3 DEF Registered, RowsOf
    <3>2. ASSUME \A s \in RowsOf(q)' : state'[s] = "ok"
          PROVE  photos'[q] = "done"
      <4>1. OthersOk(r)
        BY <1>2, <2>3, <3>2 DEF OthersOk, RowsOf
      <4> QED
        BY <1>3, <2>1, <2>3, <4>1
    <3> QED
      BY <3>1, <3>2
  <2> QED
    BY <2>2, <2>3
<1> QED
  BY <1>4 DEF UploadStateTracksRows, Registered

LEMMA StateTracksCapture ==
  ASSUME OwnershipInv, UploadStateTracksRows, NEW c \in Capturers, Capture(c)
  PROVE  UploadStateTracksRows'
<1> USE DEF OwnershipInv, TypeOK, queueVars, photoVars
<1>1. CASE Shoot(c) \/ ReadDestinations(c)
  BY <1>1, StateTracksFrame DEF Shoot, ReadDestinations
<1>2. CASE EnqueueCapture(c)
  <2>1. \A r \in Rows : state'[r] = state[r] \/ (state[r] = "absent" /\ state'[r] = "pending")
    BY <1>2, EnqueueStates DEF EnqueueCapture, CaptureInv
  <2> QED
    BY <1>2, <2>1, StateTracksFrame DEF EnqueueCapture
<1>3. CASE Register(c)
  <2>1. PICK p \in Photos : /\ photos[p] = "none" /\ photos' = [photos EXCEPT ![p] = "pending"]
                            /\ UNCHANGED state
    BY <1>3 DEF Register, CaptureInv
  <2>2. RowsOf(p)' = {}
    <3>1. \A r \in Rows : r.photo = p => state[r] = "absent"
      BY <2>1 DEF CaptureInv, Registered
    <3> QED
      BY <2>1, <3>1 DEF RowsOf
  <2>3. \A q \in Registered' : q = p \/ (q \in Registered /\ photos'[q] = photos[q])
    BY <2>1 DEF Registered
  <2>4. photos'[p] = "pending" /\ \A q \in Photos : RowsOf(q)' = RowsOf(q)
    BY <2>1 DEF RowsOf
  <2>5. ASSUME NEW q \in Registered'
        PROVE  /\ RowsOf(q)' # {} /\ (\A r \in RowsOf(q)' : state'[r] = "ok")
                    => photos'[q] = "done"
               /\ photos'[q] = "done" => \E r \in RowsOf(q)' : state'[r] = "ok"
    <3>1. CASE q = p
      BY <2>2, <2>4, <3>1
    <3>2. CASE q # p
      <4>1. q \in Registered /\ q \in Photos /\ photos'[q] = photos[q]
        BY <2>3, <3>2 DEF Registered
      <4> QED
        BY <2>1, <2>4, <4>1 DEF UploadStateTracksRows
    <3> QED
      BY <3>1, <3>2
  <2> QED
    BY <2>5 DEF UploadStateTracksRows
<1> QED
  BY <1>1, <1>2, <1>3 DEF Capture

LEMMA StateTracksOperator ==
  ASSUME OwnershipInv, UploadStateTracksRows, Operator
  PROVE  UploadStateTracksRows'
<1> USE DEF OwnershipInv, TypeOK, queueVars, photoVars
<1>1. ASSUME NEW S \in SUBSET Photos, RequeueFailed(S)
      PROVE  UploadStateTracksRows'
  <2>1. \A r \in Rows : state'[r] = state[r]
                        \/ (state[r] \in {"failed", "failed_permanent"} /\ state'[r] = "pending")
    BY <1>1 DEF RequeueFailed, Requeueable
  <2> QED
    BY <1>1, <2>1, StateTracksFrame DEF RequeueFailed
<1>2. ASSUME NEW p \in Photos, NEW how \in {"deleted", "swept"}, Delete(p, how)
      PROVE  UploadStateTracksRows'
  <2>1. /\ \A q \in Registered' : q # p /\ q \in Registered /\ photos'[q] = photos[q]
        /\ \A r \in Rows : r.photo # p => state'[r] = state[r]
    BY <1>2 DEF Delete, Registered
  <2>2. \A q \in Registered' : /\ RowsOf(q)' = RowsOf(q)
                               /\ \A r \in RowsOf(q) : state'[r] = state[r]
    BY <2>1 DEF RowsOf
  <2> QED
    BY <2>1, <2>2 DEF UploadStateTracksRows
<1>3. ASSUME \/ \E d \in Dests : \/ \E enabled \in BOOLEAN : CreateDestination(d, enabled)
                                 \/ ToggleDestination(d) \/ DeleteDestination(d)
             \/ \E j \in Jobs : SetKeepLocal(j)
      PROVE  UploadStateTracksRows'
  BY <1>3, StateTracksFrame
     DEF CreateDestination, ToggleDestination, DeleteDestination, SetKeepLocal
<1>4. \A p \in Photos : {p} \in SUBSET Photos
  OBVIOUS
<1> QED
  BY <1>1, <1>2, <1>3, <1>4 DEF Operator, DeletePhoto, SweepPhoto

LEMMA StateTracksThread ==
  ASSUME OwnershipInv, UploadStateTracksRows, NEW t \in Threads,
         Claim(t) \/ Handle(t) \/ Fault(t)
  PROVE  UploadStateTracksRows'
<1> USE DEF OwnershipInv, TypeOK, queueVars, photoVars
<1>1. CASE Claim(t)
  BY <1>1, StateTracksFrame DEF Claim, ClaimRow, MarkInFlight, Due
<1>2. CASE GiveUp(t)
  <2>1. state[held[t]] \in {"in_flight", "absent"}
    BY <1>2 DEF GiveUp, ThreadInv, Holding
  <2> QED
    BY <1>2, <2>1, StateTracksFrame DEF GiveUp, SetState
<1>3. CASE MarkRetry(t)
  <2>1. state[held[t]] \in {"in_flight", "absent"}
    BY <1>3 DEF MarkRetry, ThreadInv, Holding
  <2>2. \A r \in Rows : \/ state'[r] = state[r]
                        \/ r = held[t] /\ state[r] # "absent"
                           /\ state'[r] \in {"failed", "failed_permanent"}
    BY <1>3 DEF MarkRetry, SetState
  <2> QED
    BY <1>3, <2>1, <2>2, StateTracksFrame DEF MarkRetry
<1>4. CASE Lookup(t) \/ Upload(t) \/ CheckKeepLocal(t) \/ CheckKinds(t) \/ RemoveLocal(t)
           \/ NoteOutcome(t) \/ Fault(t)
  BY <1>4, StateTracksFrame
     DEF Lookup, Upload, CheckKeepLocal, CheckKinds, RemoveLocal, NoteOutcome, Fault
<1> QED
  BY <1>1, <1>2, <1>3, <1>4, StateTracksMarkOk DEF Handle

LEMMA StateTracksSystem ==
  ASSUME OwnershipInv, UploadStateTracksRows,
         \/ Boot \/ QueueStart \/ Crash \/ RescueRead \/ RescueEnqueue
         \/ \E r \in Rows : BackoffElapses(r)
         \/ UNCHANGED vars
  PROVE  UploadStateTracksRows'
<1> USE DEF OwnershipInv, TypeOK, queueVars, photoVars
<1>1. CASE QueueStart
  BY <1>1, StateTracksFrame DEF QueueStart, RecoverInFlight
<1>2. CASE RescueEnqueue
  <2>1. PICK p \in rescue.left : Enqueue(p, {rescue.dest}, "rescue")
    BY <1>2 DEF RescueEnqueue
  <2>2. \A r \in Rows : state'[r] = state[r] \/ (state[r] = "absent" /\ state'[r] = "pending")
    BY <1>2, <2>1, EnqueueStates DEF RescueEnqueue, RescueInv
  <2> QED
    BY <1>2, <2>2, StateTracksFrame DEF RescueEnqueue
<1>3. CASE Boot \/ Crash \/ RescueRead \/ (\E r \in Rows : BackoffElapses(r)) \/ UNCHANGED vars
  BY <1>3, StateTracksFrame DEF Boot, Crash, RescueRead, BackoffElapses, vars
<1> QED
  BY <1>1, <1>2, <1>3

\* A photo is marked uploaded as soon as its last row is, whichever of several
\* racing workers settles it, and never without an uploaded row.
THEOREM UploadStateIsRight == SafetySpec => []UploadStateTracksRows
<1>1. Init => UploadStateTracksRows
  BY DEF Init, UploadStateTracksRows, Registered
<1>2. OwnershipInv /\ UploadStateTracksRows /\ [Next]_vars => UploadStateTracksRows'
  BY StateTracksCapture, StateTracksOperator, StateTracksThread, StateTracksSystem DEF Next
<1> QED
  BY <1>1, <1>2, OwnershipCorrect, PTL DEF SafetySpec

(***************************************************************************)
(* The keep_local clean-up leaves a copy elsewhere.                        *)
(***************************************************************************)
Stored(p) == \E d \in Storing : <<p, d>> \in received

\* The clean-up concerns registered photos of a schedule, and goes on to the
\* unlink only once a destination that keeps files was seen with an ok row;
\* a later deletion of that row or destination does not take the copy back.
CopyInv ==
  /\ \A p \in Photos : file[p] = "removed" => photos[p] # "none" /\ job[p] # NoJob /\ Stored(p)
  /\ \A t \in Threads : pc[t] \in {"cleanup", "kinds", "unlink"} =>
       photos[held[t].photo] # "none" /\ job[held[t].photo] # NoJob
  /\ \A t \in Threads : pc[t] = "unlink" => Stored(held[t].photo)

\* The photos a step registers are new; job_id is written nowhere else.
LEMMA JobsStay ==
  ASSUME OwnershipInv, [Next]_vars
  PROVE  \A p \in Photos : photos[p] # "none" => photos'[p] # "none" /\ job'[p] = job[p]
<1> USE DEF OwnershipInv, TypeOK, photoVars
<1>1. ASSUME NEW c \in Capturers, Register(c)
      PROVE  \A p \in Photos : photos[p] # "none" => photos'[p] # "none" /\ job'[p] = job[p]
  <2>1. photos[cap[c].photo] = "none"
    BY <1>1 DEF Register, CaptureInv
  <2> QED
    BY <1>1, <2>1 DEF Register
<1>2. ASSUME NEW p \in Photos, NEW how \in {"deleted", "swept"}, Delete(p, how)
      PROVE  \A q \in Photos : photos[q] # "none" => photos'[q] # "none" /\ job'[q] = job[q]
  BY <1>2 DEF Delete
<1>3. ASSUME NEW t \in Threads, MarkOk(t)
      PROVE  \A p \in Photos : photos[p] # "none" => photos'[p] # "none" /\ job'[p] = job[p]
  BY <1>3 DEF MarkOk
<1>4. CASE UNCHANGED <<photos, job>>
  BY <1>4
<1> QED
  BY <1>1, <1>2, <1>3, <1>4
     DEF Next, vars, Boot, QueueStart, Crash, Capture, Shoot, ReadDestinations,
     EnqueueCapture, RescueRead, RescueEnqueue, Operator, CreateDestination,
     ToggleDestination, DeleteDestination, SetKeepLocal, RequeueFailed, DeletePhoto,
     SweepPhoto, Claim, ClaimRow, Handle, Lookup, GiveUp, Upload,
     CheckKeepLocal, CheckKinds, RemoveLocal, NoteOutcome, MarkRetry, Fault, BackoffElapses

\* Only the unlink of a clean-up makes a file removed.
LEMMA FilesRemoved ==
  ASSUME OwnershipInv, [Next]_vars
  PROVE  \A p \in Photos : file'[p] = "removed" =>
           \/ file[p] = "removed"
           \/ \E t \in Threads : pc[t] = "unlink" /\ held[t].photo = p
<1> DEFINE Goal == \A p \in Photos : file'[p] = "removed" =>
                     \/ file[p] = "removed"
                     \/ \E t \in Threads : pc[t] = "unlink" /\ held[t].photo = p
<1> USE DEF OwnershipInv, TypeOK, photoVars
<1>1. ASSUME NEW c \in Capturers, Shoot(c)
      PROVE  Goal
  BY <1>1 DEF Shoot
<1>2. ASSUME NEW p \in Photos, NEW how \in {"deleted", "swept"}, Delete(p, how)
      PROVE  Goal
  BY <1>2 DEF Delete
<1>3. ASSUME NEW t \in Threads, RemoveLocal(t)
      PROVE  Goal
  BY <1>3 DEF RemoveLocal
<1>4. CASE UNCHANGED file
  BY <1>4
<1> QED
  BY <1>1, <1>2, <1>3, <1>4
     DEF Next, vars, Boot, QueueStart, Crash, Capture, Register, ReadDestinations,
     EnqueueCapture, RescueRead, RescueEnqueue, Operator, CreateDestination,
     ToggleDestination, DeleteDestination, SetKeepLocal, RequeueFailed, DeletePhoto,
     SweepPhoto, Claim, ClaimRow, Handle, Lookup, GiveUp, Upload, MarkOk,
     CheckKeepLocal, CheckKinds, NoteOutcome, MarkRetry, Fault, BackoffElapses

\* How a thread comes to clean up, and from there to the unlink.
LEMMA CleaningSteps ==
  ASSUME OwnershipInv, OkIsReceived, [Next]_vars, NEW t \in Threads,
         pc'[t] \in {"cleanup", "kinds", "unlink"}
  PROVE  /\ held'[t] = held[t] /\ held[t] \in Rows
         /\ \/ pc[t] \in {"cleanup", "kinds", "unlink"}
            \/ photos[held[t].photo] # "none" /\ job[held[t].photo] # NoJob
         /\ pc'[t] = "unlink" => pc[t] = "unlink" \/ Stored(held[t].photo)
<1> DEFINE Goal == /\ held'[t] = held[t] /\ held[t] \in Rows
                   /\ \/ pc[t] \in {"cleanup", "kinds", "unlink"}
                      \/ photos[held[t].photo] # "none" /\ job[held[t].photo] # NoJob
                   /\ pc'[t] = "unlink" => pc[t] = "unlink" \/ Stored(held[t].photo)
<1> USE DEF OwnershipInv, TypeOK, Holding, Noting, Resting, threadVars
<1>1. CASE pc'[t] = pc[t] /\ held'[t] = held[t]
  BY <1>1
<1>2. CASE MarkOk(t)
  BY <1>2 DEF MarkOk, Goto, Registered
<1>3. CASE CheckKeepLocal(t)
  BY <1>3 DEF CheckKeepLocal, Goto
<1>4. CASE CheckKinds(t)
  <2>1. held[t] \in Rows /\ pc[t] = "kinds" /\ held'[t] = held[t]
    BY <1>4 DEF CheckKinds, Goto
  <2>2. ASSUME StoredElsewhere(held[t].photo)
        PROVE  Stored(held[t].photo)
    BY <2>2 DEF StoredElsewhere, OkDests, RowsOf, Stored, OkIsReceived
  <2> QED
    BY <1>4, <2>1, <2>2 DEF CheckKinds, Goto
<1>5. ASSUME NEW u \in Threads, u # t, Claim(u) \/ Handle(u) \/ Fault(u)
      PROVE  pc'[t] = pc[t] /\ held'[t] = held[t]
  BY <1>5 DEF Claim, ClaimRow, Handle, Lookup, GiveUp, Upload, MarkOk, MarkRetry,
     CheckKeepLocal, CheckKinds, RemoveLocal, NoteOutcome, Fault, Goto, Release
<1>6. CASE Claim(t) \/ Lookup(t) \/ GiveUp(t) \/ Upload(t) \/ MarkRetry(t) \/ RemoveLocal(t)
           \/ NoteOutcome(t) \/ Fault(t)
  BY <1>6 DEF Claim, ClaimRow, Lookup, GiveUp, Upload, MarkRetry, RemoveLocal, NoteOutcome,
     Fault, Goto, Release
<1>7. CASE QueueStart \/ Crash
  BY <1>7 DEF QueueStart, Crash
<1>8. CASE UNCHANGED <<pc, held>>
  BY <1>8
<1>9. CASE \E u \in Threads : Claim(u) \/ Handle(u) \/ Fault(u)
  BY <1>1, <1>2, <1>3, <1>4, <1>5, <1>6, <1>9 DEF Handle
<1> QED
  BY <1>7, <1>8, <1>9
     DEF Next, vars, Boot, Capture, Shoot, Register, ReadDestinations, EnqueueCapture,
     RescueRead, RescueEnqueue, Operator, CreateDestination, ToggleDestination,
     DeleteDestination, SetKeepLocal, RequeueFailed, DeletePhoto, SweepPhoto, Delete,
     BackoffElapses

\* The keep_local clean-up removes a file only of a schedule's photo that some
\* destination of a file-keeping kind has received.
THEOREM LocalCopiesAreSafe == SafetySpec => []LocalCopySafe
<1>1. Init => CopyInv
  BY DEF Init, CopyInv
<1>2. OwnershipInv /\ OkIsReceived /\ CopyInv /\ [Next]_vars => CopyInv'
  <2> SUFFICES ASSUME OwnershipInv, OkIsReceived, CopyInv, [Next]_vars
               PROVE  CopyInv'
    OBVIOUS
  <2>1. \A p \in Photos : Stored(p) => Stored(p)'
    BY ReceivedGrows DEF Stored
  <2>2. \A p \in Photos : file'[p] = "removed" =>
           photos'[p] # "none" /\ job'[p] # NoJob /\ Stored(p)'
    BY <2>1, FilesRemoved, JobsStay DEF CopyInv
  <2>3. ASSUME NEW t \in Threads, pc'[t] \in {"cleanup", "kinds", "unlink"}
        PROVE  /\ photos'[held'[t].photo] # "none" /\ job'[held'[t].photo] # NoJob
               /\ pc'[t] = "unlink" => Stored(held[t].photo)'
    <3>1. held'[t] = held[t] /\ held[t].photo \in Photos
      BY <2>3, CleaningSteps DEF Rows
    <3>2. photos[held[t].photo] # "none" /\ job[held[t].photo] # NoJob
      BY <2>3, CleaningSteps DEF CopyInv
    <3>3. pc'[t] = "unlink" => Stored(held[t].photo)
      BY <2>3, CleaningSteps DEF CopyInv
    <3>4. Stored(held[t].photo) => Stored(held[t].photo)'
      BY <3>1, ReceivedGrows DEF Stored
    <3> QED
      BY <3>1, <3>2, <3>3, <3>4, JobsStay
  <2> QED
    BY <2>2, <2>3 DEF CopyInv
<1>3. CopyInv => LocalCopySafe
  BY DEF CopyInv, LocalCopySafe, Stored
<1> QED
  BY <1>1, <1>2, <1>3, OwnershipCorrect, OkRowsAreReceived, PTL DEF SafetySpec

(***************************************************************************)
(* The refinement: every step of the queue is a step of the ledger, or     *)
(* changes nothing there.                                                  *)
(***************************************************************************)
LedgerStep == Ledger!Next \/ UNCHANGED Ledger!vars

\* The ledger's status of a row in a given state; rows are only absent when
\* their photo is gone, so the two parts of LedgerStatus do not overlap.
StatusOf(s, gone) ==
  CASE s = "absent" -> IF gone THEN "withdrawn" ELSE "none"
    [] s = "ok" -> "delivered"
    [] s = "failed_permanent" -> "abandoned"
    [] OTHER -> "owed"

LEMMA Statuses ==
  ASSUME OwnershipInv, OwnershipInv', NEW r \in Rows
  PROVE  /\ LedgerStatus(r) = StatusOf(state[r], photos[r.photo] = "gone")
         /\ LedgerStatus(r)' = StatusOf(state'[r], photos'[r.photo] = "gone")
<1>1. /\ state[r] \in {"absent", "pending", "in_flight", "failed", "ok", "failed_permanent"}
      /\ state[r] # "absent" => photos[r.photo] # "gone"
  BY DEF OwnershipInv, TypeOK, CaptureInv, Registered
<1>2. /\ state'[r] \in {"absent", "pending", "in_flight", "failed", "ok", "failed_permanent"}
      /\ state'[r] # "absent" => photos'[r.photo] # "gone"
  BY DEF OwnershipInv, TypeOK, CaptureInv, Registered
<1>3. LedgerStatus(r) = StatusOf(state[r], photos[r.photo] = "gone")
  BY <1>1 DEF LedgerStatus, StatusOf, Open
<1>4. LedgerStatus(r)' = StatusOf(state'[r], photos'[r.photo] = "gone")
  BY <1>2 DEF LedgerStatus, StatusOf, Open
<1> QED
  BY <1>3, <1>4

\* A step the ledger does not see.
LEMMA LedgerStutters ==
  ASSUME OwnershipInv, OwnershipInv', UNCHANGED received,
         \A p \in Photos : photos'[p] = photos[p] \/ {photos[p], photos'[p]} = {"none", "pending"},
         \A r \in Rows : \/ state'[r] = state[r]
                         \/ {state[r], state'[r]} \subseteq {"pending", "in_flight", "failed"}
  PROVE  UNCHANGED Ledger!vars
<1>1. \A p \in Photos : /\ photos'[p] = "gone" <=> photos[p] = "gone"
                        /\ photos'[p] = "done" <=> photos[p] = "done"
  OBVIOUS
<1>2. \A r \in Rows : LedgerStatus(r)' = LedgerStatus(r)
  <2> SUFFICES ASSUME NEW r \in Rows
               PROVE  LedgerStatus(r)' = LedgerStatus(r)
    OBVIOUS
  <2>1. r.photo \in Photos
    BY DEF Rows
  <2> QED
    BY <1>1, <2>1, Statuses DEF StatusOf
<1>3. [r \in Rows |-> LedgerStatus(r)]' = [r \in Rows |-> LedgerStatus(r)]
  BY <1>2
<1>4. {p \in Photos : photos[p] = "done"}' = {p \in Photos : photos[p] = "done"}
  BY <1>1
<1> QED
  BY <1>3, <1>4 DEF Ledger!vars

\* enqueue() and the requeue enter rows in the ledger, again or for the first
\* time.
LEMMA LedgerOwes ==
  ASSUME OwnershipInv, OwnershipInv', UNCHANGED <<received, photos>>,
         \A r \in Rows : \/ state'[r] = state[r]
                         \/ /\ r.photo \in Registered /\ state'[r] = "pending"
                            /\ state[r] \in {"absent", "failed", "failed_permanent"}
  PROVE  LedgerStep
<1> DEFINE S == {r \in Rows : state'[r] # state[r]}
<1>1. \A r \in S : /\ r \in Rows /\ LedgerStatus(r) \in {"none", "abandoned", "owed"}
                   /\ LedgerStatus(r)' = "owed"
  BY Statuses DEF StatusOf, Registered
<1>2. \A r \in Rows \ S : LedgerStatus(r)' = LedgerStatus(r)
  BY Statuses DEF StatusOf
<1> HIDE DEF S
<1>3. Ledger!Owe(S)
  BY <1>1, <1>2 DEF Ledger!Owe
<1>4. S \in SUBSET Rows
  BY DEF S
<1> QED
  BY <1>3, <1>4 DEF LedgerStep, Ledger!Next

\* One row is given up.
LEMMA LedgerAbandons ==
  ASSUME OwnershipInv, OwnershipInv', UNCHANGED <<received, photos>>, NEW i \in Rows,
         state[i] = "in_flight", state'[i] = "failed_permanent",
         \A r \in Rows \ {i} : state'[r] = state[r]
  PROVE  LedgerStep
<1>1. LedgerStatus(i) = "owed" /\ LedgerStatus(i)' = "abandoned"
  BY Statuses DEF StatusOf
<1>2. \A r \in Rows \ {i} : LedgerStatus(r)' = LedgerStatus(r)
  BY Statuses DEF StatusOf
<1>3. Ledger!Abandon(i)
  BY <1>1, <1>2 DEF Ledger!Abandon
<1> QED
  BY <1>3 DEF LedgerStep, Ledger!Next

LEMMA LedgerDelivers ==
  ASSUME OwnershipInv, OwnershipInv', NEW t \in Threads, MarkOk(t)
  PROVE  LedgerStep
<1> DEFINE p == held[t].photo
<1>1. PICK r \in Rows : r = held[t]
  BY DEF MarkOk, OwnershipInv, TypeOK, Resting
<1>2. /\ p = r.photo /\ p \in Photos /\ <<r.photo, r.dest>> \in received
      /\ state[r] = "in_flight" \/ (state[r] = "absent" /\ photos[p] = "gone")
  BY <1>1 DEF MarkOk, OwnershipInv, ThreadInv, Holding, Rows
<1>3. /\ UNCHANGED received
      /\ \A q \in Rows \ {r} : state'[q] = state[q]
      /\ state[r] = "absent" => state'[r] = "absent"
      /\ state[r] # "absent" => state'[r] = "ok"
  BY <1>1 DEF MarkOk, SetState, OwnershipInv, TypeOK
<1>4. photos' = IF OthersOk(r) /\ p \in Registered THEN [photos EXCEPT ![p] = "done"] ELSE photos
  BY <1>1 DEF MarkOk
<1>5. CASE state[r] = "absent"
  <2>1. UNCHANGED photos
    BY <1>2, <1>4, <1>5 DEF Registered
  <2>2. \A q \in Rows : state'[q] = state[q]
    BY <1>3, <1>5
  <2> QED
    BY <1>3, <2>1, <2>2, LedgerStutters DEF LedgerStep
<1>6. CASE state[r] = "in_flight"
  <2>1. p \in Registered /\ photos[p] \in {"pending", "done"}
    BY <1>2, <1>6 DEF OwnershipInv, CaptureInv, Registered
  <2>2. \A q \in Photos : /\ photos'[q] = "gone" <=> photos[q] = "gone"
                          /\ photos'[q] = "done" <=> photos[q] = "done" \/ (q = p /\ OthersOk(r))
    BY <1>4, <2>1 DEF OwnershipInv, TypeOK
  <2>3. LedgerStatus(r) = "owed" /\ LedgerStatus(r)' = "delivered"
    BY <1>3, <1>6, Statuses DEF StatusOf
  <2>4. \A q \in Rows \ {r} : LedgerStatus(q)' = LedgerStatus(q)
    <3>1. \A q \in Rows : q.photo \in Photos
      BY DEF Rows
    <3> QED
      BY <1>3, <2>2, <3>1, Statuses DEF StatusOf
  <2>5. OthersOk(r) <=>
          \A j \in Ledger!Of(r.photo) \ {r} : LedgerStatus(j) \in {"none", "delivered"}
    <3>1. \A j \in Rows : j.photo = r.photo =>
             /\ state[j] \in {"absent", "ok"} <=> LedgerStatus(j) \in {"none", "delivered"}
      BY <1>2, <2>1, Statuses DEF StatusOf, OwnershipInv, TypeOK
    <3>2. OthersOk(r) <=> \A j \in Rows \ {r} : j.photo = r.photo => state[j] \in {"absent", "ok"}
      BY DEF OthersOk, RowsOf
    <3> QED
      BY <3>1, <3>2 DEF Ledger!Of
  <2> DEFINE L == [q \in Rows |-> LedgerStatus(q)]  U == {q \in Photos : photos[q] = "done"}
  <2>6. L' = [L EXCEPT ![r] = "delivered"]
    BY <2>3, <2>4
  <2>7. U' = IF OthersOk(r) THEN U \cup {r.photo} ELSE U
    BY <1>2, <2>2
  <2>8. Ledger!Deliver(r)
    <3>1. \A j \in Ledger!Of(r.photo) \ {r} : j \in Rows
      BY DEF Ledger!Of
    <3> QED
      BY <1>2, <1>3, <2>3, <2>5, <2>6, <2>7, <3>1 DEF Ledger!Deliver
  <2> QED
    BY <2>8 DEF LedgerStep, Ledger!Next
<1> QED
  BY <1>2, <1>5, <1>6

LEMMA LedgerWithdraws ==
  ASSUME OwnershipInv, OwnershipInv', NEW p \in Photos, NEW how, Delete(p, how)
  PROVE  LedgerStep
<1>1. /\ UNCHANGED received
      /\ photos' = [photos EXCEPT ![p] = "gone"]
      /\ state' = [r \in Rows |-> IF r.photo = p THEN "absent" ELSE state[r]]
      /\ photos[p] # "gone"
  BY DEF Delete, Registered
<1>2. \A r \in Rows : LedgerStatus(r)' = IF r.photo = p THEN "withdrawn" ELSE LedgerStatus(r)
  <2> SUFFICES ASSUME NEW r \in Rows
               PROVE  LedgerStatus(r)' = IF r.photo = p THEN "withdrawn" ELSE LedgerStatus(r)
    OBVIOUS
  <2>1. r.photo \in Photos
    BY DEF Rows
  <2> QED
    BY <1>1, <2>1, Statuses DEF StatusOf, OwnershipInv, TypeOK
<1>3. {q \in Photos : photos[q] = "done"}' = {q \in Photos : photos[q] = "done"} \ {p}
  BY <1>1 DEF OwnershipInv, TypeOK
<1>4. Ledger!Withdraw(p)
  BY <1>1, <1>2, <1>3 DEF Ledger!Withdraw
<1> QED
  BY <1>4 DEF LedgerStep, Ledger!Next

LEMMA LedgerReceives ==
  ASSUME OwnershipInv, OwnershipInv', NEW t \in Threads, Upload(t)
  PROVE  LedgerStep
<1>1. /\ UNCHANGED <<photos, state>> /\ held[t] \in Rows
      /\ \/ state[held[t]] = "in_flight"
         \/ state[held[t]] = "absent" /\ photos[held[t].photo] = "gone"
  BY DEF Upload, OwnershipInv, TypeOK, ThreadInv, Holding, Resting, queueVars, photoVars
<1>2. \A r \in Rows : LedgerStatus(r)' = LedgerStatus(r)
  BY <1>1, Statuses DEF StatusOf
<1>3. LedgerStatus(held[t]) \in {"owed", "withdrawn"}
  BY <1>1, Statuses DEF StatusOf
<1>4. CASE UNCHANGED received
  BY <1>1, <1>4, LedgerStutters DEF LedgerStep
<1>5. CASE received' = received \cup {<<held[t].photo, held[t].dest>>}
  <2>1. PICK i \in Rows : i = held[t]
    BY <1>1
  <2>2. Ledger!Receive(i)
    BY <1>1, <1>2, <1>3, <1>5, <2>1 DEF Ledger!Receive
  <2> QED
    BY <2>2 DEF LedgerStep, Ledger!Next
<1> QED
  BY <1>4, <1>5 DEF Upload

LEMMA LedgerThread ==
  ASSUME OwnershipInv, OwnershipInv', NEW t \in Threads, Claim(t) \/ Handle(t) \/ Fault(t)
  PROVE  LedgerStep
<1> USE DEF queueVars, photoVars
<1>1. CASE Claim(t)
  <2>1. \A r \in Rows : \/ state'[r] = state[r]
                        \/ {state[r], state'[r]} \subseteq {"pending", "in_flight", "failed"}
    BY <1>1 DEF Claim, ClaimRow, MarkInFlight, Due, OwnershipInv, TypeOK
  <2> QED
    BY <1>1, <2>1, LedgerStutters DEF Claim, ClaimRow, LedgerStep
<1>2. CASE GiveUp(t) \/ MarkRetry(t)
  <2>1. PICK i \in Rows : i = held[t]
    BY <1>2 DEF GiveUp, MarkRetry, OwnershipInv, TypeOK, Resting
  <2>2. /\ UNCHANGED <<photos, received>>
        /\ \A r \in Rows \ {i} : state'[r] = state[r]
        /\ state[i] \in {"in_flight", "absent"}
        /\ state[i] = "absent" => state'[i] = "absent"
        /\ state[i] # "absent" => state'[i] \in {"failed", "failed_permanent"}
    BY <1>2, <2>1 DEF GiveUp, MarkRetry, SetState, OwnershipInv, TypeOK, ThreadInv, Holding
  <2>3. CASE state'[i] = "failed_permanent" /\ state[i] = "in_flight"
    BY <2>2, <2>3, LedgerAbandons
  <2>4. CASE state'[i] = state[i] \/ (state'[i] = "failed" /\ state[i] = "in_flight")
    <3>1. \A r \in Rows : \/ state'[r] = state[r]
                          \/ {state[r], state'[r]} \subseteq {"pending", "in_flight", "failed"}
      BY <2>2, <2>4
    <3> QED
      BY <2>2, <3>1, LedgerStutters DEF LedgerStep
  <2> QED
    BY <2>2, <2>3, <2>4
<1>3. CASE Lookup(t) \/ CheckKeepLocal(t) \/ CheckKinds(t) \/ RemoveLocal(t)
           \/ NoteOutcome(t) \/ Fault(t)
  <2>1. UNCHANGED <<photos, state, received>>
    BY <1>3 DEF Lookup, CheckKeepLocal, CheckKinds, RemoveLocal, NoteOutcome, Fault
  <2> QED
    BY <2>1, LedgerStutters DEF LedgerStep
<1> QED
  BY <1>1, <1>2, <1>3, LedgerDelivers, LedgerReceives DEF Handle

LEMMA LedgerCapture ==
  ASSUME OwnershipInv, OwnershipInv', NEW c \in Capturers, Capture(c)
  PROVE  LedgerStep
<1> USE DEF queueVars, photoVars
<1>1. CASE Shoot(c) \/ ReadDestinations(c)
  <2>1. UNCHANGED <<photos, state, received>>
    BY <1>1 DEF Shoot, ReadDestinations
  <2> QED
    BY <2>1, LedgerStutters DEF LedgerStep
<1>2. CASE Register(c)
  <2>1. /\ UNCHANGED <<state, received>>
        /\ \A p \in Photos : photos'[p] = photos[p]
                             \/ {photos[p], photos'[p]} = {"none", "pending"}
    BY <1>2 DEF Register, OwnershipInv, TypeOK, CaptureInv
  <2> QED
    BY <2>1, LedgerStutters DEF LedgerStep
<1>3. CASE EnqueueCapture(c)
  <2>1. \A r \in Rows : \/ state'[r] = state[r]
                        \/ /\ r.photo \in Registered /\ state'[r] = "pending"
                           /\ state[r] = "absent"
    BY <1>3, EnqueueStates DEF EnqueueCapture, OwnershipInv, CaptureInv
  <2> QED
    BY <1>3, <2>1, LedgerOwes DEF EnqueueCapture
<1> QED
  BY <1>1, <1>2, <1>3 DEF Capture

LEMMA LedgerOperator ==
  ASSUME OwnershipInv, OwnershipInv', Operator
  PROVE  LedgerStep
<1> USE DEF queueVars, photoVars
<1>1. ASSUME NEW S \in SUBSET Photos, RequeueFailed(S)
      PROVE  LedgerStep
  <2>1. \A r \in Rows : \/ state'[r] = state[r]
                        \/ state[r] \in {"failed", "failed_permanent"} /\ state'[r] = "pending"
    BY <1>1 DEF RequeueFailed, Requeueable, OwnershipInv, TypeOK
  <2>2. \A r \in Rows : state[r] # "absent" => r.photo \in Registered
    BY DEF OwnershipInv, CaptureInv
  <2> QED
    BY <1>1, <2>1, <2>2, LedgerOwes DEF RequeueFailed
<1>2. ASSUME \/ \E d \in Dests : \/ \E enabled \in BOOLEAN : CreateDestination(d, enabled)
                                 \/ ToggleDestination(d) \/ DeleteDestination(d)
             \/ \E j \in Jobs : SetKeepLocal(j)
      PROVE  LedgerStep
  <2>1. UNCHANGED <<photos, state, received>>
    BY <1>2 DEF CreateDestination, ToggleDestination, DeleteDestination, SetKeepLocal
  <2> QED
    BY <2>1, LedgerStutters DEF LedgerStep
<1>3. \A p \in Photos : {p} \in SUBSET Photos
  OBVIOUS
<1> QED
  BY <1>1, <1>2, <1>3, LedgerWithdraws DEF Operator, DeletePhoto, SweepPhoto

LEMMA LedgerSystem ==
  ASSUME OwnershipInv, OwnershipInv',
         \/ Boot \/ QueueStart \/ Crash \/ RescueRead \/ RescueEnqueue
         \/ \E r \in Rows : BackoffElapses(r)
         \/ UNCHANGED vars
  PROVE  LedgerStep
<1> USE DEF queueVars, photoVars
<1>1. CASE QueueStart
  <2>1. \A r \in Rows : \/ state'[r] = state[r]
                        \/ {state[r], state'[r]} \subseteq {"pending", "in_flight", "failed"}
    BY <1>1 DEF QueueStart, RecoverInFlight
  <2> QED
    BY <1>1, <2>1, LedgerStutters DEF QueueStart, LedgerStep
<1>2. CASE RescueEnqueue
  <2>1. PICK p \in rescue.left : Enqueue(p, {rescue.dest}, "rescue")
    BY <1>2 DEF RescueEnqueue
  <2>2. \A r \in Rows : \/ state'[r] = state[r]
                        \/ /\ r.photo \in Registered /\ state'[r] = "pending"
                           /\ state[r] = "absent"
    BY <1>2, <2>1, EnqueueStates DEF RescueEnqueue, OwnershipInv, RescueInv
  <2> QED
    BY <1>2, <2>2, LedgerOwes DEF RescueEnqueue
<1>3. CASE Boot \/ Crash \/ RescueRead \/ (\E r \in Rows : BackoffElapses(r)) \/ UNCHANGED vars
  <2>1. UNCHANGED <<photos, state, received>>
    BY <1>3 DEF Boot, Crash, RescueRead, BackoffElapses, vars
  <2> QED
    BY <2>1, LedgerStutters DEF LedgerStep
<1> QED
  BY <1>1, <1>2, <1>3

LEMMA LedgerInit == Init => Ledger!Init
<1> SUFFICES ASSUME Init PROVE Ledger!Init
  OBVIOUS
<1>1. \A r \in Rows : r.photo \in Photos
  BY DEF Rows
<1>2. \A r \in Rows : LedgerStatus(r) = "none"
  BY <1>1 DEF Init, LedgerStatus, Open
<1> QED
  BY <1>2 DEF Init, Ledger!Init

\* The queue implements the ledger: with any number of photos, destinations
\* and threads, through crashes, faults and the operator's requests, nothing
\* is delivered that was not received, nothing is sent that is not owed, and
\* nothing leaves the ledger but with its photo.
THEOREM QueueImplementsLedger == SafetySpec => ImplementsLedger
<1>1. OwnershipInv /\ OwnershipInv' /\ [Next]_vars => [Ledger!Next]_(Ledger!vars)
  BY LedgerCapture, LedgerOperator, LedgerThread, LedgerSystem DEF Next, LedgerStep
<1> QED
  BY <1>1, LedgerInit, OwnershipCorrect, PTL DEF SafetySpec, ImplementsLedger, Ledger!Spec
==============================================================================
