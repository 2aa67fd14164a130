--------------------------- MODULE SchedulesProofs ----------------------------
(***************************************************************************)
(* The schedule engine, proved for any schedules, intervals and week: its  *)
(* two stores agree, a disabled schedule starts nothing, and runs keep     *)
(* their distance; the rule of the windows, in the code twice, is one.     *)
(***************************************************************************)
EXTENDS Schedules, Integers, TLAPS

JobType == [interval : 1 .. MaxInterval, left : 0 .. MaxInterval]
ApiType == {Idle} \cup [pc : {"remove", "add"}, id : Ids]
InstType == {"idle", "fired", "read", "ready", "shot"}

\* The tables are functions, which TypeOK leaves open.
Tables ==
  /\ row = [i \in Ids |-> row[i]] /\ job = [i \in Ids |-> job[i]]
  /\ inst = [i \in Ids |-> inst[i]]

Paired(i) == row[i].on => job[i] # NoJob /\ job[i].interval = row[i].interval

\* The stores agree but for the schedule a request is moving.
Agree ==
  /\ api # Idle => up
  /\ up => \A i \in Ids : (api # Idle => i # api.id) => Paired(i)
  /\ api.pc = "add" => row[api.id].on

\* What is left of the interval and what has gone since the last run make an
\* interval at least.
Spaced ==
  \A i \in Ids : job[i] # NoJob => since[i] + job[i].left >= job[i].interval

StoresInv == Tables /\ TypeOK /\ Agree /\ Spaced

-----------------------------------------------------------------------------
\* What a plan and the rows made of it look like.
LEMMA EntryType ==
  ASSUME NEW p \in Plans, NEW on \in BOOLEAN
  PROVE  /\ Entry(p, on).interval \in 1 .. MaxInterval
         /\ Entry(p, on).on = on
         /\ MaxInterval \in Nat
PROOF BY ConstantsAssumption DEF Entry

\* An enabled row has a plan's interval.
LEMMA RowType ==
  ASSUME TypeOK, NEW i \in Ids, row[i].on
  PROVE  row[i].interval \in 1 .. MaxInterval
PROOF BY EntryType DEF TypeOK, NoRow

\* A new job is due an interval from now, and is one.
LEMMA FreshType ==
  ASSUME NEW n \in 1 .. MaxInterval
  PROVE  /\ Fresh(n) \in JobType /\ Fresh(n) # NoJob
         /\ Fresh(n).interval = n /\ Fresh(n).left = n
PROOF
  <1>1. MaxInterval \in Nat
    BY ConstantsAssumption
  <1>2. Fresh(n).interval = n /\ NoJob.interval = 0 /\ n # 0
    BY <1>1 DEF Fresh, NoJob
  <1> QED BY <1>1, <1>2 DEF Fresh, JobType

\* The clock stays in the week.
LEMMA ClockType ==
  ASSUME NEW t \in Times PROVE (t + 1) % (Day * Days) \in Times
PROOF
  <1>1. Day \in Nat \ {0} /\ Days \in Nat \ {0}
    BY ConstantsAssumption
  <1>2. Day * Days \in Nat \ {0}
    BY <1>1
  <1> DEFINE w == Day * Days
  <1>3. w \in Nat /\ w > 0 /\ t \in 0 .. w - 1
    BY <1>2 DEF Times
  <1> HIDE DEF w
  <1>4. (t + 1) % w \in 0 .. w - 1
    BY <1>3
  <1> QED BY <1>4 DEF Times, w

\* No job and no request is taken for one that is.
LEMMA Absent ==
  /\ \A j \in JobType : j # NoJob
  /\ \A a \in [pc : {"remove", "add"}, id : Ids] : a # Idle /\ a.pc # "idle"
PROOF
  <1>1. ASSUME NEW j \in JobType PROVE j # NoJob
    <2>1. j.interval # 0 /\ NoJob.interval = 0
      BY ConstantsAssumption DEF JobType, NoJob
    <2> QED BY <2>1
  <1>2. ASSUME NEW a \in [pc : {"remove", "add"}, id : Ids]
        PROVE  a # Idle /\ a.pc # "idle"
    <2>1. a.pc # "idle" /\ Idle.pc = "idle"
      BY DEF Idle
    <2> QED BY <2>1
  <1> QED BY <1>1, <1>2
-----------------------------------------------------------------------------
\* At the start both stores are empty.
LEMMA InitStores == Init => StoresInv
PROOF
  <1> SUFFICES ASSUME Init PROVE StoresInv
    OBVIOUS
  <1>0. MaxInterval \in Nat \ {0}
    BY ConstantsAssumption
  <1>1. Tables
    BY DEF Init, Tables
  <1>2. TypeOK
    <2>1. since \in [Ids -> 0 .. MaxInterval]
      BY <1>0 DEF Init
    <2>2. /\ up \in BOOLEAN /\ clear \in BOOLEAN /\ camera \in BOOLEAN /\ now \in Times
          /\ strays \in [Ids -> Nat]
      BY DEF Init
    <2>3. \A i \in Ids : row[i] = NoRow /\ job[i] = NoJob /\ inst[i].pc = "idle"
      BY DEF Init, Idle
    <2>4. api = Idle
      BY DEF Init
    <2> QED BY <2>1, <2>2, <2>3, <2>4 DEF TypeOK
  <1>3. Agree
    BY DEF Init, Agree, Paired, Idle
  <1>4. Spaced
    BY DEF Init, Spaced
  <1> QED BY <1>1, <1>2, <1>3, <1>4 DEF StoresInv

\* A request writes the table; until the job store follows, its schedule is
\* the one that need not agree.
LEMMA StepWrite ==
  ASSUME StoresInv, NEW i \in Ids, NEW r, Write(i, r),
         r = NoRow \/ \E p \in Plans, on \in BOOLEAN : r = Entry(p, on)
  PROVE  StoresInv'
PROOF
  <1>1. api' = [pc |-> "remove", id |-> i] /\ api'.pc = "remove" /\ api'.id = i
    BY DEF Write
  <1>2. /\ row' = [k \in Ids |-> IF k = i THEN r ELSE row[k]]
        /\ job' = job /\ inst' = inst /\ up /\ up' = up /\ since' = since
        /\ now' = now /\ clear' = clear /\ camera' = camera /\ api = Idle
        /\ strays' \in [Ids -> Nat]
    BY DEF Write, StoresInv, Tables, TypeOK, world
  <1>3. Tables'
    BY <1>2 DEF StoresInv, Tables
  <1>4. TypeOK'
    BY <1>1, <1>2 DEF StoresInv, TypeOK
  <1>5. Agree'
    <2>1. \A k \in Ids : k # i => Paired(k)'
      BY <1>2 DEF StoresInv, Agree, Paired
    <2> QED BY <1>1, <1>2, <2>1 DEF Agree, Idle
  <1>6. Spaced'
    BY <1>2 DEF StoresInv, Spaced
  <1> QED BY <1>3, <1>4, <1>5, <1>6 DEF StoresInv

\* The job is taken out; then, if the schedule is enabled, put back.
LEMMA StepSync ==
  ASSUME StoresInv, SyncRemove \/ SyncAdd PROVE StoresInv'
PROOF
  <1>1. /\ row' = row /\ inst' = inst /\ up' = up /\ since' = since /\ strays' = strays
        /\ now' = now /\ clear' = clear /\ camera' = camera
    BY DEF SyncRemove, SyncAdd, world, history
  <1>2. api # Idle /\ api.id \in Ids /\ api.pc \in {"remove", "add"}
        /\ api \in [pc : {"remove", "add"}, id : Ids] /\ up
    BY DEF SyncRemove, SyncAdd, StoresInv, TypeOK, Idle, Agree
  <1>a. PICK id \in Ids : api.id = id
    BY <1>2
  <1>3. \A k \in Ids : k # id => Paired(k)
    BY <1>2, <1>a DEF StoresInv, Agree
  <1>4. CASE SyncRemove
    <2>1. job' = [k \in Ids |-> IF k = id THEN NoJob ELSE job[k]]
      BY <1>a, <1>2, <1>4 DEF SyncRemove, StoresInv, Tables
    <2>2. api' = IF row[id].on THEN [pc |-> "add", id |-> id] ELSE Idle
      BY <1>a, <1>2, <1>4 DEF SyncRemove
    <2>3. Tables' /\ TypeOK'
      BY <1>a, <1>1, <1>2, <2>1, <2>2 DEF StoresInv, Tables, TypeOK
    <2>4. Agree'
      <3>1. \A k \in Ids : k # id => Paired(k)'
        BY <1>1, <1>3, <2>1 DEF Paired
      <3>2. ~row[id].on => Paired(id)'
        BY <1>1 DEF Paired
      <3> QED BY <1>a, <1>1, <1>2, <2>2, <3>1, <3>2 DEF Agree, Idle
    <2>5. Spaced'
      BY <1>1, <2>1 DEF StoresInv, Spaced
    <2> QED BY <2>3, <2>4, <2>5 DEF StoresInv
  <1>5. CASE SyncAdd
    <2> DEFINE new == Fresh(row[id].interval)
    <2>1. row[id].on
      BY <1>a, <1>5 DEF SyncAdd, StoresInv, Agree
    <2>2. row[id].interval \in 1 .. MaxInterval
      BY <1>a, <1>2, <1>a, <2>1, RowType DEF StoresInv
    <2>3. /\ new \in JobType /\ new # NoJob
          /\ new.interval = row[id].interval /\ new.left = new.interval
      BY <2>2, FreshType
    <2>4. job' = [k \in Ids |-> IF k = id THEN new ELSE job[k]] /\ api' = Idle
      BY <1>a, <1>2, <1>5 DEF SyncAdd, StoresInv, Tables
    <2> HIDE DEF new
    <2>5. Tables' /\ TypeOK'
      BY <1>1, <2>3, <2>4 DEF StoresInv, Tables, TypeOK, JobType
    <2>6. Agree'
      <3>1. \A k \in Ids : Paired(k)'
        BY <1>1, <1>3, <2>3, <2>4 DEF Paired
      <3> QED BY <2>4, <3>1 DEF Agree, Idle
    <2>7. Spaced'
      <3>1. since \in [Ids -> 0 .. MaxInterval]
        BY DEF StoresInv, TypeOK
      <3>2. \A k \in Ids : k # id /\ job'[k] # NoJob =>
              since'[k] + job'[k].left >= job'[k].interval
        BY <1>1, <2>4 DEF StoresInv, Spaced
      <3>3. since'[id] + job'[id].left >= job'[id].interval
        BY <1>a, <1>1, <1>2, <2>3, <2>4, <3>1, ConstantsAssumption DEF JobType
      <3> QED BY <3>2, <3>3 DEF Spaced
    <2> QED BY <2>5, <2>6, <2>7 DEF StoresInv
  <1> QED BY <1>4, <1>5

\* A boot gives every enabled schedule a new job.
LEMMA StepBoot == ASSUME StoresInv, Boot PROVE StoresInv'
PROOF
  <1>1. /\ row' = row /\ inst' = inst /\ api' = api /\ since' = since /\ strays' = strays
        /\ now' = now /\ clear' = clear /\ camera' = camera /\ ~up /\ up' = TRUE
        /\ job' = [k \in Ids |-> Hydrated(k)]
    BY DEF Boot, world, history
  <1>2. api = Idle /\ since \in [Ids -> 0 .. MaxInterval]
    BY <1>1 DEF StoresInv, Agree, TypeOK
  <1>3. \A k \in Ids : row[k].on =>
          /\ job'[k] \in JobType /\ job'[k] # NoJob
          /\ job'[k].interval = row[k].interval /\ job'[k].left = job'[k].interval
    BY <1>1, RowType, FreshType DEF StoresInv, Hydrated
  <1>4. \A k \in Ids : ~row[k].on => job'[k] = job[k]
    BY <1>1 DEF Hydrated
  <1>5. Tables'
    BY <1>1 DEF StoresInv, Tables
  <1>6. TypeOK'
    <2>1. \A k \in Ids : job'[k] = NoJob \/ job'[k] \in JobType
      BY <1>3, <1>4 DEF StoresInv, TypeOK, JobType
    <2> QED BY <1>1, <2>1 DEF StoresInv, TypeOK, JobType
  <1>7. Agree'
    BY <1>1, <1>2, <1>3 DEF Agree, Paired, Idle
  <1>8. Spaced'
    <2> SUFFICES ASSUME NEW k \in Ids, job'[k] # NoJob
                 PROVE  since'[k] + job'[k].left >= job'[k].interval
      BY DEF Spaced
    <2>1. CASE row[k].on
      BY <1>1, <1>2, <1>3, <2>1, ConstantsAssumption DEF JobType
    <2>2. CASE ~row[k].on
      BY <1>1, <1>4, <2>2 DEF StoresInv, Spaced
    <2> QED BY <2>1, <2>2
  <1> QED BY <1>5, <1>6, <1>7, <1>8 DEF StoresInv

\* A crash takes the request along.
LEMMA StepCrash == ASSUME StoresInv, Crash PROVE StoresInv'
PROOF
  <1>1. /\ row' = row /\ job' = job /\ since' = since /\ strays' = strays
        /\ now' = now /\ clear' = clear /\ camera' = camera /\ up' = FALSE
        /\ api' = Idle /\ inst' = [k \in Ids |-> Idle]
    BY DEF Crash, world, history
  <1>2. Tables' /\ Spaced'
    BY <1>1 DEF StoresInv, Tables, Spaced
  <1>3. TypeOK'
    <2>1. \A k \in Ids : inst'[k].pc = "idle"
      BY <1>1 DEF Idle
    <2> QED BY <1>1, <2>1 DEF StoresInv, TypeOK
  <1>4. Agree'
    BY <1>1 DEF Agree, Idle
  <1> QED BY <1>2, <1>3, <1>4 DEF StoresInv

\* A run begins: its job is due in an interval, and the distance is counted
\* from now.  A run that is skipped counts from the one that still goes on.
LEMMA StepFire == ASSUME StoresInv, NEW i \in Ids, Fire(i) PROVE StoresInv'
PROOF
  <1>1. /\ row' = row /\ api' = api /\ up' = up /\ strays' = strays
        /\ now' = now /\ clear' = clear /\ camera' = camera
    BY DEF Fire, world
  <1>2. job[i] # NoJob /\ job[i] \in JobType /\ job[i].left = 0
    BY DEF Fire, Due, StoresInv, TypeOK, JobType
  <1> DEFINE next == [interval |-> job[i].interval, left |-> job[i].interval]
  <1>3. job' = [k \in Ids |-> IF k = i THEN next ELSE job[k]]
    <2>1. [job[i] EXCEPT !.left = job[i].interval] = next
      BY <1>2 DEF JobType
    <2> QED BY <2>1 DEF Fire, StoresInv, Tables
  <1>4. /\ next \in JobType /\ next # NoJob
        /\ next.interval = job[i].interval /\ next.left = job[i].interval
    <2>1. next \in JobType
      BY <1>2, ConstantsAssumption DEF JobType
    <2> QED BY <2>1, Absent
  <1> HIDE DEF next
  <1>5. Tables'
    BY <1>1, <1>3 DEF Fire, StoresInv, Tables
  <1>6. since' \in [Ids -> 0 .. MaxInterval] /\ \A k \in Ids \ {i} : since'[k] = since[k]
    BY ConstantsAssumption DEF Fire, StoresInv, TypeOK
  <1>7. \A k \in Ids : inst'[k].pc \in InstType
    BY DEF Fire, StoresInv, TypeOK, Tables, InstType
  <1>8. TypeOK'
    BY <1>1, <1>3, <1>4, <1>6, <1>7 DEF StoresInv, TypeOK, JobType, InstType
  <1>9. Agree'
    BY <1>1, <1>2, <1>3, <1>4 DEF StoresInv, Agree, Paired
  <1>10. Spaced'
    <2>1. \A k \in Ids \ {i} : job'[k] # NoJob =>
            since'[k] + job'[k].left >= job'[k].interval
      BY <1>3, <1>6 DEF StoresInv, Spaced
    <2>2. since'[i] + job'[i].left >= job'[i].interval
      BY <1>2, <1>3, <1>4, <1>6, ConstantsAssumption DEF JobType
    <2> QED BY <2>1, <2>2 DEF Spaced
  <1> QED BY <1>5, <1>8, <1>9, <1>10 DEF StoresInv

\* A run reads and decides.
LEMMA StepRun == ASSUME StoresInv, NEW i \in Ids, Run(i) PROVE StoresInv'
PROOF
  <1>1. PICK next : inst' = [inst EXCEPT ![i] = next] /\ next.pc \in InstType
    <2>1. /\ ([inst[i] EXCEPT !.pc = "ready"]).pc \in InstType \/ inst[i].pc # "read"
          /\ [pc |-> "read", plan |-> row[i]].pc \in InstType
          /\ [pc |-> "shot"].pc \in InstType /\ Idle.pc \in InstType
      BY DEF InstType, Idle
    <2>2. CASE ReadRow(i)
      <3>1. CASE Admitted(i)
        BY <2>1, <2>2, <3>1 DEF ReadRow, Step
      <3>2. CASE ~Admitted(i)
        BY <2>1, <2>2, <3>2 DEF ReadRow, Step
      <3> QED BY <3>1, <3>2
    <2>3. CASE CheckRules(i)
      BY <2>1, <2>3 DEF CheckRules, Step
    <2>4. CASE Shoot(i)
      <3>1. CASE camera /\ clear
        BY <2>1, <2>4, <3>1 DEF Shoot
      <3>2. CASE ~(camera /\ clear)
        BY <2>1, <2>4, <3>2 DEF Shoot
      <3> QED BY <3>1, <3>2
    <2>5. CASE EndRun(i)
      BY <2>1, <2>5 DEF EndRun, Step
    <2> QED BY <2>2, <2>3, <2>4, <2>5 DEF Run
  <1>2. /\ row' = row /\ job' = job /\ api' = api /\ up' = up /\ since' = since
        /\ now' = now /\ clear' = clear /\ camera' = camera
    BY DEF Run, ReadRow, CheckRules, Shoot, EndRun, Step, stores, world, history
  <1>3. inst' = [k \in Ids |-> IF k = i THEN next ELSE inst[k]]
    BY <1>1 DEF StoresInv, Tables
  <1>4. Tables' /\ Spaced'
    BY <1>2, <1>3 DEF StoresInv, Tables, Spaced
  <1>5. TypeOK'
    <2>1. \A k \in Ids : inst'[k].pc \in InstType
      BY <1>1, <1>3 DEF StoresInv, TypeOK, InstType
    <2>2. strays' \in [Ids -> Nat]
      <3>1. strays \in [Ids -> Nat]
        BY DEF StoresInv, TypeOK
      <3>2. strays' = strays \/ strays' = [strays EXCEPT ![i] = strays[i] + 1]
        BY DEF Run, ReadRow, CheckRules, Shoot, EndRun, Step, history
      <3> QED BY <3>1, <3>2
    <2> QED BY <1>2, <2>1, <2>2 DEF StoresInv, TypeOK, InstType
  <1>6. Agree'
    BY <1>2 DEF StoresInv, Agree, Paired
  <1> QED BY <1>4, <1>5, <1>6 DEF StoresInv

\* Time passes for the jobs and since their last runs alike.
LEMMA StepTick == ASSUME StoresInv, Tick PROVE StoresInv'
PROOF
  <1>1. /\ row' = row /\ inst' = inst /\ api' = api /\ up' = up /\ strays' = strays
        /\ clear' = clear /\ camera' = camera
        /\ now' = (now + 1) % (Day * Days)
    BY DEF Tick
  <1>2. now' \in Times
    BY <1>1, ClockType DEF StoresInv, TypeOK
  <1>3. \A k \in Ids : job[k] # NoJob => job[k] \in JobType
    BY DEF StoresInv, TypeOK, JobType
  <1>4. \A k \in Ids : job'[k] = IF job[k] # NoJob /\ job[k].left > 0
          THEN [interval |-> job[k].interval, left |-> job[k].left - 1] ELSE job[k]
    <2>1. \A k \in Ids : job[k] # NoJob =>
            [job[k] EXCEPT !.left = job[k].left - 1]
              = [interval |-> job[k].interval, left |-> job[k].left - 1]
      BY <1>3 DEF JobType
    <2> QED BY <2>1 DEF Tick
  <1>5. MaxInterval \in Nat /\ since \in [Ids -> 0 .. MaxInterval]
    BY ConstantsAssumption DEF StoresInv, TypeOK
  <1>6. since' \in [Ids -> 0 .. MaxInterval]
        /\ \A k \in Ids : since'[k] = IF since[k] + 1 <= MaxInterval
                                      THEN since[k] + 1 ELSE MaxInterval
    BY <1>5 DEF Tick, MinOf
  <1>7. Tables'
    BY <1>1 DEF Tick, StoresInv, Tables
  <1>8. \A k \in Ids :
          /\ job[k] = NoJob => job'[k] = NoJob
          /\ job[k] # NoJob => /\ job'[k] \in JobType /\ job'[k] # NoJob
                               /\ job'[k].interval = job[k].interval
                               /\ job'[k].left + 1 >= job[k].left
    <2> SUFFICES ASSUME NEW k \in Ids, job[k] # NoJob
                 PROVE  /\ job'[k] \in JobType /\ job'[k] # NoJob
                        /\ job'[k].interval = job[k].interval
                        /\ job'[k].left + 1 >= job[k].left
      BY <1>4
    <2>1. job'[k] \in JobType /\ job'[k].interval = job[k].interval
          /\ job'[k].left + 1 >= job[k].left
      <3>1. job[k].interval \in 1 .. MaxInterval /\ job[k].left \in 0 .. MaxInterval
            /\ job[k] \in JobType
        BY <1>3 DEF JobType
      <3>2. CASE job[k].left > 0
        <4>1. job'[k] = [interval |-> job[k].interval, left |-> job[k].left - 1]
          BY <1>4, <3>2
        <4>2. job[k].left - 1 \in 0 .. MaxInterval
          BY <1>5, <3>1, <3>2
        <4> QED BY <3>1, <4>1, <4>2 DEF JobType
      <3>3. CASE ~(job[k].left > 0)
        <4>1. job'[k] = job[k]
          BY <1>4, <3>3
        <4> QED BY <1>5, <3>1, <4>1
      <3> QED BY <3>2, <3>3
    <2> QED BY <2>1, Absent
  <1>9. TypeOK'
    BY <1>1, <1>2, <1>6, <1>8 DEF StoresInv, TypeOK, JobType
  <1>10. Agree'
    BY <1>1, <1>8 DEF StoresInv, Agree, Paired
  <1>11. Spaced'
    <2> SUFFICES ASSUME NEW k \in Ids, job'[k] # NoJob
                 PROVE  since'[k] + job'[k].left >= job'[k].interval
      BY DEF Spaced
    <2>1. job[k] # NoJob /\ since[k] + job[k].left >= job[k].interval
      BY <1>8 DEF StoresInv, Spaced
    <2>2. /\ job[k].interval \in 1 .. MaxInterval /\ job[k].left \in 0 .. MaxInterval
          /\ job'[k].left \in 0 .. MaxInterval
          /\ job'[k].interval = job[k].interval /\ job'[k].left + 1 >= job[k].left
      BY <1>3, <1>8, <2>1 DEF JobType
    <2>3. since[k] \in 0 .. MaxInterval
      BY <1>5
    <2> QED BY <1>5, <1>6, <2>1, <2>2, <2>3
  <1> QED BY <1>7, <1>9, <1>10, <1>11 DEF StoresInv

\* Trouble and its end touch neither store.
LEMMA StepWorld ==
  ASSUME StoresInv, Trouble \/ Cleared \/ ReconnectCamera PROVE StoresInv'
PROOF
  <1>1. /\ row' = row /\ job' = job /\ inst' = inst /\ api' = api /\ up' = up
        /\ now' = now /\ since' = since /\ strays' = strays
        /\ clear' \in BOOLEAN /\ camera' \in BOOLEAN
    BY DEF Trouble, Cleared, ReconnectCamera, stores, history, StoresInv, TypeOK
  <1>2. TypeOK'
    BY <1>1 DEF StoresInv, TypeOK
  <1> QED BY <1>1, <1>2 DEF StoresInv, Tables, Agree, Paired, Spaced

\* Every step keeps the invariant.
LEMMA StepStores == StoresInv /\ [Next]_vars => StoresInv'
PROOF
  <1> SUFFICES ASSUME StoresInv, [Next]_vars PROVE StoresInv'
    OBVIOUS
  <1>1. CASE SyncRemove \/ SyncAdd
    BY <1>1, StepSync
  <1>2. CASE Boot \/ Crash \/ Tick
    BY <1>2, StepBoot, StepCrash, StepTick
  <1>3. CASE Trouble \/ Cleared \/ ReconnectCamera
    BY <1>3, StepWorld
  <1>4. ASSUME NEW i \in Ids, Fire(i) \/ Run(i) PROVE StoresInv'
    BY <1>4, StepFire, StepRun
  <1>5. ASSUME NEW i \in Ids, DeleteSchedule(i) PROVE StoresInv'
    BY <1>5, StepWrite DEF DeleteSchedule
  <1>6. ASSUME NEW i \in Ids, NEW p \in Plans, NEW on \in BOOLEAN,
               CreateSchedule(i, p, on) \/ UpdateSchedule(i, p, on)
        PROVE  StoresInv'
    <2>1. Write(i, Entry(p, on))
      BY <1>6 DEF CreateSchedule, UpdateSchedule
    <2> QED BY <2>1, StepWrite
  <1>7. CASE UNCHANGED vars
    BY <1>7 DEF vars, history, StoresInv, Tables, TypeOK, Agree, Paired, Spaced
  <1> QED BY <1>1, <1>2, <1>3, <1>4, <1>5, <1>6, <1>7 DEF Next

\* The inductive invariant of the two stores, types included.
THEOREM StoresCorrect == Spec => []StoresInv
PROOF BY InitStores, StepStores, PTL DEF Spec

\* hydrate_from_db, _sync_job: a running station that serves no request has a
\* job for every enabled schedule, wherever a crash fell between the stores.
THEOREM EnabledSchedulesHaveJobs == Spec => []EnabledHasJob
PROOF
  <1>1. StoresInv => EnabledHasJob
    BY DEF StoresInv, Agree, Paired, EnabledHasJob
  <1> QED BY <1>1, StoresCorrect, PTL

\* A picture is still to come from a run that has read the row before it was
\* disabled, or has been taken by it: never both.
Quiet ==
  \A i \in Ids : /\ strays[i] <= 1
                 /\ row[i].on \/ inst[i].pc \in {"read", "ready"} => strays[i] = 0

\* What an operator writes of one schedule leaves the others as they are, and
\* counts anew if it enables that one.
LEMMA WriteQuiet ==
  ASSUME StoresInv, Quiet, NEW i \in Ids, NEW r, r.on \in BOOLEAN, Write(i, r) PROVE Quiet'
PROOF
  <1>1. strays \in [Ids -> Nat] /\ row = [k \in Ids |-> row[k]]
    BY DEF StoresInv, TypeOK, Tables
  <1>2. /\ inst' = inst /\ row' = [k \in Ids |-> IF k = i THEN r ELSE row[k]]
        /\ strays' = IF r.on THEN [strays EXCEPT ![i] = 0] ELSE strays
    BY <1>1 DEF Write
  <1>3. \A k \in Ids : strays'[k] = strays[k] \/ strays'[k] = 0
    BY <1>1, <1>2
  <1>4. r.on => strays'[i] = 0
    BY <1>1, <1>2
  <1> QED BY <1>1, <1>2, <1>3, <1>4 DEF Quiet

\* A run counts its picture as it ends being one to come.
LEMMA RunQuiet == ASSUME StoresInv, Quiet, NEW i \in Ids, Run(i) PROVE Quiet'
PROOF
  <1>1. /\ strays \in [Ids -> Nat] /\ inst = [k \in Ids |-> inst[k]]
        /\ row' = row
    BY DEF StoresInv, TypeOK, Tables, Run, ReadRow, CheckRules, Shoot, EndRun, Step, stores
  <1>2. \A k \in Ids \ {i} : strays'[k] = strays[k] /\ inst'[k] = inst[k]
    BY <1>1 DEF Run, ReadRow, CheckRules, Shoot, EndRun, Step, history
  <1>3. /\ strays'[i] <= 1
        /\ row[i].on \/ inst'[i].pc \in {"read", "ready"} => strays'[i] = 0
    <2>1. CASE ReadRow(i)
      <3>1. strays' = strays /\ (inst'[i] = Idle \/ row[i].on)
        BY <1>1, <2>1 DEF ReadRow, Step, history, Admitted
      <3> QED BY <3>1 DEF Quiet, Idle
    <2>2. CASE CheckRules(i) \/ EndRun(i)
      <3>1. strays' = strays /\ (inst'[i].pc \in {"read", "ready"} => inst[i].pc = "read")
        BY <1>1, <2>2 DEF CheckRules, EndRun, Step, history, Idle
      <3> QED BY <3>1 DEF Quiet
    <2>3. CASE Shoot(i)
      <3>1. strays[i] = 0 /\ inst'[i].pc \in {"shot", "idle"}
        BY <1>1, <2>3 DEF Shoot, Quiet, Idle
      <3>2. strays'[i] \in {0, 1} /\ (row[i].on => strays'[i] = 0)
        BY <1>1, <2>3, <3>1 DEF Shoot
      <3> QED BY <3>1, <3>2
    <2> QED BY <2>1, <2>2, <2>3 DEF Run
  <1> QED BY <1>1, <1>2, <1>3 DEF Quiet

\* Every step keeps the count.
LEMMA StepQuiet == ASSUME StoresInv, Quiet, [Next]_vars PROVE Quiet'
PROOF
  <1>1. inst = [k \in Ids |-> inst[k]]
    BY DEF StoresInv, Tables
  <1>2. CASE Crash
    BY <1>2 DEF Crash, Quiet, Idle, history
  <1>3. ASSUME NEW k \in Ids, Fire(k) PROVE Quiet'
    <2>1. /\ row' = row /\ strays' = strays
          /\ \A i \in Ids : inst'[i] = inst[i] \/ inst'[i] = [pc |-> "fired"]
      BY <1>1, <1>3 DEF Fire
    <2> QED BY <2>1 DEF Quiet
  <1>4. ASSUME NEW k \in Ids, Run(k) PROVE Quiet'
    BY <1>4, RunQuiet
  <1>5. ASSUME NEW k \in Ids, DeleteSchedule(k) PROVE Quiet'
    <2>1. NoRow.on \in BOOLEAN /\ Write(k, NoRow)
      BY <1>5 DEF DeleteSchedule, NoRow
    <2> QED BY <2>1, WriteQuiet
  <1>6. ASSUME NEW k \in Ids, NEW p \in Plans, NEW on \in BOOLEAN,
               CreateSchedule(k, p, on) \/ UpdateSchedule(k, p, on)
        PROVE  Quiet'
    BY <1>6, EntryType, WriteQuiet DEF CreateSchedule, UpdateSchedule
  <1>7. CASE UNCHANGED <<row, inst, strays>>
    BY <1>7 DEF Quiet
  <1> QED
    BY <1>2, <1>3, <1>4, <1>5, <1>6, <1>7
    DEF Next, SyncRemove, SyncAdd, Boot, Tick, Trouble, Cleared, ReconnectCamera,
        stores, history, vars

\* fire_capture: a schedule that was disabled or deleted takes at most one more
\* picture, though its job may still be in the store.
THEOREM DisabledSchedulesFallQuiet == Spec => []QuietOnceDisabled
PROOF
  <1>1. Init => Quiet
    BY DEF Init, Quiet
  <1>2. StoresInv /\ Quiet /\ [Next]_vars => Quiet'
    BY StepQuiet
  <1>3. Quiet => QuietOnceDisabled
    BY DEF Quiet, QuietOnceDisabled
  <1> QED BY <1>1, <1>2, <1>3, StoresCorrect, PTL DEF Spec

\* IntervalTrigger with one instance of a job: no edit, restart or skipped run
\* brings two runs of a schedule closer together than its job's interval.
THEOREM RunsKeepTheirDistance == Spec => RunsAreSpaced
PROOF
  <1> DEFINE Far == \A i \in Ids : inst[i] = Idle /\ inst'[i] # Idle =>
                                     since[i] >= job[i].interval
  <1>1. StoresInv /\ [Next]_vars => [Far]_vars
    <2> SUFFICES ASSUME StoresInv, Next, NEW i \in Ids, inst[i] = Idle, inst'[i] # Idle
                 PROVE  since[i] >= job[i].interval
      OBVIOUS
    <2>1. inst = [k \in Ids |-> inst[k]]
      BY DEF StoresInv, Tables
    <2>2. ~Crash
      BY DEF Crash
    <2>3. ASSUME NEW k \in Ids, Run(k) PROVE FALSE
      <3>1. inst[k].pc # "idle"
        BY <2>3 DEF Run, ReadRow, CheckRules, Shoot, EndRun
      <3>2. k # i
        BY <3>1 DEF Idle
      <3> QED BY <2>1, <2>3, <3>2 DEF Run, ReadRow, CheckRules, Shoot, EndRun, Step
    <2>4. \/ Crash \/ inst' = inst
          \/ \E k \in Ids : Fire(k) \/ Run(k)
      BY DEF Next, SyncRemove, SyncAdd, Boot, Tick, Trouble, Cleared,
             ReconnectCamera, DeleteSchedule, CreateSchedule, UpdateSchedule, Write
    <2>5. PICK k \in Ids : Fire(k)
      BY <2>2, <2>3, <2>4
    <2>6. k = i
      BY <2>1, <2>5 DEF Fire
    <2>7. job[i] # NoJob /\ job[i].left = 0 /\ job[i] \in JobType
      BY <2>5, <2>6 DEF Fire, Due, StoresInv, TypeOK, JobType
    <2>8. since[i] \in Nat
      BY ConstantsAssumption DEF StoresInv, TypeOK
    <2> QED BY <2>7, <2>8 DEF StoresInv, Spaced
  <1> QED BY <1>1, StoresCorrect, PTL DEF Spec, RunsAreSpaced

-----------------------------------------------------------------------------
(* The windows. *)

LEMMA Remainder ==
  ASSUME NEW c \in Int, 0 < c, NEW q \in Int, NEW m \in Int, 0 <= m, m < c
  PROVE  (q * c + m) % c = m
PROOF OBVIOUS

\* A remainder of less than twice the divisor.
LEMMA Around ==
  ASSUME NEW c \in Nat \ {0}, NEW x \in Nat, x < 2 * c
  PROVE  x % c = (IF x < c THEN x ELSE x - c)
PROOF
  <1>1. CASE x < c
    <2>1. (0 * c + x) % c = x
      BY <1>1, Remainder
    <2> QED BY <1>1, <2>1
  <1>2. CASE c <= x
    <2>1. x - c \in Int /\ 0 <= x - c /\ x - c < c /\ c \in Int /\ 0 < c
      BY <1>2
    <2>2. (1 * c + (x - c)) % c = x - c
      BY <2>1, Remainder
    <2>3. 1 * c + (x - c) = x
      OBVIOUS
    <2> QED BY <1>2, <2>2, <2>3
  <1> QED BY <1>1, <1>2

\* Walked from its first moment to its last, a window has the moments between
\* the two, or, over midnight, those not between the last and the first.
LEMMA WindowWalk ==
  ASSUME NEW d \in Nat \ {0}, NEW f \in 0 .. d - 1, NEW t \in 0 .. d - 1,
         NEW m \in 0 .. d - 1
  PROVE  (\E k \in 0 .. (t + d - f) % d : m = (f + k) % d)
           <=> (f <= m /\ m <= t) \/ (f > t /\ (m >= f \/ m <= t))
PROOF
  <1> DEFINE n == (t + d - f) % d
  <1>1. n = IF t + d - f < d THEN t + d - f ELSE (t + d - f) - d
    <2>1. t + d - f \in Nat /\ t + d - f < 2 * d
      OBVIOUS
    <2> QED BY <2>1, Around
  <1>2. n \in 0 .. d - 1
    BY <1>1
  <1> HIDE DEF n
  <1>3. ASSUME NEW k \in 0 .. n
        PROVE  (f + k) % d = IF f + k < d THEN f + k ELSE (f + k) - d
    <2>1. f + k \in Nat /\ f + k < 2 * d
      BY <1>2
    <2> QED BY <2>1, Around
  <1>4. ASSUME NEW k \in 0 .. n, m = (f + k) % d
        PROVE  (f <= m /\ m <= t) \/ (f > t /\ (m >= f \/ m <= t))
    <2>1. m = IF f + k < d THEN f + k ELSE (f + k) - d
      BY <1>3, <1>4
    <2> QED BY <1>1, <1>2, <2>1
  <1>5. ASSUME (f <= m /\ m <= t) \/ (f > t /\ (m >= f \/ m <= t))
        PROVE  \E k \in 0 .. n : m = (f + k) % d
    <2> DEFINE k == IF m >= f THEN m - f ELSE (m + d) - f
    <2>1. k \in 0 .. n
      BY <1>1, <1>2, <1>5
    <2>2. m = IF f + k < d THEN f + k ELSE (f + k) - d
      OBVIOUS
    <2> HIDE DEF k
    <2>3. m = (f + k) % d
      BY <1>3, <2>1, <2>2
    <2> QED BY <2>1, <2>3
  <1> QED BY <1>4, <1>5 DEF n

\* should_skip, is_within_window: the job and the camera loop decide alike, at
\* every moment of the week, and as the window says.
THEOREM WindowsAlwaysAgree == Spec => []WindowsAgree
PROOF
  <1>1. TypeOK => WindowsAgree
    <2> SUFFICES ASSUME TypeOK, NEW w \in Windows
                 PROVE  /\ IsWithinWindow(w, now) = ~OutsideWindow(w, now)
                        /\ IsWithinWindow(w, now)
                             = (InSpan(w, now) /\ (w.days = {} \/ DayOf(now) \in w.days))
      BY DEF WindowsAgree
    <2> DEFINE m == MinuteOf(now)  f == w.from  t == w.to
               Today == w.days = {} \/ DayOf(now) \in w.days
    <2>1. Day \in Nat \ {0} /\ Days \in Nat \ {0} /\ now \in 0 .. Day * Days - 1
      BY ConstantsAssumption DEF TypeOK, Times
    <2>2. f \in 0 .. Day - 1 /\ t \in 0 .. Day - 1 /\ m \in 0 .. Day - 1
      <3>1. now \in Nat
        BY <2>1
      <3>2. m \in 0 .. Day - 1
        BY <2>1, <3>1 DEF MinuteOf
      <3> QED BY <3>2 DEF Windows
    <2>3. InSpan(w, now) <=> (f <= m /\ m <= t) \/ (f > t /\ (m >= f \/ m <= t))
      <3>1. InSpan(w, now) <=> \E k \in 0 .. (t + Day - f) % Day : m = (f + k) % Day
        BY DEF InSpan
      <3> HIDE DEF m, f, t
      <3>2. (\E k \in 0 .. (t + Day - f) % Day : m = (f + k) % Day)
              <=> (f <= m /\ m <= t) \/ (f > t /\ (m >= f \/ m <= t))
        BY <2>1, <2>2, WindowWalk
      <3> QED BY <3>1, <3>2
    <2>4. IsWithinWindow(w, now)
            <=> Today /\ ((f <= m /\ m <= t) \/ (f > t /\ (m >= f \/ m <= t)))
      BY DEF IsWithinWindow
    <2>5. OutsideWindow(w, now)
            <=> ~Today \/ IF f <= t THEN ~(f <= m /\ m <= t) ELSE m < f /\ m > t
      BY DEF OutsideWindow
    <2> HIDE DEF m, f, t, Today
    <2>6. IsWithinWindow(w, now) <=> ~OutsideWindow(w, now)
      BY <2>2, <2>4, <2>5
    <2>7. IsWithinWindow(w, now) <=> (InSpan(w, now) /\ Today)
      BY <2>3, <2>4
    <2>8. /\ IsWithinWindow(w, now) \in BOOLEAN /\ OutsideWindow(w, now) \in BOOLEAN
      BY Zenon DEF IsWithinWindow, OutsideWindow
    <2> QED BY <2>6, <2>7, <2>8 DEF Today
  <1> QED BY <1>1, StoresCorrect, PTL DEF StoresInv
===============================================================================
