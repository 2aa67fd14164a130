------------------------------ MODULE CareProofs ------------------------------
(***************************************************************************)
(* What the composition in Care keeps, proved for batteries, calendars,    *)
(* schedules and runs of any size.  Each component's invariant is proved   *)
(* of the component's own steps; the others' steps leave its variables     *)
(* alone.                                                                  *)
(***************************************************************************)
EXTENDS Care, Sequences, FiniteSetTheorems, TLAPS

(* The composition. *)

\* A step of the composition is one of each component, or leaves it alone.
LEMMA StepOfEach ==
  ASSUME [CareNext]_careVars
  PROVE  /\ [Next]_vars /\ [Power!Next]_(Power!vars) /\ [Fresh!Next]_(Fresh!vars)
         /\ [Alerts!Next]_(Alerts!vars) /\ [Runner!Next]_(Runner!vars)
         /\ [Boot!Next]_(Boot!vars)
PROOF
  <1>1. CASE AuditMoves
    BY <1>1 DEF AuditMoves, powerVars, freshVars, alertVars, acceptVars, guardVars,
         Power!vars, Fresh!vars, Alerts!vars, Runner!vars, Boot!vars, Boot!appVars, Boot!boundVars
  <1>2. CASE PowerMoves
    BY <1>2 DEF PowerMoves, freshVars, alertVars, acceptVars, guardVars,
         Fresh!vars, Alerts!vars, Runner!vars, Boot!vars, Boot!appVars, Boot!boundVars
  <1>3. CASE FreshnessMoves
    BY <1>3 DEF FreshnessMoves, powerVars, alertVars, acceptVars, guardVars,
         Power!vars, Alerts!vars, Runner!vars, Boot!vars, Boot!appVars, Boot!boundVars
  <1>4. CASE AlertsMove
    BY <1>4 DEF AlertsMove, powerVars, freshVars, acceptVars, guardVars,
         Power!vars, Fresh!vars, Runner!vars, Boot!vars, Boot!appVars, Boot!boundVars
  <1>5. CASE AcceptanceMoves
    BY <1>5 DEF AcceptanceMoves, powerVars, freshVars, alertVars, guardVars,
         Power!vars, Fresh!vars, Alerts!vars, Boot!vars, Boot!appVars, Boot!boundVars
  <1>6. CASE GuardMoves
    BY <1>6 DEF GuardMoves, OthersRest, powerVars, freshVars, alertVars, acceptVars,
         Power!vars, Fresh!vars, Alerts!vars, Runner!vars
  <1>7. CASE UNCHANGED careVars
    BY <1>7 DEF careVars, powerVars, freshVars, alertVars, acceptVars, guardVars,
         Power!vars, Fresh!vars, Alerts!vars, Runner!vars, Boot!vars, Boot!appVars, Boot!boundVars
  <1> QED BY <1>1, <1>2, <1>3, <1>4, <1>5, <1>6, <1>7 DEF CareNext

\* Every behaviour of the composition is one of each component: what is
\* proved of a component alone, the audit log among them, holds in it.
THEOREM CareComposes ==
  CareSpec => /\ Spec /\ Power!Spec /\ Fresh!Spec /\ Alerts!Spec /\ Runner!Spec
              /\ Boot!SafetySpec
PROOF
  <1>1. CareInit => Init /\ Power!Init /\ Fresh!Init /\ Alerts!Init /\ Runner!Init
                /\ Boot!Init
    BY DEF CareInit
  <1>2. [CareNext]_careVars =>
          /\ [Next]_vars /\ [Power!Next]_(Power!vars) /\ [Fresh!Next]_(Fresh!vars)
          /\ [Alerts!Next]_(Alerts!vars) /\ [Runner!Next]_(Runner!vars)
          /\ [Boot!Next]_(Boot!vars)
    BY StepOfEach
  <1> QED
    BY <1>1, <1>2, PTL
       DEF CareSpec, Spec, Power!Spec, Fresh!Spec, Alerts!Spec, Runner!Spec, Boot!SafetySpec

-----------------------------------------------------------------------------
(* The shutdown on battery. *)

\* What the looks missed since the battery was last seen above the threshold
\* may have cost: a period for each power-off that failed, a start for each
\* restart, and the period under way.
Spent == Period * (fails + 1) + StartDelay * restarts

\* The budget.  While the power is on, an outage that found the battery above
\* the threshold has left enough of it to reach the next look.
Budget ==
  power = "on" /\ ~mains /\ Low < began => Low + due < charge + Spent

PowerInv == Power!TypeOK /\ Budget /\ Power!ShutsDownInTime

\* What all failures and restarts together may cost is below the threshold.
LEMMA SpentBound ==
  ASSUME Power!Assumption, Power!TypeOK PROVE Spent \in Nat /\ Spent <= Low
PROOF
  <1> DEFINE S == StartDelay  B == MaxRestarts
  <1>1. Period \in Nat /\ S \in Nat /\ MaxFails \in Nat /\ B \in Nat
        /\ fails \in 0 .. MaxFails /\ restarts \in 0 .. B /\ Low \in Nat
        /\ Period * (MaxFails + 1) + S * B <= Low
    BY DEF Power!Assumption, Power!TypeOK
  <1>2. ASSUME NEW a \in Nat, NEW b \in Nat, NEW c \in Nat, a <= b
        PROVE  c * a \in Nat /\ c * a <= c * b
    <2>1. PICK d \in Nat : b = a + d
      <3>1. b - a \in Nat /\ b = a + (b - a)
        BY <1>2
      <3> QED BY <3>1
    <2>2. c * (a + d) = c * a + c * d /\ c * d \in Nat /\ c * a \in Nat
      OBVIOUS
    <2> QED BY <2>1, <2>2
  <1> HIDE DEF S, B
  <1>3. Period * (fails + 1) \in Nat /\ Period * (fails + 1) <= Period * (MaxFails + 1)
    BY <1>1, <1>2
  <1>4. S * restarts \in Nat /\ S * restarts <= S * B
    BY <1>1, <1>2
  <1>5. Period * (MaxFails + 1) \in Nat /\ S * B \in Nat
    BY <1>1
  <1>6. Spent = Period * (fails + 1) + S * restarts
    BY DEF Spent, S
  <1> QED
    <2> DEFINE w == Period * (fails + 1)  x == S * restarts
               y == Period * (MaxFails + 1)  z == S * B
    <2>1. w \in Nat /\ x \in Nat /\ y \in Nat /\ z \in Nat /\ w <= y /\ x <= z
          /\ y + z <= Low /\ Spent = w + x /\ Low \in Nat
      BY <1>1, <1>3, <1>4, <1>5, <1>6
    <2> HIDE DEF w, x, y, z
    <2> QED BY <2>1

\* At the start the battery is full and the mains are there.
LEMMA InitPower == ASSUME Power!Assumption, Power!Init PROVE PowerInv
PROOF BY
   DEF Power!Assumption, Power!Init, PowerInv, Power!TypeOK, Budget, Power!ShutsDownInTime

\* Every step keeps the budget: time passes and charge goes at the same pace,
\* a look above the threshold opens a new period, and a failing power-off and
\* a restart are paid for in Spent.
LEMMA StepPower ==
  ASSUME Power!Assumption, PowerInv, [Power!Next]_(Power!vars)
  PROVE  PowerInv'
PROOF
  <1>1. /\ charge \in 0 .. Full /\ began \in 0 .. Full /\ mains \in BOOLEAN
        /\ due \in 0 .. Period /\ power \in {"on", "off", "lost"}
        /\ fails \in 0 .. MaxFails /\ restarts \in 0 .. MaxRestarts
        /\ Full \in Nat /\ Low \in Nat /\ Period \in Nat /\ StartDelay \in Nat
        /\ MaxFails \in Nat /\ MaxRestarts \in Nat /\ StartDelay <= Period
        /\ 0 < Period
    BY DEF PowerInv, Power!TypeOK, Power!Assumption
  <1>2. Spent \in Nat /\ Spent <= Low
    BY SpentBound DEF PowerInv
  <1>3. Budget /\ Power!ShutsDownInTime
    BY DEF PowerInv
  <1>4. Period <= Spent
    <2>1. Period * (fails + 1) = Period * fails + Period /\ Period * fails \in Nat
          /\ StartDelay * restarts \in Nat
      BY <1>1
    <2> QED BY <2>1, <1>1 DEF Spent
  <1>5. CASE Power!Tick
    <2>1. Spent' = Spent
      BY <1>5 DEF Power!Tick, Spent
    <2>2. ~mains /\ Low < began => 1 < charge
      BY <1>1, <1>2, <1>3, <1>5 DEF Power!Tick, Budget
    <2>3. Power!TypeOK'
      BY <1>1, <1>5 DEF Power!Tick, Power!TypeOK
    <2>4. Budget'
      BY <1>1, <1>2, <1>3, <1>5, <2>1, <2>2 DEF Power!Tick, Budget
    <2>5. Power!ShutsDownInTime'
      BY <1>1, <1>3, <1>5, <2>2 DEF Power!Tick, Power!ShutsDownInTime
    <2> QED BY <2>3, <2>4, <2>5 DEF PowerInv
  <1>6. CASE Power!MainsChange
    <2>1. Spent' = Spent
      BY <1>6 DEF Power!MainsChange, Spent
    <2>2. Budget'
      BY <1>1, <1>2, <1>3, <1>4, <1>6, <2>1 DEF Power!MainsChange, Budget
    <2> QED BY <1>1, <1>3, <1>6, <2>2
       DEF Power!MainsChange, PowerInv, Power!TypeOK, Power!ShutsDownInTime
  <1>7. CASE Power!Look
    <2>1. Spent' = Spent
      BY <1>7 DEF Power!Look, Spent
    <2>2. Budget'
      BY <1>1, <1>2, <1>3, <1>4, <1>7, <2>1
         DEF Power!Look, Power!Due, Power!OnBattery, Power!Critical, Budget
    <2> QED BY <1>1, <1>3, <1>7, <2>2
       DEF Power!Look, Power!Due, PowerInv, Power!TypeOK, Power!ShutsDownInTime
  <1>8. CASE Power!PowerOff
    BY <1>1, <1>3, <1>8
       DEF Power!PowerOff, Power!Due, PowerInv, Power!TypeOK, Budget, Power!ShutsDownInTime
  <1>9. CASE Power!PowerOffFails
    <2>1. Spent' = Spent + Period
      <3>1. fails' = fails + 1 /\ restarts' = restarts
        BY <1>9 DEF Power!PowerOffFails
      <3>2. Period * ((fails + 1) + 1) = Period * (fails + 1) + Period
        BY <1>1
      <3> QED BY <1>1, <3>1, <3>2 DEF Spent
    <2>2. Budget'
      BY <1>1, <1>2, <1>3, <1>9, <2>1 DEF Power!PowerOffFails, Power!Due, Budget
    <2> QED BY <1>1, <1>3, <1>9, <2>2
       DEF Power!PowerOffFails, Power!Due, PowerInv, Power!TypeOK, Power!ShutsDownInTime
  <1>10. CASE Power!Restart
    <2>1. Spent' = Spent + StartDelay
      <3>1. fails' = fails /\ restarts' = restarts + 1
        BY <1>10 DEF Power!Restart
      <3>2. StartDelay * (restarts + 1) = StartDelay * restarts + StartDelay
        BY <1>1
      <3>3. Period * (fails + 1) \in Nat /\ StartDelay * restarts \in Nat
        BY <1>1
      <3> QED BY <1>1, <3>1, <3>2, <3>3 DEF Spent
    <2>2. Budget'
      BY <1>1, <1>2, <1>3, <1>10, <2>1 DEF Power!Restart, Budget
    <2> QED BY <1>1, <1>3, <1>10, <2>2
       DEF Power!Restart, PowerInv, Power!TypeOK, Power!ShutsDownInTime
  <1>11. CASE UNCHANGED Power!vars
    BY <1>3, <1>11
       DEF Power!vars, PowerInv, Power!TypeOK, Budget, Spent, Power!ShutsDownInTime
  <1> QED BY <1>5, <1>6, <1>7, <1>8, <1>9, <1>10, <1>11 DEF Power!Next

\* maybe_safe_shutdown: an outage that found the battery above the threshold
\* does not take the power from a running station; the budget holds of every
\* station whose battery is up to it.
THEOREM StationShutsDown == CareSpec => [](PowerInv /\ ShutsDownInTime)
PROOF
  <1>1. Power!Assumption
    BY CareAssumption
  <1>2. Power!Init => PowerInv
    BY <1>1, InitPower
  <1>3. PowerInv /\ [Power!Next]_(Power!vars) => PowerInv'
    BY <1>1, StepPower
  <1>4. PowerInv => ShutsDownInTime
    BY DEF PowerInv, ShutsDownInTime
  <1> QED BY <1>2, <1>3, <1>4, CareComposes, PTL DEF Power!Spec

-----------------------------------------------------------------------------
(* The alerts. *)

\* While nothing has shaken them, record and announcements go together: what
\* is still to be announced of a station recorded as bad is that it is bad,
\* and when nothing is, it has been said.
Together ==
  ~shaken /\ record = "bad" =>
    /\ \A e \in Alerts!Testers :
         test[e].pc = "announce" => test[e].overall = "bad"
    /\ (\A e \in Alerts!Testers : test[e].pc # "announce") => told = "bad"

AlertsInv == Alerts!TypeOK /\ Together

\* The status chosen is one of those compared, and none of them is worse.
LEMMA WorstIsWorst ==
  ASSUME NEW a \in Alerts!Status, NEW b \in Alerts!Status
  PROVE  /\ Alerts!Worst({a, b}) \in {a, b}
         /\ Alerts!Worst({a, b}) \in Alerts!Status
         /\ Alerts!Severity[a] <= Alerts!Severity[Alerts!Worst({a, b})]
         /\ Alerts!Severity[b] <= Alerts!Severity[Alerts!Worst({a, b})]
PROOF
  <1>1. \A s \in Alerts!Status : Alerts!Severity[s] \in Nat
    BY DEF Alerts!Status, Alerts!Severity
  <1>2. \E s \in {a, b} : \A t \in {a, b} : Alerts!Severity[t] <= Alerts!Severity[s]
    BY <1>1
  <1>3. /\ Alerts!Worst({a, b}) \in {a, b}
        /\ \A t \in {a, b} : Alerts!Severity[t] <= Alerts!Severity[Alerts!Worst({a, b})]
    BY <1>2 DEF Alerts!Worst
  <1> QED BY <1>3

\* Nothing is recorded at first.
LEMMA InitAlerts == ASSUME Alerts!Assumption, Alerts!Init PROVE AlertsInv
PROOF
  <1>1. test \in [Alerts!Testers -> {Alerts!Idle}] /\ 0 \in 0 .. MaxRestarts
    BY DEF Alerts!Init, Alerts!Assumption
  <1>2. Alerts!TypeOK
    BY <1>1 DEF Alerts!Init, Alerts!TypeOK
  <1>3. Together
    BY DEF Alerts!Init, Together
  <1> QED BY <1>2, <1>3 DEF AlertsInv

\* A self-test under way has an overall status.
LEMMA UnderWay ==
  ASSUME Alerts!TypeOK, NEW e \in Alerts!Testers, test[e].pc # "idle"
  PROVE  /\ test[e] = [pc |-> test[e].pc, overall |-> test[e].overall]
         /\ test[e].overall \in Alerts!Status
PROOF BY DEF Alerts!TypeOK, Alerts!Idle

\* Every step keeps the types.
LEMMA TypesAlerts ==
  ASSUME Alerts!Assumption, Alerts!TypeOK, [Alerts!Next]_(Alerts!vars)
  PROVE  Alerts!TypeOK'
PROOF
  <1> DEFINE Kind == {Alerts!Idle} \cup
               [pc : {"tested", "announce", "asked"}, overall : Alerts!Status]
  <1>1. /\ record \in Alerts!Status \cup {"none"} /\ told \in Alerts!Status \cup {"none"}
        /\ test \in [Alerts!Testers -> Kind] /\ shaken \in BOOLEAN
        /\ alertRestarts \in 0 .. MaxRestarts /\ MaxRestarts \in Nat
        /\ Loop \in Alerts!Testers /\ Cockpit \in Alerts!Testers
        /\ Alerts!Idle \in Kind
    BY DEF Alerts!TypeOK, Alerts!Assumption, Alerts!Testers
  <1>2. \A s \in Alerts!Status : [pc |-> "tested", overall |-> s] \in Kind
                          /\ [pc |-> "announce", overall |-> s] \in Kind
                          /\ [pc |-> "asked", overall |-> s] \in Kind
    OBVIOUS
  <1>3. \A e \in Alerts!Testers : test[e].pc # "idle" => test[e].overall \in Alerts!Status
    BY UnderWay DEF Alerts!TypeOK
  <1> HIDE DEF Kind
  <1>4. SUFFICES /\ record' \in Alerts!Status \cup {"none"}
                 /\ told' \in Alerts!Status \cup {"none"}
                 /\ test' \in [Alerts!Testers -> Kind] /\ shaken' \in BOOLEAN
                 /\ alertRestarts' \in 0 .. MaxRestarts
    BY <1>1 DEF Alerts!TypeOK, Kind
  <1>5. ASSUME NEW e \in Alerts!Testers, Alerts!Test(e) PROVE Alerts!TypeOK'
    <2>1. PICK camera \in Alerts!Status, others \in Alerts!Status :
            test' = [test EXCEPT ![e] =
              [pc |-> "tested", overall |-> Alerts!Worst({camera, others})]]
      BY <1>5 DEF Alerts!Test
    <2>2. Alerts!Worst({camera, others}) \in Alerts!Status
      BY WorstIsWorst
    <2>3. test' \in [Alerts!Testers -> Kind]
      BY <1>1, <1>2, <2>1, <2>2
    <2> QED BY <1>1, <1>5, <2>3 DEF Alerts!Test, Alerts!TypeOK, Kind
  <1>6. ASSUME NEW e \in Alerts!Testers, NEW saved \in BOOLEAN, Alerts!Evaluate(e, saved)
        PROVE  Alerts!TypeOK'
    <2>1. test[e].overall \in Alerts!Status
      BY <1>3, <1>6 DEF Alerts!Evaluate
    <2>2. record' \in Alerts!Status \cup {"none"}
      BY <1>1, <1>6, <2>1 DEF Alerts!Evaluate
    <2>3. test' \in [Alerts!Testers -> Kind]
      BY <1>1, <1>2, <1>6, <2>1 DEF Alerts!Evaluate
    <2>4. shaken' \in BOOLEAN
      BY <1>6 DEF Alerts!Evaluate
    <2> QED BY <1>1, <1>6, <2>2, <2>3, <2>4 DEF Alerts!Evaluate, Alerts!TypeOK, Kind
  <1>7. ASSUME NEW e \in Alerts!Testers, Alerts!Announce(e) PROVE Alerts!TypeOK'
    <2>1. test[e].overall \in Alerts!Status
      BY <1>3, <1>7 DEF Alerts!Announce
    <2> QED BY <1>1, <1>7, <2>1 DEF Alerts!Announce, Alerts!TypeOK, Kind
  <1>8. CASE Alerts!AskState
    <2>1. test' \in [Alerts!Testers -> Kind]
      BY <1>1, <1>2, <1>8 DEF Alerts!AskState
    <2> QED BY <1>1, <1>8, <2>1 DEF Alerts!AskState, Alerts!TypeOK, Kind
  <1>9. CASE Alerts!RecordState
    <2>1. test[Cockpit].overall \in Alerts!Status
      BY <1>1, <1>3, <1>9 DEF Alerts!RecordState
    <2> QED BY <1>1, <1>9, <2>1 DEF Alerts!RecordState, Alerts!TypeOK, Kind
  <1>10. CASE Alerts!Restart
    <2>1. test' \in [Alerts!Testers -> Kind]
      BY <1>1, <1>10 DEF Alerts!Restart
    <2>2. shaken' \in BOOLEAN
      BY <1>10 DEF Alerts!Restart
    <2> QED BY <1>1, <1>10, <2>1, <2>2 DEF Alerts!Restart, Alerts!TypeOK, Kind
  <1>11. CASE UNCHANGED Alerts!vars
    BY <1>1, <1>11 DEF Alerts!vars
  <1> QED
    BY <1>1, <1>5, <1>6, <1>7, <1>8, <1>9, <1>10, <1>11 DEF Alerts!Next, Alerts!TypeOK, Kind

\* Every step keeps them together: an evaluation on its own announces a
\* station that has become bad and is silent of one that was, and what is
\* announced of a bad station is that it is bad.
LEMMA StepAlerts ==
  ASSUME Alerts!Assumption, AlertsInv, [Alerts!Next]_(Alerts!vars)
  PROVE  AlertsInv'
PROOF
  <1>1. Alerts!TypeOK /\ Alerts!TypeOK'
    BY TypesAlerts DEF AlertsInv
  <1>2. /\ record \in Alerts!Status \cup {"none"}
        /\ test \in [Alerts!Testers -> {Alerts!Idle} \cup
                       [pc : {"tested", "announce", "asked"}, overall : Alerts!Status]]
        /\ Cockpit \in Alerts!Testers /\ shaken \in BOOLEAN /\ shaken' \in BOOLEAN
    BY <1>1 DEF Alerts!TypeOK, Alerts!Testers
  <1>3. Together
    BY DEF AlertsInv
  <1>4. ASSUME NEW e \in Alerts!Testers, Alerts!Test(e) PROVE Together'
    <2>1. \A f \in Alerts!Testers :
            test'[f].pc = "announce" <=> test[f].pc = "announce"
      BY <1>2, <1>4 DEF Alerts!Test, Alerts!Idle
    <2>2. \A f \in Alerts!Testers :
            test'[f].pc = "announce" => test'[f].overall = test[f].overall
      BY <1>2, <1>4 DEF Alerts!Test, Alerts!Idle
    <2> QED BY <1>3, <1>4, <2>1, <2>2 DEF Alerts!Test, Together
  <1>5. ASSUME NEW e \in Alerts!Testers, NEW saved \in BOOLEAN, Alerts!Evaluate(e, saved)
        PROVE  Together'
    <2> SUFFICES ASSUME ~shaken', record' = "bad"
                 PROVE  /\ \A f \in Alerts!Testers :
                             test'[f].pc = "announce" => test'[f].overall = "bad"
                        /\ (\A f \in Alerts!Testers : test'[f].pc # "announce")
                             => told' = "bad"
      BY DEF Together
    <2>1. Alerts!Alone(e) /\ ~shaken /\ saved
      <3>1. shaken' = (~Alerts!Alone(e) \/ ((shaken \/ ~saved) /\ Alerts!Rank[record'] > 0))
        BY <1>5 DEF Alerts!Evaluate
      <3>2. Alerts!Rank["bad"] > 0
        BY DEF Alerts!Rank
      <3> QED BY <3>1, <3>2
    <2>2. test[e].pc = "tested" /\ test[e].overall = "bad" /\ told' = told
      BY <1>5, <2>1 DEF Alerts!Evaluate
    <2>3. \A f \in Alerts!Testers \ {e} : test[f] = Alerts!Idle /\ test'[f] = Alerts!Idle
      BY <1>2, <1>5, <2>1 DEF Alerts!Evaluate, Alerts!Alone
    <2>4. CASE record = "bad"
      <3>1. ~(Alerts!Degraded(record, "bad") \/ Alerts!Recovered(record, "bad"))
        BY <2>4 DEF Alerts!Degraded, Alerts!Recovered, Alerts!Rank
      <3>2. test'[e] = Alerts!Idle
        BY <1>2, <1>5, <2>2, <3>1 DEF Alerts!Evaluate
      <3>3. told = "bad"
        BY <1>3, <2>1, <2>2, <2>3, <2>4 DEF Together, Alerts!Idle
      <3> QED BY <2>2, <2>3, <3>2, <3>3 DEF Alerts!Idle
    <2>5. CASE record # "bad"
      <3>1. Alerts!Degraded(record, "bad")
        BY <1>2, <2>5 DEF Alerts!Degraded, Alerts!Rank, Alerts!Status
      <3>2. test'[e] = [pc |-> "announce", overall |-> "bad"]
        BY <1>2, <1>5, <2>2, <3>1 DEF Alerts!Evaluate
      <3> QED BY <2>3, <3>2 DEF Alerts!Idle
    <2> QED BY <2>4, <2>5
  <1>6. ASSUME NEW e \in Alerts!Testers, Alerts!Announce(e) PROVE Together'
    <2>1. /\ told' = test[e].overall /\ test[e].pc = "announce"
          /\ record' = record /\ shaken' = shaken
      BY <1>6 DEF Alerts!Announce
    <2>2. \A f \in Alerts!Testers :
            test'[f].pc = "announce" => test'[f] = test[f]
      BY <1>2, <1>6 DEF Alerts!Announce, Alerts!Idle
    <2> QED BY <1>3, <2>1, <2>2 DEF Together
  <1>7. ASSUME Alerts!AskState PROVE Together'
    <2>1. \A f \in Alerts!Testers :
            test'[f].pc = "announce" <=> test[f].pc = "announce"
      BY <1>2, <1>7 DEF Alerts!AskState, Alerts!Idle
    <2> QED BY <1>2, <1>3, <1>7, <2>1 DEF Alerts!AskState, Together
  <1>8. ASSUME Alerts!RecordState PROVE Together'
    BY <1>2, <1>8 DEF Alerts!RecordState, Together
  <1>9. ASSUME Alerts!Restart PROVE Together'
    BY <1>2, <1>3, <1>9 DEF Alerts!Restart, Together, Alerts!Idle
  <1>10. ASSUME UNCHANGED Alerts!vars PROVE Together'
    BY <1>2, <1>3, <1>10 DEF Alerts!vars, Together
  <1> QED
    BY <1>1, <1>4, <1>5, <1>6, <1>7, <1>8, <1>9, <1>10 DEF Alerts!Next, AlertsInv

\* evaluate_and_alert: a station recorded as bad has been announced as bad,
\* whatever came between, unless one of the four things named shook it.
THEOREM BadIsAnnounced == CareSpec => [](AlertsInv /\ BadIsTold)
PROOF
  <1>1. Alerts!Assumption
    BY CareAssumption
  <1>2. Alerts!Init => AlertsInv
    BY <1>1, InitAlerts
  <1>3. AlertsInv /\ [Alerts!Next]_(Alerts!vars) => AlertsInv'
    BY <1>1, StepAlerts
  <1>4. AlertsInv => BadIsTold
    BY DEF AlertsInv, Together, BadIsTold, Alerts!BadIsTold
  <1> QED BY <1>2, <1>3, <1>4, CareComposes, PTL DEF Alerts!Spec

-----------------------------------------------------------------------------
(* The acceptance runner. *)

\* How many rows of a report have an outcome.
Count(s, o) == Cardinality({i \in DOMAIN s : s[i] = o})

Cell == Runner!Outcomes \cup {"running"}
Active == {"next", "check"} \cup Runner!Outcomes

\* A run that was not started has left nothing.
Unstarted(r) ==
  run[r].state = "none" =>
    run[r] = Runner!Absent /\ result[r] = <<>> /\ thread[r] = Runner!NoThread

\* The counters of the row agree with the report.  Those of the thread do,
\* but for the outcome it has in hand.
Counted(r) ==
  /\ run[r].pass = Count(result[r], "ok") /\ run[r].fail = Count(result[r], "fail")
  /\ thread[r].pc \in Active =>
       /\ thread[r].pass = Count(result[r], "ok")
                             + (IF thread[r].pc = "ok" THEN 1 ELSE 0)
       /\ thread[r].fail = Count(result[r], "fail")
                             + (IF thread[r].pc = "fail" THEN 1 ELSE 0)

\* The row under way is the last one, and the only one.
UnderWayLast(r) ==
  /\ thread[r].pc = "next" =>
       \A i \in 1 .. Len(result[r]) : result[r][i] # "running"
  /\ thread[r].pc \in {"check"} \cup Runner!Outcomes =>
       /\ Len(result[r]) > 0 /\ result[r][Len(result[r])] = "running"
       /\ \A i \in 1 .. Len(result[r]) - 1 : result[r][i] # "running"

\* While the thread has checks to make the run is running; a verdict is final.
Concluded(r) ==
  /\ thread[r].pc \in Active => run[r].state = "running"
  /\ run[r].state = "ok" =>
       /\ Len(result[r]) = Checks /\ Count(result[r], "fail") = 0
       /\ \A i \in 1 .. Len(result[r]) : result[r][i] # "running"
  /\ run[r].state = "failed" => Count(result[r], "fail") > 0

RunInv(r) == Unstarted(r) /\ Counted(r) /\ UnderWayLast(r) /\ Concluded(r)

RunnerInv ==
  /\ Runner!TypeOK /\ result \in [Runs -> Seq(Cell)]
  /\ \A r \in Runs : RunInv(r)

\* The rows of a report are finitely many, and no outcome has more than all.
LEMMA CountType ==
  ASSUME NEW s \in Seq(Cell), NEW o
  PROVE  /\ IsFiniteSet({i \in DOMAIN s : s[i] = o})
         /\ Count(s, o) \in Nat /\ Count(s, o) <= Len(s)
         /\ Count(s, o) = 0 <=> \A i \in 1 .. Len(s) : s[i] # o
PROOF
  <1> DEFINE I == {i \in DOMAIN s : s[i] = o}
  <1>1. DOMAIN s = 1 .. Len(s) /\ Len(s) \in Nat
    OBVIOUS
  <1>2. IsFiniteSet(1 .. Len(s)) /\ Cardinality(1 .. Len(s)) = Len(s)
    <2>1. 1 \in Int /\ Len(s) \in Int
      BY <1>1
    <2> QED BY <1>1, <2>1, FS_Interval
  <1>3. IsFiniteSet(I) /\ Cardinality(I) <= Len(s)
    BY <1>1, <1>2, FS_Subset
  <1>4. Cardinality(I) \in Nat
    BY <1>3, FS_CardinalityType
  <1>5. Cardinality(I) = 0 <=> I = {}
    BY <1>3, FS_EmptySet
  <1> QED BY <1>1, <1>3, <1>4, <1>5 DEF Count

\* A row added counts for its outcome.
LEMMA CountAppend ==
  ASSUME NEW s \in Seq(Cell), NEW x \in Cell, NEW o
  PROVE  Count(Append(s, x), o) = Count(s, o) + (IF x = o THEN 1 ELSE 0)
PROOF
  <1> DEFINE I == {i \in DOMAIN s : s[i] = o}  n == Len(s) + 1
             J == {i \in DOMAIN Append(s, x) : Append(s, x)[i] = o}
  <1>1. Len(s) \in Nat /\ DOMAIN s = 1 .. Len(s)
        /\ DOMAIN Append(s, x) = 1 .. n /\ Append(s, x)[n] = x
        /\ \A i \in 1 .. Len(s) : Append(s, x)[i] = s[i]
    OBVIOUS
  <1>2. IsFiniteSet(I) /\ Cardinality(I) \in Nat
    BY CountType DEF Count
  <1>3. n \notin I
    BY <1>1
  <1>4. Count(s, o) = Cardinality(I) /\ Count(Append(s, x), o) = Cardinality(J)
    BY DEF Count
  <1>5. CASE x = o
    <2>1. J = I \cup {n}
      BY <1>1, <1>5
    <2>2. Cardinality(I \cup {n}) = Cardinality(I) + 1
      BY <1>2, <1>3, FS_AddElement
    <2> QED BY <1>5, <1>4, <2>1, <2>2
  <1>6. CASE x # o
    <2>1. J = I
      BY <1>1, <1>6
    <2> HIDE DEF I, J
    <2> QED BY <1>2, <1>6, <1>4, <2>1
  <1> QED BY <1>5, <1>6

\* The last row, when it is given its outcome, counts for that one; until
\* then the others leave room for it.
LEMMA CountSettle ==
  ASSUME NEW s \in Seq(Cell), Len(s) > 0, s[Len(s)] = "running",
         NEW x \in Runner!Outcomes, NEW o \in Runner!Outcomes
  PROVE  /\ Count([s EXCEPT ![Len(s)] = x], o)
              = Count(s, o) + (IF x = o THEN 1 ELSE 0)
         /\ Count(s, o) < Len(s)
PROOF
  <1> DEFINE t == [s EXCEPT ![Len(s)] = x]  n == Len(s)
             I == {i \in DOMAIN s : s[i] = o}  J == {i \in DOMAIN t : t[i] = o}
  <1>1. n \in Nat /\ n > 0 /\ DOMAIN s = 1 .. n /\ DOMAIN t = 1 .. n /\ n \in 1 .. n
        /\ t[n] = x /\ (\A i \in 1 .. n - 1 : t[i] = s[i] /\ i \in 1 .. n)
        /\ \A i \in 1 .. n : i # n => i \in 1 .. n - 1
    OBVIOUS
  <1>2. IsFiniteSet(I) /\ Cardinality(I) \in Nat
    BY CountType DEF Count
  <1>3. "running" # o
    BY DEF Runner!Outcomes
  <1>4. /\ Count(s, o) = Cardinality(I) /\ Count(t, o) = Cardinality(J)
        /\ n \notin I /\ I \cup {n} \subseteq 1 .. n
        /\ x = o => J = I \cup {n}
        /\ x # o => J = I
    BY <1>1, <1>3 DEF Count
  <1> HIDE DEF I, J, n, t
  <1>5. Cardinality(I \cup {n}) = Cardinality(I) + 1
    BY <1>2, <1>4, FS_AddElement
  <1>6. Cardinality(I \cup {n}) <= n
    <2>1. 1 \in Int /\ n \in Int
      BY <1>1
    <2>2. IsFiniteSet(1 .. n) /\ Cardinality(1 .. n) = n
      BY <1>1, <2>1, FS_Interval
    <2> QED BY <1>4, <2>2, FS_Subset
  <1>7. Count(t, o) = Count(s, o) + (IF x = o THEN 1 ELSE 0) /\ Count(s, o) < n
    BY <1>1, <1>2, <1>4, <1>5, <1>6
  <1> QED BY <1>7 DEF t, n

\* No run has been started.
LEMMA InitRunner == ASSUME Runner!Assumption, Runner!Init PROVE RunnerInv
PROOF
  <1>1. <<>> \in Seq(Cell)
    OBVIOUS
  <1>2. Runner!TypeOK /\ result \in [Runs -> Seq(Cell)]
    BY <1>1 DEF Runner!Assumption, Runner!Init, Runner!TypeOK, Runner!Absent,
       Runner!NoThread, Cell
  <1>3. ASSUME NEW r \in Runs PROVE RunInv(r)
    <2>1. run[r] = Runner!Absent /\ result[r] = <<>> /\ thread[r] = Runner!NoThread
      BY DEF Runner!Init
    <2>2. ASSUME NEW o PROVE Count(<<>>, o) = 0
      <3>1. \A i \in 1 .. Len(<<>>) : <<>>[i] # o
        OBVIOUS
      <3> QED BY <1>1, <3>1, CountType
    <2> QED
      BY <2>1, <2>2 DEF RunInv, Unstarted, Counted, UnderWayLast, Concluded,
         Runner!Absent, Runner!NoThread, Active, Runner!Outcomes
  <1> QED BY <1>2, <1>3 DEF RunnerInv

\* What is known of one run.
LEMMA TypesOfRun ==
  ASSUME Runner!Assumption, RunnerInv, NEW r \in Runs
  PROVE  /\ run[r] \in [state : {"none", "running", "ok", "failed"},
                        pass : 0 .. Checks, fail : 0 .. Checks]
         /\ result[r] \in Seq(Cell) /\ Len(result[r]) \in 0 .. Checks
         /\ thread[r] \in [pc : Runner!Outcomes
                                  \cup {"none", "next", "check", "clear"},
                           pass : 0 .. Checks, fail : 0 .. Checks]
         /\ Checks \in Nat \ {0} /\ RunInv(r)
         /\ \A o : Count(result[r], o) \in Nat /\ Count(result[r], o) <= Len(result[r])
PROOF
  <1>1. result[r] \in Seq(Cell) /\ RunInv(r) /\ Checks \in Nat \ {0}
        /\ Len(result[r]) <= Checks
    BY DEF RunnerInv, Runner!TypeOK, Runner!Assumption
  <1>2. Len(result[r]) \in 0 .. Checks
    BY <1>1
  <1>3. \A o : Count(result[r], o) \in Nat /\ Count(result[r], o) <= Len(result[r])
    BY <1>1, CountType
  <1> QED BY <1>1, <1>2, <1>3 DEF RunnerInv, Runner!TypeOK

\* A step about one run keeps the invariant of the others.
LEMMA OneRun ==
  ASSUME RunnerInv, NEW r \in Runs, Runner!TypeOK', (result \in [Runs -> Seq(Cell)])',
         \A q \in Runs \ {r} : run'[q] = run[q] /\ result'[q] = result[q]
                               /\ thread'[q] = thread[q],
         RunInv(r)'
  PROVE  RunnerInv'
PROOF
  <1>1. ASSUME NEW q \in Runs \ {r} PROVE RunInv(q)'
    <2>1. run'[q] = run[q] /\ result'[q] = result[q] /\ thread'[q] = thread[q]
      OBVIOUS
    <2>2. RunInv(q)
      BY DEF RunnerInv
    <2> QED BY <2>1, <2>2 DEF RunInv, Unstarted, Counted, UnderWayLast, Concluded
  <1> QED BY <1>1 DEF RunnerInv

\* Every step keeps the invariant of the run it is about.
LEMMA StepRunner ==
  ASSUME Runner!Assumption, RunnerInv, [Runner!Next]_(Runner!vars)
  PROVE  RunnerInv'
PROOF
  <1>1. /\ run \in [Runs -> [state : {"none", "running", "ok", "failed"},
                             pass : 0 .. Checks, fail : 0 .. Checks]]
        /\ result \in [Runs -> Seq(Cell)] /\ \A r \in Runs : Len(result[r]) <= Checks
        /\ current \in Runs \cup {NoRun} /\ ends \in 0 .. MaxEnds
        /\ thread \in [Runs -> [pc : Runner!Outcomes
                                       \cup {"none", "next", "check", "clear"},
                                pass : 0 .. Checks, fail : 0 .. Checks]]
        /\ Checks \in Nat \ {0} /\ MaxEnds \in Nat
    BY DEF RunnerInv, Runner!TypeOK, Runner!Assumption
  <1>2. ASSUME NEW r \in Runs, Runner!Start(r) PROVE RunnerInv'
    <2>1. run[r] = Runner!Absent /\ result[r] = <<>> /\ thread[r] = Runner!NoThread
      BY <1>2, TypesOfRun DEF Runner!Start, RunInv, Unstarted, Runner!Absent
    <2>2. /\ run'[r] = [state |-> "running", pass |-> 0, fail |-> 0]
          /\ thread'[r] = [pc |-> "next", pass |-> 0, fail |-> 0]
          /\ result'[r] = <<>>
      <3>1. run'[r] = [Runner!Absent EXCEPT !.state = "running"]
            /\ thread'[r] = [Runner!NoThread EXCEPT !.pc = "next"] /\ result' = result
        BY <1>1, <1>2, <2>1 DEF Runner!Start
      <3> QED BY <2>1, <3>1 DEF Runner!Absent, Runner!NoThread
    <2>3. Runner!TypeOK' /\ (result \in [Runs -> Seq(Cell)])'
      BY <1>1, <1>2, <2>2 DEF Runner!Start, Runner!TypeOK, Cell
    <2>4. \A q \in Runs \ {r} : run'[q] = run[q] /\ result'[q] = result[q]
                                /\ thread'[q] = thread[q]
      BY <1>1, <1>2 DEF Runner!Start
    <2>5. RunInv(r)'
      <3>1. Count(<<>>, "ok") = 0 /\ Count(<<>>, "fail") = 0
        BY <2>1, TypesOfRun DEF RunInv, Counted, Runner!Absent
      <3> QED
        BY <2>2, <3>1 DEF RunInv, Unstarted, Counted, UnderWayLast, Concluded,
           Active, Runner!Outcomes
    <2> QED BY <2>3, <2>4, <2>5, OneRun
  <1>3. ASSUME NEW r \in Runs, Runner!Begin(r) PROVE RunnerInv'
    <2> DEFINE s == result[r]
    <2>1. /\ run'[r] = run[r] /\ result'[r] = Append(s, "running")
          /\ thread'[r] = [pc |-> "check", pass |-> thread[r].pass,
                           fail |-> thread[r].fail]
      BY <1>1, <1>3 DEF Runner!Begin
    <2>2. /\ s \in Seq(Cell) /\ "running" \in Cell
          /\ Append(s, "running") \in Seq(Cell) /\ Len(s) \in Nat
          /\ Len(Append(s, "running")) = Len(s) + 1 /\ Len(s) < Checks
          /\ Append(s, "running")[Len(s) + 1] = "running"
          /\ \A i \in 1 .. Len(s) : Append(s, "running")[i] = s[i]
      BY <1>1, <1>3 DEF Runner!Begin, Cell
    <2>3. Runner!TypeOK' /\ (result \in [Runs -> Seq(Cell)])'
      <3>1. (result \in [Runs -> Seq(Cell)])'
        BY <1>1, <1>3, <2>2 DEF Runner!Begin
      <3>2. \A q \in Runs : result'[q] \in Seq(Cell) /\ Len(result'[q]) <= Checks
        BY <1>1, <1>3, <2>1, <2>2, <3>1 DEF Runner!Begin
      <3> QED BY <1>1, <1>3, <2>1, <3>1, <3>2 DEF Runner!Begin, Runner!TypeOK, Cell
    <2>4. \A q \in Runs \ {r} : run'[q] = run[q] /\ result'[q] = result[q]
                                /\ thread'[q] = thread[q]
      BY <1>1, <1>3 DEF Runner!Begin
    <2>5. RunInv(r)'
      <3>1. /\ Count(result'[r], "ok") = Count(s, "ok")
            /\ Count(result'[r], "fail") = Count(s, "fail")
        <4>1. /\ Count(Append(s, "running"), "ok") = Count(s, "ok") + 0
              /\ Count(Append(s, "running"), "fail") = Count(s, "fail") + 0
          BY <2>2, CountAppend
        <4>2. Count(s, "ok") \in Nat /\ Count(s, "fail") \in Nat
          BY TypesOfRun
        <4> QED BY <2>1, <4>1, <4>2
      <3>2. thread[r].pc = "next" /\ thread[r].pass = Count(s, "ok")
            /\ thread[r].fail = Count(s, "fail") /\ run[r].state = "running"
            /\ (\A i \in 1 .. Len(s) : s[i] # "running")
            /\ run[r].pass = Count(s, "ok") /\ run[r].fail = Count(s, "fail")
        <4>1. thread[r].pc = "next" /\ RunInv(r) /\ Count(s, "ok") \in Nat
              /\ Count(s, "fail") \in Nat
          BY <1>3, TypesOfRun DEF Runner!Begin
        <4> QED BY <4>1 DEF RunInv, Counted, UnderWayLast, Concluded, Active
      <3>3. UnderWayLast(r)'
        BY <2>1, <2>2, <3>2 DEF UnderWayLast
      <3>4. Counted(r)' /\ Concluded(r)' /\ Unstarted(r)'
        BY <2>1, <3>1, <3>2, TypesOfRun
           DEF Counted, Concluded, Unstarted, Active, Runner!Outcomes
      <3> QED BY <3>3, <3>4 DEF RunInv
    <2> QED BY <2>3, <2>4, <2>5, OneRun
  <1>4. ASSUME NEW r \in Runs, NEW o \in Runner!Outcomes, Runner!Outcome(r, o)
        PROVE  RunnerInv'
    <2> DEFINE s == result[r]
    <2>1. /\ run'[r] = run[r] /\ result'[r] = s
          /\ thread'[r] = [pc |-> o,
               pass |-> IF o = "ok" THEN thread[r].pass + 1 ELSE thread[r].pass,
               fail |-> IF o = "fail" THEN thread[r].fail + 1 ELSE thread[r].fail]
      BY <1>1, <1>4 DEF Runner!Outcome
    <2>2. /\ thread[r].pc = "check" /\ thread[r].pass = Count(s, "ok")
          /\ thread[r].fail = Count(s, "fail") /\ run[r].state = "running"
          /\ Len(s) > 0 /\ s[Len(s)] = "running"
          /\ (\A i \in 1 .. Len(s) - 1 : s[i] # "running")
          /\ run[r].pass = Count(s, "ok") /\ run[r].fail = Count(s, "fail")
      <3>1. thread[r].pc = "check" /\ RunInv(r) /\ Count(s, "ok") \in Nat
            /\ Count(s, "fail") \in Nat
        BY <1>4, TypesOfRun DEF Runner!Outcome
      <3> QED BY <3>1 DEF RunInv, Counted, UnderWayLast, Concluded, Active
    <2>3. Count(s, "ok") < Checks /\ Count(s, "fail") < Checks
      <3>1. Count(s, "ok") < Len(s) /\ Count(s, "fail") < Len(s)
        BY <1>1, <2>2, CountSettle DEF Runner!Outcomes
      <3> QED BY <1>1, <3>1, TypesOfRun
    <2>4. thread'[r] \in [pc : Runner!Outcomes
                                 \cup {"none", "next", "check", "clear"},
                          pass : 0 .. Checks, fail : 0 .. Checks]
      BY <1>1, <2>1, <2>2, <2>3, TypesOfRun
    <2>5. \A q \in Runs \ {r} : run'[q] = run[q] /\ result'[q] = result[q]
                                /\ thread'[q] = thread[q]
      BY <1>1, <1>4 DEF Runner!Outcome
    <2>6. Runner!TypeOK' /\ (result \in [Runs -> Seq(Cell)])'
      <3>1. DOMAIN thread' = Runs /\ thread' = [q \in DOMAIN thread' |-> thread'[q]]
        BY <1>1, <1>4 DEF Runner!Outcome
      <3>2. thread' \in [Runs -> [pc : Runner!Outcomes
                                         \cup {"none", "next", "check", "clear"},
                                  pass : 0 .. Checks, fail : 0 .. Checks]]
        BY <1>1, <2>4, <2>5, <3>1
      <3> QED BY <1>1, <1>4, <3>2 DEF Runner!Outcome, Runner!TypeOK, Cell
    <2>7. RunInv(r)'
      BY <2>1, <2>2, TypesOfRun
         DEF RunInv, Counted, UnderWayLast, Concluded, Unstarted, Active, Runner!Outcomes
    <2> QED BY <2>5, <2>6, <2>7, OneRun
  <1>5. ASSUME NEW r \in Runs, Runner!Save(r) PROVE RunnerInv'
    <2> DEFINE s == result[r]  o == thread[r].pc
               t == [s EXCEPT ![Len(s)] = o]
    <2>1. /\ run'[r] = [state |-> run[r].state, pass |-> thread[r].pass,
                        fail |-> thread[r].fail]
          /\ thread'[r] = [pc |-> "next", pass |-> thread[r].pass,
                           fail |-> thread[r].fail]
          /\ result'[r] = t /\ o \in Runner!Outcomes
      BY <1>1, <1>5 DEF Runner!Save
    <2>2. /\ thread[r].pass = Count(s, "ok") + (IF o = "ok" THEN 1 ELSE 0)
          /\ thread[r].fail = Count(s, "fail") + (IF o = "fail" THEN 1 ELSE 0)
          /\ run[r].state = "running" /\ Len(s) > 0 /\ s[Len(s)] = "running"
          /\ (\A i \in 1 .. Len(s) - 1 : s[i] # "running")
      BY <2>1, TypesOfRun DEF RunInv, Counted, UnderWayLast, Concluded, Active
    <2>3. /\ s \in Seq(Cell) /\ o \in Cell /\ Len(s) \in 1 .. Len(s)
          /\ t \in Seq(Cell) /\ Len(t) = Len(s) /\ t[Len(s)] = o
          /\ \A i \in 1 .. Len(s) - 1 : t[i] = s[i]
      BY <1>1, <2>1, <2>2 DEF Cell
    <2>4. /\ thread[r].pass = Count(t, "ok") /\ thread[r].fail = Count(t, "fail")
      <3>1. /\ Count(t, "ok") = Count(s, "ok") + (IF o = "ok" THEN 1 ELSE 0)
            /\ Count(t, "fail") = Count(s, "fail") + (IF o = "fail" THEN 1 ELSE 0)
        BY <2>1, <2>2, <2>3, CountSettle DEF Runner!Outcomes
      <3> QED BY <2>2, <3>1
    <2>5. \A i \in 1 .. Len(t) : t[i] # "running"
      <3>1. o # "running"
        BY <2>1 DEF Runner!Outcomes
      <3>2. \A i \in 1 .. Len(s) : i = Len(s) \/ i \in 1 .. Len(s) - 1
        BY <2>3
      <3> QED BY <2>2, <2>3, <3>1, <3>2
    <2> HIDE DEF s, t, o
    <2>6. Runner!TypeOK' /\ (result \in [Runs -> Seq(Cell)])'
      <3>1. (result \in [Runs -> Seq(Cell)])'
        BY <1>1, <1>5, <2>3 DEF Runner!Save, s, t, o
      <3>2. \A q \in Runs : result'[q] \in Seq(Cell) /\ Len(result'[q]) <= Checks
        <4>1. \A q \in Runs \ {r} : result'[q] = result[q]
          BY <1>1, <1>5 DEF Runner!Save
        <4>2. Len(s) <= Checks
          BY <1>1 DEF s
        <4> QED BY <1>1, <2>1, <2>3, <3>1, <4>1, <4>2
      <3>3. run' \in [Runs -> [state : {"none", "running", "ok", "failed"},
                               pass : 0 .. Checks, fail : 0 .. Checks]]
        BY <1>1, <1>5 DEF Runner!Save
      <3>4. thread' \in [Runs -> [pc : Runner!Outcomes
                                         \cup {"none", "next", "check", "clear"},
                                  pass : 0 .. Checks, fail : 0 .. Checks]]
        BY <1>1, <1>5 DEF Runner!Save
      <3> QED BY <1>1, <1>5, <3>1, <3>2, <3>3, <3>4 DEF Runner!Save, Runner!TypeOK, Cell
    <2>7. \A q \in Runs \ {r} : run'[q] = run[q] /\ result'[q] = result[q]
                                /\ thread'[q] = thread[q]
      BY <1>1, <1>5 DEF Runner!Save
    <2>8. RunInv(r)'
      <3>1. run[r].state = "running"
        BY <2>2
      <3>2. Counted(r)'
        BY <2>1, <2>4, TypesOfRun DEF Counted
      <3>3. UnderWayLast(r)'
        BY <2>1, <2>5 DEF UnderWayLast, Runner!Outcomes
      <3>4. Concluded(r)' /\ Unstarted(r)'
        BY <2>1, <3>1 DEF Concluded, Unstarted
      <3> QED BY <3>2, <3>3, <3>4 DEF RunInv
    <2> QED BY <2>6, <2>7, <2>8, OneRun
  <1>6. ASSUME NEW r \in Runs, Runner!Finish(r) PROVE RunnerInv'
    <2> DEFINE s == result[r]
    <2>1. /\ run'[r] = [state |-> Runner!Verdict(thread[r]), pass |-> run[r].pass,
                        fail |-> run[r].fail]
          /\ thread'[r] = [pc |-> "clear", pass |-> thread[r].pass,
                           fail |-> thread[r].fail]
          /\ result'[r] = s /\ Len(s) = Checks
      BY <1>1, <1>6 DEF Runner!Finish
    <2>2. /\ thread[r].pc = "next" /\ thread[r].fail = Count(s, "fail")
          /\ run[r].pass = Count(s, "ok") /\ run[r].fail = Count(s, "fail")
          /\ \A i \in 1 .. Len(s) : s[i] # "running"
      BY <1>6, TypesOfRun
         DEF Runner!Finish, RunInv, Counted, UnderWayLast, Active
    <2>3. \A q \in Runs \ {r} : run'[q] = run[q] /\ result'[q] = result[q]
                                /\ thread'[q] = thread[q]
      BY <1>1, <1>6 DEF Runner!Finish
    <2>4. Runner!Verdict(thread[r]) \in {"ok", "failed"}
      BY DEF Runner!Verdict
    <2>5. Runner!TypeOK' /\ (result \in [Runs -> Seq(Cell)])'
      <3>1. run' = [run EXCEPT ![r].state = Runner!Verdict(thread[r])]
            /\ thread' = [thread EXCEPT ![r].pc = "clear"]
            /\ UNCHANGED <<result, current, ends>>
        BY <1>6 DEF Runner!Finish
      <3>2. run' \in [Runs -> [state : {"none", "running", "ok", "failed"},
                               pass : 0 .. Checks, fail : 0 .. Checks]]
        BY <1>1, <2>4, <3>1
      <3>3. thread' \in [Runs -> [pc : Runner!Outcomes
                                         \cup {"none", "next", "check", "clear"},
                                  pass : 0 .. Checks, fail : 0 .. Checks]]
        BY <1>1, <3>1
      <3> QED BY <1>1, <3>1, <3>2, <3>3 DEF Runner!TypeOK, Cell
    <2>6. RunInv(r)'
      <3>1. Runner!Verdict(thread[r]) = IF Count(s, "fail") = 0 THEN "ok" ELSE "failed"
        BY <2>2 DEF Runner!Verdict
      <3>2. Count(s, "fail") \in Nat
        BY TypesOfRun
      <3> QED
        BY <2>1, <2>2, <3>1, <3>2
           DEF RunInv, Counted, UnderWayLast, Concluded, Unstarted, Active, Runner!Outcomes
    <2> QED BY <2>3, <2>5, <2>6, OneRun
  <1>7. ASSUME NEW r \in Runs, Runner!Clear(r) PROVE RunnerInv'
    <2>1. /\ run'[r] = run[r] /\ result'[r] = result[r] /\ thread[r].pc = "clear"
          /\ thread'[r] = [pc |-> "none", pass |-> thread[r].pass,
                           fail |-> thread[r].fail]
      BY <1>1, <1>7 DEF Runner!Clear
    <2>2. \A q \in Runs \ {r} : run'[q] = run[q] /\ result'[q] = result[q]
                                /\ thread'[q] = thread[q]
      BY <1>1, <1>7 DEF Runner!Clear
    <2>3. Runner!TypeOK' /\ (result \in [Runs -> Seq(Cell)])'
      BY <1>1, <1>7 DEF Runner!Clear, Runner!TypeOK, Cell
    <2>4. RunInv(r)'
      BY <2>1, TypesOfRun
         DEF RunInv, Counted, UnderWayLast, Concluded, Unstarted, Active, Runner!Outcomes,
             Runner!NoThread
    <2> QED BY <2>2, <2>3, <2>4, OneRun
  <1>8. ASSUME Runner!ProcessEnds PROVE RunnerInv'
    <2>1. run' = run /\ result' = result
          /\ \A r \in Runs : thread'[r] = Runner!NoThread
      BY <1>8 DEF Runner!ProcessEnds
    <2>2. Runner!TypeOK' /\ (result \in [Runs -> Seq(Cell)])'
      BY <1>1, <1>8 DEF Runner!ProcessEnds, Runner!TypeOK, Cell, Runner!NoThread
    <2>3. ASSUME NEW r \in Runs PROVE RunInv(r)'
      BY <2>1, TypesOfRun
         DEF RunInv, Counted, UnderWayLast, Concluded, Unstarted, Active, Runner!Outcomes,
             Runner!NoThread
    <2> QED BY <2>2, <2>3 DEF RunnerInv
  <1>9. ASSUME UNCHANGED Runner!vars PROVE RunnerInv'
    BY <1>9 DEF Runner!vars, RunnerInv, Runner!TypeOK, RunInv, Unstarted, Counted,
       UnderWayLast, Concluded, Cell
  <1> QED
    BY <1>2, <1>3, <1>4, <1>5, <1>6, <1>7, <1>8, <1>9
       DEF Runner!Next, Runner!CockpitStarts, Runner!WizardStarts

\* _run, status: the summary of a run agrees with its report, for runs side
\* by side and one its process left behind, and a verdict is only given on
\* all checks.
THEOREM SummaryAgrees == CareSpec => [](RunnerInv /\ SummaryTrue)
PROOF
  <1>1. Runner!Assumption
    BY CareAssumption
  <1>2. Runner!Init => RunnerInv
    BY <1>1, InitRunner
  <1>3. RunnerInv /\ [Runner!Next]_(Runner!vars) => RunnerInv'
    BY <1>1, StepRunner
  <1>4. RunnerInv => SummaryTrue
    <2> SUFFICES ASSUME RunnerInv, NEW r \in Runs
                 PROVE  /\ run[r].pass = Runner!Rows(r, "ok")
                        /\ run[r].fail = Runner!Rows(r, "fail")
                        /\ run[r].state = "ok" =>
                             Len(result[r]) = Checks /\ Runner!Rows(r, "fail") = 0
                             /\ Runner!Rows(r, "running") = 0
                        /\ run[r].state = "failed" => Runner!Rows(r, "fail") > 0
      BY DEF SummaryTrue, Runner!SummaryTrue
    <2>1. /\ Runner!Rows(r, "ok") = Count(result[r], "ok")
          /\ Runner!Rows(r, "fail") = Count(result[r], "fail")
          /\ Runner!Rows(r, "running") = Count(result[r], "running")
      BY DEF Runner!Rows, Count, Runner!Cardinality, Cardinality
    <2>2. RunInv(r) /\ result[r] \in Seq(Cell)
      BY <1>1, TypesOfRun
    <2>3. (\A i \in 1 .. Len(result[r]) : result[r][i] # "running")
            => Count(result[r], "running") = 0
      BY <2>2, CountType
    <2> QED BY <2>1, <2>2, <2>3 DEF RunInv, Counted, Concluded
  <1> QED BY <1>2, <1>3, <1>4, CareComposes, PTL DEF Runner!Spec

-----------------------------------------------------------------------------
(* The verdict on the camera. *)

LEMMA Remainder ==
  ASSUME NEW c \in Int, 0 < c, NEW q \in Int, NEW m \in Int, 0 <= m, m < c
  PROVE  (q * c + m) % c = m
PROOF OBVIOUS

\* A remainder of less than twice the divisor.
LEMMA Around ==
  ASSUME NEW c \in Nat \ {0}, NEW x \in Nat, x < 2 * c
  PROVE  x % c = (IF x < c THEN x ELSE x - c)
PROOF
  <1>1. CASE x < c
    <2>1. (0 * c + x) % c = x
      BY <1>1, Remainder
    <2> QED BY <1>1, <2>1
  <1>2. CASE c <= x
    <2>1. x - c \in Int /\ 0 <= x - c /\ x - c < c /\ c \in Int /\ 0 < c
      BY <1>2
    <2>2. (1 * c + (x - c)) % c = x - c
      BY <2>1, Remainder
    <2>3. 1 * c + (x - c) = x
      OBVIOUS
    <2> QED BY <1>2, <2>2, <2>3
  <1> QED BY <1>1, <1>2

\* The product of two numbers, none of them nought, is not less than either.
LEMMA ProductBound ==
  ASSUME NEW a \in Nat, NEW b \in Nat \ {0} PROVE a * b \in Nat /\ a <= a * b
PROOF
  <1>1. PICK c \in Nat : b = c + 1
    <2>1. b - 1 \in Nat /\ b = (b - 1) + 1
      OBVIOUS
    <2> QED BY <2>1
  <1>2. a * (c + 1) = a * c + a /\ a * c \in Nat
    OBVIOUS
  <1> QED BY <1>1, <1>2

\* The clock goes on by a minute, over midnight and the end of the week.
LEMMA ClockGoesOn ==
  ASSUME NEW d \in Nat \ {0}, NEW w \in Nat \ {0}, NEW t \in 0 .. d * w - 1
  PROVE  /\ t % d \in 0 .. d - 1
         /\ (t + 1) % (d * w) \in 0 .. d * w - 1
         /\ ((t + 1) % (d * w)) % d = IF (t % d) + 1 = d THEN 0 ELSE (t % d) + 1
PROOF
  <1> DEFINE q == t \div d  m == t % d  e == d * w
  <1>1. e \in Nat \ {0} /\ d <= e
    <2>1. d * w \in Nat /\ d <= d * w
      BY ProductBound
    <2> QED BY <2>1
  <1>2. t \in Nat /\ q \in Int /\ m \in Int /\ 0 <= m /\ m < d /\ t = q * d + m
    BY <1>1
  <1>3. t < e
    BY <1>1
  <1> HIDE DEF q, m, e
  <1>4. (t + 1) % e = IF t + 1 < e THEN t + 1 ELSE 0
    <2>1. t + 1 \in Nat /\ t + 1 < 2 * e
      BY <1>1, <1>2, <1>3
    <2>2. (t + 1) % e = IF t + 1 < e THEN t + 1 ELSE (t + 1) - e
      BY <1>1, <2>1, Around
    <2> QED BY <1>1, <1>2, <1>3, <2>2
  <1>5. CASE t + 1 < e /\ m + 1 < d
    <2>1. (q * d + (m + 1)) % d = m + 1
      BY <1>2, <1>5, Remainder
    <2>2. t + 1 = q * d + (m + 1)
      <3>1. q * d \in Int
        BY <1>2
      <3> QED BY <1>2, <3>1
    <2>3. ((t + 1) % e) % d = m + 1
      BY <1>4, <1>5, <2>1, <2>2
    <2> QED BY <1>1, <1>2, <1>4, <1>5, <2>3 DEF m, e
  <1>6. CASE t + 1 < e /\ m + 1 = d
    <2>1. ((q + 1) * d + 0) % d = 0
      BY <1>2, Remainder
    <2>2. t + 1 = (q + 1) * d + 0
      <3>1. q * d \in Int /\ (q + 1) * d = q * d + d
        BY <1>2
      <3> QED BY <1>2, <1>6, <3>1
    <2>3. ((t + 1) % e) % d = 0
      BY <1>4, <1>6, <2>1, <2>2
    <2> QED BY <1>1, <1>2, <1>4, <1>6, <2>3 DEF m, e
  <1>7. CASE t + 1 = e
    <2>1. m = d - 1
      <3>1. ((w - 1) * d + (d - 1)) % d = d - 1
        BY Remainder
      <3>2. (w - 1) * d \in Int /\ d * w = (w - 1) * d + d
        OBVIOUS
      <3>3. t = (w - 1) * d + (d - 1)
        BY <1>2, <1>7, <3>2 DEF e
      <3> QED BY <3>1, <3>3 DEF m
    <2>2. 0 % d = 0
      <3>1. 0 < 2 * d
        OBVIOUS
      <3> QED BY <3>1, Around
    <2>3. ((t + 1) % e) % d = 0
      BY <1>1, <1>4, <1>7, <2>2
    <2> QED BY <1>1, <1>2, <1>4, <1>7, <2>1, <2>3 DEF m, e
  <1> QED BY <1>1, <1>2, <1>3, <1>5, <1>6, <1>7

\* The time since an hour is one more a minute later, or nought at that hour.
LEMMA HourGoesOn ==
  ASSUME NEW d \in Nat \ {0}, NEW f \in 0 .. d - 1, NEW m \in 0 .. d - 1,
         NEW n \in 0 .. d - 1, n = (IF m + 1 = d THEN 0 ELSE m + 1)
  PROVE  /\ (m + d - f) % d \in 0 .. d - 1
         /\ (n + d - f) % d = IF n = f THEN 0 ELSE ((m + d - f) % d) + 1
PROOF
  <1>1. /\ m + d - f \in Nat /\ m + d - f < 2 * d
        /\ n + d - f \in Nat /\ n + d - f < 2 * d
    OBVIOUS
  <1>2. (m + d - f) % d = IF m + d - f < d THEN m + d - f ELSE (m + d - f) - d
    BY <1>1, Around
  <1>3. (n + d - f) % d = IF n + d - f < d THEN n + d - f ELSE (n + d - f) - d
    BY <1>1, Around
  <1> QED BY <1>2, <1>3

\* A shot of this window that is still to land or to fail.
Pending == IF shot # "none" /\ ~Fresh!Earlier THEN 1 ELSE 0

\* A shot under way was just taken by a schedule that is on.
Timely ==
  /\ shot # "none" => on
  /\ shot = "taken" => next = plan.interval /\ Fresh!Active(now)
  /\ shot = "late" => next + 1 = plan.interval

\* The shots of this window without a photo were taken an interval apart: what
\* they span has gone by since the window opened, and since a photo landed.
Spans ==
  Fresh!Active(now) =>
    /\ (missed + Pending) * plan.interval <= Fresh!SinceOpen + next
    /\ (missed + Pending) * plan.interval <= age + next

\* Where no shot was left out and none has failed, no more than an interval
\* has gone by unseen, or two while a shot is under way.
Punctual ==
  Fresh!Active(now) /\ whole /\ missed = 0 =>
    Fresh!Stale + next <= plan.interval + (IF shot = "none" THEN 0 ELSE plan.interval)

FreshInv == Fresh!TypeOK /\ Timely /\ Spans /\ Punctual

LEMMA TypesOfVerdict ==
  ASSUME Fresh!Assumption, Fresh!TypeOK
  PROVE  /\ Day \in Nat \ {0} /\ Week \in Nat \ {0} /\ Grace \in Nat \ {0}
         /\ plan \in Plans /\ plan.interval \in Nat \ {0} /\ plan.from \in 0 .. Day - 1
         /\ now \in 0 .. Day * Week - 1 /\ next \in 0 .. plan.interval
         /\ shot \in {"none", "taken", "late"} /\ age \in 0 .. 2 * Day
         /\ missed \in 0 .. Day /\ Pending \in {0, 1}
         /\ on \in BOOLEAN /\ photo \in BOOLEAN /\ cam \in BOOLEAN /\ whole \in BOOLEAN
         /\ Fresh!Minute(now) \in 0 .. Day - 1 /\ Fresh!SinceOpen \in 0 .. Day - 1
         /\ (missed + Pending) * plan.interval \in Nat
PROOF
  <1>1. /\ Day \in Nat \ {0} /\ Week \in Nat \ {0} /\ Grace \in Nat \ {0}
        /\ plan \in Plans /\ plan.interval \in Nat \ {0} /\ plan.from \in 0 .. Day - 1
        /\ now \in 0 .. Day * Week - 1 /\ next \in 0 .. plan.interval
        /\ shot \in {"none", "taken", "late"} /\ age \in 0 .. 2 * Day
        /\ missed \in 0 .. Day /\ Pending \in {0, 1}
        /\ on \in BOOLEAN /\ photo \in BOOLEAN /\ cam \in BOOLEAN /\ whole \in BOOLEAN
    BY DEF Fresh!Assumption, Fresh!TypeOK, Fresh!AgeCap, Pending
  <1>2. Fresh!Minute(now) \in 0 .. Day - 1
    BY <1>1, ClockGoesOn DEF Fresh!Minute
  <1>3. Fresh!SinceOpen \in 0 .. Day - 1
    <2> DEFINE x == Fresh!Minute(now) + Day - plan.from
    <2>1. x \in Nat
      BY <1>1, <1>2
    <2> HIDE DEF x
    <2>2. x % Day \in 0 .. Day - 1
      BY <1>1, <2>1
    <2> QED BY <2>2 DEF Fresh!SinceOpen, x
  <1>4. (missed + Pending) * plan.interval \in Nat
    <2>1. missed + Pending \in Nat
      BY <1>1
    <2> QED BY <1>1, <2>1
  <1> QED BY <1>1, <1>2, <1>3, <1>4

\* With the clock the time since the window's hour goes on.
LEMMA SinceOpenGoesOn ==
  ASSUME Fresh!Assumption, Fresh!TypeOK, plan' = plan,
         now' = (now + 1) % (Day * Week)
  PROVE  /\ now' \in 0 .. Day * Week - 1
         /\ (Fresh!SinceOpen)' = IF Fresh!Minute(now') = plan.from THEN 0
                                 ELSE Fresh!SinceOpen + 1
PROOF
  <1>1. /\ Day \in Nat \ {0} /\ Week \in Nat \ {0} /\ plan.from \in 0 .. Day - 1
        /\ now \in 0 .. Day * Week - 1
    BY TypesOfVerdict
  <1>2. /\ now' \in 0 .. Day * Week - 1 /\ Fresh!Minute(now) \in 0 .. Day - 1
        /\ Fresh!Minute(now') = IF Fresh!Minute(now) + 1 = Day THEN 0
                                ELSE Fresh!Minute(now) + 1
    BY <1>1, ClockGoesOn DEF Fresh!Minute
  <1>3. Fresh!Minute(now') \in 0 .. Day - 1
    BY <1>1, <1>2
  <1>4. (Fresh!SinceOpen)' = (Fresh!Minute(now') + Day - plan.from) % Day
    BY DEF Fresh!SinceOpen, Fresh!Minute
  <1>5. Fresh!SinceOpen = (Fresh!Minute(now) + Day - plan.from) % Day
    BY DEF Fresh!SinceOpen
  <1> DEFINE m == Fresh!Minute(now)  n == Fresh!Minute(now')
  <1> HIDE DEF m, n
  <1>6. (n + Day - plan.from) % Day
          = IF n = plan.from THEN 0 ELSE ((m + Day - plan.from) % Day) + 1
    <2>1. /\ Day \in Nat \ {0} /\ plan.from \in 0 .. Day - 1 /\ m \in 0 .. Day - 1
          /\ n \in 0 .. Day - 1 /\ n = (IF m + 1 = Day THEN 0 ELSE m + 1)
      BY <1>1, <1>2, <1>3 DEF m, n
    <2> QED BY <2>1, HourGoesOn
  <1> QED BY <1>2, <1>4, <1>5, <1>6 DEF m, n

\* The schedule is off at first.
LEMMA InitFresh == ASSUME Fresh!Assumption, Fresh!Init PROVE FreshInv
PROOF
  <1>1. Day * Week \in Nat \ {0} /\ plan.interval \in Nat \ {0}
    <2>1. Day \in Nat \ {0} /\ Week \in Nat \ {0}
      BY DEF Fresh!Assumption
    <2>2. Day * Week \in Nat /\ Day <= Day * Week
      BY <2>1, ProductBound
    <2> QED BY <2>1, <2>2 DEF Fresh!Assumption, Fresh!Init
  <1>2. Fresh!TypeOK
    <2>1. 0 \in 0 .. Day * Week - 1
      BY <1>1
    <2>2. Fresh!AgeCap \in 0 .. Fresh!AgeCap /\ 0 \in 0 .. Day
      BY DEF Fresh!AgeCap, Fresh!Assumption
    <2>3. now \in 0 .. Day * Week - 1
      BY <2>1 DEF Fresh!Init
    <2>4. next \in 0 .. plan.interval /\ age \in 0 .. Fresh!AgeCap /\ missed \in 0 .. Day
      BY <1>1, <2>2 DEF Fresh!Init
    <2>5. /\ plan \in Plans /\ shot \in {"none", "taken", "late"} /\ on \in BOOLEAN
          /\ photo \in BOOLEAN /\ cam \in BOOLEAN /\ whole \in BOOLEAN
      BY DEF Fresh!Init
    <2> QED BY <2>3, <2>4, <2>5 DEF Fresh!TypeOK
  <1>3. ~Fresh!Active(now)
    BY DEF Fresh!Init, Fresh!Active
  <1> QED BY <1>2, <1>3 DEF Fresh!Init, FreshInv, Timely, Spans, Punctual

\* The window is a matter of the clock and the schedule.
LEMMA WindowStays ==
  ASSUME plan' = plan, on' = on, now' = now
  PROVE  /\ (Fresh!Active(now))' <=> Fresh!Active(now)
         /\ (Fresh!SinceOpen)' = Fresh!SinceOpen
PROOF
  BY DEF Fresh!Active, Fresh!SinceOpen, Fresh!Minute, Fresh!Weekday

\* Time: a window that opens has seen no shot; one that is open has seen one
\* unit more, and so have its shots.
LEMMA TickFresh ==
  ASSUME Fresh!Assumption, FreshInv, Fresh!Tick PROVE FreshInv'
PROOF
  <1> DEFINE A == Fresh!Active(now)  B == Fresh!Active(now')
             S == Fresh!SinceOpen  I == plan.interval
  <1>1. /\ Day \in Nat \ {0} /\ I \in Nat \ {0} /\ next \in 0 .. I
        /\ shot \in {"none", "taken", "late"} /\ age \in 0 .. 2 * Day
        /\ missed \in 0 .. Day /\ Pending \in {0, 1} /\ on \in BOOLEAN
        /\ whole \in BOOLEAN /\ S \in 0 .. Day - 1 /\ plan \in Plans
        /\ photo \in BOOLEAN /\ cam \in BOOLEAN
        /\ (missed + Pending) * I \in Nat
    BY TypesOfVerdict DEF FreshInv
  <1>2. Timely /\ Spans /\ Punctual /\ Fresh!TypeOK
    BY DEF FreshInv
  <1>3. /\ next > 0 /\ shot # "late" /\ now' = (now + 1) % (Day * Week)
        /\ next' = (IF on THEN next - 1 ELSE next)
        /\ shot' = (IF shot = "taken" THEN "late" ELSE shot)
        /\ age' = (IF age < 2 * Day THEN age + 1 ELSE age)
        /\ plan' = plan /\ on' = on /\ photo' = photo /\ cam' = cam
    BY <1>1, <1>2 DEF Fresh!Tick, Fresh!AgeCap
  <1>4. IF Fresh!Opens
        THEN missed' = 0 /\ whole' = (Fresh!Minute(now') = plan.from)
        ELSE missed' = missed /\ whole' = whole
    BY DEF Fresh!Tick
  <1>5. (Fresh!Active(now))' <=> B
    BY <1>3 DEF Fresh!Active
  <1>6. /\ now' \in 0 .. Day * Week - 1
        /\ (Fresh!SinceOpen)' = IF Fresh!Minute(now') = plan.from THEN 0 ELSE S + 1
    BY <1>2, <1>3, SinceOpenGoesOn
  <1>7. Fresh!Opens <=> B /\ (~A \/ Fresh!Minute(now') = plan.from)
    BY DEF Fresh!Opens
  <1>8. (A => on) /\ (B => on)
    BY DEF Fresh!Active
  <1>9. (shot # "none" => on) /\ (shot = "taken" => next = I /\ A)
    BY <1>2 DEF Timely
  <1>10. Fresh!TypeOK'
    <2>1. whole' \in BOOLEAN /\ missed' \in 0 .. Day
      <3>1. missed' \in 0 .. Day
        BY <1>1, <1>4
      <3>2. whole' \in BOOLEAN
        BY <1>1, <1>4, Zenon
      <3> QED BY <3>1, <3>2
    <2>2. next' \in 0 .. I /\ age' \in 0 .. 2 * Day /\ shot' \in {"none", "taken", "late"}
      BY <1>1, <1>3
    <2> QED BY <1>1, <1>3, <1>6, <2>1, <2>2 DEF Fresh!TypeOK, Fresh!AgeCap
  <1>11. Pending = IF shot = "taken" THEN 1 ELSE 0
    BY <1>1, <1>3 DEF Pending, Fresh!Earlier
  <1>12. Pending' = IF shot' = "late" /\ (Fresh!SinceOpen)' # 0 THEN 1 ELSE 0
    BY <1>1, <1>3 DEF Pending, Fresh!Earlier
  <1> HIDE DEF A, B, S, I
  <1>13. Timely'
    <2>1. shot' # "taken" /\ (shot' # "none" => shot = "taken")
      BY <1>1, <1>3
    <2>2. shot' # "none" => on' /\ next' + 1 = plan'.interval
      BY <1>1, <1>3, <1>9, <2>1 DEF I
    <2> QED BY <2>1, <2>2 DEF Timely
  <1>14. CASE B /\ Fresh!Opens
    <2>1. missed' = 0 /\ Pending' = 0
      <3>1. CASE Fresh!Minute(now') = plan.from
        BY <1>4, <1>6, <1>12, <1>14, <3>1
      <3>2. CASE ~A
        BY <1>1, <1>3, <1>4, <1>9, <1>12, <1>14, <3>2
      <3> QED BY <1>7, <1>14, <3>1, <3>2
    <2>2. (missed' + Pending') * plan'.interval = 0
      BY <1>1, <1>3, <2>1 DEF I
    <2>3. (Fresh!SinceOpen)' \in Nat /\ age' \in Nat /\ next' \in Nat
      BY <1>1, <1>3, <1>6
    <2>4. Spans'
      BY <2>2, <2>3 DEF Spans
    <2>5. whole' => (Fresh!Stale)' = 0
      <3>1. whole' => Fresh!Minute(now') = plan.from
        BY <1>4, <1>14, Zenon
      <3> QED BY <1>6, <2>3, <3>1 DEF Fresh!Stale
    <2>6. Punctual'
      <3>1. plan'.interval = I /\ next' \in 0 .. I /\ I \in Nat
        BY <1>1, <1>3 DEF I
      <3>2. SUFFICES ASSUME whole'
                     PROVE  (Fresh!Stale)' + next' <= plan'.interval
                              + (IF shot' = "none" THEN 0 ELSE plan'.interval)
        BY DEF Punctual
      <3>3. (Fresh!Stale)' = 0
        BY <2>5, <3>2, Zenon
      <3>4. PICK n \in 0 .. I : n = next'
        BY <3>1
      <3>5. 0 + n <= I + (IF shot' = "none" THEN 0 ELSE I)
        BY <3>1
      <3> QED BY <3>1, <3>3, <3>4, <3>5
    <2> QED BY <1>10, <1>13, <2>4, <2>6 DEF FreshInv
  <1>15. CASE B /\ ~Fresh!Opens
    <2>1. /\ A /\ on /\ (Fresh!SinceOpen)' = S + 1 /\ missed' = missed
          /\ whole' = whole /\ next' = next - 1 /\ Fresh!Minute(now') # plan.from
      BY <1>3, <1>4, <1>6, <1>7, <1>8, <1>15
    <2>2. Pending' = Pending
      <3>1. S + 1 # 0
        BY <1>1
      <3> QED BY <1>1, <1>3, <1>11, <1>12, <2>1, <3>1
    <2>3. /\ (missed + Pending) * I <= S + next /\ (missed + Pending) * I <= age + next
      BY <1>2, <2>1 DEF Spans, A, S, I
    <2>4. Spans'
      <3>1. /\ (missed + Pending) * I <= (S + 1) + (next - 1)
            /\ (missed + Pending) * I <= age' + (next - 1)
        BY <1>1, <1>3, <2>3
      <3>2. (missed' + Pending') * plan'.interval = (missed + Pending) * I
        BY <1>3, <2>1, <2>2 DEF I
      <3> QED BY <2>1, <3>1, <3>2 DEF Spans
    <2>5. Fresh!Stale \in Nat /\ (Fresh!Stale)' <= Fresh!Stale + 1 /\ (Fresh!Stale)' \in Nat
      BY <1>1, <1>3, <2>1 DEF Fresh!Stale, S
    <2>6. Punctual'
      <3> SUFFICES ASSUME whole', missed' = 0
                   PROVE  (Fresh!Stale)' + next' <= plan'.interval
                            + (IF shot' = "none" THEN 0 ELSE plan'.interval)
        BY DEF Punctual
      <3>1. Fresh!Stale + next <= I + (IF shot = "none" THEN 0 ELSE I)
        BY <1>2, <2>1 DEF Punctual, A, I
      <3>2. plan'.interval = I /\ (shot' = "none" <=> shot = "none")
        BY <1>1, <1>3 DEF I
      <3>3. (Fresh!Stale)' + next' <= I + (IF shot = "none" THEN 0 ELSE I)
        <4> DEFINE b == I + (IF shot = "none" THEN 0 ELSE I)
        <4>1. b \in Nat /\ Fresh!Stale + next <= b
          BY <1>1, <3>1
        <4> HIDE DEF b
        <4>2. (Fresh!Stale)' + next' <= b
          BY <1>1, <2>1, <2>5, <4>1 DEF Fresh!Stale
        <4> QED BY <4>2 DEF b
      <3> QED BY <3>2, <3>3
    <2> QED BY <1>10, <1>13, <2>4, <2>6 DEF FreshInv
  <1>16. CASE ~B
    <2>1. Spans' /\ Punctual'
      BY <1>5, <1>16 DEF Spans, Punctual
    <2> QED BY <1>10, <1>13, <2>1 DEF FreshInv
  <1> QED BY <1>14, <1>15, <1>16

\* A shot that is taken opens the next interval when the last is over.
LEMMA FireFresh ==
  ASSUME Fresh!Assumption, FreshInv, Fresh!Fire PROVE FreshInv'
PROOF
  <1> DEFINE A == Fresh!Active(now)  S == Fresh!SinceOpen  I == plan.interval
  <1>1. /\ I \in Nat \ {0} /\ age \in Nat /\ S \in Nat /\ missed \in Nat
        /\ (missed + Pending) * I \in Nat
    BY TypesOfVerdict DEF FreshInv
  <1>2. Spans /\ Punctual /\ Fresh!TypeOK
    BY DEF FreshInv
  <1>3. /\ on /\ next = 0 /\ shot = "none" /\ next' = I
        /\ shot' = (IF A THEN "taken" ELSE "none")
        /\ plan' = plan /\ on' = on /\ now' = now /\ age' = age
        /\ missed' = missed /\ whole' = whole
    BY DEF Fresh!Fire
  <1>4. ((Fresh!Active(now))' <=> A) /\ (Fresh!SinceOpen)' = S
    BY <1>3, WindowStays
  <1>5. Fresh!TypeOK'
    BY <1>1, <1>2 DEF Fresh!Fire, Fresh!TypeOK, Fresh!AgeCap
  <1>6. Timely'
    BY <1>3, <1>4 DEF Timely
  <1>7. Pending = 0
    BY <1>3 DEF Pending
  <1>8. CASE A
    <2>1. Pending' = 1
      BY <1>3, <1>8 DEF Pending, Fresh!Earlier
    <2>2. (missed' + Pending') * plan'.interval = missed * I + I /\ missed * I \in Nat
      BY <1>1, <1>3, <2>1
    <2>3. missed * I <= S /\ missed * I <= age
      BY <1>1, <1>2, <1>3, <1>7, <1>8 DEF Spans
    <2> HIDE DEF A, S, I
    <2>4. Spans'
      <3>1. missed * I + I <= S + I /\ missed * I + I <= age + I
        BY <1>1, <2>2, <2>3
      <3> QED BY <1>3, <1>4, <2>2, <3>1 DEF Spans
    <2>5. Punctual'
      <3>1. (Fresh!Stale)' = Fresh!Stale /\ Fresh!Stale \in Nat
        BY <1>1, <1>3, <1>4 DEF Fresh!Stale, S
      <3>2. whole /\ missed = 0 => Fresh!Stale <= I
        BY <1>1, <1>2, <1>3, <1>8, <3>1 DEF Punctual, A, I
      <3>3. whole /\ missed = 0 => Fresh!Stale + I <= I + I
        BY <1>1, <3>1, <3>2
      <3>4. shot' # "none" /\ plan'.interval = I
        BY <1>3, <1>8 DEF I
      <3> QED BY <1>3, <3>1, <3>3, <3>4 DEF Punctual
    <2> QED BY <1>5, <1>6, <2>4, <2>5 DEF FreshInv
  <1>9. CASE ~A
    <2>1. Spans' /\ Punctual'
      BY <1>4, <1>9 DEF Spans, Punctual
    <2> QED BY <1>5, <1>6, <2>1 DEF FreshInv
  <1> QED BY <1>8, <1>9

\* A photo that lands ends what was missed.
LEMMA LandFresh ==
  ASSUME Fresh!Assumption, FreshInv, Fresh!Land PROVE FreshInv'
PROOF
  <1>1. /\ plan.interval \in Nat \ {0} /\ Fresh!SinceOpen \in Nat /\ Day \in Nat
        /\ next \in 0 .. plan.interval
    BY TypesOfVerdict DEF FreshInv
  <1>2. /\ shot' = "none" /\ plan' = plan /\ on' = on /\ now' = now /\ next' = next
        /\ age' = 0 /\ missed' = 0
    BY DEF Fresh!Land
  <1>3. Fresh!TypeOK'
    BY <1>1 DEF FreshInv, Fresh!Land, Fresh!TypeOK, Fresh!AgeCap
  <1>4. (Fresh!SinceOpen)' = Fresh!SinceOpen
    BY <1>2, WindowStays
  <1>5. (missed' + Pending') * plan'.interval = 0
    BY <1>1, <1>2 DEF Pending
  <1>6. (Fresh!Stale)' = 0
    BY <1>1, <1>2, <1>4 DEF Fresh!Stale
  <1>7. Spans'
    BY <1>1, <1>2, <1>4, <1>5 DEF Spans
  <1>8. Punctual'
    <2>1. 0 + next <= plan.interval + 0
      BY <1>1
    <2> QED BY <1>2, <1>6, <2>1 DEF Punctual
  <1> QED BY <1>2, <1>3, <1>7, <1>8 DEF FreshInv, Timely

\* A shot that fails is one that was pending, or none of this window.
LEMMA FailFresh ==
  ASSUME Fresh!Assumption, FreshInv, Fresh!Fail PROVE FreshInv'
PROOF
  <1> DEFINE A == Fresh!Active(now)  S == Fresh!SinceOpen  I == plan.interval
  <1>1. /\ I \in Nat \ {0} /\ age \in Nat /\ S \in 0 .. Day - 1 /\ missed \in 0 .. Day
        /\ next \in 0 .. I /\ Day \in Nat \ {0}
        /\ (missed + Pending) * I \in Nat
    BY TypesOfVerdict DEF FreshInv
  <1>2. Spans /\ Punctual /\ Fresh!TypeOK
    BY DEF FreshInv
  <1>3. /\ shot # "none" /\ shot' = "none" /\ next' = next
        /\ missed' = (IF missed < Day /\ ~Fresh!Earlier THEN missed + 1 ELSE missed)
        /\ plan' = plan /\ on' = on /\ now' = now /\ age' = age /\ whole' = whole
    BY DEF Fresh!Fail
  <1>4. ((Fresh!Active(now))' <=> A) /\ (Fresh!SinceOpen)' = S
    BY <1>3, WindowStays
  <1>5. Fresh!TypeOK'
    <2>1. missed' \in 0 .. Day
      BY <1>1, <1>3
    <2> QED BY <1>1, <1>2, <2>1 DEF Fresh!Fail, Fresh!TypeOK, Fresh!AgeCap
  <1>6. Timely'
    BY <1>3 DEF Timely
  <1>7. Pending' = 0
    BY <1>3 DEF Pending
  <1>8. Fresh!Earlier => S = 0
    BY DEF Fresh!Earlier
  <1>9. Pending = IF Fresh!Earlier THEN 0 ELSE 1
    BY <1>3 DEF Pending
  <1> HIDE DEF A, S, I
  <1>10. CASE A
    <2>1. (missed + Pending) * I <= S + next /\ (missed + Pending) * I <= age + next
      BY <1>2, <1>10 DEF Spans, A, S, I
    <2>2. missed' = missed + Pending
      <3>1. CASE Fresh!Earlier
        BY <1>1, <1>3, <1>9, <3>1
      <3>2. CASE ~Fresh!Earlier /\ missed < Day
        BY <1>3, <1>9, <3>2
      <3>3. ASSUME ~Fresh!Earlier, missed = Day PROVE FALSE
        <4>1. (Day + 1) * I = Day * I + I
          BY <1>1
        <4>2. Day <= Day * I /\ Day * I \in Nat
          BY <1>1, ProductBound
        <4>3. (Day + 1) * I <= S + next
          BY <1>9, <2>1, <3>3
        <4> QED BY <1>1, <4>1, <4>2, <4>3
      <3> QED BY <1>1, <3>1, <3>2, <3>3
    <2>3. Spans'
      <3>1. (missed' + Pending') * plan'.interval = (missed + Pending) * I
        <4>1. missed' + Pending' = missed + Pending
          BY <1>1, <1>7, <1>9, <2>2
        <4> QED BY <1>3, <4>1 DEF I
      <3> QED BY <1>3, <1>4, <2>1, <3>1 DEF Spans
    <2>4. Punctual'
      <3> SUFFICES ASSUME missed' = 0
                   PROVE  (Fresh!Stale)' + next' <= plan'.interval
                            + (IF shot' = "none" THEN 0 ELSE plan'.interval)
        BY DEF Punctual
      <3>1. S = 0
        BY <1>1, <1>8, <1>9, <2>2
      <3>2. (Fresh!Stale)' = 0
        BY <1>1, <1>3, <1>4, <3>1 DEF Fresh!Stale
      <3>3. 0 + next <= I + 0
        BY <1>1
      <3> QED BY <1>3, <3>2, <3>3 DEF I
    <2> QED BY <1>5, <1>6, <2>3, <2>4 DEF FreshInv
  <1>11. CASE ~A
    <2>1. Spans' /\ Punctual'
      BY <1>4, <1>11 DEF Spans, Punctual
    <2> QED BY <1>5, <1>6, <2>1 DEF FreshInv
  <1> QED BY <1>10, <1>11

\* What ends the count: a shot left out, and a schedule turned on or off.
LEMMA RestFresh ==
  ASSUME Fresh!Assumption, FreshInv,
         \/ Fresh!Skip \/ Fresh!Toggle \/ Fresh!CameraBreaks \/ Fresh!CameraWorks
         \/ UNCHANGED Fresh!vars
  PROVE  FreshInv'
PROOF
  <1>1. /\ plan.interval \in Nat \ {0} /\ Fresh!SinceOpen \in Nat /\ Day \in Nat
        /\ next \in 0 .. plan.interval /\ age \in Nat
    BY TypesOfVerdict DEF FreshInv
  <1>2. CASE Fresh!Skip \/ Fresh!Toggle
    <2>1. /\ shot' = "none" /\ missed' = 0 /\ whole' = FALSE /\ plan' = plan
          /\ now' = now /\ age' = age
      BY <1>2 DEF Fresh!Skip, Fresh!Toggle
    <2>2. on' \in BOOLEAN /\ next' \in 0 .. plan.interval
      <3>1. CASE Fresh!Skip
        BY <1>1, <3>1 DEF FreshInv, Fresh!TypeOK, Fresh!Skip
      <3>2. CASE Fresh!Toggle
        <4>1. on' = ~on /\ next' = plan.interval
          BY <3>2 DEF Fresh!Toggle
        <4> QED BY <1>1, <4>1
      <3> QED BY <1>2, <3>1, <3>2
    <2>3. Fresh!TypeOK'
      <3>1. photo' = photo /\ cam' = cam
        BY <1>2 DEF Fresh!Skip, Fresh!Toggle
      <3>2. 0 \in 0 .. Day
        BY <1>1
      <3> QED BY <2>1, <2>2, <3>1, <3>2 DEF FreshInv, Fresh!TypeOK, Fresh!AgeCap
    <2>4. (missed' + Pending') * plan'.interval = 0
      BY <1>1, <2>1 DEF Pending
    <2>5. (Fresh!SinceOpen)' = Fresh!SinceOpen
      BY <2>1 DEF Fresh!SinceOpen, Fresh!Minute
    <2>6. Spans'
      BY <1>1, <2>1, <2>2, <2>4, <2>5 DEF Spans
    <2> QED BY <2>1, <2>3, <2>6 DEF FreshInv, Timely, Punctual
  <1>3. CASE Fresh!CameraBreaks \/ Fresh!CameraWorks \/ UNCHANGED Fresh!vars
    <2>1. UNCHANGED <<plan, on, now, next, shot, photo, age, missed, whole>>
      BY <1>3 DEF Fresh!CameraBreaks, Fresh!CameraWorks, Fresh!vars
    <2>2. Fresh!TypeOK'
      BY <1>3 DEF FreshInv, Fresh!CameraBreaks, Fresh!CameraWorks, Fresh!vars, Fresh!TypeOK
    <2>3. (Fresh!Active(now))' = Fresh!Active(now) /\ (Fresh!SinceOpen)' = Fresh!SinceOpen
      BY <2>1 DEF Fresh!Active, Fresh!SinceOpen, Fresh!Minute, Fresh!Weekday
    <2> QED
      BY <2>1, <2>2, <2>3
         DEF FreshInv, Timely, Spans, Punctual, Pending, Fresh!Earlier, Fresh!Stale
  <1> QED BY <1>2, <1>3

LEMMA StepFresh ==
  ASSUME Fresh!Assumption, FreshInv, [Fresh!Next]_(Fresh!vars) PROVE FreshInv'
PROOF
  BY TickFresh, FireFresh, LandFresh, FailFresh, RestFresh DEF Fresh!Next

\* _capture_freshness: a station whose shots all land on schedule is never
\* called sick, whatever its windows, but where no shot was asked for.
THEOREM NoFalseAlarmHolds == CareSpec => [](FreshInv /\ NoFalseAlarm)
PROOF
  <1>1. Fresh!Assumption
    BY CareAssumption
  <1>2. Fresh!Init => FreshInv
    BY <1>1, InitFresh
  <1>3. FreshInv /\ [Fresh!Next]_(Fresh!vars) => FreshInv'
    BY <1>1, StepFresh
  <1>4. FreshInv => NoFalseAlarm
    <2> SUFFICES ASSUME FreshInv, whole, missed = 0, Fresh!Active(now), photo
                 PROVE  Fresh!CameraCheck = "ok"
      BY Zenon DEF NoFalseAlarm, Fresh!NoFalseAlarm, Fresh!CameraCheck
    <2>1. /\ plan.interval \in Nat \ {0} /\ next \in 0 .. plan.interval
          /\ Grace \in Nat \ {0} /\ Fresh!SinceOpen \in Nat /\ age \in Nat
          /\ shot \in {"none", "taken", "late"}
      BY <1>1, TypesOfVerdict DEF FreshInv
    <2>2. Fresh!Stale \in Nat
      BY <2>1 DEF Fresh!Stale
    <2>3. Fresh!Stale + next <=
            plan.interval + (IF shot = "none" THEN 0 ELSE plan.interval)
      BY DEF FreshInv, Punctual
    <2>4. Fresh!Stale <= plan.interval + Grace
      <3>1. CASE shot = "none"
        BY <2>1, <2>2, <2>3, <3>1
      <3>2. CASE shot # "none"
        <4>1. next + 1 >= plan.interval
          BY <2>1, <3>2 DEF FreshInv, Timely
        <4> QED BY <2>1, <2>2, <2>3, <3>2, <4>1
      <3> QED BY <3>1, <3>2
    <2>5. ~(Fresh!Stale > plan.interval + Grace)
      BY <2>1, <2>2, <2>4
    <2>6. ~Fresh!TooOld
      <3>1. 2 * plan.interval + Grace >= plan.interval + Grace
        BY <2>1
      <3> QED BY <2>1, <2>2, <2>4, <3>1 DEF Fresh!TooOld
    <2> QED BY <2>5, <2>6 DEF Fresh!CameraCheck
  <1> QED BY <1>2, <1>3, <1>4, CareComposes, PTL DEF Fresh!Spec

\* _capture_freshness: no outage within a window is missed.
THEOREM OutageShowsHolds == CareSpec => []OutageShows
PROOF
  <1>1. Fresh!Assumption
    BY CareAssumption
  <1>2. FreshInv => OutageShows
    <2> SUFFICES ASSUME FreshInv, photo, Fresh!Active(now),
                        missed * plan.interval > 3 * plan.interval + Grace
                 PROVE  Fresh!CameraCheck = "bad"
      BY DEF OutageShows, Fresh!OutageShows
    <2> DEFINE I == plan.interval  S == Fresh!SinceOpen
    <2>1. /\ I \in Nat \ {0} /\ next \in 0 .. I
          /\ Grace \in Nat \ {0} /\ S \in Nat /\ age \in Nat
          /\ missed \in Nat /\ Pending \in {0, 1}
      BY <1>1, TypesOfVerdict DEF FreshInv
    <2>2. (missed + Pending) * I <= S + next /\ (missed + Pending) * I <= age + next
      BY DEF FreshInv, Spans
    <2>3. missed * I > 3 * I + Grace
      OBVIOUS
    <2> HIDE DEF I, S
    <2>4. missed * I \in Nat /\ missed * I <= (missed + Pending) * I
      <3>1. (missed + 0) * I = missed * I /\ (missed + 1) * I = missed * I + I
            /\ missed * I \in Nat
        BY <2>1
      <3> QED BY <2>1, <3>1
    <2>5. S > 2 * I + Grace /\ age > 2 * I + Grace
      <3> DEFINE p == missed * I  q == (missed + Pending) * I
      <3>1. p \in Nat /\ q \in Int /\ p <= q /\ p > 3 * I + Grace
            /\ q <= S + next /\ q <= age + next
        BY <2>1, <2>2, <2>3, <2>4
      <3> HIDE DEF p, q
      <3> QED BY <2>1, <3>1
    <2>6. Fresh!TooOld
      BY <2>5 DEF Fresh!TooOld, Fresh!Stale, I, S
    <2> QED BY <2>6 DEF Fresh!CameraCheck
  <1> QED BY <1>2, NoFalseAlarmHolds, PTL
-----------------------------------------------------------------------------
(* The boot guard: what BootGuardProofs proves of it alone.  An instance of a
   module of proofs has operators of its own, which are those of Boot. *)

Guarded == INSTANCE BootGuardProofs WITH MaxRows <- MaxWritten

LEMMA SameConstants == Boot!Assumption => Guarded!Assumption
  BY DEF Boot!Assumption, Guarded!Assumption

LEMMA SameInit == Boot!Init => Guarded!Init
  BY DEF Boot!Init, Guarded!Init, Boot!NoFile, Guarded!NoFile, Boot!NoBackup,
         Guarded!NoBackup

LEMMA SameGuard == Boot!Guard => Guarded!Guard
PROOF
  <1> USE DEF Boot!NoFile, Guarded!NoFile, Boot!Sound, Guarded!Sound, Boot!Chosen,
              Guarded!Chosen, Boot!boundVars, Guarded!boundVars
  <1>1. Boot!BootFresh => Guarded!BootFresh BY DEF Boot!BootFresh, Guarded!BootFresh
  <1>2. Boot!BootCheck => Guarded!BootCheck
    BY DEF Boot!BootCheck, Guarded!BootCheck, Boot!CheckOk, Guarded!CheckOk
  <1>3. Boot!ChooseSnapshot => Guarded!ChooseSnapshot
    BY DEF Boot!ChooseSnapshot, Guarded!ChooseSnapshot
  <1>4. Boot!NothingToRestore => Guarded!NothingToRestore
    BY DEF Boot!NothingToRestore, Guarded!NothingToRestore
  <1>5. Boot!MoveAside => Guarded!MoveAside BY DEF Boot!MoveAside, Guarded!MoveAside
  <1>6. Boot!Install => Guarded!Install BY DEF Boot!Install, Guarded!Install
  <1>7. Boot!InstallFails => Guarded!InstallFails
    BY DEF Boot!InstallFails, Guarded!InstallFails
  <1>8. Boot!Open => Guarded!Open
    BY DEF Boot!Open, Guarded!Open, Boot!Opened, Guarded!Opened
  <1>9. Boot!OpenRaises => Guarded!OpenRaises
    BY DEF Boot!OpenRaises, Guarded!OpenRaises, Boot!Opened, Guarded!Opened
  <1> QED
    BY <1>1, <1>2, <1>3, <1>4, <1>5, <1>6, <1>7, <1>8, <1>9
       DEF Boot!Guard, Guarded!Guard

LEMMA SameStep == [Boot!Next]_(Boot!vars) => [Guarded!Next]_(Guarded!vars)
PROOF
  <1> USE DEF Boot!Sound, Guarded!Sound, Boot!Chosen, Guarded!Chosen, Boot!boundVars,
              Guarded!boundVars, Boot!appVars, Guarded!appVars, Boot!NoFile,
              Guarded!NoFile, Boot!NoBackup, Guarded!NoBackup
  <1>1. ASSUME NEW t \in Threads PROVE Boot!Write(t) => Guarded!Write(t)
    BY DEF Boot!Write, Guarded!Write
  <1>2. Boot!CopyDatabase => Guarded!CopyDatabase
    BY DEF Boot!CopyDatabase, Guarded!CopyDatabase
  <1>3. Boot!PublishSnapshot => Guarded!PublishSnapshot
    BY DEF Boot!PublishSnapshot, Guarded!PublishSnapshot, Boot!Expired, Guarded!Expired,
           Boot!Snapshot, Guarded!Snapshot
  <1>4. Boot!InterruptBackup => Guarded!InterruptBackup
    BY DEF Boot!InterruptBackup, Guarded!InterruptBackup
  <1>5. Boot!NextDay => Guarded!NextDay BY DEF Boot!NextDay, Guarded!NextDay
  <1>6. ASSUME NEW h \in Boot!Healths
        PROVE  h \in Guarded!Healths /\ (Boot!Damage(h) => Guarded!Damage(h))
    BY DEF Boot!Damage, Guarded!Damage, Boot!Healths, Guarded!Healths
  <1>7. Boot!Crash => Guarded!Crash BY DEF Boot!Crash, Guarded!Crash
  <1>8. UNCHANGED Boot!vars => UNCHANGED Guarded!vars BY DEF Boot!vars, Guarded!vars
  <1>9. Boot!Next => Guarded!Next
    BY SameGuard, <1>1, <1>2, <1>3, <1>4, <1>5, <1>6, <1>7 DEF Boot!Next, Guarded!Next
  <1> QED BY <1>8, <1>9

\* Every behaviour of the composition is one that BootGuardProofs speaks of.
LEMMA CareGuards == CareSpec => Guarded!SafetySpec
  BY SameInit, SameStep, CareComposes, PTL DEF Boot!SafetySpec, Guarded!SafetySpec

\* backup.restore_latest: unless a restore is cut off between its renames, a running
\* station with a sound database has every row of every sound snapshot.
THEOREM NoSnapshotIsLost == CareSpec => []SnapshotsSurvive
PROOF
  <1>1. Guarded!SafetySpec => []Guarded!SnapshotsSurvive
    BY Guarded!NoSnapshotIsLost, CareAssumption, SameConstants
       DEF CareAssumption
  <1>2. Guarded!SnapshotsSurvive => SnapshotsSurvive
    BY DEF Guarded!SnapshotsSurvive, SnapshotsSurvive, Boot!SnapshotsSurvive,
           Guarded!Sound, Boot!Sound
  <1> QED BY <1>1, <1>2, CareGuards, PTL

\* backup._rotate_old_snapshots: a sound snapshot outlives RetainDays of damaged
\* ones made after it.
THEOREM SnapshotsOutliveDamage == CareSpec => []AWeekToNotice
PROOF
  <1>1. Guarded!SafetySpec => []Guarded!AWeekToNotice
    BY Guarded!SnapshotsOutliveDamage, CareAssumption, SameConstants
       DEF CareAssumption
  <1>2. Guarded!AWeekToNotice => AWeekToNotice
    BY DEF Guarded!AWeekToNotice, AWeekToNotice, Boot!AWeekToNotice,
           Guarded!Sound, Boot!Sound
  <1> QED BY <1>1, <1>2, CareGuards, PTL
===============================================================================
