---------------------------- MODULE StationProofs -----------------------------
(***************************************************************************)
(* PIN, sessions and wizard, proved for any number of browsers, addresses, *)
(* publisher threads, edits and crashes: a revoked session is never        *)
(* accepted again, and a closed wizard has armed its schedule.             *)
(***************************************************************************)
EXTENDS Station, TLAPS

FailType == [count : 0 .. MaxAttempts, age : 0 .. Window + 1]
CookieType == [epoch : Nat, mark : {"none", "live", "revoked", "before"}]

\* Tokens of an earlier epoch are behind the file's, live ones not ahead.
Sessions ==
  \A c \in Clients :
    /\ cookie[c].mark = "revoked" => cookie[c].epoch < auth.epoch
    /\ cookie[c].mark = "live" => cookie[c].epoch <= auth.epoch

\* A request of the wizard that has passed the gate still finds it open; the
\* last step keeps the PIN and arms the schedule before it sets the flag; only
\* a factory reset leaves the flag without a PIN.
Wizard ==
  /\ pending # "none" => GateOpen /\ doing \notin {"arm", "complete"}
  /\ doing \in {"arm", "complete"} => auth.pin
  /\ doing = "complete" => sched # "paused"
  /\ doing = "wipeStation" => ~auth.pin
  /\ station.done /\ ~auth.pin /\ ~cut => doing = "wipeStation"

StationInv == TypeOK /\ Sessions /\ Wizard /\ FinishedIsArmed

-----------------------------------------------------------------------------
(* What the operators of the module return. *)

\* The counters of failures keep their type.
LEMMA FailsType ==
  ASSUME TypeOK, NEW a \in Addrs
  PROVE  /\ Failed(a) \in [Addrs -> FailType] /\ Passed(a) \in [Addrs -> FailType]
         /\ NoFails \in [Addrs -> FailType]
PROOF
  <1>1. MaxAttempts \in Nat \ {0} /\ Window \in Nat \ {0}
    BY ConstantsAssumption
  <1>2. NoFails \in [Addrs -> FailType] /\ NoFails[a] \in FailType
    BY <1>1 DEF NoFails, FailType
  <1>3. fails \in [Addrs -> FailType]
    BY DEF TypeOK, FailType
  <1>4. [count |-> 1, age |-> 0] \in FailType
    BY <1>1 DEF FailType
  <1> DEFINE more == IF fails[a].count < MaxAttempts
                     THEN fails[a].count + 1 ELSE fails[a].count
  <1>5. [count |-> more, age |-> fails[a].age] \in FailType
    BY <1>1, <1>3 DEF FailType
  <1>6. Failed(a) \in [Addrs -> FailType]
    BY <1>3, <1>4, <1>5 DEF Failed
  <1> QED BY <1>2, <1>3, <1>6 DEF Passed

\* The tokens keep their type, and revoking leaves no live one.
LEMMA CookieTypes ==
  ASSUME TypeOK
  PROVE  /\ Revoked \in [Clients -> CookieType]
         /\ \A c \in Clients : Revoked[c].epoch = cookie[c].epoch
         /\ \A c \in Clients : Revoked[c].mark # "live"
         /\ \A c \in Clients : Revoked[c].mark = "revoked" =>
                                 cookie[c].mark \in {"live", "revoked"}
PROOF
  <1>1. cookie \in [Clients -> CookieType]
    BY DEF TypeOK, CookieType
  <1> QED BY <1>1 DEF Revoked, CookieType

\* A new epoch is one further.
LEMMA EpochType ==
  ASSUME TypeOK, NEW pin \in BOOLEAN
  PROVE  /\ NewEpoch(pin) \in [pin : BOOLEAN, epoch : Nat]
         /\ NewEpoch(pin).pin = pin /\ NewEpoch(pin).epoch = auth.epoch + 1
         /\ auth.epoch \in Nat /\ auth.pin \in BOOLEAN
PROOF BY DEF TypeOK, NewEpoch

\* A store update keeps what the wizard and the pairing set.
LEMMA UpdatedType ==
  ASSUME TypeOK
  PROVE  /\ Updated(station) \in [done : BOOLEAN, paired : BOOLEAN, broker : BOOLEAN]
         /\ Updated(station).done = station.done
         /\ \A b \in BOOLEAN :
              /\ [Updated(station) EXCEPT !.paired = b]
                   \in [done : BOOLEAN, paired : BOOLEAN, broker : BOOLEAN]
              /\ [Updated(station) EXCEPT !.paired = b].done = station.done
              /\ [station EXCEPT !.broker = b]
                   \in [done : BOOLEAN, paired : BOOLEAN, broker : BOOLEAN]
              /\ [station EXCEPT !.broker = b].done = station.done
         /\ [Updated(station) EXCEPT !.done = TRUE]
              \in [done : BOOLEAN, paired : BOOLEAN, broker : BOOLEAN]
         /\ NewStation \in [done : BOOLEAN, paired : BOOLEAN, broker : BOOLEAN]
         /\ NewStation.done = FALSE
PROOF BY DEF TypeOK, Updated, NewStation

\* The publisher's start touches its own variables only.
LEMMA StartType ==
  ASSUME TypeOK, Start
  PROVE  /\ thread' \in [Threads -> {"none", "reading", "connecting", "waiting", "live"}]
         /\ current' \in Threads \cup {NoThread} /\ stop' \in BOOLEAN
PROOF BY DEF TypeOK, Start, linkVars

\* At the start nothing is set up.
LEMMA InitStation == Init => StationInv
PROOF
  <1> SUFFICES ASSUME Init PROVE StationInv
    OBVIOUS
  <1>1. TypeOK
    <2>1. fails \in [Addrs -> FailType] /\ edits \in 0 .. MaxEdits /\ crashes \in 0 .. MaxCrashes
      BY ConstantsAssumption DEF Init, NoFails, FailType
    <2>2. cookie \in [Clients -> CookieType]
      BY DEF Init, NoToken, CookieType
    <2>3. auth \in [pin : BOOLEAN, epoch : Nat]
          /\ station \in [done : BOOLEAN, paired : BOOLEAN, broker : BOOLEAN]
      BY DEF Init, NoAuth, NewStation
    <2>4. /\ sched \in {"none", "paused", "enabled"} /\ cut \in BOOLEAN
          /\ certs \in SUBSET (Pem \cup {"odd"}) /\ api \in BOOLEAN
          /\ doing \in Steps /\ pending \in Asks \cup {"none"} /\ up \in BOOLEAN
          /\ thread \in [Threads -> {"none", "reading", "connecting", "waiting", "live"}]
          /\ current \in Threads \cup {NoThread} /\ stop \in BOOLEAN
      BY DEF Init, Steps
    <2> QED BY <2>1, <2>2, <2>3, <2>4 DEF TypeOK, FailType, CookieType
  <1>2. Sessions
    BY DEF Init, Sessions, NoToken
  <1>3. Wizard /\ FinishedIsArmed
    BY DEF Init, Wizard, FinishedIsArmed, NewStation, NoAuth
  <1> QED BY <1>1, <1>2, <1>3 DEF StationInv
-----------------------------------------------------------------------------
(* Types. *)

\* What no step but a crash and the operator's own counts.
LEMMA CountType ==
  ASSUME TypeOK
  PROVE  /\ edits < MaxEdits => edits + 1 \in 0 .. MaxEdits
         /\ crashes < MaxCrashes => crashes + 1 \in 0 .. MaxCrashes
PROOF BY ConstantsAssumption DEF TypeOK

\* PIN and sessions.
LEMMA TypeAuth ==
  ASSUME TypeOK,
         \/ Tick \/ Logout
         \/ \E a \in Addrs : WrongPin(a)
         \/ \E c \in Clients, a \in Addrs :
              Login(c, a) \/ OnlyConfirm(c, a) \/ ChangePin(c, a)
  PROVE  TypeOK'
PROOF
  <1>1. CASE Tick
    <2>1. fails' \in [Addrs -> [count : 0 .. MaxAttempts, age : 0 .. Window + 1]]
      <3>1. \A a \in Addrs : fails[a].age <= Window =>
              [fails[a] EXCEPT !.age = fails[a].age + 1] \in FailType
        BY ConstantsAssumption DEF TypeOK, FailType
      <3>2. fails' = [a \in Addrs |->
                        IF fails[a].count > 0 /\ fails[a].age <= Window
                        THEN [fails[a] EXCEPT !.age = fails[a].age + 1] ELSE fails[a]]
        BY <1>1 DEF Tick
      <3>3. \A a \in Addrs : fails[a] \in FailType
        BY DEF TypeOK, FailType
      <3> QED BY <3>1, <3>2, <3>3 DEF FailType
    <2> QED BY <1>1, <2>1 DEF Tick, TypeOK, linkVars
  <1>2. CASE Logout
    <2>1. auth' \in [pin : BOOLEAN, epoch : Nat]
      BY <1>2, EpochType DEF Logout
    <2>2. cookie' \in [Clients -> CookieType]
      BY <1>2, CookieTypes DEF Logout
    <2> QED BY <1>2, <2>1, <2>2, CountType DEF Logout, Edit, TypeOK, CookieType, linkVars
  <1>3. ASSUME NEW a \in Addrs, WrongPin(a) PROVE TypeOK'
    BY <1>3, FailsType DEF WrongPin, TypeOK, FailType, linkVars
  <1>4. ASSUME NEW c \in Clients, NEW a \in Addrs, OnlyConfirm(c, a) PROVE TypeOK'
    BY <1>4, FailsType DEF OnlyConfirm, TypeOK, FailType, linkVars
  <1>5. ASSUME NEW c \in Clients, NEW a \in Addrs, Login(c, a) PROVE TypeOK'
    <2>1. fails' \in [Addrs -> FailType]
      BY <1>5, FailsType DEF Login
    <2>2. Token \in CookieType
      BY <1>5, EpochType DEF Login, Token, CookieType
    <2>3. cookie' \in [Clients -> CookieType]
      BY <1>5, <2>2 DEF Login, TypeOK, CookieType
    <2> QED BY <1>5, <2>1, <2>3 DEF Login, TypeOK, FailType, CookieType, linkVars
  <1>6. ASSUME NEW c \in Clients, NEW a \in Addrs, ChangePin(c, a) PROVE TypeOK'
    <2>1. fails' \in [Addrs -> FailType]
      BY <1>6, FailsType DEF ChangePin
    <2>2. auth' \in [pin : BOOLEAN, epoch : Nat]
      BY <1>6, EpochType DEF ChangePin
    <2>3. Token \in CookieType
      BY <2>2 DEF Token, CookieType
    <2>4. cookie' \in [Clients -> CookieType]
      BY <1>6, <2>3, CookieTypes DEF ChangePin
    <2>5. edits' \in 0 .. MaxEdits
      BY <1>6, CountType DEF ChangePin, Edit
    <2> QED BY <1>6, <2>1, <2>2, <2>4, <2>5
            DEF ChangePin, TypeOK, FailType, CookieType, linkVars
  <1> QED BY <1>1, <1>2, <1>3, <1>4, <1>5, <1>6

\* The wizard.
LEMMA TypeWizard ==
  ASSUME TypeOK, WizardRuns \/ Arm \/ Complete \/ \E k \in Asks : Ask(k)
  PROVE  TypeOK'
PROOF
  <1>1. ASSUME NEW c \in Clients, SetupPin(c) PROVE TypeOK'
    <2>1. fails' \in [Addrs -> FailType]
      <3>1. CASE Addrs = {}
        BY <1>1, <3>1 DEF SetupPin, NoFails
      <3>2. ASSUME NEW a \in Addrs PROVE fails' \in [Addrs -> FailType]
        BY <1>1, FailsType DEF SetupPin
      <3> QED BY <3>1, <3>2
    <2>2. auth' \in [pin : BOOLEAN, epoch : Nat]
      BY <1>1, EpochType DEF SetupPin
    <2>3. Token \in CookieType
      BY <2>2 DEF Token, CookieType
    <2>4. cookie' \in [Clients -> CookieType]
      BY <1>1, <2>3, CookieTypes DEF SetupPin
    <2>5. pending' = "none" /\ edits' \in 0 .. MaxEdits
      BY <1>1, CountType DEF SetupPin, Run, TypeOK
    <2> QED BY <1>1, <2>1, <2>2, <2>4, <2>5
            DEF SetupPin, TypeOK, FailType, CookieType, linkVars
  <1>2. CASE SetupRefused
    BY <1>2 DEF SetupRefused, Run, TypeOK, diskVars, linkVars
  <1>3. CASE SetupStation
    BY <1>3, UpdatedType DEF SetupStation, Run, TypeOK, linkVars
  <1>4. CASE SetupSchedule
    BY <1>4 DEF SetupSchedule, Run, TypeOK, linkVars
  <1>5. CASE SetupFinish
    BY <1>5 DEF SetupFinish, Run, TypeOK, Steps, diskVars, linkVars
  <1>6. ASSUME NEW ok \in BOOLEAN, SetupPair(ok) PROVE TypeOK'
    BY <1>6, UpdatedType DEF SetupPair, Run, TypeOK, linkVars
  <1>7. CASE Arm
    BY <1>7 DEF Arm, TypeOK, Steps, linkVars
  <1>8. CASE Complete
    <2>1. station' \in [done : BOOLEAN, paired : BOOLEAN, broker : BOOLEAN]
      BY <1>8, UpdatedType DEF Complete
    <2> QED BY <1>8, <2>1 DEF Complete, TypeOK, Steps, linkVars
  <1>9. ASSUME NEW k \in Asks, Ask(k) PROVE TypeOK'
    BY <1>9 DEF Ask, TypeOK, diskVars, linkVars
  <1> QED BY <1>1, <1>2, <1>3, <1>4, <1>5, <1>6, <1>7, <1>8, <1>9 DEF WizardRuns

\* Settings and the factory reset.
LEMMA TypeReset ==
  ASSUME TypeOK,
         \/ WipeTables \/ WipeAuth \/ WipeStation \/ RestartAfterReset
         \/ \E c \in Clients : Settings(c) \/ FactoryReset(c)
  PROVE  TypeOK'
PROOF
  <1>1. CASE WipeTables
    BY <1>1 DEF WipeTables, TypeOK, Steps, linkVars
  <1>2. CASE WipeAuth
    <2>1. fails' \in [Addrs -> FailType]
      <3>1. Proxy \in Addrs
        BY ConstantsAssumption
      <3> QED BY <1>2, <3>1, FailsType DEF WipeAuth
    <2>2. cookie' \in [Clients -> CookieType]
      BY <1>2 DEF WipeAuth, TypeOK, CookieType
    <2> QED BY <1>2, <2>1, <2>2
            DEF WipeAuth, NoAuth, TypeOK, Steps, FailType, CookieType, linkVars
  <1>3. CASE WipeStation
    BY <1>3, UpdatedType DEF WipeStation, TypeOK, Steps, linkVars
  <1>4. CASE RestartAfterReset
    BY <1>4 DEF RestartAfterReset, Dies, TypeOK, Steps, diskVars
  <1>5. ASSUME NEW c \in Clients, Settings(c) PROVE TypeOK'
    <2>1. station' \in [done : BOOLEAN, paired : BOOLEAN, broker : BOOLEAN]
          /\ edits' \in 0 .. MaxEdits
      BY <1>5, UpdatedType, CountType DEF Settings, Edit
    <2> QED BY <1>5, <2>1 DEF Settings, TypeOK, linkVars
  <1>6. ASSUME NEW c \in Clients, FactoryReset(c) PROVE TypeOK'
    <2>1. fails' \in [Addrs -> FailType]
      BY <1>6, FailsType, ConstantsAssumption DEF FactoryReset
    <2> QED BY <1>6, <2>1, CountType DEF FactoryReset, Edit, TypeOK, Steps, FailType, linkVars
  <1> QED BY <1>1, <1>2, <1>3, <1>4, <1>5, <1>6

\* Pairing.
LEMMA TypePairing ==
  ASSUME TypeOK,
         \/ PairCrt \/ PairKey \/ PairGivesUp \/ PairFlag \/ DropKey \/ DropFlag
         \/ \E ok \in BOOLEAN : PairBroker(ok)
         \/ \E c \in Clients : Pair(c) \/ Unpair(c)
  PROVE  TypeOK'
PROOF
  <1>1. CASE PairCrt
    BY <1>1 DEF PairCrt, PairWrites, TypeOK, Steps, Pem, linkVars
  <1>2. CASE PairKey
    BY <1>2 DEF PairKey, PairWrites, TypeOK, Steps, Pem, linkVars
  <1>3. CASE PairGivesUp
    BY <1>3 DEF PairGivesUp, TypeOK, Steps, diskVars, linkVars
  <1>4. CASE PairFlag
    BY <1>4, UpdatedType DEF PairFlag, TypeOK, Steps, linkVars
  <1>5. CASE DropKey
    BY <1>5 DEF DropKey, TypeOK, Steps, linkVars
  <1>6. CASE DropFlag
    BY <1>6, UpdatedType DEF DropFlag, TypeOK, Steps
  <1>7. ASSUME NEW ok \in BOOLEAN, PairBroker(ok) PROVE TypeOK'
    <2>1. (ok \/ station.broker) \in BOOLEAN
      BY DEF TypeOK
    <2>2. station' \in [done : BOOLEAN, paired : BOOLEAN, broker : BOOLEAN]
      BY <1>7, <2>1, UpdatedType DEF PairBroker
    <2>3. /\ thread' \in [Threads -> {"none", "reading", "connecting", "waiting", "live"}]
          /\ current' \in Threads \cup {NoThread} /\ stop' \in BOOLEAN
      BY <1>7, StartType DEF PairBroker
    <2> QED BY <1>7, <2>2, <2>3 DEF PairBroker, TypeOK, Steps
  <1>8. ASSUME NEW c \in Clients, Pair(c) PROVE TypeOK'
    <2>1. station' \in [done : BOOLEAN, paired : BOOLEAN, broker : BOOLEAN]
          /\ doing' \in Steps
      BY <1>8, UpdatedType DEF Pair, TypeOK, Steps
    <2> QED BY <1>8, <2>1, CountType DEF Pair, Edit, TypeOK, linkVars
  <1>9. ASSUME NEW c \in Clients, Unpair(c) PROVE TypeOK'
    BY <1>9, CountType DEF Unpair, Edit, TypeOK, Steps, linkVars
  <1> QED BY <1>1, <1>2, <1>3, <1>4, <1>5, <1>6, <1>7, <1>8, <1>9

\* The publisher and the process.
LEMMA TypeProcess ==
  ASSUME TypeOK, Crash \/ Boot \/ \E t \in Threads : Publisher(t)
  PROVE  TypeOK'
PROOF
  <1>1. CASE Crash
    BY <1>1, CountType DEF Crash, Dies, TypeOK, Steps
  <1>2. CASE Boot
    <2>1. /\ thread' \in [Threads -> {"none", "reading", "connecting", "waiting", "live"}]
          /\ current' \in Threads \cup {NoThread} /\ stop' \in BOOLEAN
      BY <1>2, StartType DEF Boot
    <2> QED BY <1>2, <2>1 DEF Boot, TypeOK
  <1>3. ASSUME NEW t \in Threads, Publisher(t) PROVE TypeOK'
    <2>1. PICK from, to \in {"none", "reading", "connecting", "waiting", "live"} :
            Becomes(t, from, to)
      BY <1>3 DEF Publisher, ReadBroker, Connect, ConnectFails, Wake, ThreadEnds
    <2> QED BY <2>1 DEF Becomes, TypeOK, diskVars
  <1> QED BY <1>1, <1>2, <1>3

-----------------------------------------------------------------------------
(* Sessions. *)

\* Tokens and epoch change in six actions only.
LEMMA TokensKept ==
  ASSUME Next,
         ~Logout, ~WipeAuth, \A c \in Clients : ~SetupPin(c),
         \A c \in Clients, a \in Addrs : ~Login(c, a) /\ ~ChangePin(c, a)
  PROVE  auth' = auth /\ cookie' = cookie
PROOF
  <1>1. CASE Tick \/ Crash \/ Boot
    BY <1>1 DEF Tick, Crash, Boot
  <1>2. CASE WizardRuns
    BY <1>2 DEF WizardRuns, SetupRefused, SetupStation, SetupSchedule,
                SetupFinish, SetupPair, diskVars
  <1>3. CASE Handler
    BY <1>3 DEF Handler, Arm, Complete, WipeTables, WipeStation,
                RestartAfterReset, PairCrt, PairKey, PairWrites, PairGivesUp,
                PairFlag, DropKey, DropFlag, PairBroker, diskVars
  <1>4. ASSUME NEW a \in Addrs, WrongPin(a) PROVE auth' = auth /\ cookie' = cookie
    BY <1>4 DEF WrongPin
  <1>5. ASSUME NEW c \in Clients, NEW a \in Addrs, OnlyConfirm(c, a)
        PROVE  auth' = auth /\ cookie' = cookie
    BY <1>5 DEF OnlyConfirm
  <1>6. ASSUME NEW k \in Asks, Ask(k) PROVE auth' = auth /\ cookie' = cookie
    BY <1>6 DEF Ask, diskVars
  <1>7. ASSUME NEW c \in Clients, Settings(c) \/ FactoryReset(c) \/ Pair(c) \/ Unpair(c)
        PROVE  auth' = auth /\ cookie' = cookie
    BY <1>7 DEF Settings, FactoryReset, Pair, Unpair
  <1>8. ASSUME NEW t \in Threads, Publisher(t) PROVE auth' = auth /\ cookie' = cookie
    BY <1>8 DEF Publisher, ReadBroker, Connect, ConnectFails, Wake, ThreadEnds,
                Becomes, diskVars
  <1> QED BY <1>1, <1>2, <1>3, <1>4, <1>5, <1>6, <1>7, <1>8 DEF Next

\* A new epoch leaves every older token behind, but for the one it hands out.
LEMMA NewEpochSessions ==
  ASSUME TypeOK, Sessions, NEW pin \in BOOLEAN, auth' = NewEpoch(pin),
         \/ cookie' = Revoked
         \/ \E c \in Clients : cookie' = [Revoked EXCEPT ![c] = Token]
  PROVE  Sessions'
PROOF
  <1>1. auth.epoch \in Nat /\ auth'.epoch = auth.epoch + 1
    BY EpochType
  <1>2. \A c \in Clients :
          /\ Revoked[c].mark # "live" /\ Revoked[c].epoch = cookie[c].epoch
          /\ cookie[c].epoch \in Nat
          /\ Revoked[c].mark = "revoked" => cookie[c].epoch <= auth.epoch
    BY <1>1, CookieTypes DEF TypeOK, Sessions
  <1>3. \A c \in Clients :
          Revoked[c].mark = "revoked" => Revoked[c].epoch < auth'.epoch
    BY <1>1, <1>2
  <1>4. CASE cookie' = Revoked
    BY <1>2, <1>3, <1>4 DEF Sessions
  <1>5. ASSUME NEW c \in Clients, cookie' = [Revoked EXCEPT ![c] = Token]
        PROVE  Sessions'
    <2>1. Token.mark = "live" /\ Token.epoch = auth'.epoch /\ auth'.epoch \in Nat
      BY <1>1 DEF Token
    <2>2. \A k \in Clients : cookie'[k] = IF k = c THEN Token ELSE Revoked[k]
      BY <1>5, CookieTypes
    <2> QED BY <1>2, <1>3, <2>1, <2>2 DEF Sessions
  <1> QED BY <1>4, <1>5

\* No step revives a token.
LEMMA StepSessions == ASSUME TypeOK, Sessions, [Next]_vars PROVE Sessions'
PROOF
  <1>1. CASE Logout
    <2>1. auth.pin \in BOOLEAN
      BY DEF TypeOK
    <2> QED BY <1>1, <2>1, NewEpochSessions DEF Logout
  <1>2. CASE WipeAuth
    <2>1. \A c \in Clients : cookie'[c].mark \in {"none", "before"}
      <3>1. \A c \in Clients : cookie'[c] =
              [cookie[c] EXCEPT !.mark = IF cookie[c].mark = "none"
                                         THEN cookie[c].mark ELSE "before"]
        BY <1>2 DEF WipeAuth
      <3>2. SUFFICES ASSUME NEW c \in Clients
                     PROVE  cookie'[c].mark \in {"none", "before"}
        OBVIOUS
      <3>3. cookie[c] \in CookieType
        BY DEF TypeOK, CookieType
      <3>4. CASE cookie[c].mark = "none"
        <4>1. cookie'[c] = [cookie[c] EXCEPT !.mark = "none"]
          BY <3>1, <3>4
        <4> QED BY <4>1, <3>3 DEF CookieType
      <3>5. CASE cookie[c].mark # "none"
        <4>1. cookie'[c] = [cookie[c] EXCEPT !.mark = "before"]
          BY <3>1, <3>5
        <4> QED BY <4>1, <3>3 DEF CookieType
      <3> QED BY <3>4, <3>5
    <2> QED BY <2>1 DEF Sessions
  <1>3. ASSUME NEW c \in Clients, SetupPin(c) PROVE Sessions'
    BY <1>3, NewEpochSessions DEF SetupPin
  <1>4. ASSUME NEW c \in Clients, NEW a \in Addrs, ChangePin(c, a) PROVE Sessions'
    BY <1>4, NewEpochSessions DEF ChangePin
  <1>5. ASSUME NEW c \in Clients, NEW a \in Addrs, Login(c, a) PROVE Sessions'
    <2>1. auth' = auth /\ cookie' = [cookie EXCEPT ![c] = Token] /\ auth.epoch \in Nat
      BY <1>5 DEF Login, TypeOK
    <2>2. Token.mark = "live" /\ Token.epoch = auth.epoch
      BY <2>1 DEF Token
    <2>3. \A k \in Clients : cookie'[k] = IF k = c THEN Token ELSE cookie[k]
      BY <2>1 DEF TypeOK
    <2> QED BY <2>1, <2>2, <2>3 DEF Sessions
  <1>6. CASE UNCHANGED vars
    BY <1>6 DEF vars, Sessions
  <1>7. CASE auth' = auth /\ cookie' = cookie
    BY <1>7 DEF Sessions
  <1> QED BY <1>1, <1>2, <1>3, <1>4, <1>5, <1>6, <1>7, TokensKept

-----------------------------------------------------------------------------
(* The wizard. *)

WizardInv == Wizard /\ FinishedIsArmed

\* The wizard's own steps.
LEMMA StepWizardRuns ==
  ASSUME TypeOK, WizardInv,
         WizardRuns \/ Arm \/ Complete \/ \E k \in Asks : Ask(k)
  PROVE  WizardInv'
PROOF
  <1>1. ASSUME NEW c \in Clients, SetupPin(c) PROVE WizardInv'
    <2>1. auth'.pin = TRUE /\ pending = "pin" /\ pending' = "none" /\ doing = "idle"
          /\ doing' = "idle"
      BY <1>1, EpochType DEF SetupPin, Run, Idle
    <2>2. station' = station /\ sched' = sched /\ cut' = cut
      BY <1>1 DEF SetupPin
    <2> QED BY <2>1, <2>2 DEF WizardInv, Wizard, FinishedIsArmed
  <1>2. CASE SetupRefused
    BY <1>2 DEF SetupRefused, Run, Idle, diskVars, WizardInv, Wizard, FinishedIsArmed
  <1>3. CASE SetupStation
    <2>1. station'.done = station.done
      BY <1>3, UpdatedType DEF SetupStation
    <2> QED BY <1>3, <2>1 DEF SetupStation, Run, Idle, WizardInv, Wizard, FinishedIsArmed
  <1>4. CASE SetupSchedule
    BY <1>4 DEF SetupSchedule, Run, Idle, WizardInv, Wizard, GateOpen, FinishedIsArmed
  <1>5. CASE SetupFinish
    BY <1>5 DEF SetupFinish, Run, Idle, diskVars, WizardInv, Wizard, FinishedIsArmed
  <1>6. ASSUME NEW ok \in BOOLEAN, SetupPair(ok) PROVE WizardInv'
    <2>1. station'.done = station.done
      BY <1>6, UpdatedType DEF SetupPair
    <2> QED BY <1>6, <2>1 DEF SetupPair, Run, Idle, WizardInv, Wizard, FinishedIsArmed
  <1>7. CASE Arm
    BY <1>7 DEF Arm, WizardInv, Wizard, GateOpen, FinishedIsArmed, TypeOK
  <1>8. CASE Complete
    BY <1>8 DEF Complete, WizardInv, Wizard, FinishedIsArmed
  <1>9. ASSUME NEW k \in Asks, Ask(k) PROVE WizardInv'
    BY <1>9 DEF Ask, diskVars, WizardInv, Wizard, GateOpen, FinishedIsArmed
  <1> QED BY <1>1, <1>2, <1>3, <1>4, <1>5, <1>6, <1>7, <1>8, <1>9 DEF WizardRuns

\* The factory reset: the flag goes last, and a crash before that is noted.
LEMMA StepWizardReset ==
  ASSUME TypeOK, WizardInv,
         \/ WipeTables \/ WipeAuth \/ WipeStation \/ RestartAfterReset \/ Crash
         \/ \E c \in Clients : FactoryReset(c)
  PROVE  WizardInv'
PROOF
  <1>1. CASE WipeTables
    BY <1>1 DEF WipeTables, WizardInv, Wizard, GateOpen, FinishedIsArmed
  <1>2. CASE WipeAuth
    BY <1>2 DEF WipeAuth, NoAuth, WizardInv, Wizard, GateOpen, FinishedIsArmed
  <1>3. CASE WipeStation
    BY <1>3 DEF WipeStation, NewStation, WizardInv, Wizard, GateOpen, FinishedIsArmed
  <1>4. CASE RestartAfterReset
    BY <1>4 DEF RestartAfterReset, Dies, diskVars, WizardInv, Wizard, FinishedIsArmed
  <1>5. CASE Crash
    BY <1>5 DEF Crash, Dies, WizardInv, Wizard, FinishedIsArmed
  <1>6. ASSUME NEW c \in Clients, FactoryReset(c) PROVE WizardInv'
    BY <1>6 DEF FactoryReset, Edit, Idle, WizardInv, Wizard, GateOpen, FinishedIsArmed
  <1> QED BY <1>1, <1>2, <1>3, <1>4, <1>5, <1>6

\* Everything else leaves PIN, flag and schedule alone.
LEMMA StepWizardOthers ==
  ASSUME auth'.pin = auth.pin, station'.done = station.done, sched' = sched,
         cut' = cut, pending' = pending, WizardInv,
         \/ doing' = doing
         \/ doing \notin {"wipeStation"} /\ doing' \notin {"arm", "complete", "wipeStation"}
  PROVE  WizardInv'
PROOF BY DEF WizardInv, Wizard, GateOpen, FinishedIsArmed

\* Every step keeps the wizard's invariant.
LEMMA StepWizard == ASSUME TypeOK, WizardInv, [Next]_vars PROVE WizardInv'
PROOF
  <1>1. CASE WizardRuns \/ Arm \/ Complete \/ \E k \in Asks : Ask(k)
    BY <1>1, StepWizardRuns
  <1>2. CASE \/ WipeTables \/ WipeAuth \/ WipeStation \/ RestartAfterReset \/ Crash
             \/ \E c \in Clients : FactoryReset(c)
    BY <1>2, StepWizardReset
  <1>3. CASE Tick \/ Boot
    BY <1>3, StepWizardOthers DEF Tick, Boot
  <1>4. CASE Logout
    <2>1. auth'.pin = auth.pin
      BY <1>4, EpochType DEF Logout
    <2> QED BY <1>4, <2>1, StepWizardOthers DEF Logout
  <1>5. ASSUME NEW a \in Addrs, WrongPin(a) PROVE WizardInv'
    BY <1>5, StepWizardOthers DEF WrongPin
  <1>6. ASSUME NEW c \in Clients, NEW a \in Addrs,
               Login(c, a) \/ OnlyConfirm(c, a) \/ ChangePin(c, a)
        PROVE  WizardInv'
    <2>1. auth'.pin = auth.pin
      BY <1>6, EpochType DEF Login, OnlyConfirm, ChangePin
    <2> QED BY <1>6, <2>1, StepWizardOthers DEF Login, OnlyConfirm, ChangePin
  <1>7. ASSUME NEW c \in Clients, Settings(c) \/ Pair(c) \/ Unpair(c) PROVE WizardInv'
    <2>1. station'.done = station.done
      BY <1>7, UpdatedType DEF Settings, Pair, Unpair
    <2>2. doing = "idle" /\ doing' \notin {"arm", "complete", "wipeStation"}
      BY <1>7 DEF Settings, Pair, Unpair, Edit, Idle
    <2>3. auth' = auth /\ sched' = sched /\ cut' = cut /\ pending' = pending
      BY <1>7 DEF Settings, Pair, Unpair
    <2> QED BY <2>1, <2>2, <2>3, StepWizardOthers
  <1>8. CASE PairCrt \/ PairKey \/ PairGivesUp \/ DropKey
    BY <1>8, StepWizardOthers DEF PairCrt, PairKey, PairWrites, PairGivesUp, DropKey, diskVars
  <1>9. CASE PairFlag \/ DropFlag
    <2>1. station'.done = station.done
      BY <1>9, UpdatedType DEF PairFlag, DropFlag
    <2> QED BY <1>9, <2>1, StepWizardOthers DEF PairFlag, DropFlag
  <1>10. ASSUME NEW ok \in BOOLEAN, PairBroker(ok) PROVE WizardInv'
    <2>1. (ok \/ station.broker) \in BOOLEAN
      BY DEF TypeOK
    <2>2. station'.done = station.done
      BY <1>10, <2>1, UpdatedType DEF PairBroker
    <2> QED BY <1>10, <2>2, StepWizardOthers DEF PairBroker
  <1>11. ASSUME NEW t \in Threads, Publisher(t) PROVE WizardInv'
    BY <1>11, StepWizardOthers
       DEF Publisher, ReadBroker, Connect, ConnectFails, Wake, ThreadEnds, Becomes, diskVars
  <1>12. CASE UNCHANGED vars
    BY <1>12, StepWizardOthers DEF vars
  <1> QED BY <1>1, <1>2, <1>3, <1>4, <1>5, <1>6, <1>7, <1>8, <1>9, <1>10, <1>11, <1>12
          DEF Next, Handler

-----------------------------------------------------------------------------
\* Types, whatever the step.
LEMMA StepType == ASSUME TypeOK, [Next]_vars PROVE TypeOK'
PROOF
  <1>1. CASE UNCHANGED vars
    BY <1>1 DEF vars, TypeOK
  <1> QED BY <1>1, TypeAuth, TypeWizard, TypeReset, TypePairing, TypeProcess
          DEF Next, Handler

\* The inductive invariant, types included.
THEOREM StationCorrect == SafetySpec => []StationInv
PROOF
  <1>1. StationInv /\ [Next]_vars => StationInv'
    BY StepType, StepSessions, StepWizard DEF StationInv, WizardInv
  <1> QED BY InitStation, <1>1, PTL DEF SafetySpec

\* Every variable keeps its type.
THEOREM StationTypeCorrect == SafetySpec => []TypeOK
PROOF
  <1>1. StationInv => TypeOK
    BY DEF StationInv
  <1> QED BY <1>1, StationCorrect, PTL

\* revoke_all_sessions, set_pin: a token of an earlier epoch is never valid
\* again while auth.json lives.
THEOREM RevokedStaysRevoked == SafetySpec => []SessionsRevoked
PROOF
  <1>1. StationInv => SessionsRevoked
    BY DEF StationInv, TypeOK, Sessions, SessionsRevoked, Valid
  <1> QED BY <1>1, StationCorrect, PTL

\* setup_finish: a closed wizard has armed the schedule it made.
THEOREM FinishedArms == SafetySpec => []FinishedIsArmed
PROOF
  <1>1. StationInv => FinishedIsArmed
    BY DEF StationInv
  <1> QED BY <1>1, StationCorrect, PTL

===============================================================================
