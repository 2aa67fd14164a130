------------------------------- MODULE Station -------------------------------
(***************************************************************************)
(* Who may operate the station and what it is told once: the PIN and the   *)
(* sessions of auth.json, the wizard of the first boot and the identity in *)
(* station.json, pairing with the fleet broker, and the thread that keeps  *)
(* the link to it.  Requests run one at a time on the event loop; the      *)
(* publisher's threads run beside them, and the process may end anywhere.  *)
(***************************************************************************)
EXTENDS Naturals, FiniteSets

CONSTANTS
  Clients,      \* browsers
  Addrs,        \* addresses they come from
  Proxy,        \* the peer address a confirmation counts failures under
  MaxAttempts,  \* wrong PINs before a lockout
  Window,       \* length of a lockout, in ticks
  Threads,      \* publisher threads alive at once
  NoThread,
  MaxEdits,     \* bound: changes by the operator
  MaxCrashes    \* bound: crashes and restarts

ASSUME ConstantsAssumption ==
  /\ Proxy \in Addrs /\ NoThread \notin Threads
  /\ {MaxAttempts, Window} \subseteq Nat \ {0}
  /\ {MaxEdits, MaxCrashes} \subseteq Nat
  /\ IsFiniteSet(Clients) /\ IsFiniteSet(Addrs) /\ IsFiniteSet(Threads)

VARIABLES
  auth,     \* auth.json: is a PIN set, and the session epoch
  fails,    \* auth.json: failed attempts of an address, and their age
  cookie,   \* the token each client holds
  station,  \* station.json: setup done, paired, broker known
  sched,    \* the schedule the wizard made
  cut,      \* was a factory reset cut short between its two files?
  certs,    \* files of the mTLS pair; "odd" if they do not belong together
  api,      \* is the address of the fleet's API configured?
  doing,    \* the request that is between two of its writes
  pending,  \* the wizard's request that has passed the gate
  up,       \* does the process run?
  thread, current, stop,  \* MqttPublisher
  edits, crashes

diskVars == <<auth, fails, station, sched, certs>>
linkVars == <<thread, current, stop>>
vars == <<auth, fails, cookie, station, sched, cut, certs, api, doing, pending,
          up, thread, current, stop, edits, crashes>>

NoAuth == [pin |-> FALSE, epoch |-> 0]
NoFails == [a \in Addrs |-> [count |-> 0, age |-> 0]]
NoToken == [epoch |-> 0, mark |-> "none"]
NewStation == [done |-> FALSE, paired |-> FALSE, broker |-> FALSE]
Pem == {"crt", "key"}
Steps == {"idle", "arm", "complete", "wipeTables", "wipeAuth", "wipeStation",
          "restart", "pairCrt", "pairKey", "pairFlag", "pairBroker",
          "dropKey", "dropFlag"}
Asks == {"pin", "station", "schedule", "pair", "finish"}

Init ==
  /\ auth = NoAuth /\ fails = NoFails /\ cookie = [c \in Clients |-> NoToken]
  /\ station = NewStation /\ sched = "none" /\ cut = FALSE
  /\ certs = {} /\ api \in BOOLEAN
  /\ doing = "idle" /\ pending = "none" /\ up = TRUE
  /\ thread = [t \in Threads |-> "none"] /\ current = NoThread /\ stop = FALSE
  /\ edits = 0 /\ crashes = 0

-----------------------------------------------------------------------------
(* PIN and sessions. *)

Valid(c) == cookie[c].mark # "none" /\ cookie[c].epoch = auth.epoch

Locked(a) == fails[a].count >= MaxAttempts /\ fails[a].age < Window

\* A window that has run out starts anew.  The count is cut at MaxAttempts.
Failed(a) ==
  LET old == fails[a]
      more == IF old.count < MaxAttempts THEN old.count + 1 ELSE old.count
  IN  [fails EXCEPT ![a] =
         IF old.count = 0 \/ old.age > Window THEN [count |-> 1, age |-> 0]
         ELSE [count |-> more, age |-> old.age]]

Passed(a) == [fails EXCEPT ![a] = NoFails[a]]

\* Mutant: the epoch stays.
NewEpoch_Same(pin) == [pin |-> pin, epoch |-> auth.epoch]

\* set_pin and revoke_all_sessions begin a new epoch.  Tokens handed out
\* since the last factory reset are marked, for the property only.
NewEpoch(pin) == [pin |-> pin, epoch |-> auth.epoch + 1]
Revoked == [c \in Clients |->
              [cookie[c] EXCEPT !.mark = IF @ = "live" THEN "revoked" ELSE @]]
Token == [epoch |-> auth'.epoch, mark |-> "live"]

Idle == up /\ doing = "idle"
Edit == Idle /\ edits < MaxEdits /\ edits' = edits + 1

\* A wrong PIN counts, in any request that asks for it.
WrongPin(a) ==
  /\ Idle /\ auth.pin /\ ~Locked(a) /\ fails' = Failed(a)
  /\ UNCHANGED <<auth, cookie, station, sched, cut, certs, api, doing, pending,
                 up, linkVars, edits, crashes>>

\* The same PIN again, or a PIN confirmed for a reboot.
OnlyConfirm(c, a) ==
  /\ Idle /\ Valid(c) /\ auth.pin /\ ~Locked(a) /\ fails' = Passed(a)
  /\ UNCHANGED <<auth, cookie, station, sched, cut, certs, api, doing, pending,
                 up, linkVars, edits, crashes>>

Login(c, a) ==
  /\ Idle /\ auth.pin /\ ~Locked(a)
  /\ fails' = Passed(a) /\ UNCHANGED auth
  /\ cookie' = [cookie EXCEPT ![c] = Token]
  /\ UNCHANGED <<station, sched, cut, certs, api, doing, pending, up, linkVars,
                 edits, crashes>>

Logout ==
  /\ Edit
  /\ auth' = NewEpoch(auth.pin) /\ cookie' = Revoked
  /\ UNCHANGED <<fails, station, sched, cut, certs, api, doing, pending, up,
                 linkVars, crashes>>

\* set_pin forgets every failure, so that the new PIN is checked at once.
ChangePin(c, a) ==
  /\ Edit /\ Valid(c) /\ auth.pin /\ ~Locked(a)
  /\ auth' = NewEpoch(TRUE) /\ fails' = NoFails
  /\ cookie' = [Revoked EXCEPT ![c] = Token]
  /\ UNCHANGED <<station, sched, cut, certs, api, doing, pending, up, linkVars,
                 crashes>>

Tick ==
  /\ \E a \in Addrs : fails[a].count > 0 /\ fails[a].age <= Window
  /\ fails' = [a \in Addrs |->
                 IF fails[a].count > 0 /\ fails[a].age <= Window
                 THEN [fails[a] EXCEPT !.age = @ + 1] ELSE fails[a]]
  /\ UNCHANGED <<auth, cookie, station, sched, cut, certs, api, doing, pending,
                 up, linkVars, edits, crashes>>

-----------------------------------------------------------------------------
(* The wizard.  The gate is looked at by a dependency that runs in a       *)
(* thread, before the handler runs on the event loop.                      *)

\* Mutant: the flag alone closes the wizard.
GateOpen_NotDone == ~station.done

GateOpen == ~(station.done /\ auth.pin)

\* StationConfigStore.update writes the fields it knows; the broker is none.
Updated(s) == [s EXCEPT !.broker = FALSE]

\* One wizard, which waits for an answer before it asks again.
Ask(k) ==
  /\ up /\ pending = "none" /\ doing \notin {"arm", "complete"}
  /\ GateOpen /\ pending' = k
  /\ UNCHANGED <<diskVars, cookie, cut, api, doing, up, linkVars, edits,
                 crashes>>

Run(k) == Idle /\ pending = k /\ pending' = "none"

\* The first PIN is free; later ones need the session.
SetupPin(c) ==
  /\ Run("pin")
  /\ IF auth.pin
     THEN Valid(c) /\ edits < MaxEdits /\ edits' = edits + 1
     ELSE UNCHANGED edits
  /\ auth' = NewEpoch(TRUE) /\ fails' = NoFails
  /\ cookie' = [Revoked EXCEPT ![c] = Token]
  /\ UNCHANGED <<station, sched, cut, certs, api, doing, up, linkVars, crashes>>

\* 401 for the PIN step, 409 for the last one.
SetupRefused ==
  /\ \/ Run("pin") /\ auth.pin
     \/ Run("finish") /\ ~auth.pin
  /\ UNCHANGED <<diskVars, cookie, cut, api, doing, up, linkVars, edits,
                 crashes>>

SetupStation ==
  /\ Run("station") /\ station' = Updated(station)
  /\ UNCHANGED <<auth, fails, cookie, sched, cut, certs, api, doing, up,
                 linkVars, edits, crashes>>

\* Paused until the wizard is finished.
SetupSchedule ==
  /\ Run("schedule") /\ sched' = "paused"
  /\ UNCHANGED <<auth, fails, cookie, station, cut, certs, api, doing, up,
                 linkVars, edits, crashes>>

\* An upstream nobody can reach counts as paired; one that refuses does not.
SetupPair(ok) ==
  /\ Run("pair") /\ station' = [Updated(station) EXCEPT !.paired = ok]
  /\ UNCHANGED <<auth, fails, cookie, sched, cut, certs, api, doing, up,
                 linkVars, edits, crashes>>

\* Mutant: the flag before the schedule.
SetupFinish_Early ==
  /\ Run("finish") /\ auth.pin /\ doing' = "arm"
  /\ station' = [Updated(station) EXCEPT !.done = TRUE]
  /\ UNCHANGED <<auth, fails, cookie, sched, cut, certs, api, up, linkVars,
                 edits, crashes>>

SetupFinish ==
  /\ Run("finish") /\ auth.pin /\ doing' = "arm"
  /\ UNCHANGED <<diskVars, cookie, cut, api, up, linkVars, edits, crashes>>

Arm ==
  /\ up /\ doing = "arm" /\ doing' = "complete"
  /\ sched' = IF sched = "paused" THEN "enabled" ELSE sched
  /\ UNCHANGED <<auth, fails, cookie, station, cut, certs, api, pending, up,
                 linkVars, edits, crashes>>

Complete ==
  /\ up /\ doing = "complete" /\ doing' = "idle"
  /\ station' = [Updated(station) EXCEPT !.done = TRUE]
  /\ UNCHANGED <<auth, fails, cookie, sched, cut, certs, api, pending, up,
                 linkVars, edits, crashes>>

-----------------------------------------------------------------------------
(* Settings and the danger zone. *)

Settings(c) ==
  /\ Edit /\ Valid(c) /\ station' = Updated(station)
  /\ UNCHANGED <<auth, fails, cookie, sched, cut, certs, api, doing, pending,
                 up, linkVars, crashes>>

\* The PIN is confirmed, then the reset goes on from table to file to file.
FactoryReset(c) ==
  /\ Edit /\ Valid(c) /\ auth.pin /\ ~Locked(Proxy)
  /\ fails' = Passed(Proxy) /\ doing' = "wipeTables"
  /\ UNCHANGED <<auth, cookie, station, sched, cut, certs, api, pending, up,
                 linkVars, crashes>>

WipeTables ==
  /\ up /\ doing = "wipeTables" /\ doing' = "wipeAuth"
  /\ sched' = "none"
  /\ UNCHANGED <<auth, fails, cookie, station, cut, certs, api, pending, up,
                 linkVars, edits, crashes>>

WipeAuth ==
  /\ up /\ doing = "wipeAuth" /\ doing' = "wipeStation"
  /\ auth' = NoAuth /\ fails' = NoFails
  /\ cookie' = [c \in Clients |-> [cookie[c] EXCEPT
                  !.mark = IF @ = "none" THEN @ ELSE "before"]]
  /\ UNCHANGED <<station, sched, cut, certs, api, pending, up, linkVars, edits,
                 crashes>>

WipeStation ==
  /\ up /\ doing = "wipeStation" /\ doing' = "restart"
  /\ station' = NewStation /\ cut' = FALSE
  /\ UNCHANGED <<auth, fails, cookie, sched, certs, api, pending, up, linkVars,
                 edits, crashes>>

-----------------------------------------------------------------------------
(* Pairing. *)

Enabled(s, c) == s.paired /\ Pem \subseteq c
Alive == current # NoThread /\ thread[current] # "none"

\* Mutant: the stop event is left set.
Start_NoClear ==
  IF Alive \/ ~Enabled(station', certs') THEN UNCHANGED linkVars
  ELSE \E t \in Threads :
         /\ thread[t] = "none" /\ thread' = [thread EXCEPT ![t] = "reading"]
         /\ current' = t /\ UNCHANGED stop

\* MqttPublisher.start
Start ==
  IF Alive \/ ~Enabled(station', certs') THEN UNCHANGED linkVars
  ELSE \E t \in Threads :
         /\ thread[t] = "none" /\ thread' = [thread EXCEPT ![t] = "reading"]
         /\ current' = t /\ stop' = FALSE

\* Without the API the station is only called paired.
Pair(c) ==
  /\ Edit /\ Valid(c)
  /\ IF api THEN doing' = "pairCrt" /\ UNCHANGED station
     ELSE UNCHANGED doing /\ station' = [Updated(station) EXCEPT !.paired = TRUE]
  /\ UNCHANGED <<auth, fails, cookie, sched, cut, certs, api, pending, up,
                 linkVars, crashes>>

\* A new certificate does not go with the key of an earlier pairing.
PairWrites(from, to, files) ==
  /\ up /\ doing = from /\ doing' = to /\ certs' = files
  /\ UNCHANGED <<auth, fails, cookie, station, sched, cut, api, pending, up,
                 linkVars, edits, crashes>>

PairCrt ==
  PairWrites("pairCrt", "pairKey",
             IF "key" \in certs THEN Pem \cup {"odd"} ELSE {"crt"})
PairKey == PairWrites("pairKey", "pairFlag", Pem)

\* A failing write of a certificate ends the request.
PairGivesUp ==
  /\ up /\ doing \in {"pairCrt", "pairKey"} /\ doing' = "idle"
  /\ UNCHANGED <<diskVars, cookie, cut, api, pending, up, linkVars, edits,
                 crashes>>

PairFlag ==
  /\ up /\ doing = "pairFlag" /\ doing' = "pairBroker"
  /\ station' = [Updated(station) EXCEPT !.paired = TRUE]
  /\ UNCHANGED <<auth, fails, cookie, sched, cut, certs, api, pending, up,
                 linkVars, edits, crashes>>

\* The broker is written past the store; a failing write is only logged.
PairBroker(ok) ==
  /\ up /\ doing = "pairBroker" /\ doing' = "idle"
  /\ station' = [station EXCEPT !.broker = ok \/ @]
  /\ UNCHANGED certs /\ Start
  /\ UNCHANGED <<auth, fails, cookie, sched, cut, api, pending, up, edits,
                 crashes>>

Unpair(c) ==
  /\ Edit /\ Valid(c) /\ doing' = "dropKey" /\ certs' = certs \ {"crt", "odd"}
  /\ UNCHANGED <<auth, fails, cookie, station, sched, cut, api, pending, up,
                 linkVars, crashes>>

DropKey ==
  /\ up /\ doing = "dropKey" /\ doing' = "dropFlag" /\ certs' = certs \ {"key"}
  /\ UNCHANGED <<auth, fails, cookie, station, sched, cut, api, pending, up,
                 linkVars, edits, crashes>>

\* Mutant: the thread is forgotten, not told.
DropFlag_NoStop ==
  /\ up /\ doing = "dropFlag" /\ doing' = "idle"
  /\ station' = [Updated(station) EXCEPT !.paired = FALSE]
  /\ current' = NoThread /\ UNCHANGED <<thread, stop>>
  /\ UNCHANGED <<auth, fails, cookie, sched, cut, certs, api, pending, up,
                 edits, crashes>>

\* MqttPublisher.stop waits for the thread, but not for ever.
DropFlag ==
  /\ up /\ doing = "dropFlag" /\ doing' = "idle"
  /\ station' = [Updated(station) EXCEPT !.paired = FALSE]
  /\ stop' = TRUE /\ current' = NoThread /\ UNCHANGED thread
  /\ UNCHANGED <<auth, fails, cookie, sched, cut, certs, api, pending, up,
                 edits, crashes>>

-----------------------------------------------------------------------------
(* The publisher's thread. *)

Becomes(t, from, to) ==
  /\ thread[t] = from /\ thread' = [thread EXCEPT ![t] = to]
  /\ UNCHANGED <<diskVars, cookie, cut, api, doing, pending, up, current, stop,
                 edits, crashes>>

ReadBroker(t) ==
  Becomes(t, "reading", IF station.broker THEN "connecting" ELSE "none")

Connect(t) == certs = Pem /\ Becomes(t, "connecting", "live")
ConnectFails(t) == Becomes(t, "connecting", "waiting")
Wake(t) == ~stop /\ Becomes(t, "waiting", "connecting")
ThreadEnds(t) == stop /\ \E p \in {"live", "waiting"} : Becomes(t, p, "none")

-----------------------------------------------------------------------------
(* The process. *)

Dies ==
  /\ up /\ up' = FALSE /\ doing' = "idle" /\ pending' = "none"
  /\ thread' = [t \in Threads |-> "none"] /\ current' = NoThread
  /\ stop' = FALSE

\* A crash, a restart of the unit, or a reboot confirmed by the PIN.
Crash ==
  /\ Dies /\ crashes < MaxCrashes /\ crashes' = crashes + 1
  /\ cut' = (cut \/ doing = "wipeStation")
  /\ UNCHANGED <<auth, fails, cookie, station, sched, certs, api, edits>>

RestartAfterReset ==
  /\ doing = "restart" /\ Dies
  /\ UNCHANGED <<diskVars, cookie, cut, api, edits, crashes>>

\* The serial the boot may add was written by an earlier boot whenever
\* station.json holds a broker.
Boot ==
  /\ ~up /\ up' = TRUE /\ UNCHANGED <<station, certs>> /\ Start
  /\ UNCHANGED <<auth, fails, cookie, sched, cut, api, doing, pending, edits,
                 crashes>>

-----------------------------------------------------------------------------
WizardRuns ==
  \/ \E c \in Clients : SetupPin(c)
  \/ SetupRefused \/ SetupStation \/ SetupSchedule \/ SetupFinish
  \/ \E ok \in BOOLEAN : SetupPair(ok)

Handler ==
  \/ Arm \/ Complete \/ WipeTables \/ WipeAuth \/ WipeStation
  \/ RestartAfterReset
  \/ PairCrt \/ PairKey
  \/ PairGivesUp \/ PairFlag \/ DropKey \/ DropFlag
  \/ \E ok \in BOOLEAN : PairBroker(ok)

Publisher(t) ==
  ReadBroker(t) \/ Connect(t) \/ ConnectFails(t) \/ Wake(t) \/ ThreadEnds(t)

Next ==
  \/ Tick \/ Logout \/ Crash \/ Boot \/ WizardRuns \/ Handler
  \/ \E a \in Addrs : WrongPin(a)
  \/ \E c \in Clients, a \in Addrs :
       Login(c, a) \/ OnlyConfirm(c, a) \/ ChangePin(c, a)
  \/ \E k \in Asks : Ask(k)
  \/ \E c \in Clients : Settings(c) \/ FactoryReset(c) \/ Pair(c) \/ Unpair(c)
  \/ \E t \in Threads : Publisher(t)

SafetySpec == Init /\ [][Next]_vars

\* The installer goes on with the PIN and the last step while the gate is
\* open; a broker that answers again and again is reached; threads and
\* requests go on, and systemd starts the service again.
Fairness ==
  /\ SF_vars(Ask("pin")) /\ SF_vars(Ask("finish"))
  /\ WF_vars(WizardRuns) /\ WF_vars(Handler) /\ WF_vars(Boot)
  /\ \A t \in Threads :
       /\ WF_vars(ReadBroker(t)) /\ WF_vars(Wake(t)) /\ WF_vars(ThreadEnds(t))
       /\ WF_vars(Connect(t) \/ ConnectFails(t)) /\ SF_vars(Connect(t))

Spec == SafetySpec /\ Fairness

-----------------------------------------------------------------------------
TypeOK ==
  /\ auth \in [pin : BOOLEAN, epoch : Nat]
  /\ fails \in [Addrs -> [count : 0 .. MaxAttempts, age : 0 .. Window + 1]]
  /\ cookie \in [Clients -> [epoch : Nat,
                             mark : {"none", "live", "revoked", "before"}]]
  /\ station \in [done : BOOLEAN, paired : BOOLEAN, broker : BOOLEAN]
  /\ sched \in {"none", "paused", "enabled"} /\ cut \in BOOLEAN
  /\ certs \in SUBSET (Pem \cup {"odd"}) /\ api \in BOOLEAN
  /\ doing \in Steps /\ pending \in Asks \cup {"none"} /\ up \in BOOLEAN
  /\ thread \in [Threads -> {"none", "reading", "connecting", "waiting", "live"}]
  /\ current \in Threads \cup {NoThread} /\ stop \in BOOLEAN
  /\ edits \in 0 .. MaxEdits /\ crashes \in 0 .. MaxCrashes

\* A token from before a logout or a change of the PIN is never accepted
\* again, whatever is written to auth.json afterwards, for as long as that
\* file lives (revoke_all_sessions, set_pin, validate_session).
SessionsRevoked == \A c \in Clients : cookie[c].mark = "revoked" => ~Valid(c)

\* Once the wizard is closed, the schedule it made captures: a crash in the
\* middle of the last step leaves the wizard open.  (A factory reset cut
\* short between its two files is the exception: the PIN alone closes the
\* wizard then.)
FinishedIsArmed == station.done /\ auth.pin /\ ~cut => sched # "paused"

\* Whatever is interrupted, the last step and a factory reset included, the
\* station is set up in the end: no state has both the wizard closed and no
\* PIN to log in with (require_first_boot, setup_finish).
Ready == station.done /\ auth.pin
SetupCompletes == ~Ready ~> Ready

\* A station that has its pairing complete on disk gets its link, after any
\* restart, any unpairing before and any number of failed connections.
Linked == station.paired /\ certs = Pem /\ station.broker
LinkComesUp == Linked ~> (~Linked \/ \E t \in Threads : thread[t] = "live")

\* After unpairing every publisher thread ends, those too that stop() did
\* not wait for, unless the station is paired again.
UnpairStops == certs = {} ~> (certs # {} \/ \A t \in Threads : thread[t] = "none")

\* "Broker + cockpit URL are part of station.json schema already."
\* (cloud/pairing.py:132): while the station stays paired, its broker stays.
BrokerKept == [][station.broker /\ station'.paired => station'.broker]_vars

=============================================================================
