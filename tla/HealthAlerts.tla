----------------------------- MODULE HealthAlerts -----------------------------
(***************************************************************************)
(* Telling the operator.  The health loop and the cockpit each run the     *)
(* self-test and compare its overall status with the one last recorded in  *)
(* health_state.json; a change for the worse and a return to ok are        *)
(* announced in the audit log and to the webhook.                          *)
(***************************************************************************)
EXTENDS Naturals, FiniteSets

CONSTANTS
  Loop, Cockpit,  \* who runs the self-test
  MaxRestarts     \* bound: ends of the process

Assumption == Loop # Cockpit /\ MaxRestarts \in Nat

VARIABLES
  record,   \* overall status in health_state.json
  test,     \* a self-test under way, of each of the two
  told,     \* what was announced last
  shaken,   \* may record and announcement have parted?
  restarts

vars == <<record, test, told, shaken, restarts>>

Status == {"ok", "unknown", "warn", "bad"}
Testers == {Loop, Cockpit}
Idle == [pc |-> "idle"]

\* Two orders: the self-test's, by which the worst of its checks is chosen,
\* and the alerts', to which an unknown status is no worse than ok.
Severity == [ok |-> 0, unknown |-> 1, warn |-> 2, bad |-> 3]
Rank == [none |-> 0, ok |-> 0, unknown |-> 0, warn |-> 1, bad |-> 2]

Worst(statuses) ==
  CHOOSE s \in statuses : \A t \in statuses : Severity[t] <= Severity[s]

\* Mutant: only a fall from ok or unknown is announced.
Degraded_FromOk(prev, new) == Rank[prev] = 0 /\ Rank[new] > 0
Degraded(prev, new) == Rank[new] > Rank[prev]

Recovered(prev, new) == new = "ok" /\ Rank[prev] > 0

Init ==
  /\ record = "none" /\ test = [e \in Testers |-> Idle]
  /\ told = "none" /\ shaken = FALSE /\ restarts = 0

\* The camera's check and the worst of the others.
Test(e) ==
  /\ test[e] = Idle
  /\ \E camera, others \in Status :
       test' = [test EXCEPT ![e] =
                  [pc |-> "tested", overall |-> Worst({camera, others})]]
  /\ UNCHANGED <<record, told, shaken, restarts>>

Alone(e) == \A f \in Testers \ {e} : test[f] = Idle

\* evaluate_and_alert up to its early returns.  A record that cannot be
\* written is kept as it is.
Evaluate(e, saved) ==
  LET new == test[e].overall
      due == Degraded(record, new) \/ Recovered(record, new)
  IN  /\ test[e].pc = "tested"
      /\ record' = IF saved THEN new ELSE record
      /\ test' = [test EXCEPT ![e] =
                    IF due THEN [pc |-> "announce", overall |-> new] ELSE Idle]
      /\ shaken' = (~Alone(e) \/ ((shaken \/ ~saved) /\ Rank[record'] > 0))
      /\ UNCHANGED <<told, restarts>>

\* Audit log, then webhook; neither is tried again.
Announce(e) ==
  /\ test[e].pc = "announce"
  /\ told' = test[e].overall /\ test' = [test EXCEPT ![e] = Idle]
  /\ UNCHANGED <<record, shaken, restarts>>

\* GET /state runs the self-test if nothing is recorded, and records it.
AskState ==
  /\ record = "none" /\ test[Cockpit] = Idle
  /\ \E s \in Status :
       test' = [test EXCEPT ![Cockpit] = [pc |-> "asked", overall |-> s]]
  /\ UNCHANGED <<record, told, shaken, restarts>>

RecordState ==
  /\ test[Cockpit].pc = "asked"
  /\ record' = test[Cockpit].overall /\ shaken' = TRUE
  /\ test' = [test EXCEPT ![Cockpit] = Idle]
  /\ UNCHANGED <<told, restarts>>

Restart ==
  /\ restarts < MaxRestarts /\ restarts' = restarts + 1
  /\ shaken' = (shaken \/ \E e \in Testers : test[e].pc = "announce")
  /\ test' = [e \in Testers |-> Idle]
  /\ UNCHANGED <<record, told>>

Next ==
  \/ \E e \in Testers : Test(e) \/ Announce(e)
  \/ \E e \in Testers, saved \in BOOLEAN : Evaluate(e, saved)
  \/ AskState \/ RecordState \/ Restart

Spec == Init /\ [][Next]_vars

-----------------------------------------------------------------------------
TypeOK ==
  /\ record \in Status \cup {"none"} /\ told \in Status \cup {"none"}
  /\ test \in [Testers -> {Idle} \cup
                 [pc : {"tested", "announce", "asked"}, overall : Status]]
  /\ shaken \in BOOLEAN /\ restarts \in 0 .. MaxRestarts

\* A station recorded as bad has been announced as bad, whatever it was
\* before, and nothing else since: a warning that becomes a failure is not
\* masked (evaluate_and_alert).  Four things can shake this, until the
\* station is next recorded as ok or unknown: a restart between the record
\* and the announcement, two self-tests that overlap, a record that could
\* not be written, and one written by GET /state.
BadIsTold ==
  ~shaken /\ record = "bad" /\ (\A e \in Testers : test[e].pc # "announce")
    => told = "bad"
=============================================================================
