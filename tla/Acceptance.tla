------------------------------ MODULE Acceptance ------------------------------
(***************************************************************************)
(* The acceptance runner: a thread goes through the checks, writing a row  *)
(* before and after each, and a summary.  The cockpit starts no second     *)
(* run; the wizard does.                                                   *)
(***************************************************************************)
EXTENDS Naturals, Sequences, FiniteSets

CONSTANTS
  Runs,      \* ids of runs
  NoRun,
  Checks,    \* number of checks
  MaxEnds    \* bound: ends of the process

Assumption ==
  /\ IsFiniteSet(Runs) /\ NoRun \notin Runs
  /\ Checks \in Nat \ {0} /\ MaxEnds \in Nat

VARIABLES
  run,      \* table acceptance_runs
  result,   \* table acceptance_results: the states of each run's rows
  current,  \* the runner's run
  thread,   \* of each run: its counters
  ends

vars == <<run, result, current, thread, ends>>

Outcomes == {"ok", "fail", "skip"}
Absent == [state |-> "none", pass |-> 0, fail |-> 0]
NoThread == [pc |-> "none", pass |-> 0, fail |-> 0]

Init ==
  /\ run = [r \in Runs |-> Absent] /\ result = [r \in Runs |-> << >>]
  /\ current = NoRun /\ thread = [r \in Runs |-> NoThread] /\ ends = 0

Start(r) ==
  /\ run[r] = Absent
  /\ run' = [run EXCEPT ![r].state = "running"]
  /\ current' = r /\ thread' = [thread EXCEPT ![r].pc = "next"]
  /\ UNCHANGED <<result, ends>>

CockpitStarts(r) == current = NoRun /\ Start(r)
WizardStarts(r) == Start(r)

Begin(r) ==
  /\ thread[r].pc = "next" /\ Len(result[r]) < Checks
  /\ result' = [result EXCEPT ![r] = Append(@, "running")]
  /\ thread' = [thread EXCEPT ![r].pc = "check"]
  /\ UNCHANGED <<run, current, ends>>

\* The check itself; one that raises has failed.
Outcome(r, o) ==
  /\ thread[r].pc = "check"
  /\ thread' = [thread EXCEPT
       ![r].pc = o,
       ![r].pass = IF o = "ok" THEN @ + 1 ELSE @,
       ![r].fail = IF o = "fail" THEN @ + 1 ELSE @]
  /\ UNCHANGED <<run, result, current, ends>>

\* Row and counts in one transaction.
Save(r) ==
  /\ thread[r].pc \in Outcomes
  /\ result' = [result EXCEPT ![r] = [@ EXCEPT ![Len(result[r])] = thread[r].pc]]
  /\ run' = [run EXCEPT ![r].pass = thread[r].pass, ![r].fail = thread[r].fail]
  /\ thread' = [thread EXCEPT ![r].pc = "next"]
  /\ UNCHANGED <<current, ends>>

\* Mutant: a run is good that has passed a check.
Verdict_AnyPass(t) == IF t.pass > 0 THEN "ok" ELSE "failed"
Verdict(t) == IF t.fail = 0 THEN "ok" ELSE "failed"

Finish(r) ==
  /\ thread[r].pc = "next" /\ Len(result[r]) = Checks
  /\ run' = [run EXCEPT ![r].state = Verdict(thread[r])]
  /\ thread' = [thread EXCEPT ![r].pc = "clear"]
  /\ UNCHANGED <<result, current, ends>>

Clear(r) ==
  /\ thread[r].pc = "clear" /\ thread' = [thread EXCEPT ![r].pc = "none"]
  /\ current' = IF current = r THEN NoRun ELSE current
  /\ UNCHANGED <<run, result, ends>>

\* The thread is a daemon: its run stays "running" in the table.
ProcessEnds ==
  /\ ends < MaxEnds /\ ends' = ends + 1
  /\ thread' = [r \in Runs |-> NoThread] /\ current' = NoRun
  /\ UNCHANGED <<run, result>>

Next ==
  \/ \E r \in Runs : \/ CockpitStarts(r) \/ WizardStarts(r) \/ Begin(r)
                     \/ Save(r) \/ Finish(r) \/ Clear(r)
                     \/ \E o \in Outcomes : Outcome(r, o)
  \/ ProcessEnds

Spec == Init /\ [][Next]_vars

-----------------------------------------------------------------------------
Rows(r, o) == Cardinality({i \in DOMAIN result[r] : result[r][i] = o})

TypeOK ==
  /\ run \in [Runs -> [state : {"none", "running", "ok", "failed"},
                       pass : 0 .. Checks, fail : 0 .. Checks]]
  /\ \A r \in Runs : /\ result[r] \in Seq(Outcomes \cup {"running"})
                     /\ Len(result[r]) <= Checks
  /\ current \in Runs \cup {NoRun}
  /\ thread \in [Runs -> [pc : Outcomes \cup {"none", "next", "check", "clear"},
                          pass : 0 .. Checks, fail : 0 .. Checks]]
  /\ ends \in 0 .. MaxEnds

\* The summary agrees with the report, for runs side by side and for a run
\* its process left behind; a run is called ok or failed only when every
\* check has been made, and ok only if none of them failed (_run, status).
SummaryTrue ==
  \A r \in Runs :
    /\ run[r].pass = Rows(r, "ok") /\ run[r].fail = Rows(r, "fail")
    /\ run[r].state = "ok" => Len(result[r]) = Checks /\ Rows(r, "fail") = 0
                              /\ Rows(r, "running") = 0
    /\ run[r].state = "failed" => Rows(r, "fail") > 0
=============================================================================
