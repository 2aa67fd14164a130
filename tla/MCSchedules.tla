------------------------------ MODULE MCSchedules ------------------------------
(* Schedules of a week of two days of three ticks. *)
EXTENDS Schedules

\* All day; over midnight.
MCPlans == { [interval |-> 2, from |-> 0, to |-> 2, days |-> {}],
             [interval |-> 1, from |-> 2, to |-> 0, days |-> {0}] }
===============================================================================
