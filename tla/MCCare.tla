-------------------------------- MODULE MCCare --------------------------------
(* Small batteries and calendars. *)
EXTENDS Care

\* A window within the day on the first of two days; one across midnight, on
\* both and on one of them; and one that never closes.
MCPlans == {[interval |-> 2, from |-> 2, to |-> 9, days |-> {0}],
            [interval |-> 2, from |-> 7, to |-> 3, days |-> {0, 1}],
            [interval |-> 2, from |-> 7, to |-> 3, days |-> {0}],
            [interval |-> 3, from |-> 4, to |-> 3, days |-> {}]}
=============================================================================
