------------------------------ MODULE PowerGuard ------------------------------
(***************************************************************************)
(* The safe shutdown of a station with a UPS: after every self-test the    *)
(* health loop reads the battery, and powers the station off before it is  *)
(* empty.                                                                  *)
(***************************************************************************)
EXTENDS Naturals

CONSTANTS
  Full, Low,   \* charge of the battery, and SAFE_SHUTDOWN_PERCENT
  Period,      \* between two looks at the battery
  StartDelay,  \* from the start of the service to the first
  MaxFails, MaxRestarts  \* bounds: failing power-offs, ends of the service

\* A unit of charge is what the battery can lose in a unit of time: the code's
\* figures are safe for batteries that lose less than Low in these times.
Assumption ==
  /\ {Full, Low, Period, StartDelay} \subseteq Nat \ {0}
  /\ {MaxFails, MaxRestarts} \subseteq Nat
  /\ Low <= Full /\ StartDelay <= Period
  /\ Period * (MaxFails + 1) + StartDelay * MaxRestarts <= Low

VARIABLES
  charge, mains,
  began,  \* charge when the mains went away last
  due,    \* time until the next look
  power,  \* on, off in an orderly way, or lost
  fails, restarts

vars == <<charge, mains, began, due, power, fails, restarts>>

Init ==
  /\ charge = Full /\ mains = TRUE /\ began = Full /\ due = StartDelay /\ power = "on"
  /\ fails = 0 /\ restarts = 0

OnBattery == ~mains

\* Mutant: only an empty battery is low.
Critical_Empty == charge = 0
Critical == charge <= Low

\* A look takes no time; the next is a period later.
Tick ==
  /\ power = "on" /\ due > 0 /\ due' = due - 1
  /\ IF mains
     THEN charge' = (IF charge < Full THEN charge + 1 ELSE charge) /\ UNCHANGED power
     ELSE \E r \in {0, 1} :
            IF r < charge THEN charge' = charge - r /\ UNCHANGED power
            ELSE charge' = 0 /\ power' = "lost"
  /\ UNCHANGED <<mains, began, fails, restarts>>

MainsChange ==
  /\ power = "on" /\ mains' = ~mains
  /\ began' = IF mains THEN charge ELSE began
  /\ UNCHANGED <<charge, due, power, fails, restarts>>

Due == power = "on" /\ due = 0

\* maybe_safe_shutdown; poweroff may fail, and is tried at the next look.
Look ==
  /\ Due /\ ~(OnBattery /\ Critical) /\ due' = Period
  /\ UNCHANGED <<charge, mains, began, power, fails, restarts>>

PowerOff ==
  /\ Due /\ OnBattery /\ Critical /\ power' = "off"
  /\ UNCHANGED <<charge, mains, began, due, fails, restarts>>

PowerOffFails ==
  /\ Due /\ OnBattery /\ Critical /\ fails < MaxFails
  /\ fails' = fails + 1 /\ due' = Period
  /\ UNCHANGED <<charge, mains, began, power, restarts>>

Restart ==
  /\ power = "on" /\ restarts < MaxRestarts /\ restarts' = restarts + 1
  /\ due' = StartDelay
  /\ UNCHANGED <<charge, mains, began, power, fails>>

Next ==
  Tick \/ MainsChange \/ Look \/ PowerOff \/ PowerOffFails \/ Restart

Spec == Init /\ [][Next]_vars

-----------------------------------------------------------------------------
TypeOK ==
  /\ {charge, began} \subseteq 0 .. Full /\ mains \in BOOLEAN
  /\ due \in 0 .. Period /\ power \in {"on", "off", "lost"}
  /\ fails \in 0 .. MaxFails /\ restarts \in 0 .. MaxRestarts

\* An outage that finds the battery above the threshold ends with the mains
\* back or the station powered off in an orderly way, through a power-off
\* that fails and a restart of the service; the mains may have come and gone
\* before (maybe_safe_shutdown, _health_loop).
ShutsDownInTime == power = "lost" => began <= Low
=============================================================================
