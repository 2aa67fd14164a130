---------------------------- MODULE DeliveryLedger ----------------------------
(***************************************************************************)
(* What the upload queue promises, without threads, attempts, crashes or   *)
(* transactions: a ledger of items, each one photo owed to one             *)
(* destination.  An item is entered as owed, an owed item ends delivered   *)
(* or abandoned, an abandoned one may be owed again, and everything about  *)
(* a photo is withdrawn with it.  UploadQueue implements this module.      *)
(***************************************************************************)
CONSTANTS Photos, Dests, Items

VARIABLES
  ledger,    \* the status of each item
  received,  \* <<photo, dest>> pairs the destinations were sent in full
  uploaded   \* photos whose items were all delivered

vars == <<ledger, received, uploaded>>

Status == {"none", "owed", "delivered", "abandoned", "withdrawn"}
Of(p) == {i \in Items : i.photo = p}

Init ==
  /\ ledger = [i \in Items |-> "none"]
  /\ received = {}
  /\ uploaded = {}

\* Items of photos enter the ledger, or are reinstated by the operator.
Owe(S) ==
  /\ \A i \in S : ledger[i] \in {"none", "abandoned", "owed"}
  /\ ledger' = [i \in Items |-> IF i \in S THEN "owed" ELSE ledger[i]]
  /\ UNCHANGED <<received, uploaded>>

\* A destination is sent only what it is owed, or what was withdrawn while
\* it was being sent.
Receive(i) ==
  /\ ledger[i] \in {"owed", "withdrawn"}
  /\ received' = received \cup {<<i.photo, i.dest>>}
  /\ UNCHANGED <<ledger, uploaded>>

\* An item is delivered only once its destination has the photo, and the
\* delivery that leaves nothing else to do makes the photo uploaded.
Deliver(i) ==
  /\ ledger[i] = "owed"
  /\ <<i.photo, i.dest>> \in received
  /\ ledger' = [ledger EXCEPT ![i] = "delivered"]
  /\ uploaded' = IF \A j \in Of(i.photo) \ {i} : ledger[j] \in {"none", "delivered"}
                 THEN uploaded \cup {i.photo} ELSE uploaded
  /\ UNCHANGED received

Abandon(i) ==
  /\ ledger[i] = "owed"
  /\ ledger' = [ledger EXCEPT ![i] = "abandoned"]
  /\ UNCHANGED <<received, uploaded>>

Withdraw(p) ==
  /\ ledger' = [i \in Items |-> IF i.photo = p THEN "withdrawn" ELSE ledger[i]]
  /\ uploaded' = uploaded \ {p}
  /\ UNCHANGED received

Next ==
  \/ \E S \in SUBSET Items : Owe(S)
  \/ \E i \in Items : Receive(i) \/ Deliver(i) \/ Abandon(i)
  \/ \E p \in Photos : Withdraw(p)

Spec == Init /\ [][Next]_vars
===============================================================================
