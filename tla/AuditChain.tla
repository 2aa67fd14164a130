------------------------------ MODULE AuditChain ------------------------------
(***************************************************************************)
(* The audit log (audit.py): rows linked by hashes, pruned from the front  *)
(* by the nightly retention process, with the anchor of the retained rows  *)
(* in a file beside the database, and verified page by page.               *)
(*                                                                         *)
(* Every process of the station emits rows; emit() is one transaction.     *)
(* prune() is a count, a transaction and a file replacement; verify_chain  *)
(* reads the anchor and then one page after the other.  Other processes    *)
(* act in between.                                                         *)
(***************************************************************************)
EXTENDS Integers

CONSTANTS
  Keep,       \* rows a prune retains, 50000 in the code
  PageSize,   \* rows a verification reads at once, 5000 in the code
  Verifiers,  \* requests that verify the chain
  NoHash

\* Bounds of the model: rows emitted, rows altered, prunes that end between
\* their transaction and their anchor.
CONSTANTS MaxRows, MaxAlters, MaxLost

ASSUME ConstantsAssumption ==
  /\ Keep \in Nat \ {0} /\ PageSize \in Nat \ {0}
  /\ {MaxRows, MaxAlters, MaxLost} \subseteq Nat

VARIABLES
  last, first,       \* ids of the newest row and of the oldest not pruned
  data, prev, hash,  \* the columns of every row ever emitted, by id
  anchor,            \* audit_anchor.json
  pruning,           \* the retention process: where it is, the row it cut at
  pc, pos, running, breaks,  \* each verification: last_id, prev, breaks
  calm, known,       \* history: see VerifyStart
  alters, lost       \* rows altered and anchors lost so far

tableVars == <<last, data, prev, hash>>
verifyVars == <<pc, pos, running, breaks, known>>
vars == <<tableVars, first, anchor, pruning, verifyVars, calm, alters, lost>>

Retained == first .. last

\* _hash: SHA-256 over the previous hash and the row, taken as injective.
Digest(previous, id, content) == <<previous, id, content>>

NoPrune == [pc |-> "idle", cutoff |-> 0]

Init ==
  /\ last = 0 /\ first = 1
  /\ data = <<>> /\ prev = <<>> /\ hash = <<>>
  /\ anchor = [id |-> 0, hash |-> NoHash]
  /\ pruning = NoPrune
  /\ pc = [v \in Verifiers |-> "idle"]
  /\ pos = [v \in Verifiers |-> 0]
  /\ running = [v \in Verifiers |-> NoHash]
  /\ breaks = [v \in Verifiers |-> {}]
  /\ calm = [v \in Verifiers |-> FALSE]
  /\ known = [v \in Verifiers |-> {}]
  /\ alters = 0 /\ lost = 0

AnchorOf(i) == [id |-> i, hash |-> IF i = 0 THEN NoHash ELSE hash[i]]

\* The anchor names the row before the oldest retained one.
AnchorFits == anchor = AnchorOf(first - 1)

Altered == {i \in Retained : data[i] = "altered"}

-----------------------------------------------------------------------------

\* A column with one more row.
Extend(column, value) ==
  [i \in 1 .. last + 1 |-> IF i = last + 1 THEN value ELSE column[i]]

\* emit(): the newest row's hash is read in the transaction that inserts.
Emit ==
  /\ last < MaxRows /\ last' = last + 1
  /\ LET newest == IF Retained = {} THEN NoHash ELSE hash[last]
     IN  /\ data' = Extend(data, "sound")
         /\ prev' = Extend(prev, newest)
         /\ hash' = Extend(hash, Digest(newest, last + 1, "sound"))
  /\ UNCHANGED <<first, anchor, pruning, verifyVars, calm, alters, lost>>

\* What the chain is there to show: a stored row changes.
Alter(i) ==
  /\ alters < MaxAlters /\ alters' = alters + 1
  /\ data[i] = "sound"
  /\ data' = [data EXCEPT ![i] = "altered"]
  /\ UNCHANGED <<last, prev, hash, first, anchor, pruning, verifyVars, calm, lost>>

\* prune(): nothing to do while the table holds no more than Keep rows.
PruneCount ==
  /\ pruning.pc = "idle"
  /\ last - first + 1 > Keep
  /\ pruning' = [pc |-> "counted", cutoff |-> 0]
  /\ UNCHANGED <<tableVars, first, anchor, verifyVars, calm, alters, lost>>

\* Mutant: one row too many is cut.
Cutoff_OffByOne == last - Keep + 1

\* Mutant: the offset is forgotten.
Cutoff_NoOffset == last

\* ORDER BY id DESC LIMIT 1 OFFSET keep; it exists, since only a prune
\* removes rows.
Cutoff == last - Keep

PruneDelete ==
  /\ pruning.pc = "counted"
  /\ first' = Cutoff + 1
  /\ pruning' = [pc |-> "deleted", cutoff |-> Cutoff]
  /\ calm' = [v \in Verifiers |-> FALSE]
  /\ UNCHANGED <<tableVars, anchor, verifyVars, alters, lost>>

\* Mutant: the anchor is the oldest retained row.
SavedAnchor_First == AnchorOf(first)

SavedAnchor == AnchorOf(pruning.cutoff)

\* A new file is renamed over the old one.
SaveAnchor ==
  /\ pruning.pc = "deleted" /\ pruning' = NoPrune
  /\ anchor' = SavedAnchor
  /\ calm' = [v \in Verifiers |-> FALSE]
  /\ UNCHANGED <<tableVars, first, verifyVars, alters, lost>>

\* The process is killed, the power fails, or the file cannot be written
\* (the sweep swallows the exception).
LoseAnchor ==
  /\ pruning.pc = "deleted" /\ pruning' = NoPrune
  /\ lost < MaxLost /\ lost' = lost + 1
  /\ UNCHANGED <<tableVars, first, anchor, verifyVars, calm, alters>>

\* verify_chain starts from the anchor.  `calm' stays true while the anchor
\* fitted and no prune commits or saves; `known' are the rows altered by now.
VerifyStart(v) ==
  /\ pc[v] = "idle" /\ pc' = [pc EXCEPT ![v] = "reading"]
  /\ pos' = [pos EXCEPT ![v] = anchor.id]
  /\ running' = [running EXCEPT ![v] = anchor.hash]
  /\ calm' = [calm EXCEPT ![v] = AnchorFits]
  /\ known' = [known EXCEPT ![v] = Altered]
  /\ UNCHANGED <<tableVars, first, anchor, pruning, breaks, alters, lost>>

\* The rows one SELECT returns: id > last_id, ascending, at most PageSize.
Page(after) ==
  LET from == IF after < first THEN first ELSE after + 1
  IN  {i \in Retained : from <= i /\ i < from + PageSize}

\* Mutant: every page starts without a previous hash.
Before_PageLocal(i, page, carried) == IF i - 1 \in page THEN hash[i - 1] ELSE NoHash

\* The running previous hash when row i of a page is looked at.
Before(i, page, carried) == IF i - 1 \in page THEN hash[i - 1] ELSE carried

Breaks(page, carried) ==
  {i \in page : \/ prev[i] # Before(i, page, carried)
                \/ hash[i] # Digest(Before(i, page, carried), i, data[i])}

ReadPage(v) ==
  LET page == Page(pos[v])
  IN  /\ pc[v] = "reading"
      /\ \E newest \in page :
           /\ \A i \in page : i <= newest
           /\ pos' = [pos EXCEPT ![v] = newest]
           /\ running' = [running EXCEPT ![v] = hash[newest]]
      /\ breaks' = [breaks EXCEPT ![v] = @ \cup Breaks(page, running[v])]
      /\ UNCHANGED <<tableVars, first, anchor, pruning, pc, known, calm, alters, lost>>

VerifyEnd(v) ==
  /\ pc[v] = "reading" /\ Page(pos[v]) = {}
  /\ pc' = [pc EXCEPT ![v] = "done"]
  /\ UNCHANGED <<tableVars, first, anchor, pruning, pos, running, breaks, known,
                 calm, alters, lost>>

Next ==
  \/ Emit \/ \E i \in Retained : Alter(i)
  \/ PruneCount \/ PruneDelete \/ SaveAnchor \/ LoseAnchor
  \/ \E v \in Verifiers : VerifyStart(v) \/ ReadPage(v) \/ VerifyEnd(v)

Spec == Init /\ [][Next]_vars

-----------------------------------------------------------------------------
(* Properties *)

\* Types; in particular a log that has a row never becomes empty, or the
\* next row would start a new chain.
TypeOK ==
  /\ last \in Nat /\ first \in 1 .. last + 1 /\ (last > 0 => first <= last)
  /\ data \in [1 .. last -> {"sound", "altered"}]
  /\ DOMAIN prev = 1 .. last /\ DOMAIN hash = 1 .. last
  /\ anchor.id \in 0 .. last
  /\ pruning.pc \in {"idle", "counted", "deleted"} /\ pruning.cutoff \in 0 .. last
  /\ pc \in [Verifiers -> {"idle", "reading", "done"}]
  /\ pos \in [Verifiers -> 0 .. last]
  /\ breaks \in [Verifiers -> SUBSET (1 .. last)]
  /\ known \in [Verifiers -> SUBSET (1 .. last)]
  /\ calm \in [Verifiers -> BOOLEAN]
  /\ DOMAIN running = Verifiers
  /\ alters \in 0 .. MaxAlters /\ lost \in 0 .. MaxLost

\* The retained rows are one chain, whatever was pruned between two emits:
\* prune() never takes the row the next emit() links to.
ChainLinked ==
  \A i \in Retained : prev[i] = IF i = 1 THEN NoHash ELSE hash[i - 1]

\* As long as no prune was cut off, the anchor fits again as soon as the
\* prune is over.
AnchorSaved == lost = 0 /\ pruning.pc # "deleted" => AnchorFits

\* verify_chain over a table no prune touches meanwhile tells the truth: it
\* reports only rows that were altered, and every row altered before it
\* began, wherever the pages begin and whatever is emitted in between.
VerdictTrue ==
  \A v \in Verifiers : calm[v] =>
    /\ breaks[v] \subseteq Altered
    /\ pc[v] = "done" => known[v] \subseteq breaks[v]

\* A prune takes old rows only, and never any of the newest Keep.
NewestKept ==
  [][first' # first => first' > first /\ last' - first' + 1 >= Keep]_vars

\* What the proofs rest on: every hash is that of the row as it was emitted,
HashOfEmitted == \A i \in 1 .. last : hash[i] = Digest(prev[i], i, "sound")

\* a prune that counted has rows to cut, and one that cut has the anchor,
PruneInv ==
  /\ pruning.pc = "counted" => last - first + 1 > Keep
  /\ pruning.pc = "deleted" => pruning.cutoff = first - 1

\* and a verification that nothing disturbed carries the hash of the last row
\* it read and has judged every row so far.
VerifyInv ==
  \A v \in Verifiers :
    /\ pc[v] = "idle" => breaks[v] = {}
    /\ calm[v] =>
         /\ pos[v] >= first - 1
         /\ running[v] = AnchorOf(pos[v]).hash
         /\ breaks[v] \subseteq Altered
         /\ known[v] \subseteq Altered
         /\ \A i \in known[v] : i <= pos[v] => i \in breaks[v]
         /\ pc[v] = "done" => known[v] \subseteq breaks[v]

ChainInv ==
  TypeOK /\ ChainLinked /\ HashOfEmitted /\ PruneInv /\ AnchorSaved /\ VerifyInv
===============================================================================
