--------------------------- MODULE AuditChainProofs ---------------------------
(***************************************************************************)
(* Theorems about AuditChain, for any Keep, PageSize and verifiers.        *)
(***************************************************************************)
EXTENDS AuditChain, TLAPS

(***************************************************************************)
(* The columns.  What the prover need not see of the digest is hidden: the *)
(* lemmas use that it is injective and nothing else.                       *)
(***************************************************************************)
LEMMA DigestInjective ==
  ASSUME NEW p, NEW i, NEW c, NEW q, NEW j, NEW d
  PROVE  Digest(p, i, c) = Digest(q, j, d) => p = q /\ i = j /\ c = d
  BY DEF Digest

\* A column with one more row has the old rows and the new one.
LEMMA ExtendIs ==
  ASSUME last \in Nat, NEW column, NEW value
  PROVE  /\ DOMAIN Extend(column, value) = 1 .. last + 1
         /\ Extend(column, value)[last + 1] = value
         /\ \A i \in 1 .. last : Extend(column, value)[i] = column[i]
  BY DEF Extend

\* While pos is not behind the prune, a page begins with the next row, and
\* there is one unless the last row has been read.
LEMMA PageIs ==
  ASSUME ConstantsAssumption, last \in Nat, first \in Nat, NEW after \in Nat,
         after >= first - 1
  PROVE  /\ Page(after) \subseteq Retained
         /\ \A i \in Page(after) : i > after
         /\ \A i \in Page(after) : i - 1 \in Page(after) \/ i = after + 1
         /\ \A i \in Page(after), j \in Retained : after < j /\ j <= i => j \in Page(after)
         /\ after < last => Page(after) # {}
<1>1. PageSize \in Nat /\ PageSize > 0
  BY DEF ConstantsAssumption
<1>2. (IF after < first THEN first ELSE after + 1) = after + 1
  OBVIOUS
<1>3. Page(after) = {i \in first .. last : after + 1 <= i /\ i < after + 1 + PageSize}
  BY <1>2 DEF Page, Retained
<1> HIDE DEF Page
<1>4. Page(after) \subseteq Retained /\ \A i \in Page(after) : i > after
  BY <1>3 DEF Retained
<1>5. ASSUME NEW i \in Page(after) PROVE i - 1 \in Page(after) \/ i = after + 1
  <2>1. i \in first .. last /\ after + 1 <= i /\ i < after + 1 + PageSize
    BY <1>3
  <2> QED
    BY <2>1, <1>1, <1>3
<1>6. ASSUME NEW i \in Page(after), NEW j \in Retained, after < j, j <= i
      PROVE  j \in Page(after)
  BY <1>1, <1>3, <1>6 DEF Retained
<1>7. after < last => after + 1 \in Page(after)
  BY <1>1, <1>3
<1> QED
  BY <1>4, <1>5, <1>6, <1>7

(***************************************************************************)
(* Initially.                                                              *)
(***************************************************************************)
LEMMA InitChain == Init => ChainInv
<1> SUFFICES ASSUME Init PROVE ChainInv
  OBVIOUS
<1> USE ConstantsAssumption DEF Init
<1>1. TypeOK
  BY DEF TypeOK, NoPrune
<1>2. ChainLinked /\ HashOfEmitted
  BY DEF ChainLinked, Retained, HashOfEmitted
<1>3. AnchorSaved
  BY DEF AnchorSaved, AnchorFits, AnchorOf
<1>4. PruneInv /\ VerifyInv
  BY DEF PruneInv, VerifyInv, NoPrune
<1> QED
  BY <1>1, <1>2, <1>3, <1>4 DEF ChainInv

(***************************************************************************)
(* Steps.                                                                  *)
(***************************************************************************)
LEMMA EmitChain == ASSUME ChainInv, Emit PROVE ChainInv'
<1> DEFINE newest == IF Retained = {} THEN NoHash ELSE hash[last]
<1>0. TypeOK /\ last \in Nat /\ first \in 1 .. last + 1 /\ (last > 0 => first <= last)
  BY DEF ChainInv, TypeOK
<1>1. /\ last' = last + 1
      /\ data' = Extend(data, "sound") /\ prev' = Extend(prev, newest)
      /\ hash' = Extend(hash, Digest(newest, last + 1, "sound"))
      /\ UNCHANGED <<first, anchor, pruning, verifyVars, calm, alters, lost>>
  BY DEF Emit
<1>2. /\ data' = [i \in 1 .. last + 1 |-> IF i = last + 1 THEN "sound" ELSE data[i]]
      /\ DOMAIN prev' = 1 .. last + 1 /\ DOMAIN hash' = 1 .. last + 1
  BY <1>0, <1>1, ExtendIs DEF Extend
<1>3. /\ data'[last + 1] = "sound" /\ prev'[last + 1] = newest
      /\ hash'[last + 1] = Digest(newest, last + 1, "sound")
      /\ \A i \in 1 .. last : data'[i] = data[i] /\ prev'[i] = prev[i] /\ hash'[i] = hash[i]
  BY <1>0, <1>1, ExtendIs
<1> HIDE DEF newest
<1>4. TypeOK'
  BY <1>0, <1>1, <1>2 DEF TypeOK, verifyVars
<1>5. Retained' = Retained \cup {last + 1} /\ Retained \subseteq 1 .. last
  BY <1>0, <1>1 DEF Retained
<1>6. Altered' = Altered
  BY <1>3, <1>5 DEF Altered
<1>7. ChainLinked'
  <2>1. prev'[last + 1] = IF last + 1 = 1 THEN NoHash ELSE hash'[(last + 1) - 1]
    BY <1>0, <1>3 DEF newest, Retained
  <2>2. \A i \in Retained : prev'[i] = IF i = 1 THEN NoHash ELSE hash'[i - 1]
    BY <1>0, <1>3, <1>5 DEF ChainInv, ChainLinked
  <2> QED
    BY <1>5, <2>1, <2>2 DEF ChainLinked
<1>8. HashOfEmitted'
  BY <1>0, <1>1, <1>3 DEF ChainInv, HashOfEmitted
<1>9. \A i \in 0 .. last : (AnchorOf(i))' = AnchorOf(i)
  BY <1>0, <1>3 DEF AnchorOf
<1>10. AnchorSaved'
  BY <1>0, <1>1, <1>3 DEF ChainInv, AnchorSaved, AnchorFits, AnchorOf
<1>11. PruneInv'
  BY <1>0, <1>1, ConstantsAssumption DEF ChainInv, PruneInv
<1>12. VerifyInv'
  <2>1. \A v \in Verifiers : pos[v] \in 0 .. last
    BY <1>0 DEF TypeOK
  <2> QED
    BY <1>0, <1>1, <1>3, <1>6, <2>1 DEF ChainInv, VerifyInv, verifyVars, AnchorOf
<1> QED
  BY <1>4, <1>7, <1>8, <1>10, <1>11, <1>12 DEF ChainInv

LEMMA AlterChain == ASSUME ChainInv, NEW i \in Retained, Alter(i) PROVE ChainInv'
<1>0. TypeOK
  BY DEF ChainInv
<1> USE DEF Alter, verifyVars
<1>1. TypeOK'
  <2>1. i \in 1 .. last /\ data' \in [1 .. last -> {"sound", "altered"}]
    BY <1>0 DEF TypeOK, Retained
  <2>2. alters' \in 0 .. MaxAlters
    BY <1>0, ConstantsAssumption DEF TypeOK
  <2> QED
    BY <1>0, <2>1, <2>2 DEF TypeOK
<1>2. Altered \subseteq Altered' /\ Retained' = Retained
  BY <1>0 DEF TypeOK, Altered, Retained
<1>3. ChainLinked' /\ HashOfEmitted'
  BY <1>2 DEF ChainInv, ChainLinked, HashOfEmitted
<1>4. AnchorSaved' /\ PruneInv'
  BY DEF ChainInv, AnchorSaved, AnchorFits, AnchorOf, PruneInv
<1>5. VerifyInv'
  BY <1>2 DEF ChainInv, VerifyInv, AnchorOf
<1> QED
  BY <1>1, <1>3, <1>4, <1>5 DEF ChainInv

LEMMA PruneCountChain == ASSUME ChainInv, PruneCount PROVE ChainInv'
<1>0. TypeOK
  BY DEF ChainInv
<1> USE DEF PruneCount, verifyVars, tableVars
<1>1. TypeOK'
  BY <1>0 DEF TypeOK
<1>2. ChainLinked' /\ HashOfEmitted' /\ PruneInv'
  BY DEF ChainInv, ChainLinked, HashOfEmitted, PruneInv, Retained
<1>3. AnchorSaved' /\ VerifyInv'
  BY DEF ChainInv, AnchorSaved, AnchorFits, AnchorOf, VerifyInv, Altered, Retained
<1> QED
  BY <1>1, <1>2, <1>3 DEF ChainInv

\* The cut is past the oldest row and leaves the newest Keep.
LEMMA CutIs ==
  ASSUME ChainInv, PruneDelete
  PROVE  /\ first' = Cutoff + 1 /\ Cutoff \in Nat
         /\ first' > first /\ last' - first' + 1 = Keep
  BY ConstantsAssumption DEF ChainInv, TypeOK, PruneInv, PruneDelete, Cutoff, tableVars

LEMMA PruneDeleteChain == ASSUME ChainInv, PruneDelete PROVE ChainInv'
<1>0. TypeOK /\ last \in Nat /\ first \in Nat
  BY DEF ChainInv, TypeOK
<1>1. /\ first' = Cutoff + 1 /\ Cutoff \in Nat
      /\ first' > first /\ last' - first' + 1 = Keep
  BY CutIs
<1> USE DEF PruneDelete, verifyVars, tableVars
<1>2. TypeOK'
  <2>1. first' \in 1 .. last + 1 /\ first' <= last /\ Cutoff \in 0 .. last
    BY <1>0, <1>1, ConstantsAssumption
  <2> QED
    BY <1>0, <2>1 DEF TypeOK
<1>3. Retained' \subseteq Retained
  BY <1>0, <1>1 DEF Retained
<1>4. ChainLinked' /\ HashOfEmitted'
  BY <1>3 DEF ChainInv, ChainLinked, HashOfEmitted
<1>5. PruneInv'
  BY <1>1 DEF PruneInv
<1>6. AnchorSaved' /\ VerifyInv'
  BY DEF ChainInv, AnchorSaved, VerifyInv
<1> QED
  BY <1>2, <1>4, <1>5, <1>6 DEF ChainInv

LEMMA SaveAnchorChain == ASSUME ChainInv, SaveAnchor PROVE ChainInv'
<1>0. TypeOK
  BY DEF ChainInv
<1> USE DEF SaveAnchor, verifyVars, tableVars, NoPrune
<1>1. TypeOK'
  BY <1>0 DEF TypeOK, SavedAnchor, AnchorOf
<1>2. ChainLinked' /\ HashOfEmitted' /\ PruneInv' /\ VerifyInv'
  BY DEF ChainInv, ChainLinked, HashOfEmitted, PruneInv, VerifyInv, Retained
<1>3. AnchorSaved'
  BY DEF ChainInv, PruneInv, AnchorSaved, AnchorFits, SavedAnchor, AnchorOf
<1> QED
  BY <1>1, <1>2, <1>3 DEF ChainInv

LEMMA LoseAnchorChain == ASSUME ChainInv, LoseAnchor PROVE ChainInv'
<1>0. TypeOK
  BY DEF ChainInv
<1> USE DEF LoseAnchor, verifyVars, tableVars, NoPrune
<1>1. TypeOK'
  BY <1>0, ConstantsAssumption DEF TypeOK
<1>2. ChainLinked' /\ HashOfEmitted' /\ PruneInv'
  BY DEF ChainInv, ChainLinked, HashOfEmitted, PruneInv, Retained
<1>3. AnchorSaved' /\ VerifyInv'
  BY <1>0 DEF ChainInv, TypeOK, AnchorSaved, VerifyInv, AnchorOf, Altered, Retained
<1> QED
  BY <1>1, <1>2, <1>3 DEF ChainInv

LEMMA VerifyStartChain ==
  ASSUME ChainInv, NEW v \in Verifiers, VerifyStart(v) PROVE ChainInv'
<1>0. TypeOK
  BY DEF ChainInv
<1> USE DEF VerifyStart, tableVars
<1>1. TypeOK'
  BY <1>0 DEF TypeOK, AnchorFits, Altered, Retained
<1>2. ChainLinked' /\ HashOfEmitted' /\ PruneInv' /\ AnchorSaved'
  BY DEF ChainInv, ChainLinked, HashOfEmitted, PruneInv, AnchorSaved, AnchorFits,
     AnchorOf, Retained
<1>3. \A w \in Verifiers : pc'[w] = "idle" => breaks'[w] = {}
  BY <1>0 DEF ChainInv, TypeOK, VerifyInv
<1>4. VerifyInv'
  <2> SUFFICES ASSUME NEW w \in Verifiers, calm'[w]
               PROVE  /\ pos'[w] >= first' - 1
                      /\ running'[w] = (AnchorOf(pos[w]).hash)'
                      /\ breaks'[w] \subseteq Altered'
                      /\ known'[w] \subseteq Altered'
                      /\ \A i \in known'[w] : i <= pos'[w] => i \in breaks'[w]
                      /\ pc'[w] = "done" => known'[w] \subseteq breaks'[w]
    BY <1>3 DEF VerifyInv, AnchorOf
  <2>1. Altered' = Altered
    BY DEF Altered, Retained
  <2>2. CASE w # v
    BY <1>0, <2>1, <2>2 DEF ChainInv, TypeOK, VerifyInv, AnchorOf
  <2>3. CASE w = v
    <3>1. anchor = AnchorOf(first - 1) /\ first \in Nat
      <4>1. calm'[v] = AnchorFits
        BY <1>0 DEF TypeOK
      <4>2. AnchorFits
        BY <2>3, <4>1, Zenon
      <4> QED
        BY <1>0, <4>2 DEF TypeOK, AnchorFits
    <3>2. /\ pos'[w] = anchor.id /\ running'[w] = anchor.hash /\ known'[w] = Altered
          /\ pc'[w] = "reading"
      BY <1>0, <2>3 DEF TypeOK
    <3>3. anchor.id = first - 1 /\ anchor.hash = (AnchorOf(pos[w]).hash)'
      BY <3>1, <3>2 DEF AnchorOf
    <3>4. breaks'[w] = {}
      BY <2>3 DEF ChainInv, VerifyInv
    <3>5. \A i \in Altered : i \in Int /\ i > first - 1
      BY <1>0 DEF TypeOK, Altered, Retained
    <3> QED
      BY <3>1, <3>2, <3>3, <3>4, <3>5, <2>1
  <2> QED
    BY <2>2, <2>3
<1> QED
  BY <1>1, <1>2, <1>4 DEF ChainInv

\* A verification that nothing disturbed finds in a page the altered rows.
LEMMA BreaksAreAltered ==
  ASSUME ChainInv, NEW v \in Verifiers, calm[v]
  PROVE  Breaks(Page(pos[v]), running[v]) = {i \in Page(pos[v]) : data[i] = "altered"}
<1> DEFINE page == Page(pos[v])
<1>0. /\ last \in Nat /\ first \in Nat /\ first >= 1 /\ pos[v] \in 0 .. last
      /\ data \in [1 .. last -> {"sound", "altered"}]
  BY DEF ChainInv, TypeOK
<1>1. pos[v] >= first - 1 /\ running[v] = AnchorOf(pos[v]).hash
  BY DEF ChainInv, VerifyInv
<1>2. /\ page \subseteq Retained
      /\ \A i \in page : i - 1 \in page \/ i = pos[v] + 1
  BY <1>0, <1>1, PageIs, ConstantsAssumption
<1> HIDE DEF page
<1> SUFFICES ASSUME NEW i \in page
             PROVE  (\/ prev[i] # Before(i, page, running[v])
                     \/ hash[i] # Digest(Before(i, page, running[v]), i, data[i]))
                      <=> data[i] = "altered"
  BY DEF Breaks, page
<1>3. i \in Retained /\ i \in 1 .. last
  BY <1>0, <1>2 DEF Retained
<1>4. i - 1 \in page => i # 1
  BY <1>0, <1>2 DEF Retained
<1>5. prev[i] = Before(i, page, running[v])
  BY <1>0, <1>1, <1>2, <1>3, <1>4 DEF ChainInv, ChainLinked, Before, AnchorOf
<1>6. hash[i] = Digest(prev[i], i, "sound")
  BY <1>3 DEF ChainInv, HashOfEmitted
<1>7. data[i] \in {"sound", "altered"}
  BY <1>0, <1>3
<1>8. hash[i] = Digest(prev[i], i, data[i]) <=> data[i] = "sound"
  BY <1>6, DigestInjective
<1> QED
  BY <1>5, <1>7, <1>8

LEMMA ReadPageChain ==
  ASSUME ChainInv, NEW v \in Verifiers, ReadPage(v) PROVE ChainInv'
<1>0. TypeOK /\ last \in Nat /\ first \in Nat
  BY DEF ChainInv, TypeOK
<1> DEFINE page == Page(pos[v])
<1>1. PICK newest \in page :
        /\ \A i \in page : i <= newest
        /\ pos' = [pos EXCEPT ![v] = newest]
        /\ running' = [running EXCEPT ![v] = hash[newest]]
  BY DEF ReadPage
<1>2. /\ breaks' = [breaks EXCEPT ![v] = @ \cup Breaks(page, running[v])]
      /\ UNCHANGED <<tableVars, first, anchor, pruning, pc, known, calm, alters, lost>>
      /\ pc[v] = "reading"
  BY DEF ReadPage
<1>3. page \subseteq Retained /\ Breaks(page, running[v]) \subseteq page
  BY DEF Page, Breaks
<1>4. Retained \subseteq 1 .. last
  BY <1>0 DEF TypeOK, Retained
<1> HIDE DEF page
<1> USE DEF tableVars
<1>5. TypeOK'
  <2>1. newest \in 1 .. last /\ Breaks(page, running[v]) \subseteq 1 .. last
    BY <1>1, <1>3, <1>4
  <2>2. pos' \in [Verifiers -> 0 .. last] /\ DOMAIN running' = Verifiers
    BY <1>0, <1>1, <2>1 DEF TypeOK
  <2>3. breaks' \in [Verifiers -> SUBSET (1 .. last)]
    BY <1>0, <1>2, <2>1 DEF TypeOK
  <2> QED
    BY <1>0, <1>2, <2>2, <2>3 DEF TypeOK
<1>6. ChainLinked' /\ HashOfEmitted' /\ PruneInv' /\ AnchorSaved'
  BY <1>2 DEF ChainInv, ChainLinked, HashOfEmitted, PruneInv, AnchorSaved, AnchorFits,
     AnchorOf, Retained
<1>7. \A w \in Verifiers : pc'[w] = "idle" => breaks'[w] = {}
  BY <1>0, <1>2 DEF ChainInv, TypeOK, VerifyInv
<1>8. VerifyInv'
  <2> SUFFICES ASSUME NEW w \in Verifiers, calm'[w]
               PROVE  /\ pos'[w] >= first' - 1
                      /\ running'[w] = (AnchorOf(pos[w]).hash)'
                      /\ breaks'[w] \subseteq Altered'
                      /\ known'[w] \subseteq Altered'
                      /\ \A i \in known'[w] : i <= pos'[w] => i \in breaks'[w]
                      /\ pc'[w] = "done" => known'[w] \subseteq breaks'[w]
    BY <1>7 DEF VerifyInv, AnchorOf
  <2>1. Altered' = Altered /\ calm[w]
    BY <1>2 DEF Altered, Retained
  <2>2. CASE w # v
    BY <1>0, <1>1, <1>2, <2>1, <2>2 DEF ChainInv, TypeOK, VerifyInv, AnchorOf
  <2>3. CASE w = v
    <3>1. /\ pos[v] >= first - 1 /\ pos[v] \in Nat
          /\ breaks[v] \subseteq Altered /\ known[v] \subseteq Altered
          /\ \A i \in known[v] : i <= pos[v] => i \in breaks[v]
      BY <1>0, <2>1, <2>3 DEF ChainInv, TypeOK, VerifyInv
    <3>2. /\ \A i \in page : i > pos[v]
          /\ \A i \in page, j \in Retained : pos[v] < j /\ j <= i => j \in page
      BY <1>0, <3>1, PageIs, ConstantsAssumption DEF page
    <3>3. /\ pos'[v] = newest /\ running'[v] = hash[newest]
          /\ breaks'[v] = breaks[v] \cup {i \in page : data[i] = "altered"}
      BY <1>0, <1>1, <1>2, <2>1, <2>3, BreaksAreAltered DEF TypeOK, page
    <3>4. newest \in Nat /\ newest > pos[v] /\ newest # 0
      <4>1. newest \in 1 .. last /\ newest > pos[v]
        BY <1>1, <1>3, <1>4, <3>2
      <4> QED
        BY <3>1, <4>1
    <3>5. running'[v] = (AnchorOf(pos[v]).hash)'
      BY <1>2, <3>3, <3>4 DEF AnchorOf
    <3>6. breaks'[v] \subseteq Altered'
      BY <1>3, <2>1, <3>1, <3>3 DEF Altered
    <3>7. \A i \in known[v] : i <= newest => i \in breaks'[v]
      <4> SUFFICES ASSUME NEW i \in known[v], i <= newest PROVE i \in breaks'[v]
        OBVIOUS
      <4>0. last \in Nat /\ first \in Nat /\ i \in Altered
        BY <1>0, <3>1
      <4>1. i \in Retained /\ data[i] = "altered" /\ i \in Nat
        BY <4>0 DEF Altered, Retained
      <4>2. CASE i <= pos[v]
        BY <3>1, <3>3, <4>2
      <4>3. CASE pos[v] < i
        BY <1>1, <3>2, <3>3, <4>1, <4>3
      <4> QED
        BY <3>1, <4>1, <4>2, <4>3
    <3> QED
      BY <1>0, <1>2, <2>1, <2>3, <3>1, <3>3, <3>4, <3>5, <3>6, <3>7
  <2> QED
    BY <2>2, <2>3
<1> QED
  BY <1>5, <1>6, <1>8 DEF ChainInv

LEMMA VerifyEndChain ==
  ASSUME ChainInv, NEW v \in Verifiers, VerifyEnd(v) PROVE ChainInv'
<1>0. TypeOK /\ last \in Nat /\ first \in Nat
  BY DEF ChainInv, TypeOK
<1>1. /\ pc' = [pc EXCEPT ![v] = "done"] /\ Page(pos[v]) = {}
      /\ UNCHANGED <<tableVars, first, anchor, pruning, pos, running, breaks, known,
                     calm, alters, lost>>
  BY DEF VerifyEnd
<1> USE DEF tableVars
<1>2. TypeOK'
  BY <1>0, <1>1 DEF TypeOK
<1>3. ChainLinked' /\ HashOfEmitted' /\ PruneInv' /\ AnchorSaved'
  BY <1>1 DEF ChainInv, ChainLinked, HashOfEmitted, PruneInv, AnchorSaved, AnchorFits,
     AnchorOf, Retained
<1>4. calm[v] => known[v] \subseteq breaks[v]
  <2> SUFFICES ASSUME calm[v] PROVE known[v] \subseteq breaks[v]
    OBVIOUS
  <2>1. /\ pos[v] >= first - 1 /\ pos[v] \in Nat /\ known[v] \subseteq Altered
        /\ \A i \in known[v] : i <= pos[v] => i \in breaks[v]
    BY <1>0 DEF ChainInv, VerifyInv, TypeOK
  <2>2. pos[v] >= last
    BY <1>0, <1>1, <2>1, PageIs, ConstantsAssumption
  <2>3. \A i \in Altered : i <= last
    BY <1>0 DEF Altered, Retained
  <2> QED
    BY <1>0, <2>1, <2>2, <2>3 DEF Altered, Retained
<1>5. VerifyInv'
  BY <1>0, <1>1, <1>4 DEF ChainInv, TypeOK, VerifyInv, AnchorOf, Altered, Retained
<1> QED
  BY <1>2, <1>3, <1>5 DEF ChainInv

(***************************************************************************)
(* The theorems.                                                           *)
(***************************************************************************)
LEMMA StepChain == ChainInv /\ [Next]_vars => ChainInv'
<1> SUFFICES ASSUME ChainInv, [Next]_vars PROVE ChainInv'
  OBVIOUS
<1>1. CASE Emit
  BY <1>1, EmitChain
<1>2. ASSUME NEW i \in Retained, Alter(i) PROVE ChainInv'
  BY <1>2, AlterChain
<1>3. CASE PruneCount
  BY <1>3, PruneCountChain
<1>4. CASE PruneDelete
  BY <1>4, PruneDeleteChain
<1>5. CASE SaveAnchor
  BY <1>5, SaveAnchorChain
<1>6. CASE LoseAnchor
  BY <1>6, LoseAnchorChain
<1>7. ASSUME NEW v \in Verifiers, VerifyStart(v) \/ ReadPage(v) \/ VerifyEnd(v)
      PROVE  ChainInv'
  BY <1>7, VerifyStartChain, ReadPageChain, VerifyEndChain
<1>8. CASE UNCHANGED vars
  BY <1>8 DEF vars, tableVars, verifyVars, ChainInv, TypeOK, ChainLinked, HashOfEmitted,
     PruneInv, AnchorSaved, AnchorFits, AnchorOf, VerifyInv, Altered, Retained
<1> QED
  BY <1>1, <1>2, <1>3, <1>4, <1>5, <1>6, <1>7, <1>8 DEF Next

\* The inductive invariant holds of every run.
THEOREM ChainCorrect == Spec => []ChainInv
  BY InitChain, StepChain, PTL DEF Spec

\* The retained rows are one chain whatever emits come between the steps of a
\* prune (audit.prune, audit.emit).
THEOREM RetainedRowsAreLinked == Spec => []ChainLinked
<1>1. ChainInv => ChainLinked
  BY DEF ChainInv
<1> QED
  BY <1>1, ChainCorrect, PTL

\* Unless a prune is cut off, the anchor names the row before the retained ones
\* (audit._save_anchor).
THEOREM AnchorIsSaved == Spec => []AnchorSaved
<1>1. ChainInv => AnchorSaved
  BY DEF ChainInv
<1> QED
  BY <1>1, ChainCorrect, PTL

\* verify_chain undisturbed by a prune reports the altered rows and no others,
\* for any page size (audit.verify_chain).
THEOREM VerdictsAreTrue == Spec => []VerdictTrue
<1>1. ChainInv => VerdictTrue
  BY DEF ChainInv, VerifyInv, VerdictTrue
<1> QED
  BY <1>1, ChainCorrect, PTL

\* A prune never takes one of the newest Keep rows (audit.prune).
THEOREM NewestRowsAreKept == Spec => NewestKept
<1>1. ASSUME ChainInv, [Next]_vars
      PROVE  [first' # first => first' > first /\ last' - first' + 1 >= Keep]_vars
  <2> SUFFICES ASSUME Next, first' # first
               PROVE  first' > first /\ last' - first' + 1 >= Keep
    BY <1>1
  <2>1. CASE PruneDelete
    BY <1>1, <2>1, CutIs, ConstantsAssumption
  <2>2. CASE ~PruneDelete
    BY <2>2 DEF Next, Emit, Alter, PruneCount, SaveAnchor, LoseAnchor, VerifyStart,
       ReadPage, VerifyEnd
  <2> QED
    BY <2>1, <2>2
<1> QED
  BY <1>1, ChainCorrect, PTL DEF Spec, NewestKept
===============================================================================
