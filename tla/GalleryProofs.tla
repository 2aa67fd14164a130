----------------------------- MODULE GalleryProofs ----------------------------
(***************************************************************************)
(* Type correctness of Gallery; that no only copy and no unsent picture is *)
(* lost, however the camera names its files, but for those taken under a   *)
(* name still in use; and where the sweep stops: for photos, removing      *)
(* threads and crashes of any number.                                      *)
(***************************************************************************)
EXTENDS Gallery, WellFoundedInduction, FiniteSetTheorems, TLAPS

-----------------------------------------------------------------------------
(* Types. *)

\* The sweep takes its list oldest first; there is an oldest.
LEMMA OldestListed ==
  ASSUME sweep \in Sweeps, sweep.list # {}
  PROVE  Oldest \in sweep.list /\ Oldest.id \in Shots
PROOF
  <1> DEFINE T == {e.taken : e \in sweep.list}
  <1>1. sweep.list \subseteq [id : Shots, taken : 0 .. MaxShots]
    BY DEF Sweeps
  <1>2. T \subseteq Nat /\ T # {}
    BY <1>1 DEF Shots
  <1> DEFINE Less == {p \in Nat \X Nat : p[1] < p[2]}
  <1>3. IsWellFoundedOn(Less, Nat)
    BY NatLessThanWellFounded, Zenon DEF OpToRel
  <1> HIDE DEF Less, T
  <1>4. PICK t \in T : \A u \in T : ~(<<u, t>> \in Less)
    BY <1>2, <1>3, WFMin
  <1>5. \A u \in T : t <= u
    <2>1. \A u \in Nat : u < t => <<u, t>> \in Less
      BY <1>2, Zenon DEF Less
    <2> TAKE u \in T
    <2>2. u \in Nat /\ t \in Nat /\ ~(u < t)
      BY <1>2, <1>4, <2>1, Zenon
    <2> QED BY <2>2
  <1> USE DEF T
  <1>6. \E e \in sweep.list : \A f \in sweep.list : e.taken <= f.taken
    BY <1>5
  <1>7. Oldest \in sweep.list
    BY <1>6 DEF Oldest
  <1> QED BY <1>1, <1>7

LEMMA InitTypes == ASSUME ConstantsAssumption, Init PROVE TypeOK
PROOF
  <1>1. 0 \in 0 .. MaxShots /\ 0 \in 0 .. MaxCrashes
    BY DEF ConstantsAssumption
  <1>2. row \in [Shots -> {NoRow} \cup Photos] /\ file \in [Shots -> 0 .. MaxShots]
    BY <1>1 DEF Init, Nothing
  <1> QED BY <1>1, <1>2 DEF Init, TypeOK, Photos

\* What is under way has the fields of what it is.
LEMMA UnderWay ==
  ASSUME TypeOK
  PROVE  /\ cap # Idle \/ cap.pc \in {"shot", "registered"} => cap \in Captures
         /\ sweep # Idle \/ sweep.pc \in {"next", "deleting"} => sweep \in Sweeps
         /\ \A r \in Removers : del[r] # Idle => del[r] \in Removals
         /\ \A i \in Rows : row[i] \in Photos
PROOF BY DEF TypeOK, Idle, Rows

LEMMA FindTypes ==
  ASSUME TypeOK, NEW r \in Removers, NEW i \in Shots, NEW todo \in {Removal, <<"file">>},
         Find(r, i, todo)
  PROVE  del' \in [Removers -> {Idle} \cup Removals]
PROOF
  <1>1. [pc |-> "found", id |-> i, name |-> row[i].name, todo |-> todo] \in Removals
    BY UnderWay DEF Find, Removals, Photos
  <1> QED BY <1>1 DEF Find, TypeOK

LEMMA RemoveTypes ==
  ASSUME TypeOK, NEW r \in Removers, Remove(r)
  PROVE  /\ row' \in [Shots -> {NoRow} \cup Photos] /\ file' \in [Shots -> 0 .. MaxShots]
         /\ del' \in [Removers -> {Idle} \cup Removals]
         /\ \/ del[r].todo = Removal /\ Head(del[r].todo) = "row"
               /\ del'[r] = [del[r] EXCEPT !.todo = <<"file">>]
            \/ del[r].todo = <<"file">> /\ Head(del[r].todo) = "file" /\ del'[r] = Idle
         /\ \A s \in Removers \ {r} : del'[s] = del[s]
PROOF
  <1>1. del[r] \in Removals /\ del \in [Removers -> {Idle} \cup Removals]
    BY UnderWay DEF Remove, TypeOK
  <1>2. del[r].id \in Shots /\ del[r].name \in Shots /\ 0 \in 0 .. MaxShots
    BY <1>1, ConstantsAssumption DEF ConstantsAssumption, Removals, Shots
  <1>3. row' \in [Shots -> {NoRow} \cup Photos] /\ file' \in [Shots -> 0 .. MaxShots]
    BY <1>2 DEF Remove, TypeOK, Nothing
  <1>4. CASE del[r].todo = Removal
    <2>1. Head(del[r].todo) = "row" /\ Len(del[r].todo) # 1 /\ Tail(del[r].todo) = <<"file">>
      BY <1>4 DEF Removal
    <2>2. del' = [del EXCEPT ![r] = [del[r] EXCEPT !.todo = <<"file">>]]
      <3>1. del' = [del EXCEPT ![r] = IF Len(del[r].todo) = 1 THEN Idle
                                      ELSE [del[r] EXCEPT !.todo = Tail(del[r].todo)]]
        BY DEF Remove
      <3>2. (IF Len(del[r].todo) = 1 THEN Idle
             ELSE [del[r] EXCEPT !.todo = Tail(del[r].todo)])
              = [del[r] EXCEPT !.todo = <<"file">>]
        BY <2>1, Zenon
      <3> QED BY <3>1, <3>2, Zenon
    <2>3. [del[r] EXCEPT !.todo = <<"file">>] \in Removals
      BY <1>1 DEF Removals
    <2> QED BY <1>1, <1>3, <1>4, <2>1, <2>2, <2>3
  <1>5. CASE del[r].todo = <<"file">>
    <2>1. Head(del[r].todo) = "file" /\ Len(del[r].todo) = 1
      BY <1>5
    <2>2. del' = [del EXCEPT ![r] = Idle]
      BY <2>1 DEF Remove
    <2> QED BY <1>1, <1>3, <1>5, <2>1, <2>2
  <1> QED BY <1>1, <1>4, <1>5 DEF Removals

\* The row of a photo just taken.
New == [name |-> cap.name, taken |-> shots, old |-> FALSE, starred |-> FALSE,
        owed |-> FALSE, done |-> FALSE, kept |-> FALSE]

LEMMA StepTypes == ASSUME TypeOK, [Next]_vars PROVE TypeOK'
PROOF
  <1>1. /\ MaxShots \in Nat /\ MaxCrashes \in Nat
        /\ Shots = 1 .. MaxShots /\ "sweep" \in Removers /\ Requests \subseteq Removers
        /\ Removal \in {Removal, <<"file">>} /\ <<"file">> \in {Removal, <<"file">>}
    BY ConstantsAssumption DEF ConstantsAssumption, Shots, Removers
  <1>2. ASSUME NEW n \in Shots, Shoot(n) PROVE TypeOK'
    <2>1. shots' \in Shots /\ shots' \in 0 .. MaxShots
      BY <1>1, <1>2 DEF Shoot, TypeOK
    <2>2. cap' \in Captures /\ file' \in [Shots -> 0 .. MaxShots]
      BY <1>1, <1>2, <2>1 DEF Shoot, Captures, Nothing, TypeOK
    <2> QED BY <1>2, <2>1, <2>2 DEF Shoot, TypeOK
  <1>3. CASE DropDuplicate
    <2>1. 0 \in 0 .. MaxShots
      BY <1>1
    <2>2. file' \in [Shots -> 0 .. MaxShots]
      BY <1>3, <2>1 DEF DropDuplicate, Nothing, TypeOK
    <2> QED BY <1>3, <2>2 DEF DropDuplicate, TypeOK
  <1>4. CASE Register
    <2> DEFINE same == {i \in Rows : row[i].name = cap.name}
               id == IF same = {} THEN shots ELSE CHOOSE i \in same : TRUE
    <2>1. cap \in Captures /\ cap' = [cap EXCEPT !.pc = "registered", !.id = id]
      BY <1>4, UnderWay DEF Register
    <2>2. id \in 0 .. MaxShots
      BY <1>1 DEF Rows, TypeOK
    <2>3. cap' \in Captures
      BY <2>1, <2>2 DEF Captures
    <2>4. row' \in [Shots -> {NoRow} \cup Photos]
      <3>1. CASE same = {}
        <4>1. New \in Photos
          BY <2>1 DEF Photos, Captures, New, TypeOK
        <4>2. row' = [row EXCEPT ![shots] = New]
          BY <1>4, <3>1 DEF Register, New
        <4> QED BY <4>1, <4>2 DEF TypeOK
      <3>2. CASE same # {}
        <4>1. id \in Rows /\ id \in Shots /\ row[id] \in Photos
          BY <3>2, UnderWay DEF Rows
        <4>2. row' = [row EXCEPT ![id] = [row[id] EXCEPT !.taken = shots, !.old = FALSE]]
          BY <1>4, <3>2 DEF Register
        <4>3. [row[id] EXCEPT !.taken = shots, !.old = FALSE] \in Photos
          BY <4>1 DEF Photos, TypeOK
        <4> QED BY <4>1, <4>2, <4>3 DEF TypeOK
      <3> QED BY <3>1, <3>2
    <2> QED BY <1>4, <2>3, <2>4 DEF Register, TypeOK
  <1>5. CASE Enqueue
    <2>1. row' \in [Shots -> {NoRow} \cup Photos]
      <3>1. \A i \in Rows : [row[i] EXCEPT !.owed = TRUE] \in Photos
        BY UnderWay DEF Photos
      <3> QED BY <1>5, <3>1 DEF Enqueue, Rows, TypeOK
    <2> QED BY <1>5, <2>1 DEF Enqueue, TypeOK
  <1>6. ASSUME NEW i \in Shots, GrowOld(i) \/ Star(i) \/ Unstar(i) PROVE TypeOK'
    <2>1. /\ [row[i] EXCEPT !.old = TRUE] \in Photos
          /\ [row[i] EXCEPT !.starred = TRUE] \in Photos
          /\ [row[i] EXCEPT !.starred = FALSE] \in Photos
      BY <1>6, UnderWay DEF GrowOld, Star, Unstar, Photos
    <2>2. row' \in [Shots -> {NoRow} \cup Photos]
      BY <1>6, <2>1 DEF GrowOld, Star, Unstar, TypeOK
    <2> QED BY <1>6, <2>2 DEF GrowOld, Star, Unstar, TypeOK
  <1>7. ASSUME NEW r \in Requests, NEW i \in Shots, DeletePhoto(r, i) PROVE TypeOK'
    BY <1>1, <1>7, FindTypes DEF DeletePhoto, TypeOK
  <1>8. ASSUME NEW r \in Requests, NEW i \in Shots, NEW picture \in BOOLEAN, Upload(r, i, picture) PROVE TypeOK'
    <2>1. row[i] \in Photos
      BY <1>8, UnderWay DEF Upload
    <2>2. row' \in [Shots -> {NoRow} \cup Photos]
      <3>1. row[i].kept \/ picture \in BOOLEAN
        BY <2>1 DEF Photos
      <3>2. [row[i] EXCEPT !.owed = FALSE, !.done = TRUE, !.kept = @ \/ picture] \in Photos
        BY <2>1, <3>1 DEF Photos
      <3> QED BY <1>8, <3>2 DEF Upload, TypeOK
    <2>3. file[row[i].name] \in Shots
      <3>1. row[i].name \in Shots
        BY <2>1 DEF Photos
      <3> QED BY <1>1, <1>8, <3>1 DEF Upload, TypeOK, Nothing
    <2>4. del' \in [Removers -> {Idle} \cup Removals]
      BY <1>1, <1>8, FindTypes DEF Upload, TypeOK
    <2> QED BY <1>8, <2>2, <2>3, <2>4 DEF Upload, TypeOK
  <1>9. ASSUME NEW r \in Requests, RequestRemoves(r) PROVE TypeOK'
    BY <1>1, <1>9, RemoveTypes DEF RequestRemoves, TypeOK
  <1>10. CASE SweepBegins
    <2>1. \A i \in Rows : [id |-> i, taken |-> row[i].taken] \in [id : Shots, taken : 0 .. MaxShots]
      BY UnderWay DEF Photos, Rows
    <2>2. sweep' \in Sweeps
      BY <1>10, <2>1 DEF SweepBegins, Sweeps
    <2> QED BY <1>10, <2>2 DEF SweepBegins, TypeOK
  <1>11. CASE SweepNext
    <2>1. sweep \in Sweeps /\ Oldest.id \in Shots
      BY <1>11, UnderWay, OldestListed DEF SweepNext
    <2>2. NeedlessAfter(sweep.deleted) \in Nat
      BY <2>1 DEF NeedlessAfter, Sweeps
    <2>3. sweep' = Idle \/ sweep' \in Sweeps
      BY <1>11, <2>1, <2>2 DEF SweepNext, Sweeps
    <2>4. del' \in [Removers -> {Idle} \cup Removals]
      BY <1>1, <1>11, <2>1, FindTypes DEF SweepNext, TypeOK
    <2> QED BY <1>11, <2>3, <2>4 DEF SweepNext, TypeOK
  <1>12. CASE SweepRemoves
    <2>1. sweep' = Idle \/ sweep' \in Sweeps
      BY <1>12 DEF SweepRemoves, TypeOK, Sweeps, Idle
    <2> QED BY <1>1, <1>12, <2>1, RemoveTypes DEF SweepRemoves, TypeOK
  <1>13. CASE SweepCounts
    <2>1. sweep \in Sweeps /\ sweep.deleted + 1 \in Nat
      BY <1>13, UnderWay DEF SweepCounts, Sweeps
    <2>2. NeedlessAfter(sweep.deleted + 1) \in Nat
      BY <2>1 DEF NeedlessAfter, Sweeps
    <2>3. [sweep EXCEPT !.pc = "next", !.deleted = sweep.deleted + 1,
                        !.needless = NeedlessAfter(sweep.deleted + 1)] \in Sweeps
      BY <2>1, <2>2 DEF Sweeps
    <2>4. sweep' = Idle \/ sweep' \in Sweeps
      BY <1>13, <2>3 DEF SweepCounts
    <2> QED BY <1>13, <2>4 DEF SweepCounts, TypeOK
  <1>14. CASE SweepEnds
    BY <1>14 DEF SweepEnds, TypeOK
  <1>15. CASE ServiceCrash
    BY <1>1, <1>15 DEF ServiceCrash, TypeOK
  <1>16. CASE SweepCrash
    BY <1>1, <1>16 DEF SweepCrash, TypeOK
  <1>17. CASE UNCHANGED vars
    BY <1>17 DEF vars, TypeOK
  <1> QED
    BY <1>2, <1>3, <1>4, <1>5, <1>6, <1>7, <1>8, <1>9, <1>10, <1>11, <1>12, <1>13, <1>14,
       <1>15, <1>16, <1>17
    DEF Next, Photograph, Sweep

\* Whatever is taken, starred, deleted, swept and crashed, photos, captures and
\* removals are records of theirs, and every number stays within its bound.
THEOREM GalleryTypes == SafetySpec => []TypeOK
PROOF
  <1>1. Init => TypeOK
    BY InitTypes, ConstantsAssumption
  <1>2. TypeOK /\ [Next]_vars => TypeOK'
    BY StepTypes
  <1> QED BY <1>1, <1>2, PTL DEF SafetySpec

-----------------------------------------------------------------------------
(* The only copy. *)

\* A shot that is past its registration.
Settled(i) == i <= shots /\ (cap.pc = "shot" => i < shots)

\* A row's picture is in its file, or is stored, or clashed with another; what
\* the row says of it is true.
RowInv(i) ==
  /\ Settled(i) /\ row[i].taken # Nothing /\ Settled(row[i].taken)
  /\ file[row[i].name] = row[i].taken \/ row[i].taken \in Stored \cup clashed
  /\ row[i].done => row[i].taken \in Uploaded \cup clashed
  /\ row[i].kept => row[i].taken \in Stored \cup clashed

\* A picture that clashed with none is known under its own number: to its row,
\* and to the removals that are to take its file.
OwnRow(i) == file[row[i].name] \notin {Nothing} \cup clashed =>
               i = file[row[i].name] /\ row[i].taken = i

OwnRemoval(r) ==
  del[r] # Idle =>
    /\ Settled(del[r].id)
    /\ file[del[r].name] \notin {Nothing} \cup clashed =>
         /\ del[r].id = file[del[r].name]
         /\ r = "sweep" => del[r].id \in Uploaded
         /\ del[r].todo = <<"file">> /\ del[r].id \in Rows => del[r].id \in Stored

\* A capture not yet registered has its file to itself unless it clashed.
CapInv ==
  cap.pc = "shot" =>
    /\ shots # Nothing /\ file[cap.name] \in {Nothing, shots}
    /\ shots \notin clashed => file[cap.name] = shots /\ ~InUse(cap.name)

\* What the sweep has chosen was uploaded when it chose it.
SweptInv ==
  sweep # Idle => \A e \in sweep.list :
    Settled(e.id) /\ (e.id \in Rows => row[e.id].taken \in Uploaded \cup clashed)

CopyInv ==
  /\ \A i \in Rows : RowInv(i) /\ OwnRow(i)
  /\ \A r \in Removers : OwnRemoval(r)
  /\ CapInv /\ SweptInv

\* What was stored or sent stays so.
LEMMA SentGrows ==
  ASSUME TypeOK, [Next]_vars
  PROVE  Stored \subseteq Stored' /\ Uploaded \subseteq Uploaded' /\ clashed \subseteq clashed'
PROOF
  <1>1. ASSUME NEW r \in Requests, NEW i \in Shots, NEW picture \in BOOLEAN,
               Upload(r, i, picture)
        PROVE  Stored \subseteq Stored' /\ Uploaded \subseteq Uploaded' /\ clashed' = clashed
    <2>1. \A s \in Shots : sent'[s] = sent[s] \/ sent'[s] = "stored"
                           \/ (sent'[s] = "reported" /\ sent[s] # "stored")
      BY <1>1 DEF Upload, TypeOK
    <2> QED BY <1>1, <2>1 DEF Upload, Stored, Uploaded
  <1>2. CASE sent' = sent /\ clashed \subseteq clashed'
    BY <1>2 DEF Stored, Uploaded
  <1>3. ASSUME NEW r \in Requests, RequestRemoves(r) PROVE sent' = sent /\ clashed' = clashed
    BY <1>3 DEF RequestRemoves
  <1>4. ASSUME NEW r \in Requests, NEW i \in Shots, DeletePhoto(r, i)
        PROVE  sent' = sent /\ clashed' = clashed
    BY <1>4 DEF DeletePhoto
  <1>5. ASSUME \/ Photograph \/ Sweep \/ ServiceCrash \/ SweepCrash \/ UNCHANGED vars
               \/ \E i \in Shots : GrowOld(i) \/ Star(i) \/ Unstar(i)
        PROVE  sent' = sent /\ clashed \subseteq clashed'
    BY <1>5 DEF Photograph, Shoot, DropDuplicate, Register, Enqueue, GrowOld, Star, Unstar,
                Sweep, SweepBegins, SweepNext, SweepRemoves, SweepCounts, SweepEnds,
                ServiceCrash, SweepCrash, vars
  <1> QED BY <1>1, <1>2, <1>3, <1>4, <1>5 DEF Next

\* What the parts speak of is there.
LEMMA CopyFacts ==
  ASSUME TypeOK, CopyInv
  PROVE  /\ Shots \subseteq Nat \ {0} /\ shots \in Nat /\ (shots # 0 => shots \in Shots)
         /\ row \in [Shots -> {NoRow} \cup Photos] /\ file \in [Shots -> Nat]
         /\ \A i \in Rows : /\ row[i] \in Photos /\ row[i].name \in Shots
                            /\ RowInv(i) /\ OwnRow(i)
         /\ \A r \in Removers : /\ del[r] # Idle => del[r].id \in Shots /\ del[r].name \in Shots
                                /\ OwnRemoval(r)
         /\ Stored \subseteq Uploaded
         /\ CapInv /\ SweptInv /\ "sweep" \in Removers
         /\ Requests \subseteq Removers \ {"sweep"} /\ Idle.pc = "idle"
PROOF
  <1>1. MaxShots \in Nat /\ Requests \subseteq Removers \ {"sweep"} /\ "sweep" \in Removers
    BY ConstantsAssumption DEF ConstantsAssumption, Removers
  <1>2. /\ Shots \subseteq Nat \ {0} /\ shots \in Nat /\ (shots # 0 => shots \in Shots)
        /\ file \in [Shots -> Nat]
    BY <1>1 DEF Shots, TypeOK
  <1>3. \A i \in Rows : row[i] \in Photos /\ row[i].name \in Shots
    BY UnderWay DEF Photos
  <1>4. \A r \in Removers : del[r] # Idle => del[r].id \in Shots /\ del[r].name \in Shots
    BY UnderWay DEF Removals
  <1> QED BY <1>1, <1>2, <1>3, <1>4 DEF TypeOK, CopyInv, Stored, Uploaded, Idle

\* Steps that touch no file, begin no removal, and take back nothing of what a
\* row says.
LEMMA HarmlessKeeps ==
  ASSUME TypeOK, CopyInv, [Next]_vars, UNCHANGED <<file, shots>>,
         cap' = cap \/ cap'.pc # "shot",
         Rows' \subseteq Rows,
         \A i \in Rows' : /\ row'[i].name = row[i].name /\ row'[i].taken = row[i].taken
                          /\ row'[i].done = row[i].done /\ row'[i].kept = row[i].kept,
         \A r \in Removers : del'[r] = del[r] \/ del'[r] = Idle,
         sweep' = Idle \/ (sweep # Idle /\ sweep'.list \subseteq sweep.list)
  PROVE  CopyInv'
PROOF
  <1>1. \A i : Settled(i) => Settled(i)'
    BY DEF Settled
  <1>2. /\ Stored \subseteq Stored' /\ Uploaded \subseteq Uploaded' /\ clashed \subseteq clashed'
    BY SentGrows
  <1>3. \A i \in Rows' : RowInv(i)' /\ OwnRow(i)'
    BY <1>1, <1>2, CopyFacts DEF RowInv, OwnRow
  <1>4. \A r \in Removers : OwnRemoval(r)'
    BY <1>1, <1>2, CopyFacts DEF OwnRemoval
  <1>5. CapInv'
    <2>1. SUFFICES ASSUME cap' = cap, cap.pc = "shot" PROVE CapInv'
      BY DEF CapInv
    <2>2. shots \notin clashed' => ~InUse(cap.name)'
      BY <1>2, <2>1, CopyFacts DEF CapInv, InUse
    <2> QED BY <1>2, <2>1, <2>2, CopyFacts DEF CapInv
  <1>6. SweptInv'
    BY <1>1, <1>2, CopyFacts DEF SweptInv
  <1> QED BY <1>3, <1>4, <1>5, <1>6 DEF CopyInv

LEMMA ShootKeeps ==
  ASSUME TypeOK, CopyInv, NEW n \in Shots, Shoot(n) PROVE CopyInv'
PROOF
  <1>1. /\ shots' = shots + 1 /\ cap = Idle /\ cap'.pc = "shot" /\ cap'.name = n
        /\ file[n] = Nothing /\ file'[n] = shots' /\ \A m \in Shots \ {n} : file'[m] = file[m]
        /\ UNCHANGED <<row, del, sweep, sent>> /\ Rows' = Rows
        /\ Stored' = Stored /\ Uploaded' = Uploaded /\ clashed \subseteq clashed'
        /\ InUse(n)' = InUse(n) /\ (InUse(n) => shots' \in clashed')
    BY CopyFacts DEF Shoot, Rows, Stored, Uploaded, InUse
  <1>2. \A i \in Nat : Settled(i) => Settled(i)'
    BY <1>1, CopyFacts DEF Settled
  <1>3. ASSUME NEW i \in Rows' PROVE RowInv(i)' /\ OwnRow(i)'
    <2>1. row[i].taken \in Nat /\ i \in Nat /\ row[i].name \in Shots
      BY <1>1, CopyFacts DEF Photos, Rows
    <2>2. CASE row[i].name = n
      <3>1. file'[n] \in clashed' /\ row[i].taken \in Stored \cup clashed
        BY <1>1, <1>3, <2>2, CopyFacts DEF InUse, RowInv, Nothing
      <3> QED BY <1>1, <1>2, <1>3, <2>1, <2>2, <3>1, CopyFacts DEF RowInv, OwnRow
    <2>3. CASE row[i].name # n
      BY <1>1, <1>2, <1>3, <2>1, <2>3, CopyFacts DEF RowInv, OwnRow
    <2> QED BY <2>2, <2>3
  <1>4. ASSUME NEW r \in Removers PROVE OwnRemoval(r)'
    <2>1. CASE del[r] # Idle /\ del[r].name = n
      BY <1>1, <1>2, <2>1, CopyFacts DEF InUse, OwnRemoval
    <2>2. CASE del[r] # Idle /\ del[r].name # n
      BY <1>1, <1>2, <2>2, CopyFacts DEF OwnRemoval
    <2> QED BY <1>1, <2>1, <2>2 DEF OwnRemoval
  <1>5. CapInv'
    BY <1>1, CopyFacts DEF CapInv, Nothing
  <1>6. SweptInv'
    <2>1. sweep # Idle => sweep.list \subseteq [id : Shots, taken : 0 .. MaxShots]
      BY UnderWay DEF Sweeps
    <2> QED BY <1>1, <1>2, <2>1, CopyFacts DEF SweptInv
  <1> QED BY <1>3, <1>4, <1>5, <1>6 DEF CopyInv

LEMMA DropKeeps == ASSUME TypeOK, CopyInv, DropDuplicate PROVE CopyInv'
PROOF
  <1>1. /\ cap.pc = "shot" /\ cap'.pc # "shot" /\ cap.name \in Shots
        /\ file' = [file EXCEPT ![cap.name] = Nothing]
        /\ UNCHANGED <<row, del, sweep, sent, shots, clashed>> /\ Rows' = Rows
        /\ Stored' = Stored /\ Uploaded' = Uploaded
    BY CopyFacts, UnderWay DEF DropDuplicate, Rows, Stored, Uploaded, Captures
  <1>2. \A i : Settled(i) => Settled(i)' /\ i # shots
    BY <1>1, CopyFacts DEF Settled
  <1>3. ASSUME NEW i \in Rows' PROVE RowInv(i)' /\ OwnRow(i)'
    <2>1. CASE row[i].name = cap.name
      <3>1. row[i].taken \in Stored \cup clashed
        BY <1>1, <1>2, <1>3, <2>1, CopyFacts DEF RowInv, CapInv
      <3> QED BY <1>1, <1>2, <1>3, <2>1, <3>1, CopyFacts DEF RowInv, OwnRow
    <2>2. CASE row[i].name # cap.name
      BY <1>1, <1>2, <1>3, <2>2, CopyFacts DEF RowInv, OwnRow
    <2> QED BY <2>1, <2>2
  <1>4. ASSUME NEW r \in Removers PROVE OwnRemoval(r)'
    BY <1>1, <1>2, CopyFacts DEF OwnRemoval
  <1>5. CapInv' /\ SweptInv'
    BY <1>1, <1>2, CopyFacts DEF CapInv, SweptInv
  <1> QED BY <1>1, <1>3, <1>4, <1>5 DEF CopyInv

LEMMA RegisterKeeps == ASSUME TypeOK, CopyInv, Register PROVE CopyInv'
PROOF
  <1> DEFINE same == {i \in Rows : row[i].name = cap.name}
             key == IF same = {} THEN shots ELSE CHOOSE i \in same : TRUE
  <1>1. /\ cap.pc = "shot" /\ cap'.pc = "registered" /\ cap.name \in Shots
        /\ shots \in Shots /\ file[cap.name] \in {Nothing, shots}
        /\ UNCHANGED <<file, del, sweep, sent, shots, clashed>>
        /\ Stored' = Stored /\ Uploaded' = Uploaded
    <2>1. cap \in Captures /\ cap.pc = "shot" /\ cap' = [cap EXCEPT !.pc = "registered", !.id = key]
      BY UnderWay DEF Register
    <2> QED BY <2>1, CopyFacts DEF Register, Captures, CapInv, Stored, Uploaded, Nothing
  <1>2. \A i \in Nat : Settled(i) => i # shots /\ Settled(i)'
    BY <1>1, CopyFacts DEF Settled
  <1>3. Settled(shots)'
    BY <1>1, CopyFacts DEF Settled
  <1>4. PICK id \in Shots :
          /\ Rows' \subseteq Rows \cup {id}
          /\ \A i \in Rows' \ {id} : row'[i] = row[i]
          /\ row'[id].name = cap.name /\ row'[id].taken = shots
          /\ (id = shots /\ ~row'[id].done /\ ~row'[id].kept) \/ shots \in clashed
          /\ id = shots \/ id \in Rows
    <2>1. CASE same = {}
      <3>1. row' = [row EXCEPT ![shots] = New]
        BY <2>1 DEF Register, New
      <3> QED BY <1>1, <3>1, CopyFacts DEF Rows, New
    <2>2. CASE same # {}
      <3>1. key \in Rows /\ row[key].name = cap.name /\ row[key] \in Photos /\ key \in Shots
        BY <2>2, CopyFacts DEF Rows
      <3>2. row' = [row EXCEPT ![key] = [row[key] EXCEPT !.taken = shots, !.old = FALSE]]
        BY <2>2 DEF Register
      <3>3. shots \in clashed
        BY <1>1, <3>1, CopyFacts DEF CapInv, InUse
      <3> HIDE DEF key
      <3> QED BY <1>1, <3>1, <3>2, <3>3, CopyFacts DEF Rows, Photos
    <2> QED BY <2>1, <2>2
  <1>5. shots \notin clashed => file[cap.name] = shots /\ ~InUse(cap.name)
    BY <1>1, CopyFacts DEF CapInv
  <1>6. ASSUME NEW i \in Rows' PROVE RowInv(i)' /\ OwnRow(i)'
    <2>1. CASE i = id
      <3>1. id \in Nat /\ Settled(id)'
        <4>1. id = shots => Settled(id)'
          BY <1>1, CopyFacts DEF Settled
        <4>2. id \in Rows => Settled(id)'
          BY <1>2, CopyFacts DEF RowInv
        <4> QED BY <1>4, <4>1, <4>2, CopyFacts
      <3> QED BY <1>1, <1>3, <1>4, <1>5, <2>1, <3>1, CopyFacts DEF RowInv, OwnRow, Nothing
    <2>2. CASE i # id
      <3>1. i \in Rows /\ row'[i] = row[i] /\ row[i].taken \in Nat /\ i \in Nat
        BY <1>4, <1>6, <2>2, CopyFacts DEF Photos, Rows
      <3> QED BY <1>1, <1>2, <3>1, CopyFacts DEF RowInv, OwnRow
    <2> QED BY <2>1, <2>2
  <1>7. ASSUME NEW r \in Removers, del[r] # Idle PROVE OwnRemoval(r)'
    <2>1. del[r].id \in Nat /\ Settled(del[r].id) /\ del[r].id # shots
      BY <1>2, <1>7, CopyFacts DEF OwnRemoval
    <2>2. del[r].id \in Rows' => del[r].id \in Rows
      BY <1>4, <2>1
    <2> QED BY <1>1, <1>2, <1>7, <2>1, <2>2, CopyFacts DEF OwnRemoval
  <1>8. SweptInv'
    <2>1. sweep # Idle => sweep.list \subseteq [id : Shots, taken : 0 .. MaxShots]
      BY UnderWay DEF Sweeps
    <2>2. ASSUME NEW e \in sweep.list, sweep # Idle
          PROVE  Settled(e.id)' /\ (e.id \in Rows' => row'[e.id].taken \in Uploaded \cup clashed)
      <3>1. Settled(e.id) /\ e.id \in Nat /\ e.id # shots
        BY <1>2, <2>1, <2>2, CopyFacts DEF SweptInv
      <3> QED BY <1>2, <1>4, <2>2, <3>1, CopyFacts DEF SweptInv
    <2> QED BY <1>1, <2>2 DEF SweptInv
  <1>9. CapInv' /\ \A r \in Removers : OwnRemoval(r)'
    BY <1>1, <1>7 DEF CapInv, OwnRemoval
  <1> QED BY <1>6, <1>8, <1>9 DEF CopyInv

\* A removal begins: it has the id and the name of the row it read.
LEMMA FindKeeps ==
  ASSUME TypeOK, CopyInv, [Next]_vars, NEW r \in Removers, NEW i \in Shots,
         NEW todo \in {Removal, <<"file">>}, Find(r, i, todo),
         UNCHANGED <<file, cap, shots, clashed>>, Rows' = Rows,
         \A j \in Rows : /\ row'[j].name = row[j].name /\ row'[j].taken = row[j].taken
                         /\ RowInv(j)',
         todo = <<"file">> => row[i].taken \in Stored' \cup clashed,
         r = "sweep" => row[i].taken \in Uploaded \cup clashed,
         sweep' = sweep \/ (sweep # Idle /\ sweep'.list \subseteq sweep.list)
  PROVE  CopyInv'
PROOF
  <1>1. \A j : Settled(j)' = Settled(j)
    BY DEF Settled
  <1>2. Stored \subseteq Stored' /\ Uploaded \subseteq Uploaded'
    BY SentGrows
  <1>3. /\ del'[r] # Idle /\ del'[r].id = i /\ del'[r].name = row[i].name /\ del'[r].todo = todo
        /\ \A s \in Removers \ {r} : del'[s] = del[s]
        /\ i \in Rows /\ RowInv(i) /\ OwnRow(i) /\ row[i].name \in Shots
    BY CopyFacts DEF Find, TypeOK, Idle
  <1>4. \A j \in Rows' : RowInv(j)' /\ OwnRow(j)'
    BY CopyFacts DEF OwnRow
  <1>5. \A s \in Removers \ {r} : OwnRemoval(s)'
    BY <1>1, <1>2, <1>3, CopyFacts DEF OwnRemoval
  <1>6. OwnRemoval(r)'
    BY <1>1, <1>2, <1>3, CopyFacts DEF OwnRemoval, RowInv, OwnRow
  <1>7. CapInv'
    <2>1. SUFFICES ASSUME cap.pc = "shot", shots \notin clashed PROVE ~InUse(cap.name)'
      BY CopyFacts DEF CapInv
    <2>2. ~InUse(cap.name)
      BY <2>1, CopyFacts DEF CapInv
    <2>3. row[i].name # cap.name
      BY <1>3, <2>2 DEF InUse
    <2> QED BY <1>3, <2>2, <2>3 DEF InUse
  <1>8. SweptInv'
    BY <1>1, <1>2, CopyFacts DEF SweptInv
  <1> QED BY <1>4, <1>5, <1>6, <1>7, <1>8 DEF CopyInv

\* A removal takes the row, or the file of a picture that may go.
LEMMA RemoveKeeps ==
  ASSUME TypeOK, CopyInv, [Next]_vars, NEW r \in Removers, Remove(r),
         UNCHANGED <<cap, shots, sent, clashed>>,
         sweep' = sweep \/ (sweep # Idle /\ sweep'.list = sweep.list)
  PROVE  CopyInv'
PROOF
  <1>1. /\ \A i : Settled(i)' = Settled(i)
        /\ Stored' = Stored /\ Uploaded' = Uploaded
    BY DEF Settled, Stored, Uploaded
  <1>2. /\ del[r] # Idle /\ del[r].id \in Shots /\ del[r].name \in Shots /\ OwnRemoval(r)
        /\ \A s \in Removers \ {r} : del'[s] = del[s]
    BY CopyFacts, RemoveTypes DEF Remove
  <1>3. CASE Head(del[r].todo) = "row"
    <2>1. row' = [row EXCEPT ![del[r].id] = NoRow] /\ file' = file
      BY <1>3 DEF Remove
    <2>2. Rows' = Rows \ {del[r].id} /\ \A i \in Rows' : row'[i] = row[i]
      BY <1>2, <2>1, CopyFacts DEF Rows
    <2>3. /\ del'[r].id = del[r].id /\ del'[r].name = del[r].name
      BY <1>2, <1>3, RemoveTypes, UnderWay DEF Removals
    <2>4. \A i \in Rows' : RowInv(i)' /\ OwnRow(i)'
      BY <1>1, <2>1, <2>2, CopyFacts DEF RowInv, OwnRow
    <2>5. \A s \in Removers : OwnRemoval(s)'
      <3>1. OwnRemoval(r)'
        BY <1>1, <1>2, <2>1, <2>2, <2>3 DEF OwnRemoval
      <3>2. \A s \in Removers \ {r} : OwnRemoval(s)'
        BY <1>1, <1>2, <2>1, <2>2, CopyFacts DEF OwnRemoval
      <3> QED BY <3>1, <3>2
    <2>6. CapInv'
      <3>1. SUFFICES ASSUME cap.pc = "shot", shots \notin clashed PROVE ~InUse(cap.name)'
        BY <2>1, CopyFacts DEF CapInv
      <3> QED BY <1>2, <2>2, <2>3, <3>1, CopyFacts DEF CapInv, InUse
    <2>7. SweptInv'
      BY <1>1, <2>2, CopyFacts DEF SweptInv
    <2> QED BY <2>4, <2>5, <2>6, <2>7 DEF CopyInv
  <1>4. CASE Head(del[r].todo) = "file"
    <2>1. file' = [file EXCEPT ![del[r].name] = Nothing] /\ row' = row /\ Rows' = Rows
      BY <1>4 DEF Remove, Rows
    <2>2. del[r].todo = <<"file">> /\ del'[r] = Idle
      BY <1>4, RemoveTypes
    <2>3. ASSUME NEW i \in Rows PROVE RowInv(i)' /\ OwnRow(i)'
      <3>1. CASE row[i].name = del[r].name
        <4>1. row[i].taken \in Stored \cup clashed
          <5>1. CASE file[row[i].name] \in {Nothing} \cup clashed
            BY <2>3, <5>1, CopyFacts DEF RowInv
          <5>2. CASE file[row[i].name] \notin {Nothing} \cup clashed
            BY <1>2, <2>2, <2>3, <3>1, <5>2, CopyFacts DEF OwnRow, OwnRemoval
          <5> QED BY <5>1, <5>2
        <4> QED BY <1>1, <2>1, <2>3, <3>1, <4>1, CopyFacts DEF RowInv, OwnRow
      <3>2. CASE row[i].name # del[r].name
        BY <1>1, <2>1, <2>3, <3>2, CopyFacts DEF RowInv, OwnRow
      <3> QED BY <3>1, <3>2
    <2>4. \A s \in Removers : OwnRemoval(s)'
      BY <1>1, <1>2, <2>1, <2>2, CopyFacts DEF OwnRemoval
    <2>5. CapInv'
      <3>1. CASE cap.pc = "shot" /\ shots \notin clashed
        <4>1. del[r].name # cap.name /\ ~InUse(cap.name)
          BY <1>2, <3>1, CopyFacts DEF CapInv, InUse
        <4>2. ~InUse(cap.name)'
          BY <1>2, <2>1, <2>2, <4>1 DEF InUse
        <4> QED BY <2>1, <3>1, <4>1, <4>2, CopyFacts DEF CapInv
      <3>2. CASE ~(cap.pc = "shot" /\ shots \notin clashed)
        BY <1>2, <2>1, <3>2, CopyFacts DEF CapInv
      <3> QED BY <3>1, <3>2
    <2>6. SweptInv'
      BY <1>1, <2>1, CopyFacts DEF SweptInv
    <2> QED BY <2>1, <2>3, <2>4, <2>5, <2>6 DEF CopyInv
  <1> QED BY <1>3, <1>4, RemoveTypes

LEMMA UploadKeeps ==
  ASSUME TypeOK, CopyInv, NEW r \in Requests, NEW i \in Shots, NEW picture \in BOOLEAN,
         Upload(r, i, picture), [Next]_vars
  PROVE  CopyInv'
PROOF
  <1>1. /\ i \in Rows /\ file[row[i].name] # Nothing
        /\ UNCHANGED <<file, cap, sweep, shots, clashed>>
    BY DEF Upload
  <1>2. row' = [row EXCEPT ![i] = [row[i] EXCEPT !.owed = FALSE, !.done = TRUE,
                                                 !.kept = @ \/ picture]]
    BY <1>1, CopyFacts DEF Upload, Photos
  <1>3. /\ row'[i].name = row[i].name /\ row'[i].taken = row[i].taken
        /\ row'[i].kept => row[i].kept \/ picture
        /\ \A j \in Shots \ {i} : row'[j] = row[j]
        /\ Rows' = Rows
    <2>1. row[i].kept \in BOOLEAN /\ row[i] \in Photos
      BY <1>1, CopyFacts DEF Photos
    <2>2. PICK b \in BOOLEAN :
            /\ row' = [row EXCEPT ![i] = [row[i] EXCEPT !.owed = FALSE, !.done = TRUE,
                                                        !.kept = b]]
            /\ b => row[i].kept \/ picture
      BY <1>2, <2>1, Zenon
    <2> DEFINE new == [row[i] EXCEPT !.owed = FALSE, !.done = TRUE, !.kept = b]
    <2>3. /\ new.name = row[i].name /\ new.taken = row[i].taken /\ new.kept = b
          /\ new # NoRow
      BY <2>1 DEF Photos, NoRow
    <2> HIDE DEF new
    <2>4. row' = [row EXCEPT ![i] = new]
      BY <2>2 DEF new
    <2>5. /\ row'[i] = new /\ \A j \in Shots \ {i} : row'[j] = row[j]
          /\ Rows' = Rows
      BY <1>1, <2>3, <2>4, CopyFacts DEF Rows
    <2> QED BY <2>2, <2>3, <2>5, Zenon
  <1>4. /\ Stored \subseteq Stored' /\ Uploaded \subseteq Uploaded'
        /\ \A j : Settled(j)' = Settled(j)
    BY <1>1, SentGrows DEF Settled
  <1>5. /\ row[i].taken \in Uploaded' \cup clashed
        /\ row[i].kept \/ picture => row[i].taken \in Stored' \cup clashed
    <2>1. CASE file[row[i].name] = row[i].taken
      <3>1. row[i].taken \in Shots
        BY <1>1, <2>1, CopyFacts, ConstantsAssumption
        DEF Photos, Shots, Nothing, ConstantsAssumption
      <3>2. sent'[row[i].taken] = IF picture \/ sent[row[i].taken] = "stored"
                                  THEN "stored" ELSE "reported"
        BY <1>1, <2>1, <3>1 DEF Upload, TypeOK
      <3>3. row[i].taken \in Uploaded' /\ (picture => row[i].taken \in Stored')
        BY <3>1, <3>2 DEF Uploaded, Stored
      <3> QED BY <1>1, <1>4, <3>3, CopyFacts DEF RowInv
    <2>2. CASE row[i].taken \in Stored \cup clashed
      BY <1>4, <2>2, CopyFacts
    <2> QED BY <1>1, <2>1, <2>2, CopyFacts DEF RowInv
  <1>6. ASSUME NEW j \in Rows PROVE RowInv(j)'
    <2>1. CASE j = i
      BY <1>1, <1>3, <1>4, <1>5, <2>1, CopyFacts DEF RowInv
    <2>2. CASE j # i
      BY <1>1, <1>3, <1>4, <1>6, <2>2, CopyFacts DEF RowInv, Rows
    <2> QED BY <2>1, <2>2
  <1>7. CASE del' = del
    <2>1. \A j \in Rows : RowInv(j)' /\ OwnRow(j)'
      BY <1>1, <1>3, <1>6, CopyFacts DEF OwnRow, Rows
    <2>2. \A s \in Removers : OwnRemoval(s)'
      BY <1>1, <1>3, <1>4, <1>7, CopyFacts DEF OwnRemoval
    <2>3. CapInv'
      BY <1>1, <1>3, <1>7, CopyFacts DEF CapInv, InUse, Rows
    <2>4. SweptInv'
      BY <1>1, <1>3, <1>4, CopyFacts DEF SweptInv, Rows
    <2> QED BY <1>3, <2>1, <2>2, <2>3, <2>4 DEF CopyInv
  <1>8. CASE Find(r, i, <<"file">>) /\ (row[i].kept \/ picture)
    <2>1. \A j \in Rows : /\ row'[j].name = row[j].name /\ row'[j].taken = row[j].taken
                          /\ RowInv(j)'
      BY <1>3, <1>6 DEF Rows
    <2>2. r \in Removers /\ r # "sweep" /\ <<"file">> \in {Removal, <<"file">>}
      BY CopyFacts
    <2> QED BY <1>1, <1>3, <1>5, <1>8, <2>1, <2>2, FindKeeps
  <1> QED BY <1>7, <1>8 DEF Upload

\* Requests and the sweep look a photo up.
LEMMA LookUpKeeps ==
  ASSUME TypeOK, CopyInv, [Next]_vars, NEW r \in Removers, NEW i \in Shots, Find(r, i, Removal),
         UNCHANGED <<row, file, cap, shots, sent, clashed>>,
         r = "sweep" => row[i].taken \in Uploaded \cup clashed,
         sweep' = sweep \/ (sweep # Idle /\ sweep'.list \subseteq sweep.list)
  PROVE  CopyInv'
PROOF
  <1>1. Rows' = Rows /\ Stored' = Stored /\ Uploaded' = Uploaded /\ \A j : Settled(j)' = Settled(j)
    BY DEF Rows, Stored, Uploaded, Settled
  <1>2. \A j \in Rows : RowInv(j)'
    BY <1>1, CopyFacts DEF RowInv
  <1>3. Removal # <<"file">>
    BY DEF Removal
  <1> QED BY <1>1, <1>2, <1>3, FindKeeps

LEMMA SweepKeeps == ASSUME TypeOK, CopyInv, [Next]_vars, Sweep PROVE CopyInv'
PROOF
  <1>1. CASE SweepBegins
    <2>1. /\ UNCHANGED <<row, file, cap, del, shots, sent, clashed>>
          /\ Rows' = Rows /\ Stored' = Stored /\ Uploaded' = Uploaded
          /\ \A i : Settled(i)' = Settled(i)
          /\ InUse(cap.name)' = InUse(cap.name)
      BY <1>1 DEF SweepBegins, Rows, Stored, Uploaded, Settled, InUse
    <2>2. sweep'.list = {[id |-> i, taken |-> row[i].taken] :
                           i \in {j \in Rows : ~ShouldKeep(row[j], Used >= Emergency)}}
      BY <1>1 DEF SweepBegins
    <2>3. \A e \in sweep'.list : Settled(e.id) /\ row[e.id].taken \in Uploaded \cup clashed
      BY <2>2, CopyFacts DEF ShouldKeep, RowInv
    <2> QED BY <2>1, <2>3, CopyFacts
        DEF CopyInv, RowInv, OwnRow, OwnRemoval, CapInv, SweptInv
  <1>2. CASE SweepNext
    <2>1. /\ sweep \in Sweeps /\ sweep # Idle /\ Oldest \in sweep.list /\ Oldest.id \in Shots
          /\ UNCHANGED <<row, file, cap, shots, sent, clashed>>
      BY <1>2, UnderWay, OldestListed DEF SweepNext, Idle
    <2>2. NeedlessAfter(sweep.deleted) \in Nat
      BY <2>1 DEF NeedlessAfter, Sweeps
    <2>3. CASE Find("sweep", Oldest.id, Removal)
               /\ sweep' = [sweep EXCEPT !.pc = "deleting", !.list = @ \ {Oldest}]
      <3>1. sweep'.list \subseteq sweep.list
        BY <2>1, <2>3 DEF Sweeps
      <3>2. row[Oldest.id].taken \in Uploaded \cup clashed
        BY <2>1, <2>3, CopyFacts DEF SweptInv, Find
      <3> QED BY <2>1, <2>3, <3>1, <3>2, CopyFacts, LookUpKeeps
    <2>4. CASE /\ del' = del
               /\ \/ sweep' = Idle
                  \/ sweep' = [sweep EXCEPT !.list = @ \ {Oldest},
                                            !.needless = NeedlessAfter(sweep.deleted)]
      <3>1. sweep' = Idle \/ sweep'.list \subseteq sweep.list
        BY <2>1, <2>4 DEF Sweeps
      <3>2. Rows' = Rows
        BY <2>1 DEF Rows
      <3> QED BY <2>1, <2>4, <3>1, <3>2, HarmlessKeeps
    <2> QED BY <1>2, <2>3, <2>4 DEF SweepNext
  <1>3. CASE SweepRemoves
    <2>1. /\ UNCHANGED <<cap, shots, sent, clashed>> /\ Remove("sweep")
          /\ sweep' = sweep \/ sweep' = [sweep EXCEPT !.needless = @ + 1]
      BY <1>3 DEF SweepRemoves
    <2>2. sweep' = sweep \/ (sweep # Idle /\ sweep'.list = sweep.list)
      <3>1. CASE sweep = Idle
        BY <2>1, <3>1 DEF Idle
      <3>2. CASE sweep \in Sweeps
        BY <2>1, <3>2 DEF Sweeps, Idle
      <3> QED BY <3>1, <3>2 DEF TypeOK
    <2> QED BY <2>1, <2>2, CopyFacts, RemoveKeeps
  <1>4. CASE SweepCounts \/ SweepEnds
    <2>1. /\ UNCHANGED <<row, file, cap, del, shots, sent, clashed>>
          /\ sweep \in Sweeps /\ sweep # Idle
          /\ \/ sweep' = Idle
             \/ sweep' = [sweep EXCEPT !.pc = "next", !.deleted = @ + 1,
                                       !.needless = NeedlessAfter(sweep.deleted + 1)]
      BY <1>4, UnderWay DEF SweepCounts, SweepEnds, Idle
    <2>2. sweep' = Idle \/ sweep'.list = sweep.list
      BY <2>1 DEF Sweeps
    <2>3. Rows' = Rows
      BY <2>1 DEF Rows
    <2> QED BY <2>1, <2>2, <2>3, HarmlessKeeps
  <1> QED BY <1>1, <1>2, <1>3, <1>4 DEF Sweep

LEMMA StepCopy == ASSUME TypeOK, CopyInv, [Next]_vars PROVE CopyInv'
PROOF
  <1>1. ASSUME NEW n \in Shots, Shoot(n) PROVE CopyInv'
    BY <1>1, ShootKeeps
  <1>2. CASE DropDuplicate \/ Register
    BY <1>2, DropKeeps, RegisterKeeps
  <1>3. CASE Enqueue \/ \E i \in Shots : GrowOld(i) \/ Star(i) \/ Unstar(i)
    <2>1. /\ UNCHANGED <<file, del, sweep, shots>>
          /\ cap' = cap \/ (cap' = Idle /\ Idle.pc = "idle")
          /\ \/ row' = row
             \/ \E i \in Rows : \/ row' = [row EXCEPT ![i] = [row[i] EXCEPT !.owed = TRUE]]
                               \/ row' = [row EXCEPT ![i] = [row[i] EXCEPT !.old = TRUE]]
                               \/ \E b \in BOOLEAN :
                                    row' = [row EXCEPT ![i] = [row[i] EXCEPT !.starred = b]]
      BY <1>3 DEF Enqueue, GrowOld, Star, Unstar, Idle
    <2>2. /\ Rows' \subseteq Rows
          /\ \A i \in Rows' : /\ row'[i].name = row[i].name /\ row'[i].taken = row[i].taken
                              /\ row'[i].done = row[i].done /\ row'[i].kept = row[i].kept
      BY <2>1, CopyFacts DEF Rows, Photos
    <2>3. sweep # Idle => sweep'.list \subseteq sweep.list
      BY <2>1
    <2> QED BY <2>1, <2>2, <2>3, HarmlessKeeps
  <1>4. ASSUME NEW r \in Requests, NEW i \in Shots, DeletePhoto(r, i) PROVE CopyInv'
    <2>1. /\ Find(r, i, Removal) /\ UNCHANGED <<row, file, cap, sweep, shots, sent, clashed>>
          /\ r \in Removers /\ r # "sweep"
      BY <1>4, CopyFacts DEF DeletePhoto
    <2> QED BY <2>1, LookUpKeeps
  <1>5. ASSUME NEW r \in Requests, NEW i \in Shots, NEW picture \in BOOLEAN,
               Upload(r, i, picture)
        PROVE  CopyInv'
    BY <1>5, UploadKeeps
  <1>6. ASSUME NEW r \in Requests, RequestRemoves(r) PROVE CopyInv'
    <2>1. /\ Remove(r) /\ UNCHANGED <<cap, sweep, shots, sent, clashed>> /\ r \in Removers
      BY <1>6, CopyFacts DEF RequestRemoves
    <2> QED BY <2>1, RemoveKeeps
  <1>7. CASE Sweep
    BY <1>7, SweepKeeps
  <1>8. CASE ServiceCrash \/ SweepCrash \/ UNCHANGED vars
    <2>1. /\ UNCHANGED <<row, file, shots>> /\ Rows' = Rows
          /\ cap' = cap \/ (cap' = Idle /\ Idle.pc = "idle")
          /\ \A r \in Removers : del'[r] = Idle \/ del'[r] = del[r]
          /\ sweep' \in {sweep, Idle}
      BY <1>8 DEF ServiceCrash, SweepCrash, TypeOK, Idle, vars, Rows
    <2> QED BY <2>1, HarmlessKeeps
  <1> QED BY <1>1, <1>2, <1>3, <1>4, <1>5, <1>6, <1>7, <1>8 DEF Next, Photograph

LEMMA CopyHolds == SafetySpec => [](TypeOK /\ CopyInv)
PROOF
  <1>1. Init => TypeOK /\ CopyInv
    <2>1. Init => Rows = {}
      BY DEF Init, Rows
    <2> QED BY <2>1, InitTypes, ConstantsAssumption
        DEF Init, CopyInv, OwnRemoval, CapInv, SweptInv, Idle
  <1>2. TypeOK /\ CopyInv /\ [Next]_vars => (TypeOK /\ CopyInv)'
    BY StepTypes, StepCopy
  <1> QED BY <1>1, <1>2, PTL DEF SafetySpec

\* The gallery: a photo that is listed has its file or is stored elsewhere, unless
\* its name was still in use when it was taken: however the camera names its
\* files, and however requests, uploads, captures, sweeps and crashes interleave.
THEOREM ListedPhotosExist == SafetySpec => []RowsHaveFiles
PROOF
  <1>1. TypeOK /\ CopyInv => RowsHaveFiles
    BY CopyFacts DEF RowsHaveFiles, RowInv
  <1> QED BY <1>1, CopyHolds, PTL

\* retention/policy.py: whatever was starred, deleted, taken or reported since its
\* snapshot, the sweep removes no file that holds a photo the queue has not sent,
\* unless that photo's name was still in use when it was taken.
THEOREM SweepSparesUnuploaded == SafetySpec => UnuploadedKept
PROOF
  <1>1. ASSUME TypeOK, CopyInv, [Next]_vars, del["sweep"] # del'["sweep"],
               NEW n \in Shots, file[n] # file'[n]
        PROVE  file[n] \in Uploaded \cup clashed
    <2>1. CASE SweepRemoves
      <3>1. Remove("sweep") /\ del["sweep"] # Idle
        BY <2>1 DEF SweepRemoves, Remove
      <3>2. file' = [file EXCEPT ![del["sweep"].name] = Nothing]
        BY <1>1, <3>1 DEF Remove
      <3>3. n = del["sweep"].name /\ file[n] # Nothing
        BY <1>1, <3>2, CopyFacts
      <3> QED BY <1>1, <3>1, <3>3, CopyFacts DEF OwnRemoval
    <2>2. ASSUME NEW r \in Requests, RequestRemoves(r) PROVE FALSE
      <3>1. Remove(r) /\ r \in Removers /\ "sweep" \in Removers \ {r}
        BY <1>1, <2>2, CopyFacts DEF RequestRemoves
      <3> QED BY <1>1, <3>1, RemoveTypes
    <2>3. CASE (\E m \in Shots : Shoot(m)) \/ DropDuplicate
      BY <1>1, <2>3 DEF Shoot, DropDuplicate
    <2>4. CASE \/ Register \/ Enqueue \/ SweepBegins \/ SweepNext \/ SweepCounts \/ SweepEnds
               \/ ServiceCrash \/ SweepCrash \/ UNCHANGED vars
               \/ \E i \in Shots : \/ GrowOld(i) \/ Star(i) \/ Unstar(i)
                                   \/ \E r \in Requests :
                                        \/ DeletePhoto(r, i)
                                        \/ \E picture \in BOOLEAN : Upload(r, i, picture)
      BY <1>1, <2>4
      DEF Register, Enqueue, SweepBegins, SweepNext, SweepCounts, SweepEnds, ServiceCrash,
          SweepCrash, vars, GrowOld, Star, Unstar, DeletePhoto, Upload
    <2> QED BY <1>1, <2>1, <2>2, <2>3, <2>4 DEF Next, Photograph, Sweep
  <1>2. TypeOK /\ CopyInv /\ [Next]_vars => [SweepTakes(Uploaded \cup clashed)]_vars
    BY <1>1 DEF SweepTakes
  <1> QED BY <1>2, CopyHolds, PTL DEF SafetySpec, UnuploadedKept

-----------------------------------------------------------------------------
(* The target. *)

LEMMA Remainder ==
  ASSUME NEW c \in Int, 0 < c, NEW q \in Int, NEW m \in Int, 0 <= m, m < c
  PROVE  (q * c + m) % c = m
PROOF OBVIOUS

\* Of the next deletion's number either nothing is left over, or one more.
LEMMA Batches ==
  ASSUME NEW c \in Nat \ {0}, NEW k \in Nat
  PROVE  /\ k % c \in 0 .. c - 1
         /\ (k + 1) % c = 0 \/ (k + 1) % c = (k % c) + 1
PROOF
  <1> DEFINE q == k \div c  m == k % c
  <1>1. q \in Int /\ m \in Int /\ 0 <= m /\ m < c /\ c \in Int /\ 0 < c
    OBVIOUS
  <1>2. k = q * c + m
    OBVIOUS
  <1> HIDE DEF q, m
  <1>3. CASE m + 1 < c
    <2>1. (q * c + (m + 1)) % c = m + 1
      BY <1>1, <1>3, Remainder
    <2>2. k + 1 = q * c + (m + 1)
      <3>1. q * c \in Int
        BY <1>1
      <3> QED BY <1>1, <1>2, <3>1
    <2> QED BY <1>1, <2>1, <2>2 DEF m
  <1>4. CASE m + 1 = c
    <2>1. ((q + 1) * c + 0) % c = 0
      BY <1>1, Remainder
    <2>2. k + 1 = (q + 1) * c + 0
      <3>1. q * c \in Int /\ (q + 1) * c = q * c + c
        BY <1>1
      <3> QED BY <1>1, <1>2, <1>4, <3>1
    <2> QED BY <1>1, <2>1, <2>2 DEF m
  <1> QED BY <1>1, <1>3, <1>4

LEMMA UsedNumber == Used \in Nat
PROOF
  <1>1. MaxShots \in Nat
    BY ConstantsAssumption DEF ConstantsAssumption
  <1>2. IsFiniteSet(Shots)
    BY <1>1, FS_Interval DEF Shots
  <1>3. IsFiniteSet({n \in Shots : file[n] # Nothing})
    BY <1>2, FS_Subset
  <1> QED BY <1>3, FS_CardinalityType DEF Used

\* The needless deletions since the last look are among the deletions since the
\* last multiple of CheckEvery; the one under way is not counted yet.
StopInv ==
  /\ sweep = Idle \/ sweep.pc = "next" => del["sweep"] = Idle
  /\ sweep.pc = "next" => sweep.needless <= sweep.deleted % CheckEvery
  /\ sweep.pc = "deleting" =>
       sweep.needless + (IF del["sweep"] = Idle THEN 0 ELSE 1)
         <= (sweep.deleted % CheckEvery) + 1

LEMMA StepStop == ASSUME TypeOK, StopInv, [Next]_vars PROVE StopInv'
PROOF
  <1>1. /\ CheckEvery \in Nat \ {0} /\ Target \in Nat /\ Used \in Nat
        /\ "sweep" \in Removers /\ \A r \in Requests : r \in Removers /\ r # "sweep"
        /\ del \in [Removers -> {Idle} \cup Removals]
    BY ConstantsAssumption, UsedNumber DEF ConstantsAssumption, Removers, TypeOK
  <1>2. /\ Idle.pc = "idle"
        /\ sweep \in Sweeps => /\ sweep.needless \in Nat /\ sweep.deleted \in Nat
                               /\ sweep.pc \in {"next", "deleting"}
    BY DEF Idle, Sweeps
  <1>3. ASSUME sweep' = sweep, del'["sweep"] = del["sweep"] PROVE StopInv'
    BY <1>3 DEF StopInv
  <1>4. CASE SweepBegins
    <2>1. 0 % CheckEvery \in Nat
      BY <1>1, Batches
    <2> QED BY <1>2, <1>4, <2>1 DEF SweepBegins, StopInv
  <1>5. CASE SweepNext
    <2>1. sweep \in Sweeps /\ sweep.pc = "next"
      BY <1>5, UnderWay DEF SweepNext
    <2>2. sweep.deleted % CheckEvery \in Nat /\ NeedlessAfter(sweep.deleted) \in {0, sweep.needless}
      BY <1>1, <1>2, <2>1, Batches DEF NeedlessAfter
    <2>3. CASE Find("sweep", Oldest.id, Removal)
               /\ sweep' = [sweep EXCEPT !.pc = "deleting", !.list = @ \ {Oldest}]
      <3>1. /\ sweep'.pc = "deleting" /\ sweep'.deleted = sweep.deleted
            /\ sweep'.needless = sweep.needless
        BY <2>1, <2>3 DEF Sweeps
      <3> QED BY <1>2, <2>1, <2>2, <3>1 DEF StopInv, Idle
    <2>4. CASE del' = del /\ sweep' = Idle
      BY <1>2, <2>1, <2>4 DEF StopInv
    <2>5. CASE del' = del /\ sweep' = [sweep EXCEPT !.list = @ \ {Oldest},
                                       !.needless = NeedlessAfter(sweep.deleted)]
      <3>1. /\ sweep'.pc = "next" /\ sweep'.deleted = sweep.deleted
            /\ sweep'.needless = NeedlessAfter(sweep.deleted)
        BY <2>1, <2>5 DEF Sweeps
      <3> QED BY <1>2, <2>1, <2>2, <2>5, <3>1 DEF StopInv
    <2> QED BY <1>5, <2>3, <2>4, <2>5 DEF SweepNext
  <1>6. CASE SweepRemoves
    <2>1. /\ Remove("sweep") /\ del["sweep"] # Idle
          /\ \/ Head(del["sweep"].todo) = "row" /\ sweep' = sweep
             \/ /\ del'["sweep"] = Idle
                /\ sweep' = sweep \/ sweep' = [sweep EXCEPT !.needless = @ + 1]
      BY <1>1, <1>6, RemoveTypes DEF SweepRemoves, Remove
    <2>2. sweep \in Sweeps /\ sweep.pc = "deleting" /\ sweep.deleted % CheckEvery \in Nat
      BY <1>1, <1>2, <2>1, Batches DEF StopInv, TypeOK
    <2>3. /\ sweep'.pc = "deleting" /\ sweep'.deleted = sweep.deleted
          /\ sweep'.needless + (IF del'["sweep"] = Idle THEN 0 ELSE 1) <= sweep.needless + 1
      <3>1. CASE sweep' = sweep
        BY <1>2, <2>2, <3>1
      <3>2. CASE del'["sweep"] = Idle /\ sweep' = [sweep EXCEPT !.needless = @ + 1]
        <4>1. /\ sweep'.pc = sweep.pc /\ sweep'.deleted = sweep.deleted
              /\ sweep'.needless = sweep.needless + 1
          BY <2>2, <3>2 DEF Sweeps
        <4> QED BY <1>2, <2>2, <3>2, <4>1
      <3> QED BY <2>1, <3>1, <3>2
    <2>4. sweep.needless + 1 <= (sweep.deleted % CheckEvery) + 1
      BY <2>1, <2>2 DEF StopInv
    <2>5. sweep'.needless \in Nat
      BY <1>2, <2>1, <2>2 DEF Sweeps
    <2> QED BY <1>2, <2>2, <2>3, <2>4, <2>5 DEF StopInv
  <1>7. CASE SweepCounts
    <2>1. sweep \in Sweeps /\ sweep.pc = "deleting" /\ del["sweep"] = Idle /\ del' = del
      BY <1>7, UnderWay DEF SweepCounts
    <2>2. CASE sweep' = Idle
      BY <1>2, <2>1, <2>2 DEF StopInv
    <2>3. CASE ~EnoughFreed(sweep.deleted + 1)
      <3>1. sweep' = [sweep EXCEPT !.pc = "next", !.deleted = sweep.deleted + 1,
                                   !.needless = NeedlessAfter(sweep.deleted + 1)]
        BY <1>7, <2>3 DEF SweepCounts
      <3>2. /\ sweep'.pc = "next" /\ sweep'.deleted = sweep.deleted + 1
            /\ sweep'.needless = NeedlessAfter(sweep.deleted + 1)
        BY <2>1, <3>1 DEF Sweeps
      <3>3. sweep.needless <= (sweep.deleted % CheckEvery) + 1
        BY <1>2, <2>1 DEF StopInv
      <3>4. NeedlessAfter(sweep.deleted + 1) <= (sweep.deleted + 1) % CheckEvery
        <4>1. CASE (sweep.deleted + 1) % CheckEvery = 0
          BY <1>1, <2>3, <4>1 DEF EnoughFreed, NeedlessAfter
        <4>2. CASE (sweep.deleted + 1) % CheckEvery = (sweep.deleted % CheckEvery) + 1
          <5>1. sweep.deleted % CheckEvery \in Nat
            BY <1>1, <1>2, <2>1, Batches
          <5> QED BY <1>2, <2>1, <3>3, <4>2, <5>1 DEF NeedlessAfter
        <4> QED BY <1>1, <1>2, <2>1, <4>1, <4>2, Batches
      <3> QED BY <2>1, <3>2, <3>4 DEF StopInv
    <2> QED BY <1>7, <2>2, <2>3 DEF SweepCounts
  <1>8. CASE SweepEnds \/ SweepCrash
    BY <1>1, <1>2, <1>8 DEF SweepEnds, SweepCrash, StopInv
  <1>9. ASSUME NEW r \in Requests, RequestRemoves(r) PROVE StopInv'
    <2>1. r \in Removers /\ Remove(r) /\ sweep' = sweep /\ "sweep" \in Removers \ {r}
      BY <1>1, <1>9 DEF RequestRemoves
    <2>2. del'["sweep"] = del["sweep"]
      BY <2>1, RemoveTypes
    <2> QED BY <1>3, <2>1, <2>2
  <1>10. ASSUME NEW r \in Requests, NEW i \in Shots,
                DeletePhoto(r, i) \/ \E picture \in BOOLEAN : Upload(r, i, picture)
         PROVE  StopInv'
    BY <1>1, <1>3, <1>10 DEF DeletePhoto, Upload, Find
  <1>11. CASE ServiceCrash
    BY <1>1, <1>3, <1>11 DEF ServiceCrash
  <1>12. CASE \/ Photograph \/ UNCHANGED vars
              \/ \E i \in Shots : GrowOld(i) \/ Star(i) \/ Unstar(i)
    BY <1>3, <1>12
    DEF Photograph, Shoot, DropDuplicate, Register, Enqueue, GrowOld, Star, Unstar, vars
  <1> QED
    BY <1>4, <1>5, <1>6, <1>7, <1>8, <1>9, <1>10, <1>11, <1>12 DEF Next, Sweep

\* run_sweep: between two looks at the disk at most one batch of deletions is
\* begun that the target does not ask for, whoever frees and fills the card.
THEOREM SweepStopsAtTarget == SafetySpec => []SweepStops
PROOF
  <1>1. Init => TypeOK /\ StopInv
    BY InitTypes, ConstantsAssumption DEF Init, StopInv, Removers, Idle
  <1>2. TypeOK /\ StopInv /\ [Next]_vars => (TypeOK /\ StopInv)'
    BY StepTypes, StepStop
  <1>3. TypeOK /\ StopInv => SweepStops
    <2> SUFFICES ASSUME sweep \in Sweeps, StopInv PROVE sweep.needless <= CheckEvery
      BY DEF TypeOK, SweepStops
    <2>1. /\ sweep.needless \in Nat /\ sweep.deleted \in Nat /\ sweep.pc \in {"next", "deleting"}
          /\ CheckEvery \in Nat \ {0}
      BY ConstantsAssumption DEF Sweeps, ConstantsAssumption
    <2>2. sweep.deleted % CheckEvery \in 0 .. CheckEvery - 1
      BY <2>1, Batches
    <2> QED BY <2>1, <2>2 DEF StopInv
  <1> QED BY <1>1, <1>2, <1>3, PTL DEF SafetySpec
===============================================================================
