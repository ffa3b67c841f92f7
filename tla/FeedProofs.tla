------------------------------ MODULE FeedProofs ------------------------------
(***************************************************************************)
(* The safety of the two consumers of a feed.  IngestFiles: for any set of *)
(* files and any number of faults.  PublicationMonitor: for any tables,    *)
(* messages and number of listeners.                                       *)
(***************************************************************************)
EXTENDS IngestFiles, PublicationMonitor, FiniteSetTheorems, WellFoundedInduction, TLAPS

(* IngestFiles: the inductive invariant, in named parts. *)

\* loads is bounded by RepeatsNeedFaults.
Types == /\ data \in [Files -> Places]
         /\ done \in [Files -> Places \ {"partial"}]
         /\ loads \in [Files -> Nat]
         /\ pc \in Pcs /\ foundOneDoneFile \in BOOLEAN
         /\ DONE_FILES \subseteq Files /\ FILE \in Files
         /\ INGEST_RET_CODE \in {0, 2, 4, 8} /\ left \in 0 .. Faults

\* A .done file is made after its file is whole, and nothing is loaded before.
DoneIsLast == \A f \in Files : /\ data[f] \in {"absent", "partial"} => done[f] = "absent"
                               /\ done[f] = "absent" => loads[f] = 0

InPass == {"connect", "next", "ingest", "move .done", "move file"}
AtFile == {"ingest", "move .done", "move file"}
Moving == {"move .done", "move file"}

\* What a pass knows of the files it has found stays true while it runs.
Pass == /\ pc \in InPass => \A f \in DONE_FILES : done[f] = "input"
        /\ pc \in AtFile => FILE \notin DONE_FILES /\ done[FILE] # "absent"
        /\ pc = "ingest" => data[FILE] = "input" /\ done[FILE] = "input"
        /\ pc \in Moving /\ INGEST_RET_CODE < 4 => loads[FILE] > 0

\* The script would load the file once more.
Again(f) == data[f] = "input" /\ done[f] = "input" /\ ~(pc \in Moving /\ FILE = f)

\* Every load but the last has cost a fault, and the last one too if the file
\* is going to be loaded again.
Paid == \A f \in Files : /\ loads[f] <= 1 + Faults - left
                         /\ Again(f) => loads[f] <= Faults - left

IInv == Types /\ DoneIsLast /\ Pass /\ SuccessIsLoaded /\ Paid
-----------------------------------------------------------------------------
\* The number of faults is a natural number.
LEMMA FaultsCounted == Faults \in Nat
<1> QED BY IngestAssumption

\* A command goes well, or costs a fault.
LEMMA FaultTypes ==
  ASSUME left \in 0 .. Faults, Works \/ Fails \/ Fault
  PROVE  left' \in 0 .. Faults /\ left' <= left /\ (Fault => left' = left - 1)
<1> QED BY FaultsCounted DEF Works, Fails, Fault

\* A load is counted for its file.
LEMMA LoadCounted ==
  ASSUME loads \in [Files -> Nat], FILE \in Files,
         loads' = [loads EXCEPT ![FILE] = @ + 1] \/ UNCHANGED loads
  PROVE  /\ loads' \in [Files -> Nat]
         /\ \A f \in Files : f # FILE => loads'[f] = loads[f]
         /\ loads'[FILE] <= loads[FILE] + 1
         /\ loads' # loads => loads'[FILE] > 0
<1>1. loads[FILE] \in Nat /\ loads[FILE] + 1 \in Nat /\ loads[FILE] + 1 > 0
  OBVIOUS
<1>2. CASE loads' = [loads EXCEPT ![FILE] = @ + 1]
  <2>1. loads' = [loads EXCEPT ![FILE] = loads[FILE] + 1]
    BY <1>2
  <2>2. loads'[FILE] = loads[FILE] + 1 /\ \A f \in Files : f # FILE => loads'[f] = loads[f]
    BY <2>1
  <2>3. loads' \in [Files -> Nat]
    BY <1>1, <2>1
  <2> QED BY <1>1, <2>2, <2>3
<1> QED BY <1>1, <1>2

\* The first state.
LEMMA InitHolds == Init => IInv
<1> SUFFICES ASSUME Init PROVE IInv
  OBVIOUS
<1>1. Types
  <2>1. left \in 0 .. Faults
    BY FaultsCounted DEF Init
  <2>2. loads \in [Files -> Nat]
    BY DEF Init
  <2> QED BY <2>1, <2>2 DEF Init, Types, Places, Pcs
<1>2. DoneIsLast /\ Pass /\ SuccessIsLoaded
  BY DEF Init, DoneIsLast, Pass, SuccessIsLoaded, InPass, AtFile, Moving
<1>3. Paid
  <2>1. \A f \in Files : data[f] = "absent" /\ loads[f] = 0
    BY DEF Init
  <2>2. left = Faults /\ 0 <= 1 + Faults - Faults
    BY FaultsCounted DEF Init
  <2> QED BY <2>1, <2>2 DEF Paid, Again
<1> QED BY <1>1, <1>2, <1>3 DEF IInv

\* A file that is loaded has been found by its .done file and is whole.
LEMMA IngestStep ==
  ASSUME IInv, Ingest
  PROVE  IInv'
<1>1. /\ FILE \in Files /\ data[FILE] = "input" /\ done[FILE] = "input"
      /\ loads \in [Files -> Nat] /\ left \in 0 .. Faults
  BY DEF IInv, Types, Pass, Ingest
<1>2. UNCHANGED <<data, done, DONE_FILES, FILE>> /\ pc' = "move .done"
  BY DEF Ingest
<1>3. Types'
  <2>1. left' \in 0 .. Faults
    BY <1>1, FaultTypes DEF Ingest
  <2>2. loads' \in [Files -> Nat]
    BY <1>1, LoadCounted DEF Ingest
  <2> QED BY <2>1, <2>2 DEF IInv, Types, Ingest, Pcs
<1>4. DoneIsLast' /\ SuccessIsLoaded'
  BY <1>1, <1>2 DEF IInv, Types, DoneIsLast, SuccessIsLoaded, Ingest
<1>5. Pass'
  <2>1. INGEST_RET_CODE' < 4 => loads'[FILE] > 0
    <3>1. loads[FILE] \in Nat /\ loads[FILE] + 1 > 0
      BY <1>1
    <3>2. \/ INGEST_RET_CODE' \in {0, 2} /\ loads' = [loads EXCEPT ![FILE] = @ + 1]
          \/ INGEST_RET_CODE' \in {4, 8}
      BY DEF Ingest
    <3>3. loads' = [loads EXCEPT ![FILE] = @ + 1] => loads'[FILE] = loads[FILE] + 1
      BY <1>1
    <3> QED BY <3>1, <3>2, <3>3
  <2> QED BY <1>1, <1>2, <2>1 DEF IInv, Pass, Ingest, InPass, AtFile, Moving
<1>6. Paid'
  <2> SUFFICES ASSUME NEW f \in Files
               PROVE  /\ loads'[f] <= 1 + Faults - left'
                      /\ Again(f)' => loads'[f] <= Faults - left'
    BY DEF Paid
  <2>1. left' \in 0 .. Faults /\ left' <= left
    BY <1>1, FaultTypes DEF Ingest
  <2>2. CASE f = FILE
    <3>1. loads[f] <= Faults - left /\ loads[f] \in Nat
      BY <1>1, <2>2 DEF IInv, Paid, Again, Ingest, Moving
    <3>2. loads'[f] <= loads[f] + 1 /\ loads'[f] \in Nat
      BY <1>1, <2>2, LoadCounted DEF Ingest
    <3>3. ~Again(f)'
      BY <1>2, <2>2 DEF Again, Moving
    <3> QED BY <1>1, <2>1, <3>1, <3>2, <3>3, FaultsCounted
  <2>3. CASE f # FILE
    <3>1. loads'[f] = loads[f] /\ loads[f] \in Nat
      BY <1>1, <2>3 DEF Ingest
    <3>2. Again(f)' => Again(f)
      BY <1>2, <2>3 DEF Again
    <3>3. /\ loads[f] <= 1 + Faults - left
          /\ Again(f) => loads[f] <= Faults - left
      BY DEF IInv, Paid
    <3> QED BY <1>1, <2>1, <3>1, <3>2, <3>3, FaultsCounted
  <2> QED BY <2>2, <2>3
<1> QED BY <1>3, <1>4, <1>5, <1>6 DEF IInv

\* Every step keeps the types.
LEMMA TypesStep ==
  ASSUME IInv, [Next]_vars
  PROVE  Types'
<1> USE DEF IInv, Types
<1>1. CASE Start
  BY <1>1 DEF Start, filesVars, Pcs
<1>2. CASE Find
  BY <1>2 DEF Find, filesVars, Pcs
<1>3. CASE Connect
  BY <1>3, FaultTypes DEF Connect, filesVars, Pcs
<1>4. CASE NextFile
  BY <1>4 DEF NextFile, Rest, filesVars, Pcs
<1>5. CASE Ingest
  BY <1>5, IngestStep
<1>6. CASE MoveDone
  <2>1. left' \in 0 .. Faults
    BY <1>6, FaultTypes DEF MoveDone
  <2> QED BY <1>6, <2>1 DEF MoveDone, Moved, Target, Pcs, Places
<1>7. CASE MoveFile
  <2>1. left' \in 0 .. Faults
    BY <1>7, FaultTypes DEF MoveFile
  <2> QED BY <1>7, <2>1 DEF MoveFile, Moved, Target, Pcs, Places
<1>8. CASE Killed
  <2>1. left' \in 0 .. Faults
    BY <1>8, FaultTypes DEF Killed
  <2>2. loads' \in [Files -> Nat]
    BY <1>8 DEF Killed
  <2> QED BY <1>8, <2>1, <2>2 DEF Killed, Pcs
<1>9. CASE \E f \in Files : Produce(f)
  BY <1>9 DEF Produce, Places
<1>10. CASE UNCHANGED vars
  BY <1>10 DEF vars, filesVars
<1> QED BY <1>1, <1>2, <1>3, <1>4, <1>5, <1>6, <1>7, <1>8, <1>9, <1>10 DEF Next, Script

\* Every step keeps the order of the producer and of mv.
LEMMA DoneIsLastStep ==
  ASSUME IInv, [Next]_vars
  PROVE  DoneIsLast'
<1> USE DEF IInv, Types, DoneIsLast
<1>1. CASE Start \/ Find \/ Connect \/ NextFile
  BY <1>1 DEF Start, Find, Connect, NextFile, filesVars
<1>2. CASE Ingest
  BY <1>2, IngestStep
<1>3. CASE MoveDone
  BY <1>3 DEF MoveDone, Moved, Target, Pass, AtFile
<1>4. CASE MoveFile
  BY <1>4 DEF MoveFile, Moved, Target
<1>5. CASE Killed
  BY <1>5 DEF Killed, Pass
<1>6. CASE \E f \in Files : Produce(f)
  BY <1>6 DEF Produce
<1>7. CASE UNCHANGED vars
  BY <1>7 DEF vars, filesVars
<1> QED BY <1>1, <1>2, <1>3, <1>4, <1>5, <1>6, <1>7 DEF Next, Script

\* Every step keeps what a pass knows of its files.
LEMMA PassStep ==
  ASSUME IInv, [Next]_vars
  PROVE  Pass'
<1> USE DEF IInv, Types, Pass, InPass, AtFile, Moving
<1>1. CASE Start
  BY <1>1 DEF Start, filesVars
<1>2. CASE Find
  BY <1>2 DEF Find, Found, filesVars
<1>3. CASE Connect
  BY <1>3 DEF Connect, filesVars
<1>4. CASE NextFile
  BY <1>4 DEF NextFile, Rest, filesVars, DoneIsLast
<1>5. CASE Ingest
  BY <1>5, IngestStep
<1>6. CASE MoveDone
  BY <1>6 DEF MoveDone, Moved, Target
<1>7. CASE MoveFile
  BY <1>7 DEF MoveFile
<1>8. CASE Killed
  BY <1>8 DEF Killed
<1>9. CASE \E f \in Files : Produce(f)
  BY <1>9, ZenonT(60) DEF Produce
<1>10. CASE UNCHANGED vars
  BY <1>10 DEF vars, filesVars
<1> QED BY <1>1, <1>2, <1>3, <1>4, <1>5, <1>6, <1>7, <1>8, <1>9, <1>10 DEF Next, Script

\* No step brings a file that is not loaded to success/.
LEMMA SuccessIsLoadedStep ==
  ASSUME IInv, [Next]_vars
  PROVE  SuccessIsLoaded'
<1> USE DEF IInv, Types, SuccessIsLoaded
<1>1. CASE Start \/ Find \/ Connect \/ NextFile
  BY <1>1 DEF Start, Find, Connect, NextFile, filesVars
<1>2. CASE Ingest
  BY <1>2, IngestStep
<1>3. CASE MoveDone
  BY <1>3 DEF MoveDone, Moved, Target, Pass, Moving
<1>4. CASE MoveFile
  BY <1>4 DEF MoveFile, Moved, Target, Pass, Moving
<1>5. CASE Killed
  BY <1>5 DEF Killed, Pass
<1>6. CASE \E f \in Files : Produce(f)
  BY <1>6 DEF Produce, DoneIsLast
<1>7. CASE UNCHANGED vars
  BY <1>7 DEF vars, filesVars
<1> QED BY <1>1, <1>2, <1>3, <1>4, <1>5, <1>6, <1>7 DEF Next, Script

\* What the other steps do to the account of a file.
LEMMA PaidStep ==
  ASSUME IInv, [Next]_vars
  PROVE  Paid'
<1> SUFFICES ASSUME NEW f \in Files
             PROVE  /\ loads'[f] <= 1 + Faults - left'
                    /\ Again(f)' => loads'[f] <= Faults - left'
  BY DEF Paid
<1>1. /\ loads[f] \in Nat /\ loads[f] <= 1 + Faults - left
      /\ Again(f) => loads[f] <= Faults - left
      /\ left \in 0 .. Faults
  BY DEF IInv, Types, Paid
<1>2. CASE UNCHANGED <<loads, left>> /\ (Again(f)' => Again(f))
  BY <1>1, <1>2
<1>3. CASE UNCHANGED loads /\ left' <= left /\ left' \in Nat /\ (Again(f)' => Again(f))
  BY <1>1, <1>3, FaultsCounted
<1>4. CASE UNCHANGED loads /\ left' = left - 1
  BY <1>1, <1>4, FaultsCounted
<1>5. CASE UNCHANGED <<loads, left>> /\ loads[f] = 0
  BY <1>1, <1>5, FaultsCounted
<1>6. CASE Start \/ Find \/ NextFile
  BY <1>2, <1>6 DEF Start, Find, NextFile, filesVars, Again, Moving
<1>7. CASE Connect
  <2>1. left' <= left /\ left' \in Nat
    BY <1>1, <1>7, FaultTypes, FaultsCounted DEF Connect
  <2>2. UNCHANGED loads /\ (Again(f)' => Again(f))
    BY <1>7 DEF Connect, filesVars, Again, Moving
  <2> QED BY <1>3, <2>1, <2>2
<1>8. CASE Ingest
  BY <1>8, IngestStep DEF IInv, Paid
<1>9. CASE MoveDone
  <2>1. CASE Works
    BY <1>2, <1>9, <2>1 DEF MoveDone, Works, Again, Moving, IInv, Types
  <2>2. CASE Fails
    BY <1>4, <1>9, <2>2 DEF MoveDone, Fails, Fault
  <2> QED BY <1>9, <2>1, <2>2 DEF MoveDone
<1>10. CASE MoveFile
  <2>1. CASE Works /\ data' = [data EXCEPT ![FILE] = Moved(FILE)]
    <3>1. f = FILE => data'[f] # "input"
      BY <2>1 DEF IInv, Types, Moved, Target
    <3>2. f # FILE => data'[f] = data[f]
      BY <2>1 DEF IInv, Types
    <3> QED BY <1>2, <1>10, <2>1, <3>1, <3>2 DEF MoveFile, Works, Again
  <2>2. CASE Fails
    BY <1>4, <1>10, <2>2 DEF MoveFile, Fails, Fault
  <2> QED BY <1>10, <2>1, <2>2 DEF MoveFile
<1>11. CASE Killed
  <2>1. CASE UNCHANGED loads
    BY <1>4, <1>11, <2>1 DEF Killed, Fault
  <2>2. CASE pc = "ingest" /\ loads' = [loads EXCEPT ![FILE] = @ + 1]
    <3>1. left' = left - 1
      BY <1>11 DEF Killed, Fault
    <3>2. f # FILE => loads'[f] = loads[f]
      BY <2>2 DEF IInv, Types
    <3>3. f = FILE => loads'[f] = loads[f] + 1 /\ Again(f)
      BY <2>2 DEF IInv, Types, Pass, Again, Moving
    <3> QED BY <1>1, <3>1, <3>2, <3>3, FaultsCounted
  <2> QED BY <1>11, <2>1, <2>2 DEF Killed
<1>12. CASE \E g \in Files : Produce(g)
  <2>1. PICK g \in Files : Produce(g)
    BY <1>12
  <2>2. UNCHANGED <<loads, left, pc, FILE>> /\ data \in [Files -> Places]
        /\ done \in [Files -> Places \ {"partial"}]
    BY <2>1 DEF Produce, IInv, Types
  <2>3. f # g => (Again(f)' => Again(f))
    BY <2>1, <2>2 DEF Produce, Again
  <2>4. f = g /\ done[f] = "absent" => loads[f] = 0
    BY DEF IInv, DoneIsLast
  <2>5. f = g /\ done[f] # "absent" => (Again(f)' => Again(f))
    BY <2>1, <2>2 DEF Produce, IInv, DoneIsLast
  <2> QED BY <1>2, <1>5, <2>2, <2>3, <2>4, <2>5
<1>13. CASE UNCHANGED vars
  BY <1>2, <1>13 DEF vars, filesVars, Again
<1> QED BY <1>6, <1>7, <1>8, <1>9, <1>10, <1>11, <1>12, <1>13 DEF Next, Script

\* Every step of the script, the producer or a kill keeps the invariant.
LEMMA Inductive == IInv /\ [Next]_vars => IInv'
<1> QED BY TypesStep, DoneIsLastStep, PassStep, SuccessIsLoadedStep, PaidStep DEF IInv

\* So it holds for ever.
LEMMA Safe == Spec => []IInv
<1> QED BY InitHolds, Inductive, PTL DEF Spec
-----------------------------------------------------------------------------
\* Every variable keeps its type: the number of loads stays within what the
\* faults allow.
THEOREM TypeOKHolds == Spec => []TypeOK
<1>1. IInv => TypeOK
  BY FaultsCounted DEF IInv, Types, Paid, TypeOK
<1> QED BY <1>1, Safe, PTL

\* A file that the script has moved to success/ is in the table, and no file is
\* loaded before the producer has finished it.
THEOREM SuccessIsLoadedHolds == Spec => []SuccessIsLoaded
<1>1. IInv => SuccessIsLoaded
  BY DEF IInv
<1> QED BY <1>1, Safe, PTL

\* The script alone never loads a file twice: every repetition is the result of
\* a failed move or of a kill.
THEOREM RepeatsNeedFaultsHolds == Spec => []RepeatsNeedFaults
<1>1. IInv => RepeatsNeedFaults
  BY DEF IInv, Paid, RepeatsNeedFaults
<1> QED BY <1>1, Safe, PTL
-----------------------------------------------------------------------------
(* PublicationMonitor: sums *)

\* Every set of numbers that is not empty has a least one.
LEMMA LeastOf ==
  ASSUME NEW T \in SUBSET Nat, T # {}
  PROVE  \E k \in T : \A j \in T : k <= j
<1> DEFINE Less == {p \in Nat \X Nat : p[1] < p[2]}
<1>1. IsWellFoundedOn(Less, Nat)
  BY NatLessThanWellFounded DEF OpToRel
<1> HIDE DEF Less
<1>2. PICK k \in T : \A j \in T : <<j, k>> \notin Less
  BY <1>1, WFMin
<1>3. \A j \in T : ~(j < k)
  BY <1>2 DEF Less
<1> QED BY <1>3

(* What SumFunctionOnSet does: it takes the terms off the set one by one. *)

Picked(S) == CHOOSE x \in S : TRUE
SumBody(f, it, S) == IF S = {} THEN 0 ELSE f[Picked(S)] + it[S \ {Picked(S)}]
Sums(f, S, it) == it = [T \in SUBSET S |-> SumBody(f, it, T)]

\* The library's sum is a recursive function of the set.
LEMMA SumIs ==
  ASSUME NEW f, NEW S
  PROVE  SumFunctionOnSet(f, S) = (CHOOSE it : Sums(f, S, it))[S]
<1> QED BY SMT DEF SumFunctionOnSet, FoldFunctionOnSet, MapThenFoldSet, Sums, SumBody,
           Picked

\* A set without the element picked is smaller by one.
LEMMA RestOf ==
  ASSUME NEW S, IsFiniteSet(S), S # {}
  PROVE  /\ Picked(S) \in S /\ IsFiniteSet(S \ {Picked(S)})
         /\ Cardinality(S) \in Nat \ {0}
         /\ Cardinality(S \ {Picked(S)}) = Cardinality(S) - 1
<1>1. Picked(S) \in S
  BY DEF Picked
<1> QED BY <1>1, FS_RemoveElement, FS_CardinalityType, FS_EmptySet

\* That function exists: it is built up by the size of the sets.
LEMMA SumExists ==
  ASSUME NEW f, NEW S, IsFiniteSet(S)
  PROVE  \E it : Sums(f, S, it)
<1> DEFINE Upto(n, it) == \A T \in SUBSET S : Cardinality(T) < n =>
                              it[T] = SumBody(f, it, T)
           Wrong == {n \in Nat : ~\E it : Upto(n, it)}
<1>1. \A T \in SUBSET S : /\ IsFiniteSet(T) /\ Cardinality(T) \in Nat
                          /\ Cardinality(T) <= Cardinality(S)
  BY FS_Subset, FS_CardinalityType
<1>2. Cardinality(S) \in Nat
  BY FS_CardinalityType
<1>3. Wrong = {}
  <2> SUFFICES ASSUME Wrong # {} PROVE FALSE
    OBVIOUS
  <2>1. PICK n \in Wrong : n \in Nat /\ \A j \in Wrong : n <= j
    <3>1. Wrong \in SUBSET Nat
      OBVIOUS
    <3> HIDE DEF Wrong
    <3> QED BY <3>1, LeastOf
  <2>2. n # 0
    <3>1. Upto(0, <<>>)
      BY <1>1
    <3> QED BY <2>1, <3>1
  <2>3. PICK it : Upto(n - 1, it)
    <3>1. n - 1 \in Nat /\ n - 1 \notin Wrong
      BY <2>1, <2>2
    <3> QED BY <3>1
  <2> DEFINE g == [T \in SUBSET S |-> SumBody(f, it, T)]
  <2>4. Upto(n, g)
    <3> SUFFICES ASSUME NEW T \in SUBSET S, Cardinality(T) < n
                 PROVE  g[T] = SumBody(f, g, T)
      OBVIOUS
    <3>1. CASE T = {}
      BY <3>1 DEF SumBody
    <3>2. CASE T # {}
      <4> DEFINE R == T \ {Picked(T)}
      <4>1. R \in SUBSET S /\ Cardinality(R) < n - 1
        BY <1>1, <3>2, RestOf, <2>1
      <4>2. it[R] = SumBody(f, it, R)
        BY <2>3, <4>1
      <4>3. g[R] = it[R]
        BY <4>1, <4>2
      <4> HIDE DEF R
      <4>4. SumBody(f, g, T) = SumBody(f, it, T)
        BY <4>3 DEF SumBody, R
      <4> QED BY <4>4
    <3> QED BY <3>1, <3>2
  <2> QED BY <2>1, <2>4
<1>4. PICK it : Upto(Cardinality(S) + 1, it)
  <2>1. Cardinality(S) + 1 \in Nat /\ Cardinality(S) + 1 \notin Wrong
    BY <1>2, <1>3
  <2> QED BY <2>1
<1> DEFINE g == [T \in SUBSET S |-> it[T]]
<1>5. \A T \in SUBSET S : SumBody(f, g, T) = it[T]
  <2> SUFFICES ASSUME NEW T \in SUBSET S PROVE SumBody(f, g, T) = it[T]
    OBVIOUS
  <2>1. it[T] = SumBody(f, it, T)
    BY <1>1, <1>2, <1>4
  <2>2. T # {} => g[T \ {Picked(T)}] = it[T \ {Picked(T)}]
    OBVIOUS
  <2> HIDE DEF g
  <2> QED BY <2>1, <2>2 DEF SumBody
<1>6. g = [T \in SUBSET S |-> SumBody(f, g, T)]
  BY <1>5
<1> QED BY <1>6 DEF Sums

\* What it does at each set.
LEMMA SumStep ==
  ASSUME NEW f, NEW S, NEW it, Sums(f, S, it), NEW T \in SUBSET S
  PROVE  it[T] = IF T = {} THEN 0 ELSE f[Picked(T)] + it[T \ {Picked(T)}]
<1>1. [R \in SUBSET S |-> SumBody(f, it, R)][T] = SumBody(f, it, T)
  OBVIOUS
<1> QED BY <1>1 DEF Sums, SumBody

\* Two sums over the same terms agree.
LEMMA SumsAgree ==
  ASSUME NEW f, NEW g, NEW S, IsFiniteSet(S), NEW T \in SUBSET S,
         \A x \in T : f[x] = g[x],
         NEW a, NEW b, Sums(f, S, a), Sums(g, T, b)
  PROVE  a[T] = b[T]
<1> DEFINE Wrong == {n \in Nat : \E R \in SUBSET T : Cardinality(R) = n /\ a[R] # b[R]}
<1>1. \A R \in SUBSET T : IsFiniteSet(R) /\ Cardinality(R) \in Nat
  BY FS_Subset, FS_CardinalityType
<1>2. Wrong = {}
  <2> SUFFICES ASSUME Wrong # {} PROVE FALSE
    OBVIOUS
  <2>1. PICK n \in Wrong : n \in Nat /\ \A j \in Wrong : n <= j
    <3>1. Wrong \in SUBSET Nat
      OBVIOUS
    <3> HIDE DEF Wrong
    <3> QED BY <3>1, LeastOf
  <2>2. PICK R \in SUBSET T : Cardinality(R) = n /\ a[R] # b[R]
    BY <2>1
  <2> HIDE DEF Wrong
  <2>3. R \in SUBSET S
    OBVIOUS
  <2>4. CASE R = {}
    <3>1. a[R] = 0
      BY <2>3, <2>4, SumStep
    <3>2. b[R] = 0
      BY <2>4, SumStep
    <3> QED BY <2>2, <3>1, <3>2
  <2>5. CASE R # {}
    <3> DEFINE Q == R \ {Picked(R)}
    <3>1. /\ Picked(R) \in T /\ Q \in SUBSET T
          /\ Cardinality(Q) \in Nat /\ Cardinality(Q) < n
      BY <1>1, <2>2, <2>5, RestOf
    <3>2. a[Q] = b[Q]
      <4>1. Cardinality(Q) \notin Wrong
        BY <2>1, <3>1
      <4> QED BY <3>1, <4>1 DEF Wrong
    <3>3. a[R] = IF R = {} THEN 0 ELSE f[Picked(R)] + a[Q]
      BY ONLY <2>3, Sums(f, S, a), SumStep
    <3>4. b[R] = IF R = {} THEN 0 ELSE g[Picked(R)] + b[Q]
      BY ONLY R \in SUBSET T, Sums(g, T, b), SumStep
    <3>5. f[Picked(R)] = g[Picked(R)]
      BY <3>1
    <3> QED BY <2>2, <2>5, <3>2, <3>3, <3>4, <3>5
  <2> QED BY <2>4, <2>5
<1>3. Cardinality(T) \in Nat /\ Cardinality(T) \notin Wrong
  BY <1>1, <1>2
<1> QED BY <1>3

\* Sums of the same terms are equal.
LEMMA SumSame ==
  ASSUME NEW f, NEW g, NEW S, IsFiniteSet(S), \A x \in S : f[x] = g[x]
  PROVE  SumFunctionOnSet(f, S) = SumFunctionOnSet(g, S)
<1>1. PICK a : a = CHOOSE it : Sums(f, S, it)
  OBVIOUS
<1>2. PICK b : b = CHOOSE it : Sums(g, S, it)
  OBVIOUS
<1>3. Sums(f, S, a) /\ Sums(g, S, b)
  BY <1>1, <1>2, SumExists
<1>4. S \in SUBSET S
  OBVIOUS
<1>5. a[S] = b[S]
  BY <1>3, <1>4, SumsAgree
<1> QED BY <1>1, <1>2, <1>5, SumIs

\* The sum of no terms is 0.
LEMMA SumEmpty ==
  ASSUME NEW f
  PROVE  SumFunctionOnSet(f, {}) = 0
<1>1. PICK a : a = CHOOSE it : Sums(f, {}, it)
  OBVIOUS
<1>2. Sums(f, {}, a)
  BY <1>1, SumExists, FS_EmptySet
<1> QED BY <1>1, <1>2, SumIs, SumStep

\* A sum is the term picked and the sum of the others.
LEMMA SumTakesOff ==
  ASSUME NEW f, NEW S, IsFiniteSet(S), S # {}
  PROVE  SumFunctionOnSet(f, S)
             = f[Picked(S)] + SumFunctionOnSet(f, S \ {Picked(S)})
<1> DEFINE R == S \ {Picked(S)}
<1>0. IsFiniteSet(R)
  BY FS_Subset
<1>1. PICK a : a = CHOOSE it : Sums(f, S, it)
  OBVIOUS
<1>2. PICK b : b = CHOOSE it : Sums(f, R, it)
  OBVIOUS
<1>3. Sums(f, S, a) /\ Sums(f, R, b)
  BY <1>0, <1>1, <1>2, SumExists
<1>4. a[R] = b[R]
  <2>1. R \in SUBSET S
    OBVIOUS
  <2> HIDE DEF R
  <2>2. ASSUME NEW g, \A x \in R : f[x] = g[x], Sums(g, R, b) PROVE a[R] = b[R]
    BY <1>3, <2>1, <2>2, SumsAgree
  <2> QED BY <1>3, <2>2
<1>5. a[S] = f[Picked(S)] + a[R]
  BY <1>3, SumStep
<1> QED BY <1>1, <1>2, <1>4, <1>5, SumIs

\* A sum of natural numbers is one.
LEMMA SumNat ==
  ASSUME NEW f, NEW S, IsFiniteSet(S), \A x \in S : f[x] \in Nat
  PROVE  SumFunctionOnSet(f, S) \in Nat
<1> DEFINE Wrong == {n \in Nat : \E R \in SUBSET S : /\ Cardinality(R) = n
                                                   /\ SumFunctionOnSet(f, R) \notin Nat}
<1>1. \A R \in SUBSET S : IsFiniteSet(R) /\ Cardinality(R) \in Nat
  BY FS_Subset, FS_CardinalityType
<1>2. Wrong = {}
  <2> SUFFICES ASSUME Wrong # {} PROVE FALSE
    OBVIOUS
  <2>1. PICK n \in Wrong : n \in Nat /\ \A j \in Wrong : n <= j
    <3>1. Wrong \in SUBSET Nat
      OBVIOUS
    <3> HIDE DEF Wrong
    <3> QED BY <3>1, LeastOf
  <2>2. PICK R \in SUBSET S : Cardinality(R) = n /\ SumFunctionOnSet(f, R) \notin Nat
    BY <2>1
  <2>3. CASE R = {}
    BY <2>2, <2>3, SumEmpty
  <2>4. CASE R # {}
    <3> DEFINE Q == R \ {Picked(R)}
    <3>1. /\ Picked(R) \in S /\ Q \in SUBSET S
          /\ Cardinality(Q) \in Nat /\ Cardinality(Q) < n
      BY <1>1, <2>2, <2>4, RestOf
    <3>2. SumFunctionOnSet(f, Q) \in Nat
      <4>1. Cardinality(Q) \notin Wrong
        BY <2>1, <3>1
      <4> QED BY <3>1, <4>1
    <3>3. SumFunctionOnSet(f, R) = f[Picked(R)] + SumFunctionOnSet(f, Q)
      BY <1>1, <2>4, SumTakesOff
    <3>4. f[Picked(R)] \in Nat
      BY <3>1
    <3> HIDE DEF Q
    <3> QED BY <2>2, <3>2, <3>3, <3>4
  <2> QED BY <2>3, <2>4
<1> HIDE DEF Wrong
<1> QED BY <1>1, <1>2 DEF Wrong

\* Any term can be taken off first.
LEMMA SumOfRest ==
  ASSUME NEW f, NEW S, IsFiniteSet(S), \A x \in S : f[x] \in Nat, NEW x \in S
  PROVE  SumFunctionOnSet(f, S) = f[x] + SumFunctionOnSet(f, S \ {x})
<1> DEFINE Sum(R) == SumFunctionOnSet(f, R)
           Fits(R) == \A y \in R : Sum(R) = f[y] + Sum(R \ {y})
           Wrong == {n \in Nat : \E R \in SUBSET S : Cardinality(R) = n /\ ~Fits(R)}
<1>1. \A R \in SUBSET S : /\ IsFiniteSet(R) /\ Cardinality(R) \in Nat
                          /\ Sum(R) \in Nat
  BY FS_Subset, FS_CardinalityType, SumNat
<1>2. \A R \in SUBSET S : R # {} => Sum(R) = f[Picked(R)] + Sum(R \ {Picked(R)})
  BY <1>1, SumTakesOff
<1> HIDE DEF Sum
<1>3. Wrong = {}
  <2> SUFFICES ASSUME Wrong # {} PROVE FALSE
    OBVIOUS
  <2>1. PICK n \in Wrong : n \in Nat /\ \A j \in Wrong : n <= j
    <3>1. Wrong \in SUBSET Nat
      OBVIOUS
    <3> HIDE DEF Wrong
    <3> QED BY <3>1, LeastOf
  <2>2. PICK R \in SUBSET S : Cardinality(R) = n /\ ~Fits(R)
    BY <2>1
  <2>3. PICK y \in R : Sum(R) # f[y] + Sum(R \ {y})
    BY <2>2
  <2> DEFINE p == Picked(R)
  <2>4. p \in R /\ Sum(R) = f[p] + Sum(R \ {p})
    BY <1>1, <1>2, <2>3, RestOf
  <2> HIDE DEF p
  <2>5. y # p
    BY <2>3, <2>4
  <2>6. \A z \in R : Fits(R \ {z})
    <3> SUFFICES ASSUME NEW z \in R PROVE Fits(R \ {z})
      OBVIOUS
    <3>1. Cardinality(R \ {z}) \in Nat /\ Cardinality(R \ {z}) < n
      BY <1>1, <2>2, FS_RemoveElement
    <3> HIDE DEF Wrong
    <3>2. Cardinality(R \ {z}) \notin Wrong
      BY <2>1, <3>1
    <3> QED BY <3>1, <3>2 DEF Wrong
  <2>7. Sum(R \ {p}) = f[y] + Sum((R \ {p}) \ {y})
    BY <2>4, <2>5, <2>6
  <2>8. Sum(R \ {y}) = f[p] + Sum((R \ {y}) \ {p})
    BY <2>4, <2>5, <2>6
  <2>9. (R \ {y}) \ {p} = (R \ {p}) \ {y}
    OBVIOUS
  <2>10. /\ f[y] \in Nat /\ f[p] \in Nat /\ Sum((R \ {p}) \ {y}) \in Nat
    BY <1>1, <2>4
  <2> QED BY <2>3, <2>4, <2>7, <2>8, <2>9, <2>10
<1>4. Fits(S)
  BY <1>1, <1>3
<1> QED BY <1>4 DEF Sum

\* Terms that are 0 add nothing.
LEMMA SumOfZeros ==
  ASSUME NEW f, NEW S, IsFiniteSet(S), \A x \in S : f[x] = 0
  PROVE  SumFunctionOnSet(f, S) = 0
<1> DEFINE Wrong == {n \in Nat : \E R \in SUBSET S : /\ Cardinality(R) = n
                                                   /\ SumFunctionOnSet(f, R) # 0}
<1>1. \A R \in SUBSET S : IsFiniteSet(R) /\ Cardinality(R) \in Nat
  BY FS_Subset, FS_CardinalityType
<1>2. Wrong = {}
  <2> SUFFICES ASSUME Wrong # {} PROVE FALSE
    OBVIOUS
  <2>1. PICK n \in Wrong : n \in Nat /\ \A j \in Wrong : n <= j
    <3>1. Wrong \in SUBSET Nat
      OBVIOUS
    <3> HIDE DEF Wrong
    <3> QED BY <3>1, LeastOf
  <2>2. PICK R \in SUBSET S : Cardinality(R) = n /\ SumFunctionOnSet(f, R) # 0
    BY <2>1
  <2>3. CASE R = {}
    BY <2>2, <2>3, SumEmpty
  <2>4. CASE R # {}
    <3> DEFINE Q == R \ {Picked(R)}
    <3>1. /\ Picked(R) \in S /\ Q \in SUBSET S
          /\ Cardinality(Q) \in Nat /\ Cardinality(Q) < n
      BY <1>1, <2>2, <2>4, RestOf
    <3>2. SumFunctionOnSet(f, Q) = 0
      <4>1. Cardinality(Q) \notin Wrong
        BY <2>1, <3>1
      <4> QED BY <3>1, <4>1
    <3>3. SumFunctionOnSet(f, R) = f[Picked(R)] + SumFunctionOnSet(f, Q)
      BY <1>1, <2>4, SumTakesOff
    <3>4. f[Picked(R)] = 0
      BY <3>1
    <3> HIDE DEF Q
    <3> QED BY <2>2, <3>2, <3>3, <3>4
  <2> QED BY <2>3, <2>4
<1> HIDE DEF Wrong
<1> QED BY <1>1, <1>2 DEF Wrong
-----------------------------------------------------------------------------
(* The binary search of sample2's list *)

Counts == [Ops -> Nat]
Lines == [name : Tables, count : Counts]

\* The key's line, if it has one, is not outside of the part still searched.
Brackets(s) == /\ s.low <= s.high + 1
               /\ \A i \in 0 .. Len(list) - 1 : /\ i < s.low => Name(i) < s.key
                                                /\ i > s.high => s.key < Name(i)

LoopBody(it, s) == IF s.low > s.high \/ Hit(s) THEN s ELSE it[Halve(s)]
Loops(it) == it = [s \in Searches |-> LoopBody(it, s)]
Span(s) == s.high - s.low

\* The names in the list are numbers.
LEMMA NamesTyped ==
  ASSUME list \in Seq(Lines)
  PROVE  /\ Len(list) \in Nat
         /\ \A i \in 0 .. Len(list) - 1 : Name(i) \in Nat
<1>1. Tables \subseteq Nat
  BY MonitorAssumption
<1>2. Len(list) \in Nat
  OBVIOUS
<1>3. ASSUME NEW i \in 0 .. Len(list) - 1
      PROVE  Name(i) \in Nat
  <2>1. list[i + 1] \in Lines
    BY <1>2
  <2> QED BY <1>1, <2>1 DEF Lines, Name
<1> QED BY <1>2, <1>3

\* The middle is in the part searched, and either half is smaller.
LEMMA HalfSmaller ==
  ASSUME list \in Seq(Lines), NEW s \in Searches
  PROVE  /\ s.low \in Nat /\ s.high \in Int /\ Span(s) \in Int /\ Span(s) < Len(list)
         /\ s.low <= s.high => /\ Mid(s) \in 0 .. Len(list) - 1
                               /\ s.low <= Mid(s) /\ Mid(s) <= s.high
                               /\ Halve(s) \in Searches /\ Halve(s).key = s.key
                               /\ Span(Halve(s)) < Span(s)
                               /\ Halve(s) = IF s.key < Name(Mid(s))
                                             THEN [s EXCEPT !.high = Mid(s) - 1]
                                             ELSE [s EXCEPT !.low = Mid(s) + 1]
<1>1. /\ Len(list) \in Nat
      /\ s.key \in Tables /\ s.low \in 0 .. Len(list) /\ s.high \in -1 .. Len(list) - 1
  BY NamesTyped DEF Searches
<1>2. ASSUME s.low <= s.high
      PROVE  Mid(s) \in Int /\ s.low <= Mid(s) /\ Mid(s) <= s.high
  BY <1>1, <1>2 DEF Mid
<1>3. ASSUME s.low <= s.high
      PROVE  /\ Halve(s) \in Searches /\ Halve(s).key = s.key
             /\ Span(Halve(s)) < Span(s)
  <2> DEFINE m == Mid(s)
  <2>1. m \in Int /\ s.low <= m /\ m <= s.high
    BY <1>2, <1>3
  <2> HIDE DEF m
  <2>2. CASE s.key < Name(m)
    <3>1. Halve(s) = [s EXCEPT !.high = m - 1]
      BY <2>2 DEF Halve, m
    <3>2. s \in [key : Tables, low : 0 .. Len(list), high : -1 .. Len(list) - 1]
      BY DEF Searches
    <3>3. /\ Halve(s) \in [key : Tables, low : 0 .. Len(list), high : -1 .. Len(list) - 1]
          /\ Halve(s).key = s.key /\ Halve(s).low = s.low /\ Halve(s).high = m - 1
      BY <1>1, <2>1, <3>1, <3>2
    <3> QED BY <1>1, <2>1, <3>3 DEF Span, Searches
  <2>3. CASE ~(s.key < Name(m))
    <3>1. Halve(s) = [s EXCEPT !.low = m + 1]
      BY <2>3 DEF Halve, m
    <3>2. s \in [key : Tables, low : 0 .. Len(list), high : -1 .. Len(list) - 1]
      BY DEF Searches
    <3>3. /\ Halve(s) \in [key : Tables, low : 0 .. Len(list), high : -1 .. Len(list) - 1]
          /\ Halve(s).key = s.key /\ Halve(s).low = m + 1 /\ Halve(s).high = s.high
      BY <1>1, <2>1, <3>1, <3>2
    <3> QED BY <1>1, <2>1, <3>3 DEF Span, Searches
  <2> QED BY <2>2, <2>3
<1> QED BY <1>1, <1>2, <1>3 DEF Span, Halve

\* The search ends, so its function exists: it is built up by the size of the part
\* still searched.
LEMMA LoopExists ==
  ASSUME list \in Seq(Lines)
  PROVE  \E it : Loops(it)
<1> DEFINE Upto(n, it) == \A s \in Searches : Span(s) < n => it[s] = LoopBody(it, s)
           Wrong == {n \in Nat : ~\E it : Upto(n, it)}
<1>1. Len(list) \in Nat
  BY NamesTyped
<1>2. Wrong = {}
  <2> SUFFICES ASSUME Wrong # {} PROVE FALSE
    OBVIOUS
  <2>1. PICK n \in Wrong : n \in Nat /\ \A j \in Wrong : n <= j
    <3>1. Wrong \in SUBSET Nat
      OBVIOUS
    <3> HIDE DEF Wrong
    <3> QED BY <3>1, LeastOf
  <2>2. \E it : \A s \in Searches : Span(s) < n - 1 => it[s] = LoopBody(it, s)
    <3>1. CASE n = 0
      <4>1. Upto(0, [s \in Searches |-> s])
        <5>1. ASSUME NEW s \in Searches, Span(s) < 0
              PROVE  s = LoopBody([r \in Searches |-> r], s)
          <6>1. s.low \in Int /\ s.high \in Int /\ s.high - s.low < 0
            BY <1>1, <5>1 DEF Searches, Span
          <6>2. s.low > s.high
            BY <6>1
          <6> QED BY <6>2 DEF LoopBody
        <5> QED BY <5>1
      <4> QED BY <2>1, <3>1, <4>1
    <3>2. CASE n # 0
      <4>1. n - 1 \in Nat /\ n - 1 \notin Wrong
        BY <2>1, <3>2
      <4> QED BY <4>1
    <3> QED BY <3>1, <3>2
  <2>3. PICK it : \A s \in Searches : Span(s) < n - 1 => it[s] = LoopBody(it, s)
    BY <2>2
  <2> DEFINE g == [s \in Searches |-> LoopBody(it, s)]
  <2>4. Upto(n, g)
    <3> SUFFICES ASSUME NEW s \in Searches, Span(s) < n PROVE g[s] = LoopBody(g, s)
      OBVIOUS
    <3>1. CASE s.low > s.high \/ Hit(s)
      BY <3>1 DEF LoopBody
    <3>2. CASE ~(s.low > s.high \/ Hit(s))
      <4>1. /\ s.low <= s.high /\ Halve(s) \in Searches /\ Span(Halve(s)) < Span(s)
            /\ Span(s) \in Int /\ Span(Halve(s)) \in Int
        <5>1. s.low <= s.high
          BY <1>1, <3>2 DEF Searches
        <5>2. Halve(s) \in Searches
          BY <5>1, HalfSmaller
        <5> QED BY <5>1, <5>2, HalfSmaller
      <4>2. Span(Halve(s)) < n - 1
        BY <2>1, <4>1
      <4>3. it[Halve(s)] = LoopBody(it, Halve(s))
        BY <2>3, <4>1, <4>2
      <4>4. g[Halve(s)] = LoopBody(it, Halve(s))
        BY <4>1
      <4> QED BY <3>2, <4>3, <4>4 DEF LoopBody
    <3> QED BY <3>1, <3>2
  <2> QED BY <2>1, <2>4
<1>3. PICK it : Upto(Len(list), it)
  BY <1>1, <1>2
<1> DEFINE g == [s \in Searches |-> LoopBody(it, s)]
<1>4. \A s \in Searches : LoopBody(g, s) = LoopBody(it, s)
  <2> TAKE s \in Searches
  <2>1. CASE s.low > s.high \/ Hit(s)
    BY <2>1 DEF LoopBody
  <2>2. CASE ~(s.low > s.high \/ Hit(s))
    <3>1. Halve(s) \in Searches
      BY <2>2, HalfSmaller
    <3>2. it[Halve(s)] = LoopBody(it, Halve(s))
      BY <1>3, <3>1, HalfSmaller
    <3>3. g[Halve(s)] = LoopBody(it, Halve(s))
      BY <3>1
    <3> QED BY <2>2, <3>2, <3>3 DEF LoopBody
  <2> QED BY <2>1, <2>2
<1>5. g = [s \in Searches |-> LoopBody(g, s)]
  BY <1>4, Zenon
<1> HIDE DEF g
<1> QED BY <1>5 DEF Loops

\* What the loop does at each step.
LEMMA LoopIs ==
  ASSUME list \in Seq(Lines), NEW s \in Searches
  PROVE  loop[s] = LoopBody(loop, s)
<1>1. loop = CHOOSE it : Loops(it)
  BY DEF loop, Loops, LoopBody
<1>2. Loops(loop)
  BY <1>1, LoopExists
<1> QED BY <1>2 DEF Loops

\* In a sorted list the loop ends at the key's line, or where it belongs.
LEMMA LoopFinds ==
  ASSUME list \in Seq(Lines), LinesSorted, NEW s \in Searches, Brackets(s)
  PROVE  /\ loop[s] \in Searches /\ loop[s].key = s.key /\ Brackets(loop[s])
         /\ Hit(loop[s]) \/ loop[s].low = loop[s].high + 1
<1> DEFINE Ends(r, k) == /\ r \in Searches /\ r.key = k /\ Brackets(r)
                         /\ Hit(r) \/ r.low = r.high + 1
           Misses(r) == Brackets(r) /\ ~Ends(loop[r], r.key)
           Wrong == {n \in Nat : \E r \in Searches : Span(r) + 1 = n /\ Misses(r)}
<1>1. \A r \in Searches : /\ r.low \in Nat /\ r.high \in Int /\ Span(r) \in Int
                          /\ Brackets(r) => Span(r) + 1 \in Nat
  BY HalfSmaller DEF Span, Brackets
<1>2. Wrong = {}
  <2> SUFFICES ASSUME Wrong # {} PROVE FALSE
    OBVIOUS
  <2>1. PICK n \in Wrong : n \in Nat /\ \A j \in Wrong : n <= j
    <3>1. Wrong \in SUBSET Nat
      OBVIOUS
    <3> HIDE DEF Wrong
    <3> QED BY <3>1, LeastOf
  <2>2. PICK r \in Searches : Span(r) + 1 = n /\ Misses(r)
    BY <2>1
  <2>3. r.low \in Int /\ r.high \in Int
    BY <1>1
  <2>4. r.low <= r.high /\ ~Hit(r)
    <3> SUFFICES ASSUME r.low > r.high \/ Hit(r) PROVE FALSE
      BY <2>3
    <3>1. loop[r] = r
      BY LoopIs DEF LoopBody
    <3>2. ~Hit(r) => r.low = r.high + 1
      BY <2>3, <2>2 DEF Brackets
    <3> QED BY <2>2, <3>1, <3>2
  <2>5. loop[r] = loop[Halve(r)]
    <3>1. loop[r] = LoopBody(loop, r)
      BY LoopIs
    <3> QED BY <2>3, <2>4, <3>1 DEF LoopBody
  <2> DEFINE h == Halve(r)
             m == Mid(r)
  <2>6. /\ h \in Searches /\ h.key = r.key /\ Span(h) < Span(r)
        /\ m \in 0 .. Len(list) - 1 /\ r.low <= m /\ m <= r.high
        /\ h = IF r.key < Name(m) THEN [r EXCEPT !.high = m - 1]
                                  ELSE [r EXCEPT !.low = m + 1]
    BY <2>4, HalfSmaller
  <2>7. r.key # Name(m) /\ r.key \in Nat /\ Name(m) \in Nat
    <3>1. r.key \in Nat
      BY MonitorAssumption DEF Searches
    <3> QED BY <2>4, <2>6, <3>1, NamesTyped DEF Hit
  <2>8. \A i, j \in 0 .. Len(list) - 1 : i < j => Name(i) < Name(j)
    <3> TAKE i, j \in 0 .. Len(list) - 1
    <3>1. i + 1 \in DOMAIN list /\ j + 1 \in DOMAIN list
      BY NamesTyped
    <3> QED BY <3>1, NamesTyped DEF LinesSorted, Name
  <2> HIDE DEF h, m
  <2>9. Brackets(h)
    <3>1. CASE r.key < Name(m)
      <4>1. h.low = r.low /\ h.high = m - 1 /\ h.key = r.key
        <5>1. r \in [key : Tables, low : 0 .. Len(list), high : -1 .. Len(list) - 1]
          BY DEF Searches
        <5> QED BY <2>6, <3>1, <5>1
      <4>2. ASSUME NEW i \in 0 .. Len(list) - 1, i > m - 1
            PROVE  r.key < Name(i)
        <5>1. i = m \/ Name(m) < Name(i)
          BY <2>6, <2>8, <4>2, NamesTyped
        <5> QED BY <2>7, <3>1, <5>1, NamesTyped
      <4>3. \A i \in 0 .. Len(list) - 1 : i < h.low => Name(i) < h.key
        BY <2>2, <4>1 DEF Brackets
      <4>4. h.low <= h.high + 1
        BY <2>3, <2>6, <4>1, NamesTyped
      <4> QED BY <4>1, <4>2, <4>3, <4>4 DEF Brackets
    <3>2. CASE ~(r.key < Name(m))
      <4>1. h.low = m + 1 /\ h.high = r.high /\ h.key = r.key
        <5>1. r \in [key : Tables, low : 0 .. Len(list), high : -1 .. Len(list) - 1]
          BY DEF Searches
        <5> QED BY <2>6, <3>2, <5>1
      <4>2. ASSUME NEW i \in 0 .. Len(list) - 1, i < m + 1
            PROVE  Name(i) < r.key
        <5>1. i = m \/ Name(i) < Name(m)
          BY <2>6, <2>8, <4>2, NamesTyped
        <5> QED BY <2>7, <3>2, <5>1, NamesTyped
      <4>3. \A i \in 0 .. Len(list) - 1 : i > h.high => h.key < Name(i)
        BY <2>2, <4>1 DEF Brackets
      <4>4. h.low <= h.high + 1
        BY <1>1, <2>6, <4>1, SMTT(20)
      <4> QED BY <4>1, <4>2, <4>3, <4>4 DEF Brackets
    <3> QED BY <3>1, <3>2
  <2>10. ~Ends(loop[h], h.key)
    BY <2>2, <2>5, <2>6 DEF h
  <2> HIDE DEF Ends
  <2>11. Span(h) + 1 \in Wrong
    BY <1>1, <2>6, <2>9, <2>10
  <2>12. Span(h) + 1 < n
    BY <1>1, <2>2, <2>6, SMTT(20)
  <2> HIDE DEF Wrong
  <2> QED BY <1>1, <2>1, <2>6, <2>11, <2>12
<1>3. Span(s) + 1 \in Nat
  BY <1>1
<1> HIDE DEF Ends
<1>4. Ends(loop[s], s.key)
  BY <1>2, <1>3
<1> QED BY <1>4 DEF Ends

\* A table that is not in the list: the line it goes to is the right one.
LEMMA SearchFinds ==
  ASSUME list \in Seq(Lines), LinesSorted, NEW t \in Tables
  PROVE  LET s == Search(t) IN
         \/ /\ Hit(s) /\ Mid(s) \in 0 .. Len(list) - 1 /\ Name(Mid(s)) = t
         \/ /\ ~Hit(s) /\ RowFor(s.low, s.high, t) \in 0 .. Len(list)
            /\ \A i \in 0 .. Len(list) - 1 :
                  /\ i < RowFor(s.low, s.high, t) => Name(i) < t
                  /\ i >= RowFor(s.low, s.high, t) => t < Name(i)
<1> DEFINE s0 == [key |-> t, low |-> 0, high |-> Len(list) - 1]
           s == loop[s0]
<1>1. Len(list) \in Nat /\ t \in Nat /\ \A i \in 0 .. Len(list) - 1 : Name(i) \in Nat
  BY NamesTyped, MonitorAssumption
<1>2. s0 \in Searches /\ Brackets(s0) /\ s0.key = t
  BY <1>1 DEF Searches, Brackets
<1> HIDE DEF s0
<1>3. s \in Searches /\ s.key = t /\ Brackets(s) /\ (Hit(s) \/ s.low = s.high + 1)
  BY <1>2, LoopFinds
<1>4. s.low \in 0 .. Len(list) /\ s.high \in -1 .. Len(list) - 1
  BY <1>3 DEF Searches
<1>5. Search(t) = s
  BY DEF Search, s0
<1> HIDE DEF s
<1>6. CASE Hit(s)
  <2>1. s.low <= s.high /\ t = Name(Mid(s))
    BY <1>3, <1>6 DEF Hit
  <2>2. Mid(s) \in 0 .. Len(list) - 1
    BY <1>3, <2>1, HalfSmaller
  <2> QED BY <1>5, <1>6, <2>1, <2>2
<1>7. CASE ~Hit(s)
  <2>1. s.low = s.high + 1
    BY <1>3, <1>7
  <2>2. \A i \in 0 .. Len(list) - 1 : /\ i < s.low => Name(i) < t
                                      /\ i >= s.low => t < Name(i)
    BY <1>3, <1>4, <2>1 DEF Brackets
  <2>3. RowFor(s.low, s.high, t) = s.low
    <3>1. CASE s.low >= Len(list)
      BY <1>1, <1>4, <3>1 DEF RowFor
    <3>2. CASE s.low < Len(list) /\ s.high < 0
      BY <1>1, <1>4, <2>1, <3>2 DEF RowFor
    <3>3. CASE s.low < Len(list) /\ s.high >= 0
      <4>1. /\ s.low \in 0 .. Len(list) - 1 /\ s.high \in 0 .. Len(list) - 1
            /\ s.high < s.low
        BY <1>1, <1>4, <2>1, <3>3
      <4>2. Name(s.low) \in Nat /\ Name(s.high) \in Nat
        BY <1>1, <4>1
      <4>3. t < Name(s.low)
        BY <2>2, <4>1
      <4>4. Name(s.high) < t
        BY <2>2, <4>1
      <4>5. t <= Name(s.low) /\ t > Name(s.high) /\ ~(t > Name(s.low))
        BY <1>1, <4>2, <4>3, <4>4
      <4> QED BY <1>1, <1>4, <2>1, <3>3, <4>5 DEF RowFor
    <3> QED BY <1>1, <1>4, <3>1, <3>2, <3>3
  <2> QED BY <1>4, <1>5, <1>7, <2>2, <2>3
<1> QED BY <1>6, <1>7
-----------------------------------------------------------------------------
(* Hash tables of counts *)

Tallies == UNION {[T -> Counts] : T \in SUBSET Tables}

\* What the hash tables of counts are.
LEMMA TallyTypes ==
  /\ \A c \in Tallies : DOMAIN c \subseteq Tables /\ \A t \in DOMAIN c : c[t] \in Counts
  /\ \A T \in SUBSET Tables : [T -> Counts] \subseteq Tallies
  /\ NoCount \in Counts /\ Empty \in Tallies /\ DOMAIN Empty = {}
<1>1. \A c \in Tallies : DOMAIN c \subseteq Tables /\ \A t \in DOMAIN c : c[t] \in Counts
  BY DEF Tallies
<1>2. \A T \in SUBSET Tables : [T -> Counts] \subseteq Tallies
  BY DEF Tallies
<1>3. NoCount \in Counts
  BY DEF NoCount, Counts
<1>4. Empty \in [{} -> Counts] /\ DOMAIN Empty = {}
  BY DEF Empty
<1> QED BY <1>1, <1>2, <1>3, <1>4

\* What is read back after a count was put.
LEMMA PutCounts ==
  ASSUME NEW c \in Tallies, NEW t \in Tables, NEW n \in Counts
  PROVE  /\ CountFor(c, t) \in Counts
         /\ Put(c, t, n) \in Tallies
         /\ \A u : CountFor(Put(c, t, n), u) = IF u = t THEN n ELSE CountFor(c, u)
<1>1. DOMAIN c \in SUBSET Tables /\ \A u \in DOMAIN c : c[u] \in Counts
  BY TallyTypes
<1>2. CountFor(c, t) \in Counts
  BY <1>1, TallyTypes DEF CountFor
<1>3. Put(c, t, n) \in [DOMAIN c \cup {t} -> Counts]
  BY <1>1 DEF Put
<1>4. DOMAIN c \cup {t} \in SUBSET Tables
  BY <1>1
<1>5. \A u : CountFor(Put(c, t, n), u) = IF u = t THEN n ELSE CountFor(c, u)
  BY DEF Put, CountFor
<1> QED BY <1>2, <1>3, <1>4, <1>5, TallyTypes

\* Counts are added operation by operation.
LEMMA AddedCounts ==
  ASSUME NEW c \in Counts, NEW d \in Counts
  PROVE  /\ Added(c, d) \in Counts
         /\ \A op \in Ops : Added(c, d)[op] = c[op] + d[op]
<1> QED BY DEF Added, Counts

(* How often a row occurs *)

\* A row occurs as often as in the tail, and once more if it is the head.
LEMMA RowsInOne ==
  ASSUME NEW s \in Seq(Rows), NEW r
  PROVE  /\ RowsIn(s, r) \in Nat
         /\ s = <<>> => RowsIn(s, r) = 0
         /\ s # <<>> => RowsIn(s, r) = RowsIn(Tail(s), r) + (IF s[1] = r THEN 1 ELSE 0)
<1> DEFINE I == {i \in DOMAIN s : s[i] = r}
           J == {i \in DOMAIN Tail(s) : Tail(s)[i] = r}
<1>1. Len(s) \in Nat /\ DOMAIN s = 1 .. Len(s)
  OBVIOUS
<1>2. IsFiniteSet(I) /\ Cardinality(I) \in Nat
  <2>1. IsFiniteSet(1 .. Len(s))
    BY <1>1, FS_Interval
  <2>2. I \in SUBSET (1 .. Len(s))
    BY <1>1
  <2> HIDE DEF I
  <2>3. IsFiniteSet(I)
    BY <2>1, <2>2, FS_Subset
  <2> QED BY <2>3, FS_CardinalityType
<1>3. CASE s = <<>>
  <2>1. I = {}
    BY <1>3
  <2> QED BY <1>2, <1>3, <2>1, FS_EmptySet DEF RowsIn
<1>4. CASE s # <<>>
  <2>1. /\ Tail(s) \in Seq(Rows) /\ Len(Tail(s)) = Len(s) - 1 /\ Len(s) > 0
        /\ DOMAIN Tail(s) = 1 .. Len(s) - 1
        /\ \A i \in 1 .. Len(s) - 1 : Tail(s)[i] = s[i + 1]
    BY <1>1, <1>4
  <2> DEFINE f == [i \in J |-> i + 1]
  <2>2. f \in Bijection(J, I \ {1})
    <3>1. f \in [J -> I \ {1}]
      BY <1>1, <2>1
    <3>2. \A i, j \in J : f[i] = f[j] => i = j
      BY <1>1, <2>1
    <3>3. \A k \in I \ {1} : \E i \in J : f[i] = k
      <4> TAKE k \in I \ {1}
      <4>1. k - 1 \in J /\ f[k - 1] = k
        BY <1>1, <2>1
      <4> QED BY <4>1
    <3> QED BY <3>1, <3>2, <3>3 DEF IsInjective, Bijection, Injection, Surjection
  <2>3. IsFiniteSet(J) /\ IsFiniteSet(I \ {1})
    <3>1. IsFiniteSet(1 .. Len(s))
      BY <1>1, FS_Interval
    <3>2. J \in SUBSET (1 .. Len(s)) /\ I \ {1} \in SUBSET I
      BY <1>1, <2>1
    <3> HIDE DEF I, J
    <3> QED BY <1>2, <3>1, <3>2, FS_Subset
  <2> HIDE DEF f
  <2>4. Cardinality(J) = Cardinality(I \ {1})
    BY <2>2, <2>3, FS_Bijection DEF ExistsBijection
  <2>5. 1 \in I <=> s[1] = r
    BY <1>1, <2>1
  <2>6. Cardinality(I \ {1}) = IF 1 \in I THEN Cardinality(I) - 1 ELSE Cardinality(I)
    BY <1>2, FS_RemoveElement
  <2>7. RowsIn(s, r) = Cardinality(I) /\ RowsIn(Tail(s), r) = Cardinality(J)
    BY DEF RowsIn
  <2> HIDE DEF I, J
  <2>8. Cardinality(I) = Cardinality(J) + (IF s[1] = r THEN 1 ELSE 0)
    BY <1>2, <2>4, <2>5, <2>6
  <2> QED BY <1>2, <1>4, <2>7, <2>8
<1> QED BY <1>3, <1>4

\* No row occurs in the empty sequence.
LEMMA NoRows ==
  ASSUME NEW r
  PROVE  RowsIn(<<>>, r) = 0
<1>1. <<>> \in Seq(Rows)
  OBVIOUS
<1> QED BY <1>1, RowsInOne

(* Sums that change at one place *)

\* A sum changes by the change of its only term that is another.
LEMMA SumChanges ==
  ASSUME NEW f, NEW g, NEW S, IsFiniteSet(S), NEW x \in S,
         \A y \in S : f[y] \in Nat /\ g[y] \in Nat,
         \A y \in S \ {x} : g[y] = f[y]
  PROVE  SumFunctionOnSet(g, S) + f[x] = SumFunctionOnSet(f, S) + g[x]
<1>1. IsFiniteSet(S \ {x})
  BY FS_Subset
<1>2. SumFunctionOnSet(f, S) = f[x] + SumFunctionOnSet(f, S \ {x})
  BY SumOfRest
<1>3. SumFunctionOnSet(g, S) = g[x] + SumFunctionOnSet(g, S \ {x})
  BY SumOfRest
<1>4. SumFunctionOnSet(g, S \ {x}) = SumFunctionOnSet(f, S \ {x})
  BY <1>1, SumSame
<1>5. SumFunctionOnSet(f, S \ {x}) \in Nat
  BY <1>1, SumNat
<1> QED BY <1>2, <1>3, <1>4, <1>5

\* A sum over one more element grows by its term.
LEMMA SumGrows ==
  ASSUME NEW f, NEW g, NEW S, IsFiniteSet(S), NEW x, x \notin S, g[x] \in Nat,
         \A y \in S : f[y] \in Nat /\ g[y] = f[y]
  PROVE  SumFunctionOnSet(g, S \cup {x}) = SumFunctionOnSet(f, S) + g[x]
<1>1. IsFiniteSet(S \cup {x}) /\ (S \cup {x}) \ {x} = S
  BY FS_AddElement
<1>2. SumFunctionOnSet(g, S \cup {x}) = g[x] + SumFunctionOnSet(g, S)
  BY <1>1, SumOfRest
<1>3. SumFunctionOnSet(g, S) = SumFunctionOnSet(f, S) /\ SumFunctionOnSet(f, S) \in Nat
  BY SumSame, SumNat
<1> QED BY <1>2, <1>3
-----------------------------------------------------------------------------
(* The lines of sample2's list *)

InOrder(q) == \A i, j \in DOMAIN q : i < j => q[i].name < q[j].name
LineCount(q, r) ==
    [i \in DOMAIN q |-> IF q[i].name = r[1] THEN q[i].count[r[2]] ELSE 0]
LineSum(q, r) == SumFunctionOnSet(LineCount(q, r), DOMAIN q)

\* A row is shown in its table's line, if there is one.
LEMMA OneLineCounts ==
  ASSUME NEW q \in Seq(Lines), InOrder(q), NEW r \in Rows
  PROVE  /\ \A i \in DOMAIN q : q[i].name = r[1] => LineSum(q, r) = q[i].count[r[2]]
         /\ (\A i \in DOMAIN q : q[i].name # r[1]) => LineSum(q, r) = 0
         /\ LineSum(q, r) \in Nat
<1> DEFINE f == LineCount(q, r)
<1>1. Len(q) \in Nat /\ DOMAIN q = 1 .. Len(q) /\ IsFiniteSet(DOMAIN q)
  <2>1. Len(q) \in Nat /\ DOMAIN q = 1 .. Len(q)
    OBVIOUS
  <2> QED BY <2>1, FS_Interval
<1>2. \A i \in DOMAIN q : /\ q[i].name \in Nat /\ q[i].count \in Counts
                          /\ q[i].count[r[2]] \in Nat
  <2> TAKE i \in DOMAIN q
  <2>1. q[i] \in Lines
    BY <1>1
  <2>2. q[i].name \in Tables /\ q[i].count \in [Ops -> Nat] /\ r[2] \in Ops
    BY <2>1 DEF Lines, Counts, Rows
  <2> QED BY <2>2, MonitorAssumption DEF Counts
<1>3. \A i \in DOMAIN q : f[i] = IF q[i].name = r[1] THEN q[i].count[r[2]] ELSE 0
  BY DEF LineCount
<1>4. \A i \in DOMAIN q : f[i] \in Nat
  BY <1>2, <1>3
<1> HIDE DEF f
<1>5. SumFunctionOnSet(f, DOMAIN q) \in Nat
  BY <1>1, <1>4, SumNat
<1>6. ASSUME \A i \in DOMAIN q : q[i].name # r[1]
      PROVE  SumFunctionOnSet(f, DOMAIN q) = 0
  BY <1>1, <1>3, <1>6, SumOfZeros
<1>7. ASSUME NEW i \in DOMAIN q, q[i].name = r[1]
      PROVE  SumFunctionOnSet(f, DOMAIN q) = q[i].count[r[2]]
  <2>1. \A j \in DOMAIN q \ {i} : f[j] = 0
    <3> TAKE j \in DOMAIN q \ {i}
    <3>1. i \in Nat /\ j \in Nat /\ i # j
      BY <1>1
    <3>2. q[j].name # q[i].name
      BY <1>2, <3>1 DEF InOrder
    <3> QED BY <1>3, <1>7, <3>2
  <2>2. IsFiniteSet(DOMAIN q \ {i})
    BY <1>1, FS_Subset
  <2>3. SumFunctionOnSet(f, DOMAIN q \ {i}) = 0
    BY <2>1, <2>2, SumOfZeros
  <2>4. SumFunctionOnSet(f, DOMAIN q) = f[i] + SumFunctionOnSet(f, DOMAIN q \ {i})
    BY <1>1, <1>4, SumOfRest
  <2> QED BY <1>2, <1>3, <1>7, <2>3, <2>4
<1> QED BY <1>5, <1>6, <1>7 DEF LineSum, f

\* What InsertAt makes of a list.
LEMMA InsertedLine ==
  ASSUME NEW q \in Seq(Lines), NEW k \in 1 .. Len(q) + 1, NEW e \in Lines
  PROVE  /\ InsertAt(q, k, e) \in Seq(Lines)
         /\ DOMAIN InsertAt(q, k, e) = 1 .. Len(q) + 1
         /\ \A i \in 1 .. Len(q) + 1 :
               InsertAt(q, k, e)[i] = IF i < k THEN q[i] ELSE IF i = k THEN e ELSE q[i - 1]
<1> DEFINE p == InsertAt(q, k, e)
<1>1. Len(q) \in Nat
  OBVIOUS
<1>2. p = SubSeq(q, 1, k - 1) \o <<e>> \o SubSeq(q, k, Len(q))
  BY DEF InsertAt
<1>3. /\ SubSeq(q, 1, k - 1) \in Seq(Lines) /\ SubSeq(q, k, Len(q)) \in Seq(Lines)
      /\ Len(SubSeq(q, 1, k - 1)) = k - 1
      /\ Len(SubSeq(q, k, Len(q))) = Len(q) - k + 1
      /\ \A i \in 1 .. k - 1 : SubSeq(q, 1, k - 1)[i] = q[i]
      /\ \A i \in 1 .. Len(q) - k + 1 : SubSeq(q, k, Len(q))[i] = q[k + i - 1]
  BY <1>1
<1> DEFINE a == SubSeq(q, 1, k - 1)
           b == SubSeq(q, k, Len(q))
<1> HIDE DEF a, b
<1>4. p = (a \o <<e>>) \o b
  BY <1>2 DEF a, b
<1>5. /\ a \in Seq(Lines) /\ b \in Seq(Lines) /\ Len(a) = k - 1 /\ Len(b) = Len(q) - k + 1
      /\ \A i \in 1 .. k - 1 : a[i] = q[i]
      /\ \A i \in 1 .. Len(q) - k + 1 : b[i] = q[k + i - 1]
  BY <1>3 DEF a, b
<1> HIDE DEF p
<1>6. /\ a \o <<e>> \in Seq(Lines) /\ Len(a \o <<e>>) = k
      /\ \A i \in 1 .. k - 1 : (a \o <<e>>)[i] = q[i]
      /\ (a \o <<e>>)[k] = e
  BY <1>1, <1>5
<1>7. p \in Seq(Lines) /\ Len(p) = Len(q) + 1
  <2> DEFINE d == a \o <<e>>
  <2>1. p = d \o b /\ d \in Seq(Lines) /\ Len(d) = k
    BY <1>4, <1>6
  <2> HIDE DEF d
  <2>2. Len(d \o b) = Len(d) + Len(b) /\ d \o b \in Seq(Lines)
    <3>1. d \in Seq(Lines) /\ b \in Seq(Lines)
      BY <1>5, <2>1
    <3> QED BY ONLY <3>1
  <2> QED BY <1>1, <1>5, <2>1, <2>2
<1>8. \A i \in 1 .. Len(q) + 1 : p[i] = IF i < k THEN q[i]
                                        ELSE IF i = k THEN e ELSE q[i - 1]
  <2> TAKE i \in 1 .. Len(q) + 1
  <2>1. CASE i <= k
    <3>1. p[i] = (a \o <<e>>)[i]
      BY <1>1, <1>4, <1>5, <1>6, <2>1
    <3> QED BY <1>1, <1>6, <2>1, <3>1
  <2>2. CASE i > k
    <3>1. p[i] = b[i - k] /\ i - k \in 1 .. Len(q) - k + 1
      BY <1>1, <1>4, <1>5, <1>6, <2>2
    <3> QED BY <1>1, <1>5, <2>2, <3>1
  <2> QED BY <1>1, <2>1, <2>2
<1> QED BY <1>1, <1>7, <1>8 DEF p

\* A line whose count changed keeps its name.
LEMMA CountedLine ==
  ASSUME NEW q \in Seq(Lines), NEW k \in DOMAIN q, NEW c \in Counts
  PROVE  LET p == [q EXCEPT ![k].count = c] IN
         /\ p \in Seq(Lines) /\ DOMAIN p = DOMAIN q
         /\ \A i \in DOMAIN q : p[i].name = q[i].name
         /\ p[k].count = c /\ \A i \in DOMAIN q : i # k => p[i] = q[i]
<1> DEFINE p == [q EXCEPT ![k].count = c]
<1>1. Len(q) \in Nat /\ DOMAIN q = 1 .. Len(q) /\ \A i \in DOMAIN q : q[i] \in Lines
  OBVIOUS
<1>2. p = [i \in DOMAIN q |-> IF i = k THEN [q[k] EXCEPT !.count = c] ELSE q[i]]
  OBVIOUS
<1>3. q[k] \in [name : Tables, count : Counts]
  BY <1>1 DEF Lines
<1> DEFINE e == [q[k] EXCEPT !.count = c]
<1>4. e \in [name : Tables, count : Counts] /\ e.name = q[k].name /\ e.count = c
  BY <1>3
<1> HIDE DEF e
<1>5. e \in Lines
  BY <1>4 DEF Lines
<1>6. p = [i \in DOMAIN q |-> IF i = k THEN e ELSE q[i]]
  BY <1>2 DEF e
<1>7. p \in Seq(Lines)
  BY <1>1, <1>5, <1>6
<1> QED BY <1>1, <1>4, <1>6, <1>7

\* Counts added to a line, or to a new line in its place, are added to the rows of
\* its table and to no others.
CountsIn(q, k, c) == [q EXCEPT ![k].count = Added(@, c)]

LEMMA LineAdded ==
  ASSUME NEW q \in Seq(Lines), InOrder(q), NEW k \in DOMAIN q,
         NEW c \in Counts, NEW r \in Rows
  PROVE  /\ CountsIn(q, k, c) \in Seq(Lines) /\ InOrder(CountsIn(q, k, c))
         /\ LineSum(CountsIn(q, k, c), r)
               = LineSum(q, r) + (IF q[k].name = r[1] THEN c[r[2]] ELSE 0)
<1> DEFINE p == CountsIn(q, k, c)
           d == Added(q[k].count, c)
<1>1. q[k] \in Lines /\ q[k].count \in Counts /\ r[2] \in Ops /\ c[r[2]] \in Nat
  <2>1. q[k] \in Lines
    OBVIOUS
  <2> QED BY <2>1 DEF Lines, Rows, Counts
<1>2. d \in Counts /\ d[r[2]] = q[k].count[r[2]] + c[r[2]]
  BY <1>1, AddedCounts
<1>3. p = [q EXCEPT ![k].count = d]
  BY DEF CountsIn
<1> HIDE DEF d, p
<1>4. /\ p \in Seq(Lines) /\ DOMAIN p = DOMAIN q
      /\ \A i \in DOMAIN q : p[i].name = q[i].name
      /\ p[k].count = d /\ \A i \in DOMAIN q : i # k => p[i] = q[i]
  BY <1>2, <1>3, CountedLine
<1>5. InOrder(p)
  BY <1>4 DEF InOrder
<1>6. CASE \A i \in DOMAIN q : q[i].name # r[1]
  <2>1. LineSum(q, r) = 0 /\ LineSum(p, r) = 0
    BY <1>4, <1>5, <1>6, OneLineCounts
  <2> QED BY <1>4, <1>5, <1>6, <2>1 DEF p
<1>7. CASE \E i \in DOMAIN q : q[i].name = r[1]
  <2>1. PICK i \in DOMAIN q : q[i].name = r[1]
    BY <1>7
  <2>2. LineSum(q, r) = q[i].count[r[2]] /\ LineSum(p, r) = p[i].count[r[2]]
        /\ LineSum(q, r) \in Nat
    <3>1. i \in DOMAIN p /\ p[i].name = r[1]
      BY <1>4, <2>1
    <3>2. LineSum(p, r) = p[i].count[r[2]]
      BY <1>4, <1>5, <3>1, OneLineCounts
    <3>3. LineSum(q, r) = q[i].count[r[2]] /\ LineSum(q, r) \in Nat
      BY <2>1, OneLineCounts
    <3> QED BY <3>2, <3>3
  <2>3. q[k].name = r[1] <=> i = k
    <3>1. i \in Nat /\ k \in Nat /\ q[i].name \in Nat /\ q[k].name \in Nat
      <4>1. q[i] \in Lines /\ q[k] \in Lines /\ i \in Nat /\ k \in Nat
        OBVIOUS
      <4> QED BY <4>1, MonitorAssumption DEF Lines
    <3>2. i < k => q[i].name < q[k].name
      BY DEF InOrder
    <3>3. k < i => q[k].name < q[i].name
      BY DEF InOrder
    <3> QED BY <2>1, <3>1, <3>2, <3>3
  <2>4. CASE i = k
    BY <1>1, <1>2, <1>4, <1>5, <2>2, <2>3, <2>4 DEF p
  <2>5. CASE i # k
    <3>1. p[i] = q[i]
      BY <1>4, <2>5
    <3>2. LineSum(p, r) = LineSum(q, r)
      BY <2>2, <3>1
    <3> QED BY <1>4, <1>5, <2>2, <2>3, <2>5, <3>2 DEF p
  <2> QED BY <2>4, <2>5
<1> QED BY <1>6, <1>7 DEF p

\* A new line without counts, put where its name belongs, keeps the list in order
\* and shows no more rows.
LEMMA LinePlaced ==
  ASSUME NEW q \in Seq(Lines), InOrder(q), NEW k \in 1 .. Len(q) + 1, NEW t \in Tables,
         \A i \in DOMAIN q : /\ i < k => q[i].name < t
                             /\ i >= k => t < q[i].name,
         NEW p, p = InsertAt(q, k, [name |-> t, count |-> NoCount]), NEW r \in Rows
  PROVE  /\ p \in Seq(Lines) /\ InOrder(p) /\ k \in DOMAIN p /\ p[k].name = t
         /\ LineSum(p, r) = LineSum(q, r)
<1> DEFINE e == [name |-> t, count |-> NoCount]
<1>1. e \in Lines /\ e.name = t /\ e.count[r[2]] = 0
  BY TallyTypes DEF Lines, NoCount, Rows
<1> HIDE DEF e
<1>2. p = InsertAt(q, k, e)
  BY DEF e
<1>3. /\ p \in Seq(Lines) /\ DOMAIN p = 1 .. Len(q) + 1
      /\ \A i \in 1 .. Len(q) + 1 : p[i] = IF i < k THEN q[i]
                                           ELSE IF i = k THEN e ELSE q[i - 1]
  <2>1. /\ InsertAt(q, k, e) \in Seq(Lines)
        /\ DOMAIN InsertAt(q, k, e) = 1 .. Len(q) + 1
        /\ \A i \in 1 .. Len(q) + 1 :
              InsertAt(q, k, e)[i] = IF i < k THEN q[i] ELSE IF i = k THEN e ELSE q[i - 1]
    BY ONLY <1>1, InsertedLine, q \in Seq(Lines), k \in 1 .. Len(q) + 1
  <2> QED BY ONLY <1>2, <2>1
<1>4. Len(q) \in Nat /\ DOMAIN q = 1 .. Len(q) /\ k \in Nat /\ t \in Nat
  BY MonitorAssumption
<1>5. \A i \in DOMAIN q : q[i].name \in Nat
  <2> TAKE i \in DOMAIN q
  <2>1. q[i] \in Lines
    OBVIOUS
  <2> QED BY <2>1, MonitorAssumption DEF Lines
<1>6. \A i, j \in DOMAIN q : i < j => q[i].name < q[j].name
  BY DEF InOrder
<1>7. \A i, j \in 1 .. Len(q) + 1 : i < j => p[i].name < p[j].name
  <2> SUFFICES ASSUME NEW i \in 1 .. Len(q) + 1, NEW j \in 1 .. Len(q) + 1, i < j
               PROVE  p[i].name < p[j].name
    OBVIOUS
  <2>1. CASE j < k
    <3>1. i \in DOMAIN q /\ j \in DOMAIN q /\ p[i] = q[i] /\ p[j] = q[j]
      BY <1>3, <1>4, <2>1
    <3> QED BY <1>6, <3>1
  <2>2. CASE j = k
    <3>1. i \in DOMAIN q /\ p[i] = q[i] /\ p[j] = e
      BY <1>3, <1>4, <2>2
    <3> QED BY <1>1, <2>2, <3>1
  <2>3. CASE j > k /\ i < k
    <3>1. i \in DOMAIN q /\ j - 1 \in DOMAIN q /\ p[i] = q[i] /\ p[j] = q[j - 1]
          /\ i < j - 1
      BY <1>3, <1>4, <2>3
    <3> QED BY <1>6, <3>1
  <2>4. CASE j > k /\ i = k
    <3>1. j - 1 \in DOMAIN q /\ p[i] = e /\ p[j] = q[j - 1] /\ j - 1 >= k
      BY <1>3, <1>4, <2>4
    <3> QED BY <1>1, <3>1
  <2>5. CASE j > k /\ i > k
    <3>1. i - 1 \in DOMAIN q /\ j - 1 \in DOMAIN q /\ p[i] = q[i - 1] /\ p[j] = q[j - 1]
          /\ i - 1 < j - 1
      BY <1>3, <1>4, <2>5
    <3> QED BY <1>6, <3>1
  <2> QED BY <1>4, <2>1, <2>2, <2>3, <2>4, <2>5
<1>8. InOrder(p)
  BY <1>3, <1>7 DEF InOrder
<1>9. k \in DOMAIN p /\ p[k] = e
  BY <1>3, <1>4
<1>10. CASE r[1] = t
  <2>1. LineSum(p, r) = 0
    BY <1>1, <1>3, <1>8, <1>9, <1>10, OneLineCounts
  <2>2. \A i \in DOMAIN q : q[i].name # r[1]
    BY <1>4, <1>5, <1>10
  <2> QED BY <1>1, <1>3, <1>8, <1>9, <2>1, <2>2, OneLineCounts
<1>11. CASE r[1] # t /\ \E i \in DOMAIN q : q[i].name = r[1]
  <2>1. PICK i \in DOMAIN q : q[i].name = r[1]
    BY <1>11
  <2>2. \E j \in DOMAIN p : p[j] = q[i]
    <3>1. CASE i < k
      <4>1. i \in DOMAIN p /\ p[i] = q[i]
        BY <1>3, <1>4, <3>1
      <4> QED BY <4>1
    <3>2. CASE i >= k
      <4>1. i + 1 \in DOMAIN p /\ p[i + 1] = q[i]
        BY <1>3, <1>4, <3>2
      <4> QED BY <4>1
    <3> QED BY <1>4, <3>1, <3>2
  <2>3. PICK j \in DOMAIN p : p[j] = q[i]
    BY <2>2
  <2>4. LineSum(p, r) = p[j].count[r[2]]
    BY <1>3, <1>8, <2>1, <2>3, OneLineCounts
  <2>5. LineSum(q, r) = q[i].count[r[2]]
    BY <2>1, OneLineCounts
  <2> QED BY <1>1, <1>3, <1>8, <1>9, <2>3, <2>4, <2>5
<1>12. CASE r[1] # t /\ \A i \in DOMAIN q : q[i].name # r[1]
  <2>1. \A j \in DOMAIN p : p[j].name # r[1]
    <3> TAKE j \in DOMAIN p
    <3>1. p[j] = e \/ \E i \in DOMAIN q : p[j] = q[i]
      <4>1. CASE j < k
        <5>1. j \in DOMAIN q /\ p[j] = q[j]
          BY <1>3, <1>4, <4>1
        <5> QED BY <5>1
      <4>2. CASE j = k
        BY <1>9, <4>2
      <4>3. CASE j > k
        <5>1. j - 1 \in DOMAIN q /\ p[j] = q[j - 1]
          BY <1>3, <1>4, <4>3
        <5> QED BY <5>1
      <4> QED BY <1>3, <1>4, <4>1, <4>2, <4>3
    <3> QED BY <1>1, <1>12, <3>1
  <2>2. LineSum(p, r) = 0 /\ LineSum(q, r) = 0
    BY <1>3, <1>8, <1>12, <2>1, OneLineCounts
  <2> QED BY <1>1, <1>3, <1>8, <1>9, <2>2
<1> QED BY <1>10, <1>11, <1>12

\* AddToList keeps the order and adds the counts of its table.
LEMMA ListAdds ==
  ASSUME list \in Seq(Lines), LinesSorted, taken \in Tallies, NEW t \in DOMAIN taken,
         AddToList(t), NEW r \in Rows
  PROVE  /\ list' \in Seq(Lines) /\ InOrder(list')
         /\ LineSum(list', r)
                = LineSum(list, r) + (IF r[1] = t THEN taken[t][r[2]] ELSE 0)
<1> DEFINE s == Search(t)
           row == IF Hit(s) THEN Mid(s) ELSE RowFor(s.low, s.high, t)
           lines == IF Hit(s) THEN list
                    ELSE InsertAt(list, row + 1, [name |-> t, count |-> NoCount])
<1>1. t \in Tables /\ taken[t] \in Counts
  BY TallyTypes
<1>2. InOrder(list) /\ Len(list) \in Nat /\ DOMAIN list = 1 .. Len(list)
  BY DEF LinesSorted, InOrder
<1>3. list' = [lines EXCEPT ![row + 1].count = Added(@, taken[t])]
  BY DEF AddToList
<1>4. /\ lines \in Seq(Lines) /\ InOrder(lines) /\ row + 1 \in DOMAIN lines
      /\ lines[row + 1].name = t /\ LineSum(lines, r) = LineSum(list, r)
  <2>1. CASE Hit(s)
    <3>1. lines = list /\ row = Mid(s) /\ Mid(s) \in 0 .. Len(list) - 1 /\ Name(Mid(s)) = t
      BY <1>1, <2>1, SearchFinds
    <3>2. row + 1 \in DOMAIN list
      BY <1>2, <3>1
    <3> QED BY <1>2, <3>1, <3>2 DEF Name
  <2>2. CASE ~Hit(s)
    <3>1. row = RowFor(s.low, s.high, t)
      BY <2>2
    <3>2. /\ row \in 0 .. Len(list)
          /\ \A i \in 0 .. Len(list) - 1 : /\ i < row => Name(i) < t
                                           /\ i >= row => t < Name(i)
      BY <1>1, <2>2, <3>1, SearchFinds
    <3>3. lines = InsertAt(list, row + 1, [name |-> t, count |-> NoCount])
      BY <2>2
    <3> HIDE DEF row, lines
    <3>4. row + 1 \in 1 .. Len(list) + 1
      BY <1>2, <3>2
    <3>5. \A i \in DOMAIN list : /\ i < row + 1 => list[i].name < t
                                 /\ i >= row + 1 => t < list[i].name
      <4> TAKE i \in DOMAIN list
      <4>1. i - 1 \in 0 .. Len(list) - 1 /\ Name(i - 1) = list[i].name
        BY <1>2 DEF Name
      <4>2. (i < row + 1 => i - 1 < row) /\ (i >= row + 1 => i - 1 >= row)
        BY <1>2, <3>2
      <4> QED BY <3>2, <4>1, <4>2
    <3> QED BY <1>1, <1>2, <3>3, <3>4, <3>5, LinePlaced
  <2> QED BY <2>1, <2>2
<1> HIDE DEF row, lines
<1>5. PICK p : p = list'
  OBVIOUS
<1>6. p = CountsIn(lines, row + 1, taken[t])
  BY <1>3, <1>5 DEF CountsIn
<1>7. /\ p \in Seq(Lines) /\ InOrder(p)
      /\ LineSum(p, r) = LineSum(lines, r)
                            + (IF lines[row + 1].name = r[1] THEN taken[t][r[2]] ELSE 0)
  BY <1>1, <1>4, <1>6, LineAdded
<1>8. LineSum(p, r) = LineSum(list, r) + (IF r[1] = t THEN taken[t][r[2]] ELSE 0)
  BY <1>4, <1>7
<1> QED BY <1>5, <1>7, <1>8
-----------------------------------------------------------------------------
(* The inductive invariant of the monitor, in named parts *)

MonitorPlaces ==
    {"none", "connect", "test", "receive", "lock", "read", "write", "ended"}
Holding == {"read", "write"}
AtRows == {"lock", "read", "write"}

WindowTypes == /\ sample \in {"sample2", "sample3"} /\ edt \in {"idle", "add", "totals"}
               /\ updates \in Tallies /\ taken \in Tallies /\ table \in Tallies
               /\ list \in Seq(Lines)

ListenerTypes == /\ started \in 1 .. Listeners /\ place \in [Threads -> MonitorPlaces]
                 /\ rows \in [Threads -> Seq(Rows)] /\ old \in [Threads -> Nat]
                 /\ latch \in Threads \cup {None}
                 /\ queue \subseteq Messages /\ received \subseteq Messages

\* The latch is held by the thread that reads and writes counts.
Latched == \A l \in Threads : /\ place[l] \in Holding <=> latch = l
                              /\ l > started => place[l] = "none"

\* A listener has rows only while it counts them, and the count it has read is still
\* the one it is going to write over.
Reading == \A l \in Threads :
              /\ place[l] \notin AtRows => rows[l] = <<>>
              /\ place[l] = "write" =>
                    /\ rows[l] # <<>>
                    /\ old[l] = CountFor(updates, rows[l][1][1])[rows[l][1][2]]

\* No message is received twice, and nothing stays with the event thread.
Consumed == /\ queue \cap received = {}
            /\ edt # "add" => DOMAIN taken = {}

MonitorIInv == /\ WindowTypes /\ ListenerTypes /\ Latched /\ Reading /\ Consumed
               /\ LinesSorted /\ EveryRowCounted
-----------------------------------------------------------------------------
\* The number of listeners is a number, and None is none of them.
LEMMA ListenersCounted ==
  Listeners \in Nat \ {0} /\ IsFiniteSet(Threads) /\ None \notin Threads
<1>1. Listeners \in Nat \ {0}
  BY MonitorAssumption
<1>2. IsFiniteSet(1 .. Listeners)
  BY <1>1, FS_Interval
<1> QED BY <1>1, <1>2 DEF Threads, None

\* The parts of EveryRowCounted are sums of numbers.
ReceivedSum(M, r) == SumFunctionOnSet([m \in M |-> RowsIn(RowsOf[m], r)], M)
PendingSum(f, r) == SumFunctionOnSet([l \in Threads |-> RowsIn(f[l], r)], Threads)

\* The sums of EveryRowCounted, as sums over a set.
LEMMA SumsCounted ==
  ASSUME NEW r \in Rows
  PROVE  /\ Received(r) = ReceivedSum(received, r)
         /\ Pending(r) = PendingSum(rows, r)
         /\ Shown(r) = IF sample = "sample3" THEN CountFor(table, r[1])[r[2]]
                       ELSE LineSum(list, r)
<1> QED BY DEF Received, ReceivedSum, Pending, PendingSum, Shown, LineSum, LineCount,
           InLine, SumFunction

\* The parts of EveryRowCounted are natural numbers.
LEMMA SumsTyped ==
  ASSUME WindowTypes, ListenerTypes, LinesSorted, NEW r \in Rows
  PROVE  /\ r[1] \in Tables /\ r[2] \in Ops
         /\ ReceivedSum(received, r) \in Nat /\ PendingSum(rows, r) \in Nat
         /\ CountFor(updates, r[1])[r[2]] \in Nat /\ CountFor(taken, r[1])[r[2]] \in Nat
         /\ CountFor(table, r[1])[r[2]] \in Nat /\ LineSum(list, r) \in Nat
<1>1. r[1] \in Tables /\ r[2] \in Ops
  BY DEF Rows
<1>2. ReceivedSum(received, r) \in Nat
  <2>1. IsFiniteSet(received)
    BY MonitorAssumption, FS_Subset DEF ListenerTypes
  <2>2. \A m \in received : [k \in received |-> RowsIn(RowsOf[k], r)][m] \in Nat
    <3> TAKE m \in received
    <3>1. RowsOf[m] \in Seq(Rows)
      BY MonitorAssumption DEF ListenerTypes
    <3> QED BY <3>1, RowsInOne
  <2> QED BY <2>1, <2>2, SumNat DEF ReceivedSum
<1>3. PendingSum(rows, r) \in Nat
  <2>1. \A l \in Threads : [k \in Threads |-> RowsIn(rows[k], r)][l] \in Nat
    BY RowsInOne DEF ListenerTypes
  <2> QED BY <2>1, ListenersCounted, SumNat DEF PendingSum
<1>4. \A c \in Tallies : CountFor(c, r[1])[r[2]] \in Nat
  <2> TAKE c \in Tallies
  <2>1. CountFor(c, r[1]) \in Counts
    BY <1>1, TallyTypes DEF CountFor
  <2> QED BY <1>1, <2>1 DEF Counts
<1>5. LineSum(list, r) \in Nat
  <2>1. InOrder(list)
    BY DEF InOrder, LinesSorted
  <2> QED BY <2>1, OneLineCounts DEF WindowTypes
<1> QED BY <1>1, <1>2, <1>3, <1>4, <1>5 DEF WindowTypes

\* A step that changes none of the counts.
LEMMA CountsKept ==
  ASSUME EveryRowCounted, UNCHANGED <<received, rows, updates, taken, sample, table, list>>
  PROVE  EveryRowCounted'
<1> QED BY DEF EveryRowCounted, Received, Pending, Shown, InLine

\* A listener's rows change.
LEMMA PendingChanges ==
  ASSUME NEW f \in [Threads -> Seq(Rows)], NEW l \in Threads, NEW q \in Seq(Rows), NEW r
  PROVE  PendingSum([f EXCEPT ![l] = q], r) + RowsIn(f[l], r)
             = PendingSum(f, r) + RowsIn(q, r)
<1> DEFINE g == [f EXCEPT ![l] = q]
           a == [k \in Threads |-> RowsIn(f[k], r)]
           b == [k \in Threads |-> RowsIn(g[k], r)]
<1>1. g \in [Threads -> Seq(Rows)] /\ g[l] = q /\ \A k \in Threads \ {l} : g[k] = f[k]
  OBVIOUS
<1> HIDE DEF g
<1>2. a[l] = RowsIn(f[l], r) /\ b[l] = RowsIn(q, r)
  BY <1>1
<1>3. \A k \in Threads : a[k] \in Nat /\ b[k] \in Nat
  BY <1>1, RowsInOne
<1>4. \A k \in Threads \ {l} : b[k] = a[k]
  BY <1>1
<1>5. PendingSum(f, r) = SumFunctionOnSet(a, Threads)
      /\ PendingSum(g, r) = SumFunctionOnSet(b, Threads)
  BY DEF PendingSum
<1> HIDE DEF a, b
<1>6. SumFunctionOnSet(b, Threads) + a[l] = SumFunctionOnSet(a, Threads) + b[l]
  BY <1>3, <1>4, ListenersCounted, SumChanges
<1> QED BY <1>2, <1>5, <1>6 DEF g

\* A message is received.
LEMMA ReceivedGrows ==
  ASSUME NEW M \in SUBSET Messages, NEW m \in Messages \ M, NEW r
  PROVE  ReceivedSum(M \cup {m}, r) = ReceivedSum(M, r) + RowsIn(RowsOf[m], r)
<1> DEFINE a == [k \in M |-> RowsIn(RowsOf[k], r)]
           b == [k \in M \cup {m} |-> RowsIn(RowsOf[k], r)]
<1>1. IsFiniteSet(M)
  BY MonitorAssumption, FS_Subset
<1>2. \A k \in Messages : RowsIn(RowsOf[k], r) \in Nat
  BY MonitorAssumption, RowsInOne
<1>3. b[m] = RowsIn(RowsOf[m], r) /\ b[m] \in Nat
  BY <1>2
<1>4. \A k \in M : a[k] \in Nat /\ b[k] = a[k]
  BY <1>2
<1>5. ReceivedSum(M, r) = SumFunctionOnSet(a, M)
      /\ ReceivedSum(M \cup {m}, r) = SumFunctionOnSet(b, M \cup {m})
  BY DEF ReceivedSum
<1> HIDE DEF a, b
<1>6. SumFunctionOnSet(b, M \cup {m}) = SumFunctionOnSet(a, M) + b[m]
  BY <1>1, <1>3, <1>4, SumGrows
<1> QED BY <1>3, <1>5, <1>6
-----------------------------------------------------------------------------
\* The first state.
LEMMA MonitorStarts == MonitorInit => MonitorIInv
<1> SUFFICES ASSUME MonitorInit PROVE MonitorIInv
  OBVIOUS
<1>1. WindowTypes
  BY TallyTypes DEF MonitorInit, WindowTypes
<1>2. ListenerTypes
  BY ListenersCounted DEF MonitorInit, ListenerTypes, MonitorPlaces
<1>3. Latched
  BY ListenersCounted DEF MonitorInit, Latched, Holding, Threads
<1>4. Reading /\ Consumed
  BY TallyTypes DEF MonitorInit, Reading, Consumed, AtRows
<1>5. LinesSorted
  BY DEF MonitorInit, LinesSorted
<1>6. EveryRowCounted
  <2> SUFFICES ASSUME NEW r \in Rows
               PROVE  Received(r) = Pending(r) + CountFor(updates, r[1])[r[2]]
                                      + CountFor(taken, r[1])[r[2]] + Shown(r)
    BY DEF EveryRowCounted
  <2>1. ReceivedSum(received, r) = 0
    BY SumEmpty DEF MonitorInit, ReceivedSum
  <2>2. PendingSum(rows, r) = 0
    <3>1. \A l \in Threads : [k \in Threads |-> RowsIn(rows[k], r)][l] = 0
      <4> TAKE l \in Threads
      <4>1. rows[l] = <<>>
        BY DEF MonitorInit
      <4> QED BY <4>1, NoRows
    <3> QED BY <3>1, ListenersCounted, SumOfZeros DEF PendingSum
  <2>3. r[2] \in Ops
    BY DEF Rows
  <2>4. CountFor(Empty, r[1])[r[2]] = 0
    BY <2>3, TallyTypes DEF CountFor, NoCount
  <2>5. LineSum(list, r) = 0
    BY SumEmpty DEF MonitorInit, LineSum
  <2> QED BY <2>1, <2>2, <2>4, <2>5, SumsCounted DEF MonitorInit
<1> QED BY <1>1, <1>2, <1>3, <1>4, <1>5, <1>6 DEF MonitorIInv
-----------------------------------------------------------------------------
(* The steps that count no rows *)

\* A new listener holds no latch and has no rows.
LEMMA StartsKeep ==
  ASSUME MonitorIInv, StartListener
  PROVE  MonitorIInv'
<1> USE DEF MonitorIInv, StartListener
<1>1. started + 1 \in Threads /\ place[started + 1] = "none"
  BY ListenersCounted DEF ListenerTypes, Latched, Threads
<1>2. WindowTypes'
  BY DEF WindowTypes, windowVars
<1>3. ListenerTypes'
  BY <1>1, ListenersCounted DEF ListenerTypes, MonitorPlaces, Threads
<1>4. \A l \in Threads : place'[l] = IF l = started + 1 THEN "connect" ELSE place[l]
  BY <1>1 DEF ListenerTypes
<1>5. Latched'
  <2> SUFFICES ASSUME NEW l \in Threads
               PROVE  /\ place'[l] \in Holding <=> latch = l
                      /\ l > started + 1 => place'[l] = "none"
    BY DEF Latched
  <2>1. l \in Nat /\ started \in Nat
    BY <1>1, ListenersCounted DEF ListenerTypes, Threads
  <2> QED BY <1>1, <1>4, <2>1 DEF Latched, Holding
<1>6. Reading'
  BY <1>1, <1>4 DEF Reading, AtRows
<1>7. Consumed' /\ LinesSorted'
  BY DEF Consumed, LinesSorted, windowVars
<1>8. EveryRowCounted'
  BY CountsKept DEF windowVars
<1> QED BY <1>2, <1>3, <1>5, <1>6, <1>7, <1>8

\* A listener goes to a place where it has no rows and holds no latch.
LEMMA MovesKeep ==
  ASSUME MonitorIInv, NEW l \in Threads, Open(l) \/ Test(l)
  PROVE  MonitorIInv'
<1> USE DEF MonitorIInv
<1>1. PICK to \in {"test", "ended", "receive"} : Goto(l, to)
  BY DEF Open, Test
<1>2. place[l] \in {"connect", "test"}
      /\ UNCHANGED <<sample, started, rows, old, latch, queue, received, updates,
                     windowVars>>
  BY DEF Open, Test
<1>3. \A k \in Threads : place'[k] = IF k = l THEN to ELSE place[k]
  BY <1>1 DEF Goto, ListenerTypes
<1>4. WindowTypes' /\ Consumed' /\ LinesSorted'
  BY <1>2 DEF WindowTypes, Consumed, LinesSorted, windowVars
<1>5. ListenerTypes'
  BY <1>1, <1>2 DEF Goto, ListenerTypes, MonitorPlaces
<1>6. Latched'
  BY <1>2, <1>3 DEF Latched, Holding
<1>7. Reading'
  BY <1>2, <1>3 DEF Reading, AtRows
<1>8. EveryRowCounted'
  BY <1>2, CountsKept DEF windowVars
<1> QED BY <1>4, <1>5, <1>6, <1>7, <1>8

\* A listener takes the latch only when nobody has it.
LEMMA LocksKeep ==
  ASSUME MonitorIInv, NEW l \in Threads, Lock(l)
  PROVE  MonitorIInv'
<1> USE DEF MonitorIInv, Lock
<1>1. \A k \in Threads : place'[k] = IF k = l THEN "read" ELSE place[k]
  BY DEF Goto, ListenerTypes
<1>2. WindowTypes' /\ Consumed' /\ LinesSorted'
  BY DEF WindowTypes, Consumed, LinesSorted, windowVars
<1>3. ListenerTypes'
  BY DEF Goto, ListenerTypes, MonitorPlaces
<1>4. Latched'
  BY <1>1, ListenersCounted DEF Latched, Holding, LatchFree
<1>5. Reading'
  BY <1>1 DEF Reading, AtRows
<1>6. EveryRowCounted'
  BY CountsKept DEF windowVars
<1> QED BY <1>2, <1>3, <1>4, <1>5, <1>6

\* A listener gives the latch back when its rows are counted.
LEMMA UnlocksKeep ==
  ASSUME MonitorIInv, NEW l \in Threads, Unlock(l)
  PROVE  MonitorIInv'
<1> USE DEF MonitorIInv, Unlock
<1>1. \A k \in Threads : place'[k] = IF k = l THEN "receive" ELSE place[k]
  BY DEF Goto, ListenerTypes
<1>2. WindowTypes' /\ Consumed' /\ LinesSorted'
  BY DEF WindowTypes, Consumed, LinesSorted, windowVars
<1>3. ListenerTypes'
  BY DEF Goto, ListenerTypes, MonitorPlaces
<1>4. Latched'
  BY <1>1, ListenersCounted DEF Latched, Holding
<1>5. Reading'
  BY <1>1 DEF Reading, AtRows
<1>6. EveryRowCounted'
  BY CountsKept DEF windowVars
<1> QED BY <1>2, <1>3, <1>4, <1>5, <1>6

\* The totals of the databases are not part of the invariant.
LEMMA RecalcKeeps ==
  ASSUME MonitorIInv, Recalc
  PROVE  MonitorIInv'
<1> USE DEF MonitorIInv, Recalc
<1>1. WindowTypes' /\ Consumed' /\ LinesSorted'
  BY DEF WindowTypes, Consumed, LinesSorted, listenerVars
<1>2. ListenerTypes' /\ Latched' /\ Reading'
  BY DEF ListenerTypes, Latched, Reading, listenerVars
<1>3. EveryRowCounted'
  BY CountsKept DEF listenerVars
<1> QED BY <1>1, <1>2, <1>3

\* Nor are the stop flag and the queue manager.
LEMMA OthersKeep ==
  ASSUME MonitorIInv, StopListener \/ Break \/ UNCHANGED monitorVars
  PROVE  MonitorIInv'
<1> USE DEF MonitorIInv
<1>1. UNCHANGED <<sample, started, place, rows, old, latch, queue, received, updates, edt,
                  taken, list, table>>
  BY DEF StopListener, Break, monitorVars, listenerVars, windowVars
<1>2. WindowTypes' /\ Consumed' /\ LinesSorted'
  BY <1>1 DEF WindowTypes, Consumed, LinesSorted
<1>3. ListenerTypes' /\ Latched' /\ Reading'
  BY <1>1 DEF ListenerTypes, Latched, Reading
<1>4. EveryRowCounted'
  BY <1>1, CountsKept
<1> QED BY <1>2, <1>3, <1>4
-----------------------------------------------------------------------------
(* The steps that count rows *)

\* The rows still to be counted are a number.
LEMMA PendingTyped ==
  ASSUME NEW f \in [Threads -> Seq(Rows)], NEW r
  PROVE  PendingSum(f, r) \in Nat
<1>1. \A l \in Threads : [k \in Threads |-> RowsIn(f[k], r)][l] \in Nat
  BY RowsInOne
<1> QED BY <1>1, ListenersCounted, SumNat DEF PendingSum

\* EveryRowCounted, row by row, in the sums of the lemmas.
Counted(r) ==
    CountFor(updates, r[1])[r[2]] + CountFor(taken, r[1])[r[2]]
      + (IF sample = "sample3" THEN CountFor(table, r[1])[r[2]] ELSE LineSum(list, r))
Balanced(r) == ReceivedSum(received, r) = PendingSum(rows, r) + Counted(r)

\* EveryRowCounted and Balanced say the same.
LEMMA EveryRowBalanced ==
  ASSUME WindowTypes, ListenerTypes, LinesSorted
  PROVE  EveryRowCounted <=> \A r \in Rows : Balanced(r)
<1>1. \A r \in Rows : Balanced(r)
            <=> Received(r) = Pending(r) + CountFor(updates, r[1])[r[2]]
                                + CountFor(taken, r[1])[r[2]] + Shown(r)
  <2> TAKE r \in Rows
  <2>1. /\ Received(r) = ReceivedSum(received, r) /\ Pending(r) = PendingSum(rows, r)
        /\ Shown(r) = IF sample = "sample3" THEN CountFor(table, r[1])[r[2]]
                      ELSE LineSum(list, r)
    BY SumsCounted
  <2>2. /\ PendingSum(rows, r) \in Nat
        /\ CountFor(updates, r[1])[r[2]] \in Nat /\ CountFor(taken, r[1])[r[2]] \in Nat
        /\ Shown(r) \in Nat
    BY <2>1, SumsTyped
  <2> QED BY <2>1, <2>2 DEF Balanced, Counted
<1> QED BY <1>1 DEF EveryRowCounted

\* So do they after a step.
LEMMA BalancedAfter ==
  ASSUME WindowTypes', ListenerTypes', LinesSorted', \A r \in Rows : Balanced(r)'
  PROVE  EveryRowCounted'
<1>1. (WindowTypes /\ ListenerTypes /\ LinesSorted
         => (EveryRowCounted <=> \A r \in Rows : Balanced(r)))'
  BY EveryRowBalanced, PTL
<1> QED BY <1>1

\* A message is counted from the moment it is received.
LEMMA ReceivesKeep ==
  ASSUME MonitorIInv, NEW l \in Threads, Receive(l)
  PROVE  MonitorIInv'
<1> USE DEF MonitorIInv
<1>1. /\ place[l] = "receive" /\ rows[l] = <<>>
      /\ UNCHANGED <<sample, started, old, latch, updates, edt, taken, list, table>>
  BY DEF Receive, Reading, AtRows, windowVars
<1>2. WindowTypes' /\ LinesSorted'
  BY <1>1 DEF WindowTypes, LinesSorted
<1>3. CASE UNCHANGED <<rows, received>> /\ queue' \subseteq queue
           /\ (UNCHANGED place \/ Goto(l, "test"))
  <2>1. \A k \in Threads : place'[k] = place[k] \/ (k = l /\ place'[k] = "test")
    BY <1>3 DEF Goto, ListenerTypes
  <2>2. ListenerTypes'
    BY <1>1, <1>3 DEF Goto, ListenerTypes, MonitorPlaces
  <2>3. Latched'
    BY <1>1, <2>1 DEF Latched, Holding
  <2>4. Reading'
    BY <1>1, <1>3, <2>1 DEF Reading, AtRows
  <2>5. Consumed'
    BY <1>1, <1>3 DEF Consumed
  <2>6. EveryRowCounted'
    BY <1>1, <1>3, CountsKept
  <2> QED BY <1>2, <2>2, <2>3, <2>4, <2>5, <2>6
<1>4. CASE \E m \in queue : /\ queue' = queue \ {m} /\ received' = received \cup {m}
                            /\ rows' = [rows EXCEPT ![l] = RowsOf[m]]
                            /\ Goto(l, "lock")
  <2>1. PICK m \in queue : /\ queue' = queue \ {m} /\ received' = received \cup {m}
                           /\ rows' = [rows EXCEPT ![l] = RowsOf[m]]
                           /\ Goto(l, "lock")
    BY <1>4
  <2>2. /\ m \in Messages \ received /\ received \in SUBSET Messages
        /\ RowsOf[m] \in Seq(Rows)
    BY MonitorAssumption DEF ListenerTypes, Consumed
  <2>3. \A k \in Threads : /\ place'[k] = IF k = l THEN "lock" ELSE place[k]
                           /\ rows'[k] = IF k = l THEN RowsOf[m] ELSE rows[k]
    BY <2>1 DEF Goto, ListenerTypes
  <2>4. ListenerTypes'
    BY <1>1, <2>1, <2>2 DEF Goto, ListenerTypes, MonitorPlaces
  <2>5. Latched'
    BY <1>1, <2>3 DEF Latched, Holding
  <2>6. Reading'
    BY <1>1, <2>3 DEF Reading, AtRows
  <2>7. Consumed'
    BY <1>1, <2>1 DEF Consumed
  <2>8. EveryRowCounted'
    <3> SUFFICES ASSUME NEW r \in Rows PROVE Balanced(r)'
      BY <1>2, <2>4, BalancedAfter
    <3>1. RowsIn(RowsOf[m], r) \in Nat /\ RowsIn(rows[l], r) = 0
      BY <1>1, <2>2, NoRows, RowsInOne
    <3>2. ReceivedSum(received', r) = ReceivedSum(received, r) + RowsIn(RowsOf[m], r)
      BY <2>1, <2>2, ReceivedGrows
    <3>3. PendingSum(rows', r) + RowsIn(rows[l], r)
              = PendingSum(rows, r) + RowsIn(RowsOf[m], r)
      <4>1. rows \in [Threads -> Seq(Rows)]
        BY DEF ListenerTypes
      <4> QED BY <2>1, <2>2, <4>1, PendingChanges
    <3>4. Balanced(r)
      BY EveryRowBalanced
    <3>5. PendingSum(rows', r) \in Nat
      <4>1. rows' \in [Threads -> Seq(Rows)]
        BY <2>4 DEF ListenerTypes
      <4> QED BY <4>1, PendingTyped
    <3>6. /\ ReceivedSum(received, r) \in Nat /\ PendingSum(rows, r) \in Nat
          /\ Counted(r) \in Nat
      BY SumsTyped DEF Counted
    <3>7. ReceivedSum(received', r) = PendingSum(rows', r) + Counted(r)
      BY <3>1, <3>2, <3>3, <3>4, <3>5, <3>6 DEF Balanced
    <3> QED BY <1>1, <3>7 DEF Balanced, Counted
  <2> QED BY <1>2, <2>4, <2>5, <2>6, <2>7, <2>8
<1>5. (\E m \in queue : /\ queue' = queue \ {m}
                        /\ IF m \in Bad \/ RowsOf[m] = <<>>
                           THEN UNCHANGED <<place, rows, received>>
                           ELSE /\ received' = received \cup {m}
                                /\ rows' = [rows EXCEPT ![l] = RowsOf[m]]
                                /\ Goto(l, "lock"))
      \/ (Goto(l, "test") /\ UNCHANGED <<queue, rows, received>>)
  BY DEF Receive
<1> QED BY <1>3, <1>4, <1>5

\* What a listener is at.
LEMMA AtRow ==
  ASSUME ListenerTypes, WindowTypes, NEW l \in Threads, rows[l] # <<>>
  PROVE  /\ rows[l] \in Seq(Rows) /\ rows[l][1] \in Rows
         /\ rows[l][1][1] \in Tables /\ rows[l][1][2] \in Ops
         /\ CountFor(updates, rows[l][1][1]) \in Counts
<1>1. rows[l] \in Seq(Rows)
  BY DEF ListenerTypes
<1>2. rows[l][1] \in Rows
  BY <1>1
<1>3. rows[l][1][1] \in Tables /\ rows[l][1][2] \in Ops
  BY <1>2 DEF Rows
<1>4. \A c \in Tallies, t \in Tables : CountFor(c, t) \in Counts
  BY TallyTypes DEF CountFor
<1> QED BY <1>1, <1>2, <1>3, <1>4 DEF WindowTypes

\* Only the thread with the latch is at a count.
LEMMA OneReads ==
  ASSUME Latched, NEW l \in Threads, place[l] \in Holding,
         NEW k \in Threads, place[k] \in Holding
  PROVE  k = l
<1> QED BY DEF Latched

\* Reading a count changes none, and the count read stays the same until it is written.
LEMMA ReadsKeep ==
  ASSUME MonitorIInv, NEW l \in Threads, ReadCount(l)
  PROVE  MonitorIInv'
<1> USE DEF MonitorIInv
<1> DEFINE t == rows[l][1][1]
           op == rows[l][1][2]
           c == CountFor(updates, t)
<1>1. /\ place[l] = "read" /\ rows[l] # <<>>
      /\ updates' = Put(updates, t, c) /\ old' = [old EXCEPT ![l] = c[op]]
      /\ Goto(l, "write")
      /\ UNCHANGED <<sample, started, rows, latch, queue, received, edt, taken, list,
                     table>>
  BY DEF ReadCount, windowVars
<1>2. t \in Tables /\ op \in Ops /\ c \in Counts /\ c[op] \in Nat
  BY <1>1, AtRow DEF Counts
<1> HIDE DEF t, op, c
<1>3. /\ updates' \in Tallies
      /\ \A u : CountFor(updates', u) = IF u = t THEN c ELSE CountFor(updates, u)
  BY <1>1, <1>2, PutCounts DEF WindowTypes
<1>4. \A u : CountFor(updates', u) = CountFor(updates, u)
  BY <1>3 DEF c
<1>5. \A k \in Threads : /\ place'[k] = IF k = l THEN "write" ELSE place[k]
                         /\ old'[k] = IF k = l THEN c[op] ELSE old[k]
  BY <1>1 DEF Goto, ListenerTypes
<1>6. WindowTypes' /\ LinesSorted' /\ Consumed'
  BY <1>1, <1>3 DEF WindowTypes, LinesSorted, Consumed
<1>7. ListenerTypes'
  BY <1>1, <1>2 DEF Goto, ListenerTypes, MonitorPlaces
<1>8. Latched'
  BY <1>1, <1>5 DEF Latched, Holding
<1>9. Reading'
  <2> SUFFICES ASSUME NEW k \in Threads
               PROVE  /\ place'[k] \notin AtRows => rows[k] = <<>>
                      /\ place'[k] = "write" =>
                           /\ rows[k] # <<>>
                           /\ old'[k] = CountFor(updates', rows[k][1][1])[rows[k][1][2]]
    BY <1>1 DEF Reading
  <2>1. CASE k = l
    BY <1>1, <1>4, <1>5, <2>1 DEF AtRows, t, op, c
  <2>2. CASE k # l
    <3>1. place[k] # "write"
      BY <1>1, <2>2, OneReads DEF Holding
    <3> QED BY <1>5, <2>2, <3>1 DEF Reading, AtRows
  <2> QED BY <2>1, <2>2
<1>10. EveryRowCounted'
  <2> SUFFICES ASSUME NEW r \in Rows PROVE Balanced(r)'
    BY <1>6, <1>7, BalancedAfter
  <2>1. Balanced(r)
    BY EveryRowBalanced
  <2> QED BY <1>1, <1>4, <2>1 DEF Balanced, Counted
<1> QED BY <1>6, <1>7, <1>8, <1>9, <1>10

\* The row that is counted is taken off the listener's rows.
LEMMA WritesKeep ==
  ASSUME MonitorIInv, NEW l \in Threads, WriteCount(l)
  PROVE  MonitorIInv'
<1> USE DEF MonitorIInv
<1> DEFINE t == rows[l][1][1]
           op == rows[l][1][2]
           c == CountFor(updates, t)
           d == [c EXCEPT ![op] = old[l] + 1]
<1>1. /\ place[l] = "write" /\ rows[l] # <<>> /\ old[l] = c[op]
      /\ updates' = Put(updates, t, d) /\ rows' = [rows EXCEPT ![l] = Tail(rows[l])]
      /\ Goto(l, "read")
      /\ UNCHANGED <<sample, started, old, latch, queue, received, edt, taken, list, table>>
  BY DEF WriteCount, windowVars, Reading
<1>2. /\ t \in Tables /\ op \in Ops /\ c \in Counts
      /\ rows[l] \in Seq(Rows) /\ rows[l][1] \in Rows /\ Tail(rows[l]) \in Seq(Rows)
  BY <1>1, AtRow
<1>3. d \in Counts /\ \A o \in Ops : d[o] = IF o = op THEN c[o] + 1 ELSE c[o]
  BY <1>1, <1>2, SMTT(20) DEF Counts
<1>4. rows[l][1] = <<t, op>>
  BY <1>2 DEF Rows
<1> HIDE DEF t, op, d
<1>5. /\ updates' \in Tallies
      /\ \A u : CountFor(updates', u) = IF u = t THEN d ELSE CountFor(updates, u)
  BY <1>1, <1>2, <1>3, PutCounts DEF WindowTypes
<1>6. \A k \in Threads : /\ place'[k] = IF k = l THEN "read" ELSE place[k]
                         /\ rows'[k] = IF k = l THEN Tail(rows[l]) ELSE rows[k]
  BY <1>1 DEF Goto, ListenerTypes
<1>7. WindowTypes' /\ LinesSorted' /\ Consumed'
  BY <1>1, <1>5 DEF WindowTypes, LinesSorted, Consumed
<1>8. ListenerTypes'
  BY <1>1, <1>2 DEF Goto, ListenerTypes, MonitorPlaces
<1>9. Latched'
  BY <1>1, <1>6 DEF Latched, Holding
<1>10. Reading'
  <2> SUFFICES ASSUME NEW k \in Threads
               PROVE  /\ place'[k] \notin AtRows => rows'[k] = <<>>
                      /\ place'[k] # "write"
    BY DEF Reading
  <2>1. k # l => place[k] # "write"
    BY <1>1, OneReads DEF Holding
  <2> QED BY <1>6, <2>1 DEF Reading, AtRows
<1>11. EveryRowCounted'
  <2> SUFFICES ASSUME NEW r \in Rows PROVE Balanced(r)'
    BY <1>7, <1>8, BalancedAfter
  <2>1. /\ ReceivedSum(received, r) \in Nat /\ PendingSum(rows, r) \in Nat
        /\ CountFor(updates, r[1])[r[2]] \in Nat /\ Counted(r) \in Nat /\ r[2] \in Ops
        /\ PendingSum(rows', r) \in Nat
    <3>1. rows' \in [Threads -> Seq(Rows)]
      BY <1>8 DEF ListenerTypes
    <3>2. PendingSum(rows', r) \in Nat
      BY <3>1, PendingTyped
    <3> QED BY <3>2, SumsTyped DEF Counted
  <2> DEFINE one == IF rows[l][1] = r THEN 1 ELSE 0
  <2>2. PendingSum(rows', r) + one = PendingSum(rows, r)
    <3>1. rows \in [Threads -> Seq(Rows)]
      BY DEF ListenerTypes
    <3>2. PendingSum(rows', r) + RowsIn(rows[l], r)
              = PendingSum(rows, r) + RowsIn(Tail(rows[l]), r)
      BY <1>1, <1>2, <3>1, PendingChanges
    <3>3. RowsIn(rows[l], r) = RowsIn(Tail(rows[l]), r) + one
          /\ RowsIn(Tail(rows[l]), r) \in Nat
      BY <1>1, <1>2, RowsInOne
    <3> QED BY <2>1, <3>2, <3>3
  <2>3. rows[l][1] = r <=> t = r[1] /\ op = r[2]
    BY <1>4 DEF Rows
  <2>4. CountFor(updates', r[1])[r[2]] = CountFor(updates, r[1])[r[2]] + one
    <3>1. CASE t = r[1]
      BY <1>3, <1>5, <2>1, <2>3, <3>1 DEF c
    <3>2. CASE t # r[1]
      BY <1>5, <2>1, <2>3, <3>2
    <3> QED BY <3>1, <3>2
  <2>5. Counted(r)' = Counted(r) + one
    <3>1. /\ CountFor(taken, r[1])[r[2]] \in Nat /\ CountFor(table, r[1])[r[2]] \in Nat
          /\ LineSum(list, r) \in Nat
      BY SumsTyped
    <3> DEFINE rest == CountFor(taken, r[1])[r[2]]
                         + (IF sample = "sample3" THEN CountFor(table, r[1])[r[2]]
                            ELSE LineSum(list, r))
    <3>2. rest \in Nat /\ one \in Nat
      BY <3>1
    <3>3. Counted(r) = CountFor(updates, r[1])[r[2]] + rest
      BY <2>1, <3>1 DEF Counted
    <3> HIDE DEF one
    <3>4. Counted(r)' = (CountFor(updates, r[1])[r[2]] + one) + rest
      <4>1. CountFor(updates', r[1])[r[2]] \in Nat
        BY <2>1, <2>4, <3>2
      <4> QED BY <1>1, <2>4, <3>1, <4>1 DEF Counted
    <3> HIDE DEF rest
    <3> QED BY <2>1, <3>2, <3>3, <3>4
  <2>6. Balanced(r)
    BY EveryRowBalanced
  <2>7. ReceivedSum(received', r) = PendingSum(rows', r) + Counted(r)'
    BY <1>1, <2>1, <2>2, <2>5, <2>6 DEF Balanced
  <2> QED BY <2>7 DEF Balanced
<1> QED BY <1>7, <1>8, <1>9, <1>10, <1>11

\* No thread is at a count while the event thread takes them over.
LEMMA TakesKeep ==
  ASSUME MonitorIInv, GetUpdates
  PROVE  MonitorIInv'
<1> USE DEF MonitorIInv
<1>1. /\ edt = "idle" /\ latch = None /\ taken' = updates /\ updates' = Empty
      /\ edt' = IF updates = Empty THEN "idle" ELSE "add"
      /\ UNCHANGED <<sample, started, place, rows, old, latch, queue, received, list,
                     table>>
  BY DEF GetUpdates, LatchFree, listenerVars
<1>2. DOMAIN taken = {} /\ \A l \in Threads : place[l] \notin Holding
  BY <1>1, ListenersCounted DEF Consumed, Latched
<1>3. WindowTypes' /\ LinesSorted'
  BY <1>1, TallyTypes DEF WindowTypes, LinesSorted
<1>4. Consumed'
  BY <1>1, TallyTypes DEF Consumed
<1>5. ListenerTypes' /\ Latched'
  BY <1>1 DEF ListenerTypes, Latched
<1>6. Reading'
  BY <1>1, <1>2 DEF Reading, AtRows, Holding
<1>7. EveryRowCounted'
  <2> SUFFICES ASSUME NEW r \in Rows PROVE Balanced(r)'
    BY <1>3, <1>5, BalancedAfter
  <2>1. /\ r[2] \in Ops /\ CountFor(updates, r[1])[r[2]] \in Nat
        /\ CountFor(table, r[1])[r[2]] \in Nat /\ LineSum(list, r) \in Nat
    BY SumsTyped
  <2>2. CountFor(taken, r[1])[r[2]] = 0 /\ CountFor(Empty, r[1])[r[2]] = 0
    BY <1>2, <2>1, TallyTypes DEF CountFor, NoCount
  <2>3. Counted(r)' = Counted(r)
    BY <1>1, <2>1, <2>2 DEF Counted
  <2>4. Balanced(r)
    BY EveryRowBalanced
  <2> QED BY <1>1, <2>3, <2>4 DEF Balanced
<1> QED BY <1>3, <1>4, <1>5, <1>6, <1>7

\* The counts of a table move from those taken over to its line, or to its entry.
LEMMA AddsKeep ==
  ASSUME MonitorIInv, AddTable
  PROVE  MonitorIInv'
<1> USE DEF MonitorIInv
<1>1. PICK t \in DOMAIN taken :
          /\ \/ /\ sample = "sample2" /\ AddToList(t)
                /\ UNCHANGED <<table, updatedDbs>>
             \/ /\ sample = "sample3" /\ UNCHANGED list
                /\ table' = Put(table, t, Added(CountFor(table, t), taken[t]))
                /\ updatedDbs' = updatedDbs \cup {DbOf[t]}
          /\ taken' = [u \in DOMAIN taken \ {t} |-> taken[u]]
          /\ edt' = IF DOMAIN taken # {t} THEN "add"
                    ELSE IF sample = "sample3" THEN "totals" ELSE "idle"
  BY DEF AddTable
<1>2. UNCHANGED <<sample, started, place, rows, old, latch, queue, received, updates>>
  BY DEF AddTable, listenerVars
<1>3. t \in Tables /\ taken[t] \in Counts /\ CountFor(table, t) \in Counts
  BY TallyTypes DEF WindowTypes, CountFor
<1>4. taken' \in Tallies /\ DOMAIN taken' = DOMAIN taken \ {t}
  <2>1. DOMAIN taken \ {t} \in SUBSET Tables /\ \A u \in DOMAIN taken : taken[u] \in Counts
    BY TallyTypes DEF WindowTypes
  <2>2. taken' \in [DOMAIN taken \ {t} -> Counts]
    BY <1>1, <2>1
  <2> QED BY <2>1, <2>2, TallyTypes
<1>5. \A u : CountFor(taken', u) = IF u = t THEN NoCount ELSE CountFor(taken, u)
  BY <1>1 DEF CountFor
<1> DEFINE d == Added(CountFor(table, t), taken[t])
<1>6. d \in Counts /\ \A op \in Ops : d[op] = CountFor(table, t)[op] + taken[t][op]
  BY <1>3, AddedCounts
<1> HIDE DEF d
<1> DEFINE Gain(r) == IF r[1] = t THEN taken[t][r[2]] ELSE 0
           Here(r) == IF sample = "sample3" THEN CountFor(table, r[1])[r[2]]
                      ELSE LineSum(list, r)
           There(r) == IF sample = "sample3" THEN CountFor(table', r[1])[r[2]]
                       ELSE LineSum(list', r)
<1>7. /\ table' \in Tallies /\ list' \in Seq(Lines) /\ InOrder(list')
      /\ \A r \in Rows : There(r) = Here(r) + Gain(r)
  <2>1. CASE sample = "sample2"
    <3>1. AddToList(t) /\ table' = table
      BY <1>1, <2>1
    <3>2. \A r \in Rows : /\ list' \in Seq(Lines) /\ InOrder(list')
                          /\ LineSum(list', r) = LineSum(list, r) + Gain(r)
      BY <3>1, ListAdds DEF WindowTypes
    <3>3. <<t, "rowsInserted">> \in Rows
      BY <1>3 DEF Rows, Ops
    <3> QED BY <2>1, <3>1, <3>2, <3>3 DEF WindowTypes
  <2>2. CASE sample = "sample3"
    <3>1. list' = list /\ table' = Put(table, t, d)
      BY <1>1, <2>2 DEF d
    <3>2. /\ table' \in Tallies
          /\ \A u : CountFor(table', u) = IF u = t THEN d ELSE CountFor(table, u)
      BY <1>3, <1>6, <3>1, PutCounts DEF WindowTypes
    <3>3. InOrder(list')
      BY <3>1 DEF InOrder, LinesSorted
    <3>4. ASSUME NEW r \in Rows
          PROVE  CountFor(table', r[1])[r[2]] = CountFor(table, r[1])[r[2]] + Gain(r)
      <4>1. r[2] \in Ops /\ CountFor(table, r[1])[r[2]] \in Nat
        BY SumsTyped
      <4>2. CASE r[1] = t
        BY <1>6, <3>2, <4>1, <4>2
      <4>3. CASE r[1] # t
        BY <3>2, <4>1, <4>3
      <4> QED BY <4>2, <4>3
    <3> QED BY <2>2, <3>1, <3>2, <3>3, <3>4 DEF WindowTypes
  <2> QED BY <2>1, <2>2 DEF WindowTypes
<1> HIDE DEF Here, There
<1>8. WindowTypes' /\ LinesSorted' /\ Consumed'
  <2>1. WindowTypes'
    BY <1>1, <1>2, <1>4, <1>7 DEF WindowTypes
  <2>2. LinesSorted'
    BY <1>7 DEF InOrder, LinesSorted
  <2>3. Consumed'
    BY <1>1, <1>2, <1>4 DEF Consumed
  <2> QED BY <2>1, <2>2, <2>3
<1>9. ListenerTypes' /\ Latched' /\ Reading'
  BY <1>2 DEF ListenerTypes, Latched, Reading
<1>10. EveryRowCounted'
  <2> SUFFICES ASSUME NEW r \in Rows PROVE Balanced(r)'
    BY <1>8, <1>9, BalancedAfter
  <2>1. /\ r[2] \in Ops /\ Here(r) \in Nat /\ CountFor(updates, r[1])[r[2]] \in Nat
        /\ CountFor(taken, r[1])[r[2]] \in Nat
    BY SumsTyped DEF Here
  <2>2. Gain(r) \in Nat
    BY <1>3, <2>1 DEF Counts
  <2>3. CountFor(taken, r[1])[r[2]] = CountFor(taken', r[1])[r[2]] + Gain(r)
        /\ CountFor(taken', r[1])[r[2]] \in Nat
    <3>1. CASE r[1] = t
      <4>1. CountFor(taken, t) = taken[t]
        BY DEF CountFor
      <4>2. CountFor(taken', t)[r[2]] = 0
        BY <1>5, <2>1 DEF NoCount
      <4> QED BY <2>2, <3>1, <4>1, <4>2
    <3>2. CASE r[1] # t
      BY <1>5, <2>1, <3>2
    <3> QED BY <3>1, <3>2
  <2>4. There(r) = Here(r) + Gain(r)
    BY <1>7
  <2>5. Counted(r) = CountFor(updates, r[1])[r[2]] + CountFor(taken, r[1])[r[2]] + Here(r)
    BY DEF Counted, Here
  <2>6. Counted(r)' = CountFor(updates, r[1])[r[2]] + CountFor(taken', r[1])[r[2]]
                        + There(r)
    BY <1>2 DEF Counted, There
  <2> HIDE DEF Gain
  <2>7. Counted(r)' = Counted(r)
    BY <2>1, <2>2, <2>3, <2>4, <2>5, <2>6
  <2>8. Balanced(r)
    BY EveryRowBalanced
  <2> QED BY <1>2, <2>7, <2>8 DEF Balanced
<1> QED BY <1>8, <1>9, <1>10
-----------------------------------------------------------------------------
\* Every step keeps the invariant.
LEMMA MonitorInductive == MonitorIInv /\ [MonitorNext]_monitorVars => MonitorIInv'
<1> SUFFICES ASSUME MonitorIInv, [MonitorNext]_monitorVars PROVE MonitorIInv'
  OBVIOUS
<1>1. CASE StartListener
  BY <1>1, StartsKeep
<1>2. CASE StopListener \/ Break \/ UNCHANGED monitorVars
  BY <1>2, OthersKeep
<1>3. CASE EventThread
  BY <1>3, TakesKeep, AddsKeep, RecalcKeeps DEF EventThread
<1>4. ASSUME NEW l \in Threads, Listener(l) PROVE MonitorIInv'
  BY <1>4, MovesKeep, ReceivesKeep, LocksKeep, ReadsKeep, WritesKeep, UnlocksKeep
     DEF Listener
<1> QED BY <1>1, <1>2, <1>3, <1>4 DEF MonitorNext

\* So it holds for ever.
LEMMA MonitorSafe == MonitorSpec => []MonitorIInv
<1> QED BY MonitorStarts, MonitorInductive, PTL DEF MonitorSpec

\* sample2 keeps one line per table, in the order of the names, whatever the listeners
\* and the window do: the binary search finds each line, or the place it belongs to.
THEOREM LinesSortedHolds == MonitorSpec => []LinesSorted
<1>1. MonitorIInv => LinesSorted
  BY DEF MonitorIInv
<1> QED BY <1>1, MonitorSafe, PTL

\* Each row of each message received is still to be counted, among the updates, taken
\* over or shown, exactly once, for any number of listeners.
THEOREM EveryRowCountedHolds == MonitorSpec => []EveryRowCounted
<1>1. MonitorIInv => EveryRowCounted
  BY DEF MonitorIInv
<1> QED BY <1>1, MonitorSafe, PTL
-----------------------------------------------------------------------------
(* The totals of sample3 *)

\* The totals that are not up to date are those of the databases still to be
\* calculated, and between two updates there is none of these.
Stale == /\ \A t \in DOMAIN table :
               DbOf[t] \notin updatedDbs => CountFor(totals, DbOf[t]) = TotalOf(DbOf[t])
         /\ edt = "idle" \/ sample = "sample2" => updatedDbs = {}

\* A step that changes no counts.
LEMMA StaleKept ==
  ASSUME Stale, UNCHANGED <<table, totals, updatedDbs, sample>>,
         edt' = "idle" => edt = "idle" \/ sample = "sample2"
  PROVE  Stale'
<1>1. \A d : TotalOf(d)' = TotalOf(d)
  BY DEF TotalOf, TablesOf
<1> QED BY <1>1 DEF Stale, CountFor

\* What is added to a table changes the total of its database only.
LEMMA OtherTotalsKept ==
  ASSUME NEW t, NEW c, table' = Put(table, t, c), NEW d, d # DbOf[t]
  PROVE  TotalOf(d)' = TotalOf(d)
<1>1. DOMAIN table' = DOMAIN table \cup {t}
      /\ \A u \in DOMAIN table \ {t} : table'[u] = table[u]
  BY DEF Put
<1>2. TablesOf(d)' = TablesOf(d) /\ \A u \in TablesOf(d) : table'[u] = table[u]
  BY <1>1 DEF TablesOf
<1>3. \A op \in Ops :
         [u \in TablesOf(d)' |-> table'[u][op]] = [u \in TablesOf(d) |-> table[u][op]]
  BY <1>2
<1> QED BY <1>3 DEF TotalOf

\* An update adds its tables to the databases to be calculated.
LEMMA AddsStale == Stale /\ AddTable => Stale'
<1> SUFFICES ASSUME Stale, AddTable PROVE Stale'
  OBVIOUS
<1>1. CASE sample = "sample2"
  BY <1>1, StaleKept DEF AddTable
<1>2. CASE sample = "sample3"
  <2>1. PICK t \in DOMAIN taken :
           /\ table' = Put(table, t, Added(CountFor(table, t), taken[t]))
           /\ updatedDbs' = updatedDbs \cup {DbOf[t]}
           /\ edt' # "idle" /\ sample' = sample /\ totals' = totals
    BY <1>2 DEF AddTable
  <2>2. DOMAIN table' = DOMAIN table \cup {t}
    BY <2>1 DEF Put
  <2>3. \A u \in DOMAIN table' : DbOf[u] \notin updatedDbs' =>
           /\ u \in DOMAIN table /\ DbOf[u] \notin updatedDbs
           /\ TotalOf(DbOf[u])' = TotalOf(DbOf[u])
    BY <2>1, <2>2, OtherTotalsKept
  <2>4. \A u \in DOMAIN table' : DbOf[u] \notin updatedDbs' =>
           CountFor(totals', DbOf[u]) = TotalOf(DbOf[u])'
    BY <2>1, <2>3 DEF Stale
  <2> QED BY <1>2, <2>1, <2>4 DEF Stale, CountFor
<1> QED BY <1>1, <1>2 DEF AddTable

\* recalcDbTotalsFor brings the total of one database up to date.
LEMMA RecalcStale == Stale /\ Recalc => Stale'
<1> SUFFICES ASSUME Stale, Recalc PROVE Stale'
  OBVIOUS
<1>1. PICK d \in updatedDbs : /\ totals' = Put(totals, d, TotalOf(d))
                              /\ updatedDbs' = updatedDbs \ {d}
                              /\ edt' = IF updatedDbs = {d} THEN "idle" ELSE "totals"
  BY DEF Recalc
<1>2. table' = table /\ sample' = sample
  BY DEF Recalc
<1>3. \A e : TotalOf(e)' = TotalOf(e)
  BY <1>2 DEF TotalOf, TablesOf
<1>4. CountFor(totals', d) = TotalOf(d)
      /\ \A e : e # d => CountFor(totals', e) = CountFor(totals, e)
  BY <1>1 DEF Put, CountFor
<1>5. \A t \in DOMAIN table' :
         DbOf[t] \notin updatedDbs' => CountFor(totals', DbOf[t]) = TotalOf(DbOf[t])'
  BY <1>1, <1>2, <1>3, <1>4 DEF Stale
<1>6. edt' = "idle" \/ sample' = "sample2" => updatedDbs' = {}
  BY <1>1, <1>2 DEF Stale
<1> QED BY <1>5, <1>6 DEF Stale, CountFor

\* Between two updates the totals of sample3 are the sums of the tables' counts.
THEOREM TotalsCurrentHolds == MonitorSpec => []TotalsCurrent
<1>1. MonitorInit => Stale
  BY DEF MonitorInit, Stale, Empty
<1>2. Stale /\ [MonitorNext]_monitorVars => Stale'
  <2> SUFFICES ASSUME Stale, [MonitorNext]_monitorVars PROVE Stale'
    OBVIOUS
  <2>1. CASE AddTable
    BY <2>1, AddsStale
  <2>2. CASE Recalc
    BY <2>2, RecalcStale
  <2>3. CASE GetUpdates
    BY <2>3, StaleKept DEF GetUpdates
  <2>4. CASE StartListener \/ StopListener \/ Break
    BY <2>4, StaleKept DEF StartListener, StopListener, Break, windowVars
  <2>5. ASSUME NEW l \in Threads, Listener(l) PROVE Stale'
    BY <2>5, StaleKept DEF Listener, Open, Test, Receive, Lock, ReadCount, WriteCount,
                           Unlock, windowVars
  <2>6. CASE UNCHANGED monitorVars
    BY <2>6, StaleKept DEF monitorVars, windowVars
  <2> QED BY <2>1, <2>2, <2>3, <2>4, <2>5, <2>6 DEF MonitorNext, EventThread
<1>3. Stale => TotalsCurrent
  BY DEF Stale, TotalsCurrent, TotalsAgree
<1> QED BY <1>1, <1>2, <1>3, PTL DEF MonitorSpec
=============================================================================
