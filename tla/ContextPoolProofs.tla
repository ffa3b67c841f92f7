-------------------------- MODULE ContextPoolProofs --------------------------
(***************************************************************************)
(* The safety of ContextPool for every pool size, every number of items    *)
(* and every combination of call outcomes.                                 *)
(***************************************************************************)
EXTENDS ContextPool, FiniteSetTheorems, TLAPS

(* The inductive invariant, in named parts. *)

MainInside == {"test", "pick", "count", "unlock"}
WorkerInside == {"mark", "count", "signal", "unlock"}
Attached == {"connect", "execute", "endtxn", "reset", "detach"}
Granted == {"count", "unlock", "create"}     \* main has chosen ctx

\* TypeOK without the bounds that need the counter argument.
Types == /\ exited \in BOOLEAN
         /\ mainPc \in MainPcs
         /\ item \in 0 .. Loops
         /\ ctx \in 0 .. Contexts
         /\ owner \in Items \cup {Nobody, Main}
         /\ free \in [ContextIds -> BOOLEAN]
         /\ contexts_free \in Int
         /\ context \in [Items -> ContextIds \cup {NoContext}]
         /\ pc \in [Items -> WorkerPcs]
         /\ failed \in [Items -> BOOLEAN]
         /\ attached \in [ContextIds -> Items \cup {Nobody}]
         /\ connected \in [ContextIds -> BOOLEAN]
         /\ unit \in [ContextIds -> SUBSET Items]
         /\ fate \in [Items -> Fates]

\* cond_m is held exactly by the thread inside its critical section.
MutexHeld == /\ owner = Main <=> mainPc \in MainInside
             /\ \A w \in Items : owner = w <=> pc[w] \in WorkerInside

\* Only items already dispatched have threads, and those have a context.
Dispatched == /\ mainPc \notin {"lock", "done"} => item < Loops
              /\ \A w \in Items : pc[w] = "none" <=> w >= item
              /\ \A w \in Items : pc[w] # "none" => context[w] \in ContextIds

\* contexts_free, corrected for a half-done update, counts the free contexts.
CountedOff == IF mainPc = "count" THEN 1 ELSE 0
CountedOn == IF \E w \in Items : pc[w] = "count" THEN 1 ELSE 0
Counter == contexts_free = Cardinality(FreeContexts) + CountedOff - CountedOn

\* A thread counts the context it has just marked.
Marked == \A w \in Items : pc[w] = "count" => free[context[w]]

PickReady == mainPc = "pick" => contexts_free # 0

\* The context main is about to hand out is taken, and by nobody yet.
GrantedTaken == mainPc \in Granted =>
                   /\ ctx \in ContextIds /\ ~free[ctx]
                   /\ \A w \in Holding : context[w] # ctx
HoldersDistinct == \A v, w \in Holding : context[v] = context[w] => v = w
HoldersTaken == \A w \in Holding : ~free[context[w]]
AttachedHeld == \A c \in ContextIds : attached[c] # Nobody =>
                   /\ pc[attached[c]] \in Attached
                   /\ context[attached[c]] = c
Exclusive == GrantedTaken /\ HoldersDistinct /\ HoldersTaken /\ AttachedHeld

IInv == Types /\ MutexHeld /\ Dispatched /\ Exclusive /\ Counter /\ Marked
        /\ PickReady
-----------------------------------------------------------------------------
\* A set of contexts is finite and no larger than the pool.
LEMMA ContextsFinite ==
  ASSUME NEW S \in SUBSET ContextIds
  PROVE  IsFiniteSet(S) /\ Cardinality(S) \in 0 .. Contexts
<1>1. /\ IsFiniteSet(0 .. Contexts - 1)
      /\ Cardinality(0 .. Contexts - 1) = Contexts
  BY PoolAssumption, FS_Interval
<1>2. IsFiniteSet(S) /\ Cardinality(S) <= Contexts
  BY <1>1, FS_Subset DEF ContextIds
<1>3. Cardinality(S) \in Nat
  BY <1>2, FS_CardinalityType
<1> QED BY <1>2, <1>3, PoolAssumption

\* The search of dispatch ends on a free context: the mutex keeps every worker
\* out of its own update, so the counter dispatch tested is exact.
LEMMA PickFindsFree ==
  ASSUME IInv, MainPick
  PROVE  /\ ctx' \in ContextIds /\ free[ctx']
         /\ free' = [free EXCEPT ![ctx'] = FALSE]
<1> USE DEF IInv, MainPick
<1>1. owner = Main /\ \A w \in Items : pc[w] # "count"
  BY PoolAssumption DEF Types, MutexHeld, MainInside, WorkerInside, Main, Items
<1>2. contexts_free = Cardinality(FreeContexts) /\ contexts_free # 0
  <2>1. CountedOn = 0
    BY <1>1 DEF CountedOn
  <2>2. CountedOff = 0
    BY DEF CountedOff
  <2>3. Cardinality(FreeContexts) \in 0 .. Contexts
    BY ContextsFinite DEF FreeContexts
  <2> QED BY <2>1, <2>2, <2>3, PoolAssumption DEF Counter, PickReady
<1>3. PICK d \in ContextIds : free[d]
  BY <1>2, FS_EmptySet DEF FreeContexts
<1>4. PICK c \in 0 .. Contexts :
         IsFirstFree(c) /\ ctx' = c /\ free' = [free EXCEPT ![c] = FALSE]
  OBVIOUS
<1>5. c # Contexts
  BY <1>3, <1>4, PoolAssumption DEF IsFirstFree, ContextIds
<1> QED BY <1>4, <1>5, PoolAssumption DEF IsFirstFree, ContextIds

\* The types are kept.
LEMMA TypesStep ==
  ASSUME IInv, [Next]_vars
  PROVE  Types'
<1> USE PoolAssumption DEF IInv, Types, Dispatched, poolVars, mainVars, sqlVars, Exit, Go, CHECKERR, check_error, Items, ContextIds, MainPcs, WorkerPcs, Fates, Main, Nobody, NoContext
<1>1. CASE MainLock
  BY <1>1 DEF MainLock
<1>2. CASE MainTest
  BY <1>2 DEF MainTest
<1>3. CASE MainRelock
  BY <1>3 DEF MainRelock
<1>4. CASE MainPick
  BY <1>4 DEF MainPick
<1>5. CASE MainCount
  BY <1>5 DEF MainCount
<1>6. CASE MainUnlock
  BY <1>6 DEF MainUnlock
<1>7. CASE MainCreate
  <2>1. CASE Exit
    BY <2>1
  <2>2. CASE ~Exit
    <3>1. /\ context' = [context EXCEPT ![item] = ctx]
          /\ pc' = [pc EXCEPT ![item] = "attach"]
          /\ item' = item + 1 /\ mainPc' = "lock" /\ mainPc = "create"
          /\ UNCHANGED <<exited, ctx, owner, poolVars, failed, attached, sqlVars>>
      BY <1>7, <2>2 DEF MainCreate
    <3>2. ctx \in ContextIds /\ item < Loops
      BY <3>1 DEF Exclusive, GrantedTaken, Granted
    <3> QED BY <3>1, <3>2
  <2> QED BY <2>1, <2>2
<1>8. CASE MainDone
  BY <1>8 DEF MainDone
<1>9. CASE SpuriousWakeup
  BY <1>9 DEF SpuriousWakeup
<1>10. ASSUME NEW w \in Items, WorkerStep(w) PROVE Types'
  <2>1. CASE Attach(w)
    <3>1. CASE Exit
      BY <3>1
    <3>2. CASE ~Exit
      <4>1. /\ attached' = [attached EXCEPT ![context[w]] = w]
            /\ pc' = [pc EXCEPT ![w] = "connect"]
            /\ UNCHANGED <<exited, mainVars, owner, poolVars, context, failed,
                           sqlVars>>
        BY <2>1, <3>2 DEF Attach
      <4>2. attached' \in [ContextIds -> Items \cup {Nobody}]
        BY <4>1
      <4> QED BY <4>1, <4>2
    <3> QED BY <3>1, <3>2
  <2>2. CASE Connect(w)
    <3>1. connected' \in [ContextIds -> BOOLEAN]
      BY <2>2 DEF Connect
    <3>2. pc' \in [Items -> WorkerPcs] /\ failed' \in [Items -> BOOLEAN]
      BY <2>2 DEF Connect
    <3> QED BY <2>2, <3>1, <3>2 DEF Connect
  <2>3. CASE Execute(w)
    BY <2>3 DEF Execute
  <2>4. CASE EndTxn(w)
    <3>1. PICK code \in Answers["endtxn"] : \E end \in UnitEnds(code) :
            /\ unit' = IF end = "open" THEN unit
                       ELSE [unit EXCEPT ![context[w]] = {}]
            /\ fate' = IF end = "open" THEN fate
                       ELSE [v \in Items |-> IF v \in unit[context[w]] \cup {w}
                                             THEN end ELSE fate[v]]
            /\ CHECKERR(w, code)
      BY <2>4 DEF EndTxn
    <3>2. unit' \in [ContextIds -> SUBSET Items]
      BY <3>1
    <3>3. fate' \in [Items -> Fates]
      BY <3>1 DEF UnitEnds
    <3> QED BY <2>4, <3>1, <3>2, <3>3 DEF EndTxn
  <2>5. CASE Reset(w)
    BY <2>5 DEF Reset
  <2>6. CASE Detach(w)
    <3>1. CASE Exit
      BY <3>1
    <3>2. CASE ~Exit
      <4> HIDE DEF Exit
      <4> QED BY <3>2, <2>6 DEF Detach
    <3> QED BY <3>1, <3>2
  <2>7. CASE Lock(w)
    BY <2>7 DEF Lock
  <2>8. CASE MarkFree(w)
    BY <2>8 DEF MarkFree
  <2>9. CASE CountFree(w)
    BY <2>9 DEF CountFree
  <2>10. CASE Signal(w)
    BY <2>10 DEF Signal
  <2>11. CASE Unlock(w)
    BY <2>11 DEF Unlock
  <2> QED BY <1>10, <2>1, <2>2, <2>3, <2>4, <2>5, <2>6, <2>7, <2>8, <2>9, <2>10, <2>11 DEF WorkerStep
<1>11. CASE UNCHANGED vars
  BY <1>11 DEF vars
<1> QED
  BY <1>1, <1>2, <1>3, <1>4, <1>5, <1>6, <1>7, <1>8, <1>9, <1>10, <1>11 DEF Next, MainStep, Over

\* cond_m stays held by exactly the thread that is inside.
LEMMA MutexStep ==
  ASSUME IInv, [Next]_vars
  PROVE  MutexHeld'
<1> USE PoolAssumption DEF IInv, MutexHeld, MainInside, WorkerInside, Dispatched, Types, poolVars, mainVars, sqlVars, Exit, Go, Items, ContextIds, MainPcs, WorkerPcs, Main, Nobody, NoContext
<1>1. CASE MainLock
  BY <1>1 DEF MainLock
<1>2. CASE MainTest
  BY <1>2 DEF MainTest
<1>3. CASE MainRelock
  BY <1>3 DEF MainRelock
<1>4. CASE MainPick
  BY <1>4 DEF MainPick
<1>5. CASE MainCount
  BY <1>5 DEF MainCount
<1>6. CASE MainUnlock
  BY <1>6 DEF MainUnlock
<1>7. CASE MainCreate
  <2>1. CASE Exit
    BY <2>1
  <2>2. CASE ~Exit
    <3> HIDE DEF Exit
    <3> QED BY <2>2, <1>7 DEF MainCreate
  <2> QED BY <2>1, <2>2
<1>8. CASE MainDone
  BY <1>8 DEF MainDone
<1>9. CASE SpuriousWakeup
  BY <1>9 DEF SpuriousWakeup
<1>10. ASSUME NEW w \in Items, WorkerStep(w) PROVE MutexHeld'
  <2>1. CASE Attach(w)
    BY <2>1 DEF Attach
  <2>2. CASE Connect(w)
    BY <2>2 DEF Connect
  <2>3. CASE Execute(w)
    BY <2>3 DEF Execute
  <2>4. CASE EndTxn(w)
    BY <2>4 DEF EndTxn
  <2>5. CASE Reset(w)
    BY <2>5 DEF Reset
  <2>6. CASE Detach(w)
    BY <2>6 DEF Detach
  <2>7. CASE Lock(w)
    BY <2>7 DEF Lock
  <2>8. CASE MarkFree(w)
    BY <2>8 DEF MarkFree
  <2>9. CASE CountFree(w)
    BY <2>9 DEF CountFree
  <2>10. CASE Signal(w)
    BY <2>10 DEF Signal
  <2>11. CASE Unlock(w)
    BY <2>11 DEF Unlock
  <2> QED BY <1>10, <2>1, <2>2, <2>3, <2>4, <2>5, <2>6, <2>7, <2>8, <2>9, <2>10, <2>11 DEF WorkerStep
<1>11. CASE UNCHANGED vars
  BY <1>11 DEF vars
<1> QED
  BY <1>1, <1>2, <1>3, <1>4, <1>5, <1>6, <1>7, <1>8, <1>9, <1>10, <1>11 DEF Next, MainStep, Over

\* Threads are created in order, each with the context main chose.
LEMMA DispatchedStep ==
  ASSUME IInv, [Next]_vars
  PROVE  Dispatched'
<1> USE PoolAssumption DEF IInv, Dispatched, Exclusive, GrantedTaken, Granted, Types, poolVars, mainVars, sqlVars, Exit, Go, Items, ContextIds, MainPcs, WorkerPcs, Main, Nobody, NoContext
<1>1. CASE MainLock
  BY <1>1 DEF MainLock
<1>2. CASE MainTest
  BY <1>2 DEF MainTest
<1>3. CASE MainRelock
  BY <1>3 DEF MainRelock
<1>4. CASE MainPick
  BY <1>4 DEF MainPick
<1>5. CASE MainCount
  BY <1>5 DEF MainCount
<1>6. CASE MainUnlock
  BY <1>6 DEF MainUnlock
<1>7. CASE MainCreate
  BY <1>7, SMTT(20) DEF MainCreate
<1>8. CASE MainDone
  BY <1>8 DEF MainDone
<1>9. CASE SpuriousWakeup
  BY <1>9 DEF SpuriousWakeup
<1>10. ASSUME NEW w \in Items, WorkerStep(w) PROVE Dispatched'
  <2>1. CASE Attach(w)
    BY <2>1 DEF Attach
  <2>2. CASE Connect(w)
    BY <2>2 DEF Connect
  <2>3. CASE Execute(w)
    BY <2>3 DEF Execute
  <2>4. CASE EndTxn(w)
    BY <2>4 DEF EndTxn
  <2>5. CASE Reset(w)
    BY <2>5 DEF Reset
  <2>6. CASE Detach(w)
    BY <2>6 DEF Detach
  <2>7. CASE Lock(w)
    BY <2>7 DEF Lock
  <2>8. CASE MarkFree(w)
    BY <2>8 DEF MarkFree
  <2>9. CASE CountFree(w)
    BY <2>9 DEF CountFree
  <2>10. CASE Signal(w)
    BY <2>10 DEF Signal
  <2>11. CASE Unlock(w)
    BY <2>11 DEF Unlock
  <2> QED BY <1>10, <2>1, <2>2, <2>3, <2>4, <2>5, <2>6, <2>7, <2>8, <2>9, <2>10, <2>11 DEF WorkerStep
<1>11. CASE UNCHANGED vars
  BY <1>11 DEF vars
<1> QED
  BY <1>1, <1>2, <1>3, <1>4, <1>5, <1>6, <1>7, <1>8, <1>9, <1>10, <1>11 DEF Next, MainStep, Over

\* A context is handed to one thread at a time.
LEMMA ExclusiveStep ==
  ASSUME IInv, [Next]_vars
  PROVE  Exclusive'
<1> USE PoolAssumption DEF IInv, Dispatched, Holding, Exclusive, GrantedTaken, HoldersDistinct, HoldersTaken, AttachedHeld, Granted, Attached, Types, poolVars, mainVars, sqlVars, Exit, Go, Items, ContextIds, MainPcs, WorkerPcs, Main, Nobody, NoContext
<1>1. CASE MainLock
  BY <1>1 DEF MainLock
<1>2. CASE MainTest
  BY <1>2 DEF MainTest
<1>3. CASE MainRelock
  BY <1>3 DEF MainRelock
<1>4. CASE MainPick
  <2>1. ctx' \in ContextIds /\ free[ctx'] /\ free' = [free EXCEPT ![ctx'] = FALSE]
    BY <1>4, PickFindsFree
  <2>2. UNCHANGED <<context, pc, attached>> /\ mainPc' = "count"
    BY <1>4 DEF MainPick
  <2>3. GrantedTaken' /\ HoldersTaken'
    BY <2>1, <2>2
  <2> QED BY <2>2, <2>3
<1>5. CASE MainCount
  BY <1>5 DEF MainCount
<1>6. CASE MainUnlock
  BY <1>6 DEF MainUnlock
<1>7. CASE MainCreate
  <2>1. CASE Exit
    BY <2>1
  <2>2. CASE ~Exit
    <3>1. /\ context' = [context EXCEPT ![item] = ctx]
          /\ pc' = [pc EXCEPT ![item] = "attach"]
          /\ mainPc' = "lock" /\ mainPc = "create"
          /\ UNCHANGED <<ctx, free, attached>>
      BY <1>7, <2>2 DEF MainCreate
    <3>2. ctx \in ContextIds /\ ~free[ctx] /\ item \in Items /\ pc[item] = "none"
      BY <3>1
    <3>3. Holding' = Holding \cup {item} /\ item \notin Holding
      BY <3>1, <3>2
    <3>4. context'[item] = ctx /\ \A v \in Holding : context'[v] = context[v]
      BY <3>1, <3>2, <3>3
    <3>5. \A v \in Holding : context[v] # ctx
      BY <3>1
    <3> HIDE DEF Holding
    <3>6. GrantedTaken' /\ HoldersDistinct' /\ HoldersTaken'
      BY <3>1, <3>2, <3>3, <3>4, <3>5
    <3>7. AttachedHeld'
      BY <3>1, <3>2
    <3> QED BY <3>6, <3>7
  <2> QED BY <2>1, <2>2
<1>8. CASE MainDone
  BY <1>8 DEF MainDone
<1>9. CASE SpuriousWakeup
  BY <1>9 DEF SpuriousWakeup
<1>10. ASSUME NEW w \in Items, WorkerStep(w) PROVE Exclusive'
  <2>1. CASE Attach(w)
    <3>1. CASE Exit
      BY <3>1
    <3>2. CASE ~Exit
      <4>1. /\ attached' = [attached EXCEPT ![context[w]] = w]
            /\ pc' = [pc EXCEPT ![w] = "connect"] /\ pc[w] = "attach"
            /\ UNCHANGED <<mainPc, ctx, free, context>>
        BY <2>1, <3>2 DEF Attach
      <4>2. Holding' = Holding /\ w \in Holding
        BY <4>1
      <4>3. GrantedTaken' /\ HoldersDistinct' /\ HoldersTaken'
        BY <4>1, <4>2
      <4>4. AttachedHeld'
        BY <4>1
      <4> QED BY <4>3, <4>4
    <3> QED BY <3>1, <3>2
  <2>2. CASE Connect(w)
    <3>1. /\ pc[w] = "connect" /\ pc'[w] \in {"execute", "detach"}
          /\ \A v \in Items : v # w => pc'[v] = pc[v]
          /\ UNCHANGED <<mainPc, ctx, free, context, attached>>
      BY <2>2 DEF Connect
    <3>2. Holding' = Holding
      BY <3>1
    <3>3. GrantedTaken' /\ HoldersDistinct' /\ HoldersTaken'
      <4> HIDE DEF Holding
      <4> QED BY <3>1, <3>2
    <3>4. AttachedHeld'
      BY <3>1
    <3> QED BY <3>3, <3>4
  <2>3. CASE Execute(w)
    <3>1. /\ pc[w] = "execute" /\ pc'[w] \in {"endtxn"}
          /\ \A v \in Items : v # w => pc'[v] = pc[v]
          /\ UNCHANGED <<mainPc, ctx, free, context, attached>>
      BY <2>3 DEF Execute
    <3>2. Holding' = Holding
      BY <3>1
    <3>3. GrantedTaken' /\ HoldersDistinct' /\ HoldersTaken'
      <4> HIDE DEF Holding
      <4> QED BY <3>1, <3>2
    <3>4. AttachedHeld'
      BY <3>1
    <3> QED BY <3>3, <3>4
  <2>4. CASE EndTxn(w)
    BY <2>4 DEF EndTxn
  <2>5. CASE Reset(w)
    BY <2>5 DEF Reset
  <2>6. CASE Detach(w)
    <3>1. CASE Exit
      BY <3>1
    <3>2. CASE ~Exit
      <4>1. /\ attached' = [attached EXCEPT ![context[w]] = Nobody]
            /\ pc' = [pc EXCEPT ![w] = "lock"] /\ pc[w] = "detach"
            /\ UNCHANGED <<mainPc, ctx, free, context>>
        BY <2>6, <3>2 DEF Detach
      <4>2. Holding' = Holding /\ w \in Holding
        BY <4>1
      <4>3. GrantedTaken' /\ HoldersDistinct' /\ HoldersTaken'
        BY <4>1, <4>2
      <4>4. \A c \in ContextIds : attached[c] = w => c = context[w]
        BY SMTT(30)
      <4>5. AttachedHeld'
        BY <4>1, <4>4
      <4> QED BY <4>3, <4>5
    <3> QED BY <3>1, <3>2
  <2>7. CASE Lock(w)
    BY <2>7 DEF Lock
  <2>8. CASE MarkFree(w)
    <3>1. /\ pc[w] = "mark" /\ pc' = [pc EXCEPT ![w] = "count"]
          /\ free' = [free EXCEPT ![context[w]] = TRUE]
          /\ UNCHANGED <<mainPc, ctx, context, attached>>
      BY <2>8 DEF MarkFree
    <3>2. w \in Holding /\ Holding' = Holding \ {w} /\ context[w] \in ContextIds
      BY <3>1
    <3>3. \A v \in Holding' : context[v] # context[w]
      <4> HIDE DEF Holding
      <4> QED BY <3>2
    <3>4. mainPc \in Granted => context[w] # ctx
      BY <3>2
    <3>5. AttachedHeld'
      BY <3>1
    <3>6. /\ GrantedTaken' /\ HoldersDistinct'
      BY <3>1, <3>2, <3>3, <3>4
    <3>7. HoldersTaken'
      BY <3>1, <3>2, <3>3
    <3> QED BY <3>5, <3>6, <3>7
  <2>9. CASE CountFree(w)
    BY <2>9 DEF CountFree
  <2>10. CASE Signal(w)
    BY <2>10 DEF Signal
  <2>11. CASE Unlock(w)
    BY <2>11 DEF Unlock
  <2> QED BY <1>10, <2>1, <2>2, <2>3, <2>4, <2>5, <2>6, <2>7, <2>8, <2>9, <2>10, <2>11 DEF WorkerStep
<1>11. CASE UNCHANGED vars
  BY <1>11 DEF vars
<1> QED
  BY <1>1, <1>2, <1>3, <1>4, <1>5, <1>6, <1>7, <1>8, <1>9, <1>10, <1>11 DEF Next, MainStep, Over

\* dispatch searches only after it has seen the counter above zero.
LEMMA PickReadyStep ==
  ASSUME IInv, [Next]_vars
  PROVE  PickReady'
<1> USE PoolAssumption DEF IInv, PickReady, MutexHeld, MainInside, WorkerInside, Types, poolVars, mainVars, sqlVars, Exit, Go, Items, ContextIds, MainPcs, WorkerPcs, Main, Nobody, NoContext
<1>1. CASE MainLock
  BY <1>1 DEF MainLock
<1>2. CASE MainTest
  BY <1>2 DEF MainTest
<1>3. CASE MainRelock
  BY <1>3 DEF MainRelock
<1>4. CASE MainPick
  BY <1>4 DEF MainPick
<1>5. CASE MainCount
  BY <1>5 DEF MainCount
<1>6. CASE MainUnlock
  BY <1>6 DEF MainUnlock
<1>7. CASE MainCreate
  BY <1>7 DEF MainCreate
<1>8. CASE MainDone
  BY <1>8 DEF MainDone
<1>9. CASE SpuriousWakeup
  BY <1>9 DEF SpuriousWakeup
<1>10. ASSUME NEW w \in Items, WorkerStep(w) PROVE PickReady'
  <2>1. CASE Attach(w)
    BY <2>1 DEF Attach
  <2>2. CASE Connect(w)
    BY <2>2 DEF Connect
  <2>3. CASE Execute(w)
    BY <2>3 DEF Execute
  <2>4. CASE EndTxn(w)
    BY <2>4 DEF EndTxn
  <2>5. CASE Reset(w)
    BY <2>5 DEF Reset
  <2>6. CASE Detach(w)
    BY <2>6 DEF Detach
  <2>7. CASE Lock(w)
    BY <2>7 DEF Lock
  <2>8. CASE MarkFree(w)
    BY <2>8 DEF MarkFree
  <2>9. CASE CountFree(w)
    BY <2>9 DEF CountFree
  <2>10. CASE Signal(w)
    BY <2>10 DEF Signal
  <2>11. CASE Unlock(w)
    BY <2>11 DEF Unlock
  <2> QED BY <1>10, <2>1, <2>2, <2>3, <2>4, <2>5, <2>6, <2>7, <2>8, <2>9, <2>10, <2>11 DEF WorkerStep
<1>11. CASE UNCHANGED vars
  BY <1>11 DEF vars
<1> QED
  BY <1>1, <1>2, <1>3, <1>4, <1>5, <1>6, <1>7, <1>8, <1>9, <1>10, <1>11 DEF Next, MainStep, Over

\* The counter and the flags stay in step.
LEMMA CounterStep ==
  ASSUME IInv, [Next]_vars
  PROVE  Counter'
<1> USE PoolAssumption DEF IInv, Counter, Types, poolVars, mainVars, sqlVars, Exit, Go, Items, ContextIds, MainPcs, WorkerPcs, Main, Nobody, NoContext
<1>1. CASE MainLock
  <2>1. /\ contexts_free' = contexts_free /\ FreeContexts' = FreeContexts
        /\ CountedOff' = CountedOff /\ CountedOn' = CountedOn
    BY <1>1 DEF MainLock, FreeContexts, CountedOff, CountedOn
  <2> QED BY <2>1
<1>2. CASE MainTest
  <2>1. /\ contexts_free' = contexts_free /\ FreeContexts' = FreeContexts
        /\ CountedOff' = CountedOff /\ CountedOn' = CountedOn
    BY <1>2 DEF MainTest, FreeContexts, CountedOff, CountedOn
  <2> QED BY <2>1
<1>3. CASE MainRelock
  <2>1. /\ contexts_free' = contexts_free /\ FreeContexts' = FreeContexts
        /\ CountedOff' = CountedOff /\ CountedOn' = CountedOn
    BY <1>3 DEF MainRelock, FreeContexts, CountedOff, CountedOn
  <2> QED BY <2>1
<1>4. CASE MainPick
  <2>1. /\ ctx' \in FreeContexts /\ FreeContexts' = FreeContexts \ {ctx'}
    BY <1>4, PickFindsFree DEF FreeContexts
  <2>2. /\ IsFiniteSet(FreeContexts)
        /\ Cardinality(FreeContexts) \in 0 .. Contexts
    BY ContextsFinite DEF FreeContexts
  <2>3. Cardinality(FreeContexts') = Cardinality(FreeContexts) - 1
    BY <2>1, <2>2, FS_RemoveElement
  <2>4. /\ contexts_free' = contexts_free
        /\ CountedOff = 0 /\ CountedOff' = 1 /\ CountedOn' = CountedOn
    BY <1>4 DEF MainPick, CountedOff, CountedOn
  <2>5. CountedOn \in {0, 1}
    BY DEF CountedOn
  <2> QED BY <2>2, <2>3, <2>4, <2>5
<1>5. CASE MainCount
  <2>1. /\ contexts_free' = contexts_free - 1 /\ FreeContexts' = FreeContexts
        /\ CountedOff = 1 /\ CountedOff' = 0 /\ CountedOn' = CountedOn
    BY <1>5 DEF MainCount, CountedOff, CountedOn, FreeContexts
  <2>2. Cardinality(FreeContexts) \in 0 .. Contexts /\ CountedOn \in {0, 1}
    BY ContextsFinite DEF FreeContexts, CountedOn
  <2> QED BY <2>1, <2>2
<1>6. CASE MainUnlock
  <2>1. /\ contexts_free' = contexts_free /\ FreeContexts' = FreeContexts
        /\ CountedOff' = CountedOff /\ CountedOn' = CountedOn
    BY <1>6 DEF MainUnlock, FreeContexts, CountedOff, CountedOn
  <2> QED BY <2>1
<1>7. CASE MainCreate
  <2>1. CASE Exit
    BY <2>1 DEF FreeContexts, CountedOff, CountedOn
  <2>2. CASE ~Exit
    <3> HIDE DEF Exit
    <3>1. /\ contexts_free' = contexts_free /\ FreeContexts' = FreeContexts
          /\ CountedOff' = CountedOff /\ CountedOn' = CountedOn
      BY <1>7, <2>2 DEF MainCreate, Dispatched, FreeContexts, CountedOff, CountedOn
    <3> QED BY <3>1
  <2> QED BY <2>1, <2>2
<1>8. CASE MainDone
  <2>1. /\ contexts_free' = contexts_free /\ FreeContexts' = FreeContexts
        /\ CountedOff' = CountedOff /\ CountedOn' = CountedOn
    BY <1>8 DEF MainDone, FreeContexts, CountedOff, CountedOn
  <2> QED BY <2>1
<1>9. CASE SpuriousWakeup
  <2>1. /\ contexts_free' = contexts_free /\ FreeContexts' = FreeContexts
        /\ CountedOff' = CountedOff /\ CountedOn' = CountedOn
    BY <1>9 DEF SpuriousWakeup, FreeContexts, CountedOff, CountedOn
  <2> QED BY <2>1
<1>10. ASSUME NEW w \in Items, WorkerStep(w) PROVE Counter'
  <2>1. CASE Attach(w)
    <3>1. CASE Exit
      BY <3>1 DEF FreeContexts, CountedOff, CountedOn
    <3>2. CASE ~Exit
      <4> HIDE DEF Exit
      <4>1. /\ contexts_free' = contexts_free /\ FreeContexts' = FreeContexts
            /\ CountedOff' = CountedOff /\ CountedOn' = CountedOn
        BY <2>1, <3>2, SMTT(20) DEF Attach, Dispatched, FreeContexts, CountedOff, CountedOn
      <4> QED BY <4>1
    <3> QED BY <3>1, <3>2
  <2>2. CASE Connect(w)
    <3>1. /\ contexts_free' = contexts_free /\ FreeContexts' = FreeContexts
          /\ CountedOff' = CountedOff /\ CountedOn' = CountedOn
      BY <2>2 DEF Connect, FreeContexts, CountedOff, CountedOn
    <3> QED BY <3>1
  <2>3. CASE Execute(w)
    <3>1. /\ contexts_free' = contexts_free /\ FreeContexts' = FreeContexts
          /\ CountedOff' = CountedOff /\ CountedOn' = CountedOn
      BY <2>3 DEF Execute, FreeContexts, CountedOff, CountedOn
    <3> QED BY <3>1
  <2>4. CASE EndTxn(w)
    <3>1. /\ contexts_free' = contexts_free /\ FreeContexts' = FreeContexts
          /\ CountedOff' = CountedOff /\ CountedOn' = CountedOn
      BY <2>4 DEF EndTxn, FreeContexts, CountedOff, CountedOn
    <3> QED BY <3>1
  <2>5. CASE Reset(w)
    <3>1. /\ contexts_free' = contexts_free /\ FreeContexts' = FreeContexts
          /\ CountedOff' = CountedOff /\ CountedOn' = CountedOn
      BY <2>5 DEF Reset, FreeContexts, CountedOff, CountedOn
    <3> QED BY <3>1
  <2>6. CASE Detach(w)
    <3>1. CASE Exit
      BY <3>1 DEF FreeContexts, CountedOff, CountedOn
    <3>2. CASE ~Exit
      <4> HIDE DEF Exit
      <4>1. /\ contexts_free' = contexts_free /\ FreeContexts' = FreeContexts
            /\ CountedOff' = CountedOff /\ CountedOn' = CountedOn
        BY <2>6, <3>2 DEF Detach, Dispatched, FreeContexts, CountedOff, CountedOn
      <4> QED BY <4>1
    <3> QED BY <3>1, <3>2
  <2>7. CASE Lock(w)
    <3>1. /\ contexts_free' = contexts_free /\ FreeContexts' = FreeContexts
          /\ CountedOff' = CountedOff /\ CountedOn' = CountedOn
      BY <2>7 DEF Lock, FreeContexts, CountedOff, CountedOn
    <3> QED BY <3>1
  <2>8. CASE MarkFree(w)
    <3>1. context[w] \in ContextIds /\ ~free[context[w]]
      BY <2>8 DEF MarkFree, Dispatched, Exclusive, HoldersTaken, Holding
    <3>2. /\ FreeContexts' = FreeContexts \cup {context[w]}
          /\ context[w] \notin FreeContexts
      BY <2>8, <3>1 DEF MarkFree, FreeContexts
    <3>3. /\ IsFiniteSet(FreeContexts)
          /\ Cardinality(FreeContexts) \in 0 .. Contexts
      BY ContextsFinite DEF FreeContexts
    <3>4. Cardinality(FreeContexts') = Cardinality(FreeContexts) + 1
      BY <3>2, <3>3, FS_AddElement
    <3>5. \A v \in Items : pc[v] # "count"
      BY <2>8 DEF MarkFree, MutexHeld, WorkerInside
    <3>6. /\ contexts_free' = contexts_free
          /\ CountedOff' = CountedOff /\ CountedOn = 0 /\ CountedOn' = 1
      BY <2>8, <3>5 DEF MarkFree, CountedOff, CountedOn
    <3>7. CountedOff \in {0, 1}
      BY DEF CountedOff
    <3> QED BY <3>3, <3>4, <3>6, <3>7
  <2>9. CASE CountFree(w)
    <3>1. \A v \in Items : v # w => pc[v] # "count"
      BY <2>9 DEF CountFree, MutexHeld, WorkerInside
    <3>2. /\ contexts_free' = contexts_free + 1 /\ FreeContexts' = FreeContexts
          /\ CountedOff' = CountedOff /\ CountedOn = 1 /\ CountedOn' = 0
      BY <2>9, <3>1 DEF CountFree, CountedOff, CountedOn, FreeContexts
    <3>3. Cardinality(FreeContexts) \in 0 .. Contexts /\ CountedOff \in {0, 1}
      BY ContextsFinite DEF FreeContexts, CountedOff
    <3> QED BY <3>2, <3>3
  <2>10. CASE Signal(w)
    <3>1. /\ contexts_free' = contexts_free /\ FreeContexts' = FreeContexts
          /\ CountedOff' = CountedOff /\ CountedOn' = CountedOn
      BY <2>10 DEF Signal, FreeContexts, CountedOff, CountedOn
    <3> QED BY <3>1
  <2>11. CASE Unlock(w)
    <3>1. /\ contexts_free' = contexts_free /\ FreeContexts' = FreeContexts
          /\ CountedOff' = CountedOff /\ CountedOn' = CountedOn
      BY <2>11 DEF Unlock, FreeContexts, CountedOff, CountedOn
    <3> QED BY <3>1
  <2> QED BY <1>10, <2>1, <2>2, <2>3, <2>4, <2>5, <2>6, <2>7, <2>8, <2>9, <2>10, <2>11 DEF WorkerStep
<1>11. CASE UNCHANGED vars
  BY <1>11 DEF vars, FreeContexts, CountedOff, CountedOn
<1> QED
  BY <1>1, <1>2, <1>3, <1>4, <1>5, <1>6, <1>7, <1>8, <1>9, <1>10, <1>11 DEF Next, MainStep, Over

\* Nobody takes a marked context before it is counted.
LEMMA MarkedStep ==
  ASSUME IInv, [Next]_vars
  PROVE  Marked'
<1> USE PoolAssumption DEF IInv, Marked, MutexHeld, MainInside, WorkerInside, Dispatched, Types, poolVars, mainVars, sqlVars, Exit, Go, Items, ContextIds, MainPcs, WorkerPcs, Main, Nobody, NoContext
<1>1. CASE MainLock
  BY <1>1 DEF MainLock
<1>2. CASE MainTest
  BY <1>2 DEF MainTest
<1>3. CASE MainRelock
  BY <1>3 DEF MainRelock
<1>4. CASE MainPick
  <2>1. \A w \in Items : pc'[w] # "count"
    BY <1>4 DEF MainPick
  <2> QED BY <2>1
<1>5. CASE MainCount
  BY <1>5 DEF MainCount
<1>6. CASE MainUnlock
  BY <1>6 DEF MainUnlock
<1>7. CASE MainCreate
  <2>1. CASE Exit
    BY <2>1
  <2>2. CASE ~Exit
    <3>1. /\ \A w \in Items : pc'[w] = "count" => pc[w] = "count" /\ w # item
          /\ free' = free /\ context' = [context EXCEPT ![item] = ctx]
      BY <1>7, <2>2 DEF MainCreate
    <3> QED BY <3>1
  <2> QED BY <2>1, <2>2
<1>8. CASE MainDone
  BY <1>8 DEF MainDone
<1>9. CASE SpuriousWakeup
  BY <1>9 DEF SpuriousWakeup
<1>10. ASSUME NEW w \in Items, WorkerStep(w) PROVE Marked'
  <2>1. CASE Attach(w)
    BY <2>1 DEF Attach
  <2>2. CASE Connect(w)
    BY <2>2 DEF Connect
  <2>3. CASE Execute(w)
    BY <2>3 DEF Execute
  <2>4. CASE EndTxn(w)
    BY <2>4 DEF EndTxn
  <2>5. CASE Reset(w)
    BY <2>5 DEF Reset
  <2>6. CASE Detach(w)
    BY <2>6 DEF Detach
  <2>7. CASE Lock(w)
    BY <2>7 DEF Lock
  <2>8. CASE MarkFree(w)
    BY <2>8 DEF MarkFree
  <2>9. CASE CountFree(w)
    BY <2>9 DEF CountFree
  <2>10. CASE Signal(w)
    BY <2>10 DEF Signal
  <2>11. CASE Unlock(w)
    BY <2>11 DEF Unlock
  <2> QED BY <1>10, <2>1, <2>2, <2>3, <2>4, <2>5, <2>6, <2>7, <2>8, <2>9, <2>10, <2>11 DEF WorkerStep
<1>11. CASE UNCHANGED vars
  BY <1>11 DEF vars
<1> QED
  BY <1>1, <1>2, <1>3, <1>4, <1>5, <1>6, <1>7, <1>8, <1>9, <1>10, <1>11 DEF Next, MainStep, Over

LEMMA InitIInv == ASSUME Init PROVE IInv
<1> USE PoolAssumption DEF Init, Items, ContextIds, Main, Nobody, NoContext
<1>1. Types
  <2>0. exited \in BOOLEAN
    OBVIOUS
  <2>1. /\ mainPc \in MainPcs
        /\ item \in 0 .. Loops /\ ctx \in 0 .. Contexts
        /\ owner \in Items \cup {Nobody, Main} /\ contexts_free \in Int
    BY DEF MainPcs
  <2>2. /\ free \in [ContextIds -> BOOLEAN]
        /\ context \in [Items -> ContextIds \cup {NoContext}]
        /\ pc \in [Items -> WorkerPcs]
        /\ failed \in [Items -> BOOLEAN]
    BY DEF WorkerPcs
  <2>3. /\ attached \in [ContextIds -> Items \cup {Nobody}]
        /\ connected \in [ContextIds -> BOOLEAN]
        /\ unit \in [ContextIds -> SUBSET Items]
        /\ fate \in [Items -> Fates]
    BY DEF Fates
  <2> QED BY <2>0, <2>1, <2>2, <2>3 DEF Types
<1>2. MutexHeld
  BY DEF MutexHeld, MainInside, WorkerInside
<1>3. Dispatched /\ PickReady /\ Marked
  BY DEF Dispatched, PickReady, Marked
<1>4. Exclusive
  BY DEF Exclusive, GrantedTaken, HoldersDistinct, HoldersTaken, AttachedHeld,
         Granted, Holding
<1>5. Counter
  <2>1. FreeContexts = 0 .. Contexts - 1
    BY DEF FreeContexts
  <2>2. Cardinality(FreeContexts) = Contexts
    BY <2>1, FS_Interval
  <2>3. CountedOff = 0 /\ CountedOn = 0
    BY DEF CountedOff, CountedOn
  <2> QED BY <2>2, <2>3 DEF Counter
<1> QED BY <1>1, <1>2, <1>3, <1>4, <1>5 DEF IInv

\* The inductive invariant holds in every reachable state.
THEOREM IInvHolds == Safety => []IInv
<1>1. IInv /\ [Next]_vars => IInv'
  BY TypesStep, MutexStep, DispatchedStep, ExclusiveStep, CounterStep,
     MarkedStep, PickReadyStep DEF IInv
<1> QED BY InitIInv, <1>1, PTL DEF Safety

\* The search of dispatch never runs past the end of ctxlist.
THEOREM PickInBoundsHolds == Safety => []PickInBounds
<1>1. IInv => PickInBounds
  BY DEF IInv, Exclusive, GrantedTaken, Granted, PickInBounds
<1> QED BY IInvHolds, <1>1, PTL

\* contexts_free always equals the number of free contexts between updates.
THEOREM CounterMatchesFlagsHolds == Safety => []CounterMatchesFlags
<1>1. ASSUME IInv PROVE CounterMatchesFlags
  <2>1. Cardinality(FreeContexts) \in 0 .. Contexts
    BY ContextsFinite DEF FreeContexts
  <2> QED BY <1>1, <2>1 DEF IInv, Counter, CountedOff, CountedOn,
                            CounterMatchesFlags
<1> QED BY IInvHolds, <1>1, PTL

\* No two threads use one context, and a free context has no thread.
THEOREM ContextsExclusiveHolds == Safety => []ContextsExclusive
<1>1. ASSUME IInv PROVE ContextsExclusive
  <2> USE <1>1 DEF IInv, Exclusive
  <2>1. \A v, w \in Holding : context[v] = context[w] => v = w
    BY DEF HoldersDistinct
  <2>2. \A w \in Holding :
           /\ ~free[context[w]]
           /\ mainPc \in {"count", "unlock", "create"} => context[w] # ctx
    BY DEF HoldersTaken, GrantedTaken, Granted
  <2>3. ASSUME NEW c \in ContextIds, free[c], attached[c] # Nobody PROVE FALSE
    <3>1. attached[c] \in Items
      BY <2>3 DEF Types
    <3>2. attached[c] \in Holding /\ context[attached[c]] = c
      BY <2>3, <3>1 DEF AttachedHeld, Attached, Holding, WorkerPcs
    <3> QED BY <3>2, <2>3 DEF HoldersTaken, Types
  <2>4. \A c \in ContextIds : free[c] => attached[c] = Nobody
    BY <2>3
  <2> QED BY <2>1, <2>2, <2>4 DEF ContextsExclusive
<1> QED BY IInvHolds, <1>1, PTL

\* Every variable keeps its type; contexts_free stays within the pool's size.
THEOREM TypeOKHolds == Safety => []TypeOK
<1>1. ASSUME IInv PROVE TypeOK
  <2> USE <1>1 DEF IInv
  <2>1. /\ Cardinality(FreeContexts) \in 0 .. Contexts
        /\ CountedOff \in {0, 1} /\ CountedOn \in {0, 1}
    BY ContextsFinite DEF FreeContexts, CountedOff, CountedOn
  <2>2. CountedOff = 1 => Cardinality(FreeContexts) < Contexts
    <3>1. ASSUME CountedOff = 1 PROVE Cardinality(FreeContexts) < Contexts
      <4>1. ctx \in ContextIds /\ ctx \notin FreeContexts
        BY <3>1 DEF CountedOff, Exclusive, GrantedTaken, Granted, FreeContexts
      <4>2. /\ FreeContexts \cup {ctx} \in SUBSET ContextIds
            /\ FreeContexts \in SUBSET ContextIds
        BY <4>1 DEF FreeContexts
      <4>3. /\ Cardinality(FreeContexts \cup {ctx}) <= Contexts
            /\ IsFiniteSet(FreeContexts)
        BY <4>2, ContextsFinite, PoolAssumption
      <4>4. Cardinality(FreeContexts \cup {ctx}) = Cardinality(FreeContexts) + 1
        BY <4>1, <4>3, FS_AddElement
      <4> QED BY <4>3, <4>4, <2>1, PoolAssumption
    <3> QED BY <3>1
  <2>3. CountedOn = 1 => Cardinality(FreeContexts) > 0
    <3>1. ASSUME CountedOn = 1 PROVE FreeContexts # {}
      <4>1. PICK w \in Items : pc[w] = "count"
        BY <3>1 DEF CountedOn
      <4>2. context[w] \in FreeContexts
        BY <4>1 DEF Marked, Dispatched, FreeContexts
      <4> QED BY <4>2
    <3>2. FreeContexts # {} => Cardinality(FreeContexts) # 0
      BY ContextsFinite, FS_EmptySet DEF FreeContexts
    <3> QED BY <3>1, <3>2, <2>1
  <2> QED BY <2>1, <2>2, <2>3, PoolAssumption DEF Counter, Types, TypeOK
<1> QED BY IInvHolds, <1>1, PTL
-----------------------------------------------------------------------------
(***************************************************************************)
(* What the pool promises of the sleeping main thread and of the units of  *)
(* work, and that it implements WorkPool.                                  *)
(***************************************************************************)

\* CONNECT either works or is reported as an error.
ConnectIsPlain == Answers["connect"] \subseteq {"zero", "error"}

Goal == IF Commit THEN "committed" ELSE "rolledback"
Past == {"reset", "detach", "lock", "mark", "count", "signal", "unlock", "end"}

\* A thread executes its statement on a context without an open unit of work,
\* and ends a unit of work that has no statement but its own.
OwnUnit(w) == /\ pc[w] = "execute" => unit[context[w]] = {}
              /\ pc[w] = "endtxn" => unit[context[w]] \subseteq {w}

\* A thread past its unit of work has failed or ended it as -C asks for.
Told(w) == ConnectIsPlain /\ pc[w] \in Past => failed[w] \/ fate[w] = Goal

OInv == /\ IInv /\ NoLostWakeup
        /\ \A w \in Items : OwnUnit(w) /\ Told(w)
-----------------------------------------------------------------------------
\* A step of one thread leaves another one's place, context and status alone.
LEMMA OneThreadMoves ==
  ASSUME IInv, NEW v \in Items, WorkerStep(v)
  PROVE  /\ context' = context
         /\ \A w \in Items : w # v => pc'[w] = pc[w] /\ failed'[w] = failed[w]
<1> USE DEF IInv, Types, Go, CHECKERR, Exit
<1>1. CASE Attach(v) \/ Detach(v)
  BY <1>1 DEF Attach, Detach
<1>2. CASE Connect(v) \/ Execute(v)
  BY <1>2 DEF Connect, Execute
<1>3. CASE EndTxn(v) \/ Reset(v)
  BY <1>3 DEF EndTxn, Reset
<1>4. CASE Lock(v) \/ MarkFree(v) \/ CountFree(v) \/ Signal(v) \/ Unlock(v)
  BY <1>4 DEF Lock, MarkFree, CountFree, Signal, Unlock, poolVars
<1> QED BY <1>1, <1>2, <1>3, <1>4 DEF WorkerStep

\* A step that frees a context while main sleeps is followed by a signal.
LEMMA NoLostWakeupStep ==
  ASSUME IInv, NoLostWakeup, [Next]_vars
  PROVE  NoLostWakeup'
<1> USE DEF NoLostWakeup
<1>1. CASE MainTest
  BY <1>1 DEF MainTest, poolVars
<1>2. CASE MainLock \/ MainRelock \/ MainPick \/ MainCount \/ MainUnlock \/ MainDone
           \/ SpuriousWakeup
  BY <1>2 DEF MainLock, MainRelock, MainPick, MainCount, MainUnlock, MainDone, SpuriousWakeup
<1>3. CASE MainCreate
  BY <1>3 DEF MainCreate, Exit
<1>4. ASSUME NEW v \in Items, WorkerStep(v) PROVE NoLostWakeup'
  <2>1. CASE CountFree(v)
    <3>1. pc'[v] = "signal"
      BY <2>1 DEF CountFree, Go, IInv, Types
    <3> QED BY <3>1
  <2>2. CASE Signal(v)
    BY <2>2 DEF Signal, mainVars
  <2>3. CASE pc[v] # "signal" /\ UNCHANGED <<mainPc, contexts_free>>
    BY <1>4, <2>3, OneThreadMoves
  <2>4. Attach(v) \/ Connect(v) \/ Execute(v) \/ EndTxn(v) \/ Reset(v) \/ Detach(v)
        \/ Lock(v) \/ MarkFree(v) \/ Unlock(v)
        => pc[v] # "signal" /\ UNCHANGED <<mainPc, contexts_free>>
    BY DEF Attach, Connect, Execute, EndTxn, Reset, Detach, Lock, MarkFree, Unlock, Go, Exit,
           mainVars, poolVars
  <2> QED BY <1>4, <2>1, <2>2, <2>3, <2>4 DEF WorkerStep
<1>5. CASE UNCHANGED vars
  BY <1>5 DEF vars
<1> QED BY <1>1, <1>2, <1>3, <1>4, <1>5 DEF Next, MainStep, Over

\* Only the end of a unit of work settles statements that were sent before.
LEMMA UnitsAndFates ==
  ASSUME OInv, NEW v \in Items, WorkerStep(v), NEW w \in Items, w # v
  PROVE  /\ fate'[w] = fate[w]
         /\ pc[w] \in {"execute", "endtxn"} => unit'[context[w]] = unit[context[w]]
<1>1. /\ unit \in [ContextIds -> SUBSET Items] /\ fate \in [Items -> Fates]
      /\ pc[v] # "none" => context[v] \in ContextIds
      /\ pc[w] # "none" => context[w] \in ContextIds
  BY DEF OInv, IInv, Types, Dispatched
<1>2. CASE UNCHANGED <<unit, fate>>
  BY <1>2
<1>3. CASE Execute(v) \/ EndTxn(v)
  <2>1. pc[v] \in {"execute", "endtxn"} /\ v \in Holding
    BY <1>3 DEF Execute, EndTxn, Go, Holding, WorkerPcs
  <2>2. pc[w] \in {"execute", "endtxn"} => context[w] # context[v]
    BY <2>1 DEF OInv, IInv, Exclusive, HoldersDistinct, Holding, WorkerPcs
  <2>3. \A c \in ContextIds : c # context[v] => unit'[c] = unit[c]
    BY <1>1, <1>3, <2>1 DEF Execute, EndTxn
  <2>4. fate'[w] = fate[w]
    <3>1. CASE Execute(v)
      BY <1>1, <3>1 DEF Execute
    <3>2. CASE EndTxn(v)
      <4>1. w \notin unit[context[v]] \cup {v}
        BY <3>2 DEF EndTxn, Go, OInv, OwnUnit
      <4> QED BY <1>1, <3>2, <4>1 DEF EndTxn
    <3> QED BY <1>3, <3>1, <3>2
  <2> QED BY <1>1, <2>2, <2>3, <2>4
<1>4. Attach(v) \/ Connect(v) \/ Reset(v) \/ Detach(v) \/ Lock(v) \/ MarkFree(v)
      \/ CountFree(v) \/ Signal(v) \/ Unlock(v) => UNCHANGED <<unit, fate>>
  BY DEF Attach, Connect, Reset, Detach, Lock, MarkFree, CountFree, Signal, Unlock, Exit,
         sqlVars
<1> QED BY <1>2, <1>3, <1>4 DEF WorkerStep

\* A thread's own steps: CONNECT is refused inside a unit of work, so what the
\* thread ends is its own.
LEMMA OwnStep ==
  ASSUME OInv, NEW w \in Items, WorkerStep(w)
  PROVE  (OwnUnit(w) /\ Told(w))'
<1>1. /\ pc \in [Items -> WorkerPcs] /\ failed \in [Items -> BOOLEAN]
      /\ unit \in [ContextIds -> SUBSET Items] /\ fate \in [Items -> Fates]
      /\ pc[w] # "none" => context[w] \in ContextIds
      /\ OwnUnit(w) /\ Told(w) /\ context' = context
  BY OneThreadMoves DEF OInv, IInv, Types, Dispatched
<1>2. CASE Attach(w)
  <2>1. pc'[w] \in {"attach", "connect"}
    BY <1>1, <1>2 DEF Attach, Exit
  <2> QED BY <2>1 DEF OwnUnit, Told, Past
<1>3. CASE Connect(w)
  <2>1. PICK code \in ConnectAnswers(context[w]) :
           /\ CHECKERR(w, code)
           /\ pc' = [pc EXCEPT ![w] = IF code = "zero" THEN "execute" ELSE "detach"]
    BY <1>3 DEF Connect
  <2>2. UNCHANGED unit
    BY <1>3 DEF Connect
  <2>3. CASE code = "zero"
    <3>1. pc'[w] = "execute" /\ unit[context[w]] = {}
      BY <1>1, <2>1, <2>3 DEF ConnectAnswers
    <3> QED BY <1>1, <2>2, <3>1 DEF OwnUnit, Told, Past
  <2>4. CASE code # "zero"
    <3>1. pc'[w] = "detach"
      BY <1>1, <2>1, <2>4
    <3>2. ConnectIsPlain => code = "error"
      BY <2>1, <2>4 DEF ConnectAnswers, ConnectIsPlain
    <3>3. ConnectIsPlain => failed'[w]
      BY <1>1, <2>1, <3>2 DEF CHECKERR, check_error
    <3> QED BY <3>1, <3>3 DEF OwnUnit, Told
  <2> QED BY <2>3, <2>4
<1>4. CASE Execute(w)
  <2>1. pc[w] = "execute" /\ pc'[w] = "endtxn" /\ unit[context[w]] = {}
    BY <1>1, <1>4 DEF Execute, Go, OwnUnit
  <2>2. unit'[context[w]] \subseteq {w}
    BY <1>1, <1>4, <2>1 DEF Execute
  <2> QED BY <1>1, <2>1, <2>2 DEF OwnUnit, Told, Past
<1>5. CASE EndTxn(w)
  <2>1. pc'[w] = "reset"
    BY <1>1, <1>5 DEF EndTxn, Go
  <2>2. PICK code \in Answers["endtxn"] : \E end \in UnitEnds(code) :
           /\ fate' = IF end = "open" THEN fate
                      ELSE [v \in Items |-> IF v \in unit[context[w]] \cup {w}
                                            THEN end ELSE fate[v]]
           /\ CHECKERR(w, code)
    BY <1>5 DEF EndTxn
  <2>3. failed'[w] \/ fate'[w] = Goal
    <3>1. CASE check_error(code)
      BY <1>1, <2>2, <3>1 DEF CHECKERR
    <3>2. CASE ~check_error(code)
      <4>1. UnitEnds(code) = {Goal} /\ Goal # "open"
        BY <3>2 DEF UnitEnds, Goal
      <4>2. fate' = [v \in Items |-> IF v \in unit[context[w]] \cup {w} THEN Goal ELSE fate[v]]
        BY <2>2, <4>1
      <4> QED BY <4>2
    <3> QED BY <3>1, <3>2
  <2> QED BY <2>1, <2>3 DEF OwnUnit, Told
<1>6. CASE Reset(w)
  <2>1. /\ pc[w] = "reset" /\ pc'[w] = "detach" /\ UNCHANGED fate
        /\ failed[w] => failed'[w]
    BY <1>1, <1>6 DEF Reset, Go, CHECKERR
  <2> QED BY <1>1, <2>1 DEF OwnUnit, Told, Past
<1>7. CASE Detach(w) \/ Lock(w) \/ MarkFree(w) \/ CountFree(w) \/ Signal(w) \/ Unlock(w)
  <2>1. pc[w] \in Past /\ pc'[w] \in Past /\ UNCHANGED <<failed, fate>>
    BY <1>1, <1>7 DEF Detach, Lock, MarkFree, CountFree, Signal, Unlock, Go, Exit, sqlVars, Past
  <2> QED BY <1>1, <2>1 DEF OwnUnit, Told, Past
<1> QED BY <1>2, <1>3, <1>4, <1>5, <1>6, <1>7 DEF WorkerStep

\* No step disturbs what a thread has told of its statement.
LEMMA OutcomeStep ==
  ASSUME OInv, [Next]_vars
  PROVE  \A w \in Items : (OwnUnit(w) /\ Told(w))'
<1> TAKE w \in Items
<1>0. OwnUnit(w) /\ Told(w)
  BY DEF OInv
<1>1. CASE UNCHANGED <<context, pc, failed, unit, fate>>
  BY <1>0, <1>1 DEF OwnUnit, Told
<1>2. CASE (MainStep /\ ~MainCreate) \/ SpuriousWakeup \/ Over
  BY <1>1, <1>2 DEF MainStep, MainLock, MainTest, MainRelock, MainPick, MainCount, MainUnlock,
                    MainDone, SpuriousWakeup, Over, vars, sqlVars
<1>3. CASE MainCreate
  <2>1. CASE Exit
    BY <1>1, <2>1 DEF Exit
  <2>2. CASE /\ context' = [context EXCEPT ![item] = ctx]
             /\ pc' = [pc EXCEPT ![item] = "attach"]
             /\ UNCHANGED <<failed, unit, fate>>
    <3>1. /\ pc \in [Items -> WorkerPcs] /\ context \in [Items -> ContextIds \cup {NoContext}]
      BY DEF OInv, IInv, Types
    <3>2. CASE w = item
      <4>1. pc'[w] = "attach"
        BY <2>2, <3>1, <3>2
      <4> QED BY <4>1 DEF OwnUnit, Told, Past
    <3>3. CASE w # item
      <4>1. pc'[w] = pc[w] /\ context'[w] = context[w]
        BY <2>2, <3>1, <3>3
      <4> QED BY <1>0, <2>2, <4>1 DEF OwnUnit, Told
    <3> QED BY <3>2, <3>3
  <2> QED BY <1>3, <2>1, <2>2 DEF MainCreate, sqlVars
<1>4. ASSUME NEW v \in Items, WorkerStep(v) PROVE (OwnUnit(w) /\ Told(w))'
  <2>1. CASE w = v
    BY <1>4, <2>1, OwnStep
  <2>2. CASE w # v
    <3>1. /\ pc'[w] = pc[w] /\ failed'[w] = failed[w] /\ context' = context
          /\ fate'[w] = fate[w]
          /\ pc[w] \in {"execute", "endtxn"} => unit'[context[w]] = unit[context[w]]
      BY <1>4, <2>2, OneThreadMoves, UnitsAndFates DEF OInv
    <3> QED BY <1>0, <3>1 DEF OwnUnit, Told
  <2> QED BY <2>1, <2>2
<1>5. CASE UNCHANGED vars
  BY <1>1, <1>5 DEF vars
<1> QED BY <1>2, <1>3, <1>4, <1>5 DEF Next

\* The invariant of the outcomes, on top of the one of the pool.
LEMMA OInvHolds == Safety => []OInv
<1>1. Init => NoLostWakeup /\ \A w \in Items : OwnUnit(w) /\ Told(w)
  BY DEF Init, NoLostWakeup, OwnUnit, Told, Past
<1>2. OInv /\ [Next]_vars /\ IInv' => OInv'
  BY NoLostWakeupStep, OutcomeStep DEF OInv
<1>3. IInv /\ NoLostWakeup /\ (\A w \in Items : OwnUnit(w) /\ Told(w)) => OInv
  BY DEF OInv
<1> QED BY InitIInv, IInvHolds, <1>1, <1>2, <1>3, PTL DEF Safety
-----------------------------------------------------------------------------
\* main never sleeps on while there is a context to hand out, whatever the
\* order in which the threads give theirs back.
THEOREM NoLostWakeupHolds == Safety => []NoLostWakeup
<1>1. OInv => NoLostWakeup
  BY DEF OInv
<1> QED BY <1>1, OInvHolds, PTL

\* A statement is settled by its own thread, also on a context that was left
\* with an open unit of work.
THEOREM OnlyOwnerSettlesHolds == Safety => OnlyOwnerSettles
<1>1. ASSUME OInv, [Next]_vars
      PROVE  [\A w \in Items : fate'[w] # fate[w] => pc'[w] # pc[w]]_vars
  <2> SUFFICES ASSUME NEW w \in Items, fate'[w] # fate[w] PROVE pc'[w] # pc[w]
    OBVIOUS
  <2>1. UNCHANGED fate \/ \E v \in Items : WorkerStep(v)
    BY <1>1 DEF Next, MainStep, MainLock, MainTest, MainRelock, MainPick, MainCount,
                MainUnlock, MainCreate, MainDone, Exit, SpuriousWakeup, Over, vars, sqlVars
  <2>2. PICK v \in Items : WorkerStep(v)
    BY <2>1
  <2>3. v = w
    BY <1>1, <2>2, UnitsAndFates
  <2>4. Execute(w) \/ EndTxn(w)
    BY <2>2, <2>3 DEF WorkerStep, Attach, Connect, Reset, Detach, Lock, MarkFree, CountFree,
                      Signal, Unlock, Exit, sqlVars
  <2>5. pc \in [Items -> WorkerPcs]
    BY <1>1 DEF OInv, IInv, Types
  <2> QED BY <2>4, <2>5 DEF Execute, EndTxn, Go
<1> QED BY <1>1, OInvHolds, PTL DEF Safety, OnlyOwnerSettles

\* Status 0 means that the statement was sent and its unit of work ended, if
\* CONNECT gives no warning.
THEOREM TruthfulStatusHolds ==
  ASSUME ConnectIsPlain
  PROVE  Safety => []TruthfulStatus
<1>1. OInv => TruthfulStatus
  BY DEF OInv, Told, Past, Goal, TruthfulStatus
<1> QED BY <1>1, OInvHolds, PTL
-----------------------------------------------------------------------------
(* The refinement of WorkPool *)

RunningPcs == {"attach", "connect", "execute", "endtxn", "reset", "detach", "lock", "mark"}
FinishedPcs == {"count", "signal", "unlock", "end"}

\* The abstract phase of an item follows from its thread's place.
LEMMA PhaseOfPc ==
  ASSUME Types
  PROVE  /\ \A w \in Items : Phase[w] = IF pc[w] = "none" THEN "todo"
                                    ELSE IF pc[w] \in RunningPcs THEN "running" ELSE "finished"
         /\ \A w \in Items : pc[w] \in {"none"} \cup RunningPcs \cup FinishedPcs
<1> QED BY DEF Types, Phase, Holding, WorkerPcs, RunningPcs, FinishedPcs

\* The end of the process is the abstract abort.
LEMMA ExitAborts ==
  ASSUME IInv, Exit, ~exited
  PROVE  Pool!Abort
<1>1. UNCHANGED Phase
  BY DEF Exit, Phase, Holding
<1> QED BY <1>1 DEF Exit, Pool!Abort

\* The creation of a thread starts the next item on a slot nobody holds.
LEMMA CreateStarts ==
  ASSUME IInv, Types', MainCreate, ~Exit, ~exited
  PROVE  Pool!Start(item, ctx)
<1>1. /\ item \in Items /\ ctx \in ContextIds /\ pc[item] = "none"
      /\ \A v \in Items : v < item => pc[v] # "none"
      /\ \A w \in Holding : context[w] # ctx
  BY PoolAssumption DEF IInv, Types, Dispatched, Exclusive, GrantedTaken, Granted, MainCreate, Items
<1>2. /\ context' = [context EXCEPT ![item] = ctx] /\ pc' = [pc EXCEPT ![item] = "attach"]
      /\ UNCHANGED exited
  BY DEF MainCreate
<1>3. Phase[item] = "todo" /\ \A v \in Items : v < item => Phase[v] # "todo"
  BY <1>1, PhaseOfPc DEF IInv
<1>4. ctx \notin Pool!Held
  BY <1>1 DEF Pool!Held, Pool!Running, Pool!Items, Items, Phase
<1>5. Phase' = [Phase EXCEPT ![item] = "running"]
  <2>1. pc'[item] = "attach" /\ \A w \in Items : w # item => pc'[w] = pc[w]
    BY <1>1, <1>2 DEF IInv, Types
  <2> QED BY <1>1, <2>1 DEF Phase, Holding, WorkerPcs
<1> QED BY <1>1, <1>2, <1>3, <1>4, <1>5 DEF Pool!Start, Pool!Items, Items

\* Marking its context free finishes an item.
LEMMA MarkFinishes ==
  ASSUME IInv, NEW w \in Items, MarkFree(w), ~exited
  PROVE  Pool!Finish(w)
<1>1. pc[w] = "mark" /\ pc' = [pc EXCEPT ![w] = "count"] /\ UNCHANGED <<context, exited>>
  BY DEF MarkFree, Go
<1>2. pc'[w] = "count" /\ \A v \in Items : v # w => pc'[v] = pc[v]
  BY <1>1 DEF IInv, Types
<1>3. Phase[w] = "running"
  BY <1>1 DEF Phase, Holding, WorkerPcs
<1>4. Phase' = [Phase EXCEPT ![w] = "finished"]
  BY <1>2 DEF Phase, Holding, WorkerPcs
<1> QED BY <1>1, <1>3, <1>4 DEF Pool!Finish

\* Every step maps to a step of the abstract pool or to a stutter.
LEMMA RefinesStep ==
  ASSUME IInv, IInv', [Next]_vars
  PROVE  [Pool!Next]_Pool!vars
<1>0. Types /\ Types'
  BY DEF IInv
<1>1. CASE ~exited /\ Exit
  BY <1>1, ExitAborts DEF Pool!Next
<1>2. CASE UNCHANGED <<pc, context, exited>>
  <2>1. UNCHANGED <<Phase, context, exited>>
    BY <1>2 DEF Phase, Holding
  <2> QED BY <2>1 DEF Pool!vars
<1>3. CASE ~exited /\ MainStep /\ ~Exit
  <2>1. CASE MainCreate
    <3>1. item \in Pool!Items /\ ctx \in Pool!Slots
      BY <2>1, PoolAssumption
         DEF MainCreate, IInv, Types, Dispatched, Exclusive, GrantedTaken, Granted,
             ContextIds, Pool!Items, Pool!Slots
    <3> QED BY <1>0, <1>3, <2>1, <3>1, CreateStarts DEF Pool!Next, Pool!Work
  <2>2. CASE ~MainCreate
    BY <1>2, <1>3, <2>2 DEF MainStep, MainLock, MainTest, MainRelock, MainPick, MainCount,
                            MainUnlock, MainDone
  <2> QED BY <2>1, <2>2
<1>4. ASSUME NEW w \in Items, WorkerStep(w), ~exited, ~Exit
      PROVE  [Pool!Next]_Pool!vars
  <2>1. CASE MarkFree(w)
    BY <1>4, <2>1, MarkFinishes DEF Pool!Next, Pool!Work, Pool!Items, Items
  <2>2. CASE ~MarkFree(w)
    <3>1. UNCHANGED exited
      BY <1>4, <2>2 DEF WorkerStep, Attach, Connect, Execute, EndTxn, Reset, Detach, Lock,
                        CountFree, Signal, Unlock
    <3>2. \/ pc[w] \in RunningPcs /\ pc'[w] \in RunningPcs
          \/ pc[w] \in FinishedPcs /\ pc'[w] \in FinishedPcs
      BY <1>4, <2>2 DEF IInv, Types, WorkerStep, Attach, Connect, Execute, EndTxn, Reset,
         Detach, Lock, CountFree, Signal, Unlock, Go, RunningPcs, FinishedPcs
    <3>3. context' = context /\ \A v \in Items : v # w => pc'[v] = pc[v]
      BY <1>4, OneThreadMoves
    <3>4. UNCHANGED <<Phase, context, exited>>
      <4>1. \A v \in Items : Phase'[v] = Phase[v]
        BY <3>2, <3>3 DEF Phase, Holding, WorkerPcs, RunningPcs, FinishedPcs
      <4>2. Phase' = Phase
        BY <4>1 DEF Phase
      <4> QED BY <3>1, <3>3, <4>2
    <3> QED BY <3>4 DEF Pool!vars
  <2> QED BY <2>1, <2>2
<1>5. CASE SpuriousWakeup \/ Over \/ UNCHANGED vars
  BY <1>2, <1>5 DEF SpuriousWakeup, Over, vars
<1> QED BY <1>1, <1>3, <1>4, <1>5 DEF Next

\* Items are started in order, each on a context that no other running item
\* holds: the threads, the mutex and the SQL calls implement the abstract pool.
THEOREM ImplementsPoolSafely == Safety => Pool!Safety
<1>1. Init => Pool!Init
  BY DEF Init, Pool!Init, Pool!Items, Pool!NoSlot, NoContext, Items, Phase
<1> QED BY <1>1, RefinesStep, IInvHolds, PTL DEF Safety, Pool!Safety
=============================================================================
