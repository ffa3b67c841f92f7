----------------------------- MODULE ContextPool -----------------------------
(***************************************************************************)
(* c/dbthrds.sqc: the main thread generates work items and hands each one  *)
(* to a detached thread of its own.  A thread needs a DB2 context; the     *)
(* contexts form a fixed pool guarded by the mutex cond_m and the          *)
(* condition variable cond.  Every call that can fail, and every point at  *)
(* which another thread can run, is a step of its own.                     *)
(***************************************************************************)
EXTENDS Integers, FiniteSets

CONSTANTS Contexts,   \* -c: size of the context pool
          Loops,      \* -l: number of work items generated
          Commit,     \* -C: commit the work instead of rolling it back
          Answers     \* the sqlcodes each DB2 or thread call may answer with

Calls == {"create", "attach", "connect", "execute", "endtxn", "reset", "detach"}
Sqlcodes == {"zero", "warning", "tolerated", "error"}

ASSUME PoolAssumption ==
    /\ Contexts \in Nat \ {0}
    /\ Loops \in Nat
    /\ Commit \in BOOLEAN
    /\ Answers \in [Calls -> SUBSET Sqlcodes]

Items == 0 .. Loops - 1
ContextIds == 0 .. Contexts - 1
NoContext == -1
Nobody == -1
Main == Loops         \* the main thread; thread w works on item w

VARIABLES
    exited,           \* some thread called exit(1)
    mainPc, item,     \* where main is, and i of generate_work
    ctx,              \* local ctx of dispatch
    owner,            \* holder of cond_m
    free,             \* ctxlist[c].free
    contexts_free,
    context,          \* work_item->context
    pc,               \* where the thread of item w is
    failed,           \* status # 0 in the thread of item w
    attached,         \* the thread attached to context c
    connected,        \* context c has a database connection
    unit,             \* items whose statement is in c's open unit of work
    fate              \* what became of the statement of item w

poolVars == <<free, contexts_free>>
mainVars == <<mainPc, item, ctx>>
sqlVars == <<connected, unit, fate>>
vars == <<exited, mainPc, item, ctx, owner, free, contexts_free, context, pc,
          failed, attached, connected, unit, fate>>

MainPcs == {"lock", "test", "wait", "woken", "pick", "count", "unlock",
            "create", "done"}
WorkerPcs == {"none", "attach", "connect", "execute", "endtxn", "reset",
              "detach", "lock", "mark", "count", "signal", "unlock", "end"}
Fates == {"unsent", "sent", "committed", "rolledback"}

Init == /\ exited = FALSE
        /\ mainPc = "lock" /\ item = 0 /\ ctx = 0
        /\ owner = Nobody
        /\ free = [c \in ContextIds |-> TRUE]
        /\ contexts_free = Contexts
        /\ context = [w \in Items |-> NoContext]
        /\ pc = [w \in Items |-> "none"]
        /\ failed = [w \in Items |-> FALSE]
        /\ attached = [c \in ContextIds |-> Nobody]
        /\ connected = [c \in ContextIds |-> FALSE]
        /\ unit = [c \in ContextIds |-> {}]
        /\ fate = [w \in Items |-> "unsent"]

-----------------------------------------------------------------------------
(* main: generate_work and dispatch *)

\* check_expected: an unexpected result ends the whole process.
Exit == /\ exited' = TRUE
        /\ UNCHANGED <<mainPc, item, ctx, owner, free, contexts_free, context,
                       pc, failed, attached, connected, unit, fate>>

MainLock == /\ mainPc = "lock" /\ item < Loops
            /\ owner = Nobody
            /\ owner' = Main
            /\ mainPc' = "test"
            /\ UNCHANGED <<exited, item, ctx, poolVars, context, pc, failed,
                           attached, sqlVars>>

\* pthread_cond_wait gives the mutex up and blocks in one step.
MainTest == /\ mainPc = "test"
            /\ \/ /\ contexts_free = 0
                  /\ mainPc' = "wait" /\ owner' = Nobody
               \/ /\ contexts_free # 0
                  /\ mainPc' = "pick" /\ UNCHANGED owner
            /\ UNCHANGED <<exited, item, ctx, poolVars, context, pc, failed,
                           attached, sqlVars>>

SpuriousWakeup == /\ mainPc = "wait"
                  /\ mainPc' = "woken"
                  /\ UNCHANGED <<exited, item, ctx, owner, poolVars, context,
                                 pc, failed, attached, sqlVars>>

\* Mutant: "if (!contexts_free)" instead of "while".
MainRelockIf == /\ mainPc = "woken"
                /\ owner = Nobody
                /\ owner' = Main
                /\ mainPc' = "pick"
                /\ UNCHANGED <<exited, item, ctx, poolVars, context, pc,
                               failed, attached, sqlVars>>

MainRelock == /\ mainPc = "woken"
              /\ owner = Nobody
              /\ owner' = Main
              /\ mainPc' = "test"
              /\ UNCHANGED <<exited, item, ctx, poolVars, context, pc, failed,
                             attached, sqlVars>>

\* Where the search for a free context stops: Contexts, one past the end of
\* ctxlist, when there is none.
IsFirstFree(c) == /\ c # Contexts => free[c]
                  /\ \A d \in ContextIds : d < c => ~free[d]

MainPick == /\ mainPc = "pick"
            /\ \E c \in 0 .. Contexts :
                  /\ IsFirstFree(c)
                  /\ ctx' = c
                  /\ free' = [free EXCEPT ![c] = FALSE]
            /\ mainPc' = "count"
            /\ UNCHANGED <<exited, item, owner, contexts_free, context, pc,
                           failed, attached, sqlVars>>

MainCount == /\ mainPc = "count"
             /\ contexts_free' = contexts_free - 1
             /\ mainPc' = "unlock"
             /\ UNCHANGED <<exited, item, ctx, owner, free, context, pc,
                            failed, attached, sqlVars>>

MainUnlock == /\ mainPc = "unlock"
              /\ owner' = Nobody
              /\ mainPc' = "create"
              /\ UNCHANGED <<exited, item, ctx, poolVars, context, pc, failed,
                             attached, sqlVars>>

MainCreate == /\ mainPc = "create"
              /\ \/ /\ "zero" \in Answers["create"]
                    /\ context' = [context EXCEPT ![item] = ctx]
                    /\ pc' = [pc EXCEPT ![item] = "attach"]
                    /\ item' = item + 1
                    /\ mainPc' = "lock"
                    /\ UNCHANGED <<exited, ctx, owner, poolVars, failed,
                                   attached, sqlVars>>
                 \/ Answers["create"] \ {"zero"} # {} /\ Exit

\* pthread_exit: only the main thread ends.
MainDone == /\ mainPc = "lock" /\ item = Loops
            /\ mainPc' = "done"
            /\ UNCHANGED <<exited, item, ctx, owner, poolVars, context, pc,
                           failed, attached, sqlVars>>

MainStep == \/ MainLock \/ MainTest \/ MainRelock \/ MainPick \/ MainCount
            \/ MainUnlock \/ MainCreate \/ MainDone
-----------------------------------------------------------------------------
(* the thread of item w: do_work and clean_up *)

Go(w, from, to) == pc[w] = from /\ pc' = [pc EXCEPT ![w] = to]

\* check_error reports failure for negative sqlcodes other than -438 and -532.
check_error(code) == code = "error"

\* Mutant: the status of the last call replaces an earlier failure.
CHECKERRLast(w, code) == failed' = [failed EXCEPT ![w] = check_error(code)]

CHECKERR(w, code) ==
    failed' = [failed EXCEPT ![w] = @ \/ check_error(code)]

Attach(w) ==
    /\ pc[w] = "attach"
    /\ \/ /\ "zero" \in Answers["attach"]
          /\ attached' = [attached EXCEPT ![context[w]] = w]
          /\ pc' = [pc EXCEPT ![w] = "connect"]
          /\ UNCHANGED <<exited, mainVars, owner, poolVars, context, failed,
                         sqlVars>>
       \/ Answers["attach"] \ {"zero"} # {} /\ Exit

\* DB2 refuses CONNECT inside a unit of work; a warning still connects.
ConnectAnswers(c) == IF unit[c] # {} THEN {"error"} ELSE Answers["connect"]

\* Mutant: the statement is executed whatever CONNECT answered.
ConnectUnchecked(w) ==
    LET c == context[w] IN
    /\ Go(w, "connect", "execute")
    /\ \E code \in ConnectAnswers(c) :
          /\ connected' = [connected EXCEPT ![c] =
                              unit[c] # {} \/ code \in {"zero", "warning"}]
          /\ CHECKERR(w, code)
    /\ UNCHANGED <<exited, mainVars, owner, poolVars, context, attached, unit,
                   fate>>

Connect(w) ==
    LET c == context[w] IN
    /\ pc[w] = "connect"
    /\ \E code \in ConnectAnswers(c) :
          /\ connected' = [connected EXCEPT ![c] =
                              unit[c] # {} \/ code \in {"zero", "warning"}]
          /\ CHECKERR(w, code)
          /\ pc' = [pc EXCEPT ![w] =
                       IF code = "zero" THEN "execute" ELSE "detach"]
    /\ UNCHANGED <<exited, mainVars, owner, poolVars, context, attached, unit,
                   fate>>

Execute(w) ==
    LET c == context[w] IN
    /\ Go(w, "execute", "endtxn")
    /\ \E code \in Answers["execute"] :
          /\ unit' = [unit EXCEPT ![c] =
                         IF code \in {"zero", "warning"} THEN @ \cup {w} ELSE @]
          /\ CHECKERR(w, code)
    /\ fate' = [fate EXCEPT ![w] = "sent"]
    /\ UNCHANGED <<exited, mainVars, owner, poolVars, context, attached,
                   connected>>

\* What DB2 may have done with the unit of work when COMMIT or ROLLBACK
\* answers with code: after an error it may still be open.
UnitEnds(code) ==
    IF check_error(code) THEN {"open", "rolledback"}
    ELSE {IF Commit THEN "committed" ELSE "rolledback"}

EndTxn(w) ==
    LET c == context[w] IN
    /\ Go(w, "endtxn", "reset")
    /\ \E code \in Answers["endtxn"] : \E end \in UnitEnds(code) :
          /\ unit' = IF end = "open" THEN unit ELSE [unit EXCEPT ![c] = {}]
          /\ fate' = IF end = "open" THEN fate
                     ELSE [v \in Items |-> IF v \in unit[c] \cup {w}
                                           THEN end ELSE fate[v]]
          /\ CHECKERR(w, code)
    /\ UNCHANGED <<exited, mainVars, owner, poolVars, context, attached,
                   connected>>

\* CONNECT RESET too is refused inside a unit of work.
Reset(w) ==
    LET c == context[w] IN
    /\ Go(w, "reset", "detach")
    /\ \E code \in IF unit[c] # {} THEN {"error"} ELSE Answers["reset"] :
          /\ connected' = [connected EXCEPT ![c] = @ /\ check_error(code)]
          /\ CHECKERR(w, code)
    /\ UNCHANGED <<exited, mainVars, owner, poolVars, context, attached, unit,
                   fate>>

\* Mutant: the context is marked free while the thread is still attached.
DetachForgotten(w) == /\ Go(w, "detach", "lock")
                      /\ UNCHANGED <<exited, mainVars, owner, poolVars, context,
                                     failed, attached, sqlVars>>

Detach(w) ==
    /\ pc[w] = "detach"
    /\ \/ /\ "zero" \in Answers["detach"]
          /\ attached' = [attached EXCEPT ![context[w]] = Nobody]
          /\ pc' = [pc EXCEPT ![w] = "lock"]
          /\ UNCHANGED <<exited, mainVars, owner, poolVars, context, failed,
                         sqlVars>>
       \/ Answers["detach"] \ {"zero"} # {} /\ Exit

Lock(w) == /\ Go(w, "lock", "mark")
           /\ owner = Nobody
           /\ owner' = w
           /\ UNCHANGED <<exited, mainVars, poolVars, context, failed,
                          attached, sqlVars>>

MarkFree(w) == /\ Go(w, "mark", "count")
               /\ free' = [free EXCEPT ![context[w]] = TRUE]
               /\ UNCHANGED <<exited, mainVars, owner, contexts_free, context,
                              failed, attached, sqlVars>>

CountFree(w) == /\ Go(w, "count", "signal")
                /\ contexts_free' = contexts_free + 1
                /\ UNCHANGED <<exited, mainVars, owner, free, context, failed,
                               attached, sqlVars>>

\* Mutant: signal only if the pool was empty, tested after the increment.
SignalIfEmpty(w) ==
    /\ Go(w, "signal", "unlock")
    /\ mainPc' = IF mainPc = "wait" /\ contexts_free = 0 THEN "woken" ELSE mainPc
    /\ UNCHANGED <<exited, item, ctx, owner, poolVars, context, failed,
                   attached, sqlVars>>

Signal(w) == /\ Go(w, "signal", "unlock")
             /\ mainPc' = IF mainPc = "wait" THEN "woken" ELSE mainPc
             /\ UNCHANGED <<exited, item, ctx, owner, poolVars, context,
                            failed, attached, sqlVars>>

Unlock(w) == /\ Go(w, "unlock", "end")
             /\ owner' = Nobody
             /\ UNCHANGED <<exited, mainVars, poolVars, context, failed,
                            attached, sqlVars>>

WorkerStep(w) == \/ Attach(w) \/ Connect(w) \/ Execute(w) \/ EndTxn(w)
                 \/ Reset(w) \/ Detach(w) \/ Lock(w) \/ MarkFree(w)
                 \/ CountFree(w) \/ Signal(w) \/ Unlock(w)
-----------------------------------------------------------------------------
AllEnded == mainPc = "done" /\ \A w \in Items : pc[w] = "end"

\* The process is gone: by exit(1), or because its last thread ended.
Over == (exited \/ AllEnded) /\ UNCHANGED vars

Next == \/ ~exited /\ MainStep
        \/ ~exited /\ SpuriousWakeup
        \/ ~exited /\ \E w \in Items : WorkerStep(w)
        \/ Over

Safety == Init /\ [][Next]_vars

\* The operating system schedules every thread, and a condition variable does
\* not wake up without a signal for ever.
Spec == /\ Safety
        /\ WF_vars(~exited /\ MainStep)
        /\ \A w \in Items : WF_vars(~exited /\ WorkerStep(w))
        /\ <>[][~SpuriousWakeup]_vars
-----------------------------------------------------------------------------
(* Properties *)

\* Every variable keeps its type; contexts_free never leaves 0 .. Contexts.
TypeOK == /\ exited \in BOOLEAN
          /\ mainPc \in MainPcs
          /\ item \in 0 .. Loops
          /\ ctx \in 0 .. Contexts
          /\ owner \in Items \cup {Nobody, Main}
          /\ free \in [ContextIds -> BOOLEAN]
          /\ contexts_free \in 0 .. Contexts
          /\ context \in [Items -> ContextIds \cup {NoContext}]
          /\ pc \in [Items -> WorkerPcs]
          /\ failed \in [Items -> BOOLEAN]
          /\ attached \in [ContextIds -> Items \cup {Nobody}]
          /\ connected \in [ContextIds -> BOOLEAN]
          /\ unit \in [ContextIds -> SUBSET Items]
          /\ fate \in [Items -> Fates]

\* The threads that hold a context: from their creation until they mark it.
Holding == {w \in Items : pc[w] \in WorkerPcs \ {"none", "count", "signal",
                                                 "unlock", "end"}}

FreeContexts == {c \in ContextIds : free[c]}

\* The counter dispatch waits on and the flags it searches agree whenever no
\* thread is between its two updates, so the one never lies about the other.
CounterMatchesFlags ==
    mainPc # "count" /\ (\A w \in Items : pc[w] # "count") =>
        contexts_free = Cardinality(FreeContexts)

\* "there is at least one free context at this point, find one": the search of
\* dispatch always stops inside ctxlist, whatever wakes main up.
PickInBounds == mainPc \in {"count", "unlock", "create"} => ctx \in ContextIds

\* No two threads ever hold one context, no thread holds the context main is
\* about to hand out, and a free context has no holder and is detached.
ContextsExclusive ==
    /\ \A v, w \in Holding : context[v] = context[w] => v = w
    /\ \A w \in Holding : /\ ~free[context[w]]
                          /\ mainPc \in {"count", "unlock", "create"} =>
                                context[w] # ctx
    /\ \A c \in ContextIds : free[c] => attached[c] = Nobody

\* While main sleeps in pthread_cond_wait there is nothing to hand out, or the
\* thread that has just freed a context is still about to signal.
NoLostWakeup ==
    mainPc = "wait" => \/ contexts_free = 0
                       \/ \E w \in Items : pc[w] = "signal"

\* A thread that returns status 0 sent its statement and ended its unit of
\* work the way -C asks for (check_error: warnings continue the program).
TruthfulStatus ==
    \A w \in Items : pc[w] = "end" /\ ~failed[w] =>
        fate[w] = IF Commit THEN "committed" ELSE "rolledback"

\* A statement is committed or rolled back only by the thread that sent it,
\* even on a context whose previous user could not end its unit of work.
OnlyOwnerSettles ==
    [][\A w \in Items : fate'[w] # fate[w] => pc'[w] # pc[w]]_vars

\* Every generated item is eventually done and the process ends.
AllWorkEnds == <>(exited \/ AllEnded)

\* The pool implements the abstract one: an item runs from the creation of
\* its thread until that thread marks the context free.
Phase == [w \in Items |-> IF pc[w] = "none" THEN "todo"
                          ELSE IF w \in Holding THEN "running" ELSE "finished"]

Pool == INSTANCE WorkPool WITH phase <- Phase, slot <- context,
                               aborted <- exited
ImplementsPool == Pool!Spec
=============================================================================
