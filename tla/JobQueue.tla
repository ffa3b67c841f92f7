-------------------------------- MODULE JobQueue --------------------------------
(***************************************************************************)
(* perf/.../TJWH/JobControl.pm: the subroutines that run a list of tasks   *)
(* in child processes, all at once or a limited number at a time, wait for *)
(* them, count their errors and collect their results: one loop with       *)
(* variations.  fork, wait and kill are those of the operating system.     *)
(***************************************************************************)
EXTENDS JobControl, FiniteSets

CONSTANTS Subs,         \* the subroutines considered
          Throttles,    \* values of $throttle
          MayHang,      \* a task may never end
          MayTimeOut    \* the caller's alarm may go off

\* How the subroutines differ: whether $throttle limits the children; what a
\* child passes to exit after a task that failed; what the SIGALRM handler
\* sends its signal to; whether the failed children are counted; whether
\* results are collected; whether $throttle = 1 means a loop without fork; and
\* whether the children are waited for.

\* system() answers with an exit code that is shifted left by 8 bits.
simultaneousTasks ==
    [throttled |-> FALSE, failRc |-> 256, kills |-> "group",
     counts |-> TRUE, results |-> FALSE, loop |-> FALSE, waits |-> TRUE]

\* The return value of an eval that failed is undefined.
simultaneousTasksEval ==
    [throttled |-> FALSE, failRc |-> 0, kills |-> "group",
     counts |-> FALSE, results |-> FALSE, loop |-> FALSE, waits |-> TRUE]

simultaneousSubroutines ==
    [throttled |-> FALSE, failRc |-> 1, kills |-> "process",
     counts |-> TRUE, results |-> FALSE, loop |-> FALSE, waits |-> TRUE]

\* exit -1.
simultaneousSubroutinesWithResults ==
    [throttled |-> FALSE, failRc |-> 255, kills |-> "none",
     counts |-> TRUE, results |-> TRUE, loop |-> FALSE, waits |-> TRUE]

taskQueue ==
    [throttled |-> TRUE, failRc |-> 256, kills |-> "none",
     counts |-> FALSE, results |-> FALSE, loop |-> FALSE, waits |-> TRUE]

taskQueueEval ==
    [throttled |-> TRUE, failRc |-> 0, kills |-> "none",
     counts |-> FALSE, results |-> FALSE, loop |-> FALSE, waits |-> TRUE]

taskQueueSubroutines ==
    [throttled |-> TRUE, failRc |-> 1, kills |-> "none",
     counts |-> FALSE, results |-> FALSE, loop |-> TRUE, waits |-> TRUE]

taskQueueSubroutinesWithResults ==
    [throttled |-> TRUE, failRc |-> 255, kills |-> "none",
     counts |-> FALSE, results |-> TRUE, loop |-> TRUE, waits |-> TRUE]

runBackgroundTasks ==
    [throttled |-> FALSE, failRc |-> 256, kills |-> "none",
     counts |-> FALSE, results |-> FALSE, loop |-> FALSE, waits |-> FALSE]

runBackgroundSubroutines ==
    [throttled |-> FALSE, failRc |-> 1, kills |-> "none",
     counts |-> FALSE, results |-> FALSE, loop |-> FALSE, waits |-> FALSE]

AllSubs == {simultaneousTasks, simultaneousTasksEval, simultaneousSubroutines,
            simultaneousSubroutinesWithResults, taskQueue, taskQueueEval,
            taskQueueSubroutines, taskQueueSubroutinesWithResults,
            runBackgroundTasks, runBackgroundSubroutines}

ASSUME JobAssumption ==
    /\ Throttles \subseteq Nat /\ Subs \subseteq AllSubs
    /\ MayHang \in BOOLEAN /\ MayTimeOut \in BOOLEAN

\* A child that runBackgroundTasks left, which the same wait() returns.
Background == Total
Pids == Tasks \cup {Background}

Undef == Total           \* no file, or an undefined result
Partial == Total + 1     \* a file that is not complete

VARIABLES
    sub, throttle,
    hangs,         \* tasks that never end
    pc,
    next,          \* the next task, or result; totalProcs is Total - next
    errorCount,
    results,
    alarm,         \* the timeout: "none", "forking" or "waiting"
    status,        \* its $?
    outcome,       \* what became of its task
    file           \* whose results $fileSeed-<index> holds

parentVars == <<pc, next, childProcs, errorCount, results>>
childVars == <<child, status, outcome, file>>
chosen == <<sub, throttle, hangs>>
vars == <<chosen, parentVars, alarm, childVars>>

Pcs == {"fork", "record", "collect", "returned", "exited", "died"}
Places == {"none", "running", "storing", "exited", "reaped"}
Outcomes == {"none", "ok", "failed", "killed"}

Init == /\ sub \in Subs
        /\ throttle \in IF sub.throttled THEN Throttles ELSE {Total}
        /\ hangs \in IF MayHang THEN SUBSET Tasks ELSE {{}}
        /\ pc = "fork" /\ next = 0 /\ childProcs = {} /\ errorCount = 0
        /\ results = [t \in Tasks |-> Undef] /\ alarm = "none"
        /\ \E b \in {"none", "running"} :
              child = [[p \in Pids |-> "none"] EXCEPT ![Background] = b]
        /\ status = [p \in Pids |-> 0]
        /\ outcome = [p \in Pids |-> "none"]
        /\ file = [n \in 0 .. Total |-> Undef]
-----------------------------------------------------------------------------
(* The children *)

\* $? after exit: the low 8 bits of the argument, above those of the signal.
ExitStatus(exit) == (exit % 256) * 256
SIGKILL == 9

Ends(p, o, s) == /\ child' = [child EXCEPT ![p] = "exited"]
                 /\ outcome' = [outcome EXCEPT ![p] = o]
                 /\ status' = [status EXCEPT ![p] = s]

\* Mutant: the index has been counted on already.
FileOfNext(t) == t + 1

FileOf(t) == t

Run(t) == /\ child[t] = "running" /\ t \notin hangs
          /\ \/ ~sub.results /\ Ends(t, "ok", ExitStatus(0)) /\ UNCHANGED file
             \/ /\ sub.results
                /\ file' = [file EXCEPT ![FileOf(t)] = Partial]
                /\ child' = [child EXCEPT ![t] = "storing"]
                /\ UNCHANGED <<status, outcome>>
             \/ Ends(t, "failed", ExitStatus(sub.failRc)) /\ UNCHANGED file
          /\ UNCHANGED <<chosen, parentVars, alarm>>

Store(t) == /\ child[t] = "storing"
            /\ file' = [file EXCEPT ![FileOf(t)] = t]
            /\ Ends(t, "ok", ExitStatus(0))
            /\ UNCHANGED <<chosen, parentVars, alarm>>

\* The child of runBackgroundTasks ends, with or without an error.
EndBackground == /\ child[Background] = "running"
                 /\ \E code \in {0, 1} : Ends(Background, "none", ExitStatus(code))
                 /\ UNCHANGED <<chosen, parentVars, alarm, file>>

Killed(t) == /\ MayDie /\ child[t] \in {"running", "storing"}
             /\ Ends(t, "killed", SIGKILL)
             /\ UNCHANGED <<chosen, parentVars, alarm, file>>

Child(t) == Run(t) \/ Store(t)
-----------------------------------------------------------------------------
(* The parent *)

Loop == sub.loop /\ throttle = 1

CanFork == /\ next < Total
           /\ sub.throttled => Cardinality(childProcs) < throttle

\* If fork fails the parent takes itself for the child: it runs the task and
\* exits.
Fork == /\ pc = "fork" /\ ~Loop /\ CanFork
        /\ \/ /\ child' = [child EXCEPT ![next] = "running"]
              /\ pc' = "record"
           \/ ForkMayFail /\ pc' = "exited" /\ UNCHANGED child
        /\ UNCHANGED <<chosen, next, childProcs, errorCount, results, alarm, status,
                       outcome, file>>

Record == /\ pc = "record"
          /\ childProcs' = childProcs \cup {next}
          /\ next' = next + 1 /\ pc' = "fork"
          /\ UNCHANGED <<chosen, errorCount, results, alarm, childVars>>

\* loopTasks and loopTasksWithResults: a task that fails ends the process if
\* results are collected; a task that hangs keeps it from going on.
RunInLoop ==
    /\ pc = "fork" /\ Loop /\ next < Total /\ next \notin hangs
    /\ child' = [child EXCEPT ![next] = "reaped"]
    /\ \/ /\ outcome' = [outcome EXCEPT ![next] = "ok"]
          /\ file' = IF sub.results THEN [file EXCEPT ![FileOf(next)] = next] ELSE file
          /\ next' = next + 1 /\ UNCHANGED pc
       \/ /\ outcome' = [outcome EXCEPT ![next] = "failed"]
          /\ pc' = IF sub.results THEN "exited" ELSE pc
          /\ next' = IF sub.results THEN next ELSE next + 1
          /\ UNCHANGED file
    /\ UNCHANGED <<chosen, childProcs, errorCount, results, alarm, status>>

\* Mutants: any child counts as one of those; the entry stays.
DeletedAny(p) == IF childProcs = {} THEN {}
                 ELSE childProcs \ {CHOOSE q \in childProcs : TRUE}
DeletedNot(p) == childProcs

Deleted(p) == childProcs \ {p}

\* Mutant: the exit code alone, without the signal.
IsErrorCode(s) == s \div 256 # 0

IsError(s) == s # 0

Waiting == /\ pc = "fork" /\ ~Loop /\ ~CanFork /\ sub.waits
           /\ next < Total \/ childProcs # {}

\* wait() returns any child of the process.  It answers -1 only if $throttle is
\* 0 and the tasks cannot start; the queue dies of it.
Wait ==
    /\ Waiting
    /\ \/ \E p \in Pids :
             /\ child[p] = "exited"
             /\ child' = [child EXCEPT ![p] = "reaped"]
             /\ childProcs' = Deleted(p)
             /\ errorCount' = IF sub.counts /\ IsError(status[p])
                              THEN errorCount + 1 ELSE errorCount
             /\ UNCHANGED pc
       \/ /\ \A p \in Pids : child[p] \in {"none", "reaped"}
          /\ next < Total
          /\ pc' = "died" /\ UNCHANGED <<child, childProcs, errorCount>>
    /\ UNCHANGED <<chosen, next, results, alarm, status, outcome, file>>

\* Mutant: one child is left.
AllExitedButOne == Cardinality(childProcs) <= 1

AllExited == childProcs = {}

Finish == /\ pc = "fork" /\ next = Total /\ (sub.waits => AllExited)
          /\ pc' = IF sub.results THEN "collect" ELSE "returned"
          /\ next' = 0
          /\ UNCHANGED <<chosen, childProcs, errorCount, results, alarm, childVars>>

\* retrieve of a partial file dies or answers undef.
Collect ==
    /\ pc = "collect"
    /\ \/ /\ next = Total /\ pc' = "returned"
          /\ UNCHANGED <<next, results, file>>
       \/ /\ next < Total
          /\ results' = [results EXCEPT ![next] = IF file[next] = Partial THEN Undef
                                                  ELSE file[next]]
          /\ file' = [file EXCEPT ![next] = Undef]
          /\ next' = next + 1 /\ UNCHANGED pc
       \/ /\ next < Total /\ file[next] = Partial
          /\ pc' = "died" /\ UNCHANGED <<next, results, file>>
    /\ UNCHANGED <<chosen, childProcs, errorCount, alarm, child, status, outcome>>

\* Mutant: the signal goes to the process group, as in simultaneousTasks.
SignalledNone == {}

\* The children the handler's kill reaches: a child leads no process group.
Signalled == IF sub.kills = "process" THEN childProcs ELSE {}

\* SIGALRM: the handler kills the children known so far and returns to where
\* the subroutine was.
Alarm ==
    /\ MayTimeOut /\ alarm = "none" /\ sub.kills # "none"
    /\ pc \in {"fork", "record"}
    /\ alarm' = IF next = Total THEN "waiting" ELSE "forking"
    /\ LET dead == {p \in Signalled : child[p] \in {"running", "storing"}} IN
       /\ child' = [p \in Pids |-> IF p \in dead THEN "exited" ELSE child[p]]
       /\ status' = [p \in Pids |-> IF p \in dead THEN SIGKILL ELSE status[p]]
       /\ outcome' = [p \in Pids |-> IF p \in dead THEN "killed" ELSE outcome[p]]
    /\ UNCHANGED <<chosen, parentVars, file>>

Parent == Fork \/ Record \/ RunInLoop \/ Wait \/ Finish \/ Collect

Next == Parent \/ Alarm \/ EndBackground \/ \E t \in Tasks : Child(t) \/ Killed(t)

\* The operating system schedules every process.
Spec == /\ Init /\ [][Next]_vars
        /\ WF_vars(Parent) /\ \A t \in Tasks : WF_vars(Child(t))
-----------------------------------------------------------------------------
(* Properties *)

\* Every variable keeps its type; only children that were forked are waited for.
TypeOK == /\ sub \in Subs /\ throttle \in Nat /\ hangs \subseteq Tasks
          /\ pc \in Pcs /\ next \in 0 .. Total
          /\ childProcs \subseteq {t \in Tasks : child[t] \notin {"none", "reaped"}}
          /\ errorCount \in 0 .. Total + 1
          /\ results \in [Tasks -> 0 .. Total]
          /\ alarm \in {"none", "forking", "waiting"}
          /\ child \in [Pids -> Places] /\ outcome \in [Pids -> Outcomes]
          /\ status \in [Pids -> 0 .. 255 * 256]
          /\ file \in [0 .. Total -> 0 .. Total + 1]

\* Never more than $throttle tasks at a time, also when wait() returns a child
\* that another subroutine started.
ThrottleKept == sub.throttled =>
    Cardinality({t \in Tasks : child[t] \in {"running", "storing"}}) <= throttle

\* "will exit when the last task completes": when a subroutine returns, every
\* task was started and is over, and nobody is left to be waited for.
ReturnsAfterTheLast == pc \in {"collect", "returned"} /\ sub.waits =>
    \A t \in Tasks : child[t] = "reaped" /\ outcome[t] # "none"

\* "The results are provided as an array of array references": each one is that
\* of the task with the same index, undef for one that failed, and no file stays.
ResultsAreOwn == pc = "returned" /\ sub.results =>
    \A t \in Tasks : /\ outcome[t] = "ok" => results[t] = t
                     /\ outcome[t] # "ok" => results[t] = Undef
                     /\ file[t] = Undef

Failures == Cardinality({t \in Tasks : outcome[t] \in {"failed", "killed"}})

\* "children exited with errors": no failed task is missing from the count; a
\* background child may be in it, too.
ErrorsCounted == pc = "returned" /\ sub.counts =>
    errorCount - Failures \in 0 .. (IF child[Background] = "reaped" THEN 1 ELSE 0)

\* The same of the subroutines that do not shift the exit code away.
SubroutineErrorsCounted == sub # simultaneousTasks => ErrorsCounted

\* Every subroutine returns, if its tasks end, fork works, no child is killed
\* and at least one task may run.
Undisturbed == /\ hangs = {} /\ pc # "exited" /\ throttle > 0
               /\ \A p \in Pids : outcome[p] # "killed"
Returns == <>(pc = "returned" \/ ~Undisturbed)

\* "Attempt to clean up if we hit a timeout": after a SIGALRM that arrives when
\* all children are started the subroutine ends, also if tasks hang.
TimeoutEnds == alarm = "waiting" ~> pc = "returned"

\* The same of the handler that sends its signal to the processes.
KillEnds == (alarm = "waiting" /\ sub = simultaneousSubroutines) ~> pc = "returned"
=============================================================================
