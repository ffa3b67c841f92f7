------------------------------ MODULE FifoReports ------------------------------
(***************************************************************************)
(* simultaneousTasksEvalAndPrint of perf/.../TJWH/JobControl.pm: a parent  *)
(* forks one child per task and collects what each one prints through a    *)
(* FIFO of its own, whose name is the same in every process.  The parent   *)
(* makes the FIFO after the fork, so a fast child may get to the name      *)
(* first and make a plain file of it.                                      *)
(***************************************************************************)
EXTENDS JobControl

CONSTANT Lines         \* lines a task prints

ASSUME FifoAssumption == Lines \in Nat

\* What a child prints: JOBCONTROL-START, its lines, JOBCONTROL-END.
Parts == Lines + 2

VARIABLES
    parent,        \* where the parent is
    index,         \* taskIndex while it forks, index while it reads
    taskHash,      \* tasks whose report has not been read to the end
    output,        \* lines kept of each task's report
    pos,           \* parts read since the last open
    path,          \* what /tmp/jobcontrol.fifo.<task> is
    handle,        \* what each child opened under that name
    wrote,         \* parts each child has written
    died           \* children that were killed

fifoParentVars == <<parent, index, childProcs, taskHash, output, pos>>
fifoChildVars == <<child, handle, wrote, died>>
fifoVars == <<fifoParentVars, path, fifoChildVars>>

ParentPcs == {"fork", "test", "unlink", "mkfifo", "scan", "open", "read", "wait",
              "returned", "exited"}
ChildPcs == {"none", "task", "opening", "write", "exited"}
Kinds == {"none", "plain", "fifo"}

\* The name may be left from an earlier run, as a FIFO or as a plain file.
FifoInit == /\ parent = "fork" /\ index = 0
            /\ childProcs = {} /\ taskHash = {}
            /\ output = [t \in Tasks |-> 0] /\ pos = 0
            /\ path \in [Tasks -> Kinds]
            /\ child = [t \in Tasks |-> "none"]
            /\ handle = [t \in Tasks |-> "none"]
            /\ wrote = [t \in Tasks |-> 0]
            /\ died = {}
-----------------------------------------------------------------------------
(* The children *)

Eval(t) == /\ child[t] = "task"
           /\ \/ /\ path[t] = "fifo"
                 /\ child' = [child EXCEPT ![t] = "opening"]
                 /\ handle' = [handle EXCEPT ![t] = "fifo"]
                 /\ UNCHANGED path
              \/ /\ path[t] # "fifo"
                 /\ child' = [child EXCEPT ![t] = "write"]
                 /\ handle' = [handle EXCEPT ![t] = "plain"]
                 /\ path' = [path EXCEPT ![t] = "plain"]
           /\ UNCHANGED <<fifoParentVars, wrote, died>>

Write(t) == /\ child[t] = "write"
            /\ \/ /\ wrote[t] < Parts
                  /\ wrote' = [wrote EXCEPT ![t] = @ + 1]
                  /\ UNCHANGED child
               \/ /\ wrote[t] = Parts
                  /\ child' = [child EXCEPT ![t] = "exited"]
                  /\ UNCHANGED wrote
            /\ UNCHANGED <<fifoParentVars, path, handle, died>>

FifoKilled(t) == /\ MayDie /\ child[t] \in {"task", "opening", "write"}
                 /\ child' = [child EXCEPT ![t] = "exited"]
                 /\ died' = died \cup {t}
                 /\ UNCHANGED <<fifoParentVars, path, handle, wrote>>

FifoChild(t) == Eval(t) \/ Write(t)
-----------------------------------------------------------------------------
(* The parent: one child and one FIFO per task *)

\* A fork that fails answers undef, and the parent takes itself for the child:
\* it runs the task and exits, or waits for ever for a reader of an old FIFO.
FifoFork == /\ parent = "fork"
            /\ \/ /\ parent' = "test"
                  /\ child' = [child EXCEPT ![index] = "task"]
                  /\ taskHash' = taskHash \cup {index}
                  /\ childProcs' = childProcs \cup {index}
                  /\ UNCHANGED path
               \/ /\ ForkMayFail /\ parent' = "exited"
                  /\ path' = [path EXCEPT ![index] = IF @ = "fifo" THEN @ ELSE "plain"]
                  /\ UNCHANGED <<child, taskHash, childProcs>>
            /\ UNCHANGED <<index, output, pos, handle, wrote, died>>

\* Mutant: a child is waited for before its report is read.
NextTaskWaits == IF index + 1 < Total THEN parent' = "fork" /\ index' = index + 1
                                      ELSE parent' = "wait" /\ index' = 0

\* After the last task the reports are read, from the first one on.
NextTask == IF index + 1 < Total THEN parent' = "fork" /\ index' = index + 1
                                 ELSE parent' = "scan" /\ index' = 0

IsFifo(t) == path[t] = "fifo"

Test == /\ parent = "test"
        /\ \/ IsFifo(index) /\ NextTask
           \/ ~IsFifo(index) /\ parent' = "unlink" /\ UNCHANGED index
        /\ UNCHANGED <<childProcs, taskHash, output, pos, path, fifoChildVars>>

Unlink == /\ parent = "unlink"
          /\ parent' = "mkfifo" /\ path' = [path EXCEPT ![index] = "none"]
          /\ UNCHANGED <<index, childProcs, taskHash, output, pos, fifoChildVars>>

\* mkfifo fails unseen if the name is there again.
Mkfifo == /\ parent = "mkfifo"
          /\ path' = [path EXCEPT ![index] = IF @ = "none" THEN "fifo" ELSE @]
          /\ NextTask
          /\ UNCHANGED <<childProcs, taskHash, output, pos, fifoChildVars>>
-----------------------------------------------------------------------------
(* The parent: the reports *)

Scan == /\ parent = "scan"
        /\ \/ index = Total /\ parent' = "wait" /\ UNCHANGED index
           \/ index \in taskHash /\ parent' = "open" /\ UNCHANGED index
           \/ index \in Tasks \ taskHash /\ index' = index + 1 /\ UNCHANGED parent
        /\ UNCHANGED <<childProcs, taskHash, output, pos, path, fifoChildVars>>

\* Opening a FIFO waits for the child, and the child's open for the parent's.
Open == /\ parent = "open"
        /\ \/ /\ path[index] = "plain" /\ UNCHANGED child
           \/ /\ path[index] = "fifo" /\ child[index] = "opening"
              /\ child' = [child EXCEPT ![index] = "write"]
        /\ parent' = "read" /\ pos' = 0
        /\ UNCHANGED <<index, childProcs, taskHash, output, path, handle, wrote, died>>

\* The lines kept after one more part, which is START, a line, or END.
Kept(n) == IF pos = 0 THEN 0 ELSE n + 1

\* Mutant: the report counts as read without its last line.
IsEndEarly(p) == p >= Lines

IsEnd(p) == p = Parts - 1

ReadPart ==
    /\ parent = "read" /\ pos < wrote[index]
    /\ \/ /\ ~IsEnd(pos)
          /\ pos' = pos + 1
          /\ output' = [output EXCEPT ![index] = Kept(@)]
          /\ UNCHANGED <<parent, index, taskHash, path>>
       \/ /\ IsEnd(pos)
          /\ taskHash' = taskHash \ {index}
          /\ path' = [path EXCEPT ![index] = "none"]
          /\ parent' = "scan" /\ index' = index + 1
          /\ UNCHANGED <<output, pos>>
    /\ UNCHANGED <<childProcs, fifoChildVars>>

\* The end of a plain file is where it is; that of a FIFO is the writer's close.
AtEof == pos = wrote[index] /\ (handle[index] = "plain" \/ child[index] = "exited")

ReadEof == /\ parent = "read" /\ AtEof
           /\ parent' = "scan" /\ index' = index + 1
           /\ UNCHANGED <<childProcs, taskHash, output, pos, path, fifoChildVars>>

FifoWait == /\ parent = "wait"
            /\ \E t \in childProcs :
                  /\ child[t] = "exited"
                  /\ childProcs' = childProcs \ {t}
            /\ index' = 0
            /\ parent' = IF childProcs' = {} THEN "returned" ELSE "scan"
            /\ UNCHANGED <<taskHash, output, pos, path, fifoChildVars>>

FifoParent == \/ FifoFork \/ Test \/ Unlink \/ Mkfifo
              \/ Scan \/ Open \/ ReadPart \/ ReadEof \/ FifoWait

FifoNext == FifoParent \/ \E t \in Tasks : FifoChild(t) \/ FifoKilled(t)

\* The operating system schedules every process; nobody has to be killed.
FifoSpec == /\ FifoInit /\ [][FifoNext]_fifoVars
            /\ WF_fifoVars(FifoParent) /\ \A t \in Tasks : WF_fifoVars(FifoChild(t))
-----------------------------------------------------------------------------
(* Properties *)

\* Every variable keeps its type; above all, no line is in the output twice.
FifoTypeOK == /\ parent \in ParentPcs /\ index \in 0 .. Total
              /\ childProcs \subseteq Tasks /\ taskHash \subseteq Tasks
              /\ output \in [Tasks -> 0 .. Lines] /\ pos \in 0 .. Parts
              /\ path \in [Tasks -> Kinds]
              /\ child \in [Tasks -> ChildPcs] /\ handle \in [Tasks -> Kinds]
              /\ wrote \in [Tasks -> 0 .. Parts] /\ died \subseteq Tasks

\* A child that was killed, or made a plain file before the FIFO was there.
Disturbed(t) == t \in died \/ handle[t] = "plain"

\* When the subroutine returns, every task's report is complete and its FIFO is
\* gone, whatever happened to the other children.
ReportsWhole == parent = "returned" =>
    \A t \in Tasks : Disturbed(t) \/ /\ output[t] = Lines
                                     /\ path[t] = "none" /\ child[t] = "exited"

\* The subroutine returns, unless a child is disturbed or a fork fails.
ReturnsUndisturbed ==
    <>(parent \in {"returned", "exited"} \/ \E t \in Tasks : Disturbed(t))

\* "simultaneousTasksEvalAndPrint will exit when the last task completes."
ExitsAtTheEnd ==
    (\A t \in Tasks : child[t] \in {"opening", "write", "exited"}) ~> parent = "returned"
=============================================================================
