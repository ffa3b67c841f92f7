----------------------------- MODULE JobControlProofs -----------------------------
(***************************************************************************)
(* The safety of JobQueue for any number of tasks, every subroutine and    *)
(* limit, and whatever children fail, hang, are killed or are foreign; and *)
(* that of FifoReports for any number of tasks and of lines.               *)
(***************************************************************************)
EXTENDS JobQueue, FifoReports, FiniteSetTheorems, TLAPS

(* The inductive invariant, in named parts. *)

\* The values of $?.
Statuses == 0 .. 255 * 256

\* TypeOK without the bound of errorCount, which needs the counting argument.
Types == /\ sub \in Subs /\ throttle \in Nat /\ hangs \subseteq Tasks
         /\ pc \in Pcs /\ next \in 0 .. Total
         /\ childProcs \subseteq Tasks
         /\ results \in [Tasks -> 0 .. Total]
         /\ alarm \in {"none", "forking", "waiting"}
         /\ child \in [Pids -> Places] /\ outcome \in [Pids -> Outcomes]
         /\ status \in [Pids -> Statuses]
         /\ file \in [0 .. Total -> 0 .. Total + 1]

\* A child that is not waited for yet.
Alive(p) == child[p] \in {"running", "storing", "exited"}

\* Who is forked, known to the parent and over at which place of the parent.
Positions ==
    /\ pc = "record" => next < Total /\ Alive(next)
    /\ pc = "fork" => \A t \in Tasks : child[t] = "none" <=> t >= next
    /\ pc = "record" => \A t \in Tasks : child[t] = "none" <=> t > next
    /\ \A t \in Tasks : t \in childProcs <=> Alive(t) /\ ~(pc = "record" /\ t = next)
    /\ pc \in {"collect", "returned"} /\ sub.waits =>
          \A t \in Tasks : child[t] = "reaped"
    /\ \A t \in Tasks : outcome[t] # "none" <=> child[t] \in {"exited", "reaped"}

Limit == sub.throttled => /\ Cardinality(childProcs) <= throttle
                          /\ pc = "record" => Cardinality(childProcs) < throttle

\* The file of a task that is not collected yet, and what is left of one that is.
FileKept(t) == /\ results[t] = Undef
               /\ child[t] \in {"none", "running"} => file[t] = Undef
               /\ outcome[t] = "ok" => file[t] = t
               /\ outcome[t] = "failed" => file[t] = Undef
               /\ outcome[t] \in {"none", "killed"} => file[t] \in {Undef, Partial}
Collected(t) == /\ results[t] = (IF outcome[t] = "ok" THEN t ELSE Undef)
                /\ file[t] = Undef

Files == sub.results =>
    /\ pc \in {"fork", "record"} => \A t \in Tasks : FileKept(t)
    /\ pc = "collect" => \A t \in Tasks : IF t < next THEN Collected(t) ELSE FileKept(t)
    /\ pc = "returned" => \A t \in Tasks : Collected(t)

\* The children whose status was taken for an error.
Counted == {p \in Pids : child[p] = "reaped" /\ IsError(status[p])}

Errors == /\ errorCount = IF sub.counts THEN Cardinality(Counted) ELSE 0
          /\ sub.counts /\ sub # simultaneousTasks =>
                \A t \in Tasks : outcome[t] # "none" =>
                    (IsError(status[t]) <=> outcome[t] \in {"failed", "killed"})

IInv == Types /\ Positions /\ Limit /\ Files /\ Errors
-----------------------------------------------------------------------------
\* What the subroutines have in common.
LEMMA SubFlags ==
  ASSUME NEW s \in Subs
  PROVE  /\ s.throttled \in BOOLEAN /\ s.results \in BOOLEAN /\ s.counts \in BOOLEAN
         /\ s.loop \in BOOLEAN /\ s.waits \in BOOLEAN
         /\ s.results => s.waits
         /\ s.counts => s.waits /\ ~s.loop
         /\ s.loop => s.throttled
<1> USE JobAssumption
<1>1. CASE s = simultaneousTasks
  BY <1>1, Zenon DEF simultaneousTasks
<1>2. CASE s = simultaneousTasksEval
  BY <1>2, Zenon DEF simultaneousTasksEval
<1>3. CASE s = simultaneousSubroutines
  BY <1>3, Zenon DEF simultaneousSubroutines
<1>4. CASE s = simultaneousSubroutinesWithResults
  BY <1>4, Zenon DEF simultaneousSubroutinesWithResults
<1>5. CASE s = taskQueue
  BY <1>5, Zenon DEF taskQueue
<1>6. CASE s = taskQueueEval
  BY <1>6, Zenon DEF taskQueueEval
<1>7. CASE s = taskQueueSubroutines
  BY <1>7, Zenon DEF taskQueueSubroutines
<1>8. CASE s = taskQueueSubroutinesWithResults
  BY <1>8, Zenon DEF taskQueueSubroutinesWithResults
<1>9. CASE s = runBackgroundTasks
  BY <1>9, Zenon DEF runBackgroundTasks
<1>10. CASE s = runBackgroundSubroutines
  BY <1>10, Zenon DEF runBackgroundSubroutines
<1> QED BY <1>1, <1>2, <1>3, <1>4, <1>5, <1>6, <1>7, <1>8, <1>9, <1>10 DEF AllSubs

\* A child that failed exits with a status, and one that is counted with an error.
LEMMA SubStatus ==
  ASSUME NEW s \in Subs
  PROVE  /\ ExitStatus(s.failRc) \in Statuses
         /\ s.counts /\ s # simultaneousTasks => IsError(ExitStatus(s.failRc))
<1>1. \/ s.failRc \in {0, 1, 255, 256} /\ ~s.counts
      \/ s.failRc \in {1, 255}
      \/ s = simultaneousTasks /\ s.failRc = 256
  <2>1. CASE s = simultaneousTasks
    BY <2>1 DEF simultaneousTasks
  <2>2. CASE s = simultaneousTasksEval
    BY <2>2 DEF simultaneousTasksEval
  <2>3. CASE s = simultaneousSubroutines
    BY <2>3 DEF simultaneousSubroutines
  <2>4. CASE s = simultaneousSubroutinesWithResults
    BY <2>4 DEF simultaneousSubroutinesWithResults
  <2>5. CASE s = taskQueue
    BY <2>5 DEF taskQueue
  <2>6. CASE s = taskQueueEval
    BY <2>6 DEF taskQueueEval
  <2>7. CASE s = taskQueueSubroutines
    BY <2>7 DEF taskQueueSubroutines
  <2>8. CASE s = taskQueueSubroutinesWithResults
    BY <2>8 DEF taskQueueSubroutinesWithResults
  <2>9. CASE s = runBackgroundTasks
    BY <2>9 DEF runBackgroundTasks
  <2>10. CASE s = runBackgroundSubroutines
    BY <2>10 DEF runBackgroundSubroutines
  <2> QED BY JobAssumption, <2>1, <2>2, <2>3, <2>4, <2>5, <2>6, <2>7, <2>8, <2>9, <2>10
          DEF AllSubs
<1>2. ExitStatus(256) = 0 /\ ExitStatus(0) = 0 /\ ExitStatus(1) = 256 /\ ExitStatus(255) = 65280
  BY DEF ExitStatus
<1>3. s.failRc \in {0, 1, 255, 256} /\ (s.failRc \in {1, 255} => ExitStatus(s.failRc) # 0)
  BY <1>1, <1>2
<1>4. ExitStatus(s.failRc) \in Statuses
  <2>1. 0 \in Statuses /\ 256 \in Statuses /\ 65280 \in Statuses
    BY DEF Statuses
  <2> QED BY <1>2, <1>3, <2>1
<1>5. s.counts /\ s # simultaneousTasks => s.failRc \in {1, 255}
  BY <1>1, Zenon
<1> QED BY <1>3, <1>4, <1>5, Zenon DEF IsError

LEMMA OtherStatus ==
  /\ 0 \in Statuses /\ SIGKILL \in Statuses /\ SIGKILL # 0
  /\ ExitStatus(0) = 0 /\ ExitStatus(1) \in Statuses
BY DEF Statuses, SIGKILL, ExitStatus

\* Sets of tasks and of processes are finite.
LEMMA TasksFinite ==
  /\ \A S \in SUBSET Tasks : IsFiniteSet(S) /\ Cardinality(S) \in 0 .. Total
  /\ \A S \in SUBSET Pids : IsFiniteSet(S) /\ Cardinality(S) \in 0 .. Total + 1
<1>1. /\ IsFiniteSet(0 .. Total - 1) /\ Cardinality(0 .. Total - 1) = Total
      /\ IsFiniteSet(0 .. Total) /\ Cardinality(0 .. Total) = Total + 1
  BY JobControlAssumption, FS_Interval
<1>2. Pids = 0 .. Total /\ Tasks = 0 .. Total - 1
  BY JobControlAssumption DEF Pids, Tasks, Background
<1>3. ASSUME NEW S \in SUBSET Tasks
      PROVE  IsFiniteSet(S) /\ Cardinality(S) \in 0 .. Total
  <2>1. IsFiniteSet(S) /\ Cardinality(S) <= Total
    BY <1>1, <1>2, FS_Subset
  <2> QED BY <2>1, FS_CardinalityType, JobControlAssumption
<1>4. ASSUME NEW S \in SUBSET Pids
      PROVE  IsFiniteSet(S) /\ Cardinality(S) \in 0 .. Total + 1
  <2>1. IsFiniteSet(S) /\ Cardinality(S) <= Total + 1
    BY <1>1, <1>2, FS_Subset
  <2> QED BY <2>1, FS_CardinalityType, JobControlAssumption
<1> QED BY <1>3, <1>4

\* The numbers of the processes and the marks of a file are different.
LEMMA Numbers ==
  /\ Total \in Nat \ {0} /\ Tasks = 0 .. Total - 1 /\ Pids = 0 .. Total
  /\ Background \in Pids \ Tasks /\ Undef \notin Tasks /\ Partial \notin Tasks
  /\ Undef # Partial /\ Undef \in 0 .. Total
  /\ Undef \in 0 .. Total + 1 /\ Partial \in 0 .. Total + 1
  BY JobControlAssumption DEF Tasks, Pids, Background, Undef, Partial

LEMMA NextIsTask ==
  ASSUME NEW n \in 0 .. Total, n < Total
  PROVE  n \in Tasks /\ n \in Nat /\ n + 1 \in 0 .. Total /\ n \in 0 .. Total + 1
BY JobControlAssumption DEF Tasks

LEMMA InitIInv == Init => IInv
<1> SUFFICES ASSUME Init PROVE IInv
  OBVIOUS
<1> USE Numbers DEF Init
<1>1. Types
  <2>1. throttle \in Nat
    BY JobAssumption
  <2>2. hangs \subseteq Tasks
    OBVIOUS
  <2>3. child \in [Pids -> Places]
    BY DEF Places
  <2>4. status \in [Pids -> Statuses]
    BY OtherStatus
  <2>5. results \in [Tasks -> 0 .. Total] /\ file \in [0 .. Total -> 0 .. Total + 1]
    OBVIOUS
  <2>6. outcome \in [Pids -> Outcomes] /\ pc \in Pcs /\ next \in 0 .. Total
    BY DEF Outcomes, Pcs
  <2>7. sub \in Subs /\ childProcs \subseteq Tasks /\ alarm \in {"none", "forking", "waiting"}
    OBVIOUS
  <2> QED BY <2>1, <2>2, <2>3, <2>4, <2>5, <2>6, <2>7 DEF Types
<1>2. \A t \in Tasks : child[t] = "none" /\ outcome[t] = "none"
  OBVIOUS
<1>3. Positions
  BY <1>2 DEF Positions, Alive
<1>4. Limit
  BY <1>1, FS_EmptySet DEF Limit, Types
<1>5. Files
  BY <1>2 DEF Files, FileKept
<1>6. Errors
  <2>1. Counted = {}
    BY DEF Counted
  <2> QED BY <1>2, <2>1, FS_EmptySet DEF Errors
<1> QED BY <1>1, <1>3, <1>4, <1>5, <1>6 DEF IInv
-----------------------------------------------------------------------------
(* The steps of the parent *)

\* A step that waits for nobody leaves the count of errors alone.
LEMMA SameCount ==
  ASSUME \A p \in Pids : child'[p] = "reaped" <=> child[p] = "reaped",
         \A p \in Pids : child[p] = "reaped" => status'[p] = status[p]
  PROVE  Counted' = Counted
BY DEF Counted, IsError

LEMMA ForkStep ==
  ASSUME IInv, Fork
  PROVE  IInv'
<1> USE Numbers DEF IInv, Fork, chosen
<1>0. /\ next \in Tasks /\ next \in Nat /\ child[next] = "none" /\ outcome[next] = "none"
      /\ sub' = sub /\ pc = "fork" /\ UNCHANGED <<next, childProcs, outcome>>
      /\ \A t \in Tasks : child[t] = "none" <=> t >= next
  <2>1. next \in Tasks /\ next \in Nat
    BY NextIsTask DEF CanFork, Types
  <2>2. child[next] = "none"
    BY <2>1 DEF Positions
  <2> QED BY <2>1, <2>2 DEF Positions
<1>1. CASE child' = [child EXCEPT ![next] = "running"] /\ pc' = "record"
  <2>1. child'[next] = "running" /\ \A p \in Pids : p # next => child'[p] = child[p]
    BY <1>0, <1>1 DEF Types
  <2>2. Types'
    BY <1>1 DEF Types, Pcs, Places
  <2>3. Positions'
    <3>1. \A t \in Tasks : child'[t] = "none" <=> t > next
      BY <1>0, <2>1
    <3>2. \A t \in Tasks : t \in childProcs <=> Alive(t)' /\ ~(t = next)
      BY <1>0, <2>1 DEF Positions, Alive
    <3>3. \A t \in Tasks : outcome[t] # "none" <=> child'[t] \in {"exited", "reaped"}
      BY <1>0, <2>1 DEF Positions
    <3>4. next' < Total /\ Alive(next)'
      BY <1>0, <2>1 DEF Alive, CanFork
    <3> QED BY <1>0, <1>1, <3>1, <3>2, <3>3, <3>4 DEF Positions
  <2>4. Limit'
    BY <1>1 DEF Limit, CanFork
  <2>5. Files'
    BY <1>0, <1>1, <2>1 DEF Files, FileKept
  <2>6. Counted' = Counted
    BY <1>0, <2>1, SameCount
  <2>7. Errors'
    BY <2>6 DEF Errors, IsError
  <2> QED BY <2>2, <2>3, <2>4, <2>5, <2>7
<1>2. CASE pc' = "exited" /\ UNCHANGED child
  <2>1. Types' /\ Limit' /\ Files'
    BY <1>2 DEF Types, Pcs, Limit, Files
  <2>2. Positions'
    BY <1>2 DEF Positions, Alive
  <2>3. Counted' = Counted
    BY <1>2, SameCount
  <2>4. Errors'
    BY <2>3 DEF Errors, IsError
  <2> QED BY <2>1, <2>2, <2>4
<1> QED BY <1>1, <1>2

LEMMA RecordStep ==
  ASSUME IInv, Record
  PROVE  IInv'
<1> USE Numbers DEF IInv, Record, chosen, childVars
<1>0. next \in Tasks /\ next + 1 \in 0 .. Total /\ next \in Nat
  BY NextIsTask DEF Types, Positions
<1>1. Types'
  BY <1>0 DEF Types, Pcs
<1>2. Positions'
  <2>1. Alive(next)
    BY DEF Positions
  <2>2. \A t \in Tasks : child[t] = "none" <=> t >= next + 1
    BY <1>0 DEF Positions
  <2> QED BY <1>0, <2>1, <2>2 DEF Positions, Alive
<1>3. Limit'
  <2>1. IsFiniteSet(childProcs) /\ Cardinality(childProcs) \in Nat
    BY TasksFinite DEF Types
  <2>2. next \notin childProcs
    BY <1>0 DEF Positions
  <2>3. Cardinality(childProcs \cup {next}) = Cardinality(childProcs) + 1
    BY <2>1, <2>2, FS_AddElement
  <2> QED BY <2>1, <2>3 DEF Limit, Types
<1>4. Files'
  <2>1. \A t : FileKept(t)' <=> FileKept(t)
    BY DEF FileKept
  <2> QED BY <2>1 DEF Files
<1>5. Errors'
  <2>1. Counted' = Counted
    BY SameCount
  <2> QED BY <2>1 DEF Errors, IsError
<1> QED BY <1>1, <1>2, <1>3, <1>4, <1>5

LEMMA RunInLoopStep ==
  ASSUME IInv, RunInLoop
  PROVE  IInv'
<1> USE Numbers DEF IInv, chosen
<1>0. /\ pc = "fork" /\ Loop /\ next \in Tasks /\ next \in Nat /\ next + 1 \in 0 .. Total
      /\ next \in 0 .. Total + 1 /\ child[next] = "none" /\ outcome[next] = "none"
      /\ child' = [child EXCEPT ![next] = "reaped"]
      /\ UNCHANGED <<chosen, childProcs, errorCount, results, alarm, status>>
  <2>1. /\ next \in Tasks /\ next \in Nat /\ next + 1 \in 0 .. Total
        /\ next \in 0 .. Total + 1
    BY NextIsTask DEF RunInLoop, Types
  <2>2. child[next] = "none"
    BY <2>1 DEF RunInLoop, Positions
  <2> QED BY <2>1, <2>2 DEF RunInLoop, Positions
<1>1. ~sub.counts /\ sub' = sub
  BY <1>0, SubFlags DEF Types, Loop
<1>2. child'[next] = "reaped" /\ \A p \in Pids : p # next => child'[p] = child[p]
  BY <1>0 DEF Types
<1>3. Limit'
  BY <1>0 DEF Limit, RunInLoop
<1>4. Errors'
  BY <1>0, <1>1, Zenon DEF Errors
<1>5. CASE /\ outcome' = [outcome EXCEPT ![next] = "ok"]
           /\ file' = IF sub.results THEN [file EXCEPT ![FileOf(next)] = next] ELSE file
           /\ next' = next + 1 /\ UNCHANGED pc
  <2>1. outcome'[next] = "ok" /\ \A p \in Pids : p # next => outcome'[p] = outcome[p]
    BY <1>0, <1>5 DEF Types
  <2>2. Types'
    <3>1. file' \in [0 .. Total -> 0 .. Total + 1]
      BY <1>0, <1>5 DEF Types, FileOf
    <3> QED BY <1>0, <1>5, <3>1 DEF Types, Places, Outcomes
  <2>3. Positions'
    BY <1>0, <1>2, <1>5, <2>1 DEF Positions, Alive
  <2>4. Files'
    <3>1. sub.results => /\ file'[next] = next
                         /\ \A t \in Tasks : t # next => file'[t] = file[t]
      BY <1>0, <1>5 DEF FileOf, Types
    <3> QED BY <1>0, <1>2, <1>5, <2>1, <3>1 DEF Files, FileKept
  <2> QED BY <1>3, <1>4, <2>2, <2>3, <2>4
<1>6. CASE /\ outcome' = [outcome EXCEPT ![next] = "failed"]
           /\ pc' = IF sub.results THEN "exited" ELSE pc
           /\ next' = IF sub.results THEN next ELSE next + 1
           /\ UNCHANGED file
  <2>1. outcome'[next] = "failed" /\ \A p \in Pids : p # next => outcome'[p] = outcome[p]
    BY <1>0, <1>6 DEF Types
  <2>2. Types'
    BY <1>0, <1>6 DEF Types, Places, Outcomes, Pcs
  <2>3. Positions'
    BY <1>0, <1>2, <1>6, <2>1 DEF Positions, Alive
  <2>4. Files'
    BY <1>0, <1>6 DEF Files
  <2> QED BY <1>3, <1>4, <2>2, <2>3, <2>4
<1> QED BY <1>5, <1>6 DEF RunInLoop

LEMMA WaitStep ==
  ASSUME IInv, Wait
  PROVE  IInv'
<1> USE Numbers DEF IInv, chosen
<1>0. /\ pc = "fork" /\ UNCHANGED <<chosen, next, results, alarm, status, outcome, file>>
      /\ next \in Nat /\ sub \in Subs
  BY DEF Wait, Waiting, Types
<1>1. ASSUME NEW p \in Pids,
             child[p] = "exited", child' = [child EXCEPT ![p] = "reaped"],
             childProcs' = Deleted(p),
             errorCount' = IF sub.counts /\ IsError(status[p])
                           THEN errorCount + 1 ELSE errorCount,
             UNCHANGED pc
      PROVE  IInv'
  <2>1. child'[p] = "reaped" /\ \A q \in Pids : q # p => child'[q] = child[q]
    BY <1>1 DEF Types
  <2>2. Types'
    BY <1>0, <1>1 DEF Types, Places, Deleted
  <2>3. Positions'
    <3>1. \A t \in Tasks : child'[t] = "none" <=> t >= next
      BY <1>0, <1>1, <2>1 DEF Positions
    <3>2. \A t \in Tasks : t \in childProcs' <=> Alive(t)'
      BY <1>0, <1>1, <2>1 DEF Positions, Alive, Deleted
    <3>3. \A t \in Tasks : outcome[t] # "none" <=> child'[t] \in {"exited", "reaped"}
      BY <1>0, <1>1, <2>1 DEF Positions
    <3> QED BY <1>0, <1>1, <3>1, <3>2, <3>3 DEF Positions
  <2>4. Limit'
    <3>1. childProcs' \in SUBSET childProcs /\ childProcs \in SUBSET Tasks
      BY <1>1 DEF Deleted, Types
    <3>2. IsFiniteSet(childProcs) /\ childProcs' \in SUBSET Tasks
      BY <3>1, TasksFinite
    <3>3. Cardinality(childProcs') <= Cardinality(childProcs)
      BY <3>1, <3>2, FS_Subset
    <3>4. Cardinality(childProcs') \in Nat /\ Cardinality(childProcs) \in Nat
      BY <3>1, <3>2, TasksFinite
    <3> QED BY <1>0, <1>1, <3>3, <3>4 DEF Limit, Types
  <2>5. Files'
    <3>1. \A t \in Tasks : FileKept(t) => FileKept(t)'
      BY <1>0, <1>1, <2>1 DEF FileKept
    <3> QED BY <1>0, <1>1, <3>1 DEF Files
  <2>6. Errors'
    <3>1. Counted \in SUBSET Pids /\ p \notin Counted
      BY <1>1 DEF Counted
    <3>2. Counted' = IF IsError(status[p]) THEN Counted \cup {p} ELSE Counted
      BY <1>0, <1>1, <2>1 DEF Counted, IsError
    <3>3. IsFiniteSet(Counted) /\ Cardinality(Counted) \in Nat
      BY <3>1, TasksFinite
    <3>4. Cardinality(Counted \cup {p}) = Cardinality(Counted) + 1
      BY <3>1, <3>3, FS_AddElement
    <3>5. errorCount' = IF sub.counts THEN Cardinality(Counted)' ELSE 0
      BY <1>1, <3>2, <3>4, Zenon DEF Errors
    <3>6. sub' = sub /\ outcome' = outcome /\ status' = status
      BY <1>0
    <3> QED BY <3>5, <3>6 DEF Errors, IsError
  <2> QED BY <2>2, <2>3, <2>4, <2>5, <2>6
<1>2. CASE pc' = "died" /\ UNCHANGED <<child, childProcs, errorCount>>
  <2>1. Types' /\ Limit' /\ Files'
    BY <1>0, <1>2 DEF Types, Pcs, Limit, Files
  <2>2. Positions'
    BY <1>0, <1>2 DEF Positions, Alive
  <2>3. Counted' = Counted
    BY <1>0, <1>2, SameCount
  <2>4. Errors'
    BY <1>0, <1>2, <2>3 DEF Errors, IsError
  <2> QED BY <2>1, <2>2, <2>4
<1> QED BY <1>1, <1>2 DEF Wait

LEMMA FinishStep ==
  ASSUME IInv, Finish
  PROVE  IInv'
<1> USE Numbers DEF IInv, Finish, chosen, childVars
<1>0. /\ pc = "fork" /\ next = Total /\ sub \in Subs /\ pc' \in {"collect", "returned"}
      /\ UNCHANGED <<sub, throttle, childProcs, results, child, outcome, status, file,
                     errorCount>>
  BY DEF Types
<1>1. \A t \in Tasks : ~(t >= Total)
  OBVIOUS
<1>2. sub.waits => \A t \in Tasks : child[t] = "reaped"
  <2> SUFFICES ASSUME sub.waits, NEW t \in Tasks PROVE child[t] = "reaped"
    OBVIOUS
  <2>1. ~Alive(t)
    BY <1>0 DEF AllExited, Positions
  <2>2. child[t] # "none"
    BY <1>0, <1>1 DEF Positions
  <2> QED BY <2>1, <2>2 DEF Alive, Types, Places
<1>3. Types'
  BY DEF Types, Pcs
<1>4. Positions'
  BY <1>0, <1>2 DEF Positions, Alive
<1>5. Limit'
  BY <1>0 DEF Limit
<1>6. Files'
  <2>1. sub.results => pc' = "collect" /\ next' = 0
    OBVIOUS
  <2>2. \A t \in Tasks : FileKept(t) => FileKept(t)'
    BY <1>0 DEF FileKept
  <2>3. \A t \in Tasks : ~(t < 0)
    OBVIOUS
  <2> QED BY <1>0, <2>1, <2>2, <2>3 DEF Files
<1>7. Errors'
  <2>1. Counted' = Counted
    BY <1>0, SameCount
  <2> QED BY <1>0, <2>1 DEF Errors, IsError
<1> QED BY <1>3, <1>4, <1>5, <1>6, <1>7

LEMMA CollectStep ==
  ASSUME IInv, Collect
  PROVE  IInv'
<1> USE Numbers DEF IInv, chosen
<1>0. /\ pc = "collect" /\ sub \in Subs /\ next \in 0 .. Total
      /\ UNCHANGED <<chosen, childProcs, errorCount, alarm, child, status, outcome>>
      /\ pc' \in {"collect", "returned", "died"}
      /\ pc' = "died" \/ pc' = "returned" \/ pc' = "collect"
  BY DEF Collect, Types
<1>1. Errors'
  <2>1. Counted' = Counted
    BY <1>0, SameCount
  <2> QED BY <1>0, <2>1 DEF Errors, IsError
<1>2. Limit'
  BY <1>0 DEF Limit
<1>3. Positions'
  BY <1>0 DEF Positions, Alive
<1>4. CASE next = Total /\ pc' = "returned" /\ UNCHANGED <<next, results, file>>
  <2>1. Types'
    BY <1>0, <1>4 DEF Types, Pcs
  <2>2. \A t \in Tasks : t < Total
    OBVIOUS
  <2>3. \A t \in Tasks : Collected(t)' <=> Collected(t)
    BY <1>0, <1>4 DEF Collected
  <2>4. Files'
    BY <1>0, <1>4, <2>2, <2>3 DEF Files
  <2> QED BY <1>1, <1>2, <1>3, <2>1, <2>4
<1>5. CASE /\ next < Total
           /\ results' = [results EXCEPT ![next] = IF file[next] = Partial THEN Undef
                                                   ELSE file[next]]
           /\ file' = [file EXCEPT ![next] = Undef]
           /\ next' = next + 1 /\ UNCHANGED pc
  <2>0. next \in Tasks /\ next \in Nat /\ next + 1 \in 0 .. Total
    BY <1>0, <1>5, NextIsTask
  <2>1. /\ results'[next] = (IF file[next] = Partial THEN Undef ELSE file[next])
        /\ file'[next] = Undef
        /\ \A t \in Tasks : t # next => results'[t] = results[t] /\ file'[t] = file[t]
    BY <1>5, <2>0 DEF Types
  <2>2. Types'
    <3>1. \A x \in 0 .. Total + 1 : x # Partial => x \in 0 .. Total
      BY DEF Partial
    <3>2. file[next] \in 0 .. Total + 1
      BY <2>0 DEF Types
    <3>3. results' \in [Tasks -> 0 .. Total]
      BY <1>5, <3>1, <3>2 DEF Types
    <3> QED BY <1>0, <1>5, <2>0, <3>3 DEF Types
  <2>3. Files'
    <3> SUFFICES ASSUME sub.results, NEW t \in Tasks
                 PROVE  IF t < next' THEN Collected(t)' ELSE FileKept(t)'
      BY <1>0, <1>5 DEF Files
    <3>1. /\ t < next => Collected(t)
          /\ ~(t < next) => FileKept(t)
          /\ t < next' <=> t < next \/ t = next
      BY <1>0, <1>5, <2>0 DEF Files
    <3>2. CASE t # next
      BY <1>0, <2>1, <3>1, <3>2 DEF FileKept, Collected
    <3>3. CASE t = next
      <4>1. sub.waits
        BY <1>0, SubFlags
      <4>2. outcome[t] \in {"ok", "failed", "killed"}
        BY <1>0, <4>1 DEF Positions, Types, Outcomes
      <4>3. FileKept(t)
        BY <2>0, <3>1, <3>3
      <4>4. Collected(t)'
        BY <1>0, <2>1, <3>3, <4>2, <4>3 DEF FileKept, Collected
      <4> QED BY <3>1, <3>3, <4>4
    <3> QED BY <3>2, <3>3
  <2> QED BY <1>1, <1>2, <1>3, <2>2, <2>3
<1>6. CASE pc' = "died" /\ UNCHANGED <<next, results, file>>
  BY <1>0, <1>1, <1>2, <1>3, <1>6 DEF Types, Pcs, Files
<1> QED BY <1>4, <1>5, <1>6 DEF Collect
-----------------------------------------------------------------------------
(* The steps of the children, and the alarm *)

\* While a task of a subroutine with results is on, nothing is collected.
LEMMA StillForking ==
  ASSUME IInv, NEW t \in Tasks, child[t] \in {"running", "storing"}, sub.results
  PROVE  pc \notin {"collect", "returned"}
BY SubFlags DEF IInv, Types, Positions

\* A task is over: its place, what became of it and its status change, and nobody
\* was waited for.
LEMMA TaskEnds ==
  ASSUME IInv, NEW t \in Tasks, NEW o \in {"ok", "failed", "killed"}, NEW s \in Statuses,
         child[t] \in {"running", "storing"}, Ends(t, o, s),
         UNCHANGED <<chosen, parentVars, alarm>>,
         sub.counts /\ sub # simultaneousTasks => (IsError(s) <=> o \in {"failed", "killed"}),
         file' \in [0 .. Total -> 0 .. Total + 1],
         \A u \in Tasks : u # t => file'[u] = file[u],
         sub.results /\ FileKept(t) => /\ o = "ok" => file'[t] = t
                                       /\ o = "failed" => file'[t] = Undef
                                       /\ o = "killed" => file'[t] \in {Undef, Partial}
  PROVE  IInv'
<1> USE Numbers DEF IInv, chosen, parentVars
<1>1. /\ child'[t] = "exited" /\ outcome'[t] = o /\ status'[t] = s
      /\ \A p \in Pids : p # t => /\ child'[p] = child[p] /\ outcome'[p] = outcome[p]
                                  /\ status'[p] = status[p]
      /\ child' \in [Pids -> Places] /\ outcome' \in [Pids -> Outcomes]
      /\ status' \in [Pids -> Statuses]
  <2>1. t \in Pids
    OBVIOUS
  <2>2. /\ child'[t] = "exited" /\ child' \in [Pids -> Places]
        /\ \A p \in Pids : p # t => child'[p] = child[p]
    <3>1. "exited" \in Places
      BY DEF Places
    <3> QED BY <2>1, <3>1 DEF Ends, Types
  <2>3. /\ outcome'[t] = o /\ outcome' \in [Pids -> Outcomes]
        /\ \A p \in Pids : p # t => outcome'[p] = outcome[p]
    <3>1. o \in Outcomes
      BY DEF Outcomes
    <3> QED BY <2>1, <3>1 DEF Ends, Types
  <2>4. /\ status'[t] = s /\ status' \in [Pids -> Statuses]
        /\ \A p \in Pids : p # t => status'[p] = status[p]
    BY <2>1 DEF Ends, Types
  <2> QED BY <2>2, <2>3, <2>4
<1>2. /\ sub' = sub /\ throttle' = throttle /\ pc' = pc /\ next' = next /\ results' = results
      /\ childProcs' = childProcs /\ errorCount' = errorCount
  OBVIOUS
<1>3. Types'
  BY <1>1 DEF Types
<1>4. Positions'
  <2>1. \A u \in Tasks : child'[u] = "none" <=> child[u] = "none"
    BY <1>1
  <2>2. \A u \in Tasks : Alive(u)' <=> Alive(u)
    BY <1>1 DEF Alive
  <2>3. \A u \in Tasks : outcome'[u] # "none" <=> child'[u] \in {"exited", "reaped"}
    BY <1>1 DEF Positions
  <2>4. pc = "record" => next \in Tasks
    BY NextIsTask DEF Positions, Types
  <2>5. pc = "record" => next < Total /\ Alive(next)'
    BY <2>2, <2>4 DEF Positions
  <2>6. pc \in {"collect", "returned"} /\ sub.waits => \A u \in Tasks : child'[u] = "reaped"
    BY <1>1 DEF Positions
  <2> QED BY <1>2, <2>1, <2>2, <2>3, <2>5, <2>6 DEF Positions
<1>5. Limit'
  BY <1>2 DEF Limit
<1>6. Files'
  <2>1. ASSUME sub.results, NEW u \in Tasks, FileKept(u) PROVE FileKept(u)'
    <3>1. CASE u = t
      BY <1>1, <1>2, <2>1, <3>1 DEF FileKept
    <3>2. CASE u # t
      BY <1>1, <1>2, <2>1, <3>2 DEF FileKept
    <3> QED BY <3>1, <3>2
  <2> QED BY <1>2, <2>1, StillForking DEF Files
<1>7. Errors'
  <2>1. Counted' = Counted
    BY <1>1, SameCount
  <2>2. errorCount' = IF sub'.counts THEN Cardinality(Counted)' ELSE 0
    BY <1>2, <2>1 DEF Errors
  <2>3. \A u \in Tasks : u # t => (IsError(status[u])' <=> IsError(status[u]))
    BY <1>1 DEF IsError
  <2>4. IsError(status[t])' <=> IsError(s)
    BY <1>1 DEF IsError
  <2>5. ASSUME sub.counts, sub # simultaneousTasks, NEW u \in Tasks, outcome'[u] # "none"
        PROVE  IsError(status[u])' <=> outcome'[u] \in {"failed", "killed"}
    <3>1. CASE u = t
      <4>1. IsError(s) <=> o \in {"failed", "killed"}
        BY <2>5
      <4>2. outcome'[u] = o
        BY <1>1, <3>1
      <4>3. IsError(status[u])' <=> IsError(s)
        BY <2>4, <3>1
      <4> QED BY <4>1, <4>2, <4>3
    <3>2. CASE u # t
      <4>1. outcome'[u] = outcome[u]
        BY <1>1, <3>2
      <4>2. IsError(status[u]) <=> outcome[u] \in {"failed", "killed"}
        BY <2>5, <4>1, Zenon DEF Errors
      <4>3. IsError(status[u])' <=> IsError(status[u])
        BY <2>3, <3>2
      <4> QED BY <4>1, <4>2, <4>3
    <3> QED BY <3>1, <3>2
  <2> QED BY <1>2, <2>2, <2>5 DEF Errors
<1> QED BY <1>3, <1>4, <1>5, <1>6, <1>7

LEMMA RunStep ==
  ASSUME IInv, NEW t \in Tasks, Run(t)
  PROVE  IInv'
<1>0. /\ child[t] = "running" /\ UNCHANGED <<chosen, parentVars, alarm>>
      /\ sub \in Subs /\ file \in [0 .. Total -> 0 .. Total + 1]
  BY DEF Run, IInv, Types
<1>1. CASE ~sub.results /\ Ends(t, "ok", ExitStatus(0)) /\ UNCHANGED file
  <2>1. ~IsError(ExitStatus(0)) /\ ExitStatus(0) \in Statuses
    BY OtherStatus DEF IsError
  <2> QED BY <1>0, <1>1, <2>1, TaskEnds
<1>2. CASE Ends(t, "failed", ExitStatus(sub.failRc)) /\ UNCHANGED file
  <2>1. PICK s \in Statuses : s = ExitStatus(sub.failRc)
    BY <1>0, SubStatus
  <2>2. sub.counts /\ sub # simultaneousTasks => IsError(s)
    BY <1>0, <2>1, SubStatus
  <2>3. FileKept(t) => file'[t] = Undef
    BY <1>0, <1>2 DEF FileKept
  <2>4. Ends(t, "failed", s)
    BY <1>2, <2>1
  <2> QED BY <1>0, <1>2, <2>2, <2>3, <2>4, TaskEnds
<1>3. CASE /\ sub.results
           /\ file' = [file EXCEPT ![FileOf(t)] = Partial]
           /\ child' = [child EXCEPT ![t] = "storing"]
           /\ UNCHANGED <<status, outcome>>
  <2> USE Numbers DEF IInv
  <2>1. /\ child'[t] = "storing" /\ child' \in [Pids -> Places]
        /\ \A p \in Pids : p # t => child'[p] = child[p]
        /\ file'[t] = Partial /\ file' \in [0 .. Total -> 0 .. Total + 1]
        /\ \A u \in Tasks : u # t => file'[u] = file[u]
    BY <1>0, <1>3 DEF Types, FileOf, Places
  <2>2. /\ sub' = sub /\ throttle' = throttle /\ pc' = pc /\ next' = next
        /\ results' = results /\ childProcs' = childProcs /\ errorCount' = errorCount
        /\ hangs' = hangs /\ alarm' = alarm /\ status' = status /\ outcome' = outcome
    BY <1>0, <1>3 DEF chosen, parentVars
  <2>3. Types'
    BY <2>1, <2>2 DEF Types
  <2>4. Positions'
    <3>1. \A u \in Tasks : child'[u] = "none" <=> child[u] = "none"
      BY <1>0, <2>1
    <3>2. \A u \in Tasks : Alive(u)' <=> Alive(u)
      BY <1>0, <2>1 DEF Alive
    <3>3. \A u \in Tasks : outcome'[u] # "none" <=> child'[u] \in {"exited", "reaped"}
      BY <1>0, <2>1, <2>2, SMTT(20) DEF Positions
    <3>4. pc = "record" => next \in Tasks
      BY NextIsTask DEF Positions, Types
    <3>5. pc = "record" => next < Total /\ Alive(next)'
      <4> SUFFICES ASSUME pc = "record" PROVE next < Total /\ Alive(next)'
        OBVIOUS
      <4>1. next' = next /\ next \in Tasks /\ next < Total /\ Alive(next)
        BY <2>2, <3>4 DEF Positions
      <4>2. PICK n \in Tasks : n = next
        BY <4>1
      <4>3. Alive(n)'
        BY <3>2, <4>1, <4>2
      <4> QED BY <4>1, <4>2, <4>3 DEF Alive
    <3>6. pc \in {"collect", "returned"} /\ sub.waits => \A u \in Tasks : child'[u] = "reaped"
      BY <1>0, <2>1 DEF Positions
    <3> QED BY <2>2, <3>1, <3>2, <3>3, <3>5, <3>6 DEF Positions
  <2>5. Limit'
    BY <2>2 DEF Limit
  <2>6. Files'
    <3>1. outcome[t] = "none"
      BY <1>0 DEF Positions
    <3>2. \A u \in Tasks : FileKept(u) => FileKept(u)'
      BY <2>1, <2>2, <3>1 DEF FileKept
    <3>3. pc \notin {"collect", "returned"}
      BY <1>0, <1>3, StillForking
    <3> QED BY <2>2, <3>2, <3>3 DEF Files
  <2>7. Errors'
    <3>1. Counted' = Counted
      BY <1>0, <2>1, <2>2, SameCount
    <3> QED BY <2>2, <3>1 DEF Errors, IsError
  <2> QED BY <2>3, <2>4, <2>5, <2>6, <2>7
<1> QED BY <1>1, <1>2, <1>3 DEF Run

LEMMA StoreStep ==
  ASSUME IInv, NEW t \in Tasks, Store(t)
  PROVE  IInv'
<1>1. /\ child[t] = "storing" /\ UNCHANGED <<chosen, parentVars, alarm>>
      /\ Ends(t, "ok", ExitStatus(0))
  BY DEF Store
<1>2. ~IsError(ExitStatus(0)) /\ ExitStatus(0) \in Statuses
  BY OtherStatus DEF IsError
<1>3. /\ file'[t] = t /\ file' \in [0 .. Total -> 0 .. Total + 1]
      /\ \A u \in Tasks : u # t => file'[u] = file[u]
  <2>1. t \in 0 .. Total /\ t \in 0 .. Total + 1
    BY Numbers
  <2> QED BY <2>1, Numbers DEF Store, FileOf, IInv, Types
<1> QED BY <1>1, <1>2, <1>3, TaskEnds

LEMMA KilledStep ==
  ASSUME IInv, NEW t \in Tasks, Killed(t)
  PROVE  IInv'
<1>1. /\ child[t] \in {"running", "storing"} /\ UNCHANGED <<chosen, parentVars, alarm, file>>
      /\ Ends(t, "killed", SIGKILL) /\ file \in [0 .. Total -> 0 .. Total + 1]
  BY DEF Killed, IInv, Types
<1>2. IsError(SIGKILL) /\ SIGKILL \in Statuses
  BY OtherStatus DEF IsError
<1>3. outcome[t] = "none"
  BY <1>1 DEF IInv, Positions
<1>4. FileKept(t) => file'[t] \in {Undef, Partial}
  BY <1>1, <1>3 DEF FileKept
<1> QED BY <1>1, <1>2, <1>4, TaskEnds

LEMMA EndBackgroundStep ==
  ASSUME IInv, EndBackground
  PROVE  IInv'
<1> USE Numbers DEF IInv
<1>1. PICK s \in Statuses : Ends(Background, "none", s)
  <2>1. PICK code \in {0, 1} : Ends(Background, "none", ExitStatus(code))
    BY DEF EndBackground
  <2>2. ExitStatus(code) \in Statuses
    BY OtherStatus
  <2> QED BY <2>1, <2>2
<1>2. /\ child[Background] = "running"
      /\ UNCHANGED <<sub, throttle, hangs, pc, next, childProcs, errorCount, results,
                     alarm, file>>
  BY DEF EndBackground, chosen, parentVars
<1>3. /\ child'[Background] = "exited" /\ child' \in [Pids -> Places]
      /\ \A p \in Pids : p # Background => child'[p] = child[p]
  <2>1. "exited" \in Places
    BY DEF Places
  <2> QED BY <1>1, <2>1 DEF Ends, Types
<1>4. /\ outcome' \in [Pids -> Outcomes]
      /\ \A p \in Pids : p # Background => outcome'[p] = outcome[p]
  <2>1. "none" \in Outcomes
    BY DEF Outcomes
  <2> QED BY <1>1, <2>1 DEF Ends, Types
<1>5. /\ status' \in [Pids -> Statuses]
      /\ \A p \in Pids : p # Background => status'[p] = status[p]
  BY <1>1 DEF Ends, Types
<1>6. \A t \in Tasks : /\ child'[t] = child[t] /\ outcome'[t] = outcome[t]
                        /\ status'[t] = status[t]
  BY <1>3, <1>4, <1>5
<1>7. Types'
  BY <1>2, <1>3, <1>4, <1>5 DEF Types
<1>8. Positions'
  <2>1. \A t \in Tasks : Alive(t)' <=> Alive(t)
    BY <1>6 DEF Alive
  <2>2. pc = "record" => next < Total /\ Alive(next)'
    <3> SUFFICES ASSUME pc = "record" PROVE next < Total /\ Alive(next)'
      OBVIOUS
    <3>1. next < Total /\ Alive(next) /\ next \in Tasks /\ next' = next
      BY <1>2, NextIsTask DEF Positions, Types
    <3>2. PICK n \in Tasks : n = next
      BY <3>1
    <3>3. Alive(n)'
      BY <2>1, <3>1, <3>2
    <3> QED BY <3>1, <3>2, <3>3 DEF Alive
  <2>3. \A t \in Tasks : child'[t] = "none" <=> child[t] = "none"
    BY <1>6
  <2>4. \A t \in Tasks : outcome'[t] # "none" <=> child'[t] \in {"exited", "reaped"}
    BY <1>6 DEF Positions
  <2>5. pc \in {"collect", "returned"} /\ sub.waits => \A t \in Tasks : child'[t] = "reaped"
    BY <1>6 DEF Positions
  <2> QED BY <1>2, <2>1, <2>2, <2>3, <2>4, <2>5 DEF Positions
<1>9. Limit'
  BY <1>2 DEF Limit
<1>10. Files'
  <2>1. \A t \in Tasks : (FileKept(t)' <=> FileKept(t)) /\ (Collected(t)' <=> Collected(t))
    BY <1>2, <1>6 DEF FileKept, Collected
  <2> QED BY <1>2, <2>1 DEF Files
<1>11. Errors'
  <2>1. \A p \in Pids : child'[p] = "reaped" <=> child[p] = "reaped"
    BY <1>2, <1>3
  <2>2. \A p \in Pids : child[p] = "reaped" => status'[p] = status[p]
    BY <1>2, <1>5
  <2>3. Counted' = Counted
    BY <2>1, <2>2, SameCount
  <2>4. ASSUME sub.counts, sub # simultaneousTasks, NEW t \in Tasks, outcome'[t] # "none"
        PROVE  IsError(status[t])' <=> outcome'[t] \in {"failed", "killed"}
    <3>1. status'[t] = status[t] /\ outcome'[t] = outcome[t]
      BY <1>6
    <3>2. IsError(status[t]) <=> outcome[t] \in {"failed", "killed"}
      BY <2>4, <3>1, Zenon DEF Errors
    <3> QED BY <3>1, <3>2 DEF IsError
  <2>5. sub' = sub /\ errorCount' = errorCount
    BY <1>2
  <2> QED BY <2>3, <2>4, <2>5, Zenon DEF Errors
<1> QED BY <1>7, <1>8, <1>9, <1>10, <1>11

LEMMA AlarmStep ==
  ASSUME IInv, Alarm
  PROVE  IInv'
<1> USE Numbers DEF IInv
<1> DEFINE dead == {p \in Signalled : child[p] \in {"running", "storing"}}
<1>1. /\ UNCHANGED <<sub, throttle, hangs, pc, next, childProcs, errorCount, results, file>>
      /\ child' = [p \in Pids |-> IF p \in dead THEN "exited" ELSE child[p]]
      /\ status' = [p \in Pids |-> IF p \in dead THEN SIGKILL ELSE status[p]]
      /\ outcome' = [p \in Pids |-> IF p \in dead THEN "killed" ELSE outcome[p]]
      /\ alarm' \in {"none", "forking", "waiting"}
      /\ pc \in {"fork", "record"}
  BY DEF Alarm, chosen, parentVars
<1>2. dead \subseteq Tasks /\ \A p \in dead : child[p] \in {"running", "storing"}
  BY DEF Signalled, Types
<1> HIDE DEF dead
<1>3. child' \in [Pids -> Places] /\ outcome' \in [Pids -> Outcomes]
  BY <1>1 DEF Types, Places, Outcomes
<1>4. status' \in [Pids -> Statuses]
  BY <1>1, OtherStatus DEF Types
<1>5. \A p \in Pids :
         IF p \in dead THEN child'[p] = "exited" /\ outcome'[p] = "killed"
         ELSE child'[p] = child[p] /\ outcome'[p] = outcome[p]
  BY <1>1
<1>6. Types'
  BY <1>1, <1>3, <1>4 DEF Types
<1>7. Positions'
  <2>1. \A t \in Tasks : Alive(t)' <=> Alive(t)
    BY <1>2, <1>5 DEF Alive
  <2>2. pc = "record" => next < Total /\ Alive(next)'
    <3> SUFFICES ASSUME pc = "record" PROVE next < Total /\ Alive(next)'
      OBVIOUS
    <3>1. next < Total /\ Alive(next) /\ next \in Tasks /\ next' = next
      BY <1>1, NextIsTask DEF Positions, Types
    <3>2. PICK n \in Tasks : n = next
      BY <3>1
    <3>3. Alive(n)'
      BY <2>1, <3>1, <3>2
    <3> QED BY <3>1, <3>2, <3>3 DEF Alive
  <2>3. \A t \in Tasks : child'[t] = "none" <=> child[t] = "none"
    BY <1>2, <1>5
  <2>4. \A t \in Tasks : outcome'[t] # "none" <=> child'[t] \in {"exited", "reaped"}
    BY <1>5 DEF Positions
  <2> QED BY <1>1, <2>1, <2>2, <2>3, <2>4 DEF Positions
<1>8. Limit'
  BY <1>1 DEF Limit
<1>9. Files'
  <2>1. \A t \in dead : outcome[t] = "none"
    BY <1>2 DEF Positions
  <2>2. ASSUME NEW t \in Tasks, FileKept(t) PROVE FileKept(t)'
    <3>1. CASE t \in dead
      BY <1>1, <1>5, <2>1, <2>2, <3>1 DEF FileKept
    <3>2. CASE t \notin dead
      BY <1>1, <1>5, <2>2, <3>2 DEF FileKept
    <3> QED BY <3>1, <3>2
  <2> QED BY <1>1, <2>2 DEF Files
<1>10. Errors'
  <2>1. \A p \in Pids : p \in dead => child[p] # "reaped" /\ child'[p] # "reaped"
    BY <1>2, <1>5
  <2>2. \A p \in Pids : p \notin dead => child'[p] = child[p]
    BY <1>5
  <2>3. \A p \in Pids : p \notin dead => status'[p] = status[p]
    BY <1>1
  <2>4. Counted' = Counted
    BY <2>1, <2>2, <2>3, Zenon, SameCount
  <2>5. ASSUME sub.counts, sub # simultaneousTasks, NEW t \in Tasks, outcome'[t] # "none"
        PROVE  IsError(status[t])' <=> outcome'[t] \in {"failed", "killed"}
    <3>1. CASE t \in dead
      <4>1. status'[t] = SIGKILL /\ outcome'[t] = "killed"
        BY <1>1, <3>1
      <4> QED BY <4>1, OtherStatus DEF IsError
    <3>2. CASE t \notin dead
      <4>1. status'[t] = status[t] /\ outcome'[t] = outcome[t]
        BY <1>1, <3>2
      <4>2. IsError(status[t]) <=> outcome[t] \in {"failed", "killed"}
        BY <2>5, <4>1, Zenon DEF Errors
      <4> QED BY <4>1, <4>2 DEF IsError
    <3> QED BY <3>1, <3>2
  <2>6. sub' = sub /\ errorCount' = errorCount
    BY <1>1
  <2> QED BY <2>4, <2>5, <2>6, Zenon DEF Errors
<1> QED BY <1>6, <1>7, <1>8, <1>9, <1>10

LEMMA IInvStep ==
  ASSUME IInv, [Next]_vars
  PROVE  IInv'
<1>1. CASE Parent
  BY <1>1, ForkStep, RecordStep, RunInLoopStep, WaitStep, FinishStep, CollectStep DEF Parent
<1>2. CASE Alarm \/ EndBackground
  BY <1>2, AlarmStep, EndBackgroundStep
<1>3. ASSUME NEW t \in Tasks, Child(t) \/ Killed(t) PROVE IInv'
  BY <1>3, RunStep, StoreStep, KilledStep DEF Child
<1>4. CASE UNCHANGED vars
  <2>1. Types'
    BY <1>4 DEF vars, chosen, parentVars, childVars, IInv, Types
  <2>2. Positions'
    BY <1>4 DEF vars, chosen, parentVars, childVars, IInv, Positions, Alive
  <2>3. Limit' /\ Files'
    BY <1>4 DEF vars, chosen, parentVars, childVars, IInv, Limit, Files, FileKept, Collected
  <2>4. Errors'
    <3>1. UNCHANGED <<sub, errorCount, child, status, outcome>>
      BY <1>4 DEF vars, chosen, parentVars, childVars
    <3>2. Counted' = Counted
      BY <3>1 DEF Counted, IsError
    <3> QED BY <3>1, <3>2 DEF IInv, Errors, IsError
  <2> QED BY <2>1, <2>2, <2>3, <2>4 DEF IInv
<1> QED BY <1>1, <1>2, <1>3, <1>4 DEF Next

\* The invariant holds in every state.
LEMMA Invariance == Spec => []IInv
BY InitIInv, IInvStep, PTL DEF Spec
-----------------------------------------------------------------------------
(* The theorems *)

\* Every variable keeps its type, errorCount its bound, and the parent waits only
\* for children that it forked: JobControl.pm whatever the children do.
THEOREM TypeOKHolds == Spec => []TypeOK
<1>1. ASSUME IInv PROVE TypeOK
  <2>1. errorCount \in 0 .. Total + 1
    <3>1. Counted \in SUBSET Pids
      BY DEF Counted
    <3>2. Cardinality(Counted) \in 0 .. Total + 1 /\ 0 \in 0 .. Total + 1
      BY <3>1, TasksFinite, Numbers
    <3> QED BY <1>1, <3>2, Zenon DEF IInv, Errors
  <2>2. childProcs \subseteq {t \in Tasks : child[t] \notin {"none", "reaped"}}
    BY <1>1 DEF IInv, Types, Positions, Alive
  <2> QED BY <1>1, <2>1, <2>2 DEF IInv, Types, TypeOK, Statuses
<1> QED BY <1>1, Invariance, PTL

\* However many tasks there are and whatever children wait() returns, no more than
\* $throttle of them run at a time.
THEOREM ThrottleKeptHolds == Spec => []ThrottleKept
<1> DEFINE busy == {t \in Tasks : child[t] \in {"running", "storing"}}
<1>1. ASSUME IInv, sub.throttled PROVE Cardinality(busy) <= throttle
  <2>1. throttle \in Nat /\ childProcs \in SUBSET Tasks /\ busy \in SUBSET Tasks
    BY <1>1 DEF IInv, Types
  <2>2. busy \subseteq childProcs \cup (IF pc = "record" THEN {next} ELSE {})
    BY <1>1 DEF IInv, Positions, Alive
  <2> HIDE DEF busy
  <2>3. /\ IsFiniteSet(childProcs) /\ Cardinality(childProcs) \in Nat
        /\ IsFiniteSet(busy) /\ Cardinality(busy) \in Nat
    BY <2>1, TasksFinite, Numbers
  <2>4. CASE pc = "record"
    <3>1. /\ IsFiniteSet(childProcs \cup {next})
          /\ Cardinality(childProcs \cup {next}) \in {Cardinality(childProcs),
                                                      Cardinality(childProcs) + 1}
      BY <2>3, FS_AddElement
    <3>2. Cardinality(busy) <= Cardinality(childProcs \cup {next})
      BY <2>2, <2>4, <3>1, FS_Subset
    <3>3. Cardinality(childProcs) < throttle
      BY <1>1, <2>4 DEF IInv, Limit
    <3> QED BY <2>1, <2>3, <3>1, <3>2, <3>3
  <2>5. CASE pc # "record"
    <3>1. Cardinality(busy) <= Cardinality(childProcs)
      BY <2>2, <2>3, <2>5, FS_Subset
    <3>2. Cardinality(childProcs) <= throttle
      BY <1>1 DEF IInv, Limit
    <3> QED BY <2>1, <2>3, <3>1, <3>2
  <2> QED BY <2>4, <2>5
<1>2. ASSUME IInv PROVE ThrottleKept
  BY <1>1, <1>2 DEF ThrottleKept
<1> QED BY <1>2, Invariance, PTL

\* When a subroutine that waits returns, every task was started and is over, also
\* if the alarm killed some of them or wait() returned foreign children.
THEOREM ReturnsAfterTheLastHolds == Spec => []ReturnsAfterTheLast
<1>1. ASSUME IInv PROVE ReturnsAfterTheLast
  BY <1>1 DEF IInv, Positions, ReturnsAfterTheLast
<1> QED BY <1>1, Invariance, PTL

\* Result n of a subroutine that returned is what task n stored, undef if it failed,
\* and no file is left.
THEOREM ResultsAreOwnHolds == Spec => []ResultsAreOwn
<1>1. ASSUME IInv PROVE ResultsAreOwn
  BY <1>1 DEF IInv, Files, Collected, ResultsAreOwn
<1> QED BY <1>1, Invariance, PTL

\* The count of errors that a subroutine returns is the number of its tasks that
\* failed or were killed, plus at most the foreign child it waited for.
THEOREM SubroutineErrorsCountedHolds == Spec => []SubroutineErrorsCounted
<1>1. ASSUME IInv, sub # simultaneousTasks, pc = "returned", sub.counts
      PROVE  errorCount - Failures \in 0 .. (IF child[Background] = "reaped" THEN 1 ELSE 0)
  <2> DEFINE failed == {t \in Tasks : outcome[t] \in {"failed", "killed"}}
  <2>1. \A t \in Tasks : child[t] = "reaped" /\ outcome[t] # "none"
    BY <1>1, SubFlags DEF IInv, Positions, Types
  <2>2. \A t \in Tasks : t \in Counted <=> t \in failed
    <3> SUFFICES ASSUME NEW t \in Tasks PROVE t \in Counted <=> t \in failed
      OBVIOUS
    <3>1. t \in Counted <=> IsError(status[t])
      BY <2>1, Numbers DEF Counted
    <3>2. IsError(status[t]) <=> outcome[t] \in {"failed", "killed"}
      BY <1>1, <2>1, Zenon DEF IInv, Errors
    <3> QED BY <3>1, <3>2
  <2>3. Counted \in SUBSET Pids /\ failed \in SUBSET Tasks /\ Background \notin failed
    BY Numbers DEF Counted
  <2>4. errorCount = Cardinality(Counted) /\ Failures = Cardinality(failed)
    BY <1>1, Zenon DEF IInv, Errors, Failures
  <2>5. Background \in Counted => child[Background] = "reaped"
    BY DEF Counted
  <2>6. Pids = Tasks \cup {Background}
    BY DEF Pids
  <2> HIDE DEF failed
  <2>7. IsFiniteSet(failed) /\ Cardinality(failed) \in Nat
    BY <2>3, TasksFinite, Numbers
  <2>8. CASE Background \in Counted
    <3>1. Counted = failed \cup {Background}
      BY <2>2, <2>3, <2>6, <2>8
    <3>2. Cardinality(Counted) = Cardinality(failed) + 1
      BY <2>3, <2>7, <3>1, FS_AddElement
    <3> QED BY <2>4, <2>5, <2>7, <2>8, <3>2
  <2>9. CASE Background \notin Counted
    <3>1. Counted = failed
      BY <2>2, <2>3, <2>6, <2>9
    <3> QED BY <2>4, <2>7, <3>1
  <2> QED BY <2>8, <2>9
<1>2. ASSUME IInv PROVE SubroutineErrorsCounted
  BY <1>1, <1>2 DEF SubroutineErrorsCounted, ErrorsCounted
<1> QED BY <1>2, Invariance, PTL
-----------------------------------------------------------------------------
(* FifoReports: the inductive invariant, in named parts. *)

FifoSetup == {"fork", "test", "unlink", "mkfifo"}
FifoReading == {"scan", "open", "read", "wait", "returned"}

\* The children are forked in order, and each is waited for once.
FifoPositions ==
    /\ parent \in FifoSetup => index \in Tasks
    /\ parent \in {"open", "read"} => index \in taskHash
    /\ parent = "fork" => \A t \in Tasks : child[t] = "none" <=> t >= index
    /\ parent \in FifoSetup \ {"fork"} => \A t \in Tasks : child[t] = "none" <=> t > index
    /\ parent \in FifoReading => \A t \in Tasks : child[t] # "none"
    /\ parent \in FifoSetup => \A t \in Tasks : child[t] # "none" => t \in taskHash
    /\ \A t \in Tasks : child[t] \notin {"none", "exited"} => t \in childProcs
    /\ parent = "returned" => childProcs = {}

\* Tasks whose FIFO the parent has made.
FifoSetUp(t) == (parent \in FifoSetup /\ t < index) \/ parent \in FifoReading

\* A name that is not the FIFO the parent made is a plain file of the child's.
FifoNames ==
    /\ parent = "unlink" => path[index] # "fifo"
    /\ parent = "mkfifo" => \/ path[index] = "none"
                            \/ path[index] = "plain" /\ handle[index] = "plain"
    /\ \A t \in taskHash : FifoSetUp(t) => path[t] = "fifo" \/ handle[t] = "plain"

FifoCollected(t) == t \notin taskHash /\ output[t] = Lines /\ path[t] = "none"

\* An undisturbed child gets past the opening of its FIFO only when the parent
\* reads it, and the parent reads on to the end.
FifoSoFar ==
    /\ parent = "read" => /\ pos <= Parts - 1
                          /\ pos > 0 => output[index] = pos - 1
                          /\ Disturbed(index) \/ child[index] \in {"write", "exited"}
    /\ \A t \in Tasks : ~Disturbed(t) /\ child[t] \in {"write", "exited"} =>
          /\ child[t] = "exited" => wrote[t] = Parts
          /\ (parent = "read" /\ index = t) \/ FifoCollected(t)

\* A child has no handle before it gets to its name.
FifoUnopened == \A t \in Tasks : child[t] \in {"none", "task"} => handle[t] = "none"

FifoIInv == FifoTypeOK /\ FifoPositions /\ FifoNames /\ FifoSoFar /\ FifoUnopened
-----------------------------------------------------------------------------
\* What the proofs use of the constants.
LEMMA FifoConstTypes ==
  /\ Total \in Nat /\ Total > 0 /\ Lines \in Nat
  /\ Parts = Lines + 2 /\ Tasks = 0 .. Total - 1
<1> QED BY JobControlAssumption, FifoAssumption DEF Parts, Tasks

\* A number of parts is a natural number.
LEMMA FifoPartsNat ==
  Parts \in Nat
<1> QED BY FifoConstTypes

\* After a task comes the next one, or the reading.
LEMMA FifoNextTaskMoves ==
  ASSUME index \in Tasks, NextTask
  PROVE  \/ index + 1 < Total /\ parent' = "fork" /\ index' = index + 1
         \/ index + 1 = Total /\ parent' = "scan" /\ index' = 0
<1> QED BY FifoConstTypes DEF NextTask

\* The first state.
LEMMA FifoInitHolds ==
  FifoInit => FifoIInv
<1> SUFFICES ASSUME FifoInit PROVE FifoIInv
  OBVIOUS
<1>1. FifoTypeOK
  <2>1. /\ output \in [Tasks -> 0 .. Lines] /\ wrote \in [Tasks -> 0 .. Parts]
        /\ pos \in 0 .. Parts /\ index \in 0 .. Total
    BY FifoConstTypes DEF FifoInit
  <2> QED BY <2>1 DEF FifoInit, FifoTypeOK, ParentPcs, ChildPcs, Kinds
<1>2. FifoPositions /\ FifoNames /\ FifoSoFar /\ FifoUnopened
  BY FifoConstTypes
     DEF FifoInit, FifoUnopened, FifoPositions, FifoNames, FifoSoFar, FifoSetup,
         FifoReading, FifoSetUp, Tasks
<1> QED BY <1>1, <1>2 DEF FifoIInv

\* A child opens its name, as what it finds there.
LEMMA FifoEvalStep ==
  ASSUME FifoIInv, NEW t \in Tasks, Eval(t)
  PROVE  FifoIInv'
<1>1. FifoTypeOK'
  BY FifoConstTypes, ZenonT(60)
     DEF FifoIInv, FifoTypeOK, FifoPositions, FifoSoFar, ParentPcs, ChildPcs, Kinds,
         Eval, fifoParentVars, fifoChildVars
<1>2. FifoPositions'
  BY FifoConstTypes, SMTT(60)
     DEF FifoIInv, FifoTypeOK, FifoPositions, FifoSetup, FifoReading, Eval,
         fifoParentVars, fifoChildVars
<1>3. FifoNames'
  <2>1. UNCHANGED <<parent, index, taskHash>> /\ taskHash \subseteq Tasks
    BY DEF Eval, fifoParentVars, FifoIInv, FifoTypeOK
  <2>2. path \in [Tasks -> Kinds] /\ handle \in [Tasks -> Kinds]
    BY DEF FifoIInv, FifoTypeOK
  <2>3. \A u \in Tasks \ {t} : path'[u] = path[u] /\ handle'[u] = handle[u]
    BY <2>2 DEF Eval
  <2>4. \/ path[t] = "fifo" /\ path'[t] = "fifo"
        \/ path[t] # "fifo" /\ path'[t] = "plain" /\ handle'[t] = "plain"
    BY <2>2 DEF Eval
  <2>5. \A u \in taskHash' : FifoSetUp(u)' => path'[u] = "fifo" \/ handle'[u] = "plain"
    BY <2>1, <2>2, <2>3, <2>4 DEF FifoIInv, FifoNames, FifoSetUp
  <2>6. parent' \in {"unlink", "mkfifo"} => index' \in Tasks
    BY <2>1 DEF FifoIInv, FifoPositions, FifoSetup
  <2>7. parent' = "unlink" => path'[index'] # "fifo"
    BY <2>1, <2>3, <2>4, <2>6 DEF FifoIInv, FifoNames
  <2>8. parent' = "mkfifo" => \/ path'[index'] = "none"
                              \/ path'[index'] = "plain" /\ handle'[index'] = "plain"
    BY <2>1, <2>3, <2>4, <2>6 DEF FifoIInv, FifoNames
  <2> QED BY <2>5, <2>7, <2>8 DEF FifoNames
<1>4. FifoSoFar'
  <2>1. /\ UNCHANGED <<parent, index, taskHash, output, pos, wrote, died>>
        /\ child[t] = "task"
    BY DEF Eval, fifoParentVars
  <2>2. /\ child'[t] \in {"opening", "write"}
        /\ child'[t] = "write" => handle'[t] = "plain"
        /\ \A u \in Tasks \ {t} : /\ child'[u] = child[u] /\ handle'[u] = handle[u]
                                   /\ path'[u] = path[u]
    BY DEF Eval, FifoIInv, FifoTypeOK
  <2>3. \A u \in Tasks \ {t} : Disturbed(u)' = Disturbed(u) /\ FifoCollected(u)' = FifoCollected(u)
    BY <2>1, <2>2 DEF Disturbed, FifoCollected
  <2>4. child'[t] \in {"write", "exited"} => Disturbed(t)'
    BY <2>2 DEF Disturbed
  <2>5. \A u \in Tasks : ~Disturbed(u)' /\ child'[u] \in {"write", "exited"} =>
          /\ child'[u] = "exited" => wrote'[u] = Parts
          /\ (parent' = "read" /\ index' = u) \/ FifoCollected(u)'
    BY <2>1, <2>2, <2>3, <2>4 DEF FifoIInv, FifoSoFar
  <2>6. parent' = "read" => Disturbed(index)' \/ child'[index'] \in {"write", "exited"}
    <3> SUFFICES ASSUME parent' = "read"
                 PROVE  Disturbed(index)' \/ child'[index'] \in {"write", "exited"}
      OBVIOUS
    <3>1. index \in Tasks
      BY <2>1 DEF FifoIInv, FifoPositions, FifoTypeOK
    <3>2. Disturbed(index) \/ child[index] \in {"write", "exited"}
      BY <2>1 DEF FifoIInv, FifoSoFar
    <3>3. CASE index = t
      <4>1. Disturbed(t)
        BY <2>1, <3>2, <3>3
      <4>2. t \in died
        BY <2>1, <4>1 DEF Disturbed, FifoIInv, FifoUnopened
      <4> QED BY <2>1, <2>4, <3>3, <4>2 DEF Disturbed
    <3>4. CASE index # t
      BY <2>1, <2>2, <2>3, <3>1, <3>2, <3>4
    <3> QED BY <3>3, <3>4
  <2> QED BY <2>1, <2>5, <2>6 DEF FifoIInv, FifoSoFar
<1>5. FifoUnopened'
  BY FifoConstTypes
     DEF FifoIInv, FifoTypeOK, FifoPositions, FifoSetup, FifoUnopened, Eval,
         fifoParentVars, fifoChildVars
<1> QED BY <1>1, <1>2, <1>3, <1>4, <1>5 DEF FifoIInv

\* A child writes a part, or exits after its last one.
LEMMA FifoWriteStep ==
  ASSUME FifoIInv, NEW t \in Tasks, Write(t)
  PROVE  FifoIInv'
<1>1. FifoTypeOK'
  <2>1. wrote' \in [Tasks -> 0 .. Parts]
    <3>1. CASE wrote[t] < Parts /\ wrote' = [wrote EXCEPT ![t] = @ + 1]
      <4>1. wrote[t] + 1 \in 0 .. Parts
        BY <3>1, FifoPartsNat DEF FifoIInv, FifoTypeOK
      <4> QED BY <3>1, <4>1 DEF FifoIInv, FifoTypeOK
    <3>2. CASE wrote' = wrote
      BY <3>2 DEF FifoIInv, FifoTypeOK
    <3> QED BY <3>1, <3>2 DEF Write
  <2>2. child' \in [Tasks -> ChildPcs]
    BY DEF FifoIInv, FifoTypeOK, Write, ChildPcs
  <2> QED BY <2>1, <2>2 DEF FifoIInv, FifoTypeOK, Write, fifoParentVars, fifoChildVars
<1>2. FifoPositions'
  BY FifoConstTypes
     DEF FifoIInv, FifoTypeOK, FifoPositions, FifoSetup, FifoReading, Write,
         fifoParentVars, fifoChildVars
<1>3. FifoNames'
  BY FifoConstTypes
     DEF FifoIInv, FifoTypeOK, FifoPositions, FifoNames, FifoSetUp, FifoSetup,
         FifoReading, Kinds, Write, fifoParentVars, fifoChildVars
<1>4. FifoSoFar'
  <2>1. /\ UNCHANGED <<parent, index, taskHash, output, pos, path, handle, died>>
        /\ child[t] = "write" /\ child'[t] \in {"write", "exited"}
        /\ child'[t] = "exited" => wrote'[t] = Parts
        /\ \A u \in Tasks \ {t} : child'[u] = child[u] /\ wrote'[u] = wrote[u]
    BY DEF Write, FifoIInv, FifoTypeOK, fifoParentVars
  <2>2. \A u \in Tasks : Disturbed(u)' = Disturbed(u) /\ FifoCollected(u)' = FifoCollected(u)
    BY <2>1 DEF Disturbed, FifoCollected
  <2>3. \A u \in Tasks : ~Disturbed(u)' /\ child'[u] \in {"write", "exited"} =>
          /\ child'[u] = "exited" => wrote'[u] = Parts
          /\ (parent' = "read" /\ index' = u) \/ FifoCollected(u)'
    BY <2>1, <2>2 DEF FifoIInv, FifoSoFar
  <2>4. parent' = "read" => index \in Tasks
    BY <2>1 DEF FifoIInv, FifoPositions, FifoTypeOK
  <2>5. parent' = "read" => Disturbed(index)' \/ child'[index'] \in {"write", "exited"}
    BY <2>1, <2>2, <2>4 DEF FifoIInv, FifoSoFar
  <2> QED BY <2>1, <2>3, <2>5 DEF FifoIInv, FifoSoFar
<1>5. FifoUnopened'
  BY FifoConstTypes
     DEF FifoIInv, FifoTypeOK, FifoPositions, FifoSetup, FifoUnopened, Write,
         fifoParentVars, fifoChildVars
<1> QED BY <1>1, <1>2, <1>3, <1>4, <1>5 DEF FifoIInv

\* A child ends where it is and counts as disturbed.
LEMMA FifoKilledStep ==
  ASSUME FifoIInv, NEW t \in Tasks, FifoKilled(t)
  PROVE  FifoIInv'
<1>1. FifoTypeOK'
  BY FifoConstTypes
     DEF FifoIInv, FifoTypeOK, FifoPositions, FifoSoFar, ParentPcs, ChildPcs, Kinds,
         FifoKilled, fifoParentVars, fifoChildVars
<1>2. FifoPositions'
  BY FifoConstTypes
     DEF FifoIInv, FifoTypeOK, FifoPositions, FifoSetup, FifoReading, FifoKilled,
         fifoParentVars, fifoChildVars
<1>3. FifoNames'
  BY FifoConstTypes
     DEF FifoIInv, FifoTypeOK, FifoPositions, FifoNames, FifoSetUp, FifoSetup,
         FifoReading, Kinds, FifoKilled, fifoParentVars, fifoChildVars
<1>4. FifoSoFar'
  BY FifoConstTypes, SMTT(30)
     DEF FifoIInv, FifoTypeOK, FifoPositions, FifoNames, FifoSetUp, FifoSetup,
         FifoReading, FifoSoFar, FifoCollected, Disturbed, Kinds, ChildPcs, FifoKilled,
         fifoParentVars, fifoChildVars
<1>5. FifoUnopened'
  BY FifoConstTypes
     DEF FifoIInv, FifoTypeOK, FifoPositions, FifoSetup, FifoUnopened, FifoKilled,
         fifoParentVars, fifoChildVars
<1> QED BY <1>1, <1>2, <1>3, <1>4, <1>5 DEF FifoIInv

\* A child is forked, or the parent runs the task itself.
LEMMA FifoForkStep ==
  ASSUME FifoIInv, FifoFork
  PROVE  FifoIInv'
<1>1. FifoTypeOK'
  <2>1. index \in Tasks
    BY DEF FifoIInv, FifoPositions, FifoSetup, FifoFork
  <2>2. child' \in [Tasks -> ChildPcs] /\ path' \in [Tasks -> Kinds]
    BY <2>1 DEF FifoIInv, FifoTypeOK, FifoFork, ChildPcs, Kinds
  <2>3. taskHash' \subseteq Tasks /\ childProcs' \subseteq Tasks
    BY <2>1 DEF FifoIInv, FifoTypeOK, FifoFork
  <2> QED BY <2>2, <2>3
             DEF FifoIInv, FifoTypeOK, FifoFork, ParentPcs, fifoParentVars,
                 fifoChildVars
<1>2. FifoPositions'
  <2>1. index \in Tasks /\ child \in [Tasks -> ChildPcs] /\ \A t \in Tasks : t \in Nat
    BY FifoConstTypes DEF FifoIInv, FifoTypeOK, FifoPositions, FifoSetup, FifoFork
  <2>2. CASE parent' = "test"
    <3>1. /\ child' = [child EXCEPT ![index] = "task"] /\ index' = index
          /\ taskHash' = taskHash \cup {index} /\ childProcs' = childProcs \cup {index}
      BY <2>2 DEF FifoFork
    <3>2. \A t \in Tasks : child'[t] = IF t = index THEN "task" ELSE child[t]
      BY <2>1, <3>1
    <3>3. \A t \in Tasks : child[t] = "none" <=> t >= index
      BY DEF FifoIInv, FifoPositions, FifoFork
    <3>4. \A t \in Tasks : child'[t] = "none" <=> t > index
      BY <2>1, <3>2, <3>3
    <3>5. \A t \in Tasks : child'[t] # "none" => t \in taskHash'
      BY <3>1, <3>2 DEF FifoIInv, FifoPositions, FifoSetup, FifoFork
    <3>6. \A t \in Tasks : child'[t] \notin {"none", "exited"} => t \in childProcs'
      BY <3>1, <3>2 DEF FifoIInv, FifoPositions
    <3> QED BY <2>1, <2>2, <3>1, <3>4, <3>5, <3>6
               DEF FifoPositions, FifoSetup, FifoReading
  <2>3. CASE parent' = "exited" /\ UNCHANGED <<child, taskHash, childProcs>>
    BY <2>3 DEF FifoIInv, FifoPositions, FifoSetup, FifoReading, FifoFork
  <2> QED BY <2>2, <2>3 DEF FifoFork
<1>3. FifoNames'
  <2>1. index \in Tasks /\ \A t \in Tasks : t \in Nat
    BY FifoConstTypes DEF FifoIInv, FifoPositions, FifoSetup, FifoFork
  <2>2. CASE parent' = "test"
    <3>1. /\ path' = path /\ handle' = handle /\ index' = index
          /\ taskHash' = taskHash \cup {index} /\ parent = "fork"
      BY <2>2 DEF FifoFork
    <3>2. FifoSetUp(index)' = FALSE /\ \A t \in Tasks : FifoSetUp(t)' => FifoSetUp(t)
      BY <2>1, <2>2, <3>1 DEF FifoSetUp, FifoSetup, FifoReading
    <3>3. \A t \in taskHash : FifoSetUp(t) => path[t] = "fifo" \/ handle[t] = "plain"
      BY DEF FifoIInv, FifoNames
    <3>4. \A t \in taskHash' : FifoSetUp(t)' => path'[t] = "fifo" \/ handle'[t] = "plain"
      BY <3>1, <3>2, <3>3 DEF FifoIInv, FifoTypeOK
    <3> QED BY <2>2, <3>4 DEF FifoNames
  <2>3. CASE parent' = "exited"
    BY <2>3 DEF FifoNames, FifoSetUp, FifoSetup, FifoReading
  <2> QED BY <2>2, <2>3 DEF FifoFork
<1>4. FifoSoFar'
  BY FifoConstTypes, SMTT(30)
     DEF FifoIInv, FifoTypeOK, FifoPositions, FifoNames, FifoSetUp, FifoSetup,
         FifoReading, FifoSoFar, FifoCollected, Disturbed, Kinds, ChildPcs, FifoFork,
         fifoParentVars, fifoChildVars
<1>5. FifoUnopened'
  BY FifoConstTypes
     DEF FifoIInv, FifoTypeOK, FifoPositions, FifoSetup, FifoUnopened, FifoFork,
         fifoParentVars, fifoChildVars
<1> QED BY <1>1, <1>2, <1>3, <1>4, <1>5 DEF FifoIInv

\* A FIFO that is there is kept.
LEMMA FifoTestStep ==
  ASSUME FifoIInv, Test
  PROVE  FifoIInv'
<1>1. FifoTypeOK'
  BY FifoConstTypes, SMTT(30)
     DEF FifoIInv, FifoTypeOK, FifoPositions, FifoSoFar, ParentPcs, ChildPcs, Kinds,
         Test, NextTask, IsFifo, fifoParentVars, fifoChildVars
<1>2. FifoPositions'
  <2>1. index \in Tasks /\ \A t \in Tasks : t \in Nat /\ t < Total
    BY FifoConstTypes DEF FifoIInv, FifoPositions, FifoSetup, Test
  <2>2. /\ \A t \in Tasks : child[t] = "none" <=> t > index
        /\ \A t \in Tasks : child[t] # "none" => t \in taskHash
        /\ \A t \in Tasks : child[t] \notin {"none", "exited"} => t \in childProcs
    BY DEF FifoIInv, FifoPositions, FifoSetup, Test
  <2>3. UNCHANGED <<childProcs, taskHash, child>>
    BY DEF Test, fifoChildVars
  <2>4. CASE NextTask
    <3>1. CASE index + 1 < Total /\ parent' = "fork" /\ index' = index + 1
      <4>1. \A t \in Tasks : t > index <=> t >= index'
        BY <2>1, <3>1
      <4>2. index' \in Tasks
        BY <2>1, <3>1, FifoConstTypes
      <4> QED BY <2>2, <2>3, <3>1, <4>1, <4>2 DEF FifoPositions, FifoSetup, FifoReading
    <3>2. CASE index + 1 = Total /\ parent' = "scan" /\ index' = 0
      <4>1. \A t \in Tasks : ~(t > index)
        BY <2>1, <3>2
      <4> QED BY <2>2, <2>3, <3>2, <4>1 DEF FifoPositions, FifoSetup, FifoReading
    <3> QED BY <2>1, <2>4, <3>1, <3>2, FifoNextTaskMoves
  <2>5. CASE parent' = "unlink" /\ UNCHANGED index
    BY <2>1, <2>2, <2>3, <2>5 DEF FifoPositions, FifoSetup, FifoReading
  <2> QED BY <2>4, <2>5 DEF Test
<1>3. FifoNames'
  <2>1. index \in Tasks /\ \A t \in Tasks : t \in Nat /\ t < Total
    BY FifoConstTypes DEF FifoIInv, FifoPositions, FifoSetup, Test
  <2>2. parent = "test" /\ UNCHANGED <<taskHash, path, handle>> /\ taskHash \subseteq Tasks
    BY DEF Test, fifoChildVars, FifoIInv, FifoTypeOK
  <2>3. \A t \in taskHash : FifoSetUp(t) => path[t] = "fifo" \/ handle[t] = "plain"
    BY DEF FifoIInv, FifoNames
  <2>4. CASE path[index] = "fifo" /\ NextTask
    <3>1. \A t \in Tasks : FifoSetUp(t)' => t = index \/ FifoSetUp(t)
      BY <2>1, <2>2, <2>4, FifoNextTaskMoves DEF FifoSetUp, FifoSetup, FifoReading
    <3>2. \A t \in taskHash' : FifoSetUp(t)' => path'[t] = "fifo" \/ handle'[t] = "plain"
      BY <2>2, <2>3, <2>4, <3>1
    <3>3. parent' \in {"fork", "scan"}
      BY <2>1, <2>4, FifoNextTaskMoves
    <3> QED BY <3>2, <3>3 DEF FifoNames
  <2>5. CASE path[index] # "fifo" /\ parent' = "unlink" /\ UNCHANGED index
    <3>1. \A t \in Tasks : FifoSetUp(t)' => FifoSetUp(t)
      BY <2>2, <2>5 DEF FifoSetUp, FifoSetup, FifoReading
    <3> QED BY <2>2, <2>3, <2>5, <3>1 DEF FifoNames
  <2> QED BY <2>4, <2>5 DEF Test, IsFifo
<1>4. FifoSoFar'
  BY FifoConstTypes
     DEF FifoIInv, FifoTypeOK, FifoPositions, FifoNames, FifoSetUp, FifoSetup,
         FifoReading, FifoSoFar, FifoCollected, Disturbed, Kinds, ChildPcs, Test,
         NextTask, IsFifo, fifoParentVars, fifoChildVars
<1>5. FifoUnopened'
  BY FifoConstTypes
     DEF FifoIInv, FifoTypeOK, FifoPositions, FifoSetup, FifoUnopened, Test, NextTask,
         IsFifo, fifoParentVars, fifoChildVars
<1> QED BY <1>1, <1>2, <1>3, <1>4, <1>5 DEF FifoIInv

\* Only a name that is no FIFO is removed.
LEMMA FifoUnlinkStep ==
  ASSUME FifoIInv, Unlink
  PROVE  FifoIInv'
<1>1. FifoTypeOK'
  BY FifoConstTypes
     DEF FifoIInv, FifoTypeOK, FifoPositions, FifoSoFar, ParentPcs, ChildPcs, Kinds,
         Unlink, fifoParentVars, fifoChildVars
<1>2. FifoPositions'
  BY FifoConstTypes
     DEF FifoIInv, FifoTypeOK, FifoPositions, FifoSetup, FifoReading, Unlink,
         fifoParentVars, fifoChildVars
<1>3. FifoNames'
  BY FifoConstTypes
     DEF FifoIInv, FifoTypeOK, FifoPositions, FifoNames, FifoSetUp, FifoSetup,
         FifoReading, Kinds, Unlink, fifoParentVars, fifoChildVars
<1>4. FifoSoFar'
  BY FifoConstTypes
     DEF FifoIInv, FifoTypeOK, FifoPositions, FifoNames, FifoSetUp, FifoSetup,
         FifoReading, FifoSoFar, FifoCollected, Disturbed, Kinds, ChildPcs, Unlink,
         fifoParentVars, fifoChildVars
<1>5. FifoUnopened'
  BY FifoConstTypes
     DEF FifoIInv, FifoTypeOK, FifoPositions, FifoSetup, FifoUnopened, Unlink,
         fifoParentVars, fifoChildVars
<1> QED BY <1>1, <1>2, <1>3, <1>4, <1>5 DEF FifoIInv

\* The FIFO is made, unless the child was faster.
LEMMA FifoMkfifoStep ==
  ASSUME FifoIInv, Mkfifo
  PROVE  FifoIInv'
<1>1. FifoTypeOK'
  <2>1. index \in Tasks
    BY DEF FifoIInv, FifoPositions, FifoSetup, Mkfifo
  <2>2. path' \in [Tasks -> Kinds]
    BY <2>1 DEF FifoIInv, FifoTypeOK, Mkfifo, Kinds
  <2>3. index' \in 0 .. Total /\ parent' \in ParentPcs
    BY <2>1, FifoConstTypes, FifoNextTaskMoves DEF Mkfifo, ParentPcs
  <2> QED BY <2>2, <2>3 DEF FifoIInv, FifoTypeOK, Mkfifo, fifoParentVars, fifoChildVars
<1>2. FifoPositions'
  <2>1. /\ index \in Tasks /\ parent = "mkfifo"
        /\ \A t \in Tasks : child[t] = "none" <=> t > index
        /\ UNCHANGED <<child, childProcs, taskHash>>
    <3>1. parent = "mkfifo" /\ UNCHANGED <<child, childProcs, taskHash>>
      BY DEF Mkfifo, fifoChildVars
    <3> QED BY <3>1, Zenon DEF FifoIInv, FifoPositions, FifoSetup
  <2>2. \/ index + 1 < Total /\ parent' = "fork" /\ index' = index + 1
        \/ index + 1 = Total /\ parent' = "scan" /\ index' = 0
    BY <2>1, FifoNextTaskMoves DEF Mkfifo
  <2>3. index' \in Tasks
    BY <2>1, <2>2, FifoConstTypes
  <2>4. \A t \in Tasks : t > index <=> ~(t <= index)
    BY <2>1, FifoConstTypes
  <2>5. parent' = "fork" => \A t \in Tasks : child'[t] = "none" <=> t >= index'
    BY <2>1, <2>2, FifoConstTypes
  <2>6. parent' = "scan" => \A t \in Tasks : child'[t] # "none"
    BY <2>1, <2>2, FifoConstTypes
  <2>7. \A t \in Tasks : child'[t] # "none" => t \in taskHash'
    BY <2>1 DEF FifoIInv, FifoPositions, FifoSetup
  <2>8. \A t \in Tasks : child'[t] \notin {"none", "exited"} => t \in childProcs'
    BY <2>1 DEF FifoIInv, FifoPositions
  <2> QED BY <2>2, <2>3, <2>5, <2>6, <2>7, <2>8
             DEF FifoPositions, FifoSetup, FifoReading
<1>3. FifoNames'
  <2>1. index \in Tasks /\ \A t \in Tasks : t \in Nat /\ t < Total
    BY FifoConstTypes DEF FifoIInv, FifoPositions, FifoSetup, Mkfifo
  <2>2. /\ parent = "mkfifo" /\ UNCHANGED <<taskHash, handle>> /\ taskHash \subseteq Tasks
        /\ NextTask
    BY DEF Mkfifo, fifoChildVars, FifoIInv, FifoTypeOK
  <2>3. \A t \in taskHash : FifoSetUp(t) => path[t] = "fifo" \/ handle[t] = "plain"
    BY DEF FifoIInv, FifoNames
  <2>4. \A t \in Tasks : FifoSetUp(t)' => t = index \/ FifoSetUp(t)
    BY <2>1, <2>2, FifoNextTaskMoves DEF FifoSetUp, FifoSetup, FifoReading
  <2>5. /\ path'[index] = "fifo" \/ handle'[index] = "plain"
        /\ \A t \in Tasks \ {index} : path'[t] = path[t]
    BY <2>1, <2>2 DEF Mkfifo, FifoIInv, FifoTypeOK, FifoNames
  <2>6. \A t \in taskHash' : FifoSetUp(t)' => path'[t] = "fifo" \/ handle'[t] = "plain"
    BY <2>2, <2>3, <2>4, <2>5
  <2>7. parent' \in {"fork", "scan"}
    BY <2>1, <2>2, FifoNextTaskMoves
  <2> QED BY <2>6, <2>7 DEF FifoNames
<1>4. FifoSoFar'
  BY FifoConstTypes
     DEF FifoIInv, FifoTypeOK, FifoPositions, FifoNames, FifoSetUp, FifoSetup,
         FifoReading, FifoSoFar, FifoCollected, Disturbed, Kinds, ChildPcs, Mkfifo,
         NextTask, fifoParentVars, fifoChildVars
<1>5. FifoUnopened'
  BY FifoConstTypes
     DEF FifoIInv, FifoTypeOK, FifoPositions, FifoSetup, FifoUnopened, Mkfifo, NextTask,
         fifoParentVars, fifoChildVars
<1> QED BY <1>1, <1>2, <1>3, <1>4, <1>5 DEF FifoIInv

\* The parent looks for the next report to read.
LEMMA FifoScanStep ==
  ASSUME FifoIInv, Scan
  PROVE  FifoIInv'
<1>1. FifoTypeOK'
  <2>1. index \in Nat /\ index <= Total
    BY FifoConstTypes DEF FifoIInv, FifoTypeOK
  <2>2. index' \in 0 .. Total
    <3>1. CASE index' = index
      BY <2>1, <3>1, FifoConstTypes
    <3>2. CASE index \in Tasks /\ index' = index + 1
      BY <2>1, <3>2, FifoConstTypes
    <3> QED BY <3>1, <3>2 DEF Scan
  <2>3. parent' \in ParentPcs
    BY DEF Scan, ParentPcs, FifoIInv, FifoTypeOK
  <2> QED BY <2>2, <2>3 DEF FifoIInv, FifoTypeOK, Scan, fifoChildVars
<1>2. FifoPositions'
  BY FifoConstTypes
     DEF FifoIInv, FifoTypeOK, FifoPositions, FifoSetup, FifoReading, Scan,
         fifoParentVars, fifoChildVars
<1>3. FifoNames'
  BY FifoConstTypes
     DEF FifoIInv, FifoTypeOK, FifoPositions, FifoNames, FifoSetUp, FifoSetup,
         FifoReading, Kinds, Scan, fifoParentVars, fifoChildVars
<1>4. FifoSoFar'
  BY FifoConstTypes
     DEF FifoIInv, FifoTypeOK, FifoPositions, FifoNames, FifoSetUp, FifoSetup,
         FifoReading, FifoSoFar, FifoCollected, Disturbed, Kinds, ChildPcs, Scan,
         fifoParentVars, fifoChildVars
<1>5. FifoUnopened'
  BY FifoConstTypes
     DEF FifoIInv, FifoTypeOK, FifoPositions, FifoSetup, FifoUnopened, Scan,
         fifoParentVars, fifoChildVars
<1> QED BY <1>1, <1>2, <1>3, <1>4, <1>5 DEF FifoIInv

\* The parent and a child meet at the FIFO.
LEMMA FifoOpenStep ==
  ASSUME FifoIInv, Open
  PROVE  FifoIInv'
<1>1. FifoTypeOK'
  <2>1. index \in Tasks
    BY DEF FifoIInv, FifoTypeOK, FifoPositions, Open
  <2>2. child' \in [Tasks -> ChildPcs]
    BY <2>1 DEF FifoIInv, FifoTypeOK, ChildPcs, Open
  <2>3. pos' \in 0 .. Parts
    BY FifoPartsNat DEF Open
  <2> QED BY <2>2, <2>3 DEF FifoIInv, FifoTypeOK, Open, ParentPcs
<1>2. FifoPositions'
  BY FifoConstTypes
     DEF FifoIInv, FifoTypeOK, FifoPositions, FifoSetup, FifoReading, Open,
         fifoParentVars, fifoChildVars
<1>3. FifoNames'
  BY FifoConstTypes
     DEF FifoIInv, FifoTypeOK, FifoPositions, FifoNames, FifoSetUp, FifoSetup,
         FifoReading, Kinds, Open, fifoParentVars, fifoChildVars
<1>4. FifoSoFar'
  BY FifoConstTypes
     DEF FifoIInv, FifoTypeOK, FifoPositions, FifoNames, FifoSetUp, FifoSetup,
         FifoReading, FifoSoFar, FifoCollected, Disturbed, Kinds, ChildPcs, Open,
         fifoParentVars, fifoChildVars
<1>5. FifoUnopened'
  BY FifoConstTypes
     DEF FifoIInv, FifoTypeOK, FifoPositions, FifoSetup, FifoUnopened, Open,
         fifoParentVars, fifoChildVars
<1> QED BY <1>1, <1>2, <1>3, <1>4, <1>5 DEF FifoIInv

\* The parent reads a part of a report.
LEMMA FifoReadPartStep ==
  ASSUME FifoIInv, ReadPart
  PROVE  FifoIInv'
<1>1. FifoTypeOK'
  <2>1. /\ index \in Tasks /\ index \in Nat /\ index < Total /\ index >= 0
        /\ pos \in Nat /\ pos <= Parts - 1 /\ (pos > 0 => output[index] = pos - 1)
    BY FifoConstTypes DEF FifoIInv, FifoTypeOK, FifoPositions, FifoSoFar, ReadPart
  <2>2. CASE ~IsEnd(pos)
    <3>1. /\ pos' = pos + 1 /\ output' = [output EXCEPT ![index] = Kept(output[index])]
          /\ UNCHANGED <<parent, index, taskHash, path>>
      BY <2>2 DEF ReadPart
    <3>2. pos # Parts - 1
      BY <2>2 DEF IsEnd
    <3>3. pos + 1 \in 0 .. Parts
      BY <2>1, <3>2, FifoConstTypes
    <3>4. Kept(output[index]) \in 0 .. Lines
      BY <2>1, <3>2, FifoConstTypes DEF Kept
    <3>5. output' \in [Tasks -> 0 .. Lines]
      BY <3>1, <3>4 DEF FifoIInv, FifoTypeOK
    <3> QED BY <3>1, <3>3, <3>5 DEF FifoIInv, FifoTypeOK, ReadPart, fifoChildVars
  <2>3. CASE IsEnd(pos)
    <3>1. /\ taskHash' = taskHash \ {index} /\ path' = [path EXCEPT ![index] = "none"]
          /\ parent' = "scan" /\ index' = index + 1 /\ UNCHANGED <<output, pos>>
      BY <2>3 DEF ReadPart
    <3>2. index + 1 \in 0 .. Total
      BY <2>1, FifoConstTypes
    <3>3. path' \in [Tasks -> Kinds]
      BY <3>1 DEF FifoIInv, FifoTypeOK, Kinds
    <3> QED BY <3>1, <3>2, <3>3
               DEF FifoIInv, FifoTypeOK, ParentPcs, ReadPart, fifoChildVars
  <2> QED BY <2>2, <2>3
<1>2. FifoPositions'
  BY FifoConstTypes
     DEF FifoIInv, FifoTypeOK, FifoPositions, FifoSetup, FifoReading, ReadPart, IsEnd,
         Kept, fifoParentVars, fifoChildVars
<1>3. FifoNames'
  <2>1. index \in Tasks /\ parent = "read" /\ taskHash \subseteq Tasks
    BY DEF FifoIInv, FifoTypeOK, FifoPositions, ReadPart
  <2>2. /\ parent' \in {"read", "scan"} /\ UNCHANGED handle
        /\ taskHash' \subseteq taskHash
        /\ \A t \in taskHash' : path'[t] = path[t]
    BY <2>1 DEF ReadPart, fifoChildVars, FifoIInv, FifoTypeOK
  <2>3. \A t \in taskHash : path[t] = "fifo" \/ handle[t] = "plain"
    BY <2>1 DEF FifoIInv, FifoNames, FifoSetUp, FifoReading
  <2> QED BY <2>2, <2>3 DEF FifoNames
<1>4. FifoSoFar'
  <2>1. /\ index \in Tasks /\ parent = "read" /\ UNCHANGED <<child, handle, wrote, died>>
        /\ pos \in Nat /\ pos <= Parts - 1 /\ (pos > 0 => output[index] = pos - 1)
        /\ Disturbed(index) \/ child[index] \in {"write", "exited"}
    BY FifoConstTypes
       DEF FifoIInv, FifoTypeOK, FifoPositions, FifoSoFar, ReadPart, fifoChildVars
  <2>2. /\ \A t \in Tasks : Disturbed(t)' = Disturbed(t)
        /\ \A t \in Tasks : ~Disturbed(t) /\ child[t] \in {"write", "exited"} =>
              /\ child[t] = "exited" => wrote[t] = Parts
              /\ index = t \/ FifoCollected(t)
    BY <2>1 DEF FifoIInv, FifoSoFar, Disturbed
  <2>3. CASE ~IsEnd(pos)
    <3>1. /\ pos' = pos + 1 /\ output' = [output EXCEPT ![index] = Kept(output[index])]
          /\ UNCHANGED <<parent, index, taskHash, path>>
      BY <2>3 DEF ReadPart
    <3>2. pos # Parts - 1
      BY <2>3 DEF IsEnd
    <3>3. Kept(output[index]) = pos
      BY <2>1 DEF Kept
    <3>4. /\ output'[index] = pos
          /\ \A t \in Tasks \ {index} : output'[t] = output[t]
      BY <2>1, <3>1, <3>3 DEF FifoIInv, FifoTypeOK
    <3>5. pos' <= Parts - 1 /\ (pos' > 0 => output'[index'] = pos' - 1)
      BY <2>1, <3>1, <3>2, <3>4, FifoConstTypes
    <3>6. \A t \in Tasks \ {index} : FifoCollected(t)' = FifoCollected(t)
      BY <3>1, <3>4 DEF FifoCollected
    <3>7. Disturbed(index)' \/ child'[index'] \in {"write", "exited"}
      BY <2>1, <2>2, <3>1
    <3>8. \A t \in Tasks : ~Disturbed(t)' /\ child'[t] \in {"write", "exited"} =>
              /\ child'[t] = "exited" => wrote'[t] = Parts
              /\ (parent' = "read" /\ index' = t) \/ FifoCollected(t)'
      BY <2>1, <2>2, <3>1, <3>6
    <3> QED BY <3>1, <3>5, <3>7, <3>8 DEF FifoSoFar
  <2>4. CASE IsEnd(pos)
    <3>1. /\ taskHash' = taskHash \ {index} /\ path' = [path EXCEPT ![index] = "none"]
          /\ parent' = "scan" /\ UNCHANGED output
      BY <2>4 DEF ReadPart
    <3>2. output[index] = Lines
      BY <2>1, <2>4, FifoConstTypes DEF IsEnd
    <3>3. \A t \in Tasks : index = t \/ FifoCollected(t) => FifoCollected(t)'
      <4>1. /\ path'[index] = "none" /\ \A t \in Tasks \ {index} : path'[t] = path[t]
            /\ index \notin taskHash' /\ taskHash' \subseteq taskHash
        BY <2>1, <3>1 DEF FifoIInv, FifoTypeOK
      <4> QED BY <3>1, <3>2, <4>1 DEF FifoCollected
    <3>4. \A t \in Tasks : ~Disturbed(t)' /\ child'[t] \in {"write", "exited"} =>
              /\ child'[t] = "exited" => wrote'[t] = Parts
              /\ (parent' = "read" /\ index' = t) \/ FifoCollected(t)'
      BY <2>1, <2>2, <3>3
    <3> QED BY <3>1, <3>4 DEF FifoSoFar
  <2> QED BY <2>3, <2>4
<1>5. FifoUnopened'
  BY FifoConstTypes
     DEF FifoIInv, FifoTypeOK, FifoPositions, FifoSetup, FifoUnopened, ReadPart, IsEnd,
         Kept, fifoParentVars, fifoChildVars
<1> QED BY <1>1, <1>2, <1>3, <1>4, <1>5 DEF FifoIInv

\* The end of a report without its last part means that the child is disturbed.
LEMMA FifoReadEofStep ==
  ASSUME FifoIInv, ReadEof
  PROVE  FifoIInv'
<1>1. FifoTypeOK'
  BY FifoConstTypes, SMTT(30)
     DEF FifoIInv, FifoTypeOK, FifoPositions, FifoSoFar, ParentPcs, ChildPcs, Kinds,
         ReadEof, AtEof, fifoParentVars, fifoChildVars
<1>2. FifoPositions'
  BY FifoConstTypes
     DEF FifoIInv, FifoTypeOK, FifoPositions, FifoSetup, FifoReading, ReadEof, AtEof,
         fifoParentVars, fifoChildVars
<1>3. FifoNames'
  BY FifoConstTypes
     DEF FifoIInv, FifoTypeOK, FifoPositions, FifoNames, FifoSetUp, FifoSetup,
         FifoReading, Kinds, ReadEof, AtEof, fifoParentVars, fifoChildVars
<1>4. FifoSoFar'
  BY FifoConstTypes
     DEF FifoIInv, FifoTypeOK, FifoPositions, FifoNames, FifoSetUp, FifoSetup,
         FifoReading, FifoSoFar, FifoCollected, Disturbed, Kinds, ChildPcs, ReadEof,
         AtEof, fifoParentVars, fifoChildVars
<1>5. FifoUnopened'
  BY FifoConstTypes
     DEF FifoIInv, FifoTypeOK, FifoPositions, FifoSetup, FifoUnopened, ReadEof, AtEof,
         fifoParentVars, fifoChildVars
<1> QED BY <1>1, <1>2, <1>3, <1>4, <1>5 DEF FifoIInv

\* A child that has exited is waited for.
LEMMA FifoWaitStep ==
  ASSUME FifoIInv, FifoWait
  PROVE  FifoIInv'
<1>1. FifoTypeOK'
  <2>1. childProcs' \subseteq Tasks /\ index' = 0 /\ parent' \in ParentPcs
    BY DEF FifoIInv, FifoTypeOK, ParentPcs, FifoWait
  <2>2. index' \in 0 .. Total
    BY <2>1, FifoConstTypes
  <2> QED BY <2>1, <2>2
             DEF FifoIInv, FifoTypeOK, FifoWait, fifoParentVars, fifoChildVars
<1>2. FifoPositions'
  BY FifoConstTypes
     DEF FifoIInv, FifoTypeOK, FifoPositions, FifoSetup, FifoReading, FifoWait,
         fifoParentVars, fifoChildVars
<1>3. FifoNames'
  BY FifoConstTypes
     DEF FifoIInv, FifoTypeOK, FifoPositions, FifoNames, FifoSetUp, FifoSetup,
         FifoReading, Kinds, FifoWait, fifoParentVars, fifoChildVars
<1>4. FifoSoFar'
  BY FifoConstTypes
     DEF FifoIInv, FifoTypeOK, FifoPositions, FifoNames, FifoSetUp, FifoSetup,
         FifoReading, FifoSoFar, FifoCollected, Disturbed, Kinds, ChildPcs, FifoWait,
         fifoParentVars, fifoChildVars
<1>5. FifoUnopened'
  BY FifoConstTypes
     DEF FifoIInv, FifoTypeOK, FifoPositions, FifoSetup, FifoUnopened, FifoWait,
         fifoParentVars, fifoChildVars
<1> QED BY <1>1, <1>2, <1>3, <1>4, <1>5 DEF FifoIInv

\* Every step of a child or of the parent keeps the invariant.
LEMMA FifoInductive ==
  FifoIInv /\ [FifoNext]_fifoVars => FifoIInv'
<1> SUFFICES ASSUME FifoIInv, [FifoNext]_fifoVars PROVE FifoIInv'
  OBVIOUS
<1>1. CASE UNCHANGED fifoVars
  BY <1>1
     DEF fifoVars, fifoParentVars, fifoChildVars, FifoIInv, FifoTypeOK, FifoPositions,
         FifoNames, FifoSoFar, FifoSetUp, FifoUnopened, FifoCollected, Disturbed
<1> QED BY <1>1, FifoEvalStep, FifoWriteStep, FifoKilledStep, FifoForkStep,
           FifoTestStep, FifoUnlinkStep, FifoMkfifoStep, FifoScanStep, FifoOpenStep,
           FifoReadPartStep, FifoReadEofStep, FifoWaitStep
           DEF FifoNext, FifoParent, FifoChild

\* So it holds for ever.
LEMMA FifoSafe ==
  FifoSpec => []FifoIInv
<1> QED BY FifoInitHolds, FifoInductive, PTL DEF FifoSpec
-----------------------------------------------------------------------------
\* No line of a report is kept twice, and no index leaves the tasks.
THEOREM FifoTypeOKHolds ==
  FifoSpec => []FifoTypeOK
<1>1. FifoIInv => FifoTypeOK
  BY DEF FifoIInv
<1> QED BY <1>1, FifoSafe, PTL

\* When the subroutine returns, the report of every undisturbed task is complete,
\* whatever happened to the other children and however many there are.
THEOREM ReportsWholeHolds ==
  FifoSpec => []ReportsWhole
<1>1. FifoIInv => ReportsWhole
  BY DEF FifoIInv, FifoTypeOK, ChildPcs, FifoPositions, FifoSoFar, FifoReading,
         FifoCollected, ReportsWhole
<1> QED BY <1>1, FifoSafe, PTL
=============================================================================
