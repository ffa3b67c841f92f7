------------------------------- MODULE JobControl -------------------------------
(***************************************************************************)
(* perf/.../TJWH/JobControl.pm: what all its subroutines have in common, a *)
(* list of tasks, a child process for each of them, and the hash in which  *)
(* the parent keeps the children it has still to wait for.                 *)
(***************************************************************************)
EXTENDS Integers

CONSTANTS Total,        \* number of tasks
          MayDie,       \* a child may be killed from outside
          ForkMayFail

ASSUME JobControlAssumption ==
    Total \in Nat \ {0} /\ MayDie \in BOOLEAN /\ ForkMayFail \in BOOLEAN

Tasks == 0 .. Total - 1

VARIABLES
    childProcs,
    child          \* where each child is
=============================================================================
