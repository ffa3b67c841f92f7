------------------------------ MODULE WorkPool ------------------------------
(***************************************************************************)
(* What the multi-context client of c/dbthrds.sqc promises, without any    *)
(* thread, mutex or SQL call: the generated work items are started in the  *)
(* order they are generated, each on a slot no other running item holds,   *)
(* and each one that is started finishes, unless the process is aborted.   *)
(***************************************************************************)
EXTENDS Integers

CONSTANTS Contexts,   \* number of slots
          Loops       \* number of work items

Items == 0 .. Loops - 1
Slots == 0 .. Contexts - 1
NoSlot == -1

VARIABLES phase,      \* phase[w]: "todo", "running" or "finished"
          slot,       \* slot[w]: the slot item w runs or ran on
          aborted     \* the process exited before the end

vars == <<phase, slot, aborted>>

Running == {w \in Items : phase[w] = "running"}
Held == {slot[w] : w \in Running}

Init == /\ phase = [w \in Items |-> "todo"]
        /\ slot = [w \in Items |-> NoSlot]
        /\ aborted = FALSE

Start(w, s) == /\ ~aborted
               /\ phase[w] = "todo"
               /\ \A v \in Items : v < w => phase[v] # "todo"
               /\ s \notin Held
               /\ phase' = [phase EXCEPT ![w] = "running"]
               /\ slot' = [slot EXCEPT ![w] = s]
               /\ UNCHANGED aborted

Finish(w) == /\ ~aborted
             /\ phase[w] = "running"
             /\ phase' = [phase EXCEPT ![w] = "finished"]
             /\ UNCHANGED <<slot, aborted>>

Abort == /\ ~aborted
         /\ aborted' = TRUE
         /\ UNCHANGED <<phase, slot>>

Work == \/ \E w \in Items, s \in Slots : Start(w, s)
        \/ \E w \in Items : Finish(w)

Next == Work \/ Abort

Safety == Init /\ [][Next]_vars

Spec == Safety /\ WF_vars(Work)
=============================================================================
