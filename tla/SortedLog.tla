------------------------------- MODULE SortedLog -------------------------------
(***************************************************************************)
(* What c/dblognoconnlogmerge.c promises of several log streams: their     *)
(* records come out one by one in the order of their LRIs, and the end is  *)
(* reported when every record is out.  Reading may fail at any point.      *)
(***************************************************************************)
CONSTANTS Records, Precedes(_, _)

VARIABLES left,     \* records that have not come out
          result    \* "reading", "end of logs" or "error"

Init == left \in SUBSET Records /\ result = "reading"

Deliver == /\ result = "reading"
           /\ \E r \in left :
                 /\ \A q \in left \ {r} : Precedes(r, q)
                 /\ left' = left \ {r}
           /\ UNCHANGED result

Finish == /\ result = "reading" /\ left = {}
          /\ result' = "end of logs" /\ UNCHANGED left

Fail == /\ result = "reading"
        /\ result' = "error" /\ UNCHANGED left

Next == Deliver \/ Finish \/ Fail

Spec == Init /\ [][Next]_<<left, result>>
=============================================================================
