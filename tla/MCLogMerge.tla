------------------------------- MODULE MCLogMerge -------------------------------
(* Model-checking instance of LogMerge. *)
EXTENDS LogMerge, FiniteSets

\* Neighbours, and the highest in use.
LFSs == {1, 2, 3, Modulus - 3}

\* Stream owner[f] wrote count[f] records with LFS f; a stream numbers its
\* records on, so that LSNs of different streams overlap.
LogOf(owner, count) ==
    [s \in Streams |->
        LET own == {f \in LFSs : owner[f] = s}
            upTo(f) == Cardinality({<<g, k>> \in own \X (1 .. 2) :
                                                     g <= f /\ k <= count[g]})
            flush(k) == CHOOSE f \in own : upTo(f) >= k /\ upTo(f) - count[f] < k
        IN [k \in 1 .. upTo(Modulus) |-> <<flush(k), k>>]]

\* Each LFS belongs to any stream and has up to two records, the first only one.
AllLogs == {LogOf(owner, count) : owner \in [LFSs -> 0 .. Paths - 1],
                                  count \in {c \in [LFSs -> 0 .. 2] : c[1] = 1}}
=============================================================================
