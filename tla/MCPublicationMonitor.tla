------------------------- MODULE MCPublicationMonitor -------------------------
(* A small instance of PublicationMonitor for TLC. *)
EXTENDS PublicationMonitor

CONSTANTS m1, m2, m3, bad

MCMessages == {m1, m2, m3, bad}

\* A transaction on two tables of one database, a transaction that changes a table
\* twice, a single row of another database, and a message that does not parse.
MCRowsOf == m1 :> <<<<2, "rowsInserted">>, <<1, "rowsDeleted">>>>
            @@ m2 :> <<<<2, "rowsInserted">>, <<2, "rowsInserted">>>>
            @@ m3 :> <<<<3, "rowsUpdated">>>>
            @@ bad :> <<>>

MCDbOf == [t \in {1, 2, 3} |-> IF t = 3 THEN "B" ELSE "A"]
=============================================================================
