---------------------------- MODULE MCVendorSelect ----------------------------
(* Model-checking instances of VendorSelect. *)
EXTENDS VendorSelect

ObjectOf(n, k, t, q) == [node |-> n, kind |-> k, time |-> t, seq |-> q]

\* The objects of an image that two media sessions wrote.
Parts(n, k, t) == {ObjectOf(n, k, t, 1), ObjectOf(n, k, t, 2)}

Unions(images) == {UNION S : S \in SUBSET images}

FullAndTSP == Unions({Parts(0, "FULL", 1), Parts(0, "FULL", 2),
                      Parts(0, "TSP", 2), Parts(0, "TSP", 3),
                      {ObjectOf(1, "FULL", 3, 1)}})

\* A full and an incremental image of the database, either one the newer, so
\* that it does not matter which of the two names is the greater.
FullAndIncremental ==
    {Parts(0, "FULL", 1) \cup Parts(0, "DB_INCR", 2),
     Parts(0, "DB_INCR", 1) \cup Parts(0, "FULL", 2)}

\* An image of the table spaces and two incremental ones, whose name is longer.
TwoIncrements ==
    {Parts(0, "TSP", 1) \cup {ObjectOf(0, "TSP_INCR", 2, 1), ObjectOf(0, "TSP_INCR", 3, 1)}}

NoneGiven == {{}}
\* None, one timestamp, or a prefix of two.
AnyRequest == {{}, {2}, {1, 2}}

FULL == {"FULL"}
FULLorINCR == {"FULL", "DB_INCR"}
TSP == {"TSP"}
TSPorINCR == {"TSP", "TSP_INCR"}

\* Names end in _BACKUP, timestamps have 14 digits; those of the catalogs above
\* differ in the last one.
Names == <<"DB_INCR", "FULL", "TSP", "TSP_INCR">>
NameRank == [k \in DBKinds \cup TSPKinds |-> CHOOSE n \in 1 .. 4 : Names[n] = k]
NameLength == [k \in DBKinds \cup TSPKinds |->
                  CASE k = "TSP" -> 26 [] k = "FULL" -> 27 [] k = "DB_INCR" -> 30
                    [] k = "TSP_INCR" -> 31]
LastDigit == [n \in 0 .. 14 |-> IF n = 0 THEN 1 ELSE 10]
=============================================================================
