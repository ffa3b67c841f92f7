---------------------------- MODULE MCVendorCatalog ----------------------------
(* A small instance of VendorCatalog for TLC. *)
EXTENDS VendorCatalog

CONSTANTS b1, b2

TwoBuffers == {b1, b2}
OtherPartition == {[node |-> 1, kind |-> "FULL", time |-> 3, seq |-> 1]}
WholeCatalog == {Objects}
NoneOrFirst == {{}, {1}}
NameRank == [k \in {"FULL"} |-> 1]
NameLength == [k \in {"FULL"} |-> 27]
LastDigit == [n \in 0 .. 14 |-> IF n = 0 THEN 1 ELSE 10]

\* A session that does not start, a write error, the end of a tape, a transaction in
\* doubt and a failed clean-up.
SomeFail == {"BSAInit", "BSASendData", "full", "BSAEndTxn", "del"}
=============================================================================
