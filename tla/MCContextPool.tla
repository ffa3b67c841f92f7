---------------------------- MODULE MCContextPool ----------------------------
(* Model-checking instances of ContextPool. *)
EXTENDS ContextPool

\* Every call may succeed or fail; CONNECT does not warn.
NoWarning == [call \in Calls |->
    IF call = "execute" THEN Sqlcodes
    ELSE {"zero", "error"}]

\* The same with a CONNECT that may answer with a warning.
Warning == [NoWarning EXCEPT !["connect"] = @ \cup {"warning"}]
=============================================================================
