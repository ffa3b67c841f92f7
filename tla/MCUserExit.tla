------------------------------- MODULE MCUserExit -------------------------------
(* Model-checking instance of UserExit. *)
EXTENDS UserExit

\* Every fault with every other, and all but the one that excuses a rollforward
\* from getting a log.
Usual == [device : Devices, faults : {Kinds, Kinds \ {"open"}}]
=============================================================================
