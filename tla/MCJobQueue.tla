------------------------------- MODULE MCJobQueue -------------------------------
(* Model-checking instances of JobQueue. *)
EXTENDS JobQueue

OnlyTasks == {simultaneousTasks}
=============================================================================
