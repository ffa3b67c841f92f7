---------------------------- MODULE MCVendorBackup ----------------------------
(* Model-checking instances of VendorBackup. *)
EXTENDS VendorBackup

CONSTANTS s1, s2, b1, b2

TwoSessions == {s1, s2}
TwoBuffers == {b1, b2}

\* Every failure the code handles the way its comments say.
Handled == Calls \ {"short", "ptr", "delInit", "delNext"}
ShortWrite == {"short"}
PtrFails == {"ptr"}
DelListFails == {"BSAEndTxn", "delInit", "delNext"}
=============================================================================
