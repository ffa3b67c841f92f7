---------------------------- MODULE MCVendorRestore ----------------------------
(* Model-checking instances of VendorRestore. *)
EXTENDS VendorRestore

Pair == {1, 2}
\* Longer than the first read; each ends in the first chunk of a buffer or with
\* the last byte of one.
Long == <<12, 20>>
\* No longer than the first read.
Header == <<3, 3>>
\* The second ends in the second chunk of a buffer, before its last byte.
Within == <<12, 19>>
=============================================================================
