----------------------------- MODULE VendorRestore -----------------------------
(***************************************************************************)
(* BARVendor/vendor.C, restore: for each object of the image DB2 opens a   *)
(* session (sqluvint), calls sqluvget until it reports the end of the      *)
(* media, and ends the session (sqluvend).  Sessions of different objects  *)
(* share nothing, so they are read one after the other here.  DB2 and the  *)
(* XBSA store are modelled from vendor.C's comments and calls.             *)
(***************************************************************************)
EXTENDS Integers

CONSTANTS Objects,     \* the objects of the image, by sequence number
          Length,      \* bytes in each object
          BuffSize,    \* buff_size of every sqluvget
          USHRT_MAX,   \* largest value of the 16-bit length of a DataBlock
          Slack,       \* the 16 in "USHRT_MAX - 16"
          MayFail      \* the store calls that may fail

Calls == {"sqluvint", "BSAQueryObject", "BSAGetObject", "BSAGetData", "sqluvend"}

ASSUME RestoreAssumption ==
    /\ Length \in [Objects -> Nat \ {0}]
    /\ BuffSize \in Nat \ {0}
    /\ USHRT_MAX \in Nat /\ Slack \in Nat /\ Slack < USHRT_MAX
    /\ MayFail \subseteq Calls

VARIABLES
    todo,          \* DB2: the objects not read yet
    obj,           \* the object of the current session
    delivered,     \* DB2: bytes of each object it was given
    verdict,       \* DB2: "running", "restored" or "failed"
    pc,
    begun,         \* READ_BEGUN in handle->status
    rc,            \* of the current or last sqluvget
    actual,        \* data->actual_buff_size
    bytestoread,
    pos,           \* store: bytes of the object handed over so far
    atEnd          \* store: it has answered BSA_RC_NO_MORE_DATA

vars == <<todo, obj, delivered, verdict, pc, begun, rc, actual, bytestoread,
          pos, atEnd>>

Pcs == {"idle", "ready", "query", "object", "first", "data", "return", "end"}
Rcs == {"SQLUV_OK", "SQLUV_MORE_DATA", "SQLUV_ENDOFMEDIA", "SQLUV_IO_ERROR",
        "SQLUV_OBJ_NOT_FOUND"}

Init == /\ todo = Objects /\ obj \in Objects
        /\ delivered = [o \in Objects |-> 0] /\ verdict = "running"
        /\ pc = "idle" /\ begun = FALSE /\ rc = "SQLUV_OK"
        /\ actual = 0 /\ bytestoread = 0 /\ pos = 0 /\ atEnd = FALSE
-----------------------------------------------------------------------------
(* The store's BSAGetData: n bytes and an answer for a buffer of len bytes *)

Rest == Length[obj] - pos

\* It fills the buffer as far as the object goes.  The end is reported with the
\* last byte, or with no bytes by the call after it.
GetData(n, answer, len) ==
    /\ n = IF len < Rest THEN len ELSE Rest
    /\ \/ answer = "NO_MORE_DATA" /\ n = Rest
       \/ answer = "MORE_DATA" /\ n = len /\ (len > 0 => Rest > 0)
       \/ answer = "error" /\ "BSAGetData" \in MayFail
    /\ pos' = pos + n
    /\ atEnd' = (atEnd \/ answer = "NO_MORE_DATA")

Answers == {"MORE_DATA", "NO_MORE_DATA", "error"}
-----------------------------------------------------------------------------
(* DB2 and sqluvint *)

Open == /\ pc = "idle" /\ verdict = "running"
        /\ obj' \in todo
        /\ \/ pc' = "ready" /\ UNCHANGED verdict
           \/ "sqluvint" \in MayFail /\ verdict' = "failed" /\ UNCHANGED pc
        /\ begun' = FALSE /\ pos' = 0 /\ atEnd' = FALSE
        /\ UNCHANGED <<todo, delivered, rc, actual, bytestoread>>

\* sqluvget is called; the first call of a session takes another path.
GetCall == /\ pc = "ready"
           /\ pc' = IF begun THEN "data" ELSE "query"
           /\ rc' = "SQLUV_OK" /\ actual' = 0 /\ bytestoread' = BuffSize
           /\ UNCHANGED <<todo, obj, delivered, verdict, begun, pos, atEnd>>
-----------------------------------------------------------------------------
(* sqluvget, first call *)

\* Mutant: READ_BEGUN is not set.
QueryForgets == /\ pc = "query" /\ pc' = "object"
                /\ UNCHANGED <<todo, obj, delivered, verdict, begun, rc, actual,
                               bytestoread, pos, atEnd>>

Query == /\ pc = "query"
         /\ \/ pc' = "object" /\ begun' = TRUE /\ UNCHANGED rc
            \/ /\ "BSAQueryObject" \in MayFail
               /\ pc' = "return" /\ rc' = "SQLUV_OBJ_NOT_FOUND"
               /\ UNCHANGED begun
         /\ UNCHANGED <<todo, obj, delivered, verdict, actual, bytestoread, pos,
                        atEnd>>

\* BSAGetObject opens the object and hands over no byte of it.
GetObject == /\ pc = "object"
             /\ \/ pc' = "first" /\ UNCHANGED rc
                \/ /\ "BSAGetObject" \in MayFail
                   /\ pc' = "return"
                   /\ rc' \in {"SQLUV_OBJ_NOT_FOUND", "SQLUV_IO_ERROR"}
             /\ UNCHANGED <<todo, obj, delivered, verdict, begun, actual,
                            bytestoread, pos, atEnd>>

\* The length is cut to 16 bits; every answer but MORE_DATA is an error.
FirstData ==
    /\ pc = "first"
    /\ \E n \in 0 .. BuffSize, answer \in Answers :
          /\ GetData(n, answer, BuffSize % (USHRT_MAX + 1))
          /\ actual' = n
          /\ rc' = IF answer = "MORE_DATA" THEN "SQLUV_MORE_DATA"
                   ELSE "SQLUV_IO_ERROR"
    /\ pc' = "return"
    /\ UNCHANGED <<todo, obj, delivered, verdict, begun, bytestoread>>
-----------------------------------------------------------------------------
(* sqluvget, later calls *)

BufferLen(rest) == IF rest >= USHRT_MAX THEN USHRT_MAX - Slack ELSE rest

\* Mutant: the count restarts with every chunk.
CountedLast(n) == n

Counted(n) == actual + n

\* The value of rc after the loop.
\* Mutant: the end of the media is taken for a full buffer.
RcAfterLoopFull(code, answer) ==
    IF answer = "MORE_DATA" THEN "SQLUV_ENDOFMEDIA" ELSE code

RcAfterLoop(code, answer) ==
    IF answer = "NO_MORE_DATA" THEN "SQLUV_ENDOFMEDIA" ELSE code

\* One round.  After MORE_DATA rc stays SQLUV_MORE_DATA, whatever comes next.
Data ==
    /\ pc = "data"
    /\ \E n \in 0 .. BuffSize, answer \in Answers :
          LET code == IF answer = "MORE_DATA" THEN "SQLUV_MORE_DATA" ELSE rc IN
          /\ GetData(n, answer, BufferLen(bytestoread))
          /\ actual' = Counted(n)
          /\ IF answer = "error"
             THEN pc' = "return" /\ rc' = "SQLUV_IO_ERROR"
                  /\ UNCHANGED bytestoread
             ELSE /\ bytestoread' = bytestoread - n
                  /\ IF bytestoread' > 0 /\ code = "SQLUV_MORE_DATA"
                     THEN pc' = "data" /\ rc' = code
                     ELSE pc' = "return" /\ rc' = RcAfterLoop(code, answer)
    /\ UNCHANGED <<todo, obj, delivered, verdict, begun>>
-----------------------------------------------------------------------------
(* DB2 takes the buffer; sqluvend *)

Return ==
    /\ pc = "return"
    /\ \/ /\ rc \in {"SQLUV_OK", "SQLUV_MORE_DATA", "SQLUV_ENDOFMEDIA"}
          /\ delivered' = [delivered EXCEPT ![obj] = @ + actual]
          /\ pc' = IF rc = "SQLUV_ENDOFMEDIA" THEN "end" ELSE "ready"
          /\ UNCHANGED verdict
       \/ /\ rc \in {"SQLUV_IO_ERROR", "SQLUV_OBJ_NOT_FOUND"}
          /\ verdict' = "failed" /\ pc' = "end"
          /\ UNCHANGED delivered
    /\ UNCHANGED <<todo, obj, begun, rc, actual, bytestoread, pos, atEnd>>

End == /\ pc = "end"
       /\ pc' = "idle"
       /\ todo' = todo \ {obj}
       /\ \/ verdict' = IF verdict = "running" /\ todo' = {} THEN "restored"
                        ELSE verdict
          \/ "sqluvend" \in MayFail /\ verdict' = "failed"
       /\ UNCHANGED <<obj, delivered, begun, rc, actual, bytestoread, pos, atEnd>>

Over == pc = "idle" /\ verdict # "running"

Stop == Over /\ UNCHANGED vars

Step == Open \/ GetCall \/ Query \/ GetObject \/ FirstData \/ Data \/ Return \/ End

Next == Step \/ Stop

\* DB2 calls the functions one after the other and each of them runs on.
Spec == Init /\ [][Next]_vars /\ WF_vars(Step)
-----------------------------------------------------------------------------
(* Properties *)

\* Every variable keeps its type; no buffer is filled beyond its size.
TypeOK == /\ todo \subseteq Objects /\ obj \in Objects
          /\ delivered \in [Objects -> Nat]
          /\ verdict \in {"running", "restored", "failed"}
          /\ pc \in Pcs /\ begun \in BOOLEAN /\ rc \in Rcs
          /\ actual \in 0 .. BuffSize /\ bytestoread \in 0 .. BuffSize
          /\ pos \in 0 .. Length[obj] /\ atEnd \in BOOLEAN

\* DB2 has been given exactly the bytes that left the store: none is lost,
\* repeated or overwritten in the buffer, however sqluvget splits its reads.
NothingSkipped == pc = "ready" => delivered[obj] = pos

\* A restore that succeeds delivered every byte of every object.
RestoredIsWhole ==
    verdict = "restored" => \A o \in Objects : delivered[o] = Length[o]

\* "SQLUV_ENDOFMEDIA - Reached end of media while reading data": a sqluvget in
\* which the store reports the end of the object returns that to DB2.
EndReported == pc = "return" /\ atEnd => rc = "SQLUV_ENDOFMEDIA"

\* The restore ends, and without failing calls it ends well.
RestoreEnds == <>(IF MayFail = {} THEN verdict = "restored" ELSE Over)
=============================================================================
