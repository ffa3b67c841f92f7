-------------------------- MODULE VendorRestoreProofs --------------------------
(***************************************************************************)
(* The safety of VendorRestore for any image, any buffer size and any      *)
(* length of a DataBlock, whatever calls fail.                             *)
(***************************************************************************)
EXTENDS VendorRestore, TLAPS

(* The inductive invariant, in named parts. *)

Getting == {"query", "object", "first", "data"}

\* Objects are read one after the other, and one that is over is whole unless
\* the restore has failed.
Objectwise ==
    /\ pc # "idle" => obj \in todo
    /\ \A o \in todo : o # obj \/ pc = "idle" => delivered[o] = 0
    /\ verdict # "failed" => \A o \in Objects \ todo : delivered[o] = Length[o]
    /\ verdict = "restored" => pc = "idle" /\ todo = {}

\* Where the bytes that have left the store are.
InHand ==
    /\ pc = "ready" => delivered[obj] = pos
    /\ pc \in {"object", "first", "data"} => begun
    /\ ~begun => pos = 0
    /\ pc \in {"query", "object", "first"} => delivered[obj] = 0 /\ pos = 0 /\ actual = 0
    /\ pc \in {"data", "return"} => delivered[obj] + actual = pos
    /\ pc = "data" => actual + bytestoread = BuffSize

\* The end of the media is reported at the end of the object only.
EndIsEnd ==
    /\ pc \in Getting => rc \in {"SQLUV_OK", "SQLUV_MORE_DATA"}
    /\ pc = "return" /\ rc = "SQLUV_ENDOFMEDIA" => pos = Length[obj]
    /\ pc = "end" => verdict = "failed" \/ delivered[obj] = Length[obj]

IInv == TypeOK /\ Objectwise /\ InHand /\ EndIsEnd
-----------------------------------------------------------------------------
\* What the proofs use of the constants.
LEMMA ConstTypes ==
  /\ BuffSize \in Nat /\ BuffSize > 0 /\ USHRT_MAX \in Nat /\ Slack \in Nat /\ Slack < USHRT_MAX
  /\ \A o \in Objects : Length[o] \in Nat /\ Length[o] > 0
<1> QED BY RestoreAssumption

\* The store hands over no more than the object has, and all of it if it
\* reports the end.
LEMMA GetDataFacts ==
  ASSUME TypeOK, NEW n \in 0 .. BuffSize, NEW answer, NEW len \in Nat, GetData(n, answer, len)
  PROVE  /\ n <= len /\ pos' = pos + n /\ pos' \in 0 .. Length[obj]
         /\ answer = "NO_MORE_DATA" => pos' = Length[obj]
         /\ atEnd' \in BOOLEAN
<1>1. pos \in 0 .. Length[obj] /\ Length[obj] \in Nat /\ atEnd \in BOOLEAN
  BY ConstTypes DEF TypeOK
<1>2. n <= len /\ n <= Rest /\ Rest = Length[obj] - pos /\ pos' = pos + n
  BY <1>1 DEF GetData, Rest
<1>3. answer = "NO_MORE_DATA" => n = Rest
  BY <1>1 DEF GetData, Rest
<1>4. atEnd' \in BOOLEAN
  BY <1>1 DEF GetData
<1> QED BY <1>1, <1>2, <1>3, <1>4

\* A chunk is no longer than what is missing of the buffer.
LEMMA BufferLenFacts ==
  ASSUME NEW rest \in Nat
  PROVE  BufferLen(rest) \in 0 .. rest
<1> QED BY ConstTypes DEF BufferLen

\* The first state.
LEMMA InitHolds == Init => IInv
<1> SUFFICES ASSUME Init PROVE IInv
  OBVIOUS
<1>1. Length[obj] \in Nat /\ BuffSize \in Nat
  BY ConstTypes DEF Init
<1>2. TypeOK
  <2>1. delivered \in [Objects -> Nat]
    BY DEF Init
  <2>2. pos \in 0 .. Length[obj] /\ actual \in 0 .. BuffSize /\ bytestoread \in 0 .. BuffSize
    BY <1>1 DEF Init
  <2> QED BY <2>1, <2>2 DEF Init, TypeOK, Pcs, Rcs
<1>3. Objectwise /\ InHand /\ EndIsEnd
  BY DEF Init, Objectwise, InHand, EndIsEnd, Getting
<1> QED BY <1>2, <1>3 DEF IInv

\* A session is opened for an object nothing was delivered of.
LEMMA OpenStep ==
  ASSUME IInv, Open
  PROVE  IInv'
<1>1. obj' \in todo /\ obj' \in Objects /\ Length[obj'] \in Nat /\ delivered[obj'] = 0
  BY ConstTypes DEF IInv, TypeOK, Objectwise, Open
<1>2. TypeOK'
  <2>1. pos' \in 0 .. Length'[obj']
    BY <1>1 DEF Open
  <2> QED BY <1>1, <2>1 DEF IInv, TypeOK, Open, Pcs
<1>3. Objectwise' /\ InHand' /\ EndIsEnd'
  BY <1>1 DEF IInv, TypeOK, Objectwise, InHand, EndIsEnd, Open, Getting
<1> QED BY <1>2, <1>3 DEF IInv

\* A call of sqluvget starts with an empty buffer.
LEMMA GetCallStep ==
  ASSUME IInv, GetCall
  PROVE  IInv'
<1>1. TypeOK'
  BY ConstTypes DEF IInv, TypeOK, GetCall, Pcs, Rcs
<1>2. Objectwise' /\ EndIsEnd'
  BY DEF IInv, Objectwise, EndIsEnd, GetCall, Getting
<1>3. InHand'
  <2>1. delivered[obj] + 0 = pos /\ 0 + BuffSize = BuffSize
    BY ConstTypes DEF IInv, TypeOK, InHand, GetCall
  <2> QED BY <2>1 DEF IInv, InHand, GetCall
<1> QED BY <1>1, <1>2, <1>3 DEF IInv

\* The query moves no byte.
LEMMA QueryStep ==
  ASSUME IInv, Query
  PROVE  IInv'
<1>1. TypeOK'
  BY DEF IInv, TypeOK, Query, Pcs, Rcs
<1>2. Objectwise' /\ InHand' /\ EndIsEnd'
  BY DEF IInv, Objectwise, InHand, EndIsEnd, Query, Getting
<1> QED BY <1>1, <1>2 DEF IInv

\* Nor does the opening of the object.
LEMMA GetObjectStep ==
  ASSUME IInv, GetObject
  PROVE  IInv'
<1>1. TypeOK'
  BY DEF IInv, TypeOK, GetObject, Pcs, Rcs
<1>2. Objectwise' /\ InHand' /\ EndIsEnd'
  BY DEF IInv, Objectwise, InHand, EndIsEnd, GetObject, Getting
<1> QED BY <1>1, <1>2 DEF IInv

\* The first read fills the buffer with what leaves the store.
LEMMA FirstDataStep ==
  ASSUME IInv, FirstData
  PROVE  IInv'
<1>1. PICK n \in 0 .. BuffSize, answer \in Answers :
         /\ GetData(n, answer, BuffSize % (USHRT_MAX + 1))
         /\ actual' = n
         /\ rc' = IF answer = "MORE_DATA" THEN "SQLUV_MORE_DATA" ELSE "SQLUV_IO_ERROR"
  BY DEF FirstData
<1>2. BuffSize % (USHRT_MAX + 1) \in Nat
  BY ConstTypes
<1>3. pos' = pos + n /\ pos' \in 0 .. Length[obj] /\ atEnd' \in BOOLEAN
  BY <1>1, <1>2, GetDataFacts DEF IInv
<1>4. /\ pc = "first" /\ pc' = "return"
      /\ UNCHANGED <<todo, obj, delivered, verdict, begun, bytestoread>>
  BY DEF FirstData
<1>5. TypeOK'
  BY <1>1, <1>3, <1>4 DEF IInv, TypeOK, Pcs, Rcs
<1>6. delivered[obj] + n = pos + n
  BY <1>4 DEF IInv, InHand
<1>7. Objectwise' /\ InHand' /\ EndIsEnd'
  BY <1>1, <1>3, <1>4, <1>6 DEF IInv, Objectwise, InHand, EndIsEnd, Getting
<1> QED BY <1>5, <1>7 DEF IInv

\* So does every chunk of a later call.
LEMMA DataStep ==
  ASSUME IInv, Data
  PROVE  IInv'
<1> DEFINE Code(answer) == IF answer = "MORE_DATA" THEN "SQLUV_MORE_DATA" ELSE rc
<1>1. PICK n \in 0 .. BuffSize, answer \in Answers :
         /\ GetData(n, answer, BufferLen(bytestoread))
         /\ actual' = Counted(n)
         /\ IF answer = "error"
            THEN pc' = "return" /\ rc' = "SQLUV_IO_ERROR" /\ UNCHANGED bytestoread
            ELSE /\ bytestoread' = bytestoread - n
                 /\ IF bytestoread' > 0 /\ Code(answer) = "SQLUV_MORE_DATA"
                    THEN pc' = "data" /\ rc' = Code(answer)
                    ELSE pc' = "return" /\ rc' = RcAfterLoop(Code(answer), answer)
  BY DEF Data
<1>2. /\ pc = "data" /\ UNCHANGED <<todo, obj, delivered, verdict, begun>>
      /\ rc \in {"SQLUV_OK", "SQLUV_MORE_DATA"}
      /\ delivered[obj] + actual = pos /\ actual + bytestoread = BuffSize
  BY DEF IInv, InHand, EndIsEnd, Data, Getting
<1>3. /\ bytestoread \in 0 .. BuffSize /\ actual \in 0 .. BuffSize /\ BuffSize \in Nat
      /\ delivered[obj] \in Nat
  BY ConstTypes DEF IInv, TypeOK
<1>4. BufferLen(bytestoread) \in 0 .. bytestoread
  BY <1>3, BufferLenFacts
<1>5. /\ n <= bytestoread /\ pos' = pos + n /\ pos' \in 0 .. Length[obj]
      /\ answer = "NO_MORE_DATA" => pos' = Length[obj]
      /\ atEnd' \in BOOLEAN
  BY <1>1, <1>3, <1>4, GetDataFacts DEF IInv
<1>6. actual' = actual + n /\ actual' \in 0 .. BuffSize /\ delivered[obj] + actual' = pos'
  BY <1>1, <1>2, <1>3, <1>5 DEF Counted
<1>7. /\ bytestoread' \in 0 .. BuffSize
      /\ pc' = "data" => actual' + bytestoread' = BuffSize
  BY <1>1, <1>2, <1>3, <1>5, <1>6
<1>8. /\ pc' \in {"data", "return"} /\ rc' \in Rcs
      /\ pc' = "data" => rc' = "SQLUV_MORE_DATA"
      /\ rc' = "SQLUV_ENDOFMEDIA" => pos' = Length[obj]
  BY <1>1, <1>2, <1>5 DEF RcAfterLoop, Rcs
<1>9. TypeOK'
  BY <1>2, <1>5, <1>6, <1>7, <1>8 DEF IInv, TypeOK, Pcs
<1>10. Objectwise' /\ InHand' /\ EndIsEnd'
  BY <1>2, <1>6, <1>7, <1>8 DEF IInv, Objectwise, InHand, EndIsEnd, Getting
<1> QED BY <1>9, <1>10 DEF IInv

\* DB2 takes the bytes with SQLUV_OK, MORE_DATA and ENDOFMEDIA only.
LEMMA ReturnStep ==
  ASSUME IInv, Return
  PROVE  IInv'
<1>1. /\ pc = "return" /\ obj \in todo /\ obj \in Objects /\ delivered \in [Objects -> Nat]
      /\ delivered[obj] + actual = pos /\ pos \in Nat
      /\ UNCHANGED <<todo, obj, begun, rc, actual, bytestoread, pos, atEnd>>
  BY ConstTypes DEF IInv, TypeOK, Objectwise, InHand, Return
<1>2. CASE /\ rc \in {"SQLUV_OK", "SQLUV_MORE_DATA", "SQLUV_ENDOFMEDIA"}
           /\ delivered' = [delivered EXCEPT ![obj] = @ + actual]
           /\ pc' = IF rc = "SQLUV_ENDOFMEDIA" THEN "end" ELSE "ready"
           /\ UNCHANGED verdict
  <2>1. delivered' = [delivered EXCEPT ![obj] = pos]
    BY <1>1, <1>2
  <2>2. /\ delivered' \in [Objects -> Nat] /\ delivered'[obj] = pos
        /\ \A o \in Objects : o # obj => delivered'[o] = delivered[o]
    BY <1>1, <2>1
  <2>3. TypeOK'
    BY <1>1, <1>2, <2>2 DEF IInv, TypeOK, Pcs
  <2>4. Objectwise'
    BY <1>1, <1>2, <2>2 DEF IInv, TypeOK, Objectwise
  <2> QED BY <1>1, <1>2, <2>2, <2>3, <2>4 DEF IInv, InHand, EndIsEnd, Getting
<1>3. CASE verdict' = "failed" /\ pc' = "end" /\ UNCHANGED delivered
  BY <1>1, <1>3 DEF IInv, TypeOK, Objectwise, InHand, EndIsEnd, Getting, Pcs
<1> QED BY <1>2, <1>3 DEF Return

\* An object is over when its session is, and done if none reported an error.
LEMMA EndStep ==
  ASSUME IInv, End
  PROVE  IInv'
<1>1. TypeOK'
  BY DEF IInv, TypeOK, End, Pcs
<1>2. Objectwise'
  BY DEF IInv, TypeOK, Objectwise, EndIsEnd, End
<1>3. InHand' /\ EndIsEnd'
  BY DEF IInv, End, InHand, EndIsEnd, Getting
<1> QED BY <1>1, <1>2, <1>3 DEF IInv

\* Every step of a session keeps the invariant.
LEMMA Inductive == IInv /\ [Next]_vars => IInv'
<1> SUFFICES ASSUME IInv, [Next]_vars PROVE IInv'
  OBVIOUS
<1>1. CASE UNCHANGED vars
  BY <1>1 DEF vars, IInv, TypeOK, Objectwise, InHand, EndIsEnd
<1> QED BY <1>1, OpenStep, GetCallStep, QueryStep, GetObjectStep, FirstDataStep, DataStep,
           ReturnStep, EndStep DEF Next, Step, Stop

\* So it holds for ever.
LEMMA Safe == Spec => []IInv
<1> QED BY InitHolds, Inductive, PTL DEF Spec
-----------------------------------------------------------------------------
\* No buffer of DB2 is filled beyond its size and no object is read beyond its
\* end, whatever the two sizes are.
THEOREM TypeOKHolds == Spec => []TypeOK
<1>1. IInv => TypeOK
  BY DEF IInv
<1> QED BY <1>1, Safe, PTL

\* Between two calls of sqluvget DB2 has every byte that has left the store,
\* also where a length does not fit into 16 bits.
THEOREM NothingSkippedHolds == Spec => []NothingSkipped
<1>1. IInv => NothingSkipped
  BY DEF IInv, InHand, NothingSkipped
<1> QED BY <1>1, Safe, PTL

\* A restore never succeeds with a byte of the image missing.
THEOREM RestoredIsWholeHolds == Spec => []RestoredIsWhole
<1>1. IInv => RestoredIsWhole
  BY DEF IInv, Objectwise, RestoredIsWhole
<1> QED BY <1>1, Safe, PTL
=============================================================================
