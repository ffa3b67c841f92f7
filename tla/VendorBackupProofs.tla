-------------------------- MODULE VendorBackupProofs --------------------------
(***************************************************************************)
(* The safety of VendorBackup for any number of sessions and buffers, any  *)
(* buffer size and chunk length, and any combination of failing calls but  *)
(* the ones a theorem excludes by name.                                    *)
(***************************************************************************)
EXTENDS VendorBackup, TLAPS

(* The inductive invariant, in named parts. *)

Opening == {"idle", "init", "begin", "create", "cleanup"}
Writing == {"send", "return"}
Fresh == {"idle", "init", "begin", "create", "ptr", "cleanup", "ready", "send",
          "return"}
Ending == {"ready", "send", "return", "enddata"}
Kept == {"SQLUV_COMMIT", "SQLUV_TERMINATE"}

\* A session without INIT_DONE is released by sqluvint's exit label.
Released ==
    \A s \in Sessions :
        /\ "ptr" \notin MayFail /\ pc[s] \in Opening => status[s] = {}
        /\ "ptr" \notin MayFail /\ pc[s] = "initfailed" =>
              xbsa[s] = "closed" /\ object[s] # "pending"
        /\ pc[s] = "ended" => xbsa[s] = "closed" /\ object[s] # "pending"

\* After the decision no session moves; sqluvdel runs only then.
Decided ==
    /\ outcome # "running" =>
          \A s \in Sessions : pc[s] \in {"idle", "ended", "initfailed"}
    /\ outcome = "succeeded" =>
          /\ acked = Buffers
          /\ \A s \in Sessions : pc[s] = "ended" => rc[s] = "SQLUV_OK"
    /\ delPc # "idle" => outcome = "failed"

\* A buffer is queued, in the hands of one session, or acknowledged.
Handed ==
    /\ queue \cap acked = {}
    /\ \A s \in Sessions : pc[s] \in Writing =>
          buffer[s] \in Buffers \ (queue \cup acked)
    /\ \A s, t \in Sessions :
          pc[s] \in Writing /\ pc[t] \in Writing /\ buffer[s] = buffer[t] => s = t

\* Until a session ends, its object holds nothing but acknowledged buffers and
\* the one it is writing.
OnlyAcked ==
    \A s \in Sessions : pc[s] \in Fresh =>
        \A b \in Buffers : stored[s][b] # 0 =>
            b \in acked \/ (pc[s] \in Writing /\ b = buffer[s])

\* The bytes of the buffer in hand.
Counts ==
    \A s \in Sessions : pc[s] \in Writing =>
        /\ byteswritten[s] = stored[s][buffer[s]]
        /\ pc[s] = "send" => rc[s] = "SQLUV_OK"
        /\ pc[s] = "send" => byteswritten[s] + bytestowrite[s] <= BuffSize
        /\ "short" \notin MayFail /\ pc[s] = "send" =>
              byteswritten[s] + bytestowrite[s] = BuffSize
        /\ "short" \notin MayFail /\ pc[s] = "return" /\ rc[s] = "SQLUV_OK" =>
              byteswritten[s] = BuffSize

\* Session s will commit its object, has committed it, or reports an error.
Commits(s) ==
    \/ pc[s] \in {"ready", "send", "return"}
    \/ pc[s] = "enddata" /\ action[s] \in Kept
    \/ pc[s] = "endtxn" /\ (action[s] \in Kept \/ rc[s] = "SQLUV_DEV_ERROR")
    \/ /\ pc[s] \in {"terminate", "ended"}
       /\ object[s] = "committed" \/ rc[s] = "SQLUV_DEV_ERROR"

AckedIsKept ==
    "short" \notin MayFail /\ outcome # "failed" =>
        \A b \in acked : \E s \in Sessions : Commits(s) /\ stored[s][b] = BuffSize

\* As long as sqluvdel has met no error its list is complete.
Listed ==
    "delInit" \notin MayFail /\ "delNext" \notin MayFail =>
        /\ delPc \in {"idle", "query"} => delRc = "SQLUV_OK"
        /\ delPc \in {"begin", "delete", "endtxn"} => fileList = Committed
        /\ delPc \in {"cleanup", "done"} /\ delRc = "SQLUV_OK" => Committed = {}

IInv == TypeOK /\ Released /\ Decided /\ Handed /\ OnlyAcked /\ Counts
        /\ AckedIsKept /\ Listed
-----------------------------------------------------------------------------
\* A chunk is not empty, not larger than what is left, and fits 16 bits.
LEMMA BufferLenFacts ==
  ASSUME NEW rest \in Nat \ {0}
  PROVE  BufferLen(rest) \in 1 .. rest
<1> DEFINE len == IF rest >= USHRT_MAX THEN USHRT_MAX - Slack ELSE rest
<1>1. len \in 1 .. rest /\ len <= USHRT_MAX
  BY BackupAssumption
<1>2. \A x, m \in Nat : x < m => x % m = x
  OBVIOUS
<1>3. len % (USHRT_MAX + 1) = len
  BY <1>1, <1>2, BackupAssumption
<1> QED BY <1>1, <1>3 DEF BufferLen

\* sqluvdel leaves everything but the objects as the sessions left it.
LEMMA DelFrame ==
  ASSUME DelStep
  PROVE  /\ UNCHANGED <<queue, acked, outcome, pc, status, rc, action, buffer,
                        bytestowrite, byteswritten, xbsa, stored>>
         /\ \/ UNCHANGED object
            \/ object' = [s \in Sessions |-> IF s \in fileList THEN "absent"
                                             ELSE object[s]]
<1> QED BY DEF DelStep, DelInit, DelQueryFails, DelFound, DelFoundAll, DelBegin,
               DelDelete, DelEndTxn, DelCleanup, DelUnchanged, DeletedObjects,
               putVars

\* While a session moves, DB2 has not decided and sqluvdel has not started.
LEMMA SessionsFirst ==
  ASSUME IInv, NEW s \in Sessions, SessionStep(s)
  PROVE  outcome = "running" /\ delPc = "idle" /\ UNCHANGED <<outcome, delVars>>
<1>1. outcome = "running"
  BY DEF IInv, Decided, SessionStep, Alloc, IntInit, IntBegin, IntCreate,
     IntPtr,
         IntExit, PutCall, Send, SendDone, PutReturns, EndCall, EndData, EndTxn,
         EndTerminate, Try, Goto
<1>2. UNCHANGED <<outcome, delVars>>
  BY DEF SessionStep, Alloc, IntInit, IntBegin, IntCreate, IntPtr,
         IntExit, PutCall, Send, SendDone, PutReturns, EndCall, EndData, EndTxn,
         EndTerminate, db2Vars, storeVars
<1> QED BY <1>1, <1>2 DEF IInv, Decided

\* What one round of sqluvput's loop does.
SendEffect(s, len, n) ==
    /\ len \in 1 .. bytestowrite[s] /\ n \in 0 .. len
    /\ bytestowrite' = [bytestowrite EXCEPT ![s] = bytestowrite[s] - len]
    /\ byteswritten' = [byteswritten EXCEPT ![s] = byteswritten[s] + n]
    /\ stored' = [stored EXCEPT ![s] =
                     [stored[s] EXCEPT ![buffer[s]] = stored[s][buffer[s]] + n]]
    /\ \/ /\ pc' = pc /\ rc' = rc
          /\ "short" \notin MayFail => n = len
       \/ /\ pc' = [pc EXCEPT ![s] = "return"]
          /\ \E code \in {"SQLUV_END_OF_TAPE", "SQLUV_IO_ERROR"} :
                rc' = [rc EXCEPT ![s] = code]

\* A round moves a chunk from bytestowrite to the object, or ends sqluvput.
LEMMA SendFacts ==
  ASSUME IInv, NEW s \in Sessions, Send(s)
  PROVE  /\ pc[s] = "send" /\ rc[s] = "SQLUV_OK"
         /\ buffer[s] \in Buffers \ (queue \cup acked)
         /\ stored[s][buffer[s]] = byteswritten[s]
         /\ byteswritten[s] + bytestowrite[s] <= BuffSize
         /\ \E len, n \in Nat : SendEffect(s, len, n)
<1> USE DEF IInv, TypeOK
<1> DEFINE len == BufferLen(bytestowrite[s])
<1>1. /\ pc[s] = "send" /\ rc[s] = "SQLUV_OK"
      /\ buffer[s] \in Buffers \ (queue \cup acked)
      /\ stored[s][buffer[s]] = byteswritten[s]
      /\ byteswritten[s] + bytestowrite[s] <= BuffSize
  BY DEF Send, Counts, Handed, Writing
<1>2. len \in 1 .. bytestowrite[s]
  <2>1. bytestowrite[s] \in Nat \ {0}
    BY BackupAssumption DEF Send
  <2> QED BY <2>1, BufferLenFacts
<1>3. bytestowrite' = [bytestowrite EXCEPT ![s] = bytestowrite[s] - len]
  BY DEF Send
<1>4. bytestowrite[s] \in Nat /\ byteswritten[s] \in Nat
  BY BackupAssumption
<1>5. CASE \E n \in NumBytes(len) :
             /\ byteswritten' = [byteswritten EXCEPT ![s] = @ + n]
             /\ stored' = [stored EXCEPT ![s][buffer[s]] = @ + n]
             /\ IF EndOfTape(n)
                THEN /\ pc' = [pc EXCEPT ![s] = "return"]
                     /\ rc' = [rc EXCEPT ![s] = "SQLUV_END_OF_TAPE"]
                ELSE UNCHANGED <<pc, rc>>
  <2> HIDE DEF len
  <2>1. PICK n \in NumBytes(len) :
             /\ byteswritten' = [byteswritten EXCEPT ![s] = @ + n]
             /\ stored' = [stored EXCEPT ![s][buffer[s]] = @ + n]
             /\ IF EndOfTape(n)
                THEN /\ pc' = [pc EXCEPT ![s] = "return"]
                     /\ rc' = [rc EXCEPT ![s] = "SQLUV_END_OF_TAPE"]
                ELSE UNCHANGED <<pc, rc>>
    BY <1>5
  <2>2. n \in 0 .. len /\ (n # 0 /\ "short" \notin MayFail => n = len)
    BY <1>2, <1>4, <2>1 DEF NumBytes
  <2>3. SendEffect(s, len, n)
    BY <1>2, <1>3, <2>1, <2>2 DEF SendEffect, EndOfTape
  <2> QED BY <1>1, <1>2, <1>4, <2>2, <2>3
<1>6. CASE /\ pc' = [pc EXCEPT ![s] = "return"]
           /\ rc' = [rc EXCEPT ![s] = "SQLUV_IO_ERROR"]
           /\ UNCHANGED <<byteswritten, stored>>
  <2> HIDE DEF len
  <2>1. byteswritten' = [byteswritten EXCEPT ![s] = byteswritten[s] + 0]
    BY <1>4, <1>6
  <2>2. stored' = [stored EXCEPT ![s] =
                     [stored[s] EXCEPT ![buffer[s]] = stored[s][buffer[s]] + 0]]
    BY <1>1, <1>4, <1>6
  <2>3. \E code \in {"SQLUV_END_OF_TAPE", "SQLUV_IO_ERROR"} :
           rc' = [rc EXCEPT ![s] = code]
    BY <1>6
  <2>4. 0 \in 0 .. len
    BY <1>2, <1>4
  <2>5. SendEffect(s, len, 0)
    BY <1>2, <1>3, <1>6, <2>1, <2>2, <2>3, <2>4 DEF SendEffect
  <2> QED BY <1>1, <1>2, <1>4, <2>5
<1> QED BY <1>5, <1>6 DEF Send

\* The types are kept; what is counted stays within the buffer.
LEMMA TypeOKStep ==
  ASSUME IInv, [Next]_vars
  PROVE  TypeOK'
<1> USE BackupAssumption DEF IInv, TypeOK, db2Vars, putVars, storeVars, delVars,
                             Goto, Pcs, Rcs, Actions, DelPcs
<1>1. ASSUME NEW s \in Sessions, SessionStep(s) PROVE TypeOK'
  <2>1. CASE Alloc(s)
    BY <2>1 DEF Alloc, Try
  <2>2. CASE IntInit(s)
    BY <2>2 DEF IntInit, Try
  <2>3. CASE IntBegin(s)
    BY <2>3, ZenonT(40) DEF IntBegin, Try
  <2>4. CASE IntCreate(s)
    BY <2>4, ZenonT(40) DEF IntCreate, Try
  <2>5. CASE IntPtr(s)
    BY <2>5, ZenonT(40) DEF IntPtr, Try
  <2>6. CASE IntExit(s)
    BY <2>6 DEF IntExit, BSATerminate
  <2>7. CASE PutCall(s)
    BY <2>7 DEF PutCall
  <2>8. CASE Send(s)
    <3>1. UNCHANGED <<queue, acked, outcome, status, action, buffer, xbsa,
                      object, delPc, delRc, fileList>>
      BY <2>8 DEF Send
    <3>2. PICK len, n \in Nat : SendEffect(s, len, n)
      BY <2>8, SendFacts
    <3>3. bytestowrite' \in [Sessions -> 0 .. BuffSize]
      BY <3>2 DEF SendEffect
    <3>4. byteswritten' \in [Sessions -> 0 .. BuffSize]
      BY <3>2, <2>8, SendFacts DEF SendEffect
    <3>5. stored' \in [Sessions -> [Buffers -> 0 .. BuffSize]]
      BY <3>2, <2>8, SendFacts DEF SendEffect
    <3>6. pc' \in [Sessions -> Pcs] /\ rc' \in [Sessions -> Rcs]
      <4>1. CASE pc' = pc /\ rc' = rc
        BY <4>1
      <4>2. ASSUME NEW code \in {"SQLUV_END_OF_TAPE", "SQLUV_IO_ERROR"},
                   pc' = [pc EXCEPT ![s] = "return"], rc' = [rc EXCEPT ![s] =
                     code]
            PROVE  pc' \in [Sessions -> Pcs] /\ rc' \in [Sessions -> Rcs]
        BY <4>2
      <4> QED BY <3>2, <4>1, <4>2 DEF SendEffect
    <3> QED BY <3>1, <3>3, <3>4, <3>5, <3>6
  <2>9. CASE SendDone(s)
    BY <2>9 DEF SendDone
  <2>10. CASE PutReturns(s)
    <3>1. buffer[s] \in Buffers
      BY <2>10 DEF PutReturns, Handed, Writing
    <3>2. queue' \subseteq Buffers /\ acked' \subseteq Buffers
      BY <3>1, <2>10 DEF PutReturns
    <3>3. /\ pc' \in [Sessions -> Pcs] /\ action' \in [Sessions -> Actions]
          /\ buffer' \in [Sessions -> Buffers \cup {NoBuffer}]
      BY <2>10 DEF PutReturns
    <3> QED BY <3>2, <3>3, <2>10 DEF PutReturns
  <2>11. CASE EndCall(s)
    BY <2>11 DEF EndCall
  <2>12. CASE EndData(s)
    BY <2>12 DEF EndData
  <2>13. CASE EndTxn(s)
    BY <2>13 DEF EndTxn, TxnEnds
  <2>14. CASE EndTerminate(s)
    BY <2>14 DEF EndTerminate, BSATerminate
  <2> QED BY <1>1, <2>1, <2>2, <2>3, <2>4, <2>5, <2>6, <2>7, <2>8, <2>9, <2>10,
             <2>11, <2>12, <2>13, <2>14 DEF SessionStep
<1>2. CASE Decide
  BY <1>2 DEF Decide
<1>3. CASE DelStep
  <2>1. CASE DelInit
    BY <2>1 DEF DelInit, DelGoto, DelUnchanged
  <2>2. CASE DelQueryFails
    BY <2>2 DEF DelQueryFails, DelGoto, DelUnchanged
  <2>3. CASE DelFound
    BY <2>3 DEF DelFound, DelUnchanged, Committed
  <2>4. CASE DelFoundAll
    BY <2>4 DEF DelFoundAll, DelGoto, DelUnchanged
  <2>5. CASE DelBegin
    BY <2>5 DEF DelBegin, DelGoto, DelUnchanged
  <2>6. CASE DelDelete
    BY <2>6 DEF DelDelete, DelGoto, DelUnchanged
  <2>7. CASE DelEndTxn
    BY <2>7 DEF DelEndTxn, DelGoto, DelUnchanged, DeletedObjects
  <2>8. CASE DelCleanup
    BY <2>8 DEF DelCleanup, DelGoto, DelUnchanged
  <2> QED BY <1>3, <2>1, <2>2, <2>3, <2>4, <2>5, <2>6, <2>7, <2>8 DEF DelStep
<1>4. CASE UNCHANGED vars
  BY <1>4 DEF vars
<1> QED BY <1>1, <1>2, <1>3, <1>4 DEF Next, Stop

\* The exit label and sqluvend close what sqluvint opened.
LEMMA ReleasedStep ==
  ASSUME IInv, [Next]_vars
  PROVE  Released'
<1> USE DEF IInv, TypeOK, db2Vars, putVars, storeVars, delVars, Goto, Released,
            Opening
<1>1. ASSUME NEW s \in Sessions, SessionStep(s) PROVE Released'
  <2>1. CASE Alloc(s)
    BY <2>1 DEF Alloc, Try
  <2>2. CASE IntInit(s)
    BY <2>2 DEF IntInit, Try
  <2>3. CASE IntBegin(s)
    BY <2>3 DEF IntBegin, Try
  <2>4. CASE IntCreate(s)
    BY <2>4 DEF IntCreate, Try
  <2>5. CASE IntPtr(s)
    BY <2>5 DEF IntPtr, Try
  <2>6. CASE IntExit(s)
    BY <2>6 DEF IntExit, BSATerminate
  <2>7. CASE PutCall(s)
    BY <2>7 DEF PutCall
  <2>8. CASE Send(s)
    BY <2>8 DEF Send, EndOfTape
  <2>9. CASE SendDone(s)
    BY <2>9 DEF SendDone
  <2>10. CASE PutReturns(s)
    BY <2>10, ZenonT(40) DEF PutReturns
  <2>11. CASE EndCall(s)
    BY <2>11 DEF EndCall
  <2>12. CASE EndData(s)
    BY <2>12 DEF EndData
  <2>13. CASE EndTxn(s)
    BY <2>13 DEF EndTxn, TxnEnds
  <2>14. CASE EndTerminate(s)
    BY <2>14 DEF EndTerminate, BSATerminate
  <2> QED BY <1>1, <2>1, <2>2, <2>3, <2>4, <2>5, <2>6, <2>7, <2>8, <2>9, <2>10,
             <2>11, <2>12, <2>13, <2>14 DEF SessionStep
<1>2. CASE Decide
  BY <1>2 DEF Decide
<1>3. CASE DelStep
  BY <1>3, DelFrame
<1>4. CASE UNCHANGED vars
  BY <1>4 DEF vars
<1> QED BY <1>1, <1>2, <1>3, <1>4 DEF Next, Stop

\* sqluvdel is called for a failed backup only.
LEMMA FailedFirst ==
  ASSUME IInv, DelStep
  PROVE  outcome = "failed"
<1> QED BY DEF IInv, Decided, DelStep, DelInit, DelQueryFails, DelFound,
           DelFoundAll,
               DelBegin, DelDelete, DelEndTxn, DelCleanup, DelGoto

\* Nothing DB2's decision rests on changes afterwards.
LEMMA DecidedStep ==
  ASSUME IInv, [Next]_vars
  PROVE  Decided'
<1> USE DEF IInv, TypeOK, db2Vars, putVars, storeVars, delVars, Goto, Decided
<1>1. ASSUME NEW s \in Sessions, SessionStep(s) PROVE Decided'
  <2>1. CASE Alloc(s)
    BY <2>1 DEF Alloc, Try
  <2>2. CASE IntInit(s)
    BY <2>2 DEF IntInit, Try
  <2>3. CASE IntBegin(s)
    BY <2>3 DEF IntBegin, Try
  <2>4. CASE IntCreate(s)
    BY <2>4 DEF IntCreate, Try
  <2>5. CASE IntPtr(s)
    BY <2>5 DEF IntPtr, Try
  <2>6. CASE IntExit(s)
    BY <2>6 DEF IntExit, BSATerminate
  <2>7. CASE PutCall(s)
    BY <2>7 DEF PutCall
  <2>8. CASE Send(s)
    BY <2>8 DEF Send, EndOfTape
  <2>9. CASE SendDone(s)
    BY <2>9 DEF SendDone
  <2>10. CASE PutReturns(s)
    BY <2>10 DEF PutReturns
  <2>11. CASE EndCall(s)
    BY <2>11 DEF EndCall
  <2>12. CASE EndData(s)
    BY <2>12 DEF EndData
  <2>13. CASE EndTxn(s)
    BY <2>13 DEF EndTxn
  <2>14. CASE EndTerminate(s)
    BY <2>14 DEF EndTerminate, BSATerminate
  <2> QED BY <1>1, <2>1, <2>2, <2>3, <2>4, <2>5, <2>6, <2>7, <2>8, <2>9, <2>10,
             <2>11, <2>12, <2>13, <2>14 DEF SessionStep
<1>2. CASE Decide
  BY <1>2 DEF Decide, AllOver, Over
<1>3. CASE DelStep
  BY <1>3, DelFrame, FailedFirst
<1>4. CASE UNCHANGED vars
  BY <1>4 DEF vars
<1> QED BY <1>1, <1>2, <1>3, <1>4 DEF Next, Stop

\* Unless sqluvput begins or returns, no buffer changes hands.
LEMMA HandedKept ==
  ASSUME IInv, UNCHANGED <<queue, acked, buffer>>,
         \A t \in Sessions : pc[t]' \in Writing => pc[t] \in Writing
  PROVE  Handed'
<1> QED BY DEF IInv, Handed

\* No buffer is handed out twice or lost.
LEMMA HandedStep ==
  ASSUME IInv, [Next]_vars
  PROVE  Handed'
<1> USE DEF IInv, TypeOK, db2Vars, putVars, storeVars, delVars, Goto, Writing
<1>1. ASSUME NEW s \in Sessions, SessionStep(s) PROVE Handed'
  <2>1. CASE Alloc(s)
    <3>1. UNCHANGED <<queue, acked, buffer>>
      BY <2>1 DEF Alloc
    <3>2. \A t \in Sessions : pc[t]' \in Writing => pc[t] \in Writing
      BY <2>1 DEF Alloc, Try
    <3> QED BY <3>1, <3>2, HandedKept
  <2>2. CASE IntInit(s)
    <3>1. UNCHANGED <<queue, acked, buffer>>
      BY <2>2 DEF IntInit
    <3>2. \A t \in Sessions : pc[t]' \in Writing => pc[t] \in Writing
      BY <2>2 DEF IntInit, Try
    <3> QED BY <3>1, <3>2, HandedKept
  <2>3. CASE IntBegin(s)
    <3>1. UNCHANGED <<queue, acked, buffer>>
      BY <2>3 DEF IntBegin
    <3>2. \A t \in Sessions : pc[t]' \in Writing => pc[t] \in Writing
      BY <2>3 DEF IntBegin, Try
    <3> QED BY <3>1, <3>2, HandedKept
  <2>4. CASE IntCreate(s)
    <3>1. UNCHANGED <<queue, acked, buffer>>
      BY <2>4 DEF IntCreate
    <3>2. \A t \in Sessions : pc[t]' \in Writing => pc[t] \in Writing
      BY <2>4 DEF IntCreate, Try
    <3> QED BY <3>1, <3>2, HandedKept
  <2>5. CASE IntPtr(s)
    <3>1. UNCHANGED <<queue, acked, buffer>>
      BY <2>5 DEF IntPtr
    <3>2. \A t \in Sessions : pc[t]' \in Writing => pc[t] \in Writing
      BY <2>5 DEF IntPtr, Try
    <3> QED BY <3>1, <3>2, HandedKept
  <2>6. CASE IntExit(s)
    <3>1. UNCHANGED <<queue, acked, buffer>>
      BY <2>6 DEF IntExit
    <3>2. \A t \in Sessions : pc[t]' \in Writing => pc[t] \in Writing
      BY <2>6 DEF IntExit
    <3> QED BY <3>1, <3>2, HandedKept
  <2>7. CASE PutCall(s)
    BY <2>7 DEF PutCall, Handed
  <2>8. CASE Send(s)
    <3>1. UNCHANGED <<queue, acked, buffer>>
      BY <2>8 DEF Send
    <3>2. PICK len, n \in Nat : SendEffect(s, len, n)
      BY <2>8, SendFacts
    <3>3. \A t \in Sessions : pc[t]' \in Writing => pc[t] \in Writing
      BY <3>2, <2>8, SendFacts DEF SendEffect
    <3> QED BY <3>1, <3>3, HandedKept
  <2>9. CASE SendDone(s)
    <3>1. UNCHANGED <<queue, acked, buffer>>
      BY <2>9 DEF SendDone
    <3>2. \A t \in Sessions : pc[t]' \in Writing => pc[t] \in Writing
      BY <2>9 DEF SendDone
    <3> QED BY <3>1, <3>2, HandedKept
  <2>10. CASE PutReturns(s)
    BY <2>10 DEF PutReturns, Handed
  <2>11. CASE EndCall(s)
    <3>1. UNCHANGED <<queue, acked, buffer>>
      BY <2>11 DEF EndCall
    <3>2. \A t \in Sessions : pc[t]' \in Writing => pc[t] \in Writing
      BY <2>11 DEF EndCall
    <3> QED BY <3>1, <3>2, HandedKept
  <2>12. CASE EndData(s)
    <3>1. UNCHANGED <<queue, acked, buffer>>
      BY <2>12 DEF EndData
    <3>2. \A t \in Sessions : pc[t]' \in Writing => pc[t] \in Writing
      BY <2>12 DEF EndData
    <3> QED BY <3>1, <3>2, HandedKept
  <2>13. CASE EndTxn(s)
    <3>1. UNCHANGED <<queue, acked, buffer>>
      BY <2>13 DEF EndTxn
    <3>2. \A t \in Sessions : pc[t]' \in Writing => pc[t] \in Writing
      BY <2>13 DEF EndTxn
    <3> QED BY <3>1, <3>2, HandedKept
  <2>14. CASE EndTerminate(s)
    <3>1. UNCHANGED <<queue, acked, buffer>>
      BY <2>14 DEF EndTerminate
    <3>2. \A t \in Sessions : pc[t]' \in Writing => pc[t] \in Writing
      BY <2>14 DEF EndTerminate
    <3> QED BY <3>1, <3>2, HandedKept
  <2> QED BY <1>1, <2>1, <2>2, <2>3, <2>4, <2>5, <2>6, <2>7, <2>8, <2>9, <2>10,
             <2>11, <2>12, <2>13, <2>14 DEF SessionStep
<1>2. CASE Decide
  BY <1>2, HandedKept DEF Decide
<1>3. CASE DelStep
  BY <1>3, DelFrame, HandedKept
<1>4. CASE UNCHANGED vars
  BY <1>4, HandedKept DEF vars
<1> QED BY <1>1, <1>2, <1>3, <1>4 DEF Next, Stop

\* Only sqluvput writes, into the buffer in hand.
LEMMA OnlyAckedStep ==
  ASSUME IInv, [Next]_vars
  PROVE  OnlyAcked'
<1> USE BackupAssumption DEF IInv, TypeOK, db2Vars, putVars, storeVars, delVars,
                             Goto, OnlyAcked, Handed, Writing, Fresh
<1>1. ASSUME NEW s \in Sessions, SessionStep(s) PROVE OnlyAcked'
  <2>1. CASE Alloc(s)
    BY <2>1 DEF Alloc, Try
  <2>2. CASE IntInit(s)
    BY <2>2 DEF IntInit, Try
  <2>3. CASE IntBegin(s)
    BY <2>3 DEF IntBegin, Try
  <2>4. CASE IntCreate(s)
    BY <2>4, SMTT(30) DEF IntCreate, Try
  <2>5. CASE IntPtr(s)
    BY <2>5 DEF IntPtr, Try
  <2>6. CASE IntExit(s)
    BY <2>6 DEF IntExit, BSATerminate
  <2>7. CASE PutCall(s)
    BY <2>7 DEF PutCall
  <2>8. CASE Send(s)
    <3>1. UNCHANGED <<queue, acked, outcome, status, action, buffer, xbsa,
                      object, delPc, delRc, fileList>>
      BY <2>8 DEF Send
    <3>2. PICK len, n \in Nat : SendEffect(s, len, n)
      BY <2>8, SendFacts
    <3> QED BY <3>1, <3>2, <2>8, SendFacts DEF SendEffect
  <2>9. CASE SendDone(s)
    BY <2>9 DEF SendDone
  <2>10. CASE PutReturns(s)
    BY <2>10 DEF PutReturns
  <2>11. CASE EndCall(s)
    BY <2>11 DEF EndCall
  <2>12. CASE EndData(s)
    BY <2>12 DEF EndData
  <2>13. CASE EndTxn(s)
    BY <2>13 DEF EndTxn
  <2>14. CASE EndTerminate(s)
    BY <2>14 DEF EndTerminate, BSATerminate
  <2> QED BY <1>1, <2>1, <2>2, <2>3, <2>4, <2>5, <2>6, <2>7, <2>8, <2>9, <2>10,
             <2>11, <2>12, <2>13, <2>14 DEF SessionStep
<1>2. CASE Decide
  BY <1>2 DEF Decide
<1>3. CASE DelStep
  BY <1>3, DelFrame
<1>4. CASE UNCHANGED vars
  BY <1>4 DEF vars
<1> QED BY <1>1, <1>2, <1>3, <1>4 DEF Next, Stop

\* byteswritten follows what the store took.
LEMMA CountsStep ==
  ASSUME IInv, [Next]_vars
  PROVE  Counts'
<1> USE BackupAssumption DEF IInv, TypeOK, db2Vars, putVars, storeVars, delVars,
                             Goto, Counts, Writing
<1>1. ASSUME NEW s \in Sessions, SessionStep(s) PROVE Counts'
  <2>1. CASE Alloc(s)
    BY <2>1 DEF Alloc, Try
  <2>2. CASE IntInit(s)
    BY <2>2 DEF IntInit, Try
  <2>3. CASE IntBegin(s)
    BY <2>3 DEF IntBegin, Try
  <2>4. CASE IntCreate(s)
    BY <2>4 DEF IntCreate, Try
  <2>5. CASE IntPtr(s)
    BY <2>5 DEF IntPtr, Try
  <2>6. CASE IntExit(s)
    BY <2>6 DEF IntExit, BSATerminate
  <2>7. CASE PutCall(s)
    <3>1. PICK b \in queue : buffer' = [buffer EXCEPT ![s] = b]
      BY <2>7 DEF PutCall
    <3>2. stored[s][b] = 0
      BY <3>1, <2>7 DEF PutCall, Handed, OnlyAcked, Fresh
    <3> QED BY <3>1, <3>2, <2>7 DEF PutCall
  <2>8. CASE Send(s)
    <3>1. UNCHANGED <<queue, acked, outcome, status, action, buffer, xbsa,
                      object, delPc, delRc, fileList>>
      BY <2>8 DEF Send
    <3>2. PICK len, n \in Nat : SendEffect(s, len, n)
      BY <2>8, SendFacts
    <3>3. ASSUME NEW t \in Sessions, pc[t]' \in Writing, t # s
          PROVE  /\ pc[t]' = pc[t] /\ rc[t]' = rc[t] /\ buffer[t]' = buffer[t]
                 /\ byteswritten[t]' = byteswritten[t]
                 /\ bytestowrite[t]' = bytestowrite[t]
                 /\ stored[t]' = stored[t]
      BY <3>1, <3>2, <3>3 DEF SendEffect
    <3>4. /\ byteswritten[s]' = stored[s][buffer[s]]'
          /\ byteswritten[s]' + bytestowrite[s]' <= BuffSize
      BY <3>1, <3>2, <2>8, SendFacts DEF SendEffect
    <3>5. /\ pc[s]' = "send" => rc[s]' = "SQLUV_OK"
          /\ pc[s]' = "return" => rc[s]' # "SQLUV_OK"
      BY <3>1, <3>2, <2>8, SendFacts DEF SendEffect
    <3>6. "short" \notin MayFail /\ pc[s]' = "send" =>
              byteswritten[s]' + bytestowrite[s]' = BuffSize
      BY <3>1, <3>2, <2>8, SendFacts DEF SendEffect
    <3> QED BY <3>3, <3>4, <3>5, <3>6
  <2>9. CASE SendDone(s)
    BY <2>9 DEF SendDone
  <2>10. CASE PutReturns(s)
    BY <2>10 DEF PutReturns
  <2>11. CASE EndCall(s)
    BY <2>11 DEF EndCall
  <2>12. CASE EndData(s)
    BY <2>12 DEF EndData
  <2>13. CASE EndTxn(s)
    BY <2>13 DEF EndTxn
  <2>14. CASE EndTerminate(s)
    BY <2>14 DEF EndTerminate, BSATerminate
  <2> QED BY <1>1, <2>1, <2>2, <2>3, <2>4, <2>5, <2>6, <2>7, <2>8, <2>9, <2>10,
             <2>11, <2>12, <2>13, <2>14 DEF SessionStep
<1>2. CASE Decide
  BY <1>2 DEF Decide
<1>3. CASE DelStep
  BY <1>3, DelFrame
<1>4. CASE UNCHANGED vars
  BY <1>4 DEF vars
<1> QED BY <1>1, <1>2, <1>3, <1>4 DEF Next, Stop

\* sqluvdel's list stays complete: no session commits any more.
LEMMA ListedStep ==
  ASSUME IInv, [Next]_vars
  PROVE  Listed'
<1> USE DEF IInv, TypeOK, db2Vars, putVars, storeVars, delVars, Goto, Listed
<1>1. ASSUME NEW s \in Sessions, SessionStep(s) PROVE Listed'
  BY <1>1, SessionsFirst
<1>2. CASE Decide
  BY <1>2 DEF Decide, Decided, Committed
<1>3. CASE DelStep
  <2>1. CASE DelInit
    BY <2>1 DEF DelInit, DelGoto, DelUnchanged, Committed
  <2>2. CASE DelQueryFails
    BY <2>2 DEF DelQueryFails, DelGoto, DelUnchanged, Committed
  <2>3. CASE DelFound
    BY <2>3 DEF DelFound, DelGoto, DelUnchanged, Committed
  <2>4. CASE DelFoundAll
    BY <2>4 DEF DelFoundAll, DelGoto, DelUnchanged, Committed
  <2>5. CASE DelBegin
    BY <2>5 DEF DelBegin, DelGoto, DelUnchanged, Committed
  <2>6. CASE DelDelete
    BY <2>6 DEF DelDelete, DelGoto, DelUnchanged, Committed
  <2>7. CASE DelEndTxn
    BY <2>7 DEF DelEndTxn, DelGoto, DelUnchanged, Committed, DeletedObjects
  <2>8. CASE DelCleanup
    BY <2>8 DEF DelCleanup, DelGoto, DelUnchanged, Committed
  <2> QED BY <1>3, <2>1, <2>2, <2>3, <2>4, <2>5, <2>6, <2>7, <2>8 DEF DelStep
<1>4. CASE UNCHANGED vars
  BY <1>4 DEF vars, Committed
<1> QED BY <1>1, <1>2, <1>3, <1>4 DEF Next, Stop

\* What a session owes, it goes on owing or has kept, whichever session moves.
LEMMA CommitsStep ==
  ASSUME IInv, NEW s \in Sessions, SessionStep(s), NEW t \in Sessions,
    Commits(t)
  PROVE  Commits(t)'
<1> USE DEF IInv, TypeOK, Commits, Kept, Goto, db2Vars, putVars, storeVars,
            delVars
<1>1. CASE Alloc(s)
  BY <1>1 DEF Alloc, Try
<1>2. CASE IntInit(s)
  BY <1>2 DEF IntInit, Try
<1>3. CASE IntBegin(s)
  BY <1>3 DEF IntBegin, Try
<1>4. CASE IntCreate(s)
  BY <1>4 DEF IntCreate, Try
<1>5. CASE IntPtr(s)
  BY <1>5 DEF IntPtr, Try
<1>6. CASE IntExit(s)
  BY <1>6 DEF IntExit, BSATerminate
<1>7. CASE PutCall(s)
  BY <1>7 DEF PutCall
<1>8. CASE Send(s)
  <2>1. PICK len, n \in Nat : SendEffect(s, len, n)
    BY <1>8, SendFacts
  <2>2. UNCHANGED <<action, object>> /\ pc[s] = "send"
    BY <1>8 DEF Send, storeVars
  <2> QED BY <2>1, <2>2 DEF SendEffect
<1>9. CASE SendDone(s)
  BY <1>9 DEF SendDone
<1>10. CASE PutReturns(s)
  BY <1>10 DEF PutReturns
<1>11. CASE EndCall(s)
  BY <1>11 DEF EndCall
<1>12. CASE EndData(s)
  BY <1>12 DEF EndData
<1>13. CASE EndTxn(s)
  BY <1>13 DEF EndTxn, TxnEnds, VoteFor
<1>14. CASE EndTerminate(s)
  BY <1>14 DEF EndTerminate, BSATerminate
<1> QED BY <1>1, <1>2, <1>3, <1>4, <1>5, <1>6, <1>7, <1>8, <1>9, <1>10, <1>11,
           <1>12, <1>13, <1>14 DEF SessionStep

\* An acknowledged buffer is not written to again.
LEMMA StoredStep ==
  ASSUME IInv, NEW s \in Sessions, SessionStep(s), NEW t \in Sessions, NEW b \in
    acked
  PROVE  stored[t][b]' = stored[t][b]
<1> USE DEF IInv, TypeOK, Goto, db2Vars, putVars, storeVars, delVars
<1>1. CASE Alloc(s)
  BY <1>1 DEF Alloc, Try
<1>2. CASE IntInit(s)
  BY <1>2 DEF IntInit, Try
<1>3. CASE IntBegin(s)
  BY <1>3 DEF IntBegin, Try
<1>4. CASE IntCreate(s)
  BY <1>4 DEF IntCreate, Try
<1>5. CASE IntPtr(s)
  BY <1>5 DEF IntPtr, Try
<1>6. CASE IntExit(s)
  BY <1>6 DEF IntExit
<1>7. CASE PutCall(s)
  BY <1>7 DEF PutCall
<1>8. CASE Send(s)
  <2>1. PICK len, n \in Nat : SendEffect(s, len, n)
    BY <1>8, SendFacts
  <2>2. b # buffer[s] /\ b \in Buffers
    BY <1>8, SendFacts
  <2> QED BY <2>1, <2>2 DEF SendEffect
<1>9. CASE SendDone(s)
  BY <1>9 DEF SendDone
<1>10. CASE PutReturns(s)
  BY <1>10 DEF PutReturns
<1>11. CASE EndCall(s)
  BY <1>11 DEF EndCall
<1>12. CASE EndData(s)
  BY <1>12 DEF EndData
<1>13. CASE EndTxn(s)
  BY <1>13 DEF EndTxn
<1>14. CASE EndTerminate(s)
  BY <1>14 DEF EndTerminate
<1> QED BY <1>1, <1>2, <1>3, <1>4, <1>5, <1>6, <1>7, <1>8, <1>9, <1>10, <1>11,
           <1>12, <1>13, <1>14 DEF SessionStep

\* Only sqluvput's SQLUV_OK acknowledges, and then the whole buffer.
LEMMA NewlyAcked ==
  ASSUME IInv, NEW s \in Sessions, SessionStep(s), NEW b \in acked', b \notin
    acked,
         "short" \notin MayFail
  PROVE  pc[s]' = "ready" /\ stored[s][b]' = BuffSize
<1> USE DEF IInv, TypeOK
<1>1. PutReturns(s)
  BY DEF SessionStep, Alloc, IntInit, IntBegin, IntCreate, IntPtr, IntExit,
     PutCall,
         Send, SendDone, EndCall, EndData, EndTxn, EndTerminate, db2Vars
<1>2. /\ pc[s] = "return" /\ rc[s] = "SQLUV_OK" /\ b = buffer[s]
      /\ pc' = [pc EXCEPT ![s] = "ready"] /\ stored' = stored
  BY <1>1 DEF PutReturns, storeVars
<1>3. stored[s][b] = BuffSize
  BY <1>2 DEF Counts, Writing
<1> QED BY <1>2, <1>3

\* Every acknowledged buffer stays in an object that is or will be committed.
LEMMA AckedIsKeptStep ==
  ASSUME IInv, [Next]_vars
  PROVE  AckedIsKept'
<1> SUFFICES ASSUME "short" \notin MayFail, outcome' # "failed", NEW b \in
  acked'
             PROVE  \E t \in Sessions : Commits(t)' /\ stored[t][b]' = BuffSize
  BY DEF AckedIsKept
<1>1. ASSUME NEW s \in Sessions, SessionStep(s)
      PROVE  \E t \in Sessions : Commits(t)' /\ stored[t][b]' = BuffSize
  <2>1. CASE b \notin acked
    BY <1>1, <2>1, NewlyAcked DEF Commits
  <2>2. CASE b \in acked
    <3>1. PICK t \in Sessions : Commits(t) /\ stored[t][b] = BuffSize
      BY <1>1, <2>2, SessionsFirst DEF IInv, AckedIsKept
    <3>2. Commits(t)' /\ stored[t][b]' = BuffSize
      BY <1>1, <2>2, <3>1, CommitsStep, StoredStep
    <3> QED BY <3>2
  <2> QED BY <2>1, <2>2
<1>2. CASE Decide \/ UNCHANGED vars
  <2>1. /\ UNCHANGED <<acked, pc, rc, action, object, stored>>
        /\ outcome # "failed"
    BY <1>2 DEF Decide, vars, storeVars
  <2>2. PICK t \in Sessions : Commits(t) /\ stored[t][b] = BuffSize
    BY <2>1 DEF IInv, AckedIsKept
  <2>3. Commits(t)' /\ stored[t][b]' = BuffSize
    BY <2>1, <2>2 DEF Commits
  <2> QED BY <2>3
<1>3. CASE DelStep
  BY <1>3, DelFrame, FailedFirst
<1> QED BY <1>1, <1>2, <1>3 DEF Next, Stop

\* The invariant holds before the first session is opened.
LEMMA InitIInv ==
  ASSUME Init
  PROVE  IInv
<1> USE BackupAssumption DEF Init
<1>1. TypeOK
  BY DEF TypeOK, Pcs, Rcs, Actions, DelPcs
<1>2. Released /\ Decided /\ Handed /\ Counts
  BY DEF Released, Opening, Decided, Handed, Writing, Counts
<1>3. OnlyAcked /\ AckedIsKept /\ Listed
  BY DEF OnlyAcked, AckedIsKept, Listed, Committed
<1> QED BY <1>1, <1>2, <1>3 DEF IInv

\* Every step keeps the whole invariant.
LEMMA NextIInv ==
  ASSUME IInv, [Next]_vars
  PROVE  IInv'
<1> QED BY TypeOKStep, ReleasedStep, DecidedStep, HandedStep, OnlyAckedStep,
           CountsStep, AckedIsKeptStep, ListedStep DEF IInv

\* The committed objects of a successful backup hold all of it.
LEMMA SuccessFollows ==
  ASSUME "short" \notin MayFail, IInv
  PROVE  SuccessIsComplete
<1> SUFFICES ASSUME outcome = "succeeded", NEW b \in Buffers
             PROVE  \E s \in Committed : stored[s][b] = BuffSize
  BY DEF SuccessIsComplete
<1>1. PICK s \in Sessions : Commits(s) /\ stored[s][b] = BuffSize
  BY DEF IInv, Decided, AckedIsKept
<1>2. object[s] = "committed"
  BY <1>1 DEF IInv, Decided, Commits
<1> QED BY <1>1, <1>2 DEF Committed

\* A clean-up that reports no error has left nothing of the failed backup.
LEMMA DelOkFollows ==
  ASSUME "delInit" \notin MayFail, "delNext" \notin MayFail, IInv
  PROVE  DelOkMeansGone
<1> QED BY DEF IInv, Listed, DelOkMeansGone

\* The inductive invariant holds in every reachable state, whatever may fail.
THEOREM IInvHolds == Safety => []IInv
<1>1. Init => IInv
  BY InitIInv
<1>2. IInv /\ [Next]_vars => IInv'
  BY NextIInv
<1> QED BY <1>1, <1>2, PTL DEF Safety

\* Every variable keeps its type and no count leaves the buffer, for every
\* buffer size and chunk length.
THEOREM TypeOKHolds == Safety => []TypeOK
<1>1. IInv => TypeOK
  BY DEF IInv
<1> QED BY <1>1, IInvHolds, PTL

\* A backup reported as successful is complete in committed objects, if
\* BSASendData takes all or nothing (of a part of a chunk it loses the rest and
\* answers SQLUV_OK, against PutOkMeansAllWritten).
THEOREM SuccessIsCompleteHolds ==
  ASSUME "short" \notin MayFail
  PROVE  Safety => []SuccessIsComplete
<1>1. IInv => SuccessIsComplete
  BY SuccessFollows
<1> QED BY <1>1, IInvHolds, PTL

\* No session that is over leaves an XBSA session or transaction open, if the
\* last malloc of sqluvint succeeds.
THEOREM NoSessionLeftHolds ==
  ASSUME "ptr" \notin MayFail
  PROVE  Safety => []NoSessionLeft
<1>1. IInv => NoSessionLeft
  BY DEF IInv, Released, NoSessionLeft, Over
<1> QED BY <1>1, IInvHolds, PTL

\* SQLUV_OK from sqluvdel means nothing is left, if its BSAInit succeeds and
\* the walk through the objects meets no error.
THEOREM DelOkMeansGoneHolds ==
  ASSUME "delInit" \notin MayFail, "delNext" \notin MayFail
  PROVE  Safety => []DelOkMeansGone
<1>1. IInv => DelOkMeansGone
  BY DelOkFollows
<1> QED BY <1>1, IInvHolds, PTL
=============================================================================
