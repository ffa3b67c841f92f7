----------------------------- MODULE VendorBackup -----------------------------
(***************************************************************************)
(* BARVendor/vendor.C, backup: DB2 opens media sessions (sqluvint), hands  *)
(* each one buffers of the image from a common queue (sqluvput), ends them *)
(* (sqluvend) and, when the backup failed, has what was stored deleted     *)
(* (sqluvdel).  Each session writes one object of an XBSA store.  Every    *)
(* XBSA call is a step, so the sessions interleave between any two calls.  *)
(*                                                                         *)
(* DB2 and the XBSA store are not in the repository: they are modelled     *)
(* from the comments of vendor.C and from the calls it makes.              *)
(***************************************************************************)
EXTENDS Integers, FiniteSets

CONSTANTS Sessions,    \* the media sessions of the backup
          Buffers,     \* the buffers the image is made of
          NoBuffer,    \* a session that has none
          BuffSize,    \* bytes in a buffer
          USHRT_MAX,   \* largest value of the 16-bit length of a DataBlock
          Slack,       \* the 16 in "USHRT_MAX - 16"
          MayFail      \* which calls may fail, see Calls

Calls == {"malloc", "ptr", "BSAInit", "BSABeginTxn", "BSACreateObject",
          "BSASendData", "short", "full", "BSAEndData", "BSAEndTxn",
          "delInit", "delNext", "del"}

ASSUME BackupAssumption ==
    /\ IsFiniteSet(Sessions) /\ IsFiniteSet(Buffers)
    /\ NoBuffer \notin Buffers
    /\ BuffSize \in Nat \ {0}
    /\ USHRT_MAX \in Nat /\ Slack \in Nat /\ Slack < USHRT_MAX
    /\ MayFail \subseteq Calls

VARIABLES
    queue,        \* DB2: buffers waiting to be written
    acked,        \* DB2: buffers a sqluvput answered SQLUV_OK for
    outcome,      \* DB2: "running", "succeeded" or "failed"
    pc,           \* where session s is
    status,       \* handle->status
    rc,           \* the value the session's current or last call returns
    action,       \* sqluvend's parameter
    buffer,       \* the buffer the session's sqluvput is given
    bytestowrite, byteswritten,
    xbsa,         \* store: the session's connection, "closed", "open" or "txn"
    object,       \* store: the session's object
    stored,       \* store: leading bytes of each buffer in that object
    delPc, delRc, \* sqluvdel
    fileList      \* sqluvdel: the objects found so far

db2Vars == <<queue, acked, outcome>>
putVars == <<buffer, bytestowrite, byteswritten>>
storeVars == <<xbsa, object, stored>>
delVars == <<delPc, delRc, fileList>>
vars == <<queue, acked, outcome, pc, status, rc, action, buffer, bytestowrite,
          byteswritten, xbsa, object, stored, delPc, delRc, fileList>>

Pcs == {"idle", "init", "begin", "create", "ptr", "cleanup", "ready", "send",
        "return", "enddata", "endtxn", "terminate", "ended", "initfailed"}
Rcs == {"SQLUV_OK", "SQLUV_INIT_FAILED", "SQLUV_IO_ERROR", "SQLUV_END_OF_TAPE",
        "SQLUV_DEV_ERROR"}
Actions == {"SQLUV_COMMIT", "SQLUV_TERMINATE", "SQLUV_ABORT"}
DelPcs == {"idle", "query", "begin", "delete", "endtxn", "cleanup", "done"}

Init == /\ queue = Buffers /\ acked = {} /\ outcome = "running"
        /\ pc = [s \in Sessions |-> "idle"]
        /\ status = [s \in Sessions |-> {}]
        /\ rc = [s \in Sessions |-> "SQLUV_OK"]
        /\ action = [s \in Sessions |-> "SQLUV_COMMIT"]
        /\ buffer = [s \in Sessions |-> NoBuffer]
        /\ bytestowrite = [s \in Sessions |-> 0]
        /\ byteswritten = [s \in Sessions |-> 0]
        /\ xbsa = [s \in Sessions |-> "closed"]
        /\ object = [s \in Sessions |-> "absent"]
        /\ stored = [s \in Sessions |-> [b \in Buffers |-> 0]]
        /\ delPc = "idle" /\ delRc = "SQLUV_OK" /\ fileList = {}

Goto(s, from, to) == pc[s] = from /\ pc' = [pc EXCEPT ![s] = to]
-----------------------------------------------------------------------------
(* The XBSA store, as vendor.C uses it *)

\* BSATerminate aborts a transaction that is still open.
BSATerminate(s) ==
    /\ xbsa' = [xbsa EXCEPT ![s] = "closed"]
    /\ object' = [object EXCEPT ![s] = IF @ = "pending" THEN "absent" ELSE @]

\* What may have become of the pending object when BSAEndTxn answers.
TxnEnds(vote, ok) ==
    IF ok THEN {IF vote = "BSAVote_COMMIT" THEN "committed" ELSE "absent"}
    ELSE {"absent", "committed"}
-----------------------------------------------------------------------------
(* sqluvint, SQLUV_WRITE *)

\* A step of sqluvint that can fail: on to the next one, or to its exit code.
Try(s, call, from, to, exit) ==
    /\ pc[s] = from
    /\ \/ /\ pc' = [pc EXCEPT ![s] = to]
          /\ rc' = [rc EXCEPT ![s] = "SQLUV_OK"]
       \/ /\ call \in MayFail
          /\ pc' = [pc EXCEPT ![s] = exit]
          /\ rc' = [rc EXCEPT ![s] = "SQLUV_INIT_FAILED"]

Alloc(s) == /\ outcome = "running" /\ queue # {}
            /\ Try(s, "malloc", "idle", "init", "cleanup")
            /\ UNCHANGED <<db2Vars, status, action, putVars, storeVars, delVars>>

IntInit(s) == /\ Try(s, "BSAInit", "init", "begin", "cleanup")
              /\ xbsa' = [xbsa EXCEPT ![s] =
                             IF pc'[s] = "begin" THEN "open" ELSE @]
              /\ UNCHANGED <<db2Vars, status, action, putVars, object, stored,
                             delVars>>

IntBegin(s) == /\ Try(s, "BSABeginTxn", "begin", "create", "cleanup")
               /\ xbsa' = [xbsa EXCEPT ![s] =
                              IF pc'[s] = "create" THEN "txn" ELSE @]
               /\ UNCHANGED <<db2Vars, status, action, putVars, object, stored,
                              delVars>>

IntCreate(s) ==
    /\ Try(s, "BSACreateObject", "create", "ptr", "cleanup")
    /\ LET created == pc'[s] = "ptr" IN
          /\ object' = [object EXCEPT ![s] = IF created THEN "pending" ELSE @]
          /\ status' = [status EXCEPT ![s] =
                           IF created THEN {"INIT_DONE", "BACKUP"} ELSE @]
    /\ UNCHANGED <<db2Vars, action, putVars, xbsa, stored, delVars>>

IntPtr(s) == /\ Try(s, "ptr", "ptr", "ready", "cleanup")
             /\ UNCHANGED <<db2Vars, status, action, putVars, storeVars, delVars>>

\* Mutant: the failed sqluvint does not terminate its XBSA session.
IntExitOpen(s) ==
    /\ Goto(s, "cleanup", "initfailed")
    /\ UNCHANGED <<db2Vars, status, rc, action, putVars, storeVars, delVars>>

\* The exit label: resources are released unless INIT_DONE is already set.
IntExit(s) ==
    /\ Goto(s, "cleanup", "initfailed")
    /\ IF "INIT_DONE" \notin status[s] THEN BSATerminate(s)
                                       ELSE UNCHANGED <<xbsa, object>>
    /\ UNCHANGED <<db2Vars, status, rc, action, putVars, stored, delVars>>
-----------------------------------------------------------------------------
(* sqluvput *)

\* DB2 gives the next buffer of its queue to a session that is ready.
PutCall(s) ==
    /\ Goto(s, "ready", "send")
    /\ "BACKUP" \in status[s]
    /\ \E b \in queue : /\ buffer' = [buffer EXCEPT ![s] = b]
                        /\ queue' = queue \ {b}
    /\ bytestowrite' = [bytestowrite EXCEPT ![s] = BuffSize]
    /\ byteswritten' = [byteswritten EXCEPT ![s] = 0]
    /\ rc' = [rc EXCEPT ![s] = "SQLUV_OK"]
    /\ UNCHANGED <<acked, outcome, status, action, storeVars, delVars>>

\* Split the buffer to fit the 16-bit length.
BufferLen(rest) ==
    (IF rest >= USHRT_MAX THEN USHRT_MAX - Slack ELSE rest) % (USHRT_MAX + 1)

\* How many of len bytes a successful BSASendData may take.
NumBytes(len) == {len} \cup (IF "full" \in MayFail THEN {0} ELSE {})
                       \cup (IF "short" \in MayFail THEN 1 .. len ELSE {})

EndOfTape(n) == n = 0

\* One round of the loop.
Send(s) ==
    LET len == BufferLen(bytestowrite[s]) IN
    /\ pc[s] = "send"
    /\ bytestowrite[s] > 0
    /\ bytestowrite' = [bytestowrite EXCEPT ![s] = @ - len]
    /\ \/ \E n \in NumBytes(len) :
             /\ byteswritten' = [byteswritten EXCEPT ![s] = @ + n]
             /\ stored' = [stored EXCEPT ![s][buffer[s]] = @ + n]
             /\ IF EndOfTape(n)
                THEN /\ pc' = [pc EXCEPT ![s] = "return"]
                     /\ rc' = [rc EXCEPT ![s] = "SQLUV_END_OF_TAPE"]
                ELSE UNCHANGED <<pc, rc>>
       \/ /\ "BSASendData" \in MayFail
          /\ pc' = [pc EXCEPT ![s] = "return"]
          /\ rc' = [rc EXCEPT ![s] = "SQLUV_IO_ERROR"]
          /\ UNCHANGED <<byteswritten, stored>>
    /\ UNCHANGED <<db2Vars, status, action, buffer, xbsa, object, delVars>>

SendDone(s) == /\ Goto(s, "send", "return")
               /\ bytestowrite[s] <= 0
               /\ UNCHANGED <<db2Vars, status, rc, action, putVars, storeVars,
                              delVars>>

\* SQLUV_OK: DB2 goes on.  Any other value: the buffer goes back to the queue
\* for another session, and this one is ended with SQLUV_TERMINATE.
PutReturns(s) ==
    /\ pc[s] = "return"
    /\ IF rc[s] = "SQLUV_OK"
       THEN /\ acked' = acked \cup {buffer[s]}
            /\ pc' = [pc EXCEPT ![s] = "ready"]
            /\ UNCHANGED <<queue, action>>
       ELSE /\ queue' = queue \cup {buffer[s]}
            /\ pc' = [pc EXCEPT ![s] = "enddata"]
            /\ action' = [action EXCEPT ![s] = "SQLUV_TERMINATE"]
            /\ UNCHANGED acked
    /\ buffer' = [buffer EXCEPT ![s] = NoBuffer]
    /\ UNCHANGED <<outcome, status, rc, bytestowrite, byteswritten, storeVars,
                   delVars>>
-----------------------------------------------------------------------------
(* sqluvend *)

\* DB2 ends a session normally when no buffer is left for it.
EndCall(s) == /\ Goto(s, "ready", "enddata")
              /\ queue = {}
              /\ action' = [action EXCEPT ![s] = "SQLUV_COMMIT"]
              /\ UNCHANGED <<db2Vars, status, rc, putVars, storeVars, delVars>>

EndData(s) ==
    /\ Goto(s, "enddata", "endtxn")
    /\ "INIT_DONE" \in status[s]
    /\ \/ rc' = [rc EXCEPT ![s] = "SQLUV_OK"] /\ UNCHANGED action
       \/ /\ "BSAEndData" \in MayFail
          /\ rc' = [rc EXCEPT ![s] = "SQLUV_DEV_ERROR"]
          /\ action' = [action EXCEPT ![s] = "SQLUV_ABORT"]
    /\ UNCHANGED <<db2Vars, status, putVars, storeVars, delVars>>

\* Mutant: only SQLUV_COMMIT keeps what was written.
VoteCommitOnly(act) ==
    IF act = "SQLUV_COMMIT" THEN "BSAVote_COMMIT" ELSE "BSAVote_ABORT"

VoteFor(act) == IF act \in {"SQLUV_COMMIT", "SQLUV_TERMINATE"}
                THEN "BSAVote_COMMIT" ELSE "BSAVote_ABORT"

EndTxn(s) ==
    /\ Goto(s, "endtxn", "terminate")
    /\ \E ok \in BOOLEAN : \E end \in TxnEnds(VoteFor(action[s]), ok) :
          /\ ok \/ "BSAEndTxn" \in MayFail
          /\ object' = [object EXCEPT ![s] = end]
          /\ rc' = [rc EXCEPT ![s] = IF ok THEN @ ELSE "SQLUV_DEV_ERROR"]
    /\ xbsa' = [xbsa EXCEPT ![s] = "open"]
    /\ UNCHANGED <<db2Vars, status, action, putVars, stored, delVars>>

EndTerminate(s) ==
    /\ Goto(s, "terminate", "ended")
    /\ BSATerminate(s)
    /\ UNCHANGED <<db2Vars, status, rc, action, putVars, stored, delVars>>
-----------------------------------------------------------------------------
(* DB2 decides the backup once every session it started is over *)

Over(s) == pc[s] \in {"ended", "initfailed"}
AllOver == \A s \in Sessions : Over(s) \/ (pc[s] = "idle" /\ queue = {})

Decide ==
    /\ outcome = "running" /\ AllOver
    /\ outcome' = IF /\ acked = Buffers
                     /\ \A s \in Sessions : pc[s] = "ended" => rc[s] = "SQLUV_OK"
                  THEN "succeeded" ELSE "failed"
    /\ UNCHANGED <<queue, acked, pc, status, rc, action, putVars, storeVars,
                   delVars>>
-----------------------------------------------------------------------------
(* sqluvdel, after a failed backup *)

Committed == {s \in Sessions : object[s] = "committed"}

DelGoto(from, to) == delPc = from /\ delPc' = to

DelUnchanged == UNCHANGED <<queue, acked, pc, status, rc, action, putVars, xbsa,
                            stored>>

\* Both failures leave by the exit label, BSAInit's with rc still SQLUV_OK.
DelInit == /\ outcome = "failed"
           /\ \/ DelGoto("idle", "query") /\ UNCHANGED delRc
              \/ /\ "del" \in MayFail /\ DelGoto("idle", "done")
                 /\ delRc' = "SQLUV_INIT_FAILED"
              \/ "delInit" \in MayFail /\ DelGoto("idle", "done")
                 /\ UNCHANGED delRc
           /\ DelUnchanged /\ UNCHANGED <<outcome, object, fileList>>

\* A query that finds nothing, fails or answers BSA_RC_MORE_DATA goes to
\* cleanup, which takes any answer but success for an error.
DelQueryFails == /\ Committed = {} \/ "del" \in MayFail
                 /\ fileList = {}
                 /\ DelGoto("query", "cleanup")
                 /\ delRc' = "SQLUV_IO_ERROR"
                 /\ DelUnchanged /\ UNCHANGED <<outcome, object, fileList>>

\* BSAQueryObject and BSAGetNextQueryObject return the matches one by one.
DelFound == /\ delPc = "query"
            /\ \E s \in Committed \ fileList : fileList' = fileList \cup {s}
            /\ DelUnchanged /\ UNCHANGED <<outcome, object, delPc, delRc>>

\* The loop ends at the last match, but also at any answer it does not know.
DelFoundAll == /\ DelGoto("query", "begin")
               /\ fileList # {}
               /\ fileList = Committed \/ "delNext" \in MayFail
               /\ DelUnchanged /\ UNCHANGED <<outcome, object, delRc, fileList>>

\* BSABeginTxn, and then BSADeleteObject for each match: one failure aborts.
DelBegin == /\ \/ DelGoto("begin", "delete") /\ UNCHANGED delRc
               \/ /\ "del" \in MayFail /\ DelGoto("begin", "cleanup")
                  /\ delRc' = "SQLUV_IO_ERROR"
            /\ DelUnchanged /\ UNCHANGED <<outcome, object, fileList>>

\* Mutant: an object that cannot be deleted is skipped.
DelDeleteSkips == /\ DelGoto("delete", "endtxn")
                  /\ \/ UNCHANGED fileList
                     \/ /\ "del" \in MayFail
                        /\ \E s \in fileList : fileList' = fileList \ {s}
                  /\ DelUnchanged /\ UNCHANGED <<outcome, object, delRc>>

\* Mutant: "goto finished" instead of "goto cleanup" after the abort.
DelDeleteRestarts == /\ \/ DelGoto("delete", "endtxn")
                        \/ "del" \in MayFail /\ DelGoto("delete", "begin")
                     /\ DelUnchanged
                     /\ UNCHANGED <<outcome, object, delRc, fileList>>

DelDelete == /\ \/ DelGoto("delete", "endtxn") /\ UNCHANGED delRc
                \/ /\ "del" \in MayFail /\ DelGoto("delete", "cleanup")
                   /\ delRc' = "SQLUV_IO_ERROR"
             /\ DelUnchanged /\ UNCHANGED <<outcome, object, fileList>>

DeletedObjects == [s \in Sessions |-> IF s \in fileList THEN "absent"
                                      ELSE object[s]]

DelEndTxn == /\ DelGoto("endtxn", "cleanup")
             /\ \/ object' = DeletedObjects /\ UNCHANGED delRc
                \/ /\ "del" \in MayFail
                   /\ object' \in {object, DeletedObjects}
                   /\ delRc' = "SQLUV_IO_ERROR"
             /\ DelUnchanged /\ UNCHANGED <<outcome, fileList>>

DelCleanup == /\ DelGoto("cleanup", "done")
              /\ DelUnchanged /\ UNCHANGED <<outcome, object, delRc, fileList>>
-----------------------------------------------------------------------------
SessionStep(s) ==
    \/ Alloc(s) \/ IntInit(s) \/ IntBegin(s) \/ IntCreate(s) \/ IntPtr(s)
    \/ IntExit(s) \/ PutCall(s) \/ Send(s) \/ SendDone(s) \/ PutReturns(s)
    \/ EndCall(s) \/ EndData(s) \/ EndTxn(s) \/ EndTerminate(s)

DelStep == \/ DelInit \/ DelQueryFails \/ DelFound \/ DelFoundAll \/ DelBegin
           \/ DelDelete \/ DelEndTxn \/ DelCleanup

Concluded == outcome = "succeeded" \/ delPc = "done"

Stop == Concluded /\ UNCHANGED vars

Next == (\E s \in Sessions : SessionStep(s)) \/ Decide \/ DelStep \/ Stop

Safety == Init /\ [][Next]_vars

\* Each media session is driven by a process of its own; DB2 decides and calls
\* sqluvdel when the sessions are over.
Spec == /\ Safety
        /\ \A s \in Sessions : WF_vars(SessionStep(s))
        /\ WF_vars(Decide) /\ WF_vars(DelStep)
-----------------------------------------------------------------------------
(* Properties *)

\* Every variable keeps its type; no length ever leaves the buffer.
TypeOK ==
    /\ queue \subseteq Buffers /\ acked \subseteq Buffers
    /\ outcome \in {"running", "succeeded", "failed"}
    /\ pc \in [Sessions -> Pcs]
    /\ status \in [Sessions -> SUBSET {"INIT_DONE", "BACKUP"}]
    /\ rc \in [Sessions -> Rcs]
    /\ action \in [Sessions -> Actions]
    /\ buffer \in [Sessions -> Buffers \cup {NoBuffer}]
    /\ bytestowrite \in [Sessions -> 0 .. BuffSize]
    /\ byteswritten \in [Sessions -> 0 .. BuffSize]
    /\ xbsa \in [Sessions -> {"closed", "open", "txn"}]
    /\ object \in [Sessions -> {"absent", "pending", "committed"}]
    /\ stored \in [Sessions -> [Buffers -> 0 .. BuffSize]]
    /\ delPc \in DelPcs
    /\ delRc \in Rcs
    /\ fileList \subseteq Sessions

\* When DB2 reports a successful backup, every byte of every buffer is in a
\* committed object, whatever became of the session that first had the buffer.
\* (SQLUV_TERMINATE therefore has to commit what an ended tape already holds.)
SuccessIsComplete ==
    outcome = "succeeded" =>
        \A b \in Buffers : \E s \in Committed : stored[s][b] = BuffSize

\* A session that is over, by sqluvend or by a failed sqluvint, leaves no XBSA
\* session and no open transaction behind ("Free all memory and terminate BSA
\* session (if started) if an error was encountered").
NoSessionLeft ==
    \A s \in Sessions : Over(s) => xbsa[s] = "closed" /\ object[s] # "pending"

\* sqluvdel answers SQLUV_OK only if nothing of the failed image is left ("It
\* is not a good idea to leave an incomplete backup image around").
DelOkMeansGone == delPc = "done" /\ delRc = "SQLUV_OK" => Committed = {}

\* "If this field ends up being less than buff_size, then do not return
\* SQLUV_OK": sqluvput acknowledges only whole buffers.  It does not, if BSASendData
\* takes a part of a chunk.
PutOkMeansAllWritten ==
    \A s \in Sessions : pc[s] = "return" /\ rc[s] = "SQLUV_OK" =>
        byteswritten[s] = BuffSize

\* The backup comes to an end: success, or failure followed by sqluvdel.
BackupConcludes == <>Concluded
=============================================================================
