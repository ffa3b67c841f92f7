-------------------------------- MODULE LogMerge --------------------------------
(***************************************************************************)
(* c/dblognoconnlogmerge.c: reads the log streams of the members of a      *)
(* database through db2ReadLogNoConn and merges them into one sequence by  *)
(* type 1 LRI, which is the pair (LFS, LSN).  A record is represented by   *)
(* its LRI.  The API is modelled from the program's calls of it.           *)
(***************************************************************************)
EXTENDS Integers, Sequences

CONSTANTS Paths,       \* number of log paths, that is of log streams
          LogSets,     \* contents the streams may have
          BufferSize,  \* records that fit into a stream's logBuffer
          Modulus,     \* 2^64: db2Uint64
          MayFail      \* API calls that may fail: "init", "query", "read"

Streams == 0 .. Paths - 1

\* compLRItype1: the order of type 1 LRIs.
Precedes(lhs, rhs) == \/ lhs[1] < rhs[1]
                      \/ lhs[1] = rhs[1] /\ lhs[2] < rhs[2]

\* A stream is written in the order of its LRIs.
Ordered(log) == \A s \in Streams : \A j, k \in 1 .. Len(log[s]) :
                   j < k => Precedes(log[s][j], log[s][k])

\* A log flush sequence number belongs to one stream.
OwnLFS(log) == \A s, t \in Streams : s # t =>
                  \A j \in 1 .. Len(log[s]), k \in 1 .. Len(log[t]) :
                     log[s][j][1] # log[t][k][1]

\* 0 and the two highest LFSs are not in use.
LRIs == (1 .. Modulus - 3) \X (1 .. Modulus - 1)

ASSUME MergeAssumption ==
    /\ Paths \in Nat /\ BufferSize \in Nat \ {0} /\ Modulus \in Nat \ {0}
    /\ MayFail \subseteq {"init", "query", "read"}
    /\ \A log \in LogSets : /\ log \in [Streams -> Seq(LRIs)]
                            /\ Ordered(log) /\ OwnLFS(log)

VARIABLES
    log,                     \* the records of each stream
    position,                \* API: records of a stream it has returned
    sqlcode,                 \* of the last db2ReadLogNoConn for the stream
    curLogBuffPtr,           \* index of the buffer's next record, or NULL
    numLogRecordsRemaining,
    currentLRI,              \* LRI of that record, or EndLRI
    needTermReadLog,         \* streams with an open db2ReadLogNoConn
    qHead,                   \* the queue, as a sequence of streams
    lastReadFromQElem,       \* the stream being read, or NULL
    lastReadLri,
    prevLastReadLri,
    i,                       \* loop variable of initializeAndReadAllStreams
    pc,
    rc,                      \* what main ends with
    displayed                \* the records passed to DisplayLogRecord

streamVars == <<position, sqlcode, curLogBuffPtr, numLogRecordsRemaining,
                currentLRI>>
queueVars == <<qHead, lastReadFromQElem, lastReadLri, prevLastReadLri>>
vars == <<log, streamVars, needTermReadLog, queueVars, i, pc, rc, displayed>>

NULL == -1
EndLRI == <<Modulus - 1, Modulus - 1>>
Pcs == {"init", "query", "read", "next", "get", "check", "display", "done"}
Rcs == {"0", "READLOG_ERR_READ_ERROR", "READLOG_ERR_READ_TO_CUR"}

Init == /\ log \in LogSets
        /\ position = [s \in Streams |-> 0]
        /\ sqlcode = [s \in Streams |-> "0"]
        /\ curLogBuffPtr = [s \in Streams |-> NULL]
        /\ numLogRecordsRemaining = [s \in Streams |-> 0]
        /\ currentLRI = [s \in Streams |-> <<0, 0>>]
        /\ needTermReadLog = {}
        /\ qHead = <<>> /\ lastReadFromQElem = NULL
        /\ lastReadLri = <<0, 0>> /\ prevLastReadLri = <<0, 0>>
        /\ i = 0 /\ pc = "init" /\ rc = "0" /\ displayed = {}

Goto(label) == pc' = label /\ UNCHANGED rc
Return(code) == pc' = "done" /\ rc' = code
-----------------------------------------------------------------------------
(* The queue, sorted by the next LRI of each stream *)

\* enqueueElement: before the first stream whose next LRI is greater.
InsertAt(q, k, s) == [j \in 1 .. Len(q) + 1 |->
                         IF j < k THEN q[j] ELSE IF j = k THEN s ELSE q[j - 1]]

Insert(q, s, lri) ==
    InsertAt(q, CHOOSE k \in 1 .. Len(q) + 1 :
                   /\ \A j \in 1 .. k - 1 : ~Precedes(lri[s], lri[q[j]])
                   /\ k <= Len(q) => Precedes(lri[s], lri[q[k]]), s)
-----------------------------------------------------------------------------
(* Reading one stream *)

\* db2ReadLogNoConn, DB2READLOG_READ: the next n records.  Without a record or
\* with READ_TO_CURRENT the stream is at its end.
ReadLogNoConn(s, n, code) ==
    /\ position[s] + n <= Len(log[s])
    /\ \/ code = "0" /\ (n = 0 => position[s] = Len(log[s]))
       \/ code = "SQLU_RLOG_READ_TO_CURRENT" /\ position[s] + n = Len(log[s])
       \/ code = "error" /\ n = 0 /\ "read" \in MayFail

Sqlcodes == {"0", "SQLU_RLOG_READ_TO_CURRENT", "error"}

\* Mutant: the buffer is taken to hold one record less.
RecordsGotLess(n) == IF n > 1 THEN n - 1 ELSE n

RecordsGot(n) == n

\* The buffer gets the n records; remaining is the count before the call.
readTheLog(s, n, code, remaining) ==
    /\ ReadLogNoConn(s, n, code)
    /\ position' = [position EXCEPT ![s] = @ + n]
    /\ sqlcode' = [sqlcode EXCEPT ![s] = code]
    /\ \/ /\ code = "error"
          /\ numLogRecordsRemaining' = remaining
          /\ UNCHANGED <<curLogBuffPtr, currentLRI>>
       \/ /\ code # "error" /\ n = 0
          /\ curLogBuffPtr' = [curLogBuffPtr EXCEPT ![s] = NULL]
          /\ currentLRI' = [currentLRI EXCEPT ![s] = EndLRI]
          /\ numLogRecordsRemaining' = remaining
       \/ /\ code # "error" /\ n > 0
          /\ curLogBuffPtr' = [curLogBuffPtr EXCEPT ![s] = position[s] + 1]
          /\ currentLRI' = [currentLRI EXCEPT ![s] = log[s][position[s] + 1]]
          /\ numLogRecordsRemaining' = [remaining EXCEPT ![s] = RecordsGot(n)]
-----------------------------------------------------------------------------
(* initializeAndReadAllStreams *)

\* Mutant: a stream without logs is tried again.
NextPathSame(n) == IF log[n] = <<>> THEN n ELSE n + 1

NextPath(n) == n + 1

\* freeLogStreamCB, and on to the next path.
Skip == /\ needTermReadLog' = needTermReadLog \ {i}
        /\ i' = NextPath(i)
        /\ Goto("init")

initializeReadLog ==
    /\ pc = "init" /\ i < Paths
    /\ \/ /\ needTermReadLog' = needTermReadLog \cup {i}
          /\ Goto("query") /\ UNCHANGED i
       \/ log[i] = <<>> /\ Skip
       \/ /\ "init" \in MayFail
          /\ Return("READLOG_ERR_READ_ERROR") /\ UNCHANGED <<needTermReadLog, i>>
    /\ UNCHANGED <<log, streamVars, queueVars, displayed>>

\* An invalid parameter other than the path (-2650) counts as success, too.
queryTheLog ==
    /\ pc = "query"
    /\ \/ Goto("read") /\ UNCHANGED <<needTermReadLog, i>>
       \/ log[i] = <<>> /\ Skip
       \/ /\ "query" \in MayFail
          /\ Return("READLOG_ERR_READ_ERROR") /\ UNCHANGED <<needTermReadLog, i>>
    /\ UNCHANGED <<log, streamVars, queueVars, displayed>>

ReadFirst ==
    /\ pc = "read"
    /\ \E n \in 0 .. BufferSize, code \in Sqlcodes :
          /\ readTheLog(i, n, code, numLogRecordsRemaining)
          /\ \/ /\ code = "error"
                /\ Return("READLOG_ERR_READ_ERROR")
                /\ UNCHANGED <<needTermReadLog, i, qHead>>
             \/ code # "error" /\ n = 0 /\ Skip /\ UNCHANGED qHead
             \/ /\ code # "error" /\ n > 0
                /\ qHead' = Insert(qHead, i, currentLRI')
                /\ i' = NextPath(i) /\ Goto("init") /\ UNCHANGED needTermReadLog
    /\ UNCHANGED <<log, lastReadFromQElem, lastReadLri, prevLastReadLri, displayed>>

AllRead ==
    /\ pc = "init" /\ i = Paths
    /\ IF qHead = <<>> THEN Return("READLOG_ERR_READ_TO_CUR") ELSE Goto("next")
    /\ UNCHANGED <<log, streamVars, needTermReadLog, queueVars, i, displayed>>
-----------------------------------------------------------------------------
(* getNextLogRecord *)

\* The difference is a db2Uint64.
ableToReadFromSameLogStream ==
    /\ lastReadFromQElem # NULL
    /\ (currentLRI[lastReadFromQElem][1] - lastReadLri[1]) % Modulus < 2

ReadOn == /\ pc = "next" /\ ableToReadFromSameLogStream
          /\ Goto("get")
          /\ UNCHANGED <<log, streamVars, needTermReadLog, queueVars, i, displayed>>

\* Mutant: a stream is dropped with its last record unread.
HasMoreThanOne(s) == numLogRecordsRemaining[s] > 1

HasMore(s) == numLogRecordsRemaining[s] > 0

\* The queue once the stream just read is back in it, or freed.
Requeued == IF lastReadFromQElem # NULL /\ HasMore(lastReadFromQElem)
            THEN Insert(qHead, lastReadFromQElem, currentLRI)
            ELSE qHead

Rest(q) == Tail(q)

Switch ==
    /\ pc = "next" /\ ~ableToReadFromSameLogStream
    /\ needTermReadLog' =
          IF lastReadFromQElem # NULL /\ ~HasMore(lastReadFromQElem)
          THEN needTermReadLog \ {lastReadFromQElem} ELSE needTermReadLog
    /\ IF Requeued = <<>>
       THEN /\ lastReadFromQElem' = NULL /\ qHead' = <<>>
            /\ Return("READLOG_ERR_READ_TO_CUR")
       ELSE /\ lastReadFromQElem' = Head(Requeued)
            /\ qHead' = Rest(Requeued)
            /\ Goto("get")
    /\ UNCHANGED <<log, streamVars, lastReadLri, prevLastReadLri, i, displayed>>

\* getNextLogRecordFromLogStream: the next record leaves the buffer, which is
\* filled again at once if that was its last one.
getNextLogRecordFromLogStream ==
    /\ pc = "get"
    /\ LET s == lastReadFromQElem
           remaining == [numLogRecordsRemaining EXCEPT ![s] = @ - 1]
       IN
       /\ prevLastReadLri' = lastReadLri
       /\ lastReadLri' = log[s][curLogBuffPtr[s]]
       /\ \/ /\ remaining[s] > 0
             /\ numLogRecordsRemaining' = remaining
             /\ curLogBuffPtr' = [curLogBuffPtr EXCEPT ![s] = @ + 1]
             /\ currentLRI' = [currentLRI EXCEPT ![s] = log[s][curLogBuffPtr[s] + 1]]
             /\ Goto("check")
             /\ UNCHANGED <<position, sqlcode>>
          \/ /\ remaining[s] <= 0 /\ sqlcode[s] = "SQLU_RLOG_READ_TO_CURRENT"
             /\ numLogRecordsRemaining' = remaining
             /\ curLogBuffPtr' = [curLogBuffPtr EXCEPT ![s] = NULL]
             /\ currentLRI' = [currentLRI EXCEPT ![s] = EndLRI]
             /\ Goto("check")
             /\ UNCHANGED <<position, sqlcode>>
          \/ /\ remaining[s] <= 0 /\ sqlcode[s] # "SQLU_RLOG_READ_TO_CURRENT"
             /\ \E n \in 0 .. BufferSize, code \in Sqlcodes :
                   /\ readTheLog(s, n, code, remaining)
                   /\ IF code = "error" THEN Return("READLOG_ERR_READ_ERROR")
                      ELSE Goto("check")
    /\ UNCHANGED <<log, needTermReadLog, qHead, lastReadFromQElem, i, displayed>>

\* "Sanity check to make sure the LRIs are increasing"
Check == /\ pc = "check"
         /\ IF Precedes(prevLastReadLri, lastReadLri) THEN Goto("display")
            ELSE Return("READLOG_ERR_READ_ERROR")
         /\ UNCHANGED <<log, streamVars, needTermReadLog, queueVars, i, displayed>>

DisplayLogRecord ==
    /\ pc = "display"
    /\ displayed' = displayed \cup {lastReadLri}
    /\ Goto("next")
    /\ UNCHANGED <<log, streamVars, needTermReadLog, queueVars, i>>

Step == \/ initializeReadLog \/ queryTheLog \/ ReadFirst \/ AllRead
        \/ ReadOn \/ Switch \/ getNextLogRecordFromLogStream \/ Check
        \/ DisplayLogRecord

Stop == pc = "done" /\ UNCHANGED vars

Next == Step \/ Stop

\* The program is one thread that runs on until main returns.
Spec == Init /\ [][Next]_vars /\ WF_vars(Step)
-----------------------------------------------------------------------------
(* Properties *)

Records == UNION {{log[s][k] : k \in 1 .. Len(log[s])} : s \in Streams}

\* Every variable keeps its type, and the queue has no stream more than once.
TypeOK ==
    /\ log \in [Streams -> Seq(LRIs)]
    /\ position \in [Streams -> Nat]
    /\ sqlcode \in [Streams -> Sqlcodes]
    /\ curLogBuffPtr \in [Streams -> Nat \cup {NULL}]
    /\ numLogRecordsRemaining \in [Streams -> 0 .. BufferSize]
    /\ currentLRI \in [Streams -> LRIs \cup {<<0, 0>>, EndLRI}]
    /\ needTermReadLog \subseteq Streams
    /\ qHead \in Seq(Streams)
    /\ \A j, k \in 1 .. Len(qHead) : qHead[j] = qHead[k] => j = k
    /\ lastReadFromQElem \in Streams \cup {NULL}
    /\ lastReadLri \in LRIs \cup {<<0, 0>>}
    /\ prevLastReadLri \in LRIs \cup {<<0, 0>>}
    /\ i \in 0 .. Paths /\ pc \in Pcs /\ rc \in Rcs
    /\ displayed \subseteq LRIs

\* Staying on a stream while its LFS grows by less than two never overtakes
\* another stream: the program's "LRIs are not increasing" is never printed.
LRIsIncrease == pc = "check" => Precedes(prevLastReadLri, lastReadLri)

\* No record is passed over: whatever is still to be displayed comes after
\* everything displayed, through refills, streams that end and read errors.
NoneOvertaken == \A r \in displayed, q \in Records \ displayed : Precedes(r, q)

\* At the end of the logs every record of every stream has been displayed and
\* every stream is terminated.
CompleteAtEnd == rc = "READLOG_ERR_READ_TO_CUR" =>
                    displayed = Records /\ needTermReadLog = {}

\* The merge ends, also if some streams have no logs.
MergeEnds == <>(pc = "done")

\* The program delivers the records of all streams one by one in LRI order.
Result == CASE rc = "0" -> "reading"
            [] rc = "READLOG_ERR_READ_TO_CUR" -> "end of logs"
            [] rc = "READLOG_ERR_READ_ERROR" -> "error"
Sorted == INSTANCE SortedLog WITH left <- Records \ displayed, result <- Result,
                                  Records <- LRIs
DeliversInOrder == Sorted!Spec
=============================================================================
