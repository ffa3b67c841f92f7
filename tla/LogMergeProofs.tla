----------------------------- MODULE LogMergeProofs -----------------------------
(***************************************************************************)
(* The safety of LogMerge, and that it implements SortedLog, for any       *)
(* number of streams, any contents in the order of the LRIs, any size of   *)
(* the buffers and any error of the API.                                   *)
(***************************************************************************)
EXTENDS LogMerge, WellFoundedInduction, TLAPS

Pairs == Nat \X Nat

\* compLRItype1 is a strict total order of the pairs.
LEMMA Order ==
  /\ \A a \in Pairs : ~Precedes(a, a)
  /\ \A a, b \in Pairs : a # b => Precedes(a, b) \/ Precedes(b, a)
  /\ \A a, b, c \in Pairs : Precedes(a, b) /\ Precedes(b, c) => Precedes(a, c)
<1>1. \A a \in Pairs : a = <<a[1], a[2]>> /\ a[1] \in Nat /\ a[2] \in Nat
  BY DEF Pairs
<1> QED BY <1>1 DEF Precedes

\* Every set of indices that is not empty has a least one.
LEMMA LeastIndex ==
  ASSUME NEW T \in SUBSET Nat, T # {}
  PROVE  \E k \in T : \A j \in T : k <= j
<1> DEFINE Less == {p \in Nat \X Nat : p[1] < p[2]}
<1>1. IsWellFoundedOn(Less, Nat)
  BY NatLessThanWellFounded DEF OpToRel
<1> HIDE DEF Less
<1>2. PICK k \in T : \A j \in T : <<j, k>> \notin Less
  BY <1>1, WFMin
<1>3. \A j \in T : ~(j < k)
  BY <1>2 DEF Less
<1> QED BY <1>3

\* A difference that fits into the modulus is left alone by it.
LEMMA SmallMod ==
  ASSUME NEW m \in Nat, NEW d \in 0 .. m - 1
  PROVE  d % m = d
<1> QED OBVIOUS

\* A queue in the order of the next LRIs.
InOrder(q, lri) == \A j, k \in 1 .. Len(q) : j < k => Precedes(lri[q[j]], lri[q[k]])

\* enqueueElement keeps the queue in order, keeps its streams and adds s.
LEMMA InsertFacts ==
  ASSUME NEW q \in Seq(Streams), NEW s \in Streams, NEW lri \in [Streams -> Pairs],
         InOrder(q, lri), \A k \in 1 .. Len(q) : lri[q[k]] # lri[s]
  PROVE  /\ Insert(q, s, lri) \in Seq(Streams)
         /\ Len(Insert(q, s, lri)) = Len(q) + 1
         /\ InOrder(Insert(q, s, lri), lri)
         /\ \E k \in 1 .. Len(q) + 1 : Insert(q, s, lri)[k] = s
         /\ \A j \in 1 .. Len(q) : \E k \in 1 .. Len(q) + 1 : Insert(q, s, lri)[k] = q[j]
         /\ \A k \in 1 .. Len(q) + 1 : \/ Insert(q, s, lri)[k] = s
                                       \/ \E j \in 1 .. Len(q) : Insert(q, s, lri)[k] = q[j]
<1> DEFINE Fits(k) == /\ \A j \in 1 .. k - 1 : ~Precedes(lri[s], lri[q[j]])
                      /\ k <= Len(q) => Precedes(lri[s], lri[q[k]])
           After == {k \in 1 .. Len(q) : Precedes(lri[s], lri[q[k]])}
<1>1. Len(q) \in Nat /\ \A k \in 1 .. Len(q) : q[k] \in Streams
  OBVIOUS
<1>2. \E k \in 1 .. Len(q) + 1 : Fits(k)
  <2>1. CASE After = {}
    <3>1. Fits(Len(q) + 1)
      BY <1>1, <2>1
    <3> QED BY <1>1, <3>1
  <2>2. CASE After # {}
    <3>0. After \in SUBSET Nat
      BY <1>1
    <3> HIDE DEF After
    <3>1. PICK k \in After : \A j \in After : k <= j
      BY <2>2, <3>0, LeastIndex
    <3> USE DEF After
    <3>2. Fits(k)
      BY <1>1, <3>1
    <3> QED BY <1>1, <3>2
  <2> QED BY <2>1, <2>2
<1>3. PICK p \in 1 .. Len(q) + 1 : Fits(p) /\ Insert(q, s, lri) = InsertAt(q, p, s)
  BY <1>2 DEF Insert
<1> DEFINE r == InsertAt(q, p, s)
<1>4. /\ r \in [1 .. Len(q) + 1 -> Streams]
      /\ \A k \in 1 .. Len(q) + 1 : /\ k < p => r[k] = q[k]
                                    /\ k = p => r[k] = s
                                    /\ k > p => r[k] = q[k - 1]
  BY <1>1 DEF InsertAt
<1>5. r \in Seq(Streams) /\ Len(r) = Len(q) + 1
  BY <1>1, <1>4
<1>6. \A j \in 1 .. Len(q) : /\ j < p => Precedes(lri[q[j]], lri[s])
                             /\ j >= p => Precedes(lri[s], lri[q[j]])
  <2> TAKE j \in 1 .. Len(q)
  <2>1. lri[q[j]] \in Pairs /\ lri[s] \in Pairs /\ lri[q[j]] # lri[s]
    BY <1>1
  <2>2. CASE j < p
    BY <1>1, <1>3, <2>1, <2>2, Order
  <2>3. CASE j = p
    BY <1>3, <2>3
  <2>4. CASE j > p
    <3>1. p \in 1 .. Len(q) /\ lri[q[p]] \in Pairs
      BY <1>1, <2>4
    <3>2. Precedes(lri[s], lri[q[p]]) /\ Precedes(lri[q[p]], lri[q[j]])
      BY <1>1, <1>3, <2>4, <3>1 DEF InOrder
    <3> QED BY <2>1, <2>4, <3>1, <3>2, Order
  <2> QED BY <1>1, <2>2, <2>3, <2>4
<1>7. InOrder(r, lri)
  <2> SUFFICES ASSUME NEW j \in 1 .. Len(q) + 1, NEW k \in 1 .. Len(q) + 1, j < k
               PROVE  Precedes(lri[r[j]], lri[r[k]])
    BY <1>5 DEF InOrder
  <2>1. CASE k < p
    BY <1>1, <1>4, <2>1 DEF InOrder
  <2>2. CASE k = p
    BY <1>1, <1>4, <1>6, <2>2
  <2>3. CASE k > p /\ j < p
    BY <1>1, <1>4, <2>3 DEF InOrder
  <2>4. CASE k > p /\ j = p
    BY <1>1, <1>4, <1>6, <2>4
  <2>5. CASE k > p /\ j > p
    BY <1>1, <1>4, <2>5, SMTT(30) DEF InOrder
  <2> QED BY <1>1, <2>1, <2>2, <2>3, <2>4, <2>5
<1>8. \E k \in 1 .. Len(q) + 1 : r[k] = s
  BY <1>4
<1>9. \A j \in 1 .. Len(q) : \E k \in 1 .. Len(q) + 1 : r[k] = q[j]
  <2> TAKE j \in 1 .. Len(q)
  <2>1. CASE j < p
    <3>1. j \in 1 .. Len(q) + 1 /\ r[j] = q[j]
      BY <1>1, <1>4, <2>1
    <3> QED BY <3>1
  <2>2. CASE j >= p
    <3>1. j + 1 \in 1 .. Len(q) + 1 /\ r[j + 1] = q[j]
      BY <1>1, <1>4, <2>2
    <3> QED BY <3>1
  <2> QED BY <1>1, <2>1, <2>2
<1>10. \A k \in 1 .. Len(q) + 1 : r[k] = s \/ \E j \in 1 .. Len(q) : r[k] = q[j]
  <2> TAKE k \in 1 .. Len(q) + 1
  <2>1. CASE k < p
    <3>1. k \in 1 .. Len(q) /\ r[k] = q[k]
      BY <1>1, <1>4, <2>1
    <3> QED BY <3>1
  <2>2. CASE k = p
    BY <1>4, <2>2
  <2>3. CASE k > p
    <3>1. k - 1 \in 1 .. Len(q) /\ r[k] = q[k - 1]
      BY <1>1, <1>4, <2>3
    <3> QED BY <3>1
  <2> QED BY <1>1, <2>1, <2>2, <2>3
<1> HIDE DEF r
<1>11. Insert(q, s, lri) = r
  BY <1>3 DEF r
<1> QED BY <1>5, <1>7, <1>8, <1>9, <1>10, <1>11
-----------------------------------------------------------------------------
(* The inductive invariant, in named parts *)

Starting == {"init", "query", "read"}
Merging == {"next", "get", "check", "display"}

Types ==
    /\ position \in [Streams -> Nat]
    /\ sqlcode \in [Streams -> Sqlcodes]
    /\ curLogBuffPtr \in [Streams -> Nat \cup {NULL}]
    /\ numLogRecordsRemaining \in [Streams -> 0 .. BufferSize]
    /\ currentLRI \in [Streams -> LRIs \cup {<<0, 0>>, EndLRI}]
    /\ needTermReadLog \subseteq Streams
    /\ qHead \in Seq(Streams)
    /\ lastReadFromQElem \in Streams \cup {NULL}
    /\ lastReadLri \in LRIs \cup {<<0, 0>>}
    /\ prevLastReadLri \in LRIs \cup {<<0, 0>>}
    /\ i \in 0 .. Paths /\ pc \in Pcs /\ rc \in Rcs
    /\ displayed \subseteq Records
    /\ log \in LogSets

\* What a stream's buffer holds of its log.
Buffers == \A s \in Streams :
    /\ position[s] <= Len(log[s]) /\ numLogRecordsRemaining[s] <= position[s]
    /\ numLogRecordsRemaining[s] > 0 =>
          /\ curLogBuffPtr[s] = position[s] - numLogRecordsRemaining[s] + 1
          /\ currentLRI[s] = log[s][curLogBuffPtr[s]]
    /\ sqlcode[s] = "SQLU_RLOG_READ_TO_CURRENT" => position[s] = Len(log[s])

\* Records that have left the buffer.
Taken(s) == position[s] - numLogRecordsRemaining[s]

Queued(s) == \E k \in 1 .. Len(qHead) : qHead[k] = s

Queue == /\ InOrder(qHead, currentLRI)
         /\ \A k \in 1 .. Len(qHead) : /\ numLogRecordsRemaining[qHead[k]] > 0
                                       /\ qHead[k] # lastReadFromQElem

Start == pc \in Starting =>
    /\ pc # "init" => i < Paths
    /\ lastReadFromQElem = NULL /\ displayed = {} /\ lastReadLri = <<0, 0>>
    /\ \A s \in Streams : Taken(s) = 0 /\ (s >= i => position[s] = 0)

\* A stream with records left is where the merge will find it.
Live == pc # "done" => \A s \in Streams : (pc \in Starting => s < i) =>
    \/ numLogRecordsRemaining[s] > 0 /\ (Queued(s) \/ s = lastReadFromQElem)
    \/ numLogRecordsRemaining[s] = 0 /\ position[s] = Len(log[s])

Open == pc # "done" => \A s \in Streams : s \in needTermReadLog <=>
    Queued(s) \/ s = lastReadFromQElem \/ (pc \in {"query", "read"} /\ s = i)

\* The record that is being checked and displayed.
Pending(s, k) == pc \in {"check", "display"} /\ s = lastReadFromQElem /\ k = Taken(s)

Shown == pc # "done" => \A s \in Streams : \A k \in 1 .. Len(log[s]) :
    log[s][k] \in displayed <=> k <= Taken(s) /\ ~Pending(s, k)

\* Whatever is read next comes after the record read last.
Sequence == pc \in Merging =>
    /\ \A k \in 1 .. Len(qHead) : Precedes(lastReadLri, currentLRI[qHead[k]])
    /\ lastReadFromQElem # NULL =>
          IF numLogRecordsRemaining[lastReadFromQElem] > 0
          THEN Precedes(lastReadLri, currentLRI[lastReadFromQElem])
          ELSE currentLRI[lastReadFromQElem] = EndLRI
    /\ pc = "get" => /\ lastReadFromQElem # NULL
                     /\ numLogRecordsRemaining[lastReadFromQElem] > 0
                     /\ \A k \in 1 .. Len(qHead) :
                           Precedes(currentLRI[lastReadFromQElem], currentLRI[qHead[k]])
    /\ pc \in {"check", "display"} => /\ lastReadFromQElem # NULL
                                      /\ Precedes(prevLastReadLri, lastReadLri)
    /\ pc # "get" /\ lastReadFromQElem # NULL =>
          Taken(lastReadFromQElem) > 0
          /\ lastReadLri = log[lastReadFromQElem][Taken(lastReadFromQElem)]

Ended == /\ pc = "done" <=> rc # "0"
         /\ rc = "READLOG_ERR_READ_TO_CUR" =>
               displayed = Records /\ needTermReadLog = {}

IInv == /\ Types /\ Buffers /\ Queue /\ Start /\ Live /\ Open /\ Shown /\ Sequence
        /\ Ended
-----------------------------------------------------------------------------
\* What the proofs use of the constants.
LEMMA Constants ==
  /\ Paths \in Nat /\ BufferSize \in Nat /\ BufferSize > 0 /\ Modulus \in Nat
  /\ \A s \in Streams : s \in Nat /\ s < Paths
  /\ \A s \in Nat : s < Paths => s \in Streams
  /\ NULL \notin Nat /\ NULL \notin Streams
  /\ LRIs \subseteq Pairs /\ EndLRI \in Pairs /\ <<0, 0>> \in Pairs /\ <<0, 0>> \notin LRIs
  /\ \A r \in LRIs : Precedes(<<0, 0>>, r)
<1>1. /\ Paths \in Nat /\ BufferSize \in Nat /\ BufferSize > 0 /\ Modulus \in Nat
      /\ Modulus > 0
  BY MergeAssumption
<1>2. /\ \A s \in Streams : s \in Nat /\ s < Paths
      /\ \A s \in Nat : s < Paths => s \in Streams
      /\ NULL \notin Nat /\ NULL \notin Streams
  BY <1>1 DEF Streams, NULL
<1>3. \A r \in LRIs : r = <<r[1], r[2]>> /\ r[1] \in Nat /\ r[2] \in Nat /\ r[1] > 0
  BY <1>1 DEF LRIs
<1>4. LRIs \subseteq Pairs /\ EndLRI \in Pairs /\ <<0, 0>> \in Pairs
  BY <1>1, <1>3 DEF Pairs, EndLRI
<1>5. <<0, 0>> \notin LRIs /\ \A r \in LRIs : Precedes(<<0, 0>>, r)
  BY <1>3 DEF Precedes
<1> QED BY <1>1, <1>2, <1>4, <1>5

\* The records of the streams: each stream in its order, and no LFS twice.
LEMMA LogFacts ==
  ASSUME log \in LogSets
  PROVE  /\ log \in [Streams -> Seq(LRIs)]
         /\ \A s \in Streams : Len(log[s]) \in Nat
         /\ \A s \in Streams, k \in Nat : k > 0 /\ k <= Len(log[s]) => log[s][k] \in LRIs
         /\ \A s \in Streams : \A j, k \in 1 .. Len(log[s]) :
               j < k => Precedes(log[s][j], log[s][k])
         /\ \A s, t \in Streams : s # t =>
               \A j \in 1 .. Len(log[s]), k \in 1 .. Len(log[t]) :
                  log[s][j][1] # log[t][k][1]
<1>1. log \in [Streams -> Seq(LRIs)] /\ Ordered(log) /\ OwnLFS(log)
  BY MergeAssumption
<1>2. \A s \in Streams : Len(log[s]) \in Nat
  BY <1>1
<1>3. \A s \in Streams, k \in Nat : k > 0 /\ k <= Len(log[s]) => log[s][k] \in LRIs
  BY <1>1
<1> QED BY <1>1, <1>2, <1>3 DEF Ordered, OwnLFS

\* No two records have the same LRI.
LEMMA RecordsDiffer ==
  ASSUME log \in LogSets, NEW s \in Streams, NEW t \in Streams,
         NEW j \in 1 .. Len(log[s]), NEW k \in 1 .. Len(log[t]), log[s][j] = log[t][k]
  PROVE  s = t /\ j = k
<1>1. s = t
  BY LogFacts
<1>2. \A a \in 1 .. Len(log[s]), b \in 1 .. Len(log[s]) : log[s][a] = log[s][b] => ~(a < b)
  BY LogFacts, Constants, Order
<1>3. j \in Nat /\ k \in Nat
  BY LogFacts
<1> QED BY <1>1, <1>2, <1>3

\* A step of the control alone keeps the types.
LEMMA TypesKept ==
  ASSUME Types, pc' \in Pcs, rc' \in Rcs,
         UNCHANGED <<log, streamVars, needTermReadLog, queueVars, i, displayed>>
  PROVE  Types'
<1>1. /\ UNCHANGED <<log, position, sqlcode, curLogBuffPtr, numLogRecordsRemaining>>
      /\ UNCHANGED <<currentLRI, needTermReadLog, qHead, lastReadFromQElem>>
      /\ UNCHANGED <<lastReadLri, prevLastReadLri, i, displayed>>
  BY DEF streamVars, queueVars
<1>2. Records' = Records
  BY <1>1 DEF Records
<1> QED BY <1>1, <1>2 DEF Types

\* The first state.
LEMMA InitHolds == Init => IInv
<1> SUFFICES ASSUME Init PROVE IInv
  OBVIOUS
<1>1. log \in LogSets /\ \A s \in Streams : Len(log[s]) \in Nat
  BY LogFacts DEF Init
<1>2. Types
  <2>1. numLogRecordsRemaining \in [Streams -> 0 .. BufferSize] /\ i \in 0 .. Paths
    BY Constants DEF Init
  <2>2. qHead \in Seq(Streams)
    BY DEF Init
  <2> QED BY <2>1, <2>2 DEF Init, Types, Sqlcodes, Pcs, Rcs
<1>3. Buffers
  BY <1>1 DEF Init, Buffers
<1>4. Queue
  BY DEF Init, Queue, InOrder
<1>5. Start /\ Live /\ Open
  BY Constants DEF Init, Start, Starting, Live, Open, Taken, Queued, NULL
<1>6. Shown
  BY Constants DEF Init, Shown, Taken, Pending
<1>7. Sequence /\ Ended
  BY DEF Init, Sequence, Ended, Merging
<1> QED BY <1>1, <1>2, <1>3, <1>4, <1>5, <1>6, <1>7 DEF IInv

\* A stream that has not been read is empty as far as the buffers go.
LEMMA StartFacts ==
  ASSUME IInv, pc \in Starting, NEW s \in Streams
  PROVE  /\ Taken(s) = 0 /\ numLogRecordsRemaining[s] = position[s]
         /\ position[s] \in Nat /\ numLogRecordsRemaining[s] \in Nat
         /\ s >= i => position[s] = 0 /\ numLogRecordsRemaining[s] = 0 /\ ~Queued(s)
         /\ s # lastReadFromQElem
<1>1. /\ position[s] \in Nat /\ numLogRecordsRemaining[s] \in Nat
      /\ Taken(s) = 0 /\ (s >= i => position[s] = 0)
  BY Constants DEF IInv, Types, Start
<1>2. numLogRecordsRemaining[s] = position[s]
  BY <1>1 DEF Taken
<1>3. s >= i => ~Queued(s)
  BY <1>1, <1>2 DEF IInv, Queue, Queued
<1>4. s # lastReadFromQElem
  BY Constants DEF IInv, Start
<1> QED BY <1>1, <1>2, <1>3, <1>4

\* A path is opened, skipped for it has no logs, or ends the program.
LEMMA OpenPathStep ==
  ASSUME IInv, initializeReadLog \/ queryTheLog
  PROVE  IInv'
<1>1. /\ pc \in {"init", "query"} /\ i \in Streams /\ i \in Nat /\ i < Paths
      /\ UNCHANGED <<log, streamVars, queueVars, displayed>>
  BY Constants DEF IInv, Types, Start, Starting, initializeReadLog, queryTheLog
<1>2. /\ Taken(i) = 0 /\ position[i] = 0 /\ numLogRecordsRemaining[i] = 0
      /\ ~Queued(i) /\ i # lastReadFromQElem
  BY <1>1, StartFacts DEF Starting
<1>3. \/ /\ pc' \in {"query", "read"} /\ rc' = rc /\ i' = i
         /\ needTermReadLog' = needTermReadLog \cup {i}
      \/ /\ log[i] = <<>> /\ pc' = "init" /\ rc' = rc /\ i' = i + 1
         /\ needTermReadLog' = needTermReadLog \ {i}
      \/ /\ pc' = "done" /\ rc' = "READLOG_ERR_READ_ERROR"
         /\ UNCHANGED <<needTermReadLog, i>>
  BY <1>1 DEF initializeReadLog, queryTheLog, Skip, NextPath, Goto, Return, IInv, Open
<1>4. Types'
  <2>1. i' \in 0 .. Paths
    BY <1>1, <1>3, Constants
  <2>2. Records' = Records
    BY <1>1 DEF Records
  <2>3. needTermReadLog' \subseteq Streams /\ pc' \in Pcs /\ rc' \in Rcs
    BY <1>1, <1>3 DEF IInv, Types, Pcs, Rcs
  <2> QED BY <1>1, <2>1, <2>2, <2>3 DEF IInv, Types, streamVars, queueVars
<1>5. Buffers' /\ Queue'
  BY <1>1 DEF IInv, Buffers, Queue, InOrder, streamVars, queueVars
<1>6. \A s \in Streams : Taken(s)' = Taken(s) /\ Queued(s)' = Queued(s)
  BY <1>1 DEF Taken, Queued, streamVars, queueVars
<1>7. Start'
  <2>1. pc' \in Starting \/ pc' = "done"
    BY <1>3 DEF Starting
  <2>2. \A s \in Streams : s >= i' => s >= i
    BY <1>1, <1>3, Constants
  <2>3. pc' # "init" /\ pc' # "done" => i' < Paths
    BY <1>1, <1>3
  <2> QED BY <1>1, <1>6, <2>1, <2>2, <2>3 DEF IInv, Start, Starting, streamVars, queueVars
<1>8. Live'
  <2> SUFFICES ASSUME pc' # "done", NEW s \in Streams, pc' \in Starting => s < i'
               PROVE  \/ numLogRecordsRemaining'[s] > 0 /\ (Queued(s)' \/ s = lastReadFromQElem')
                      \/ numLogRecordsRemaining'[s] = 0 /\ position'[s] = Len(log'[s])
    BY DEF Live
  <2>1. s < i \/ (s = i /\ log[i] = <<>>)
    BY <1>1, <1>3, Constants DEF Starting
  <2>2. CASE s < i
    BY <1>1, <1>6, <2>2 DEF IInv, Live, Starting, streamVars, queueVars
  <2>3. CASE s = i /\ log[i] = <<>>
    BY <1>1, <1>2, <2>3 DEF streamVars
  <2> QED BY <2>1, <2>2, <2>3
<1>9. Open'
  BY <1>1, <1>2, <1>3, <1>6, Constants DEF IInv, Open, queueVars
<1>10. Shown'
  BY <1>1, <1>3, <1>6 DEF IInv, Shown, Pending
<1>11. Sequence' /\ Ended'
  BY <1>1, <1>3 DEF IInv, Ended, Sequence, Merging
<1> QED BY <1>4, <1>5, <1>7, <1>8, <1>9, <1>10, <1>11 DEF IInv

\* A read moves the position by what it gets and fills the stream's buffer.
LEMMA ReadTheLogFacts ==
  ASSUME IInv, NEW s \in Streams, NEW n \in 0 .. BufferSize, NEW code \in Sqlcodes,
         NEW remaining \in [Streams -> 0 .. BufferSize], remaining[s] = 0,
         readTheLog(s, n, code, remaining), UNCHANGED log
  PROVE  /\ position' \in [Streams -> Nat] /\ sqlcode' \in [Streams -> Sqlcodes]
         /\ curLogBuffPtr' \in [Streams -> Nat \cup {NULL}]
         /\ numLogRecordsRemaining' \in [Streams -> 0 .. BufferSize]
         /\ currentLRI' \in [Streams -> LRIs \cup {<<0, 0>>, EndLRI}]
         /\ \A t \in Streams \ {s} :
               /\ position'[t] = position[t] /\ sqlcode'[t] = sqlcode[t]
               /\ curLogBuffPtr'[t] = curLogBuffPtr[t] /\ currentLRI'[t] = currentLRI[t]
               /\ numLogRecordsRemaining'[t] = remaining[t]
         /\ position'[s] = position[s] + n /\ position[s] + n <= Len(log[s])
         /\ numLogRecordsRemaining'[s] = n
         /\ n > 0 => /\ code # "error"
                     /\ curLogBuffPtr'[s] = position[s] + 1
                     /\ currentLRI'[s] = log[s][position[s] + 1]
         /\ n = 0 /\ code # "error" => /\ position[s] = Len(log[s])
                                       /\ currentLRI'[s] = EndLRI
         /\ sqlcode'[s] = "SQLU_RLOG_READ_TO_CURRENT" => position'[s] = Len(log[s])
<1>1. /\ position \in [Streams -> Nat] /\ sqlcode \in [Streams -> Sqlcodes]
      /\ curLogBuffPtr \in [Streams -> Nat \cup {NULL}]
      /\ currentLRI \in [Streams -> LRIs \cup {<<0, 0>>, EndLRI}]
      /\ log \in [Streams -> Seq(LRIs)] /\ n \in Nat /\ Len(log[s]) \in Nat
  BY LogFacts, Constants, SMTT(30) DEF IInv, Types
<1>2. /\ position[s] + n <= Len(log[s])
      /\ n = 0 /\ code # "error" => position[s] = Len(log[s])
      /\ n > 0 => code # "error"
      /\ code = "SQLU_RLOG_READ_TO_CURRENT" => position[s] + n = Len(log[s])
  BY <1>1 DEF readTheLog, ReadLogNoConn, Sqlcodes
<1>3. /\ position' = [position EXCEPT ![s] = @ + n]
      /\ sqlcode' = [sqlcode EXCEPT ![s] = code]
  BY DEF readTheLog
<1>4. /\ position' \in [Streams -> Nat] /\ sqlcode' \in [Streams -> Sqlcodes]
      /\ position'[s] = position[s] + n /\ sqlcode'[s] = code
      /\ \A t \in Streams \ {s} : position'[t] = position[t] /\ sqlcode'[t] = sqlcode[t]
  BY <1>1, <1>3
<1>5. CASE code = "error"
  <2>1. n = 0 /\ numLogRecordsRemaining' = remaining /\ UNCHANGED <<curLogBuffPtr, currentLRI>>
    BY <1>1, <1>5 DEF readTheLog, ReadLogNoConn
  <2> QED BY <1>1, <1>2, <1>4, <1>5, <2>1
<1>6. CASE code # "error" /\ n = 0
  <2>1. /\ curLogBuffPtr' = [curLogBuffPtr EXCEPT ![s] = NULL]
        /\ currentLRI' = [currentLRI EXCEPT ![s] = EndLRI]
        /\ numLogRecordsRemaining' = remaining
    BY <1>6 DEF readTheLog
  <2> QED BY <1>1, <1>2, <1>4, <1>6, <2>1
<1>7. CASE code # "error" /\ n > 0
  <2>1. /\ curLogBuffPtr' = [curLogBuffPtr EXCEPT ![s] = position[s] + 1]
        /\ currentLRI' = [currentLRI EXCEPT ![s] = log[s][position[s] + 1]]
        /\ numLogRecordsRemaining' = [remaining EXCEPT ![s] = n]
    BY <1>7 DEF readTheLog, RecordsGot
  <2>2. position[s] + 1 \in Nat /\ position[s] + 1 <= Len(log[s])
    BY <1>1, <1>2, <1>7
  <2>3. log[s][position[s] + 1] \in LRIs
    BY <1>1, <2>2, LogFacts DEF IInv, Types
  <2> QED BY <1>1, <1>2, <1>4, <1>7, <2>1, <2>2, <2>3
<1> QED BY <1>1, <1>5, <1>6, <1>7

\* The LRIs of streams in the queue are their next records and so all different.
LEMMA NextRecord ==
  ASSUME IInv, NEW s \in Streams, numLogRecordsRemaining[s] > 0
  PROVE  /\ Taken(s) \in Nat /\ Taken(s) + 1 \in 1 .. Len(log[s])
         /\ currentLRI[s] = log[s][Taken(s) + 1] /\ currentLRI[s] \in LRIs
<1>1. /\ position[s] \in Nat /\ numLogRecordsRemaining[s] \in Nat
      /\ position[s] <= Len(log[s]) /\ numLogRecordsRemaining[s] <= position[s]
      /\ curLogBuffPtr[s] = position[s] - numLogRecordsRemaining[s] + 1
      /\ currentLRI[s] = log[s][curLogBuffPtr[s]] /\ Len(log[s]) \in Nat
  BY LogFacts, Constants DEF IInv, Types, Buffers
<1>2. Taken(s) \in Nat /\ Taken(s) + 1 \in 1 .. Len(log[s]) /\ curLogBuffPtr[s] = Taken(s) + 1
  BY <1>1 DEF Taken
<1>3. log[s][Taken(s) + 1] \in LRIs
  BY <1>1, <1>2, LogFacts DEF IInv, Types
<1> QED BY <1>1, <1>2, <1>3

\* The first records of a stream put it into the queue.
LEMMA ReadFirstStep ==
  ASSUME IInv, ReadFirst
  PROVE  IInv'
<1>1. /\ pc = "read" /\ i \in Streams /\ i \in Nat /\ i < Paths /\ rc = "0"
      /\ lastReadFromQElem = NULL /\ displayed = {} /\ log \in LogSets
      /\ numLogRecordsRemaining \in [Streams -> 0 .. BufferSize]
      /\ currentLRI \in [Streams -> LRIs \cup {<<0, 0>>, EndLRI}]
      /\ position \in [Streams -> Nat] /\ qHead \in Seq(Streams)
      /\ UNCHANGED <<log, lastReadFromQElem, lastReadLri, prevLastReadLri, displayed>>
  BY Constants DEF IInv, Types, Start, Starting, Ended, ReadFirst
<1>2. /\ Taken(i) = 0 /\ position[i] = 0 /\ numLogRecordsRemaining[i] = 0
      /\ ~Queued(i) /\ i # lastReadFromQElem /\ Len(log[i]) \in Nat
  BY <1>1, StartFacts, LogFacts DEF Starting
<1>3. PICK n \in 0 .. BufferSize, code \in Sqlcodes :
         /\ readTheLog(i, n, code, numLogRecordsRemaining)
         /\ \/ /\ code = "error"
               /\ Return("READLOG_ERR_READ_ERROR")
               /\ UNCHANGED <<needTermReadLog, i, qHead>>
            \/ code # "error" /\ n = 0 /\ Skip /\ UNCHANGED qHead
            \/ /\ code # "error" /\ n > 0
               /\ qHead' = Insert(qHead, i, currentLRI')
               /\ i' = NextPath(i) /\ Goto("init") /\ UNCHANGED needTermReadLog
  BY DEF ReadFirst
<1>4. /\ position' \in [Streams -> Nat] /\ sqlcode' \in [Streams -> Sqlcodes]
      /\ curLogBuffPtr' \in [Streams -> Nat \cup {NULL}]
      /\ numLogRecordsRemaining' \in [Streams -> 0 .. BufferSize]
      /\ currentLRI' \in [Streams -> LRIs \cup {<<0, 0>>, EndLRI}]
      /\ \A t \in Streams \ {i} :
            /\ position'[t] = position[t] /\ sqlcode'[t] = sqlcode[t]
            /\ curLogBuffPtr'[t] = curLogBuffPtr[t] /\ currentLRI'[t] = currentLRI[t]
            /\ numLogRecordsRemaining'[t] = numLogRecordsRemaining[t]
      /\ position'[i] = n /\ n <= Len(log[i])
      /\ numLogRecordsRemaining'[i] = n
      /\ n > 0 => code # "error" /\ curLogBuffPtr'[i] = 1 /\ currentLRI'[i] = log[i][1]
      /\ n = 0 /\ code # "error" => Len(log[i]) = 0
      /\ sqlcode'[i] = "SQLU_RLOG_READ_TO_CURRENT" => position'[i] = Len(log[i])
  BY <1>1, <1>2, <1>3, ReadTheLogFacts
<1>5. \A s \in Streams : Taken(s)' = Taken(s)
  <2> TAKE s \in Streams
  <2>1. CASE s = i
    <3>1. n \in Nat /\ n - n = 0
      BY Constants
    <3> QED BY <1>2, <1>4, <2>1, <3>1 DEF Taken
  <2>2. CASE s # i
    BY <1>4, <2>2 DEF Taken
  <2> QED BY <2>1, <2>2
<1>6. Buffers'
  <2> SUFFICES ASSUME NEW s \in Streams
               PROVE  /\ position'[s] <= Len(log[s])
                      /\ numLogRecordsRemaining'[s] <= position'[s]
                      /\ numLogRecordsRemaining'[s] > 0 =>
                            /\ curLogBuffPtr'[s] = position'[s] - numLogRecordsRemaining'[s] + 1
                            /\ currentLRI'[s] = log[s][curLogBuffPtr'[s]]
                      /\ sqlcode'[s] = "SQLU_RLOG_READ_TO_CURRENT" => position'[s] = Len(log[s])
    BY <1>1 DEF Buffers
  <2>1. CASE s = i
    <3>1. n \in Nat /\ n - n + 1 = 1
      BY Constants
    <3> QED BY <1>4, <2>1, <3>1
  <2>2. CASE s # i
    BY <1>4, <2>2 DEF IInv, Buffers
  <2> QED BY <2>1, <2>2
<1>7. Records' = Records
  BY <1>1 DEF Records
<1>8. Sequence'
  BY <1>3 DEF Sequence, Merging, Skip, Goto, Return
<1>9. \A k \in 1 .. Len(qHead) : /\ qHead[k] \in Streams /\ qHead[k] # i
                                 /\ numLogRecordsRemaining[qHead[k]] > 0
  BY <1>1, <1>2 DEF IInv, Queue, Queued
<1>10. InOrder(qHead, currentLRI')
  BY <1>4, <1>9 DEF IInv, Queue, InOrder
<1>11. CASE n = 0
  <2>1. qHead' = qHead
    BY <1>3, <1>11 DEF Skip
  <2>2. \A s \in Streams : Queued(s)' = Queued(s)
    BY <2>1 DEF Queued
  <2>3. \/ pc' = "done" /\ rc' = "READLOG_ERR_READ_ERROR" /\ UNCHANGED <<needTermReadLog, i>>
        \/ /\ pc' = "init" /\ rc' = rc /\ i' = i + 1 /\ Len(log[i]) = 0
           /\ needTermReadLog' = needTermReadLog \ {i}
    BY <1>3, <1>4, <1>11 DEF Skip, Goto, Return, NextPath
  <2>4. Types'
    <3>1. i' \in 0 .. Paths /\ needTermReadLog' \subseteq Streams /\ pc' \in Pcs /\ rc' \in Rcs
      <4>1. i' \in 0 .. Paths
        BY <1>1, <2>3, Constants
      <4>2. needTermReadLog' \subseteq Streams /\ pc' \in Pcs /\ rc' \in Rcs
        BY <2>3 DEF IInv, Types, Pcs, Rcs
      <4> QED BY <4>1, <4>2
    <3> QED BY <1>1, <1>4, <1>7, <2>1, <3>1 DEF IInv, Types
  <2>5. Queue'
    BY <1>1, <1>4, <1>9, <1>10, <2>1 DEF IInv, Queue
  <2>6. Start'
    BY <1>1, <1>4, <1>5, <1>11, <2>3, Constants DEF IInv, Start, Starting
  <2>7. Live'
    <3> SUFFICES ASSUME pc' = "init", NEW s \in Streams, s < i'
                 PROVE  \/ numLogRecordsRemaining'[s] > 0 /\ Queued(s)'
                        \/ numLogRecordsRemaining'[s] = 0 /\ position'[s] = Len(log'[s])
      BY <2>3 DEF Live, Starting
    <3>1. CASE s = i
      BY <1>1, <1>4, <1>11, <2>3, <3>1
    <3>2. CASE s # i
      <4>1. s < i
        BY <1>1, <2>3, <3>2, Constants
      <4> QED BY <1>1, <1>4, <2>2, <3>2, <4>1, Constants DEF IInv, Live, Starting
    <3> QED BY <3>1, <3>2
  <2>8. Open'
    BY <1>1, <1>2, <2>2, <2>3, Constants DEF IInv, Open
  <2>9. Shown'
    BY <1>1, <1>5, <2>3 DEF IInv, Shown, Pending
  <2>10. Ended'
    BY <1>1, <2>3 DEF Ended
  <2> QED BY <1>6, <1>8, <2>4, <2>5, <2>6, <2>7, <2>8, <2>9, <2>10 DEF IInv
<1>12. CASE n > 0
  <2>1. /\ qHead' = Insert(qHead, i, currentLRI') /\ UNCHANGED needTermReadLog
        /\ i' = i + 1 /\ pc' = "init" /\ rc' = rc
    BY <1>3, <1>4, <1>12 DEF NextPath, Goto
  <2>2. currentLRI' \in [Streams -> Pairs]
    <3>1. currentLRI' \in [Streams -> LRIs \cup {<<0, 0>>, EndLRI}]
      BY <1>4
    <3>2. LRIs \cup {<<0, 0>>, EndLRI} \subseteq Pairs
      BY Constants
    <3> QED BY <3>1, <3>2
  <2>3. \A k \in 1 .. Len(qHead) : currentLRI'[qHead[k]] # currentLRI'[i]
    <3> TAKE k \in 1 .. Len(qHead)
    <3>1. /\ Taken(qHead[k]) + 1 \in 1 .. Len(log[qHead[k]]) /\ qHead[k] # i
          /\ currentLRI[qHead[k]] = log[qHead[k]][Taken(qHead[k]) + 1]
      BY <1>9, NextRecord
    <3>2. 1 \in 1 .. Len(log[i]) /\ currentLRI'[i] = log[i][1]
      BY <1>2, <1>4, <1>12
    <3>3. qHead[k] \in Streams /\ currentLRI'[qHead[k]] = currentLRI[qHead[k]]
      BY <1>4, <1>9
    <3>4. log[qHead[k]][Taken(qHead[k]) + 1] # log[i][1]
      BY <1>1, <3>1, <3>2, <3>3, RecordsDiffer
    <3> QED BY <3>1, <3>2, <3>3, <3>4
  <2>4. /\ qHead' \in Seq(Streams) /\ InOrder(qHead, currentLRI)'
        /\ Len(qHead') = Len(qHead) + 1 /\ Len(qHead) \in Nat
        /\ \E k \in 1 .. Len(qHead') : qHead'[k] = i
        /\ \A j \in 1 .. Len(qHead) : \E k \in 1 .. Len(qHead') : qHead'[k] = qHead[j]
        /\ \A k \in 1 .. Len(qHead') :
              qHead'[k] = i \/ \E j \in 1 .. Len(qHead) : qHead'[k] = qHead[j]
    <3> DEFINE lri == currentLRI'
    <3>1. /\ lri \in [Streams -> Pairs] /\ InOrder(qHead, lri)
          /\ \A k \in 1 .. Len(qHead) : lri[qHead[k]] # lri[i]
      BY <1>10, <2>2, <2>3
    <3> HIDE DEF lri
    <3>2. /\ Insert(qHead, i, lri) \in Seq(Streams)
          /\ Len(Insert(qHead, i, lri)) = Len(qHead) + 1
          /\ InOrder(Insert(qHead, i, lri), lri)
          /\ \E k \in 1 .. Len(qHead) + 1 : Insert(qHead, i, lri)[k] = i
          /\ \A j \in 1 .. Len(qHead) :
                \E k \in 1 .. Len(qHead) + 1 : Insert(qHead, i, lri)[k] = qHead[j]
          /\ \A k \in 1 .. Len(qHead) + 1 : \/ Insert(qHead, i, lri)[k] = i
                 \/ \E j \in 1 .. Len(qHead) : Insert(qHead, i, lri)[k] = qHead[j]
      BY <1>1, <3>1, InsertFacts
    <3>3. qHead' = Insert(qHead, i, lri) /\ lri = currentLRI'
      BY <2>1 DEF lri
    <3> QED BY <1>1, <3>2, <3>3, SMTT(20) DEF InOrder
  <2>5. \A s \in Streams : Queued(s)' <=> Queued(s) \/ s = i
    BY <2>4 DEF Queued
  <2>6. Types'
    BY <1>1, <1>4, <1>7, <2>1, <2>4, Constants, SMTT(30) DEF IInv, Types, Pcs, Rcs
  <2>7. Queue'
    <3>1. \A k \in 1 .. Len(qHead') : /\ numLogRecordsRemaining'[qHead'[k]] > 0
                                      /\ qHead'[k] # lastReadFromQElem'
      <4> TAKE k \in 1 .. Len(qHead')
      <4>1. CASE qHead'[k] = i
        BY <1>1, <1>2, <1>4, <1>12, <4>1
      <4>2. CASE qHead'[k] # i
        <5>1. PICK j \in 1 .. Len(qHead) : qHead'[k] = qHead[j]
          BY <2>4, <4>2
        <5>2. qHead[j] \in Streams \ {i} /\ numLogRecordsRemaining'[qHead[j]] > 0
          BY <1>4, <1>9
        <5> QED BY <1>1, <5>1, <5>2, Constants
      <4> QED BY <4>1, <4>2
    <3> QED BY <2>4, <3>1 DEF Queue
  <2>8. Start'
    BY <1>1, <1>4, <1>5, <2>1, Constants DEF IInv, Start, Starting
  <2>9. Live'
    <3> SUFFICES ASSUME NEW s \in Streams, s < i'
                 PROVE  \/ numLogRecordsRemaining'[s] > 0 /\ Queued(s)'
                        \/ numLogRecordsRemaining'[s] = 0 /\ position'[s] = Len(log'[s])
      BY <2>1 DEF Live, Starting
    <3>1. CASE s = i
      BY <1>4, <1>12, <2>5, <3>1
    <3>2. CASE s # i
      <4>1. s < i
        BY <1>1, <2>1, <3>2, Constants
      <4> QED BY <1>1, <1>4, <2>5, <3>2, <4>1, Constants DEF IInv, Live, Starting
    <3> QED BY <3>1, <3>2
  <2>10. Open'
    BY <1>1, <1>2, <2>1, <2>5, Constants DEF IInv, Open
  <2>11. Shown'
    BY <1>1, <1>5, <2>1 DEF IInv, Shown, Pending
  <2>12. Ended'
    BY <1>1, <2>1 DEF Ended
  <2> QED BY <1>6, <1>8, <2>6, <2>7, <2>8, <2>9, <2>10, <2>11, <2>12 DEF IInv
<1> QED BY <1>3, <1>11, <1>12, Constants

\* The merge starts, or ends at once if no stream has a record.
LEMMA AllReadStep ==
  ASSUME IInv, AllRead
  PROVE  IInv'
<1>1. /\ pc = "init" /\ i = Paths /\ rc = "0" /\ displayed = {} /\ lastReadFromQElem = NULL
      /\ lastReadLri = <<0, 0>> /\ qHead \in Seq(Streams) /\ log \in LogSets
      /\ UNCHANGED <<log, streamVars, needTermReadLog, queueVars, i, displayed>>
  BY DEF AllRead, IInv, Types, Start, Starting, Ended
<1>2. \/ pc' = "next" /\ rc' = rc
      \/ pc' = "done" /\ rc' = "READLOG_ERR_READ_TO_CUR" /\ qHead = <<>>
  BY DEF AllRead, Goto, Return
<1>3. Types'
  BY <1>1, <1>2, TypesKept DEF IInv, Pcs, Rcs
<1>4. Buffers' /\ Queue' /\ Start'
  BY <1>1, <1>2 DEF IInv, Buffers, Queue, InOrder, Start, Starting, streamVars, queueVars
<1>5. \A s \in Streams : Taken(s)' = Taken(s) /\ Queued(s)' = Queued(s) /\ s < i
  BY <1>1, Constants DEF Taken, Queued, streamVars, queueVars
<1>6. Live' /\ Open' /\ Shown'
  BY <1>1, <1>2, <1>5 DEF IInv, Live, Open, Shown, Pending, Starting, streamVars, queueVars
<1>7. Sequence'
  <2>1. \A k \in 1 .. Len(qHead) : Precedes(lastReadLri, currentLRI[qHead[k]])
    <3> TAKE k \in 1 .. Len(qHead)
    <3>1. qHead[k] \in Streams /\ numLogRecordsRemaining[qHead[k]] > 0
      BY <1>1 DEF IInv, Queue
    <3> QED BY <1>1, <3>1, NextRecord, Constants
  <2> QED BY <1>1, <1>2, <2>1, Constants DEF Sequence, Merging, streamVars, queueVars
<1>8. Ended'
  <2>1. CASE pc' = "next"
    BY <1>1, <1>2, <2>1 DEF Ended
  <2>2. CASE pc' = "done"
    <3>1. \A s \in Streams : ~Queued(s) /\ s # lastReadFromQElem
      BY <1>1, <1>2, <2>2, Constants DEF Queued
    <3>2. needTermReadLog = {}
      BY <1>1, <3>1 DEF IInv, Types, Open
    <3>3. \A s \in Streams : Len(log[s]) = 0
      <4> TAKE s \in Streams
      <4>1. numLogRecordsRemaining[s] = 0 /\ position[s] = Len(log[s])
        BY <1>1, <1>5, <3>1 DEF IInv, Live, Starting
      <4>2. numLogRecordsRemaining[s] = position[s]
        BY <1>1, StartFacts DEF Starting
      <4> QED BY <4>1, <4>2
    <3>4. Records = {}
      BY <3>3 DEF Records
    <3>5. Records' = Records
      BY <1>1 DEF Records
    <3> QED BY <1>1, <1>2, <2>2, <3>2, <3>4, <3>5 DEF Ended
  <2> QED BY <1>2, <2>1, <2>2
<1> QED BY <1>3, <1>4, <1>6, <1>7, <1>8 DEF IInv

\* The merge stays on a stream whose next record is the least one.
LEMMA ReadOnStep ==
  ASSUME IInv, ReadOn
  PROVE  IInv'
<1> DEFINE s == lastReadFromQElem
<1>1. /\ pc = "next" /\ pc' = "get" /\ rc' = rc /\ s \in Streams /\ log \in LogSets
      /\ (currentLRI[s][1] - lastReadLri[1]) % Modulus < 2
      /\ UNCHANGED <<log, streamVars, needTermReadLog, queueVars, i, displayed>>
  BY DEF ReadOn, ableToReadFromSameLogStream, Goto, IInv, Types
<1>2. /\ Taken(s) > 0 /\ lastReadLri = log[s][Taken(s)] /\ s # NULL
      /\ IF numLogRecordsRemaining[s] > 0 THEN Precedes(lastReadLri, currentLRI[s])
                                          ELSE currentLRI[s] = EndLRI
      /\ \A k \in 1 .. Len(qHead) : Precedes(lastReadLri, currentLRI[qHead[k]])
  BY <1>1, Constants DEF IInv, Sequence, Merging
<1>3. Taken(s) \in 1 .. Len(log[s]) /\ Len(log[s]) \in Nat
  <2>1. /\ position[s] \in Nat /\ numLogRecordsRemaining[s] \in Nat
        /\ position[s] <= Len(log[s]) /\ Len(log[s]) \in Nat
    BY <1>1, LogFacts, Constants DEF IInv, Types, Buffers
  <2> QED BY <1>2, <2>1 DEF Taken
<1>4. lastReadLri \in LRIs
  BY <1>1, <1>2, <1>3, LogFacts
<1>5. lastReadLri[1] \in 1 .. Modulus - 3
  BY <1>4, Constants DEF LRIs
<1>6. numLogRecordsRemaining[s] > 0
  <2> SUFFICES ASSUME ~(numLogRecordsRemaining[s] > 0) PROVE FALSE
    OBVIOUS
  <2>1. currentLRI[s][1] = Modulus - 1
    BY <1>2 DEF EndLRI
  <2>2. currentLRI[s][1] - lastReadLri[1] \in 2 .. Modulus - 1
    BY <1>5, <2>1, Constants
  <2>3. (currentLRI[s][1] - lastReadLri[1]) % Modulus = currentLRI[s][1] - lastReadLri[1]
    BY <2>2, SmallMod, Constants
  <2> QED BY <1>1, <2>2, <2>3
<1>7. /\ currentLRI[s] \in LRIs /\ currentLRI[s] = log[s][Taken(s) + 1]
      /\ Taken(s) + 1 \in 1 .. Len(log[s])
  BY <1>1, <1>6, NextRecord
<1>8. currentLRI[s][1] \in {lastReadLri[1], lastReadLri[1] + 1}
  <2>1. currentLRI[s][1] \in 1 .. Modulus - 3
    BY <1>7, Constants DEF LRIs
  <2>2. lastReadLri[1] <= currentLRI[s][1]
    BY <1>2, <1>5, <1>6, <2>1 DEF Precedes
  <2>3. currentLRI[s][1] - lastReadLri[1] \in 0 .. Modulus - 1
    BY <1>5, <2>1, <2>2, Constants
  <2>4. (currentLRI[s][1] - lastReadLri[1]) % Modulus = currentLRI[s][1] - lastReadLri[1]
    BY <2>3, SmallMod, Constants
  <2> QED BY <1>1, <1>5, <2>1, <2>3, <2>4
<1>9. \A k \in 1 .. Len(qHead) : Precedes(currentLRI[s], currentLRI[qHead[k]])
  <2> TAKE k \in 1 .. Len(qHead)
  <2> DEFINE t == qHead[k]
  <2>1. t \in Streams /\ t # s /\ numLogRecordsRemaining[t] > 0
    BY DEF IInv, Types, Queue
  <2>2. /\ currentLRI[t] \in LRIs /\ currentLRI[t] = log[t][Taken(t) + 1]
        /\ Taken(t) + 1 \in 1 .. Len(log[t])
    BY <2>1, NextRecord
  <2>3. currentLRI[t][1] # lastReadLri[1] /\ currentLRI[t][1] # currentLRI[s][1]
    BY <1>1, <1>2, <1>3, <1>7, <2>1, <2>2, LogFacts
  <2>4. currentLRI[t][1] \in Nat /\ lastReadLri[1] \in Nat
    BY <1>5, <2>2, Constants DEF LRIs
  <2>5. lastReadLri[1] < currentLRI[t][1]
    BY <1>2, <2>3 DEF Precedes
  <2>6. currentLRI[s][1] < currentLRI[t][1]
    BY <1>8, <2>3, <2>4, <2>5
  <2> QED BY <2>6 DEF Precedes
<1>10. Types'
  BY <1>1, TypesKept DEF IInv, Types, Pcs
<1>11. Buffers' /\ Queue' /\ Start'
  BY <1>1 DEF IInv, Buffers, Queue, InOrder, Start, Starting, streamVars, queueVars
<1>12. \A u \in Streams : Taken(u)' = Taken(u) /\ Queued(u)' = Queued(u)
  BY <1>1 DEF Taken, Queued, streamVars, queueVars
<1>13. Live' /\ Open' /\ Shown'
  BY <1>1, <1>12 DEF IInv, Live, Open, Shown, Pending, Starting, streamVars, queueVars
<1>14. Sequence'
  BY <1>1, <1>2, <1>6, <1>9 DEF Sequence, Merging, streamVars, queueVars
<1>15. Ended'
  BY <1>1 DEF IInv, Ended
<1> QED BY <1>10, <1>11, <1>13, <1>14, <1>15 DEF IInv

\* The queue with the stream just read holds every stream that has records left.
LEMMA RequeuedFacts ==
  ASSUME IInv, pc = "next"
  PROVE  /\ Requeued \in Seq(Streams) /\ InOrder(Requeued, currentLRI)
         /\ \A k \in 1 .. Len(Requeued) :
               /\ numLogRecordsRemaining[Requeued[k]] > 0
               /\ Precedes(lastReadLri, currentLRI[Requeued[k]])
         /\ \A t \in Streams : numLogRecordsRemaining[t] > 0 =>
               \E k \in 1 .. Len(Requeued) : Requeued[k] = t
<1> DEFINE s == lastReadFromQElem
<1>1. /\ qHead \in Seq(Streams) /\ log \in LogSets /\ s \in Streams \cup {NULL}
      /\ InOrder(qHead, currentLRI) /\ currentLRI \in [Streams -> Pairs]
      /\ \A t \in Streams : numLogRecordsRemaining[t] \in Nat
  <2>1. /\ currentLRI \in [Streams -> LRIs \cup {<<0, 0>>, EndLRI}]
        /\ LRIs \cup {<<0, 0>>, EndLRI} \subseteq Pairs
    BY Constants DEF IInv, Types
  <2>2. currentLRI \in [Streams -> Pairs]
    BY <2>1
  <2> QED BY <2>2, Constants DEF IInv, Types, Queue
<1>2. \A k \in 1 .. Len(qHead) :
         /\ qHead[k] \in Streams /\ qHead[k] # s /\ numLogRecordsRemaining[qHead[k]] > 0
         /\ Precedes(lastReadLri, currentLRI[qHead[k]])
  BY <1>1 DEF IInv, Queue, Sequence, Merging
<1>3. \A t \in Streams : numLogRecordsRemaining[t] > 0 => Queued(t) \/ t = s
  BY DEF IInv, Live, Starting
<1>4. CASE s # NULL /\ HasMore(s)
  <2>1. /\ s \in Streams /\ numLogRecordsRemaining[s] > 0
        /\ Precedes(lastReadLri, currentLRI[s]) /\ Requeued = Insert(qHead, s, currentLRI)
    BY <1>1, <1>4 DEF HasMore, Requeued, IInv, Sequence, Merging
  <2>2. \A k \in 1 .. Len(qHead) : currentLRI[qHead[k]] # currentLRI[s]
    <3> TAKE k \in 1 .. Len(qHead)
    <3>1. /\ Taken(qHead[k]) + 1 \in 1 .. Len(log[qHead[k]])
          /\ currentLRI[qHead[k]] = log[qHead[k]][Taken(qHead[k]) + 1]
          /\ Taken(s) + 1 \in 1 .. Len(log[s]) /\ currentLRI[s] = log[s][Taken(s) + 1]
      BY <1>2, <2>1, NextRecord
    <3>2. log[qHead[k]][Taken(qHead[k]) + 1] # log[s][Taken(s) + 1]
      BY <1>1, <1>2, <2>1, <3>1, RecordsDiffer
    <3> QED BY <3>1, <3>2
  <2>3. /\ Requeued \in Seq(Streams) /\ Len(Requeued) = Len(qHead) + 1
        /\ InOrder(Requeued, currentLRI)
        /\ \E k \in 1 .. Len(qHead) + 1 : Requeued[k] = s
        /\ \A j \in 1 .. Len(qHead) : \E k \in 1 .. Len(qHead) + 1 : Requeued[k] = qHead[j]
        /\ \A k \in 1 .. Len(qHead) + 1 : \/ Requeued[k] = s
                                          \/ \E j \in 1 .. Len(qHead) : Requeued[k] = qHead[j]
    BY <1>1, <2>1, <2>2, InsertFacts, SMTT(30)
  <2>4. \A t \in Streams : Queued(t) => \E k \in 1 .. Len(Requeued) : Requeued[k] = t
    BY <2>3 DEF Queued
  <2>5. \A k \in 1 .. Len(Requeued) : /\ numLogRecordsRemaining[Requeued[k]] > 0
                                      /\ Precedes(lastReadLri, currentLRI[Requeued[k]])
    BY <1>2, <2>1, <2>3, SMTT(30)
  <2> QED BY <1>3, <2>3, <2>4, <2>5
<1>5. CASE ~(s # NULL /\ HasMore(s))
  <2>1. Requeued = qHead
    BY <1>5 DEF Requeued
  <2>2. \A t \in Streams : numLogRecordsRemaining[t] > 0 => t # s
    BY <1>5, Constants DEF HasMore
  <2> QED BY <1>1, <1>2, <1>3, <2>1, <2>2 DEF Queued
<1> QED BY <1>4, <1>5

\* The stream with the least next record leaves the queue, or the merge ends.
LEMMA SwitchStep ==
  ASSUME IInv, Switch
  PROVE  IInv'
<1>1. /\ pc = "next" /\ rc = "0" /\ log \in LogSets
      /\ lastReadFromQElem \in Streams \cup {NULL}
      /\ UNCHANGED <<log, streamVars, lastReadLri, prevLastReadLri, i, displayed>>
  BY DEF Switch, IInv, Types, Ended
<1>2. /\ Requeued \in Seq(Streams) /\ InOrder(Requeued, currentLRI)
      /\ \A k \in 1 .. Len(Requeued) :
            /\ numLogRecordsRemaining[Requeued[k]] > 0
            /\ Precedes(lastReadLri, currentLRI[Requeued[k]])
      /\ \A t \in Streams : numLogRecordsRemaining[t] > 0 =>
            \E k \in 1 .. Len(Requeued) : Requeued[k] = t
  BY <1>1, RequeuedFacts
<1>3. \A t \in Streams : t \in needTermReadLog' <=> numLogRecordsRemaining[t] > 0
  <2> TAKE t \in Streams
  <2>1. t \in needTermReadLog <=> Queued(t) \/ t = lastReadFromQElem
    BY <1>1 DEF IInv, Open
  <2>2. t \in needTermReadLog' <=>
           t \in needTermReadLog /\ ~(t = lastReadFromQElem /\ ~HasMore(t))
    BY <1>1, Constants DEF Switch
  <2>3. Queued(t) => numLogRecordsRemaining[t] > 0
    BY DEF IInv, Queue, Queued
  <2>4. numLogRecordsRemaining[t] > 0 => Queued(t) \/ t = lastReadFromQElem
    BY <1>1 DEF IInv, Live, Starting
  <2> QED BY <2>1, <2>2, <2>3, <2>4 DEF HasMore
<1>4. \A t \in Streams : numLogRecordsRemaining[t] \in Nat /\ position[t] \in Nat
  BY Constants DEF IInv, Types
<1>5. Records' = Records /\ needTermReadLog' \subseteq Streams
  BY <1>1 DEF Records, Switch, IInv, Types
<1>6. Buffers'
  BY <1>1 DEF IInv, Buffers, streamVars
<1>7. \A t \in Streams : Taken(t)' = Taken(t)
  BY <1>1 DEF Taken, streamVars
<1>8. CASE Requeued = <<>>
  <2>1. /\ lastReadFromQElem' = NULL /\ qHead' = <<>> /\ pc' = "done"
        /\ rc' = "READLOG_ERR_READ_TO_CUR"
    BY <1>8 DEF Switch, Return
  <2>2. Types'
    BY <1>1, <1>5, <2>1 DEF IInv, Types, Pcs, Rcs, streamVars
  <2>3. Queue' /\ Start' /\ Live' /\ Open' /\ Shown' /\ Sequence'
    BY <2>1 DEF Queue, InOrder, Start, Starting, Live, Open, Shown, Sequence, Merging
  <2>4. \A t \in Streams : numLogRecordsRemaining[t] = 0
    <3>1. Len(Requeued) = 0
      BY <1>8
    <3> QED BY <1>2, <1>4, <3>1
  <2>5. \A t \in Streams : Taken(t) = Len(log[t])
    <3> TAKE t \in Streams
    <3>1. position[t] = Len(log[t])
      BY <1>1, <2>4 DEF IInv, Live, Starting
    <3> QED BY <1>4, <2>4, <3>1 DEF Taken
  <2>6. displayed = Records
    <3>1. \A t \in Streams : \A k \in 1 .. Len(log[t]) : log[t][k] \in displayed
      BY <1>1, <2>5, LogFacts DEF IInv, Shown, Pending
    <3>2. Records \subseteq displayed
      BY <3>1 DEF Records
    <3>3. displayed \subseteq Records
      BY DEF IInv, Types
    <3> QED BY <3>2, <3>3
  <2>7. Ended'
    BY <1>1, <1>3, <1>5, <2>1, <2>4, <2>6 DEF Ended
  <2> QED BY <1>6, <2>2, <2>3, <2>7 DEF IInv
<1>9. CASE Requeued # <<>>
  <2>1. /\ lastReadFromQElem' = Requeued[1] /\ qHead' = Tail(Requeued) /\ pc' = "get"
        /\ rc' = rc
    BY <1>9 DEF Switch, Rest, Goto
  <2>2. /\ Len(Requeued) \in Nat /\ Len(Requeued) > 0 /\ Requeued[1] \in Streams
        /\ qHead' \in Seq(Streams) /\ Len(qHead') = Len(Requeued) - 1
        /\ \A k \in 1 .. Len(qHead') : qHead'[k] = Requeued[k + 1]
    BY <1>2, <1>9, <2>1
  <2>3. Types'
    BY <1>1, <1>5, <2>1, <2>2 DEF IInv, Types, Pcs, streamVars
  <2>4. \A k \in 1 .. Len(qHead') : /\ k + 1 \in 1 .. Len(Requeued) /\ 1 \in 1 .. Len(Requeued)
                                    /\ 1 < k + 1
    BY <2>2
  <2>5. \A k \in 1 .. Len(qHead') : Precedes(currentLRI[Requeued[1]], currentLRI[qHead'[k]])
    BY <1>2, <2>2, <2>4 DEF InOrder
  <2>6. \A k \in 1 .. Len(qHead') : qHead'[k] # Requeued[1]
    <3> TAKE k \in 1 .. Len(qHead')
    <3>1. currentLRI[Requeued[1]] \in Pairs
      BY <2>2, Constants DEF IInv, Types
    <3> QED BY <2>5, <3>1, Order
  <2>7. Queue'
    <3>1. InOrder(qHead', currentLRI)
      <4> SUFFICES ASSUME NEW j \in 1 .. Len(qHead'), NEW k \in 1 .. Len(qHead'), j < k
                   PROVE  Precedes(currentLRI[qHead'[j]], currentLRI[qHead'[k]])
        BY DEF InOrder
      <4>1. j + 1 \in 1 .. Len(Requeued) /\ k + 1 \in 1 .. Len(Requeued) /\ j + 1 < k + 1
        BY <2>2
      <4> QED BY <1>2, <2>2, <4>1 DEF InOrder
    <3>2. \A k \in 1 .. Len(qHead') : /\ numLogRecordsRemaining[qHead'[k]] > 0
                                      /\ qHead'[k] # lastReadFromQElem'
      BY <1>2, <2>1, <2>2, <2>4, <2>6
    <3> QED BY <1>1, <3>1, <3>2 DEF Queue, InOrder, streamVars
  <2>8. \A t \in Streams : Queued(t)' \/ t = lastReadFromQElem' <=> numLogRecordsRemaining[t] > 0
    <3> TAKE t \in Streams
    <3>1. Queued(t)' \/ t = lastReadFromQElem' => numLogRecordsRemaining[t] > 0
      BY <1>2, <2>1, <2>2, <2>4 DEF Queued
    <3>2. ASSUME numLogRecordsRemaining[t] > 0
          PROVE  Queued(t)' \/ t = lastReadFromQElem'
      <4>1. PICK k \in 1 .. Len(Requeued) : Requeued[k] = t
        BY <1>2, <3>2
      <4>2. CASE k = 1
        BY <2>1, <4>1, <4>2
      <4>3. CASE k > 1
        <5>1. k - 1 \in 1 .. Len(qHead') /\ qHead'[k - 1] = t
          BY <2>2, <4>1, <4>3
        <5> QED BY <5>1 DEF Queued
      <4> QED BY <2>2, <4>2, <4>3
    <3> QED BY <3>1, <3>2
  <2>9. Start' /\ Ended'
    BY <1>1, <2>1 DEF Start, Starting, Ended
  <2>10. Live'
    BY <1>1, <1>4, <2>1, <2>8 DEF IInv, Live, Starting, streamVars
  <2>11. Open'
    BY <1>3, <2>1, <2>8 DEF Open
  <2>12. Shown'
    BY <1>1, <1>7, <2>1 DEF IInv, Shown, Pending
  <2>13. Sequence'
    <3>1. numLogRecordsRemaining[Requeued[1]] > 0 /\ Precedes(lastReadLri, currentLRI[Requeued[1]])
      BY <1>2, <2>2
    <3>2. \A k \in 1 .. Len(qHead') : Precedes(lastReadLri, currentLRI[qHead'[k]])
      BY <1>2, <2>2, <2>4
    <3> QED BY <1>1, <2>1, <2>2, <2>5, <3>1, <3>2, Constants DEF Sequence, streamVars
  <2> QED BY <1>6, <2>3, <2>7, <2>9, <2>10, <2>11, <2>12, <2>13 DEF IInv
<1> QED BY <1>8, <1>9

\* A record leaves the buffer of the stream that is read, which is filled again
\* after its last record.
LEMMA GetStep ==
  ASSUME IInv, getNextLogRecordFromLogStream
  PROVE  IInv'
<1> DEFINE s == lastReadFromQElem
<1>1. /\ pc = "get" /\ rc = "0" /\ log \in LogSets /\ s \in Streams /\ s # NULL
      /\ numLogRecordsRemaining[s] > 0 /\ numLogRecordsRemaining[s] \in 0 .. BufferSize
      /\ position[s] \in Nat /\ Len(log[s]) \in Nat
      /\ UNCHANGED <<log, needTermReadLog, qHead, lastReadFromQElem, i, displayed>>
  BY Constants, LogFacts DEF getNextLogRecordFromLogStream, IInv, Types, Sequence, Merging, Ended
<1> DEFINE remaining == [numLogRecordsRemaining EXCEPT ![s] = @ - 1]
<1>2. /\ remaining \in [Streams -> 0 .. BufferSize] /\ remaining[s] = numLogRecordsRemaining[s] - 1
      /\ \A t \in Streams \ {s} : remaining[t] = numLogRecordsRemaining[t]
  <2>1. numLogRecordsRemaining[s] - 1 \in 0 .. BufferSize
    BY <1>1, Constants
  <2> QED BY <1>1, <2>1 DEF IInv, Types
<1>3. /\ Taken(s) \in Nat /\ Taken(s) + 1 \in 1 .. Len(log[s])
      /\ currentLRI[s] = log[s][Taken(s) + 1] /\ currentLRI[s] \in LRIs
      /\ curLogBuffPtr[s] = Taken(s) + 1
      /\ position[s] <= Len(log[s]) /\ Taken(s) = position[s] - numLogRecordsRemaining[s]
  <2>1. curLogBuffPtr[s] = position[s] - numLogRecordsRemaining[s] + 1 /\ position[s] <= Len(log[s])
    BY <1>1 DEF IInv, Buffers
  <2> QED BY <1>1, <2>1, NextRecord, Constants DEF Taken
<1>4. prevLastReadLri' = lastReadLri /\ lastReadLri' = currentLRI[s]
  BY <1>3 DEF getNextLogRecordFromLogStream
<1> DEFINE Refilled == /\ remaining[s] <= 0 /\ sqlcode[s] # "SQLU_RLOG_READ_TO_CURRENT"
                       /\ \E n \in 0 .. BufferSize, code \in Sqlcodes :
                             /\ readTheLog(s, n, code, remaining)
                             /\ IF code = "error" THEN Return("READLOG_ERR_READ_ERROR")
                                ELSE Goto("check")
           LastOne == /\ remaining[s] <= 0 /\ sqlcode[s] = "SQLU_RLOG_READ_TO_CURRENT"
                      /\ numLogRecordsRemaining' = remaining
                      /\ curLogBuffPtr' = [curLogBuffPtr EXCEPT ![s] = NULL]
                      /\ currentLRI' = [currentLRI EXCEPT ![s] = EndLRI]
                      /\ Goto("check")
                      /\ UNCHANGED <<position, sqlcode>>
           Buffered == /\ remaining[s] > 0
                       /\ numLogRecordsRemaining' = remaining
                       /\ curLogBuffPtr' = [curLogBuffPtr EXCEPT ![s] = @ + 1]
                       /\ currentLRI' = [currentLRI EXCEPT ![s] = log[s][curLogBuffPtr[s] + 1]]
                       /\ Goto("check")
                       /\ UNCHANGED <<position, sqlcode>>
<1>5. Buffered \/ LastOne \/ Refilled
  BY DEF getNextLogRecordFromLogStream
<1> DEFINE StreamTypes == /\ position' \in [Streams -> Nat] /\ sqlcode' \in [Streams -> Sqlcodes]
                          /\ curLogBuffPtr' \in [Streams -> Nat \cup {NULL}]
                          /\ numLogRecordsRemaining' \in [Streams -> 0 .. BufferSize]
                          /\ currentLRI' \in [Streams -> LRIs \cup {<<0, 0>>, EndLRI}]
           Others == \A t \in Streams \ {s} :
                        /\ position'[t] = position[t] /\ sqlcode'[t] = sqlcode[t]
                        /\ curLogBuffPtr'[t] = curLogBuffPtr[t]
                        /\ currentLRI'[t] = currentLRI[t]
                        /\ numLogRecordsRemaining'[t] = numLogRecordsRemaining[t]
           Own == /\ position'[s] <= Len(log[s]) /\ numLogRecordsRemaining'[s] <= position'[s]
                  /\ position'[s] - numLogRecordsRemaining'[s] = Taken(s) + 1
                  /\ numLogRecordsRemaining'[s] > 0 =>
                        /\ curLogBuffPtr'[s] = Taken(s) + 2
                        /\ currentLRI'[s] = log[s][Taken(s) + 2]
                  /\ sqlcode'[s] = "SQLU_RLOG_READ_TO_CURRENT" => position'[s] = Len(log[s])
           Goes == \/ pc' = "done" /\ rc' = "READLOG_ERR_READ_ERROR"
                   \/ /\ pc' = "check" /\ rc' = rc
                      /\ numLogRecordsRemaining'[s] = 0 =>
                            position'[s] = Len(log[s]) /\ currentLRI'[s] = EndLRI
<1>6. StreamTypes /\ Others /\ Own /\ Goes
  <2>1. /\ position \in [Streams -> Nat] /\ sqlcode \in [Streams -> Sqlcodes]
        /\ curLogBuffPtr \in [Streams -> Nat \cup {NULL}]
        /\ currentLRI \in [Streams -> LRIs \cup {<<0, 0>>, EndLRI}]
        /\ sqlcode[s] = "SQLU_RLOG_READ_TO_CURRENT" => position[s] = Len(log[s])
    BY <1>1 DEF IInv, Types, Buffers
  <2>2. CASE Buffered
    <3>1. /\ position' = position /\ sqlcode' = sqlcode /\ pc' = "check" /\ rc' = rc
          /\ numLogRecordsRemaining' = remaining /\ remaining[s] > 0
          /\ curLogBuffPtr' = [curLogBuffPtr EXCEPT ![s] = Taken(s) + 2]
          /\ currentLRI' = [currentLRI EXCEPT ![s] = log[s][Taken(s) + 2]]
      <4>1. curLogBuffPtr[s] + 1 = Taken(s) + 2
        BY <1>3
      <4> QED BY <2>2, <4>1 DEF Goto
    <3>2. Taken(s) + 2 \in Nat /\ Taken(s) + 2 > 0 /\ Taken(s) + 2 <= Len(log[s])
      BY <1>1, <1>2, <1>3, <3>1, SMTT(30)
    <3>3. log[s][Taken(s) + 2] \in LRIs
      BY <1>1, <3>2, LogFacts
    <3>4. position[s] - remaining[s] = Taken(s) + 1 /\ remaining[s] <= position[s]
      BY <1>1, <1>2, <1>3
    <3> HIDE DEF remaining
    <3>5. StreamTypes
      BY <1>1, <1>2, <2>1, <3>1, <3>2, <3>3
    <3>6. Others
      BY <1>2, <2>1, <3>1
    <3>7. Own /\ Goes
      BY <1>1, <1>3, <2>1, <3>1, <3>4
    <3> QED BY <3>5, <3>6, <3>7
  <2>3. CASE LastOne
    <3>1. /\ position' = position /\ sqlcode' = sqlcode /\ pc' = "check" /\ rc' = rc
          /\ numLogRecordsRemaining' = remaining /\ remaining[s] <= 0
          /\ curLogBuffPtr' = [curLogBuffPtr EXCEPT ![s] = NULL]
          /\ currentLRI' = [currentLRI EXCEPT ![s] = EndLRI]
          /\ position[s] = Len(log[s])
      BY <2>1, <2>3 DEF Goto
    <3>2. remaining[s] = 0 /\ position[s] - remaining[s] = Taken(s) + 1
      BY <1>1, <1>2, <1>3, <3>1
    <3> HIDE DEF remaining
    <3>3. StreamTypes
      BY <1>1, <1>2, <2>1, <3>1
    <3>4. Others
      BY <1>2, <2>1, <3>1
    <3>5. Own /\ Goes
      BY <1>1, <1>3, <2>1, <3>1, <3>2
    <3> QED BY <3>3, <3>4, <3>5
  <2>4. CASE Refilled
    <3>1. PICK n \in 0 .. BufferSize, code \in Sqlcodes :
             /\ readTheLog(s, n, code, remaining)
             /\ IF code = "error" THEN Return("READLOG_ERR_READ_ERROR") ELSE Goto("check")
      BY <2>4
    <3>2. remaining[s] = 0 /\ Taken(s) + 1 = position[s]
      BY <1>1, <1>2, <1>3, <2>4
    <3> HIDE DEF remaining
    <3>3. /\ StreamTypes
          /\ \A t \in Streams \ {s} :
                /\ position'[t] = position[t] /\ sqlcode'[t] = sqlcode[t]
                /\ curLogBuffPtr'[t] = curLogBuffPtr[t] /\ currentLRI'[t] = currentLRI[t]
                /\ numLogRecordsRemaining'[t] = remaining[t]
          /\ position'[s] = position[s] + n /\ position[s] + n <= Len(log[s])
          /\ numLogRecordsRemaining'[s] = n
          /\ n > 0 => /\ code # "error"
                      /\ curLogBuffPtr'[s] = position[s] + 1
                      /\ currentLRI'[s] = log[s][position[s] + 1]
          /\ n = 0 /\ code # "error" => /\ position[s] = Len(log[s])
                                        /\ currentLRI'[s] = EndLRI
          /\ sqlcode'[s] = "SQLU_RLOG_READ_TO_CURRENT" => position'[s] = Len(log[s])
      BY <1>1, <1>2, <3>1, <3>2, ReadTheLogFacts
    <3>4. Others
      BY <1>2, <3>3
    <3>5. n \in Nat /\ position[s] + n - n = position[s] /\ position[s] + 1 = Taken(s) + 2
      BY <1>1, <1>3, <3>2, Constants
    <3>6. Own
      BY <1>1, <3>2, <3>3, <3>5
    <3>7. Goes
      BY <1>1, <3>1, <3>3, <3>5 DEF Return, Goto
    <3> QED BY <3>3, <3>4, <3>6, <3>7
  <2> QED BY <1>5, <2>2, <2>3, <2>4
<1> HIDE DEF remaining, Buffered, LastOne, Refilled
<1>7. Taken(s)' = Taken(s) + 1 /\ \A t \in Streams \ {s} : Taken(t)' = Taken(t)
  BY <1>1, <1>6 DEF Taken
<1>8. Records' = Records /\ \A t \in Streams : Queued(t)' = Queued(t)
  BY <1>1 DEF Records, Queued
<1>9. /\ \A k \in 1 .. Len(qHead) : /\ qHead[k] \in Streams \ {s}
                                    /\ numLogRecordsRemaining[qHead[k]] > 0
                                    /\ Precedes(currentLRI[s], currentLRI[qHead[k]])
      /\ Precedes(lastReadLri, currentLRI[s]) /\ InOrder(qHead, currentLRI)
  BY <1>1 DEF IInv, Types, Queue, Sequence, Merging
<1>10. Types'
  <2>1. pc' \in Pcs /\ rc' \in Rcs
    BY <1>1, <1>6 DEF Pcs, Rcs
  <2> QED BY <1>1, <1>3, <1>4, <1>6, <1>8, <2>1 DEF IInv, Types
<1>11. Buffers'
  <2> SUFFICES ASSUME NEW t \in Streams
               PROVE  /\ position'[t] <= Len(log[t])
                      /\ numLogRecordsRemaining'[t] <= position'[t]
                      /\ numLogRecordsRemaining'[t] > 0 =>
                            /\ curLogBuffPtr'[t] = position'[t] - numLogRecordsRemaining'[t] + 1
                            /\ currentLRI'[t] = log[t][curLogBuffPtr'[t]]
                      /\ sqlcode'[t] = "SQLU_RLOG_READ_TO_CURRENT" => position'[t] = Len(log[t])
    BY <1>1 DEF Buffers
  <2>1. CASE t = s
    <3>1. position'[s] - numLogRecordsRemaining'[s] + 1 = Taken(s) + 2
      BY <1>3, <1>6
    <3> QED BY <1>6, <2>1, <3>1
  <2>2. CASE t # s
    BY <1>6, <2>2 DEF IInv, Buffers
  <2> QED BY <2>1, <2>2
<1>12. Queue'
  <2>1. \A k \in 1 .. Len(qHead) :
           /\ currentLRI'[qHead[k]] = currentLRI[qHead[k]]
           /\ numLogRecordsRemaining'[qHead[k]] = numLogRecordsRemaining[qHead[k]]
    BY <1>6, <1>9
  <2>2. InOrder(qHead, currentLRI')
    BY <1>9, <2>1 DEF InOrder
  <2> QED BY <1>1, <1>9, <2>1, <2>2 DEF Queue, InOrder
<1>13. Start'
  BY <1>6 DEF Start, Starting
<1>14. Live'
  <2> SUFFICES ASSUME pc' = "check", NEW t \in Streams
               PROVE  \/ numLogRecordsRemaining'[t] > 0 /\ (Queued(t)' \/ t = lastReadFromQElem')
                      \/ numLogRecordsRemaining'[t] = 0 /\ position'[t] = Len(log'[t])
    BY <1>6 DEF Live
  <2>1. CASE t = s
    <3>1. numLogRecordsRemaining'[s] \in Nat
      BY <1>1, <1>6, Constants
    <3> QED BY <1>1, <1>6, <2>1, <3>1
  <2>2. CASE t # s
    BY <1>1, <1>6, <1>8, <2>2 DEF IInv, Live, Starting
  <2> QED BY <2>1, <2>2
<1>15. Open'
  BY <1>1, <1>6, <1>8 DEF IInv, Open
<1>16. Shown'
  <2> SUFFICES ASSUME pc' = "check", NEW t \in Streams, NEW k \in 1 .. Len(log[t])
               PROVE  log[t][k] \in displayed <=> k <= Taken(t)' /\ ~(t = s /\ k = Taken(t)')
    BY <1>1, <1>6 DEF Shown, Pending
  <2>1. log[t][k] \in displayed <=> k <= Taken(t)
    BY <1>1 DEF IInv, Shown, Pending
  <2>2. CASE t = s
    <3>1. Taken(s) \in Nat /\ k \in Nat /\ Taken(s)' = Taken(s) + 1
      BY <1>1, <1>3, <1>7, LogFacts
    <3>2. Taken(t) = Taken(s) /\ Taken(t)' = Taken(s)'
      BY <1>1, <2>2 DEF Taken
    <3>3. Taken(t) \in Nat /\ Taken(t)' = Taken(t) + 1
      BY <3>1, <3>2
    <3>4. k <= Taken(t) <=> k <= Taken(t)' /\ ~(k = Taken(t)')
      BY <3>1, <3>3
    <3> QED BY <2>1, <2>2, <3>4
  <2>3. CASE t # s
    <3>1. Taken(t)' = Taken(t)
      BY <1>7, <2>3
    <3> QED BY <2>1, <2>3, <3>1
  <2> QED BY <2>2, <2>3
<1>17. Sequence'
  <2> SUFFICES ASSUME pc' = "check" PROVE Sequence'
    BY <1>6 DEF Sequence, Merging
  <2>1. \A k \in 1 .. Len(qHead') : Precedes(lastReadLri', currentLRI'[qHead'[k]])
    BY <1>1, <1>4, <1>6, <1>9
  <2>2. IF numLogRecordsRemaining'[s] > 0 THEN Precedes(lastReadLri', currentLRI'[s])
                                          ELSE currentLRI'[s] = EndLRI
    <3>1. numLogRecordsRemaining'[s] \in Nat
      BY <1>1, <1>6, Constants
    <3>2. CASE numLogRecordsRemaining'[s] > 0
      <4>1. Taken(s) + 2 \in 1 .. Len(log[s]) /\ Taken(s) + 1 < Taken(s) + 2
        BY <1>1, <1>3, <1>6, <3>1, <3>2, Constants, SMTT(30)
      <4>2. Precedes(log[s][Taken(s) + 1], log[s][Taken(s) + 2])
        BY <1>1, <1>3, <4>1, LogFacts
      <4> QED BY <1>3, <1>4, <1>6, <3>2, <4>2
    <3>3. CASE numLogRecordsRemaining'[s] = 0
      BY <1>6, <3>3
    <3> QED BY <3>1, <3>2, <3>3
  <2>3. Taken(s)' > 0 /\ lastReadLri' = log'[s][Taken(s)']
    BY <1>1, <1>3, <1>4, <1>7
  <2>4. Precedes(prevLastReadLri', lastReadLri')
    BY <1>4, <1>9
  <2> QED BY <1>1, <2>1, <2>2, <2>3, <2>4 DEF Sequence
<1>18. Ended'
  BY <1>1, <1>6 DEF Ended
<1> QED BY <1>10, <1>11, <1>12, <1>13, <1>14, <1>15, <1>16, <1>17, <1>18 DEF IInv

\* The check of the order never fails.
LEMMA CheckStep ==
  ASSUME IInv, Check
  PROVE  IInv'
<1>1. /\ pc = "check" /\ pc' = "display" /\ rc' = rc
      /\ UNCHANGED <<log, streamVars, needTermReadLog, queueVars, i, displayed>>
  BY DEF Check, Goto, IInv, Sequence, Merging
<1>2. Types'
  BY <1>1, TypesKept DEF IInv, Types, Pcs
<1>3. Buffers' /\ Queue' /\ Start'
  BY <1>1 DEF IInv, Buffers, Queue, InOrder, Start, Starting, streamVars, queueVars
<1>4. \A t \in Streams : Taken(t)' = Taken(t) /\ Queued(t)' = Queued(t)
  BY <1>1 DEF Taken, Queued, streamVars, queueVars
<1>5. Live' /\ Open' /\ Shown'
  BY <1>1, <1>4 DEF IInv, Live, Open, Shown, Pending, Starting, streamVars, queueVars
<1>6. Sequence'
  BY <1>1 DEF IInv, Sequence, Merging, Taken, streamVars, queueVars
<1>7. Ended'
  BY <1>1 DEF IInv, Ended
<1> QED BY <1>2, <1>3, <1>5, <1>6, <1>7 DEF IInv

\* The record read last is displayed.
LEMMA DisplayStep ==
  ASSUME IInv, DisplayLogRecord
  PROVE  IInv'
<1> DEFINE s == lastReadFromQElem
<1>1. /\ pc = "display" /\ pc' = "next" /\ rc' = rc /\ s \in Streams /\ log \in LogSets
      /\ displayed' = displayed \cup {lastReadLri}
      /\ Taken(s) > 0 /\ lastReadLri = log[s][Taken(s)] /\ s # NULL
      /\ UNCHANGED <<log, streamVars, needTermReadLog, queueVars, i>>
  BY DEF DisplayLogRecord, Goto, IInv, Types, Sequence, Merging
<1>2. Taken(s) \in 1 .. Len(log[s])
  <2>1. /\ position[s] \in Nat /\ numLogRecordsRemaining[s] \in Nat
        /\ position[s] <= Len(log[s]) /\ Len(log[s]) \in Nat
    BY <1>1, LogFacts, Constants DEF IInv, Types, Buffers
  <2> QED BY <1>1, <2>1 DEF Taken
<1>3. Types'
  <2>1. lastReadLri \in Records
    BY <1>1, <1>2 DEF Records
  <2>2. Records' = Records
    BY <1>1 DEF Records
  <2>3. displayed' \subseteq Records'
    BY <1>1, <2>1, <2>2 DEF IInv, Types
  <2> QED BY <1>1, <2>3 DEF IInv, Types, Pcs, streamVars, queueVars
<1>4. Buffers' /\ Queue' /\ Start'
  BY <1>1 DEF IInv, Buffers, Queue, InOrder, Start, Starting, streamVars, queueVars
<1>5. \A t \in Streams : Taken(t)' = Taken(t) /\ Queued(t)' = Queued(t)
  BY <1>1 DEF Taken, Queued, streamVars, queueVars
<1>6. Live' /\ Open'
  BY <1>1, <1>5 DEF IInv, Live, Open, Starting, streamVars, queueVars
<1>7. Shown'
  <2> SUFFICES ASSUME NEW t \in Streams, NEW k \in 1 .. Len(log[t])
               PROVE  log[t][k] \in displayed' <=> k <= Taken(t)
    BY <1>1, <1>5 DEF Shown, Pending
  <2>1. log[t][k] \in displayed <=> k <= Taken(t) /\ ~(t = s /\ k = Taken(t))
    BY <1>1 DEF IInv, Shown, Pending
  <2>2. log[t][k] = lastReadLri => t = s /\ k = Taken(s)
    BY <1>1, <1>2, RecordsDiffer
  <2>3. Taken(s) <= Taken(s)
    BY <1>2
  <2> QED BY <1>1, <2>1, <2>2, <2>3
<1>8. Sequence'
  BY <1>1 DEF IInv, Sequence, Merging, Taken, streamVars, queueVars
<1>9. Ended'
  BY <1>1 DEF IInv, Ended
<1> QED BY <1>3, <1>4, <1>6, <1>7, <1>8, <1>9 DEF IInv

\* Every step of the program keeps the invariant.
LEMMA Inductive == IInv /\ [Next]_vars => IInv'
<1> SUFFICES ASSUME IInv, [Next]_vars PROVE IInv'
  OBVIOUS
<1>1. CASE UNCHANGED vars
  <2>1. UNCHANGED <<log, streamVars, needTermReadLog, queueVars, i, pc, rc, displayed>>
    BY <1>1 DEF vars
  <2>2. Types'
    BY <2>1, TypesKept DEF IInv, Types
  <2>3. Buffers' /\ Queue'
    BY <2>1 DEF IInv, Buffers, Queue, InOrder, streamVars, queueVars
  <2>4. \A t \in Streams : Taken(t)' = Taken(t) /\ Queued(t)' = Queued(t)
    BY <2>1 DEF Taken, Queued, streamVars, queueVars
  <2>5. Start'
    BY <2>1, <2>4 DEF IInv, Start, streamVars, queueVars
  <2>6. Live' /\ Open'
    BY <2>1, <2>4 DEF IInv, Live, Open, Starting, streamVars, queueVars
  <2>7. Shown'
    BY <2>1, <2>4 DEF IInv, Shown, Pending, Starting, streamVars, queueVars
  <2>8. Sequence'
    BY <2>1 DEF IInv, Sequence, Merging, Taken, streamVars, queueVars
  <2>9. Ended'
    BY <2>1 DEF IInv, Ended, Records
  <2> QED BY <2>2, <2>3, <2>5, <2>6, <2>7, <2>8, <2>9 DEF IInv
<1> QED BY <1>1, OpenPathStep, ReadFirstStep, AllReadStep, ReadOnStep, SwitchStep, GetStep,
           CheckStep, DisplayStep DEF Next, Step, Stop

\* So it holds for ever.
LEMMA Safe == Spec => []IInv
<1> QED BY InitHolds, Inductive, PTL DEF Spec
-----------------------------------------------------------------------------
\* Every variable keeps its type, and no stream is in the queue twice.
THEOREM TypeOKHolds == Spec => []TypeOK
<1>1. ASSUME IInv PROVE TypeOK
  <2>1. \A j, k \in 1 .. Len(qHead) : qHead[j] = qHead[k] => j = k
    <3> SUFFICES ASSUME NEW j \in 1 .. Len(qHead), NEW k \in 1 .. Len(qHead),
                        qHead[j] = qHead[k]
                 PROVE  j = k
      OBVIOUS
    <3>1. Len(qHead) \in Nat /\ qHead[j] \in Streams
      BY <1>1 DEF IInv, Types
    <3>2. currentLRI[qHead[j]] \in Pairs
      BY <1>1, <3>1, Constants DEF IInv, Types
    <3>3. ~(j < k) /\ ~(k < j)
      BY <1>1, <3>2, Order DEF IInv, Queue, InOrder
    <3> QED BY <3>1, <3>3
  <2>2. Records \subseteq LRIs
    BY <1>1, LogFacts DEF IInv, Types, Records
  <2> QED BY <1>1, <2>1, <2>2, LogFacts DEF IInv, Types, TypeOK
<1> QED BY <1>1, Safe, PTL

\* The program never prints that the LRIs are not increasing, however the
\* streams interleave and wherever their buffers end.
THEOREM LRIsIncreaseHolds == Spec => []LRIsIncrease
<1>1. IInv => LRIsIncrease
  BY DEF IInv, Sequence, Merging, LRIsIncrease
<1> QED BY <1>1, Safe, PTL

\* The end of the logs is reported when every record of every stream has been
\* displayed and every stream is terminated.
THEOREM CompleteAtEndHolds == Spec => []CompleteAtEnd
<1>1. IInv => CompleteAtEnd
  BY DEF IInv, Ended, CompleteAtEnd
<1> QED BY <1>1, Safe, PTL

\* Only the display of a record delivers one, and it is the least one left.
LEMMA DisplayDelivers ==
  ASSUME IInv, DisplayLogRecord
  PROVE  Sorted!Deliver
<1> DEFINE s == lastReadFromQElem
<1>1. /\ pc = "display" /\ rc = "0" /\ rc' = rc /\ s \in Streams /\ log \in LogSets
      /\ displayed' = displayed \cup {lastReadLri} /\ log' = log
      /\ Taken(s) > 0 /\ lastReadLri = log[s][Taken(s)] /\ s # NULL
  BY DEF DisplayLogRecord, Goto, IInv, Types, Sequence, Merging, Ended
<1>2. Taken(s) \in 1 .. Len(log[s])
  <2>1. /\ position[s] \in Nat /\ numLogRecordsRemaining[s] \in Nat
        /\ position[s] <= Len(log[s]) /\ Len(log[s]) \in Nat
    BY <1>1, LogFacts, Constants DEF IInv, Types, Buffers
  <2> QED BY <1>1, <2>1 DEF Taken
<1>3. lastReadLri \in Records \ displayed
  BY <1>1, <1>2 DEF IInv, Shown, Pending, Records
<1>4. \A q \in (Records \ displayed) \ {lastReadLri} : Precedes(lastReadLri, q)
  <2> TAKE q \in (Records \ displayed) \ {lastReadLri}
  <2>0. PICK t \in Streams : \E k \in 1 .. Len(log[t]) : q = log[t][k]
    BY DEF Records
  <2>1. PICK k \in 1 .. Len(log[t]) : q = log[t][k]
    BY <2>0
  <2>2. ~(k <= Taken(t))
    <3>1. log[t][k] \in displayed <=> k <= Taken(t) /\ ~(t = s /\ k = Taken(t))
      BY <1>1, <2>1 DEF IInv, Shown, Pending
    <3> QED BY <1>1, <2>1, <3>1
  <2>3. /\ position[t] \in Nat /\ numLogRecordsRemaining[t] \in Nat
        /\ Len(log[t]) \in Nat /\ k \in Nat
    BY <1>1, LogFacts, Constants DEF IInv, Types
  <2>4. /\ numLogRecordsRemaining[t] > 0
        /\ Queued(t) \/ t = s
    BY <1>1, <2>2, <2>3 DEF IInv, Live, Starting, Taken
  <2>5. /\ Taken(t) \in Nat /\ Taken(t) + 1 \in 1 .. Len(log[t])
        /\ currentLRI[t] = log[t][Taken(t) + 1] /\ currentLRI[t] \in LRIs
    BY <2>4, NextRecord
  <2>6. Precedes(lastReadLri, currentLRI[t])
    BY <1>1, <2>4 DEF IInv, Sequence, Merging, Queued
  <2>7. currentLRI[t] = q \/ Precedes(currentLRI[t], q)
    <3>1. k = Taken(t) + 1 \/ Taken(t) + 1 < k
      BY <2>2, <2>3, <2>5
    <3> QED BY <1>1, <2>1, <2>5, <3>1, LogFacts
  <2>8. q \in Pairs /\ lastReadLri \in Pairs /\ currentLRI[t] \in Pairs
    <3>1. \A u \in Streams : \A j \in 1 .. Len(log[u]) : log[u][j] \in LRIs
      BY <1>1, LogFacts
    <3> QED BY <1>1, <1>2, <2>1, <2>5, <3>1, Constants
  <2> QED BY <2>6, <2>7, <2>8, Order
<1>5. Result = "reading" /\ Result' = "reading"
  BY <1>1 DEF Result
<1>6. (Records \ displayed)' = (Records \ displayed) \ {lastReadLri}
  BY <1>1 DEF Records
<1> QED BY <1>3, <1>4, <1>5, <1>6 DEF Sorted!Deliver

\* Every other step leaves the records alone, or ends the sequence.
LEMMA StepRefines ==
  ASSUME IInv, IInv', [Next]_vars
  PROVE  [Sorted!Next]_<<Records \ displayed, Result>>
<1>1. CASE DisplayLogRecord
  BY <1>1, DisplayDelivers DEF Sorted!Next
<1>2. CASE UNCHANGED <<log, displayed, pc, rc>>
  BY <1>2 DEF Records, Result
<1>3. CASE UNCHANGED <<log, displayed>> /\ pc # "done" /\ rc' \in Rcs
  <2>1. rc = "0" /\ Result = "reading" /\ (Records \ displayed)' = Records \ displayed
    BY <1>3 DEF IInv, Ended, Result, Records
  <2>2. CASE rc' = "0"
    BY <2>1, <2>2 DEF Result
  <2>3. CASE rc' = "READLOG_ERR_READ_ERROR"
    BY <2>1, <2>3 DEF Result, Sorted!Fail, Sorted!Next
  <2>4. CASE rc' = "READLOG_ERR_READ_TO_CUR"
    <3>1. Records \ displayed = {}
      BY <2>1, <2>4 DEF IInv, Ended
    <3> QED BY <2>1, <2>4, <3>1 DEF Result, Sorted!Finish, Sorted!Next
  <2> QED BY <1>3, <2>2, <2>3, <2>4 DEF Rcs
<1>4. \/ DisplayLogRecord
      \/ UNCHANGED <<log, displayed, pc, rc>>
      \/ UNCHANGED <<log, displayed>> /\ pc # "done" /\ rc' \in Rcs
  <2>1. rc' \in Rcs
    BY DEF IInv, Types
  <2> QED BY <2>1 DEF Next, Step, Stop, vars, initializeReadLog, queryTheLog, ReadFirst, AllRead,
              ReadOn, Switch, getNextLogRecordFromLogStream, Check
<1> QED BY <1>1, <1>2, <1>3, <1>4

\* The merge of any streams implements SortedLog: the records of all members
\* come out one by one in the order of their LRIs, up to an error or to the end.
THEOREM DeliversInOrderHolds == Spec => DeliversInOrder
<1>1. Init => Sorted!Init
  <2> SUFFICES ASSUME Init PROVE Sorted!Init
    OBVIOUS
  <2>1. Records \subseteq LRIs
    BY LogFacts DEF Init, Records
  <2> QED BY <2>1 DEF Init, Sorted!Init, Result
<1> QED BY <1>1, StepRefines, Safe, PTL DEF Spec, DeliversInOrder, Sorted!Spec
=============================================================================
