-------------------------- MODULE PublicationMonitor --------------------------
(***************************************************************************)
(* repl/xmlpubtk, sample2 and sample3: listener threads take publication   *)
(* messages from a queue and count the changed rows; every few seconds the *)
(* event thread of the window takes the counts over and adds them to its   *)
(* table.  sample3 shows a hash table with totals per database, sample2 a  *)
(* list sorted by table name.  MQ and the Java threads are external.       *)
(***************************************************************************)
EXTENDS Integers, SequencesExt

CONSTANTS Messages,
          RowsOf,      \* the changed rows of a message, <<table, operation>>
          Bad,         \* messages that do not parse
          Tables,      \* the tables, as numbers in the order of their names
          DbOf,        \* database of each table
          Listeners,   \* bound: number of threads start() may create
          MayBreak     \* the queue manager may go away

Ops == {"rowsInserted", "rowsUpdated", "rowsDeleted"}
Rows == Tables \X Ops

ASSUME MonitorAssumption ==
    /\ Tables \subseteq Nat /\ IsFiniteSet(Tables) /\ IsFiniteSet(Messages)
    /\ RowsOf \in [Messages -> Seq(Rows)] /\ Bad \subseteq Messages
    /\ DOMAIN DbOf = Tables
    /\ Listeners \in Nat \ {0} /\ MayBreak \in BOOLEAN

None == 0
Threads == 1 .. Listeners

VARIABLES
    sample,       \* the window: "sample2" or "sample3"
    bStop,
    started,      \* threads created by start()
    place,        \* where each listener thread is
    rows,         \* rows of its message still to be counted
    old,          \* the count it has read and not written yet
    latch,        \* the thread inside synchronized(latch)
    queue,        \* MQ: messages not consumed yet, there or still to come
    received,     \* the messages whose rows were or will be counted
    broken,       \* MQ: the queue manager is gone
    updates,      \* counts since the last getUpdates()
    edt,          \* the event thread
    taken,        \* the counts it has taken over
    list,         \* sample2: the lines of the window
    table,        \* sample3: the counts of the tables
    updatedDbs,   \* sample3: databases whose total is to be calculated again
    totals        \* sample3: dbTotals

listenerVars == <<bStop, started, place, rows, old, latch, queue, received, broken>>
windowVars == <<edt, taken, list, table, updatedDbs, totals>>
monitorVars == <<sample, listenerVars, updates, windowVars>>

\* A hash table of Count objects.
NoCount == [op \in Ops |-> 0]
Empty == [k \in {} |-> NoCount]
CountFor(counts, k) == IF k \in DOMAIN counts THEN counts[k] ELSE NoCount
Put(counts, k, c) ==
    [j \in DOMAIN counts \cup {k} |-> IF j = k THEN c ELSE counts[j]]
Added(c, d) == [op \in Ops |-> c[op] + d[op]]

\* The panel's constructor starts the listener.
MonitorInit == /\ sample \in {"sample2", "sample3"}
               /\ bStop = FALSE /\ started = 1
               /\ place = [l \in Threads |-> IF l = 1 THEN "connect" ELSE "none"]
               /\ rows = [l \in Threads |-> <<>>] /\ old = [l \in Threads |-> 0]
               /\ latch = None /\ queue = Messages /\ received = {} /\ broken = FALSE
               /\ updates = Empty /\ edt = "idle" /\ taken = Empty
               /\ list = <<>> /\ table = Empty /\ updatedDbs = {} /\ totals = Empty
-----------------------------------------------------------------------------
(* start() and stop(), called by whoever owns the listener *)

StartListener == /\ started < Listeners
                 /\ bStop' = FALSE /\ started' = started + 1
                 /\ place' = [place EXCEPT ![started + 1] = "connect"]
                 /\ UNCHANGED <<sample, rows, old, latch, queue, received, broken, updates,
                                windowVars>>

StopListener == /\ ~bStop /\ bStop' = TRUE
                /\ UNCHANGED <<sample, started, place, rows, old, latch, queue, received,
                               broken, updates, windowVars>>
-----------------------------------------------------------------------------
(* A listener thread: run, dispatchMsgs, publicationMsg *)

Goto(l, to) == place' = [place EXCEPT ![l] = to]

\* An exception before the loop ends the thread.
Open(l) == /\ place[l] = "connect"
           /\ \/ ~broken /\ Goto(l, "test")
              \/ MayBreak /\ Goto(l, "ended")
           /\ UNCHANGED <<sample, bStop, started, rows, old, latch, queue, received,
                          broken, updates, windowVars>>

\* Mutant: the flag is not looked at.
StopAskedNever == FALSE

StopAsked == bStop

Test(l) == /\ place[l] = "test"
           /\ Goto(l, IF StopAsked THEN "ended" ELSE "receive")
           /\ UNCHANGED <<sample, bStop, started, rows, old, latch, queue, received,
                          broken, updates, windowVars>>

\* dispatchMsgs goes on while there are messages, and ends when receive times out,
\* as none has come: the others of queue may come later.  A message that does not
\* parse or carries no rows is dropped; if receive fails, it is simply called again.
Receive(l) ==
    /\ place[l] = "receive" /\ ~broken
    /\ \/ \E m \in queue :
             /\ queue' = queue \ {m}
             /\ IF m \in Bad \/ RowsOf[m] = <<>>
                THEN UNCHANGED <<place, rows, received>>
                ELSE /\ received' = received \cup {m}
                     /\ rows' = [rows EXCEPT ![l] = RowsOf[m]]
                     /\ Goto(l, "lock")
       \/ Goto(l, "test") /\ UNCHANGED <<queue, rows, received>>
    /\ UNCHANGED <<sample, bStop, started, old, latch, broken, updates, windowVars>>

\* Mutant: no latch.
LatchFreeAlways == TRUE

LatchFree == latch = None

Lock(l) == /\ place[l] = "lock" /\ LatchFree
           /\ latch' = l /\ Goto(l, "read")
           /\ UNCHANGED <<sample, bStop, started, rows, old, queue, received, broken,
                          updates, windowVars>>

\* tempCount.rows...++ reads and writes.
ReadCount(l) ==
    /\ place[l] = "read" /\ rows[l] # <<>>
    /\ LET t == rows[l][1][1]
           op == rows[l][1][2] IN
       /\ updates' = Put(updates, t, CountFor(updates, t))
       /\ old' = [old EXCEPT ![l] = CountFor(updates, t)[op]]
    /\ Goto(l, "write")
    /\ UNCHANGED <<sample, bStop, started, rows, latch, queue, received, broken,
                   windowVars>>

WriteCount(l) ==
    /\ place[l] = "write"
    /\ LET t == rows[l][1][1]
           op == rows[l][1][2] IN
       updates' = Put(updates, t, [CountFor(updates, t) EXCEPT ![op] = old[l] + 1])
    /\ rows' = [rows EXCEPT ![l] = Tail(@)] /\ Goto(l, "read")
    /\ UNCHANGED <<sample, bStop, started, old, latch, queue, received, broken,
                   windowVars>>

Unlock(l) == /\ place[l] = "read" /\ rows[l] = <<>>
             /\ latch' = None /\ Goto(l, "receive")
             /\ UNCHANGED <<sample, bStop, started, rows, old, queue, received, broken,
                            updates, windowVars>>

Listener(l) == \/ Open(l) \/ Test(l) \/ Receive(l)
               \/ Lock(l) \/ ReadCount(l) \/ WriteCount(l) \/ Unlock(l)

Break == /\ MayBreak /\ ~broken /\ broken' = TRUE
         /\ UNCHANGED <<sample, bStop, started, place, rows, old, latch, queue, received,
                        updates, windowVars>>
-----------------------------------------------------------------------------
(* The event thread: checkForDataUpdates *)

\* getUpdates.
GetUpdates == /\ edt = "idle" /\ LatchFree
              /\ taken' = updates /\ updates' = Empty
              /\ edt' = IF updates = Empty THEN "idle" ELSE "add"
              /\ UNCHANGED <<sample, listenerVars, list, table, updatedDbs, totals>>

\* sample2: the binary search of getTableModelRowFor, with the indices from 0.  The
\* loop ends at the key's line, or with low > high around the place of a new line.
Name(i) == list[i + 1].name

Searches == [key : Tables, low : 0 .. Len(list), high : -1 .. Len(list) - 1]

Mid(s) == (s.low + s.high) \div 2
Hit(s) == s.low <= s.high /\ s.key = Name(Mid(s))
Halve(s) == IF s.key < Name(Mid(s)) THEN [s EXCEPT !.high = Mid(s) - 1]
                                    ELSE [s EXCEPT !.low = Mid(s) + 1]

loop[s \in Searches] == IF s.low > s.high \/ Hit(s) THEN s ELSE loop[Halve(s)]

Search(key) == loop[[key |-> key, low |-> 0, high |-> Len(list) - 1]]

\* Mutant: a new line goes above the one it has to follow.
RowForAbove(low, high, key) == IF high < 0 THEN 0 ELSE high

RowFor(low, high, key) ==
    CASE low >= Len(list) -> Len(list)
      [] low < Len(list) /\ high < 0 -> 0
      [] low < Len(list) /\ high >= 0 /\ key > Name(low) -> low + 1
      [] low < Len(list) /\ high >= 0 /\ key <= Name(low) ->
            IF key > Name(high) THEN high + 1 ELSE high

AddToList(t) ==
    LET s == Search(t)
        row == IF Hit(s) THEN Mid(s) ELSE RowFor(s.low, s.high, t)
        lines == IF Hit(s) THEN list
                 ELSE InsertAt(list, row + 1, [name |-> t, count |-> NoCount])
    IN list' = [lines EXCEPT ![row + 1].count = Added(@, taken[t])]

\* One table of those taken over, in any order.
AddTable ==
    /\ edt = "add"
    /\ \E t \in DOMAIN taken :
          /\ \/ /\ sample = "sample2" /\ AddToList(t)
                /\ UNCHANGED <<table, updatedDbs>>
             \/ /\ sample = "sample3" /\ UNCHANGED list
                /\ table' = Put(table, t, Added(CountFor(table, t), taken[t]))
                /\ updatedDbs' = updatedDbs \cup {DbOf[t]}
          /\ taken' = [u \in DOMAIN taken \ {t} |-> taken[u]]
          /\ edt' = IF DOMAIN taken # {t} THEN "add"
                    ELSE IF sample = "sample3" THEN "totals" ELSE "idle"
    /\ UNCHANGED <<sample, listenerVars, updates, totals>>

TablesOf(d) == {t \in DOMAIN table : DbOf[t] = d}

\* Mutant: the new total starts from the old one.
TotalOfOldAdded(d) ==
    [op \in Ops |-> CountFor(totals, d)[op]
                     + SumFunction([t \in TablesOf(d) |-> table[t][op]])]

TotalOf(d) == [op \in Ops |-> SumFunction([t \in TablesOf(d) |-> table[t][op]])]

\* recalcDbTotalsFor one of the databases that were updated.
Recalc == /\ edt = "totals"
          /\ \E d \in updatedDbs :
                /\ totals' = Put(totals, d, TotalOf(d))
                /\ updatedDbs' = updatedDbs \ {d}
                /\ edt' = IF updatedDbs = {d} THEN "idle" ELSE "totals"
          /\ UNCHANGED <<sample, listenerVars, updates, taken, list, table>>

EventThread == GetUpdates \/ AddTable \/ Recalc

MonitorNext == \/ StartListener \/ StopListener \/ Break \/ EventThread
               \/ \E l \in Threads : Listener(l)

\* The threads are scheduled and the timer keeps firing.
MonitorSpec == /\ MonitorInit /\ [][MonitorNext]_monitorVars
               /\ WF_monitorVars(EventThread)
               /\ \A l \in Threads : WF_monitorVars(Listener(l))
-----------------------------------------------------------------------------
(* Properties *)

\* How often row r occurs in a sequence, among the messages received, in the window
\* and among the rows the listeners have still to count.
RowsIn(s, r) == Cardinality({i \in DOMAIN s : s[i] = r})
Received(r) == SumFunction([m \in received |-> RowsIn(RowsOf[m], r)])
InLine(i, r) == IF list[i].name = r[1] THEN list[i].count[r[2]] ELSE 0
Shown(r) == IF sample = "sample3" THEN CountFor(table, r[1])[r[2]]
            ELSE SumFunction([i \in DOMAIN list |-> InLine(i, r)])
Pending(r) == SumFunction([l \in Threads |-> RowsIn(rows[l], r)])

\* No change is lost or counted twice between the threads: each row received is
\* still to be counted by its listener, among the updates, taken over by the
\* window or shown.
EveryRowCounted ==
    \A r \in Rows : Received(r) = Pending(r) + CountFor(updates, r[1])[r[2]]
                                  + CountFor(taken, r[1])[r[2]] + Shown(r)

\* sample2's binary search keeps one line per table, in the order of the names,
\* which is what the next search relies on.
LinesSorted == \A i, j \in DOMAIN list : i < j => list[i].name < list[j].name

\* sample3 calculates again only the totals of the databases in an update.
TotalsAgree == \A d \in {DbOf[t] : t \in DOMAIN table} : CountFor(totals, d) = TotalOf(d)

\* Between two updates of sample3 no total is stale: each update recalculated those
\* of all the databases whose tables it changed.
TotalsCurrent == edt = "idle" => TotalsAgree

\* Whatever the listeners received, the window comes to show it, in the lines of the
\* tables and in the totals of the databases.
EventuallyShown == []<>(TotalsAgree /\ \A r \in Rows : Shown(r) = Received(r))

\* Once stop() was called for good, every listener thread ends when the messages run
\* out, unless the queue manager is gone.
StopsWhenQuiet == <>[](bStop /\ ~broken)
                    => <>[](\A l \in Threads : place[l] \in {"none", "ended"})
=============================================================================
