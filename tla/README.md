# TLA+ models of the Db2 samples

The repository (`src/` in the paths below) is a collection of sample programs
for Db2: most of its 2343 files demonstrate one statement or one API call each,
or are notebooks and data. A few samples are programs with a logic of their own:
threads, protocols with another party, failures in the middle of several steps.
This project models those, checks them with TLC on small instances and proves
every safety property of them with TLAPS for all instances.

Contents: [inventory](#inventory) · [modules](#modules) · [runs](#runs) ·
[bounds](#bounds) · [fairness](#fairness) · [proofs](#proofs) ·
[assumptions](#assumptions-about-the-environment) ·
[disagreements](#where-code-and-comments-disagree) · [not modelled](#not-modelled) ·
[plan](#plan)

## Inventory

### Multi-context thread pool, `c/dbthrds.sqc` (and its twin `cpp/dbthrds.sqC`)

*State.* `ctxlist`, a fixed array of DB2 contexts with a flag `free` each, and
`contexts_free`, the number of free ones, both guarded by the mutex `cond_m`;
the condition variable `cond`; one `work_item` per thread.
*Operations.* `main` generates work items and `dispatch`es each: it waits for a
free context, takes the first one, and starts a detached thread. The thread
(`do_work`, `clean_up`) attaches to the context, connects, executes a statement,
commits or rolls back, resets the connection, detaches, marks the context free
and signals.
*Interaction.* Threads meet in the pool (shared memory) and in DB2 (a context
carries a connection and a unit of work).
*Hard.* Lost and spurious wakeups; two variables that have to agree; the order
of detach and release; DB2 calls that fail and leave a unit of work or a
connection open in a context that is then reused.
*Correct if* the counter and the flags agree, no context is used twice, the
search for a free context stays in the array, no wakeup is lost, status 0 means
that the statement was sent and settled, nobody settles another thread's
statement, and every item is done.

### XBSA backup vendor library, `BARVendor/vendor.C`

DB2 loads this library for BACKUP and RESTORE to an XBSA store and calls five
functions, from several media sessions at once.
*State.* Per session a handle (status flags, the XBSA session, the object);
in the store one object per session, inside a transaction.
*Operations.* `sqluvint` opens a session (write) or finds the image (read);
`sqluvput` writes a buffer in chunks whose length fits 16 bits; `sqluvget` reads
one; `sqluvend` commits or aborts; `sqluvdel` deletes what a failed backup left.
*Interaction.* DB2 hands buffers to sessions from one queue and decides by the
return codes; the library calls the store.
*Hard.* Any call fails; the end of a tape in the middle of a buffer, after which
another session writes the buffer again; 16-bit lengths; the end of an object in
any chunk; queries answered in any order and failing half way.
*Correct if* a successful backup is complete in committed objects, no session or
transaction stays open, a clean-up that reports success removed everything, the
image that is restored is the newest one and is counted completely, and a
restore delivers every byte once and ends.

### Merge of log streams, `c/dblognoconnlogmerge.c`

*State.* Per stream a buffer of log records, how many are left in it, the LRI of
the next one; a queue of streams sorted by that LRI; the stream being read.
*Operations.* `initializeAndReadAllStreams` opens, queries and reads each log
path; `getNextLogRecord` takes a record from the stream with the least LRI,
refills its buffer when it is empty and queues the stream again.
*Interaction.* `db2ReadLogNoConn` only; one thread.
*Hard.* The program stays on a stream without asking the queue while the LFS
grows by less than two; unsigned differences with the end marker LFS -1; a
stream that ends or fails in a refill.
*Correct if* the records of all streams come out in LRI order, none is missing
when the end is reported, and the merge ends.

### Log archive user exit, `c/db2uext2.cdisk`

*State.* Files: the active log, `<log>.TMP`, the archive. DB2's memory of what
it was told is archived. One request at a time.
*Operations.* `ArchiveFile` copies from a directory (`cp`) or from a raw device
(buffer by buffer), `RetrieveFile` copies to `.TMP` and renames; `SignalEnd`
answers a signal at any point.
*Interaction.* DB2 calls the program, repeats archive requests after errors and
after a crash, and reads retrieved logs in a rollforward.
*Hard.* A copy that stops half way by an error, a signal or a crash; a repeated
request whose source is gone; a retrieve of a partial archive file.
*Correct if* a log DB2 believes archived is archived whole, DB2 never reads a
partial log, a rollforward gets every archived log, and every log gets archived
once the faults are over.

### Ingest script, `admin_scripts/ingest_files.sh`

*State.* For each file its place (input, `success`, `failed`), that of its
`.done` file, and the rows in the table.
*Operations.* Find the `.done` files, INGEST each file, move both files; again
until a pass finds none. A producer adds files meanwhile; the script may be
killed and started again.
*Hard.* A kill or a failed move after INGEST; one of the two files moved; a
`.done` file without its file; a file that arrives during a pass.
*Correct if* a file in `success` is loaded and only whole files are, a file is
loaded again only because of a fault, every file is tried, and the script ends.

### Process control of the db2mon tools, `perf/db2mon_tools/perllib/TJWH/JobControl.pm`

*State.* The table of child processes; per child its exit status and its file of
results, or its FIFO; the count of errors.
*Operations.* Eleven subroutines that run a list of tasks in children: all at
once (`simultaneous...`), at most `$throttle` at a time (`taskQueue...`), without
waiting (`runBackground...`); they count errors, collect results, end the
children on SIGALRM. `simultaneousTasksEvalAndPrint` reads each child's report
through a FIFO.
*Interaction.* fork, wait, kill, exit codes, files and FIFOs with fixed names.
*Hard.* The order in which children end; children another subroutine left,
which the same `wait` returns; killed children and failing forks; the alarm; a
child that reaches the FIFO's name before the parent has made the FIFO.
*Correct if* no more than `$throttle` children run, a subroutine returns after
its last task and not before, each result is its task's own, errors are counted,
every report is complete and kept once, and a timeout ends the subroutine.

### Publication monitors, `repl/xmlpubtk` (`sample2`, `sample3`)

*State.* The listener's stop flag and its model of counts (`updates`), guarded
by `latch`; the window's table: a list sorted by name (`sample2`), a hash table
with totals per database (`sample3`).
*Operations.* A listener thread receives messages from MQ, parses them and counts
the changed rows; a timer makes the event thread take the counts over and add
them to the table; `start` and `stop`.
*Hard.* The take-over in the middle of a transaction's rows; two listener
threads after `stop` and `start`; the binary search and insertion of a new line;
a queue manager that goes away.
*Correct if* no row is lost or counted twice, the lines stay sorted, the window
comes to show everything received, and a stopped listener ends.

### The rest

ACS snapshot scripts, Autoloader, replication scripts and the Capture/Apply API
samples, security plug-ins, trust
procedures, XA trace and coordinated-connection samples, the event monitor
reader, wrapper skeletons, diagnostic scripts, Rust, Ansible and HA
configuration, the language samples, notebooks and data. Most are sequential
demonstrations or configuration; `PROJECT.json` names each group and the reason
it has no model.

## Modules

| module | what it is |
|---|---|
| `WorkPool` | abstract pool: items start in order, each on a slot nobody else holds, and finish unless the process aborts |
| `ContextPool` | `c/dbthrds.sqc`, every thread and DB2 call a step; implements `WorkPool` |
| `VendorBackup` | `sqluvint` (write), `sqluvput`, `sqluvend`, `sqluvdel`, every XBSA call a step |
| `VendorSelect` | `sqluvint` (read): `getLatestCopy` and the query that counts the image's objects |
| `VendorRestore` | `sqluvget` and the calls around it |
| `VendorCatalog` | extends `VendorSelect` with an instance of `VendorBackup`: several backups over one store, then the choice of an image among what they left |
| `SortedLog` | abstract merge: records come out in LRI order, the end is reported when all are out |
| `LogMerge` | `c/dblognoconnlogmerge.c`; implements `SortedLog` |
| `UserExit` | `c/db2uext2.cdisk` with DB2 around it |
| `IngestFiles` | `admin_scripts/ingest_files.sh` with a producer |
| `JobControl` | what all subroutines of `JobControl.pm` have in common: the tasks, the children, the hash `childProcs` |
| `FifoReports` | extends it: `simultaneousTasksEvalAndPrint`, parent and children |
| `JobQueue` | extends it: the other ten subroutines |
| `PublicationMonitor` | listener threads and window of `sample2` and `sample3` |
| `ContextPoolProofs`, `VendorBackupProofs`, `VendorRestoreProofs`, `LogMergeProofs`, `UserExitProofs` | the theorems about the module of that name |
| `VendorCatalogProofs` | those about `VendorSelect` and, on top of them and of `VendorBackupProofs`, about `VendorCatalog` |
| `JobControlProofs` | those about `JobQueue` and `FifoReports` |
| `FeedProofs` | those about the two consumers of a feed, `IngestFiles` and `PublicationMonitor` |
| `MC*` | the values TLC's runs give to the constants |

**ContextPool.** `mainPc` and `pc[w]` are the places in `dispatch` and in
`do_work`/`clean_up`; `free`, `contexts_free`, `ctx`, `context` are the program's
variables of these names; `owner` is the holder of `cond_m`; `failed[w]` is a
status other than 0. `attached`, `connected` and `unit` are what DB2 knows of a
context, `fate[w]` what became of item w's statement. The actions carry the
names of the steps: `MainLock`, `MainTest`, `MainRelock`, `MainPick`,
`MainCount`, `MainUnlock`, `MainCreate`; `Attach`, `Connect`, `Execute`,
`EndTxn`, `Reset`, `Detach`, `Lock`, `MarkFree`, `CountFree`, `Signal`,
`Unlock`. Each access to shared data between lock and unlock is a step of its
own, so that a missing lock would show. The sqlcodes are reduced to the four
classes `check_error` and `check_expected` tell apart; `Answers` says which of
them each call may return.

**VendorBackup.** DB2's part is `queue` (buffers to write), `acked`, `outcome`.
`status`, `rc`, `buffer`, `bytestowrite` and `byteswritten` are the handle and
the locals of `sqluvput`; `xbsa`, `object` and `stored` are the store. One
object per session is `absent`, `pending` (inside the transaction) or
`committed`. `MayFail` names the calls that can fail; besides the XBSA calls it
has `short` (BSASendData takes fewer bytes than offered), `full` (the end of a
tape), `ptr` (the last malloc of `sqluvint`), `delInit` and `delNext` (the first
call and the list walk of `sqluvdel`).

**VendorSelect.** The catalog, chosen at the start, is a set of objects with
partition, kind, timestamp and sequence number. A query returns its objects in
any order; the last one may or may not be marked as such. `best` is the image
`getLatestCopy` keeps, `counted` the objects behind `searchCount`. The names are
compared over `CNamelen` characters, the length of the first image's name (`Compared`):
`Length` gives the length of each kind's name, and `Unit[n]` what a timestamp without
its last n digits counts in (10^n in the program).

**VendorRestore.** `pos` is how far the store has handed out the object,
`delivered` what DB2 was given, `actual`, `bytestoread` and `rc` are
`sqluvget`'s. The first call of a session (`Query`, `GetObject`, `FirstData`)
and the later ones (`Data`) are different code. Sessions share nothing, so one
is modelled at a time.

**VendorCatalog** has the variables of `VendorSelect` and those of `VendorBackup`
(whose `pc` and `rc` are `session` and `sessionRc` here): `BackupStep` is a step of
the current backup, `BackupEnds` its end and the start of the next one or of the
restore, `SelectStep` a step of the choice. `catalog` and `contents` are what the store
keeps of ended backups, `succeeded` and `doubtful` what DB2 was told: a backup is
doubtful when `sqluvdel` reported an error after it failed.

**LogMerge.** A record is its LRI, the pair of LFS and LSN. `log` is what the
streams hold, `position` how far the API has read; the other variables have the
program's names (`qHead` is a sequence in place of a linked list). `pc` is the
place in `initializeAndReadAllStreams` ("init", "query", "read", "next") and in
main's loop over `getNextLogRecord` ("get", "check", "display"). LFS arithmetic
is modulo `Modulus`, 2^64 in the program.

**UserExit.** A file is the number of pages it has, or absent. A copy proceeds
piece by piece (`CpPiece`, and one buffer at a time for a raw device), so that
every prefix can be what a fault leaves behind; rm may fail as well, unnoticed.
`Settings` says whether the log path is a directory or a raw device, and which kinds
of fault a behaviour has.
`recorded`, `refused` and `answered` are DB2's memory; DB2's actions are
requests, its crash, the loss of the log path and the rollforward.

**IngestFiles** uses the script's names; `data`, `done` and `loads` are the file
system and the table.

**FifoReports.** `path[t]` is what the name of task t's FIFO is at the moment:
nothing, a plain file or a FIFO; `handle[t]` is what the child opened under it,
which may be a file that has lost its name since. A child's report is a start
line, its lines and an end line; `wrote` and `pos` count them.

**JobControl** declares the tasks and the two variables that both modules below
use; it has no steps. The definitions of `FifoReports` begin with `Fifo` where
`JobQueue` has one of the same purpose (`FifoInit`, `FifoNext`, `FifoSpec`), so that
one module can hold the proofs about both.

**JobQueue.** The ten subroutines are one loop with variations, so each is a
record that says how it differs (throttled, what its child passes to exit, what
its alarm handler kills, whether it counts errors, collects results, runs in a
loop without fork, waits at all). The record is a variable chosen at the start.
`Background` is a child that `runBackgroundTasks` left.

**PublicationMonitor.** `place[l]` is the place of listener thread l in `run`,
`dispatchMsgs` and `publicationMsg`, `edt` that of the event thread in
`checkForDataUpdates`. The increment of a count is two steps, reading and
writing, so that a missing `synchronized` would show. Tables are numbers in the
order of their names. `Search` is the `while` loop of `getTableModelRowFor`: `loop`
goes on with `Halve` until the middle is a `Hit` or nothing is left between low and
high, and `RowFor` is the choice of the row that follows it. `received` is a history
variable: the messages whose rows are to be counted.

Operators marked `Mutant:` are wrong variants of the definition below them. They
belong to no specification; each of them was put in the place of its original
to see that the property named in `PROJECT.json` then fails.

## Runs

| run | question | answer |
|---|---|---|
| `pool` | three items on two contexts, every call may fail, spurious wakeups, fair scheduling | the search stays in bounds, contexts are exclusive, no wakeup is lost, status 0 tells the truth, only the owner settles a statement; `ContextPool` implements `WorkPool` with its liveness: every item is done and the process ends (204 000 states) |
| `backup` | two sessions, two buffers of three chunks, every failure the code handles | success is complete, nothing stays open, a clean-up that says OK removed everything, every backup ends (89 000) |
| `select_image` | full and table space images of two objects, in every combination and order | the newest image is chosen, counted completely and alone, and refused only when ambiguous (31 000) |
| `catalog` | two backups, with failures in sessions and clean-ups, then a restore | the image is complete and of a successful backup, the newest if none was named, unless a clean-up reported an error (268 000) |
| `restore_whole` | two objects, any call failing | every byte once, success means all bytes, the restore ends (230) |
| `restore_large` | an object ending in a later chunk | `sqluvget` never returns |
| `log_merge` | three streams share four LFSs in every way, API failures | `LogMerge` implements `SortedLog`, the end is reported when all is out, the merge ends (406 000) |
| `user_exit` | two logs of three pages, directory and raw device, four faults of any kind | what is archived is whole, no part of a copy gets the name of a log, and no part of a log in the archive is taken for one that DB2 was told is archived (a part of another may be retrieved, see [disagreements](#where-code-and-comments-disagree)); a rollforward gets every archived log if the archive's files can be opened; every log gets archived (137 000) |
| `ingest` | three files, two faults, a producer, restarts | success means loaded, repeats need faults, every file is tried, the script ends (55 000) |
| `fifo_reports` | two children of two lines, names left over, killed children, failing forks | every undisturbed report is complete and kept once; undisturbed, the subroutine returns (22 000) |
| `job_queue` | three tasks in each of the ten subroutines, killed and hanging children, failing forks, a timeout | throttle, return after the last task, own results, errors counted, return and timeout (145 000) |
| `publication` | four messages, three tables, two listeners, start and stop at any time, a broken connection | no row lost or counted twice, lines sorted, everything shown, stopped listeners end (151 000) |

`OnlyOwnerSettles` is an action property: `fate[w]` changes only in a step of
thread w. It is the interesting one when COMMIT fails: the unit of work stays
open in the context, the first-fit search hands the context to the next thread,
and what saves the other item's statement is that DB2 refuses CONNECT there, so
that the thread skips its own COMMIT.

`SuccessIsComplete` relates sessions to each other: a buffer that one session
could not finish at the end of its tape is written again by another, and the
first one ends with `SQLUV_TERMINATE`. It must commit nevertheless, because its
object holds the buffers acknowledged before (`vendor.C:1011`).
`ChosenIsComplete` carries that on to the restore: what `sqluvint` finds later
is what the sessions and the clean-up really left in the store.

`DeliversInOrder` is a refinement: with `left` as the records that are neither
displayed nor lost to an error, every step of `LogMerge` is a step of `SortedLog`
or a stutter. The interesting point is `getNextLogRecord`'s shortcut, which does
not ask the queue while the LFS grows by less than two; it is right because an
LFS belongs to one stream.

`EveryRowCounted` is the sum over everybody who may hold a row: the listeners'
rows still to count, the model, what the window has taken over, what it shows.

The type invariants are not in the runs: they are theorems, or parts of the
inductive invariants (`Types`, `WindowTypes`, `ListenerTypes`). The same goes for
`CounterMatchesFlags`, `LRIsIncrease`, `GreatestName` and `TotalsCurrent`, which are
theorems, and for `EndReported`, which holds in `restore_whole`.

## Bounds

* Pool: two contexts and three items are the least with which a context is
  reused while the other is busy, main sleeps, and a third thread meets an open
  unit of work. With `Commit` FALSE the model only swaps the settling call.
* Backup: two sessions and two buffers let a buffer move from one session to the
  other while both hold acknowledged ones. `USHRT_MAX` is 3 and `Slack` (the 16
  in `USHRT_MAX - 16`) is 1, so a buffer of 5 bytes takes three sends (2, 2 and
  1): a first, a middle and a last chunk, on both sides of the test
  `>= USHRT_MAX`.
* Choice of the image: two partitions, two kinds of image, up to two images of a
  kind, two objects in each; no timestamp, one, or a prefix of two.
* Restore: `USHRT_MAX` 4, a buffer of 5 bytes. The first read then asks for
  5 mod 5 = 0 bytes, the case a buffer of 65536 bytes meets in the program.
  Lengths 12 and 20 end in the first chunk of a buffer and on the last byte of
  one; 3 and 19 are the two cases the code does not handle.
* Catalog: two backups, so that a failed one can come before or after a
  successful one; a buffer is one chunk, as the chunks are `backup`'s subject.
* Log merge: three streams, so that the queue has a middle; LFSs 1, 2, 3 and the
  highest in use, so that differences of one, of two and of the whole range
  occur; up to two records per LFS and a buffer of two, so that a buffer ends
  inside an LFS and between two; every assignment of LFSs to streams.
* User exit: two logs (the order of their archiving matters to a rollforward),
  three pages and a buffer of two (a full and a last, shorter piece), four
  faults: a failed attempt, a crash that forgets, the loss of the log path and
  one more. Every kind of fault may come with every other.
* Ingest: two faults let both moves of a file, or a load and a move, fail.
* FIFO reports: two tasks (the second is read while the first is still to be
  read again), two lines. The run does not look for deadlocks: the parent may
  really wait for ever (see below).
* Job queue: three tasks and throttles 0, 1 and 2, so that a child ends while a
  place is free, while none is, and last. Tasks that hang are chosen at the
  start; as such a task may stop the program for good, deadlock is not checked.
* Publication: three tables, so that a line is inserted before, between and
  after others; a message with rows of two tables and one with a repeated row; two
  listeners.

`Faults` (user exit, ingest) and `Listeners` (publication) bound what the
environment does; the theorems hold for every number of faults. No counter of a
program is capped: all of them are bounded by the work there is.

## Fairness

* `ContextPool`: weak fairness for main and for each thread, as the operating
  system schedules every runnable thread. It is put on the whole thread, not on
  single calls, so a call may always answer with an error. Spurious wakeups may
  happen any finite number of times. Weak fairness is enough for the mutex
  because the competitors for it run once each.
* `VendorBackup`: weak fairness for each session, for DB2's decision and for
  `sqluvdel`: each session has a process of its own in DB2, and the functions
  call each other without waiting.
* `VendorRestore`: weak fairness for the whole sequence of calls.
* `VendorSelect` has no liveness property: its loops end with the catalog.
* `VendorCatalog` has no liveness property; that backups end is `backup`'s.
* `LogMerge`: weak fairness for the program, which never waits.
* `UserExit`: weak fairness for the program and for DB2's reading of its answer;
  strong fairness for DB2's archive request and for its reopening of a database,
  because DB2 retries a refused archive request (db2uext2.cdisk:42-44) each time it has
  the chance, though a crash or another request may take a chance away.
* `IngestFiles`: weak fairness for the script, and for its being started again.
* `FifoReports`, `JobQueue`: weak fairness for the parent and for each child, as
  processes are scheduled. A task that never ends is one chosen to hang.
* `PublicationMonitor`: weak fairness for the event thread (the timer fires every
  few seconds) and for each listener thread. Neither `stop` nor `Break` is fair.

## Proofs

TLAPS proves these for every value of the constants that satisfies the modules'
assumptions: any number of contexts, items, sessions, buffers, backups, streams,
logs, files, tasks, messages, tables, listeners and faults, any sizes, any content
of the store, any set of failing calls. Every safety property a run checks is among
them.

| theorem | says |
|---|---|
| `ContextPoolProofs`: `TypeOKHolds` | types; `contexts_free` stays within 0..Contexts |
| `CounterMatchesFlagsHolds` | the counter is the number of free flags between the updates |
| `PickInBoundsHolds` | the search stops inside `ctxlist` |
| `ContextsExclusiveHolds` | no context is held twice; a free one is detached |
| `NoLostWakeupHolds` | main never sleeps on with a context free and no signal to come |
| `OnlyOwnerSettlesHolds` | a statement is settled by its own thread only |
| `TruthfulStatusHolds` | status 0 means sent and settled, if CONNECT gives no warning (`ConnectIsPlain`) |
| `ImplementsPoolSafely` | the safety part of `WorkPool` |
| `VendorBackupProofs`: `TypeOKHolds` | types; no byte count leaves the buffer |
| `SuccessIsCompleteHolds` | success is complete, if `"short" \notin MayFail` |
| `NoSessionLeftHolds` | nothing stays open, if `"ptr" \notin MayFail` |
| `DelOkMeansGoneHolds` | clean-up with OK removed everything, if `"delInit", "delNext" \notin MayFail` |
| `VendorRestoreProofs`: `TypeOKHolds`, `NothingSkippedHolds`, `RestoredIsWholeHolds` | between two calls DB2 has exactly what left the store; success means every byte |
| `LogMergeProofs`: `TypeOKHolds`, `LRIsIncreaseHolds`, `CompleteAtEndHolds`, `DeliversInOrderHolds` | the merge implements `SortedLog` |
| `UserExitProofs`: `TypeOKHolds`, `ArchivedIsWholeHolds` | what DB2 was told is archived is whole and stays so |
| `NoTornLogHolds` | a retrieve leaves no part of a copy under the name of a log, and no part of a log is passed off as one that DB2 was told is archived |
| `RollforwardGetsAllHolds` | a rollforward gets every archived log, if no file of the archive fails to open (the premise is in the property) |
| `VendorCatalogProofs`: `TypeOKHolds` | types; an image kept by `getLatestCopy` fits the request |
| `GreatestNameHolds` | the image chosen is of the kind with the greatest name, and the newest of it unless that name is longer than that of the first image returned, if the walk is not cut short (`WholeScan`) |
| `LatestSelectedHolds` | it is the newest, if moreover the images of the database are of one kind and those of table spaces are (`OneKindEach`) |
| `CountsTheImageHolds` | the objects counted are that image's and all of them, if in every catalog each image has an object number 1 (`ImagesHaveFirst`) |
| `RefusedOnlyIfAmbiguousHolds` | a restore is refused only if more than one image fits |
| `ChosenIsCompleteHolds` | after any number of backups the image chosen is of a successful one, complete and the newest, unless a clean-up reported an error; if `SoundStore`, `WholeScan` and `OneTime` |
| `JobControlProofs`: `TypeOKHolds`, `ThrottleKeptHolds`, `ReturnsAfterTheLastHolds`, `ResultsAreOwnHolds`, `SubroutineErrorsCountedHolds` | for every subroutine, any number of tasks, any throttle |
| `FifoTypeOKHolds`, `ReportsWholeHolds` | every undisturbed report is complete and kept once |
| `FeedProofs`: `TypeOKHolds`, `SuccessIsLoadedHolds`, `RepeatsNeedFaultsHolds` | the ingest script, for any files and faults |
| `LinesSortedHolds` | the list of `sample2` has one line per table, in order: the binary search is right |
| `EveryRowCountedHolds` | each row received is on its way or shown exactly once, in both samples |
| `TotalsCurrentHolds` | between two updates the totals of `sample3` are those of the tables |

Each premise on `MayFail`, on CONNECT, on kinds of images, on objects number 1 and on
files that cannot be opened is the case that the code does not handle (see
[disagreements](#where-code-and-comments-disagree)), and nothing more: `WholeScan` is
`"latestNext" \notin MayFail`, `SoundStore` excludes `"short"`, `"delInit"` and
`"delNext"` from the backups' failures, `OneTime` says that a request names at
most one timestamp. Each of them is satisfied by the instance the run checks.

*The pool.* None of the properties is inductive. `IInv` of `ContextPoolProofs`
adds: who can hold the mutex at which place (`MutexHeld`); which items have a
thread and a context (`Dispatched`); who has taken which context (`Exclusive`);
how far the counter is off from the flags, which depends on whether main or a
thread is between its two updates (`Counter`, `Marked`); and that main gets to
the search only with a free context (`PickReady`). The counter is compared with
a cardinality: the lemmas `ContextsFinite` and `PickFindsFree` turn "the counter
is not 0" into "some flag is set", which is why the first-fit search ends in the
array. `TypeOK` is then a consequence, because the range of the counter is.

*The backup.* `IInv` of `VendorBackupProofs` adds: until `INIT_DONE` is set the
exit label of `sqluvint` releases the session (`Released`); nothing moves after
DB2's decision (`Decided`); a buffer is queued, in one session's hands, or
acknowledged (`Handed`); an object holds only acknowledged buffers and the one
being written, so a new `sqluvput` starts from nothing (`OnlyAcked`); written
and remaining bytes add up (`Counts`); every acknowledged buffer is whole in an
object that is committed, will be, or belongs to a session that reports an error
(`AckedIsKept`); and the list of `sqluvdel` is complete while it has met no error
(`Listed`). `AckedIsKept` carries `SuccessIsComplete`: a session with an error
rules success out, so every object that matters is committed. One lemma per
part shows that a step preserves it. The invariant was model-checked before it
was proved, with the failures of `backup` (89 000 states) and with every failure
(1 322 000).

*The outcome of a statement.* On top of the pool's invariant
`OInv` adds: a thread executes its statement on a context without an
open unit of work and ends a unit with no statement but its own (`OwnUnit`: a
context with a foreign unit refuses CONNECT); a thread past that has a failed
status or ended its unit as `-C` asks for (`Told`).

*The restore.* What DB2 was given plus what is in the buffer is what left the
store, at every place (`InHand`); the end of the media is reported at the end of
the object only (`EndIsEnd`); an object that is over is whole, unless the restore
has failed (`Objectwise`).

*The merge.* `IInv` = `Types`, `Buffers` (what a buffer holds is the next part of
its stream), `Queue` (sorted, each stream once), `Start`, `Live` (a stream with
records left is queued or being read), `Open`, `Shown` (what is displayed is a
prefix of every stream), `Sequence` (nothing displayed is above anything that is
not) and `Ended`. `Sequence` carries the refinement; the shortcut needs that an
LFS between two others would belong to the stream being read. The invariant was
model-checked first (50 000 states).

*The user exit.* Until the log path is lost, a log that is not there is whole in the
archive (`LogsOrArchive`); how far the copy in progress is and what its end means
(`Copying`); a rollforward
has nothing but whole copies of what is in the archive (`Recoverable`). The archive may
hold parts of logs all the while; `ArchivedIsWhole` says that none of them is a log DB2
was told is archived.

*The ingest script.* A `.done` file is made last and nothing is loaded before it is
there (`DoneIsLast`); what a pass has found stays true (`Pass`); every load but the
last has cost a fault, and the last one too if the file will be loaded again
(`Paid`).

*The choice of the image.* `IInv` of `VendorCatalogProofs`: a query has returned a part
of the objects and holds one of them (`Looping`); `getLatestCopy` has seen a set of
objects, and what it keeps is the greatest of them (`BestOf`, `Choosing`), where the
set is the whole partition when the loop ends unless an error cut it short; the
objects counted are those of the second query that fit (`Counting`). The order of
the code (names of kinds first, then as much of the timestamps as `CNamelen` covers) is
shown to be a total preorder from the moment `CNamelen` is set (`Order`). That the
greatest is the newest is a consequence of `OneKindEach`: all names that are compared
have then one length, and no timestamp is cut (`NotCut`).

*Backup and choice together.* `CatalogIInv` puts `IInv` of `VendorBackupProofs`, about
the current backup, next to three parts about the store: what a backup that ended
left belongs to one that succeeded or is doubtful (`Kept`), every buffer of a
successful one is whole in one of its objects (`Whole`), and the choice starts from
that store (`Phases`). A step of the backup is `VendorBackup`'s own step, so its
inductive step is reused as it is; `BackupEnds` uses what `IInv` says of a backup
that has ended (`SuccessFollows`, `DelOkFollows`). The choice is then
`VendorSelect`'s, with the theorems above.

*The queue of jobs.* `IInv` of `JobControlProofs`: which child is forked, known to the
parent and over, at each place of the parent (`Positions`); how many are in
`childProcs` (`Limit`, the throttle is only kept because a child is recorded before
the next `wait`); what is in the file of each task (`Files`); and that `errorCount` is
the number of children that were waited for with a status taken for an error
(`Errors`).

*The monitor's sums.* `EveryRowCounted` compares sums over messages, listeners and
lines. The library's `SumFunctionOnSet` is a recursive function behind a CHOOSE, so
the lemmas `SumIs` to `SumOfRest` of `FeedProofs` first show that the function exists
(approximations for sets of fewer than n elements, for the least n without one) and
that a sum is any of its terms plus the sum of the others, though the definition
takes them off in an order of its own. `SumChanges` and `SumGrows` are what the steps
need: a listener's rows change, a message is received. In `sample2` the sum over the
lines is the count of one line (`OneLineCounts`), because the names differ, so
`LinesSorted` is part of the invariant.

*The monitor's steps.* `MonitorIInv` adds: the latch is held by the one thread that
reads and writes counts (`Latched`); the count such a thread has read is still the one
in the table when it writes (`Reading`), which is what `synchronized` is for; nothing
is received twice, and nothing stays with the event thread between two updates
(`Consumed`). The totals of `sample3` need an invariant of their own: those that are
not up to date are of the databases still to be calculated, of which there is none
between two updates (`Stale`).

*The binary search.* `loop` exists and ends because the part still searched shrinks
(`HalfSmaller`, `LoopExists`); the lines below low are smaller and those above high
greater than the key (`Brackets`); so it ends at the key's line or with low = high + 1
(`LoopFinds`), `RowFor` returns low then (`SearchFinds`), and a line inserted there
keeps the order (`LinePlaced`). `MonitorIInv` was model-checked before it was proved, on
the instance of `publication`.

*The FIFOs.* `FifoIInv` of `JobControlProofs`: who is forked and waited for at which
place (`FifoPositions`); a name is the FIFO the parent made or a plain file of the
child's (`FifoNames`); an undisturbed child gets past opening its FIFO only when the
parent reads it, and the parent reads on to the end (`FifoSoFar`).

*Only model-checked.* Liveness, which is beyond the prover: the liveness part of
`ImplementsPool`, `BackupConcludes`, `RestoreEnds`, `MergeEnds`,
`EventuallyArchived`, `EveryFileTried`, `ScriptEnds`, `ReturnsUndisturbed`,
`Returns`, `KillEnds`, `EventuallyShown`, `StopsWhenQuiet`. No safety property is left
to TLC alone. The least-counterexample arguments in the proofs (`LeastOf`) stand in for
the induction theorems of the library, which take an operator as a parameter and so
are out of the provers' reach.

## Assumptions about the environment

DB2 and the XBSA store are not in the repository. What the models assume comes
from the comments of the samples and the way they use the calls:

* DB2 refuses CONNECT and CONNECT RESET inside a unit of work; a COMMIT that
  fails may have left the unit of work open or rolled it back.
* `pthread_create`, attach and detach either work or end the process
  (`check_expected`).
* DB2 takes buffers from one queue, gives a buffer that was not acknowledged
  back to it, ends every session with `sqluvend`, and calls `sqluvdel` after a
  failed backup when all sessions are over.
* BSATerminate aborts an open transaction. A BSAEndTxn that fails may have
  committed all the same. Deletes take effect with their transaction.
* BSAGetObject opens the object and hands over no byte; BSAGetData fills the
  buffer as far as the object goes and reports the end with the last byte or
  with the call after it.
* A query answers in any order and may return objects of other partitions.
* `LogMerge`: a log flush sequence number belongs to one stream; 0 and the two
  highest are not in use; after the query's "other reason" path a read from LSN 0
  behaves like any read.
* `UserExit`: DB2 has one request at a time; a signal ends the running copy as
  well; the result of `close` is not looked at.
* `JobQueue`: SIGCHLD is not ignored; an alarm that arrives during a fork does
  not reach the child; a `die` inside a child under a caller's `eval` is left out,
  as is verbose output. A fork that fails makes the parent run the task and exit,
  as the code has it.
* `FifoReports`: a plain file that is opened between unlink and mkfifo may be read
  as far as it is written.
* `PublicationMonitor`: the listener reads a queue (`qName`), so that a message
  reaches one thread; on a topic each thread would have a subscription of its own
  and two threads would count twice. A broken connection stays broken. A row names
  its owner. A message of `queue` may be there or still to come: a `receive` may time out
  before any of them. No program of the repository calls `stop()`, and `start()` only
  the window's constructor; the model calls them at any time, as the listener's
  interface offers it.

## Where code and comments disagree

`restore_large` ends with a counterexample, against a sentence of the sources
quoted in `PROJECT.json` (`vendor.C:838`). These were met as well and have no run
of their own; each is a property that fails under the change given here:

| where | change | fails |
|---|---|---|
| `dbthrds.sqc:452`, CONNECT answers with a warning: status 0 without a statement | `pool`: `Answers <- Warning`, one context, two items | `TruthfulStatus` |
| `vendor.C:936`, BSASendData takes part of a chunk: SQLUV_OK for a buffer not written completely (":868 If this field ends up being less than buff_size, then do not return SQLUV_OK") | `backup`: `MayFail <- ShortWrite` | `PutOkMeansAllWritten` |
| `vendor.C:637`, the last malloc of `sqluvint` fails: session and transaction stay open | `backup`: `MayFail <- PtrFails` | `NoSessionLeft` |
| `vendor.C:1155`, BSAInit or the list walk of `sqluvdel` fails: SQLUV_OK although the image is there | `backup`: `MayFail <- DelListFails` | `DelOkMeansGone` |
| `vendor.C:1496`, a full and an incremental image: the greater name wins, not the newer image (":1426 Select the latest backup image.") | `select_image`: `FullAndIncremental`, `NoneGiven`, `FULLorINCR` | `LatestSelected` |
| `vendor.C:1492`, names are compared over the length of the first image's only: of a longer name the last digits of the timestamp do not count, and the older image may stay (":1426 Select the latest backup image.") | `select_image`: `TwoIncrements`, `NoneGiven`, `DBKinds = {}`, `TSPorINCR` | `LatestSelected` |
| `vendor.C:1511`, an error in the middle of `getLatestCopy` is dropped | `select_image`: `"latestNext"` in `MayFail` | `LatestSelected` |
| `vendor.C:515`, the objects of an image without a number 1 (left over, or of a backup whose first session wrote nothing) count for another image that fits the request | `catalog`: a request `{1, 2}` | `ChosenIsComplete` |
| `vendor.C:787`, an object no longer than the first read: SQLUV_IO_ERROR instead of the end | `restore_whole`: `Length <- Header` | `EndReported` |
| `db2uext2.cdisk:986`, `:828`-`:846` and `:715`: a signal, an error on the raw device or a failed rm leaves a part of a log in the archive; `RetrieveFile` gives it to DB2 with RC_OK (":706 If not removed, it is possible that the partial archived target file that left over might cause future confusion") | `user_exit` as it is | `NoPartialLog` |
| `db2uext2.cdisk:919`, an archive file that is there but cannot be opened is answered RC_OK, as if it were not archived ("File not in RETRIEVE_PATH, return OK to DB2") | `user_exit`: the premise of `RollforwardGetsAll` dropped | `RollforwardGetsAll` |
| `JobControl.pm:435`, the FIFO is made after the fork: a fast child leaves the parent waiting for ever | `fifo_reports`: one line, no faults | `ExitsAtTheEnd` |
| `JobControl.pm:82`, the result of `system` is shifted left by 8 bits and cut to 8 by exit: a failed command is not counted | `job_queue`: `Subs <- OnlyTasks` | `ErrorsCounted` |
| `JobControl.pm:58`, `kill -KILL` signals process groups that do not exist: the timeout ends nothing | `job_queue`: `Subs <- OnlyTasks` | `TimeoutEnds` |
| `PublicationListener.java:45`, "The listener thread will stop within 10 seconds": not while messages keep coming within 10 seconds of each other, nor when the connection is broken (`dispatchMsgs` catches and calls `receive` again), nor if `start()` comes first | `publication` with the premise of `StopsWhenQuiet` weakened | `StopsWhenQuiet` |

## Not modelled

* Known and left out: `-c` 0 or negative in `dbthrds.sqc:216`; the list in
  `sqluvdel` that is grown one object too late (`vendor.C:1184`); `sqluvget` when
  DB2 changes `obj_num` within a session (`vendor.C:744`; the sources do not say
  whether it does); `$throttle` 0 where the queue dies only if verbose
  (`JobControl.pm:102`, `:547`).
* `db2uext2.ctape`, `.ctsm`: the frame of the disk sample with tape positioning
  and the TSM API in it.
* `libacssc.sh` and `ACS_scripts`: shell steps in sequence whose return codes are
  lost in places (`libacssc.sh:159`, and `:241`, where a failed `rm` on delete leaves
  RC 0); `acs_tar.sh` does not run as it is (commented-out commands, a missing
  `done`), so that there is no behaviour of it to model.
* `loadFtpFtc.pl`: parallel children over pipes; `$rc` is overwritten for every
  child (`:204`), so that the last one decides.
* The SAX parser of the publication toolkit, its time shading and its dialogs.
* C++ twin `cpp/dbthrds.sqC`: the same program as the C one.
* Option parsing, messages, formatting, memory management, everywhere.
* The other components, for the reasons in `PROJECT.json`. Most of the
  repository's lines are sequential demonstrations of one statement or call,
  whose behaviour is in DB2; the models cover the programs that have one of their
  own.

## Plan

What would come next, in order:

1. `VendorCatalog` with `VendorRestore` behind it, so that the bytes of the
   restored image are compared with those of the backup.
2. The exact condition on an object's length under which `sqluvget` ends, in place
   of the lengths the runs of `VendorRestore` are given.
3. The history of the ACS scripts against what their archives hold; the
   Autoloader's children and pipes; the parser's state between two messages.
