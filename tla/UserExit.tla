-------------------------------- MODULE UserExit --------------------------------
(***************************************************************************)
(* c/db2uext2.cdisk: the user exit DB2 calls to archive a log file to disk *)
(* and to retrieve it, one request at a time.  A copy (cp, or read and     *)
(* write for a raw device) proceeds in pieces, any of which may fail or be *)
(* the last before a signal.  DB2, cp, mv and rm are modelled from the     *)
(* program's calls and its comments on what DB2 does with a return code.   *)
(***************************************************************************)
EXTENDS Integers

CONSTANTS Logs,         \* log files
          Pages,        \* pages of a log file
          BUFFER_SIZE,  \* pages read and written at a time on a raw device
          Faults,       \* faults and crashes in a behaviour, at most
          Settings      \* what the log path is, and which faults there are

\* "signal": SIGTERM or SIGINT.  "copy": a copy or mv fails.  "rm": rm fails.
\* "open": a file that is there cannot be opened.  "crash": DB2 goes down and may
\* forget which logs it was told are archived.  "disaster": the log path is lost,
\* and DB2 rolls forward through the archive.
Kinds == {"signal", "copy", "rm", "open", "crash", "disaster"}
Devices == {"directory", "raw"}

ASSUME UserExitAssumption ==
    /\ Pages \in Nat \ {0} /\ BUFFER_SIZE \in Nat \ {0} /\ Faults \in Nat
    /\ Settings \subseteq [device : Devices, faults : SUBSET Kinds]

Absent == -1
Contents == {Absent} \cup 0 .. Pages       \* pages a file has

VARIABLES
    setting,
    active,      \* logFilePath: <log>.LOG, or the log's place on the raw device
    temp,        \* logFilePath: <log>.TMP
    archive,     \* ARCHIVE_PATH, which is RETRIEVE_PATH as well
    recorded,    \* DB2: logs it was told are archived
    refused,     \* DB2: logs it will not try to archive before it is reopened
    answered,    \* DB2: logs whose retrieval was answered with RC_OK
    phase,       \* DB2: "normal" or "rollforward"
    request, logFile, pc, rc,
    logSize,     \* pages still to be copied from the raw device
    left         \* faults still to come

db2Vars == <<recorded, refused, answered, phase, request, logFile>>
fileVars == <<active, temp, archive>>
vars == <<setting, fileVars, db2Vars, pc, rc, logSize, left>>

Pcs == {"idle", "start", "cp", "check", "remove", "raw", "retrieve", "cp back",
        "check back", "mv", "exit"}
Rcs == {"RC_OK", "RC_UNKNOWN", "RC_OPCAN"}

Init == /\ setting \in Settings
        /\ active = [l \in Logs |-> Pages]
        /\ temp = [l \in Logs |-> Absent]
        /\ archive = [l \in Logs |-> Absent]
        /\ recorded = {} /\ refused = {} /\ answered = {} /\ phase = "normal"
        /\ request = "ARCHIVE" /\ logFile \in Logs
        /\ pc = "idle" /\ rc = "RC_OK" /\ logSize = 0 /\ left = Faults

Goto(label) == pc' = label /\ UNCHANGED <<rc, logSize>>
Exit(code) == pc' = "exit" /\ rc' = code /\ UNCHANGED logSize
Fault(kind) == kind \in setting.faults /\ left > 0 /\ left' = left - 1
-----------------------------------------------------------------------------
(* ArchiveFile, log path on a directory *)

\* Without a source cp leaves the target alone; else it truncates it first.
Cp == /\ pc = "start" /\ setting.device = "directory"
      /\ \/ /\ active[logFile] # Absent
            /\ archive' = [archive EXCEPT ![logFile] = 0]
            /\ Goto("cp") /\ UNCHANGED left
         \/ active[logFile] = Absent /\ Goto("check") /\ UNCHANGED <<archive, left>>
         \/ Fault("copy") /\ Goto("check") /\ UNCHANGED archive
      /\ UNCHANGED <<setting, active, temp, db2Vars>>

CpPiece ==
    /\ pc = "cp"
    /\ \/ /\ archive[logFile] < active[logFile]
          /\ archive' = [archive EXCEPT ![logFile] = @ + 1]
          /\ Goto("cp") /\ UNCHANGED left
       \/ /\ archive[logFile] = active[logFile]
          /\ Exit("RC_OK") /\ UNCHANGED <<archive, left>>
       \/ Fault("copy") /\ Goto("check") /\ UNCHANGED archive
    /\ UNCHANGED <<setting, active, temp, db2Vars>>

\* Mutants: a source that cannot be opened is taken for archived whatever errno
\* says, or never.
MissingRcAny(there) == "RC_OK"
MissingRcNever(there) == "RC_UNKNOWN"

MissingRc(there) == IF there THEN "RC_UNKNOWN" ELSE "RC_OK"

\* After a failed copy: is the source there?
Check == /\ pc = "check"
         /\ \/ /\ active[logFile] # Absent
               /\ Goto("remove") /\ UNCHANGED left
            \/ /\ active[logFile] = Absent
               /\ Exit(MissingRc(FALSE)) /\ UNCHANGED left
            \/ Fault("open") /\ Exit(MissingRc(active[logFile] # Absent))
         /\ UNCHANGED <<setting, fileVars, db2Vars>>

\* rm's return code is not looked at.
Remove == /\ pc = "remove"
          /\ \/ archive' = [archive EXCEPT ![logFile] = Absent] /\ UNCHANGED left
             \/ Fault("rm") /\ UNCHANGED archive
          /\ Exit("RC_UNKNOWN")
          /\ UNCHANGED <<setting, active, temp, db2Vars>>
-----------------------------------------------------------------------------
(* ArchiveFile, log path on a raw device *)

RawOpen == /\ pc = "start" /\ setting.device = "raw"
           /\ \/ /\ archive' = [archive EXCEPT ![logFile] = 0]
                 /\ pc' = "raw" /\ logSize' = Pages /\ UNCHANGED <<rc, left>>
              \/ Fault("open") /\ Exit("RC_UNKNOWN") /\ UNCHANGED archive
           /\ UNCHANGED <<setting, active, temp, db2Vars>>

BufferPages(size) == IF size > BUFFER_SIZE THEN BUFFER_SIZE ELSE size

\* A buffer is read and written; an error leaves what has been written.
RawPiece ==
    /\ pc = "raw"
    /\ LET pages == BufferPages(logSize) IN
       \/ /\ logSize > 0
          /\ archive' = [archive EXCEPT ![logFile] = @ + pages]
          /\ logSize' = IF logSize > BUFFER_SIZE THEN logSize - BUFFER_SIZE ELSE 0
          /\ UNCHANGED <<pc, rc, left>>
       \/ /\ logSize > 0 /\ Fault("copy")
          /\ \E written \in 0 .. pages - 1 :
                archive' = [archive EXCEPT ![logFile] = @ + written]
          /\ Exit("RC_UNKNOWN")
       \/ logSize = 0 /\ Exit("RC_OK") /\ UNCHANGED <<archive, left>>
    /\ UNCHANGED <<setting, active, temp, db2Vars>>
-----------------------------------------------------------------------------
(* RetrieveFile *)

\* Mutant: the return code of cp is not looked at.
AfterFailedCpAny == IF temp[logFile] = Absent THEN "check back" ELSE "mv"

AfterFailedCp == "check back"

CpBack == /\ pc = "retrieve"
          /\ \/ /\ archive[logFile] # Absent
                /\ temp' = [temp EXCEPT ![logFile] = 0]
                /\ Goto("cp back") /\ UNCHANGED left
             \/ /\ archive[logFile] = Absent
                /\ Goto(AfterFailedCp) /\ UNCHANGED <<temp, left>>
             \/ Fault("copy") /\ Goto(AfterFailedCp) /\ UNCHANGED temp
          /\ UNCHANGED <<setting, active, archive, db2Vars>>

CpBackPiece ==
    /\ pc = "cp back"
    /\ \/ /\ temp[logFile] < archive[logFile]
          /\ temp' = [temp EXCEPT ![logFile] = @ + 1]
          /\ Goto("cp back") /\ UNCHANGED left
       \/ /\ temp[logFile] = archive[logFile]
          /\ Goto("mv") /\ UNCHANGED <<temp, left>>
       \/ Fault("copy") /\ Goto(AfterFailedCp) /\ UNCHANGED temp
    /\ UNCHANGED <<setting, active, archive, db2Vars>>

\* Mutant: RC_OK, as if the file were not in the archive.
PresentRcOk == "RC_OK"

PresentRc == "RC_UNKNOWN"

\* A file that cannot be opened counts as not archived, whatever the reason.
CheckBack == /\ pc = "check back"
             /\ \/ archive[logFile] # Absent /\ Exit(PresentRc) /\ UNCHANGED left
                \/ archive[logFile] = Absent /\ Exit("RC_OK") /\ UNCHANGED left
                \/ Fault("open") /\ Exit("RC_OK")
             /\ UNCHANGED <<setting, fileVars, db2Vars>>

Mv == /\ pc = "mv"
      /\ \/ /\ active' = [active EXCEPT ![logFile] = temp[logFile]]
            /\ temp' = [temp EXCEPT ![logFile] = Absent]
            /\ Exit("RC_OK") /\ UNCHANGED left
         \/ Fault("copy") /\ Exit("RC_UNKNOWN") /\ UNCHANGED <<active, temp>>
      /\ UNCHANGED <<setting, archive, db2Vars>>
-----------------------------------------------------------------------------
(* Signals, and DB2 *)

\* SignalEnd: the user exit and its copy end where they are.
SignalEnd == /\ pc \notin {"idle", "exit"} /\ Fault("signal")
             /\ Exit("RC_OPCAN")
             /\ UNCHANGED <<setting, fileVars, db2Vars>>

\* The logs DB2 asks the user exit to archive; a log is not asked for again
\* after an error until the database has been reopened.
RequestArchive ==
    /\ pc = "idle" /\ phase = "normal"
    /\ request' = "ARCHIVE"
    /\ logFile' \in Logs \ (recorded \cup refused)
    /\ Goto("start")
    /\ UNCHANGED <<setting, fileVars, recorded, refused, answered, phase, left>>

\* DB2 needs a log it has reused, or rolls forward.
RequestRetrieve ==
    /\ pc = "idle"
    /\ request' = "RETRIEVE"
    /\ logFile' \in {l \in Logs : active[l] = Absent}
    /\ \/ phase = "rollforward" /\ logFile' \notin answered
       \/ phase = "normal" /\ setting.device = "directory" /\ logFile' \in recorded
    /\ Goto("retrieve")
    /\ UNCHANGED <<setting, fileVars, recorded, refused, answered, phase, left>>

Answer ==
    /\ pc = "exit"
    /\ IF request = "ARCHIVE"
       THEN /\ recorded' = IF rc = "RC_OK" THEN recorded \cup {logFile} ELSE recorded
            /\ refused' = IF rc = "RC_OK" THEN refused ELSE refused \cup {logFile}
            /\ UNCHANGED answered
       ELSE /\ answered' = IF rc = "RC_OK" /\ phase = "rollforward"
                           THEN answered \cup {logFile} ELSE answered
            /\ UNCHANGED <<recorded, refused>>
    /\ pc' = "idle" /\ rc' = "RC_OK" /\ logSize' = 0
    /\ UNCHANGED <<setting, fileVars, phase, request, logFile, left>>

Reopen == /\ pc = "idle" /\ refused # {}
          /\ refused' = {}
          /\ UNCHANGED <<setting, fileVars, recorded, answered, phase, request,
                         logFile, pc, rc, logSize, left>>

\* DB2 reuses the place of a log it was told is archived.
Reuse == /\ pc = "idle" /\ phase = "normal"
         /\ \E l \in recorded : /\ active[l] # Absent
                                /\ active' = [active EXCEPT ![l] = Absent]
         /\ UNCHANGED <<setting, temp, archive, db2Vars, pc, rc, logSize, left>>

\* An answer not read yet is lost, and so may be the record of earlier ones;
\* on a raw device not that of a log whose place has been reused.
Crash == /\ pc \in {"idle", "exit"} /\ phase = "normal" /\ Fault("crash")
         /\ \E kept \in SUBSET recorded :
               /\ setting.device = "raw" =>
                     \A l \in recorded \ kept : active[l] # Absent
               /\ recorded' = kept
         /\ refused' = {}
         /\ pc' = "idle" /\ rc' = "RC_OK" /\ logSize' = 0
         /\ UNCHANGED <<setting, fileVars, answered, phase, request, logFile>>

Disaster == /\ pc = "idle" /\ phase = "normal" /\ Fault("disaster")
            /\ active' = [l \in Logs |-> Absent]
            /\ temp' = [l \in Logs |-> Absent]
            /\ phase' = "rollforward"
            /\ UNCHANGED <<setting, archive, recorded, refused, answered, request,
                           logFile, pc, rc, logSize>>

Program == Cp \/ CpPiece \/ Check \/ Remove \/ RawOpen \/ RawPiece \/ CpBack
           \/ CpBackPiece \/ CheckBack \/ Mv

Done == pc = "idle" /\ UNCHANGED vars

Next == \/ Program \/ SignalEnd \/ RequestArchive \/ RequestRetrieve \/ Answer
        \/ Reopen \/ Reuse \/ Crash \/ Disaster \/ Done

\* The user exit runs on; DB2 reads its answer, asks for the logs that are not
\* archived, is reopened some time and finishes a rollforward.
Spec == /\ Init /\ [][Next]_vars
        /\ WF_vars(Program) /\ WF_vars(Answer)
        /\ SF_vars(RequestArchive) /\ SF_vars(Reopen)
-----------------------------------------------------------------------------
(* Properties *)

\* Every variable keeps its type; no file is longer than the log.
TypeOK == /\ setting \in Settings
          /\ active \in [Logs -> Contents] /\ temp \in [Logs -> Contents]
          /\ archive \in [Logs -> Contents]
          /\ recorded \subseteq Logs /\ refused \subseteq Logs
          /\ answered \subseteq Logs /\ phase \in {"normal", "rollforward"}
          /\ request \in {"ARCHIVE", "RETRIEVE"} /\ logFile \in Logs
          /\ pc \in Pcs /\ rc \in Rcs
          /\ logSize \in 0 .. Pages /\ left \in 0 .. Faults

\* RC_OK to an archive request means that the whole log is in the archive, and
\* it stays there: also if DB2 asks again after a crash, when the answer may
\* rest on the source being gone, and whatever copies fail or are cut short.
ArchivedIsWhole == \A l \in recorded : archive[l] = Pages

\* A retrieve leaves a whole copy of what the archive has under <log>.LOG, or
\* nothing: wherever its cp ended or was killed, what it wrote stays in <log>.TMP.
\* And the part of a log that a failed archive left over, which a rollforward does
\* get, is never passed off as a log that DB2 was told is archived.
NoTornLog == \A l \in Logs : \/ active[l] \in {Absent, Pages}
                             \/ active[l] = archive[l] /\ l \notin recorded

\* "Remove the archive target if archive fails. If not removed, it is possible
\* that the partial archived target file that left over might cause future
\* confusion": no part of a log is ever retrieved as the log.  It is, after a
\* signal, after an error on the raw device, and if rm fails.
NoPartialLog == \A l \in Logs : active[l] \in {Absent, Pages}

\* A rollforward after the loss of the log path gets every log that DB2 was
\* told is archived, whatever copies fail or are cut short, before and after the
\* loss; unless an archived file cannot be opened, which RetrieveFile takes for
\* "File not in RETRIEVE_PATH" and answers with RC_OK.
RollforwardGetsAll ==
    "open" \notin setting.faults =>
        \A l \in answered \cap recorded : active[l] = Pages

\* Once the faults are over every log gets archived.
EventuallyArchived == <>(recorded = Logs \/ phase = "rollforward")
=============================================================================
