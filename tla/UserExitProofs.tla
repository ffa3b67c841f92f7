----------------------------- MODULE UserExitProofs -----------------------------
(***************************************************************************)
(* The safety of UserExit for any logs, any size of log and buffer, and    *)
(* any number of faults.                                                   *)
(***************************************************************************)
EXTENDS UserExit, TLAPS

(* The inductive invariant, in named parts. *)

Archiving == {"start", "cp", "check", "remove", "raw"}
Retrieving == {"retrieve", "cp back", "check back", "mv"}

\* Which request is served, and what DB2 knows of its log.
Requested ==
    /\ pc \in Archiving => request = "ARCHIVE"
    /\ pc \in Retrieving => request = "RETRIEVE"
    /\ pc # "idle" /\ request = "ARCHIVE" => phase = "normal" /\ logFile \notin recorded
    /\ pc \in Retrieving /\ phase = "normal" => logFile \in recorded
    /\ phase = "normal" => answered = {}
    /\ phase = "rollforward" => "disaster" \in setting.faults
    /\ pc = "raw" => setting.device = "raw"

\* Until the log path is lost: a log that is not there is in the archive.
LogsOrArchive ==
    phase = "normal" =>
        \A l \in Logs : /\ active[l] \in {Absent, Pages}
                        /\ active[l] = Absent => archive[l] = Pages
                        /\ active[l] = Absent /\ setting.device = "raw" => l \in recorded

\* How far the copy in progress is, and what its end means.
Copying ==
    /\ pc \in {"cp", "remove", "raw"} => active[logFile] = Pages
    /\ pc = "cp" => archive[logFile] # Absent
    /\ pc = "raw" => archive[logFile] + logSize = Pages /\ archive[logFile] # Absent
    /\ pc = "exit" /\ rc = "RC_OK" /\ request = "ARCHIVE" => archive[logFile] = Pages
    /\ pc = "cp back" => temp[logFile] # Absent /\ temp[logFile] <= archive[logFile]
    /\ pc = "mv" => temp[logFile] = archive[logFile] /\ archive[logFile] # Absent

\* What a rollforward has got: only what is in the archive, which does not change
\* any more.
Recoverable ==
    /\ phase = "rollforward" => \A l \in Logs : active[l] \in {Absent, archive[l]}
    /\ "open" \notin setting.faults =>
          (phase = "rollforward" /\ pc = "exit" /\ rc = "RC_OK" /\ logFile \in recorded =>
              active[logFile] = Pages)
    /\ RollforwardGetsAll

IInv == TypeOK /\ Requested /\ LogsOrArchive /\ Copying /\ ArchivedIsWhole /\ Recoverable
-----------------------------------------------------------------------------
\* What the proofs use of the constants.
LEMMA ConstTypes == /\ Pages \in Nat /\ BUFFER_SIZE \in Nat /\ Faults \in Nat
                    /\ Pages > 0 /\ BUFFER_SIZE > 0
<1> QED BY UserExitAssumption

\* A file that is copied, moved or removed has a number of pages, or is absent.
LEMMA FileTypes ==
  ASSUME NEW f \in [Logs -> Contents], NEW l \in Logs, NEW c \in Contents
  PROVE  [f EXCEPT ![l] = c] \in [Logs -> Contents]
<1> QED OBVIOUS

\* The sizes a file can have.
LEMMA PagesAreContents ==
  /\ Absent \in Contents /\ Absent \notin 0 .. Pages /\ Absent \in Int
  /\ 0 \in Contents /\ Pages \in Contents
  /\ \A c \in Contents : c \in Int /\ -1 <= c /\ c <= Pages /\ (c # Absent => c \in 0 .. Pages)
  /\ Absent = -1
  /\ \A n \in 0 .. Pages : n \in Contents
<1> QED BY UserExitAssumption DEF Absent, Contents

\* A copy that is shorter than its source can grow.
LEMMA OnePageMore ==
  ASSUME NEW a \in Contents, NEW b \in Contents, a < b
  PROVE  a + 1 \in Contents
<1> QED BY UserExitAssumption DEF Absent, Contents

\* Every fault is counted.
LEMMA FaultTypes ==
  ASSUME TypeOK, NEW kind, UNCHANGED left \/ Fault(kind)
  PROVE  left' \in 0 .. Faults
<1> QED BY UserExitAssumption DEF TypeOK, Fault

\* A file that is there has pages; one that is not cannot be taken for one.
LEMMA NoneIsAbsent == 0 # Absent /\ Pages # Absent /\ \A n \in Nat : n # Absent
<1> QED BY ConstTypes DEF Absent

\* The copy from the raw device: what is left and what has been written.
LEMMA RawFacts ==
  ASSUME IInv, pc = "raw"
  PROVE  /\ archive \in [Logs -> Contents] /\ logFile \in Logs /\ active[logFile] = Pages
         /\ archive[logFile] \in Nat /\ logSize \in Nat /\ archive[logFile] + logSize = Pages
<1>1. /\ archive \in [Logs -> Contents] /\ logFile \in Logs /\ logSize \in 0 .. Pages
  BY DEF IInv, TypeOK
<1>2. /\ active[logFile] = Pages /\ archive[logFile] # Absent
      /\ archive[logFile] + logSize = Pages
  BY DEF IInv, Copying
<1>3. archive[logFile] \in 0 .. Pages
  BY <1>1, <1>2, PagesAreContents
<1> QED BY <1>1, <1>2, <1>3, ConstTypes

\* Files stay within the size of a log, through every piece that is copied.
LEMMA TypeOKStep ==
  ASSUME IInv, [Next]_vars
  PROVE  TypeOK'
<1>1. CASE Cp
  <2>1. archive' \in [Logs -> Contents]
    BY <1>1, FileTypes, PagesAreContents DEF IInv, TypeOK, Cp
  <2>2. left' \in 0 .. Faults
    BY <1>1, FaultTypes DEF IInv, TypeOK, Cp
  <2> QED BY <1>1, <2>1, <2>2 DEF IInv, TypeOK, Cp, Goto, db2Vars, Pcs, Rcs
<1>2. CASE CpPiece
  <2>1. /\ archive[logFile] \in Contents /\ active[logFile] \in Contents
        /\ archive \in [Logs -> Contents] /\ logFile \in Logs
    BY DEF IInv, TypeOK
  <2>2. archive[logFile] < active[logFile] => archive[logFile] + 1 \in Contents
    BY <2>1, OnePageMore
  <2>3. archive' \in [Logs -> Contents]
    BY <1>2, <2>1, <2>2, FileTypes DEF IInv, TypeOK, CpPiece
  <2>4. left' \in 0 .. Faults
    BY <1>2, FaultTypes DEF IInv, TypeOK, CpPiece
  <2> QED BY <1>2, <2>3, <2>4 DEF IInv, TypeOK, CpPiece, Goto, Exit, db2Vars, Pcs, Rcs
<1>3. CASE Check
  BY <1>3, FaultTypes DEF IInv, TypeOK, Check, Goto, Exit, MissingRc, db2Vars, fileVars,
                          Pcs, Rcs
<1>4. CASE Remove
  BY <1>4, FileTypes, FaultTypes, PagesAreContents
     DEF IInv, TypeOK, Remove, Exit, db2Vars, Pcs, Rcs
<1>5. CASE RawOpen
  <2>1. archive' \in [Logs -> Contents]
    BY <1>5, FileTypes, PagesAreContents DEF IInv, TypeOK, RawOpen
  <2>2. left' \in 0 .. Faults
    BY <1>5, FaultTypes DEF IInv, TypeOK, RawOpen
  <2>3. logSize' \in 0 .. Pages
    BY <1>5, ConstTypes DEF IInv, TypeOK, RawOpen, Exit
  <2>4. pc' \in Pcs /\ rc' \in Rcs
    BY <1>5 DEF IInv, TypeOK, RawOpen, Exit, Pcs, Rcs
  <2> QED BY <1>5, <2>1, <2>2, <2>3, <2>4 DEF IInv, TypeOK, RawOpen, db2Vars
<1>6. CASE RawPiece
  <2>1. /\ archive[logFile] + logSize = Pages /\ archive[logFile] \in Nat
        /\ archive \in [Logs -> Contents] /\ logFile \in Logs /\ logSize \in Nat
    BY <1>6, RawFacts DEF RawPiece
  <2>2. /\ BufferPages(logSize) \in 0 .. logSize
        /\ \A n \in 0 .. BufferPages(logSize) : archive[logFile] + n \in 0 .. Pages
    BY <2>1, ConstTypes DEF BufferPages
  <2>3. \A n \in 0 .. BufferPages(logSize) : archive[logFile] + n \in Contents
    BY <2>2, PagesAreContents
  <2>4. archive' \in [Logs -> Contents]
    <3>1. CASE archive' = [archive EXCEPT ![logFile] = @ + BufferPages(logSize)]
      BY <2>1, <2>2, <2>3, <3>1
    <3>2. CASE \E written \in 0 .. BufferPages(logSize) - 1 :
                  archive' = [archive EXCEPT ![logFile] = @ + written]
      BY <2>1, <2>2, <2>3, <3>2
    <3> QED BY <1>6, <2>1, <3>1, <3>2 DEF IInv, TypeOK, RawPiece
  <2>5. left' \in 0 .. Faults
    BY <1>6, FaultTypes DEF IInv, TypeOK, RawPiece
  <2>6. logSize' \in 0 .. Pages
    BY <1>6, ConstTypes DEF IInv, TypeOK, RawPiece, Exit
  <2> QED BY <1>6, <2>4, <2>5, <2>6 DEF IInv, TypeOK, RawPiece, Exit, db2Vars, Pcs, Rcs
<1>7. CASE CpBack
  <2>1. temp' \in [Logs -> Contents]
    BY <1>7, FileTypes, PagesAreContents DEF IInv, TypeOK, CpBack
  <2>2. left' \in 0 .. Faults
    BY <1>7, FaultTypes DEF IInv, TypeOK, CpBack
  <2> QED BY <1>7, <2>1, <2>2 DEF IInv, TypeOK, CpBack, Goto, AfterFailedCp, db2Vars, Pcs, Rcs
<1>8. CASE CpBackPiece
  <2>1. /\ archive[logFile] \in Contents /\ temp[logFile] \in Contents
        /\ temp \in [Logs -> Contents] /\ logFile \in Logs
    BY DEF IInv, TypeOK
  <2>2. temp[logFile] < archive[logFile] => temp[logFile] + 1 \in Contents
    BY <2>1, OnePageMore
  <2>3. temp' \in [Logs -> Contents]
    BY <1>8, <2>1, <2>2, FileTypes DEF IInv, TypeOK, CpBackPiece
  <2>4. left' \in 0 .. Faults
    BY <1>8, FaultTypes DEF IInv, TypeOK, CpBackPiece
  <2> QED BY <1>8, <2>3, <2>4 DEF IInv, TypeOK, CpBackPiece, Goto, AfterFailedCp, db2Vars,
                                      Pcs, Rcs
<1>9. CASE CheckBack
  BY <1>9, FaultTypes DEF IInv, TypeOK, CheckBack, Exit, PresentRc, db2Vars, fileVars,
                          Pcs, Rcs
<1>10. CASE Mv
  <2>1. active' \in [Logs -> Contents]
    BY <1>10, FileTypes, PagesAreContents DEF IInv, TypeOK, Mv
  <2>2. temp' \in [Logs -> Contents]
    BY <1>10, FileTypes, PagesAreContents DEF IInv, TypeOK, Mv
  <2>3. left' \in 0 .. Faults
    BY <1>10, FaultTypes DEF IInv, TypeOK, Mv
  <2> QED BY <1>10, <2>1, <2>2, <2>3 DEF IInv, TypeOK, Mv, Exit, db2Vars, Pcs, Rcs
<1>11. CASE SignalEnd
  BY <1>11, FaultTypes DEF IInv, TypeOK, SignalEnd, Exit, db2Vars, fileVars, Pcs, Rcs
<1>12. CASE RequestArchive
  BY <1>12 DEF IInv, TypeOK, RequestArchive, Goto, fileVars, Pcs, Rcs
<1>13. CASE RequestRetrieve
  BY <1>13 DEF IInv, TypeOK, RequestRetrieve, Goto, fileVars, Pcs, Rcs
<1>14. CASE Answer
  BY <1>14, FileTypes, PagesAreContents DEF IInv, TypeOK, Answer, fileVars, Pcs, Rcs
<1>15. CASE Reopen
  BY <1>15 DEF IInv, TypeOK, Reopen, fileVars
<1>16. CASE Reuse
  BY <1>16, FileTypes, PagesAreContents DEF IInv, TypeOK, Reuse, db2Vars
<1>17. CASE Crash
  <2>1. left' \in 0 .. Faults
    BY <1>17, FaultTypes DEF IInv, TypeOK, Crash
  <2>2. recorded' \subseteq Logs
    BY <1>17 DEF IInv, TypeOK, Crash
  <2>3. logSize' \in 0 .. Pages
    BY <1>17, ConstTypes DEF IInv, TypeOK, Crash
  <2> QED BY <1>17, <2>1, <2>2, <2>3 DEF IInv, TypeOK, Crash, fileVars, Pcs, Rcs
<1>18. CASE Disaster
  BY <1>18, FileTypes, PagesAreContents, FaultTypes DEF IInv, TypeOK, Disaster, vars
<1>19. CASE UNCHANGED vars
  BY <1>19 DEF IInv, TypeOK, vars, fileVars, db2Vars
<1> QED BY <1>1, <1>2, <1>3, <1>4, <1>5, <1>6, <1>7, <1>8, <1>9, <1>10, <1>11, <1>12,
           <1>13, <1>14, <1>15, <1>16, <1>17, <1>18, <1>19 DEF Next, Program, Done

\* Only the request that is served moves the program on.
LEMMA RequestedStep ==
  ASSUME IInv, [Next]_vars
  PROVE  Requested'
<1>1. CASE Cp
  BY <1>1 DEF Cp, Goto, db2Vars, IInv, TypeOK, Archiving, Retrieving, Requested
<1>2. CASE CpPiece
  BY <1>2 DEF CpPiece, Goto, Exit, db2Vars, IInv, TypeOK, Archiving, Retrieving,
              Requested
<1>3. CASE Check
  BY <1>3 DEF Check, Goto, Exit, MissingRc, db2Vars, fileVars, IInv, TypeOK, Archiving,
              Retrieving, Requested
<1>4. CASE Remove
  BY <1>4 DEF Remove, Exit, db2Vars, IInv, TypeOK, Archiving, Retrieving,
              Requested
<1>5. CASE RawOpen
  BY <1>5 DEF RawOpen, Exit, db2Vars, IInv, TypeOK, Archiving, Retrieving, Requested
<1>6. CASE RawPiece
  BY <1>6 DEF RawPiece, Exit, BufferPages, db2Vars, IInv, TypeOK, Archiving, Retrieving,
              Requested
<1>7. CASE CpBack
  BY <1>7 DEF CpBack, Goto, AfterFailedCp, db2Vars, IInv, TypeOK, Archiving, Retrieving,
              Requested
<1>8. CASE CpBackPiece
  BY <1>8 DEF CpBackPiece, Goto, AfterFailedCp, db2Vars, IInv, TypeOK, Archiving,
              Retrieving, Requested
<1>9. CASE CheckBack
  BY <1>9 DEF CheckBack, Exit, PresentRc, db2Vars, fileVars, IInv, TypeOK, Archiving,
              Retrieving, Requested
<1>10. CASE Mv
  BY <1>10 DEF Mv, Exit, db2Vars, IInv, TypeOK, Archiving, Retrieving, Requested
<1>11. CASE SignalEnd
  BY <1>11 DEF SignalEnd, Exit, db2Vars, fileVars, IInv, TypeOK, Archiving, Retrieving,
               Requested
<1>12. CASE RequestArchive
  BY <1>12 DEF RequestArchive, Goto, fileVars, IInv, TypeOK, Archiving, Retrieving,
               Requested
<1>13. CASE RequestRetrieve
  BY <1>13 DEF RequestRetrieve, Goto, fileVars, IInv, TypeOK, Archiving, Retrieving,
               Requested
<1>14. CASE Answer
  BY <1>14 DEF Answer, fileVars, IInv, TypeOK, Archiving, Retrieving, Requested
<1>15. CASE Reopen
  BY <1>15 DEF Reopen, fileVars, IInv, TypeOK, Archiving, Retrieving, Requested
<1>16. CASE Reuse
  BY <1>16 DEF Reuse, db2Vars, IInv, TypeOK, Archiving, Retrieving, Requested
<1>17. CASE Crash
  BY <1>17 DEF Crash, fileVars, IInv, TypeOK, Archiving, Retrieving, Requested
<1>18. CASE Disaster
  BY <1>18 DEF Disaster, Fault, IInv, TypeOK, Archiving, Retrieving, Requested
<1>19. CASE UNCHANGED vars
  BY <1>19 DEF vars, fileVars, db2Vars, IInv, TypeOK, Archiving, Retrieving, Requested
<1> QED BY <1>1, <1>2, <1>3, <1>4, <1>5, <1>6, <1>7, <1>8, <1>9, <1>10, <1>11, <1>12,
           <1>13, <1>14, <1>15, <1>16, <1>17, <1>18, <1>19 DEF Next, Program, Done

\* DB2 reuses a log's place only after an answer that rests on the whole archive file.
LEMMA LogsOrArchiveStep ==
  ASSUME IInv, [Next]_vars
  PROVE  LogsOrArchive'
<1>1. CASE Cp
  BY <1>1 DEF Cp, db2Vars, IInv, TypeOK, LogsOrArchive
<1>2. CASE CpPiece
  BY <1>2 DEF CpPiece, Exit, db2Vars, IInv, TypeOK, Copying, LogsOrArchive
<1>3. CASE Check
  BY <1>3 DEF Check, Exit, MissingRc, db2Vars, fileVars, IInv, TypeOK, LogsOrArchive
<1>4. CASE Remove
  BY <1>4 DEF Remove, Exit, db2Vars, IInv, TypeOK, Copying, LogsOrArchive
<1>5. CASE RawOpen
  BY <1>5 DEF RawOpen, Exit, db2Vars, IInv, TypeOK, Requested, Archiving, Retrieving,
              LogsOrArchive
<1>6. CASE RawPiece
  BY <1>6 DEF RawPiece, Exit, BufferPages, db2Vars, IInv, TypeOK, Copying, LogsOrArchive
<1>7. CASE CpBack
  BY <1>7 DEF CpBack, db2Vars, IInv, TypeOK, LogsOrArchive
<1>8. CASE CpBackPiece
  BY <1>8 DEF CpBackPiece, db2Vars, IInv, TypeOK, LogsOrArchive
<1>9. CASE CheckBack
  BY <1>9 DEF CheckBack, Exit, PresentRc, db2Vars, fileVars, IInv, TypeOK, LogsOrArchive
<1>10. CASE Mv
  BY <1>10 DEF Mv, Exit, db2Vars, IInv, TypeOK, Requested, ArchivedIsWhole, Copying,
               Archiving, Retrieving, LogsOrArchive
<1>11. CASE SignalEnd
  BY <1>11 DEF SignalEnd, Exit, db2Vars, fileVars, IInv, TypeOK, LogsOrArchive
<1>12. CASE RequestArchive
  BY <1>12 DEF RequestArchive, fileVars, IInv, TypeOK, LogsOrArchive
<1>13. CASE RequestRetrieve
  BY <1>13 DEF RequestRetrieve, fileVars, IInv, TypeOK, LogsOrArchive
<1>14. CASE Answer
  BY <1>14 DEF Answer, fileVars, IInv, TypeOK, LogsOrArchive
<1>15. CASE Reopen
  BY <1>15 DEF Reopen, fileVars, IInv, TypeOK, LogsOrArchive
<1>16. CASE Reuse
  BY <1>16 DEF Reuse, db2Vars, IInv, TypeOK, ArchivedIsWhole, LogsOrArchive
<1>17. CASE Crash
  BY <1>17 DEF Crash, fileVars, IInv, TypeOK, LogsOrArchive
<1>18. CASE Disaster
  BY <1>18 DEF Disaster, IInv, TypeOK, LogsOrArchive
<1>19. CASE UNCHANGED vars
  BY <1>19 DEF vars, fileVars, db2Vars, IInv, TypeOK, LogsOrArchive
<1> QED BY <1>1, <1>2, <1>3, <1>4, <1>5, <1>6, <1>7, <1>8, <1>9, <1>10, <1>11, <1>12,
           <1>13, <1>14, <1>15, <1>16, <1>17, <1>18, <1>19 DEF Next, Program, Done

\* A copy gains a piece at a time and counts as done only at the size of its source.
LEMMA CopyingStep ==
  ASSUME IInv, [Next]_vars
  PROVE  Copying'
<1>1. CASE Cp
  <2>1. active[logFile] \in {Absent, Pages}
    BY <1>1 DEF Cp, TypeOK, IInv, Requested, LogsOrArchive, ArchivedIsWhole, Copying,
                Archiving, Retrieving
  <2>2. pc' = "cp" => active[logFile] # Absent /\ archive'[logFile] = 0
    BY <1>1 DEF Cp, Goto, IInv, TypeOK
  <2>3. pc' \in {"cp", "check"} /\ UNCHANGED <<active, temp, logFile, request>>
    BY <1>1 DEF Cp, Goto, db2Vars
  <2> QED BY <2>1, <2>2, <2>3, NoneIsAbsent DEF Copying
<1>2. CASE CpPiece
  <2>1. /\ archive[logFile] \in 0 .. Pages /\ active[logFile] = Pages
        /\ archive \in [Logs -> Contents] /\ logFile \in Logs
    BY <1>2, PagesAreContents DEF CpPiece, Copying, IInv, TypeOK
  <2>2. UNCHANGED <<active, temp, logFile, request>>
    BY <1>2 DEF CpPiece, db2Vars
  <2>3. CASE pc' = "cp" /\ archive' = [archive EXCEPT ![logFile] = @ + 1]
    <3>1. archive'[logFile] \in Nat
      BY <2>1, <2>3, ConstTypes
    <3> QED BY <2>1, <2>2, <2>3, <3>1, PagesAreContents DEF Copying, Absent
  <2>4. CASE pc' = "exit" /\ archive[logFile] = active[logFile] /\ UNCHANGED archive
    BY <2>1, <2>2, <2>4 DEF Copying
  <2>5. CASE pc' = "check"
    BY <2>2, <2>5 DEF Copying
  <2> QED BY <1>2, <2>3, <2>4, <2>5 DEF CpPiece, Goto, Exit
<1>3. CASE Check
  BY <1>3 DEF Check, Goto, Exit, MissingRc, db2Vars, fileVars, IInv, TypeOK, Requested,
              LogsOrArchive, Archiving, Retrieving, Copying
<1>4. CASE Remove
  BY <1>4 DEF Remove, Exit, db2Vars, IInv, TypeOK, Copying
<1>5. CASE RawOpen
  <2>1. active[logFile] = Pages /\ archive \in [Logs -> Contents] /\ logFile \in Logs
    BY <1>5 DEF RawOpen, TypeOK, IInv, Requested, LogsOrArchive, ArchivedIsWhole,
                Copying, Archiving, Retrieving
  <2>2. UNCHANGED <<active, temp, logFile, request>>
    BY <1>5 DEF RawOpen, db2Vars
  <2>3. CASE pc' = "raw" /\ archive' = [archive EXCEPT ![logFile] = 0] /\ logSize' = Pages
    <3>1. archive'[logFile] = 0
      BY <2>1, <2>3
    <3> QED BY <2>1, <2>2, <2>3, <3>1, ConstTypes, PagesAreContents DEF Copying
  <2>4. CASE pc' = "exit" /\ rc' = "RC_UNKNOWN"
    BY <2>2, <2>4 DEF Copying
  <2> QED BY <1>5, <2>3, <2>4 DEF RawOpen, Exit
<1>6. CASE RawPiece
  <2>1. /\ active[logFile] = Pages /\ archive[logFile] \in Nat /\ pc = "raw"
        /\ archive[logFile] + logSize = Pages /\ logSize \in Nat
        /\ archive \in [Logs -> Contents] /\ logFile \in Logs
    BY <1>6, RawFacts DEF RawPiece
  <2>2. UNCHANGED <<active, temp, logFile, request>>
    BY <1>6 DEF RawPiece, db2Vars
  <2>3. CASE /\ logSize > 0 /\ pc' = pc
             /\ archive' = [archive EXCEPT ![logFile] = @ + BufferPages(logSize)]
             /\ logSize' = IF logSize > BUFFER_SIZE THEN logSize - BUFFER_SIZE ELSE 0
    <3>1. archive'[logFile] = archive[logFile] + BufferPages(logSize)
      BY <2>1, <2>3
    <3>2. BufferPages(logSize) + logSize' = logSize /\ BufferPages(logSize) \in Nat
      BY <2>1, <2>3, ConstTypes DEF BufferPages
    <3>3. archive'[logFile] + logSize' = Pages /\ archive'[logFile] \in Nat
      BY <2>1, <2>3, <3>1, <3>2, ConstTypes
    <3> QED BY <2>1, <2>2, <2>3, <3>3, NoneIsAbsent DEF Copying
  <2>4. CASE pc' = "exit" /\ rc' = "RC_UNKNOWN"
    BY <2>2, <2>4 DEF Copying
  <2>5. CASE pc' = "exit" /\ logSize = 0 /\ UNCHANGED archive
    BY <2>1, <2>2, <2>5 DEF Copying
  <2> QED BY <1>6, <2>3, <2>4, <2>5 DEF RawPiece, Exit
<1>7. CASE CpBack
  <2>1. /\ UNCHANGED <<active, archive, logFile, request>>
        /\ archive \in [Logs -> Contents] /\ temp \in [Logs -> Contents] /\ logFile \in Logs
    BY <1>7 DEF CpBack, db2Vars, IInv, TypeOK
  <2>2. CASE /\ pc' = "cp back" /\ archive[logFile] # Absent
             /\ temp' = [temp EXCEPT ![logFile] = 0]
    <3>1. temp'[logFile] = 0 /\ archive[logFile] \in 0 .. Pages
      BY <2>1, <2>2, PagesAreContents
    <3>2. 0 <= archive[logFile]
      BY <3>1, ConstTypes
    <3> QED BY <2>1, <2>2, <3>1, <3>2, NoneIsAbsent DEF Copying
  <2>3. CASE pc' = "check back"
    BY <2>1, <2>3 DEF Copying
  <2> QED BY <1>7, <2>2, <2>3 DEF CpBack, Goto, AfterFailedCp
<1>8. CASE CpBackPiece
  <2>1. UNCHANGED <<active, archive, logFile, request>>
    BY <1>8 DEF CpBackPiece, db2Vars
  <2>2. /\ temp[logFile] \in Nat /\ archive[logFile] \in Nat
        /\ temp \in [Logs -> Contents] /\ logFile \in Logs
    <3>1. /\ temp \in [Logs -> Contents] /\ archive \in [Logs -> Contents] /\ logFile \in Logs
      BY DEF IInv, TypeOK
    <3>2. temp[logFile] # Absent /\ temp[logFile] <= archive[logFile]
      BY <1>8 DEF IInv, Copying, CpBackPiece
    <3>3. temp[logFile] \in 0 .. Pages /\ archive[logFile] \in Int
      BY <3>1, <3>2, PagesAreContents
    <3> QED BY <3>1, <3>2, <3>3, ConstTypes
  <2>3. CASE /\ pc' = "cp back" /\ temp[logFile] < archive[logFile]
             /\ temp' = [temp EXCEPT ![logFile] = @ + 1]
    <3>0. temp'[logFile] = temp[logFile] + 1
      BY <2>2, <2>3
    <3>1. temp'[logFile] \in Nat /\ temp'[logFile] <= archive[logFile]
      <4>1. temp[logFile] < archive[logFile]
        BY <2>3
      <4>2. temp[logFile] \in Nat /\ archive[logFile] \in Nat
        BY <2>2
      <4> QED BY <3>0, <4>1, <4>2
    <3> QED BY <2>1, <2>3, <3>1, NoneIsAbsent DEF Copying
  <2>4. CASE pc' = "mv" /\ temp[logFile] = archive[logFile] /\ UNCHANGED temp
    BY <2>1, <2>2, <2>4, NoneIsAbsent DEF Copying
  <2>5. CASE pc' = "check back"
    BY <2>1, <2>5 DEF Copying
  <2> QED BY <1>8, <2>3, <2>4, <2>5 DEF CpBackPiece, Goto, AfterFailedCp
<1>9. CASE CheckBack
  BY <1>9 DEF CheckBack, Exit, PresentRc, db2Vars, fileVars, IInv, TypeOK, Requested,
              Archiving, Retrieving, Copying
<1>10. CASE Mv
  BY <1>10 DEF Mv, Exit, db2Vars, IInv, TypeOK, Requested, Archiving, Retrieving,
               Copying
<1>11. CASE SignalEnd
  BY <1>11 DEF SignalEnd, Exit, db2Vars, fileVars, IInv, TypeOK, Copying
<1>12. CASE RequestArchive
  BY <1>12 DEF RequestArchive, Goto, fileVars, IInv, TypeOK, Copying
<1>13. CASE RequestRetrieve
  BY <1>13 DEF RequestRetrieve, Goto, fileVars, IInv, TypeOK, Copying
<1>14. CASE Answer
  BY <1>14 DEF Answer, fileVars, IInv, TypeOK, Copying
<1>15. CASE Reopen
  BY <1>15 DEF Reopen, fileVars, IInv, TypeOK, Copying
<1>16. CASE Reuse
  BY <1>16 DEF Reuse, db2Vars, IInv, TypeOK, Copying
<1>17. CASE Crash
  BY <1>17 DEF Crash, fileVars, IInv, TypeOK, Copying
<1>18. CASE Disaster
  BY <1>18 DEF Disaster, IInv, TypeOK, Copying
<1>19. CASE UNCHANGED vars
  BY <1>19 DEF vars, fileVars, db2Vars, IInv, TypeOK, Copying
<1> QED BY <1>1, <1>2, <1>3, <1>4, <1>5, <1>6, <1>7, <1>8, <1>9, <1>10, <1>11, <1>12,
           <1>13, <1>14, <1>15, <1>16, <1>17, <1>18, <1>19 DEF Next, Program, Done

\* No request touches the archive file of a log that is recorded.
LEMMA ArchivedIsWholeStep ==
  ASSUME IInv, [Next]_vars
  PROVE  ArchivedIsWhole'
<1>1. CASE Cp
  BY <1>1 DEF Cp, db2Vars, IInv, TypeOK, Requested, Archiving, Retrieving,
              ArchivedIsWhole
<1>2. CASE CpPiece
  BY <1>2 DEF CpPiece, Exit, db2Vars, IInv, TypeOK, Requested, Archiving, Retrieving,
              ArchivedIsWhole
<1>3. CASE Check
  BY <1>3 DEF Check, Exit, MissingRc, db2Vars, fileVars, IInv, TypeOK, ArchivedIsWhole
<1>4. CASE Remove
  BY <1>4 DEF Remove, Exit, db2Vars, IInv, TypeOK, Requested, Archiving,
              Retrieving, ArchivedIsWhole
<1>5. CASE RawOpen
  BY <1>5 DEF RawOpen, Exit, db2Vars, IInv, TypeOK, Requested, Archiving, Retrieving,
              ArchivedIsWhole
<1>6. CASE RawPiece
  BY <1>6 DEF RawPiece, Exit, BufferPages, db2Vars, IInv, TypeOK, Requested, Archiving,
              Retrieving, ArchivedIsWhole
<1>7. CASE CpBack
  BY <1>7 DEF CpBack, db2Vars, IInv, TypeOK, ArchivedIsWhole
<1>8. CASE CpBackPiece
  BY <1>8 DEF CpBackPiece, db2Vars, IInv, TypeOK, ArchivedIsWhole
<1>9. CASE CheckBack
  BY <1>9 DEF CheckBack, Exit, PresentRc, db2Vars, fileVars, IInv, TypeOK,
              ArchivedIsWhole
<1>10. CASE Mv
  BY <1>10 DEF Mv, Exit, db2Vars, IInv, TypeOK, ArchivedIsWhole
<1>11. CASE SignalEnd
  BY <1>11 DEF SignalEnd, Exit, db2Vars, fileVars, IInv, TypeOK, ArchivedIsWhole
<1>12. CASE RequestArchive
  BY <1>12 DEF RequestArchive, fileVars, IInv, TypeOK, ArchivedIsWhole
<1>13. CASE RequestRetrieve
  BY <1>13 DEF RequestRetrieve, fileVars, IInv, TypeOK, ArchivedIsWhole
<1>14. CASE Answer
  BY <1>14 DEF Answer, fileVars, IInv, TypeOK, Copying, ArchivedIsWhole
<1>15. CASE Reopen
  BY <1>15 DEF Reopen, fileVars, IInv, TypeOK, ArchivedIsWhole
<1>16. CASE Reuse
  BY <1>16 DEF Reuse, db2Vars, IInv, TypeOK, ArchivedIsWhole
<1>17. CASE Crash
  BY <1>17 DEF Crash, fileVars, IInv, TypeOK, ArchivedIsWhole
<1>18. CASE Disaster
  BY <1>18 DEF Disaster, IInv, TypeOK, ArchivedIsWhole
<1>19. CASE UNCHANGED vars
  BY <1>19 DEF vars, fileVars, db2Vars, IInv, TypeOK, ArchivedIsWhole
<1> QED BY <1>1, <1>2, <1>3, <1>4, <1>5, <1>6, <1>7, <1>8, <1>9, <1>10, <1>11, <1>12,
           <1>13, <1>14, <1>15, <1>16, <1>17, <1>18, <1>19 DEF Next, Program, Done

\* Nothing is archived once the log path is lost, and only a whole copy of an archive
\* file is moved to the log path.
LEMMA RecoverableStep ==
  ASSUME IInv, [Next]_vars
  PROVE  Recoverable'
<1>1. CASE Cp
  BY <1>1 DEF Cp, Goto, db2Vars, IInv, TypeOK, Requested, Archiving, Retrieving,
              RollforwardGetsAll, Recoverable
<1>2. CASE CpPiece
  BY <1>2 DEF CpPiece, Goto, Exit, db2Vars, IInv, TypeOK, Requested, Archiving,
              Retrieving, RollforwardGetsAll, Recoverable
<1>3. CASE Check
  BY <1>3 DEF Check, Goto, Exit, db2Vars, fileVars, IInv, TypeOK, Requested, Archiving,
              Retrieving, RollforwardGetsAll, Recoverable
<1>4. CASE Remove
  BY <1>4 DEF Remove, Exit, db2Vars, IInv, TypeOK, Requested, Archiving, Retrieving,
              RollforwardGetsAll, Recoverable
<1>5. CASE RawOpen
  BY <1>5 DEF RawOpen, Exit, db2Vars, IInv, TypeOK, Requested, Archiving, Retrieving,
              RollforwardGetsAll, Recoverable
<1>6. CASE RawPiece
  BY <1>6 DEF RawPiece, Exit, db2Vars, IInv, TypeOK, Requested, Archiving, Retrieving,
              RollforwardGetsAll, Recoverable
<1>7. CASE CpBack
  BY <1>7 DEF CpBack, Goto, AfterFailedCp, db2Vars, IInv, TypeOK, Requested, Archiving,
              Retrieving, RollforwardGetsAll, Recoverable
<1>8. CASE CpBackPiece
  BY <1>8 DEF CpBackPiece, Goto, AfterFailedCp, db2Vars, IInv, TypeOK, Requested,
              Archiving, Retrieving, RollforwardGetsAll, Recoverable
<1>9. CASE CheckBack
  BY <1>9 DEF CheckBack, Exit, Fault, PresentRc, db2Vars, fileVars, IInv, TypeOK,
              Requested, Archiving, Retrieving, ArchivedIsWhole, RollforwardGetsAll,
              Recoverable
<1>10. CASE Mv
  BY <1>10 DEF Mv, Exit, db2Vars, IInv, TypeOK, Requested, Archiving, Retrieving,
               ArchivedIsWhole, Copying, RollforwardGetsAll, Recoverable
<1>11. CASE SignalEnd
  BY <1>11 DEF SignalEnd, Exit, db2Vars, fileVars, IInv, TypeOK, Requested, Archiving,
               Retrieving, RollforwardGetsAll, Recoverable
<1>12. CASE RequestArchive
  BY <1>12 DEF RequestArchive, Goto, fileVars, IInv, TypeOK, Requested, Archiving,
               Retrieving, RollforwardGetsAll, Recoverable
<1>13. CASE RequestRetrieve
  BY <1>13 DEF RequestRetrieve, Goto, fileVars, IInv, TypeOK, Requested, Archiving,
               Retrieving, RollforwardGetsAll, Recoverable
<1>14. CASE Answer
  BY <1>14 DEF Answer, fileVars, IInv, TypeOK, Requested, Archiving, Retrieving,
               RollforwardGetsAll, Recoverable
<1>15. CASE Reopen
  BY <1>15 DEF Reopen, fileVars, IInv, TypeOK, Requested, Archiving, Retrieving,
               RollforwardGetsAll, Recoverable
<1>16. CASE Reuse
  BY <1>16 DEF Reuse, db2Vars, IInv, TypeOK, Requested, Archiving, Retrieving,
               RollforwardGetsAll, Recoverable
<1>17. CASE Crash
  BY <1>17 DEF Crash, fileVars, IInv, TypeOK, Requested, Archiving, Retrieving,
               RollforwardGetsAll, Recoverable
<1>18. CASE Disaster
  BY <1>18 DEF Disaster, IInv, TypeOK, Requested, Archiving, Retrieving,
               RollforwardGetsAll, Recoverable
<1>19. CASE UNCHANGED vars
  BY <1>19 DEF vars, fileVars, db2Vars, IInv, TypeOK, RollforwardGetsAll, Recoverable
<1> QED BY <1>1, <1>2, <1>3, <1>4, <1>5, <1>6, <1>7, <1>8, <1>9, <1>10, <1>11, <1>12,
           <1>13, <1>14, <1>15, <1>16, <1>17, <1>18, <1>19 DEF Next, Program, Done

\* DB2 starts with the logs on the log path and an empty archive.
LEMMA InitHolds == Init => IInv
<1> SUFFICES ASSUME Init PROVE IInv
  OBVIOUS
<1>1. TypeOK
  BY ConstTypes, PagesAreContents DEF Init, TypeOK, Pcs, Rcs
<1>2. Requested /\ LogsOrArchive /\ Copying /\ ArchivedIsWhole
  BY NoneIsAbsent DEF Init, Requested, LogsOrArchive, Copying, ArchivedIsWhole,
                      Archiving,
     Retrieving
<1>3. Recoverable
  BY DEF Init, Recoverable, RollforwardGetsAll
<1> QED BY <1>1, <1>2, <1>3 DEF IInv

\* Every step of the user exit, DB2 or a fault keeps the invariant.
LEMMA Inductive == IInv /\ [Next]_vars => IInv'
<1> QED BY TypeOKStep, RequestedStep, LogsOrArchiveStep, CopyingStep,
           ArchivedIsWholeStep,
           RecoverableStep DEF IInv

\* So it holds for ever.
LEMMA Safe == Spec => []IInv
<1> QED BY InitHolds, Inductive, PTL DEF Spec
-----------------------------------------------------------------------------
\* Every file stays within the size of a log, and the counters within theirs.
THEOREM TypeOKHolds == Spec => []TypeOK
<1>1. IInv => TypeOK
  BY DEF IInv
<1> QED BY <1>1, Safe, PTL

\* A log that DB2 was told is archived is in the archive as a whole and stays
\* there, whatever the log path is and whatever fails: also if DB2 forgets the
\* answer and asks again, and if the source is gone by then.
THEOREM ArchivedIsWholeHolds == Spec => []ArchivedIsWhole
<1>1. IInv => ArchivedIsWhole
  BY DEF IInv
<1> QED BY <1>1, Safe, PTL

\* A retrieve never leaves a part of a copy under the name of a log, and what it may
\* bring back of a failed archive is not a log DB2 was told is archived: whatever is
\* lost, killed or fails, rm included.
THEOREM NoTornLogHolds == Spec => []NoTornLog
<1>1. IInv => NoTornLog
  BY DEF IInv, TypeOK, LogsOrArchive, ArchivedIsWhole, Recoverable, NoTornLog
<1> QED BY <1>1, Safe, PTL

\* After the loss of the log path a rollforward gets every log that is archived,
\* whatever partial files are in the archive and whatever fails, where the files of
\* the archive can be opened.
THEOREM RollforwardGetsAllHolds == Spec => []RollforwardGetsAll
<1>1. IInv => RollforwardGetsAll
  BY DEF IInv, Recoverable
<1> QED BY <1>1, Safe, PTL
=============================================================================
