------------------------------ MODULE IngestFiles ------------------------------
(***************************************************************************)
(* admin_scripts/ingest_files.sh: loads the files of a directory into a    *)
(* table.  A producer copies a file and then creates <file>.done; the      *)
(* script runs INGEST for each .done file it finds and moves both files to *)
(* success/ or failed/, until it finds no more.  It is started again after *)
(* it ended, whether by itself or killed.                                  *)
(***************************************************************************)
EXTENDS Naturals

CONSTANTS Files,
          Faults     \* failed commands and kills in a behaviour, at most

ASSUME IngestAssumption == Faults \in Nat

VARIABLES
    data,              \* where each input file is
    done,              \* where its .done file is
    loads,             \* how often its rows have gone into the table
    pc,
    foundOneDoneFile,
    DONE_FILES,        \* found by this pass and not looked at yet
    FILE,
    INGEST_RET_CODE,
    left               \* faults still to come

filesVars == <<data, done, loads>>
vars == <<filesVars, pc, foundOneDoneFile, DONE_FILES, FILE, INGEST_RET_CODE, left>>

Places == {"absent", "partial", "input", "success", "failed"}
Pcs == {"stopped", "find", "connect", "next", "ingest", "move .done", "move file"}

Init == /\ data = [f \in Files |-> "absent"]
        /\ done = [f \in Files |-> "absent"]
        /\ loads = [f \in Files |-> 0]
        /\ pc = "stopped" /\ foundOneDoneFile = FALSE
        /\ DONE_FILES = {} /\ FILE \in Files /\ INGEST_RET_CODE = 0
        /\ left = Faults

Fault == left > 0 /\ left' = left - 1

\* A command without a fault, or with one.
Works == UNCHANGED left
Fails == Fault
-----------------------------------------------------------------------------
(* The producer *)

Produce(f) ==
    /\ \/ /\ data[f] = "absent"
          /\ data' = [data EXCEPT ![f] = "partial"] /\ UNCHANGED done
       \/ /\ data[f] = "partial"
          /\ data' = [data EXCEPT ![f] = "input"] /\ UNCHANGED done
       \/ /\ data[f] = "input" /\ done[f] = "absent"
          /\ done' = [done EXCEPT ![f] = "input"] /\ UNCHANGED data
    /\ UNCHANGED <<loads, pc, foundOneDoneFile, DONE_FILES, FILE,
                   INGEST_RET_CODE, left>>
-----------------------------------------------------------------------------
(* The script *)

Start == /\ pc = "stopped"
         /\ pc' = "find" /\ foundOneDoneFile' = FALSE
         /\ UNCHANGED <<filesVars, DONE_FILES, FILE, INGEST_RET_CODE, left>>

\* Mutants: the script looks for the files instead of the .done files, or into
\* success/ and failed/, too.
FoundAny(f) == data[f] \in {"partial", "input"}
FoundEverywhere(f) == done[f] # "absent"

Found(f) == done[f] = "input"

\* find does not look into success/ and failed/.
Find == /\ pc = "find"
        /\ DONE_FILES' = {f \in Files : Found(f)}
        /\ \/ /\ DONE_FILES' = {}
              /\ pc' = "stopped" /\ UNCHANGED foundOneDoneFile
           \/ /\ DONE_FILES' # {}
              /\ pc' = "connect" /\ foundOneDoneFile' = TRUE
        /\ UNCHANGED <<filesVars, FILE, INGEST_RET_CODE, left>>

Connect == /\ pc = "connect"
           /\ \/ Works /\ pc' = "next"
              \/ Fails /\ pc' = "stopped"
           /\ UNCHANGED <<filesVars, foundOneDoneFile, DONE_FILES, FILE,
                          INGEST_RET_CODE>>

\* Mutant: the pass ends at a file that is missing.
RestStops(f) == IF data[f] \in {"partial", "input"} THEN DONE_FILES \ {f} ELSE {}

Rest(f) == DONE_FILES \ {f}

\* The next file of the pass, or the next pass; a missing file is skipped.
NextFile ==
    /\ pc = "next"
    /\ \/ /\ DONE_FILES = {} /\ pc' = "find" /\ UNCHANGED <<FILE, DONE_FILES>>
       \/ /\ FILE' \in DONE_FILES
          /\ DONE_FILES' = Rest(FILE')
          /\ pc' = IF data[FILE'] \in {"partial", "input"} THEN "ingest" ELSE "next"
    /\ UNCHANGED <<filesVars, foundOneDoneFile, INGEST_RET_CODE, left>>

Ingest ==
    /\ pc = "ingest"
    /\ \/ /\ Works /\ INGEST_RET_CODE' \in {0, 2}
          /\ loads' = [loads EXCEPT ![FILE] = @ + 1]
       \/ /\ Fails /\ INGEST_RET_CODE' \in {4, 8}
          /\ UNCHANGED loads
    /\ pc' = "move .done"
    /\ UNCHANGED <<data, done, foundOneDoneFile, DONE_FILES, FILE>>

Target == IF INGEST_RET_CODE < 4 THEN "success" ELSE "failed"

\* Mutant: the files stay where they are.
MovedNot(f) == "input"

Moved(f) == Target

\* mv tries the .done file first and goes on to the other one if that fails.
MoveDone == /\ pc = "move .done"
            /\ \/ /\ Works /\ done' = [done EXCEPT ![FILE] = Moved(FILE)]
               \/ Fails /\ UNCHANGED done
            /\ pc' = "move file"
            /\ UNCHANGED <<data, loads, foundOneDoneFile, DONE_FILES, FILE,
                           INGEST_RET_CODE>>

MoveFile == /\ pc = "move file"
            /\ \/ Works /\ data' = [data EXCEPT ![FILE] = Moved(FILE)]
               \/ Fails /\ UNCHANGED data
            /\ pc' = "next"
            /\ UNCHANGED <<done, loads, foundOneDoneFile, DONE_FILES, FILE,
                           INGEST_RET_CODE>>

\* Killed; an INGEST that was running may still have loaded the file.
Killed == /\ pc # "stopped" /\ Fault
          /\ pc' = "stopped"
          /\ \/ UNCHANGED loads
             \/ pc = "ingest" /\ loads' = [loads EXCEPT ![FILE] = @ + 1]
          /\ UNCHANGED <<data, done, foundOneDoneFile, DONE_FILES, FILE,
                         INGEST_RET_CODE>>

Script == Find \/ Connect \/ NextFile \/ Ingest \/ MoveDone \/ MoveFile

Next == Start \/ Script \/ Killed \/ \E f \in Files : Produce(f)

\* The script runs on, and is started again after it ended.
Spec == Init /\ [][Next]_vars /\ WF_vars(Script) /\ WF_vars(Start)
-----------------------------------------------------------------------------
(* Properties *)

\* Every variable keeps its type.
TypeOK == /\ data \in [Files -> Places]
          /\ done \in [Files -> Places \ {"partial"}]
          /\ loads \in [Files -> 0 .. 1 + Faults]
          /\ pc \in Pcs /\ foundOneDoneFile \in BOOLEAN
          /\ DONE_FILES \subseteq Files /\ FILE \in Files
          /\ INGEST_RET_CODE \in {0, 2, 4, 8} /\ left \in 0 .. Faults

\* A file in success/ is in the table, and only whole files are loaded, however
\* the producer and the script interleave and wherever the script is killed.
SuccessIsLoaded ==
    \A f \in Files : /\ "success" \in {data[f], done[f]} => loads[f] > 0
                     /\ loads[f] > 0 => data[f] \notin {"absent", "partial"}

\* Each repetition of a load costs a fault: a failed move, or a kill before it.
RepeatsNeedFaults == \A f \in Files : loads[f] <= 1 + Faults - left

\* Every .done file leads to an attempt to load its file.
EveryFileTried == \A f \in Files :
    done[f] = "input" ~> done[f] # "input" \/ data[f] \in {"success", "failed"}

\* The script comes to an end, unless a .done file has lost its file.
Orphan(f) == done[f] = "input" /\ data[f] # "input"
ScriptEnds == []<>(pc = "stopped") \/ <>(\E f \in Files : Orphan(f))
=============================================================================
