----------------------------- MODULE VendorCatalog -----------------------------
(***************************************************************************)
(* BARVendor/vendor.C, backup and choice of the image composed through the *)
(* store: some backups run one after the other, each fails or succeeds and *)
(* leaves objects in the catalog of the store; then sqluvint looks for the *)
(* image to restore (VendorSelect) among what they really left.            *)
(***************************************************************************)
EXTENDS VendorSelect

CONSTANTS Sessions,    \* by sequence number, which is in the object's name
          Buffers, NoBuffer, BuffSize, USHRT_MAX, Slack,
          Backups,     \* how many backups are taken; the number is the timestamp
          Kind,        \* their kind
          Others,      \* objects of other partitions
          BackupMayFail

VARIABLES
    queue, acked, outcome, session, status, sessionRc, action, buffer, bytestowrite,
    byteswritten, xbsa, object, stored, delPc, delRc, fileList,
    number,       \* the current backup
    contents,     \* store: bytes of each buffer in the objects of the catalog
    succeeded,    \* DB2: backups that were reported as successful
    doubtful      \* DB2: failed backups whose clean-up reported an error

Backup == INSTANCE VendorBackup WITH pc <- session, rc <- sessionRc,
                                     MayFail <- BackupMayFail

ASSUME CatalogAssumption ==
    /\ IsFiniteSet(Sessions) /\ Sessions \subseteq Nat \ {0}
    /\ IsFiniteSet(Buffers) /\ Buffers # {} /\ NoBuffer \notin Buffers
    /\ BuffSize \in Nat \ {0}
    /\ USHRT_MAX \in Nat /\ Slack \in Nat /\ Slack < USHRT_MAX
    /\ BackupMayFail \subseteq Backup!Calls
    /\ Backups \in Nat \ {0} /\ Kind \in Kinds
    /\ IsFiniteSet(Others) /\ \A o \in Others : o \in Object /\ o.node # Node

ObjectOf(n, s) == [node |-> Node, kind |-> Kind, time |-> n, seq |-> s]

Objects == Others \cup {ObjectOf(n, s) : n \in 1 .. Backups, s \in Sessions}

backupVars == <<queue, acked, outcome, session, status, sessionRc, action, buffer,
                bytestowrite, byteswritten, xbsa, object, stored, delPc, delRc, fileList>>
selectVars == <<request, pc, rc, fetchVars, latestVars, counted>>
db2Vars == <<number, succeeded, doubtful>>
catalogVars == <<backupVars, catalog, selectVars, contents, db2Vars>>

CatalogInit ==
    /\ Backup!Init
    /\ catalog = Others /\ contents = [o \in {} |-> [b \in Buffers |-> 0]]
    /\ number = 1 /\ succeeded = {} /\ doubtful = {}
    /\ request = {} /\ pc = "backup" /\ rc = "SQLUV_OK"
    /\ left = {} /\ answer = "SUCCESS" /\ found = None
    /\ foundDB = FALSE /\ foundTS = FALSE /\ best = None /\ CNamelen = 0
    /\ counted = {}

\* A step of the current backup or of its clean-up.
BackupStep == /\ pc = "backup" /\ ~Backup!Concluded
              /\ Backup!Next
              /\ UNCHANGED <<catalog, contents, db2Vars, selectVars>>

\* DB2 notes the outcome.  What is committed stays in the store.
BackupEnds ==
    /\ pc = "backup" /\ Backup!Concluded
    /\ catalog' = catalog \cup {ObjectOf(number, s) : s \in Backup!Committed}
    /\ contents' = [o \in catalog' \ Others |->
                       IF o.time = number THEN stored[o.seq] ELSE contents[o]]
    /\ succeeded' = succeeded \cup (IF outcome = "succeeded" THEN {number} ELSE {})
    /\ doubtful' = doubtful \cup (IF outcome = "failed" /\ delRc # "SQLUV_OK"
                                  THEN {number} ELSE {})
    /\ \/ number < Backups /\ pc' = "backup" /\ UNCHANGED request
       \/ /\ number = Backups
          /\ request' \in Requests
          /\ pc' = IF request' = {} THEN "latestQuery" ELSE "query"
    /\ number' = number + 1
    /\ queue' = Buffers /\ acked' = {} /\ outcome' = "running"
    /\ session' = [s \in Sessions |-> "idle"] /\ status' = [s \in Sessions |-> {}]
    /\ sessionRc' = [s \in Sessions |-> "SQLUV_OK"]
    /\ action' = [s \in Sessions |-> "SQLUV_COMMIT"]
    /\ buffer' = [s \in Sessions |-> NoBuffer]
    /\ bytestowrite' = [s \in Sessions |-> 0] /\ byteswritten' = [s \in Sessions |-> 0]
    /\ xbsa' = [s \in Sessions |-> "closed"] /\ object' = [s \in Sessions |-> "absent"]
    /\ stored' = [s \in Sessions |-> [b \in Buffers |-> 0]]
    /\ delPc' = "idle" /\ delRc' = "SQLUV_OK" /\ fileList' = {}
    /\ UNCHANGED <<rc, fetchVars, latestVars, counted>>

\* A step of the restore's sqluvint.
SelectStep == /\ pc # "backup"
              /\ Next
              /\ UNCHANGED <<backupVars, contents, db2Vars>>

CatalogNext == BackupStep \/ BackupEnds \/ SelectStep

CatalogSpec == CatalogInit /\ [][CatalogNext]_catalogVars
-----------------------------------------------------------------------------
(* Properties *)

\* The image sqluvint settles for is the newest one of a backup that DB2 was told
\* succeeded (or the one with the timestamp asked for), and the objects it counts hold
\* every byte of every buffer of it.  The only other image it may choose is one whose
\* removal sqluvdel has reported as failed.
ChosenIsComplete ==
    Selected =>
        \E n \in {o.time : o \in counted} :
            \/ n \in doubtful
            \/ /\ n \in succeeded
               /\ \A o \in counted : o.time = n
               /\ \A b \in Buffers : \E o \in counted : contents[o][b] = BuffSize
               /\ request = {} => \A k \in succeeded : k <= n
               /\ request # {} => n \in request
=============================================================================
