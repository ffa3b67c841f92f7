----------------------------- MODULE VendorSelect -----------------------------
(***************************************************************************)
(* BARVendor/vendor.C, how sqluvint finds the image to restore.  Without a *)
(* timestamp getLatestCopy first walks through all images of the database; *)
(* a second query then counts the objects of the image that was named.     *)
(* The catalog of the XBSA store is fixed meanwhile.  The store answers in *)
(* any order and may return the objects of other partitions as well, which *)
(* the code filters out.                                                   *)
(***************************************************************************)
EXTENDS Integers, FiniteSets

CONSTANTS Catalogs,          \* the contents the store may have
          Requests,          \* timestamps asked for, {} when none was given
          Node,              \* nodeNum, the partition that is restored
          DBKinds, TSPKinds, \* names of database and of table space images
          Rank,              \* the order of these names
          Length,            \* of "/<kind>.<time>"
          Unit,              \* what a timestamp without its last n digits counts in
          None,              \* no image
          MayFail            \* the calls that may fail

Calls == {"BSAQueryObject", "latestNext", "countNext"}
Kinds == DBKinds \cup TSPKinds

Object == [node : Int, kind : Kinds, time : Nat, seq : Nat \ {0}]
Image == [kind : Kinds, time : Nat]

ASSUME SelectAssumption ==
    /\ \A c \in Catalogs : IsFiniteSet(c) /\ \A o \in c : o \in Object
    /\ \A r \in Requests : \A t \in r : t \in Nat
    /\ Node \in Int /\ None \notin Object /\ None \notin Image
    /\ DBKinds \cap TSPKinds = {}
    /\ Rank \in [Kinds -> Nat]
    /\ \A j, k \in Kinds : Rank[j] = Rank[k] => j = k
    /\ Length \in [Kinds -> Nat] /\ \A j, k \in Kinds : Length[j] - Length[k] <= 14
    /\ Unit \in [0 .. 14 -> Nat \ {0}] /\ Unit[0] = 1
    /\ MayFail \subseteq Calls

VARIABLES
    catalog, request,
    pc, rc,
    left,           \* store: objects of the running query not returned yet
    answer,         \* xbsaRC
    found,          \* ObjectDescPtr, the object last returned
    foundDB, foundTS, best,   \* getLatestCopy: kinds seen, image kept
    CNamelen,       \* the length of the first image's name
    counted         \* the objects counted by searchCount

fetchVars == <<left, answer, found>>
latestVars == <<foundDB, foundTS, best, CNamelen>>
vars == <<catalog, request, pc, rc, fetchVars, latestVars, counted>>

ImageOf(o) == [kind |-> o.kind, time |-> o.time]

Init == /\ catalog \in Catalogs /\ request \in Requests
        /\ pc = IF request = {} THEN "latestQuery" ELSE "query"
        /\ rc = "SQLUV_OK"
        /\ left = {} /\ answer = "SUCCESS" /\ found = None
        /\ foundDB = FALSE /\ foundTS = FALSE /\ best = None /\ CNamelen = 0
        /\ counted = {}

Finish(code) == pc' = "done" /\ rc' = code
-----------------------------------------------------------------------------
(* The store *)

\* One answer from the objects in rest.  The last one may be marked as such;
\* if it is not, the call after it answers NO_MATCH.
Fetch(rest, call) ==
    \/ \E o \in rest :
          /\ found' = o /\ left' = rest \ {o}
          /\ \/ answer' \in {"SUCCESS", "MORE_DATA"}
             \/ left' = {} /\ answer' = "NO_MORE_DATA"
    \/ rest = {} /\ answer' = "NO_MATCH" /\ UNCHANGED <<left, found>>
    \/ call \in MayFail /\ answer' = "error" /\ UNCHANGED <<left, found>>

Got(ans) == ans \in {"SUCCESS", "MORE_DATA", "NO_MORE_DATA"}

\* The loops stop at an object marked as the last one.
FetchNext(call, exit) ==
    \/ answer = "NO_MORE_DATA" /\ pc' = exit /\ UNCHANGED fetchVars
    \/ /\ answer # "NO_MORE_DATA"
       /\ Fetch(left, call)
       /\ pc' = IF Got(answer') THEN pc ELSE exit
-----------------------------------------------------------------------------
(* getLatestCopy *)

ThisNode(o) == o.node = Node

\* Mutant: the first image found is kept.
LaterNever(i, j) == FALSE

\* strncmp of "/<kind>.<time>", over CNamelen characters.  The kind comes first and
\* is within them; of a longer name's timestamp the last digits are not.
Compared(i) ==
    i.time \div Unit[IF Length[i.kind] > CNamelen THEN Length[i.kind] - CNamelen ELSE 0]

Later(i, j) == \/ Rank[i.kind] > Rank[j.kind]
               \/ i.kind = j.kind /\ Compared(i) > Compared(j)

LatestQuery == /\ pc = "latestQuery"
               /\ Fetch(catalog, "BSAQueryObject")
               /\ pc' = IF Got(answer') THEN "latest" ELSE "latestExit"
               /\ UNCHANGED <<catalog, request, rc, latestVars, counted>>

LatestScan ==
    /\ pc = "latest"
    /\ IF ThisNode(found)
       THEN /\ foundDB' = (foundDB \/ found.kind \in DBKinds)
            /\ foundTS' = (foundTS \/ found.kind \in TSPKinds)
            /\ best' = IF best = None \/ Later(ImageOf(found), best)
                       THEN ImageOf(found) ELSE best
            /\ CNamelen' = IF best = None THEN Length[found.kind] ELSE CNamelen
       ELSE UNCHANGED latestVars
    /\ FetchNext("latestNext", "latestExit")
    /\ UNCHANGED <<catalog, request, rc, counted>>

\* The exit label, reached at the end of the list and at any failure alike.
LatestExit == /\ pc = "latestExit"
              /\ \/ foundTS /\ foundDB /\ Finish("SQLUV_OBJS_FOUND")
                 \/ /\ ~(foundTS /\ foundDB) /\ best = None
                    /\ Finish("SQLUV_OBJ_NOT_FOUND")
                 \/ /\ ~(foundTS /\ foundDB) /\ best # None
                    /\ pc' = "query" /\ UNCHANGED rc
              /\ UNCHANGED <<catalog, request, fetchVars, latestVars, counted>>
-----------------------------------------------------------------------------
(* sqluvint: the query for the named image *)

Matches(o) == IF request = {} THEN ImageOf(o) = best ELSE o.time \in request

Query == /\ pc = "query"
         /\ Fetch({o \in catalog : Matches(o)}, "BSAQueryObject")
         /\ IF Got(answer') THEN pc' = "count" /\ UNCHANGED rc
                            ELSE Finish("SQLUV_OBJ_NOT_FOUND")
         /\ UNCHANGED <<catalog, request, latestVars, counted>>

Count == /\ pc = "count"
         /\ counted' = IF ThisNode(found) THEN counted \cup {found} ELSE counted
         /\ FetchNext("countNext", "check")
         /\ UNCHANGED <<catalog, request, rc, latestVars>>

searchCount == Cardinality(counted)

\* Mutant: every object counts as an image.
FirstPartAny(o) == TRUE

FirstPart(o) == o.seq = 1

uniqueBackup == Cardinality({o \in counted : FirstPart(o)})

\* Mutant: no test of the answer the loop ended with.
CountEndsAny(ans) == TRUE

CountEnds(ans) == ans \in {"NO_MATCH", "NO_MORE_DATA"}

Check == /\ pc = "check"
         /\ Finish(IF searchCount = 0 THEN "SQLUV_OBJ_NOT_FOUND"
                   ELSE IF ~CountEnds(answer) THEN "SQLUV_DEV_ERROR"
                   ELSE IF uniqueBackup > 1 THEN "SQLUV_OBJS_FOUND"
                   ELSE "SQLUV_OK")
         /\ UNCHANGED <<catalog, request, fetchVars, latestVars, counted>>

Done == pc = "done" /\ UNCHANGED vars

Next == LatestQuery \/ LatestScan \/ LatestExit \/ Query \/ Count \/ Check \/ Done

Spec == Init /\ [][Next]_vars
-----------------------------------------------------------------------------
(* Properties *)

OnNode == {o \in catalog : o.node = Node}
Wanted == {o \in OnNode : request # {} => o.time \in request}
Images == {ImageOf(o) : o \in Wanted}

Selected == pc = "done" /\ rc = "SQLUV_OK"

\* Every variable keeps its type; only objects of the restored partition are
\* kept or counted.
TypeOK ==
    /\ catalog \in Catalogs /\ request \in Requests
    /\ pc \in {"latestQuery", "latest", "latestExit", "query", "count", "check",
               "done"}
    /\ rc \in {"SQLUV_OK", "SQLUV_OBJ_NOT_FOUND", "SQLUV_OBJS_FOUND",
               "SQLUV_DEV_ERROR"}
    /\ left \subseteq catalog
    /\ answer \in {"SUCCESS", "MORE_DATA", "NO_MORE_DATA", "NO_MATCH", "error"}
    /\ found \in catalog \cup {None}
    /\ foundDB \in BOOLEAN /\ foundTS \in BOOLEAN
    /\ best \in Images \cup {None} /\ CNamelen \in Nat
    /\ counted \subseteq OnNode

\* "Select the latest backup image": when no timestamp is given, no image of
\* the partition is newer than the one sqluvint settles for.
LatestSelected ==
    Selected /\ request = {} => \A i \in Images : i.time <= best.time

\* num_objects_in_backup counts all objects of one image and nothing else.
CountsTheImage ==
    Selected => \E i \in Images : counted = {o \in OnNode : ImageOf(o) = i}

\* SQLUV_OBJS_FOUND, which stops the restore, is answered only if more than one
\* image fits the request.
RefusedOnlyIfAmbiguous ==
    pc = "done" /\ rc = "SQLUV_OBJS_FOUND" => Cardinality(Images) > 1
=============================================================================
