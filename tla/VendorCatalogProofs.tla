-------------------------- MODULE VendorCatalogProofs -------------------------
(***************************************************************************)
(* The choice of the image (VendorSelect) for every content of the store,  *)
(* any order of its answers, every request and every set of failing calls; *)
(* then the same choice after any number of backups (VendorCatalog).       *)
(***************************************************************************)
EXTENDS VendorCatalog, FiniteSetTheorems, TLAPS

(* The inductive invariant, in named parts. *)

Catalogued == IsFiniteSet(catalog) /\ \A o \in catalog : o \in Object

Types ==
    /\ Catalogued
    /\ \A t \in request : t \in Nat
    /\ pc \in {"latestQuery", "latest", "latestExit", "query", "count", "check",
               "done"}
    /\ rc \in {"SQLUV_OK", "SQLUV_OBJ_NOT_FOUND", "SQLUV_OBJS_FOUND",
               "SQLUV_DEV_ERROR"}
    /\ left \subseteq catalog
    /\ answer \in {"SUCCESS", "MORE_DATA", "NO_MORE_DATA", "NO_MATCH", "error"}
    /\ found \in catalog \cup {None}
    /\ foundDB \in BOOLEAN /\ foundTS \in BOOLEAN
    /\ best \in Image \cup {None} /\ CNamelen \in Nat
    /\ counted \subseteq OnNode

\* The loops hold an object and know whether the store has more of them.
Looping ==
    /\ pc \in {"latest", "count"} => Got(answer) /\ found \in catalog \ left
    /\ pc \in {"latest", "count", "check"} =>
          (answer \in {"NO_MATCH", "NO_MORE_DATA"} => left = {})

\* getLatestCopy has seen the objects in S.
BestOf(S) ==
    /\ foundDB <=> \E o \in S : o.kind \in DBKinds
    /\ foundTS <=> \E o \in S : o.kind \in TSPKinds
    /\ best = None <=> S = {}
    /\ best # None => /\ \E o \in S : best = ImageOf(o)
                      /\ \E o \in S : CNamelen = Length[o.kind]
                      /\ \A o \in S : ~Later(ImageOf(o), best)

\* No error cuts the walk through the images short.
WholeScan == "latestNext" \notin MayFail

\* Everything on the partition was seen, or nothing if the query failed.
Scanned == \E S \in SUBSET OnNode : BestOf(S) /\ (WholeScan => S = {} \/ S = OnNode)

Choosing ==
    /\ pc = "latestQuery" => request = {} /\ left = {} /\ BestOf({})
    /\ pc = "latest" => request = {} /\ BestOf(OnNode \ (left \cup {found}))
    /\ pc = "latestExit" => request = {} /\ Scanned
    /\ request = {} /\ (pc \in {"query", "count", "check"} \/ Selected) =>
          Scanned /\ best # None /\ ~(foundDB /\ foundTS)
    /\ best # None => request = {} /\ \E o \in OnNode : best = ImageOf(o)

\* The objects that the second query is about.
Asked == {o \in OnNode : Matches(o)}

Counting ==
    /\ pc \in {"latestQuery", "latest", "latestExit", "query"} => counted = {}
    /\ pc = "count" => /\ Matches(found) /\ \A o \in left : Matches(o)
                       /\ counted = Asked \ (left \cup {found})
    /\ pc = "check" => counted = Asked \ left
    /\ Selected => counted = Asked /\ counted # {} /\ uniqueBackup <= 1

IInv == Types /\ Looping /\ Choosing /\ Counting /\ RefusedOnlyIfAmbiguous
-----------------------------------------------------------------------------
\* An object is known by its partition, its image and its number.
LEMMA SamePart ==
  ASSUME NEW a \in Object, NEW b \in Object,
         a.node = b.node, ImageOf(a) = ImageOf(b), a.seq = b.seq
  PROVE  a = b
<1>1. ImageOf(a).kind = ImageOf(b).kind /\ ImageOf(a).time = ImageOf(b).time
  OBVIOUS
<1>2. a.kind = b.kind /\ a.time = b.time
  BY <1>1 DEF ImageOf
<1> QED BY <1>2 DEF Object

\* A set with two elements has more than one.
LEMMA TwoElements ==
  ASSUME NEW S, IsFiniteSet(S), NEW a \in S, NEW b \in S, a # b
  PROVE  Cardinality(S) > 1
<1>1. Cardinality(S) \in Nat
  BY FS_CardinalityType
<1>2. Cardinality(S) # 0
  BY FS_EmptySet
<1>3. Cardinality(S) # 1
  BY FS_Singleton
<1> QED BY <1>1, <1>2, <1>3

\* A set with more than one element has two.
LEMMA TwoOfMany ==
  ASSUME NEW S, IsFiniteSet(S), Cardinality(S) > 1
  PROVE  \E a, b \in S : a # b
<1>1. S # {}
  BY FS_EmptySet
<1>2. PICK a \in S : TRUE
  BY <1>1
<1>3. CASE S = {a}
  <2>1. Cardinality({a}) = 1
    BY FS_Singleton
  <2> QED BY <1>3, <2>1
<1>4. CASE S # {a}
  BY <1>2, <1>4
<1> QED BY <1>3, <1>4

\* Two images that fit the request are enough for Cardinality(Images) > 1.
LEMMA TwoImages ==
  ASSUME Catalogued, NEW a \in Wanted, NEW b \in Wanted, ImageOf(a) # ImageOf(b)
  PROVE  Cardinality(Images) > 1
<1> DEFINE f == [o \in Wanted |-> ImageOf(o)]
<1>1. IsFiniteSet(Wanted)
  BY FS_Subset DEF Catalogued, Wanted, OnNode
<1>2. f \in Surjection(Wanted, Images)
  BY DEF Images, Surjection
<1>3. IsFiniteSet(Images)
  BY <1>1, <1>2, FS_Surjection
<1> QED BY <1>3, TwoElements DEF Images

\* Once CNamelen is set, what is compared of a timestamp is a number.
LEMMA ComparedType ==
  ASSUME NEW k \in Kinds, CNamelen = Length[k], NEW i \in Image
  PROVE  /\ Compared(i) \in Nat /\ i.kind \in Kinds /\ i.time \in Nat
         /\ Rank[i.kind] \in Nat /\ Length[i.kind] \in Nat
<1>1. /\ i.kind \in Kinds /\ i.time \in Nat /\ Rank[i.kind] \in Nat
      /\ Length[i.kind] \in Nat /\ Length[k] \in Nat /\ Length[i.kind] - Length[k] <= 14
  BY SelectAssumption DEF Image
<1>2. PICK n \in 0 .. 14 :
         n = IF Length[i.kind] > CNamelen THEN Length[i.kind] - CNamelen ELSE 0
  BY <1>1
<1>3. Unit[n] \in Nat \ {0}
  BY <1>2, SelectAssumption
<1>4. i.time \div Unit[n] \in Nat
  BY <1>1, <1>3
<1> QED BY <1>1, <1>2, <1>4 DEF Compared

\* By then names are in a total preorder.
LEMMA Order ==
  ASSUME NEW n \in Kinds, CNamelen = Length[n]
  PROVE  /\ \A i \in Image : ~Later(i, i)
         /\ \A i, j, k \in Image : Later(i, j) /\ ~Later(k, j) => ~Later(k, i)
<1>1. \A i \in Image : /\ i.kind \in Kinds /\ Compared(i) \in Nat /\ Rank[i.kind] \in Nat
  BY ComparedType
<1>2. \A i, j \in Image : Rank[i.kind] = Rank[j.kind] => i.kind = j.kind
  BY <1>1, SelectAssumption
<1> QED BY <1>1, <1>2 DEF Later

LEMMA OrderNext ==
  (\A n \in Kinds : CNamelen = Length[n] => \A i \in Image : ~Later(i, i))'
<1>1. \A n \in Kinds : CNamelen = Length[n] => \A i \in Image : ~Later(i, i)
  BY Order
<1> QED BY <1>1, PTL

\* Images of one kind that are not cut are compared by their timestamps.
LEMMA NotCut ==
  ASSUME NEW i \in Image, NEW j \in Image, i.kind = j.kind, CNamelen \in Nat,
         Length[j.kind] <= CNamelen, ~Later(i, j)
  PROVE  i.time <= j.time
<1>1. i.time \in Nat /\ j.time \in Nat /\ Length[j.kind] \in Nat /\ Unit[0] = 1
  BY SelectAssumption DEF Image
<1>2. Compared(i) = i.time \div 1 /\ Compared(j) = j.time \div 1
  BY <1>1 DEF Compared
<1>3. Compared(i) = i.time /\ Compared(j) = j.time
  BY <1>1, <1>2
<1> QED BY <1>1, <1>3 DEF Later

\* What getLatestCopy has seen stays while it looks at nothing.
LEMMA BestOfSame ==
  ASSUME NEW S, UNCHANGED <<foundDB, foundTS, best, CNamelen>>
  PROVE  BestOf(S)' <=> BestOf(S)
<1> QED BY DEF BestOf, Later, Compared

\* What a state of getLatestCopy knows after one object more.
LEMMA BestAdded ==
  ASSUME IInv, NEW S \in SUBSET OnNode, BestOf(S), NEW o \in OnNode,
         foundDB' = (foundDB \/ o.kind \in DBKinds),
         foundTS' = (foundTS \/ o.kind \in TSPKinds),
         best' = IF best = None \/ Later(ImageOf(o), best) THEN ImageOf(o) ELSE best,
         CNamelen' = IF best = None THEN Length[o.kind] ELSE CNamelen
  PROVE  /\ BestOf(S \cup {o})'
         /\ best' \in Image /\ best' # None /\ CNamelen' \in Nat
<1>1. \A x \in S \cup {o} : x \in Object
  BY DEF IInv, Types, Catalogued, OnNode
<1>2. \A x \in S \cup {o} : ImageOf(x) \in Image /\ x.kind \in Kinds
  BY <1>1 DEF Object, Image, ImageOf
<1>3. /\ foundDB' <=> \E x \in S \cup {o} : x.kind \in DBKinds
      /\ foundTS' <=> \E x \in S \cup {o} : x.kind \in TSPKinds
  BY DEF BestOf
<1>4. best' \in Image /\ best' # None /\ CNamelen' \in Nat
  BY <1>2, SelectAssumption DEF IInv, Types
<1>5. \E x \in S \cup {o} : best' = ImageOf(x)
  BY DEF BestOf
<1>6. \E x \in S \cup {o} : CNamelen' = Length[x.kind]
  BY DEF BestOf
<1>7. \A x \in S \cup {o} : ~Later(ImageOf(x), best)'
  <2>1. CASE best = None
    <3>1. S = {} /\ best' = ImageOf(o)
      BY <2>1 DEF BestOf
    <3>2. CNamelen' = Length[o.kind] /\ ImageOf(o) \in Image /\ o.kind \in Kinds
      BY <1>2, <2>1
    <3>3. ~Later(ImageOf(o), ImageOf(o))'
      BY <3>2, OrderNext
    <3>4. Later(ImageOf(o), best)' <=> Later(ImageOf(o), ImageOf(o))'
      BY <3>1 DEF Later, Compared
    <3> QED BY <3>1, <3>3, <3>4
  <2>2. CASE best # None
    <3>1. /\ best \in Image /\ CNamelen' = CNamelen
          /\ \A x \in S : ~Later(ImageOf(x), best)
          /\ \E n \in Kinds : CNamelen = Length[n]
      BY <1>2, <2>2 DEF IInv, Types, BestOf
    <3>2. \A x \in S \cup {o} : Later(ImageOf(x), best)' <=> Later(ImageOf(x), best')
      BY <3>1 DEF Later, Compared
    <3>3. CASE Later(ImageOf(o), best)
      <4>1. best' = ImageOf(o)
        BY <3>3
      <4>2. \A x \in S \cup {o} : ~Later(ImageOf(x), ImageOf(o))
        BY <1>2, <3>1, <3>3, Order
      <4> QED BY <3>2, <4>1, <4>2
    <3>4. CASE ~Later(ImageOf(o), best)
      <4>1. best' = best
        BY <2>2, <3>4
      <4> QED BY <3>1, <3>2, <3>4, <4>1
    <3> QED BY <3>3, <3>4
  <2> QED BY <2>1, <2>2
<1> QED BY <1>3, <1>4, <1>5, <1>6, <1>7 DEF BestOf
-----------------------------------------------------------------------------
\* Before the first query nothing is seen, kept or counted.
LEMMA Starts ==
  ASSUME Catalogued, \A t \in request : t \in Nat,
         pc = (IF request = {} THEN "latestQuery" ELSE "query"), rc = "SQLUV_OK",
         left = {}, answer = "SUCCESS", found = None,
         ~foundDB /\ foundDB \in BOOLEAN, ~foundTS /\ foundTS \in BOOLEAN,
         best = None, CNamelen = 0, counted = {}
  PROVE  IInv
<1>1. Types
  BY DEF Types
<1>2. Looping /\ Counting /\ RefusedOnlyIfAmbiguous
  BY DEF Looping, Counting, RefusedOnlyIfAmbiguous, Selected
<1>3. Choosing
  BY DEF Choosing, BestOf, Selected
<1> QED BY <1>1, <1>2, <1>3 DEF IInv

\* An answer of the store: an object of the query not returned before, or the end,
\* or an error.
LEMMA FetchFacts ==
  ASSUME NEW rest \in SUBSET catalog, NEW call, Fetch(rest, call), Types
  PROVE  /\ answer' \in {"SUCCESS", "MORE_DATA", "NO_MORE_DATA", "NO_MATCH", "error"}
         /\ left' \subseteq catalog /\ found' \in catalog \cup {None}
         /\ Got(answer') => found' \in rest /\ left' = rest \ {found'}
         /\ ~Got(answer') => left' = left /\ found' = found
         /\ answer' = "NO_MATCH" => rest = {}
         /\ answer' = "NO_MORE_DATA" => left' = {}
         /\ answer' = "error" => call \in MayFail
<1> USE DEF Types, Got
<1>1. ASSUME NEW o \in rest, found' = o, left' = rest \ {o},
             \/ answer' \in {"SUCCESS", "MORE_DATA"}
             \/ left' = {} /\ answer' = "NO_MORE_DATA"
      PROVE  /\ Got(answer') /\ answer' \notin {"NO_MATCH", "error"}
             /\ left' \subseteq catalog /\ found' \in catalog
             /\ answer' = "NO_MORE_DATA" => left' = {}
  BY <1>1
<1>2. CASE rest = {} /\ answer' = "NO_MATCH" /\ UNCHANGED <<left, found>>
  BY <1>2
<1>3. CASE call \in MayFail /\ answer' = "error" /\ UNCHANGED <<left, found>>
  BY <1>3
<1> QED BY <1>1, <1>2, <1>3 DEF Fetch

LEMMA LatestQueryStep ==
  ASSUME IInv, LatestQuery
  PROVE  IInv'
<1> USE DEF IInv, LatestQuery, latestVars
<1>0. Fetch(catalog, "BSAQueryObject") /\ Types
  OBVIOUS
<1>1. Types'
  BY <1>0, FetchFacts DEF Types, Catalogued, OnNode, Got
<1>2. Looping'
  BY <1>0, FetchFacts DEF Looping, Got
<1>3. Choosing'
  <2>1. request = {} /\ BestOf({}) /\ left = {} /\ best = None
    BY DEF Choosing, BestOf
  <2>2. BestOf({})'
    BY <2>1, BestOfSame
  <2>3. CASE Got(answer')
    <3>1. pc' = "latest" /\ found' \in catalog /\ left' = catalog \ {found'}
      BY <1>0, <2>3, FetchFacts
    <3>2. (OnNode \ (left \cup {found}))' = {}
      BY <3>1 DEF OnNode
    <3>3. BestOf(OnNode \ (left \cup {found}))'
      BY <2>2, <3>2
    <3> QED BY <2>1, <3>1, <3>3 DEF Choosing, Selected
  <2>4. CASE ~Got(answer')
    <3>1. Scanned'
      BY <2>2 DEF Scanned
    <3> QED BY <2>1, <2>4, <3>1 DEF Choosing, Selected
  <2> QED BY <2>3, <2>4
<1>4. Counting'
  BY DEF Counting, Selected
<1>5. RefusedOnlyIfAmbiguous'
  BY DEF RefusedOnlyIfAmbiguous
<1> QED BY <1>1, <1>2, <1>3, <1>4, <1>5

\* A loop goes on with the next object or ends with the answer it has got.
LEMMA FetchNextFacts ==
  ASSUME Types, Looping, pc \in {"latest", "count"}, NEW call, NEW exit,
         FetchNext(call, exit)
  PROVE  /\ answer' \in {"SUCCESS", "MORE_DATA", "NO_MORE_DATA", "NO_MATCH", "error"}
         /\ answer' \in {"NO_MATCH", "NO_MORE_DATA"} => left' = {}
         /\ \/ Got(answer') /\ pc' = pc /\ found' \in left /\ left' = left \ {found'}
            \/ /\ pc' = exit /\ left' = left /\ found' = found
               /\ answer' = "error" => call \in MayFail
               /\ answer' \in {"NO_MATCH", "NO_MORE_DATA", "error"}
<1>1. CASE answer = "NO_MORE_DATA" /\ pc' = exit /\ UNCHANGED fetchVars
  BY <1>1 DEF fetchVars, Looping
<1>2. CASE /\ answer # "NO_MORE_DATA" /\ Fetch(left, call)
           /\ pc' = IF Got(answer') THEN pc ELSE exit
  <2>1. left \in SUBSET catalog
    BY DEF Types
  <2>2. /\ answer' \in {"SUCCESS", "MORE_DATA", "NO_MORE_DATA", "NO_MATCH", "error"}
        /\ Got(answer') => found' \in left /\ left' = left \ {found'}
        /\ ~Got(answer') => left' = left /\ found' = found
        /\ answer' = "NO_MATCH" => left = {}
        /\ answer' = "NO_MORE_DATA" => left' = {}
        /\ answer' = "error" => call \in MayFail
    BY <1>2, <2>1, FetchFacts
  <2>3. CASE Got(answer')
    BY <1>2, <2>2, <2>3 DEF Got
  <2>4. CASE ~Got(answer')
    BY <1>2, <2>2, <2>4 DEF Got
  <2> QED BY <2>3, <2>4
<1> QED BY <1>1, <1>2 DEF FetchNext

LEMMA LatestScanStep ==
  ASSUME IInv, LatestScan
  PROVE  IInv'
<1> USE DEF IInv, LatestScan, latestVars
<1>0. /\ Types /\ Looping /\ pc = "latest" /\ FetchNext("latestNext", "latestExit")
      /\ Catalogued /\ request = {}
  BY DEF Types, Choosing
<1>1. /\ answer' \in {"SUCCESS", "MORE_DATA", "NO_MORE_DATA", "NO_MATCH", "error"}
      /\ answer' \in {"NO_MATCH", "NO_MORE_DATA"} => left' = {}
      /\ \/ /\ Got(answer') /\ pc' = "latest"
            /\ found' \in left /\ left' = left \ {found'}
         \/ /\ pc' = "latestExit" /\ left' = left /\ found' = found
            /\ answer' = "error" => "latestNext" \in MayFail
            /\ answer' \in {"NO_MATCH", "NO_MORE_DATA", "error"}
  BY <1>0, FetchNextFacts
<1>2. PICK S : S = OnNode \ (left \cup {found})
  OBVIOUS
<1>3. PICK T : T = OnNode \ left
  OBVIOUS
<1>4. BestOf(S) /\ S \in SUBSET OnNode /\ found \in catalog \ left
  BY <1>0, <1>2 DEF Choosing, Looping
<1>5. /\ BestOf(T)' /\ best' \in Image \cup {None} /\ CNamelen' \in Nat
      /\ foundDB' \in BOOLEAN /\ foundTS' \in BOOLEAN
  <2>1. CASE ThisNode(found)
    <3>1. found \in OnNode /\ T = S \cup {found}
      BY <1>2, <1>3, <1>4, <2>1 DEF OnNode, ThisNode
    <3>2. PICK o \in OnNode : o = found
      BY <3>1
    <3>3. /\ foundDB' = (foundDB \/ o.kind \in DBKinds)
          /\ foundTS' = (foundTS \/ o.kind \in TSPKinds)
          /\ best' = IF best = None \/ Later(ImageOf(o), best) THEN ImageOf(o) ELSE best
          /\ CNamelen' = IF best = None THEN Length[o.kind] ELSE CNamelen
      BY <2>1, <3>2
    <3>4. /\ BestOf(S \cup {o})' /\ best' \in Image /\ CNamelen' \in Nat
      BY <1>4, <3>3, BestAdded
    <3>5. T = S \cup {o}
      BY <3>1, <3>2
    <3>6. BestOf(T)'
      BY <3>4, <3>5
    <3> QED BY <1>0, <3>3, <3>4, <3>6 DEF Types
  <2>2. CASE ~ThisNode(found)
    <3>1. T = S
      BY <1>2, <1>3, <2>2 DEF OnNode, ThisNode
    <3>2. UNCHANGED <<foundDB, foundTS, best, CNamelen>>
      BY <2>2
    <3>3. BestOf(T)'
      BY <1>4, <3>1, <3>2, BestOfSame
    <3> QED BY <1>0, <3>2, <3>3 DEF Types
  <2> QED BY <2>1, <2>2
<1>6. Types'
  BY <1>0, <1>1, <1>4, <1>5 DEF Types, Catalogued, OnNode, Got
<1>7. Looping'
  BY <1>1, <1>4 DEF Looping, Types
<1>8. Choosing'
  <2>0. request' = {} /\ (best' # None => \E o \in OnNode' : best' = ImageOf(o))
    BY <1>0, <1>3, <1>5 DEF BestOf, OnNode
  <2>1. CASE pc' = "latest"
    <3>1. (OnNode \ (left \cup {found}))' = T
      BY <1>1, <1>3, <2>1 DEF OnNode
    <3> QED BY <1>5, <2>0, <2>1, <3>1 DEF Choosing, Selected
  <2>2. CASE pc' = "latestExit"
    <3>1. T \in SUBSET OnNode' /\ (WholeScan => T = OnNode')
      BY <1>1, <1>3, <2>2 DEF OnNode, WholeScan, Got
    <3> QED BY <1>5, <2>0, <2>2, <3>1 DEF Choosing, Selected, Scanned
  <2> QED BY <1>1, <2>1, <2>2
<1>9. Counting'
  BY <1>1 DEF Counting, Selected
<1>10. RefusedOnlyIfAmbiguous'
  BY <1>1 DEF RefusedOnlyIfAmbiguous
<1> QED BY <1>6, <1>7, <1>8, <1>9, <1>10

LEMMA LatestExitStep ==
  ASSUME IInv, LatestExit
  PROVE  IInv'
<1> USE DEF IInv, LatestExit, Finish, fetchVars, latestVars
<1>0. /\ Types /\ Looping /\ request = {} /\ Scanned /\ pc = "latestExit" /\ counted = {}
  BY DEF Choosing, Counting
<1>1. Types'
  BY <1>0 DEF Types, Catalogued, OnNode
<1>2. Looping'
  BY DEF Looping
<1>3. Choosing'
  <2>1. Scanned'
    BY <1>0, BestOfSame DEF Scanned, OnNode
  <2>2. best' # None => request' = {} /\ \E o \in OnNode' : best' = ImageOf(o)
    BY DEF Choosing, OnNode
  <2> QED BY <1>0, <2>1, <2>2 DEF Choosing, Selected
<1>4. Counting'
  BY <1>0 DEF Counting, Selected
<1>5. RefusedOnlyIfAmbiguous'
  <2>1. CASE foundTS /\ foundDB
    <3>1. PICK S \in SUBSET OnNode : BestOf(S)
      BY <1>0 DEF Scanned
    <3>2. PICK d \in S : d.kind \in DBKinds
      BY <2>1, <3>1 DEF BestOf
    <3>3. PICK t \in S : t.kind \in TSPKinds
      BY <2>1, <3>1 DEF BestOf
    <3>4. d \in Wanted /\ t \in Wanted
      BY <1>0, <3>1 DEF Wanted
    <3>5. ImageOf(d).kind # ImageOf(t).kind
      BY <3>2, <3>3, SelectAssumption DEF ImageOf
    <3>6. Cardinality(Images) > 1
      BY <1>0, <3>4, <3>5, TwoImages DEF Types
    <3>7. Images' = Images
      BY DEF Images, Wanted, OnNode
    <3> QED BY <3>6, <3>7 DEF RefusedOnlyIfAmbiguous
  <2>2. CASE ~(foundTS /\ foundDB)
    BY <2>2 DEF RefusedOnlyIfAmbiguous
  <2> QED BY <2>1, <2>2
<1> QED BY <1>1, <1>2, <1>3, <1>4, <1>5

LEMMA QueryStep ==
  ASSUME IInv, Query
  PROVE  IInv'
<1> USE DEF IInv, Query, Finish, latestVars
<1>0. /\ Types /\ counted = {} /\ pc = "query"
      /\ request = {} => Scanned /\ best # None /\ ~(foundDB /\ foundTS)
      /\ best # None => request = {} /\ \E o \in OnNode : best = ImageOf(o)
  BY DEF Choosing, Counting
<1>1. PICK Q \in SUBSET catalog : Q = {o \in catalog : Matches(o)}
  OBVIOUS
<1>2. Fetch(Q, "BSAQueryObject")
  BY <1>1
<1>3. /\ answer' \in {"SUCCESS", "MORE_DATA", "NO_MORE_DATA", "NO_MATCH", "error"}
      /\ left' \subseteq catalog /\ found' \in catalog \cup {None}
      /\ Got(answer') => found' \in Q /\ left' = Q \ {found'}
      /\ answer' = "NO_MATCH" => Q = {}
      /\ answer' = "NO_MORE_DATA" => left' = {}
  BY <1>0, <1>2, FetchFacts
<1>4. Types'
  BY <1>0, <1>3 DEF Types, Catalogued, OnNode
<1>5. Looping'
  BY <1>1, <1>3 DEF Looping, Got
<1>6. Choosing'
  <2>1. (Scanned' <=> Scanned) /\ OnNode' = OnNode
    BY BestOfSame DEF Scanned, OnNode
  <2> QED BY <1>0, <2>1 DEF Choosing, Selected
<1>7. Counting'
  <2>1. CASE Got(answer')
    <3>1. /\ Matches(found)' /\ \A o \in left' : Matches(o)'
          /\ Asked' \subseteq Q
      BY <1>1, <1>3, <2>1 DEF Asked, Matches, OnNode
    <3>2. counted' = Asked' \ (left' \cup {found'})
      BY <1>0, <1>3, <2>1, <3>1
    <3> QED BY <2>1, <3>1, <3>2 DEF Counting, Selected
  <2>2. CASE ~Got(answer')
    BY <1>0, <2>2 DEF Counting, Selected
  <2> QED BY <2>1, <2>2
<1>8. RefusedOnlyIfAmbiguous'
  BY <1>0 DEF RefusedOnlyIfAmbiguous, Types
<1> QED BY <1>4, <1>5, <1>6, <1>7, <1>8

LEMMA CountStep ==
  ASSUME IInv, Count
  PROVE  IInv'
<1> USE DEF IInv, Count, latestVars
<1>0. /\ Types /\ Looping /\ pc = "count" /\ FetchNext("countNext", "check")
      /\ request = {} => Scanned /\ best # None /\ ~(foundDB /\ foundTS)
      /\ best # None => request = {} /\ \E o \in OnNode : best = ImageOf(o)
      /\ Matches(found) /\ \A o \in left : Matches(o)
      /\ counted = Asked \ (left \cup {found}) /\ found \in catalog \ left
  BY DEF Choosing, Counting, Looping
<1>1. /\ answer' \in {"SUCCESS", "MORE_DATA", "NO_MORE_DATA", "NO_MATCH", "error"}
      /\ answer' \in {"NO_MATCH", "NO_MORE_DATA"} => left' = {}
      /\ \/ /\ Got(answer') /\ pc' = "count"
            /\ found' \in left /\ left' = left \ {found'}
         \/ pc' = "check" /\ left' = left /\ found' = found
  BY <1>0, FetchNextFacts
<1>2. counted' = Asked \ left
  BY <1>0 DEF Asked, OnNode, ThisNode
<1>3. Asked' = Asked /\ \A o \in catalog : Matches(o)' <=> Matches(o)
  BY DEF Asked, OnNode, Matches
<1>4. Types'
  BY <1>0, <1>1, <1>2 DEF Types, Catalogued, OnNode, Asked
<1>5. Looping'
  BY <1>0, <1>1 DEF Looping, Types
<1>6. Choosing'
  <2>1. (Scanned' <=> Scanned) /\ OnNode' = OnNode
    BY BestOfSame DEF Scanned, OnNode
  <2> QED BY <1>0, <1>1, <2>1 DEF Choosing, Selected
<1>7. Counting'
  <2>1. CASE pc' = "count"
    <3>1. found' \in left /\ left' = left \ {found'}
      BY <1>1, <2>1
    <3>2. left \subseteq catalog
      BY <1>0 DEF Types
    <3>3. Matches(found)' /\ \A o \in left' : Matches(o)'
      BY <1>0, <1>3, <3>1, <3>2 DEF Matches
    <3>4. counted' = Asked' \ (left' \cup {found'})
      BY <1>2, <1>3, <3>1
    <3> QED BY <2>1, <3>3, <3>4 DEF Counting, Selected
  <2>2. CASE pc' = "check"
    BY <1>1, <1>2, <1>3, <2>2 DEF Counting, Selected
  <2> QED BY <1>1, <2>1, <2>2
<1>8. RefusedOnlyIfAmbiguous'
  BY <1>1 DEF RefusedOnlyIfAmbiguous
<1> QED BY <1>4, <1>5, <1>6, <1>7, <1>8

LEMMA CheckStep ==
  ASSUME IInv, Check
  PROVE  IInv'
<1> USE DEF IInv, Check, Finish, fetchVars, latestVars
<1>0. /\ Types /\ Looping /\ pc = "check" /\ counted = Asked \ left
      /\ request = {} => Scanned /\ best # None /\ ~(foundDB /\ foundTS)
      /\ best # None => request = {} /\ \E o \in OnNode : best = ImageOf(o)
  BY DEF Choosing, Counting, Looping
<1>1. IsFiniteSet(counted) /\ counted \subseteq OnNode
  BY <1>0, FS_Subset DEF Types, Catalogued, OnNode
<1>2. PICK U \in SUBSET counted : U = {o \in counted : FirstPart(o)}
  OBVIOUS
<1>3. IsFiniteSet(U) /\ Cardinality(U) \in Nat /\ uniqueBackup = Cardinality(U)
  BY <1>1, <1>2, FS_Subset, FS_CardinalityType DEF uniqueBackup
<1>4. Types'
  BY <1>0 DEF Types, Catalogued, OnNode
<1>5. Looping'
  BY DEF Looping
<1>6. Choosing'
  <2>1. (Scanned' <=> Scanned) /\ OnNode' = OnNode
    BY BestOfSame DEF Scanned, OnNode
  <2> QED BY <1>0, <2>1 DEF Choosing, Selected
<1>7. Counting'
  <2>1. CASE rc' = "SQLUV_OK"
    <3>1. searchCount # 0 /\ CountEnds(answer) /\ ~(uniqueBackup > 1)
      BY <2>1
    <3>2. counted # {}
      BY <3>1, FS_EmptySet DEF searchCount
    <3>3. left = {}
      BY <1>0, <3>1 DEF Looping, CountEnds
    <3>4. Asked' = Asked /\ uniqueBackup' = uniqueBackup /\ counted' = counted
      BY DEF Asked, OnNode, Matches, uniqueBackup, FirstPart
    <3>5. uniqueBackup <= 1
      BY <1>3, <3>1
    <3> QED BY <1>0, <3>2, <3>3, <3>4, <3>5 DEF Counting, Selected
  <2>2. CASE rc' # "SQLUV_OK"
    BY <2>2 DEF Counting, Selected
  <2> QED BY <2>1, <2>2
<1>8. RefusedOnlyIfAmbiguous'
  <2>1. CASE rc' = "SQLUV_OBJS_FOUND"
    <3>1. Cardinality(U) > 1
      BY <1>3, <2>1
    <3>2. PICK a, b \in U : a # b
      BY <1>3, <3>1, TwoOfMany
    <3>3. /\ a \in OnNode /\ b \in OnNode /\ Matches(a) /\ Matches(b)
          /\ a.seq = b.seq /\ a.node = b.node /\ a \in Object /\ b \in Object
      BY <1>0, <1>2, <3>2 DEF Asked, OnNode, FirstPart, Types, Catalogued
    <3>4. ImageOf(a) # ImageOf(b)
      BY <3>2, <3>3, SamePart
    <3>5. a \in Wanted /\ b \in Wanted
      BY <3>3 DEF Wanted, Matches
    <3>6. Cardinality(Images) > 1
      BY <1>0, <3>4, <3>5, TwoImages DEF Types
    <3>7. Images' = Images
      BY DEF Images, Wanted, OnNode
    <3> QED BY <3>6, <3>7 DEF RefusedOnlyIfAmbiguous
  <2>2. CASE rc' # "SQLUV_OBJS_FOUND"
    BY <2>2 DEF RefusedOnlyIfAmbiguous
  <2> QED BY <2>1, <2>2
<1> QED BY <1>4, <1>5, <1>6, <1>7, <1>8

LEMMA Stutter ==
  ASSUME IInv, UNCHANGED vars
  PROVE  IInv'
<1> USE DEF vars, fetchVars, latestVars
<1>1. OnNode' = OnNode /\ Asked' = Asked /\ Images' = Images /\ uniqueBackup' = uniqueBackup
  BY DEF OnNode, Asked, Matches, Images, Wanted, uniqueBackup, FirstPart
<1>2. Types' /\ Looping' /\ RefusedOnlyIfAmbiguous'
  BY <1>1 DEF IInv, Types, Catalogued, Looping, RefusedOnlyIfAmbiguous
<1>3. Scanned' = Scanned
  BY <1>1, BestOfSame DEF Scanned
<1>4. Choosing'
  BY <1>1, <1>3, BestOfSame DEF IInv, Choosing, Selected
<1>5. Counting'
  BY <1>1 DEF IInv, Counting, Selected, Matches
<1> QED BY <1>2, <1>4, <1>5 DEF IInv

LEMMA IInvStep == IInv /\ [Next]_vars => IInv'
<1> SUFFICES ASSUME IInv, [Next]_vars PROVE IInv'
  OBVIOUS
<1>1. CASE LatestQuery
  BY <1>1, LatestQueryStep
<1>2. CASE LatestScan
  BY <1>2, LatestScanStep
<1>3. CASE LatestExit
  BY <1>3, LatestExitStep
<1>4. CASE Query
  BY <1>4, QueryStep
<1>5. CASE Count
  BY <1>5, CountStep
<1>6. CASE Check
  BY <1>6, CheckStep
<1>7. CASE UNCHANGED vars
  BY <1>7, Stutter
<1> QED BY <1>1, <1>2, <1>3, <1>4, <1>5, <1>6, <1>7 DEF Next, Done
-----------------------------------------------------------------------------
(* What follows from the invariant. *)

\* Every variable keeps its type: an image kept by getLatestCopy fits the request.
LEMMA TypeOKFollows ==
  ASSUME IInv, catalog \in Catalogs, request \in Requests
  PROVE  TypeOK
<1>1. best \in Images \cup {None}
  BY DEF IInv, Choosing, Images, Wanted
<1> QED BY <1>1 DEF IInv, Types, TypeOK

\* The names of the database images have one kind, and so have the others.
OneKindEach == /\ \A j, k \in DBKinds : j = k
               /\ \A j, k \in TSPKinds : j = k

\* What getLatestCopy settles for is an image of the kind with the greatest name, and
\* of this kind the newest one; unless its name is longer than that of the first image
\* the store returned, when the timestamps are not compared to their end.
GreatestName ==
    Selected /\ request = {} =>
        \A i \in Images :
            /\ Rank[i.kind] <= Rank[best.kind]
            /\ i.kind = best.kind /\ Length[best.kind] <= CNamelen => i.time <= best.time

\* At the end nothing is greater than the image that was kept.
LEMMA ScanEnds ==
  ASSUME IInv, WholeScan, Selected, request = {}
  PROVE  /\ BestOf(OnNode) /\ best \in Image /\ ~(foundDB /\ foundTS) /\ CNamelen \in Nat
         /\ \E k \in Kinds : CNamelen = Length[k]
         /\ \A i \in Images : i \in Image /\ ~Later(i, best)
<1>1. PICK S \in SUBSET OnNode : BestOf(S) /\ (S = {} \/ S = OnNode)
  BY DEF IInv, Choosing, Scanned
<1>2. best # None /\ best \in Image /\ ~(foundDB /\ foundTS) /\ CNamelen \in Nat
  BY DEF IInv, Choosing, Types
<1>3. S = OnNode
  BY <1>1, <1>2 DEF BestOf
<1>4. \A o \in OnNode : o.kind \in Kinds /\ ImageOf(o) \in Image
  BY DEF IInv, Types, Catalogued, OnNode, Object, Image, ImageOf
<1> QED BY <1>1, <1>2, <1>3, <1>4 DEF BestOf, Images, Wanted

LEMMA GreatestNameFollows ==
  ASSUME IInv, WholeScan
  PROVE  GreatestName
<1> SUFFICES ASSUME Selected, request = {}, NEW i \in Images
             PROVE  /\ Rank[i.kind] <= Rank[best.kind]
                    /\ i.kind = best.kind /\ Length[best.kind] <= CNamelen =>
                          i.time <= best.time
  BY DEF GreatestName
<1>1. /\ i \in Image /\ best \in Image /\ ~Later(i, best) /\ CNamelen \in Nat
      /\ \E k \in Kinds : CNamelen = Length[k]
  BY ScanEnds
<1>2. Rank[i.kind] \in Nat /\ Rank[best.kind] \in Nat
  BY <1>1, ComparedType
<1> QED BY <1>1, <1>2, NotCut DEF Later

LEMMA LatestFollows ==
  ASSUME IInv, WholeScan, OneKindEach
  PROVE  LatestSelected
<1> SUFFICES ASSUME Selected, request = {}, NEW i \in Images PROVE i.time <= best.time
  BY DEF LatestSelected
<1>1. /\ BestOf(OnNode) /\ best \in Image /\ ~(foundDB /\ foundTS) /\ CNamelen \in Nat
      /\ i \in Image /\ ~Later(i, best)
  BY ScanEnds
<1>2. best # None
  BY <1>1, SelectAssumption
<1>3. \A o \in OnNode : o.kind \in Kinds /\ ImageOf(o).kind = o.kind
  BY DEF IInv, Types, Catalogued, OnNode, Object, ImageOf
<1>4. PICK o \in OnNode : i.kind = o.kind
  BY <1>3 DEF Images, Wanted
<1>5. PICK b \in OnNode : best.kind = b.kind
  BY <1>1, <1>2, <1>3 DEF BestOf
<1>6. PICK f \in OnNode : CNamelen = Length[f.kind]
  BY <1>1, <1>2 DEF BestOf
<1>7. o.kind = b.kind /\ f.kind = b.kind
  <2>1. CASE foundDB
    <3>1. \A x \in OnNode : x.kind \notin TSPKinds
      BY <1>1, <2>1 DEF BestOf, IInv, Types
    <3> QED BY <1>3, <3>1 DEF OneKindEach, Kinds
  <2>2. CASE ~foundDB
    <3>1. \A x \in OnNode : x.kind \notin DBKinds
      BY <1>1, <2>2 DEF BestOf
    <3> QED BY <1>3, <3>1 DEF OneKindEach, Kinds
  <2> QED BY <2>1, <2>2
<1> QED BY <1>1, <1>4, <1>5, <1>6, <1>7, NotCut

\* Every image has an object with the number 1.
ImagesHaveFirst == \A o \in OnNode : \E p \in OnNode : FirstPart(p) /\ ImageOf(p) = ImageOf(o)

LEMMA CountsFollows ==
  ASSUME IInv, ImagesHaveFirst
  PROVE  CountsTheImage
<1> SUFFICES ASSUME Selected
             PROVE  \E i \in Images : counted = {o \in OnNode : ImageOf(o) = i}
  BY DEF CountsTheImage
<1>1. counted = Asked /\ counted # {} /\ uniqueBackup <= 1
  BY DEF IInv, Counting
<1>2. PICK c \in OnNode : c \in Asked /\ c \in Wanted /\ ImageOf(c) \in Images
  BY <1>1 DEF Asked, Wanted, Images, Matches
<1>3. \A o \in OnNode : ImageOf(o) = ImageOf(c) => Matches(o)
  BY <1>2 DEF Asked, Matches, ImageOf
<1>4. \A o \in Asked : ImageOf(o) = ImageOf(c)
  <2>1. CASE request = {}
    BY <1>2, <2>1 DEF Asked, Matches
  <2>2. ASSUME request # {}, NEW o \in Asked, ImageOf(o) # ImageOf(c) PROVE FALSE
    <3>1. PICK p \in OnNode : FirstPart(p) /\ ImageOf(p) = ImageOf(o)
      BY <2>2 DEF ImagesHaveFirst, Asked
    <3>2. PICK q \in OnNode : FirstPart(q) /\ ImageOf(q) = ImageOf(c)
      BY DEF ImagesHaveFirst
    <3>3. ImageOf(p).time = o.time /\ ImageOf(q).time = c.time
      BY <3>1, <3>2 DEF ImageOf
    <3>4. p \in Asked /\ q \in Asked
      BY <1>2, <2>2, <3>3 DEF Asked, Matches, ImageOf
    <3>5. PICK U \in SUBSET counted : U = {x \in counted : FirstPart(x)}
      OBVIOUS
    <3>6. p \in U /\ q \in U /\ p # q
      BY <1>1, <2>2, <3>1, <3>2, <3>4, <3>5
    <3>7. IsFiniteSet(U)
      BY FS_Subset DEF IInv, Types, Catalogued, OnNode
    <3>8. Cardinality(U) > 1
      BY <3>6, <3>7, TwoElements
    <3>9. Cardinality(U) \in Nat /\ Cardinality(U) <= 1
      BY <1>1, <3>5, <3>7, FS_CardinalityType DEF uniqueBackup
    <3> QED BY <3>8, <3>9
  <2> QED BY <2>1, <2>2
<1> QED BY <1>1, <1>2, <1>3, <1>4 DEF Asked
-----------------------------------------------------------------------------
(* The theorems. *)

LEMMA InitIInv == Init => IInv
<1> SUFFICES ASSUME Init PROVE IInv
  OBVIOUS
<1>1. Catalogued /\ \A t \in request : t \in Nat
  BY SelectAssumption DEF Init, Catalogued
<1> QED BY <1>1, Starts DEF Init

LEMMA GivenStays ==
  Spec => [](IInv /\ catalog \in Catalogs /\ request \in Requests)
<1> DEFINE Given == catalog \in Catalogs /\ request \in Requests
<1>1. Init => Given
  BY DEF Init
<1>2. Given /\ [Next]_vars => Given'
  BY DEF Next, vars, LatestQuery, LatestScan, LatestExit, Query, Count, Check, Done
<1> QED BY <1>1, <1>2, InitIInv, IInvStep, PTL DEF Spec

\* Every variable keeps its type, and only objects of the restored partition are kept
\* or counted: for every content of the store and every set of failing calls.
THEOREM TypeOKHolds == Spec => []TypeOK
<1>1. IInv /\ catalog \in Catalogs /\ request \in Requests => TypeOK
  BY TypeOKFollows
<1> QED BY <1>1, GivenStays, PTL

\* If no error cuts the walk of getLatestCopy short, the image sqluvint settles for has
\* the greatest kind of name there is on the partition, and it is the newest of this
\* kind unless timestamps were compared in part: when the first image the store returned
\* had a shorter name.
THEOREM GreatestNameHolds == ASSUME WholeScan PROVE Spec => []GreatestName
<1>1. IInv => GreatestName
  BY GreatestNameFollows
<1> QED BY <1>1, GivenStays, PTL

\* "Select the latest backup image": the same is the newest image, if the images of
\* the database are of one kind and those of the table spaces as well.
THEOREM LatestSelectedHolds ==
  ASSUME WholeScan, OneKindEach PROVE Spec => []LatestSelected
<1>1. IInv => LatestSelected
  BY LatestFollows
<1> QED BY <1>1, GivenStays, PTL

\* The objects counted are all objects of one image and nothing else, if every image in
\* the store has an object with the number 1.
THEOREM CountsTheImageHolds ==
  ASSUME \A c \in Catalogs : \A o \in c : o.node = Node =>
             \E p \in c : p.node = Node /\ FirstPart(p) /\ ImageOf(p) = ImageOf(o)
  PROVE  Spec => []CountsTheImage
<1>1. IInv /\ catalog \in Catalogs => CountsTheImage
  <2> SUFFICES ASSUME IInv, catalog \in Catalogs PROVE CountsTheImage
    OBVIOUS
  <2>1. ImagesHaveFirst
    BY DEF ImagesHaveFirst, OnNode
  <2> QED BY <2>1, CountsFollows
<1> QED BY <1>1, GivenStays, PTL

\* sqluvint stops a restore with SQLUV_OBJS_FOUND only if more than one image fits the
\* request.
THEOREM RefusedOnlyIfAmbiguousHolds == Spec => []RefusedOnlyIfAmbiguous
<1>1. IInv => RefusedOnlyIfAmbiguous
  BY DEF IInv
<1> QED BY <1>1, GivenStays, PTL
-----------------------------------------------------------------------------
(* The backups and the choice together: VendorCatalog. *)

BP == INSTANCE VendorBackupProofs WITH pc <- session, rc <- sessionRc,
                                       MayFail <- BackupMayFail

\* What VendorBackup assumes of its constants holds in this instance.
LEMMA BackupAssumed == BP!BackupAssumption
<1> QED BY CatalogAssumption DEF BP!BackupAssumption, BP!Calls, Backup!Calls,
           BP!IsFiniteSet, IsFiniteSet

\* The two instances of the backup are the same specification.
LEMMA SameSession ==
  ASSUME NEW s \in Sessions, Backup!SessionStep(s)
  PROVE  BP!SessionStep(s)
<1> USE DEF Backup!Goto, BP!Goto, Backup!Try, BP!Try, Backup!db2Vars, BP!db2Vars,
            Backup!putVars, BP!putVars, Backup!storeVars, BP!storeVars,
            Backup!delVars, BP!delVars
<1>1. CASE Backup!Alloc(s)
  BY <1>1 DEF Backup!Alloc, BP!Alloc, BP!SessionStep
<1>2. CASE Backup!IntInit(s)
  BY <1>2 DEF Backup!IntInit, BP!IntInit, BP!SessionStep
<1>3. CASE Backup!IntBegin(s)
  BY <1>3 DEF Backup!IntBegin, BP!IntBegin, BP!SessionStep
<1>4. CASE Backup!IntCreate(s)
  BY <1>4 DEF Backup!IntCreate, BP!IntCreate, BP!SessionStep
<1>5. CASE Backup!IntPtr(s)
  BY <1>5 DEF Backup!IntPtr, BP!IntPtr, BP!SessionStep
<1>6. CASE Backup!IntExit(s)
  BY <1>6 DEF Backup!IntExit, BP!IntExit, BP!SessionStep, Backup!BSATerminate,
              BP!BSATerminate
<1>7. CASE Backup!PutCall(s)
  BY <1>7 DEF Backup!PutCall, BP!PutCall, BP!SessionStep
<1>8. CASE Backup!Send(s)
  BY <1>8 DEF Backup!Send, BP!Send, BP!SessionStep, Backup!BufferLen, BP!BufferLen,
              Backup!NumBytes, BP!NumBytes, Backup!EndOfTape, BP!EndOfTape
<1>9. CASE Backup!SendDone(s)
  BY <1>9 DEF Backup!SendDone, BP!SendDone, BP!SessionStep
<1>10. CASE Backup!PutReturns(s)
  BY <1>10 DEF Backup!PutReturns, BP!PutReturns, BP!SessionStep
<1>11. CASE Backup!EndCall(s)
  BY <1>11 DEF Backup!EndCall, BP!EndCall, BP!SessionStep
<1>12. CASE Backup!EndData(s)
  BY <1>12 DEF Backup!EndData, BP!EndData, BP!SessionStep
<1>13. CASE Backup!EndTxn(s)
  BY <1>13 DEF Backup!EndTxn, BP!EndTxn, BP!SessionStep, Backup!TxnEnds, BP!TxnEnds,
               Backup!VoteFor, BP!VoteFor
<1>14. CASE Backup!EndTerminate(s)
  BY <1>14 DEF Backup!EndTerminate, BP!EndTerminate, BP!SessionStep,
               Backup!BSATerminate, BP!BSATerminate
<1> QED BY <1>1, <1>2, <1>3, <1>4, <1>5, <1>6, <1>7, <1>8, <1>9, <1>10, <1>11,
           <1>12, <1>13, <1>14 DEF Backup!SessionStep

LEMMA SameDelete == Backup!DelStep => BP!DelStep
<1> SUFFICES ASSUME Backup!DelStep PROVE BP!DelStep
  OBVIOUS
<1> USE DEF Backup!DelGoto, BP!DelGoto, Backup!DelUnchanged, BP!DelUnchanged,
            Backup!putVars, BP!putVars, Backup!Committed, BP!Committed, BP!DelStep
<1>1. CASE Backup!DelInit
  BY <1>1 DEF Backup!DelInit, BP!DelInit
<1>2. CASE Backup!DelQueryFails
  BY <1>2 DEF Backup!DelQueryFails, BP!DelQueryFails
<1>3. CASE Backup!DelFound
  BY <1>3 DEF Backup!DelFound, BP!DelFound
<1>4. CASE Backup!DelFoundAll
  BY <1>4 DEF Backup!DelFoundAll, BP!DelFoundAll
<1>5. CASE Backup!DelBegin
  BY <1>5 DEF Backup!DelBegin, BP!DelBegin
<1>6. CASE Backup!DelDelete
  BY <1>6 DEF Backup!DelDelete, BP!DelDelete
<1>7. CASE Backup!DelEndTxn
  BY <1>7 DEF Backup!DelEndTxn, BP!DelEndTxn, Backup!DeletedObjects, BP!DeletedObjects
<1>8. CASE Backup!DelCleanup
  BY <1>8 DEF Backup!DelCleanup, BP!DelCleanup
<1> QED BY <1>1, <1>2, <1>3, <1>4, <1>5, <1>6, <1>7, <1>8 DEF Backup!DelStep

LEMMA SameStep == Backup!Next => [BP!Next]_(BP!vars)
<1> SUFFICES ASSUME Backup!Next PROVE [BP!Next]_(BP!vars)
  OBVIOUS
<1>1. CASE \E s \in Sessions : Backup!SessionStep(s)
  BY <1>1, SameSession DEF BP!Next
<1>2. CASE Backup!Decide
  <2>1. BP!Decide
    BY <1>2 DEF Backup!Decide, BP!Decide, Backup!AllOver, BP!AllOver, Backup!Over,
                BP!Over, Backup!putVars, BP!putVars, Backup!storeVars, BP!storeVars,
                Backup!delVars, BP!delVars
  <2> QED BY <2>1 DEF BP!Next
<1>3. CASE Backup!DelStep
  BY <1>3, SameDelete DEF BP!Next
<1>4. CASE Backup!Stop
  BY <1>4 DEF Backup!Stop, Backup!vars, BP!vars
<1> QED BY <1>1, <1>2, <1>3, <1>4 DEF Backup!Next

LEMMA BackupStarts == Backup!Init => BP!IInv
<1>1. Backup!Init => BP!Init
  BY DEF Backup!Init, BP!Init
<1> QED BY <1>1, BackupAssumed, BP!InitIInv

LEMMA BackupKeeps == BP!IInv /\ [BP!Next]_(BP!vars) => BP!IInv'
<1> QED BY BackupAssumed, BP!NextIInv
-----------------------------------------------------------------------------
(* The inductive invariant of the composition. *)

\* The store holds what the backups before the current one left; only one that
\* succeeded, or whose clean-up reported an error, left anything.
Kept ==
    /\ IsFiniteSet(catalog) /\ Others \subseteq catalog
    /\ \A o \in catalog : o \in Object
    /\ \A o \in catalog \ Others : /\ o.node = Node /\ o.kind = Kind
                                   /\ o.time < number /\ o.seq \in Sessions
                                   /\ o.time \in succeeded \cup doubtful
    /\ succeeded \subseteq 1 .. number - 1

\* Every buffer of a backup that succeeded is whole in one of its objects.
Whole ==
    \A n \in succeeded : \A b \in Buffers : \E s \in Sessions :
        ObjectOf(n, s) \in catalog /\ contents[ObjectOf(n, s)][b] = BuffSize

\* The choice starts from its initial values, after the last backup.
Phases ==
    /\ pc = "backup" =>
          /\ rc = "SQLUV_OK" /\ left = {} /\ answer = "SUCCESS" /\ found = None
          /\ foundDB = FALSE /\ foundTS = FALSE /\ best = None /\ CNamelen = 0
          /\ counted = {}
    /\ pc # "backup" => IInv /\ request \in Requests

CatalogIInv == number \in Nat \ {0} /\ BP!IInv /\ Kept /\ Whole /\ Phases

LEMMA CatalogStarts == CatalogInit => CatalogIInv
<1> SUFFICES ASSUME CatalogInit PROVE CatalogIInv
  OBVIOUS
<1>1. BP!IInv
  BY BackupStarts DEF CatalogInit
<1>2. Kept
  BY CatalogAssumption DEF CatalogInit, Kept
<1>3. Whole /\ Phases
  BY DEF CatalogInit, Whole, Phases
<1> QED BY <1>1, <1>2, <1>3 DEF CatalogInit, CatalogIInv

LEMMA BackupStepKeeps == CatalogIInv /\ BackupStep => CatalogIInv'
<1> SUFFICES ASSUME CatalogIInv, BackupStep PROVE CatalogIInv'
  OBVIOUS
<1> USE DEF CatalogIInv, BackupStep, db2Vars, selectVars, fetchVars, latestVars
<1>1. BP!IInv'
  BY SameStep, BackupKeeps
<1>2. Kept'
  BY DEF Kept
<1>3. Whole'
  BY DEF Whole
<1>4. Phases'
  BY DEF Phases
<1> QED BY <1>1, <1>2, <1>3, <1>4

LEMMA SelectStepKeeps == CatalogIInv /\ SelectStep => CatalogIInv'
<1> SUFFICES ASSUME CatalogIInv, SelectStep PROVE CatalogIInv'
  OBVIOUS
<1> USE DEF CatalogIInv, SelectStep, db2Vars
<1>1. BP!IInv'
  <2>1. UNCHANGED BP!vars
    BY DEF backupVars, BP!vars
  <2> QED BY <2>1, BackupKeeps
<1>2. UNCHANGED <<catalog, request>>
  BY DEF Next, vars, LatestQuery, LatestScan, LatestExit, Query, Count, Check, Done
<1>3. Kept'
  BY <1>2 DEF Kept
<1>4. Whole'
  BY <1>2 DEF Whole
<1>5. IInv'
  BY IInvStep DEF Phases
<1>6. pc' # "backup"
  BY <1>5 DEF IInv, Types
<1>7. Phases'
  BY <1>2, <1>5, <1>6 DEF Phases
<1> QED BY <1>1, <1>3, <1>4, <1>7

LEMMA BackupStartsAgain == (Backup!Init => BP!IInv)'
<1>1. Backup!Init => BP!IInv
  BY BackupStarts
<1> QED BY <1>1, PTL

\* The choice can start from the store the last backup leaves.
SelectStarts ==
    /\ Catalogued /\ \A t \in request : t \in Nat
    /\ pc = (IF request = {} THEN "latestQuery" ELSE "query") /\ rc = "SQLUV_OK"
    /\ left = {} /\ answer = "SUCCESS" /\ found = None
    /\ foundDB = FALSE /\ foundTS = FALSE /\ best = None /\ CNamelen = 0 /\ counted = {}

LEMMA SelectStartsThen == (SelectStarts => IInv)'
<1>1. SelectStarts => IInv
  BY Starts DEF SelectStarts
<1> QED BY <1>1, PTL

\* A finite number of objects joins the store.
LEMMA FiniteObjects ==
  ASSUME NEW n, NEW S \in SUBSET Sessions
  PROVE  IsFiniteSet({ObjectOf(n, s) : s \in S})
<1> DEFINE f == [s \in S |-> ObjectOf(n, s)]
           T == {ObjectOf(n, s) : s \in S}
<1>1. IsFiniteSet(S)
  BY CatalogAssumption, FS_Subset
<1>2. f \in Surjection(S, T)
  BY DEF Surjection
<1> HIDE DEF f, T
<1>3. IsFiniteSet(T)
  BY <1>1, <1>2, FS_Surjection
<1> QED BY <1>3 DEF T

LEMMA ObjectIs ==
  ASSUME NEW n \in Nat, NEW s \in Sessions
  PROVE  /\ ObjectOf(n, s) \in Object /\ ObjectOf(n, s) \notin Others
         /\ ObjectOf(n, s).node = Node /\ ObjectOf(n, s).kind = Kind
         /\ ObjectOf(n, s).time = n /\ ObjectOf(n, s).seq = s
<1>1. s \in Nat \ {0} /\ Kind \in Kinds /\ Node \in Int
  BY CatalogAssumption, SelectAssumption
<1>2. /\ ObjectOf(n, s).node = Node /\ ObjectOf(n, s).kind = Kind
      /\ ObjectOf(n, s).time = n /\ ObjectOf(n, s).seq = s
  BY DEF ObjectOf
<1>3. ObjectOf(n, s) \in Object
  BY <1>1 DEF ObjectOf, Object
<1> QED BY <1>2, <1>3, CatalogAssumption

\* The calls that can report neither a half-written buffer nor an incomplete list.
SoundStore == {"short", "delInit", "delNext"} \cap BackupMayFail = {}

\* What a backup that has come to its end leaves.
LEMMA Outcome ==
  ASSUME SoundStore, BP!IInv, Backup!Concluded
  PROVE  /\ outcome = "succeeded" => \A b \in Buffers : \E s \in Backup!Committed :
                stored[s][b] = BuffSize
         /\ outcome # "succeeded" =>
                outcome = "failed" /\ (delRc = "SQLUV_OK" => Backup!Committed = {})
<1>1. "short" \notin BackupMayFail /\ "delInit" \notin BackupMayFail
      /\ "delNext" \notin BackupMayFail
  BY DEF SoundStore
<1>2. BP!SuccessIsComplete
  BY <1>1, BackupAssumed, BP!SuccessFollows
<1>3. BP!DelOkMeansGone
  BY <1>1, BackupAssumed, BP!DelOkFollows
<1>4. outcome # "succeeded" => delPc = "done" /\ outcome = "failed"
  BY DEF Backup!Concluded, BP!IInv, BP!Decided
<1> QED BY <1>2, <1>3, <1>4 DEF BP!SuccessIsComplete, BP!DelOkMeansGone,
           BP!Committed, Backup!Committed

LEMMA BackupEndsKeeps ==
  ASSUME SoundStore, CatalogIInv, BackupEnds
  PROVE  CatalogIInv'
<1> DEFINE New == {ObjectOf(number, s) : s \in Backup!Committed}
<1>0. /\ number \in Nat \ {0} /\ number' = number + 1
      /\ BP!IInv /\ Kept /\ Whole /\ Phases
      /\ pc = "backup" /\ Backup!Concluded
      /\ catalog' = catalog \cup New
      /\ contents' = [o \in catalog' \ Others |->
                         IF o.time = number THEN stored[o.seq] ELSE contents[o]]
      /\ succeeded' = succeeded \cup (IF outcome = "succeeded" THEN {number} ELSE {})
      /\ doubtful' = doubtful \cup (IF outcome = "failed" /\ delRc # "SQLUV_OK"
                                    THEN {number} ELSE {})
  BY DEF CatalogIInv, BackupEnds
<1>1. BP!IInv'
  <2>1. Backup!Init'
    BY DEF BackupEnds, Backup!Init
  <2> QED BY <2>1, BackupStartsAgain
<1>2. Backup!Committed \subseteq Sessions
  BY DEF Backup!Committed
<1>3. \A o \in New : \E s \in Sessions : o = ObjectOf(number, s)
  BY <1>2
<1>4. \A o \in New : /\ o \in Object /\ o \notin Others
                     /\ o.node = Node /\ o.kind = Kind /\ o.time = number
                     /\ o.seq \in Sessions
  BY <1>0, <1>3, ObjectIs
<1>5. New # {} => number \in succeeded' \cup doubtful'
  <2>1. CASE outcome = "succeeded"
    BY <1>0, <2>1
  <2>2. CASE outcome # "succeeded"
    BY <1>0, <2>2, Outcome
  <2> QED BY <2>1, <2>2
<1>6. IsFiniteSet(New)
  BY <1>2, FiniteObjects
<1> HIDE DEF New
<1>7. Kept'
  <2>1. IsFiniteSet(catalog')
    BY <1>0, <1>6, FS_Union DEF Kept
  <2>2. Others \subseteq catalog' /\ \A o \in catalog' : o \in Object
    BY <1>0, <1>4 DEF Kept
  <2>3. ASSUME NEW o \in catalog' \ Others
        PROVE  /\ o.node = Node /\ o.kind = Kind
               /\ o.time < number' /\ o.seq \in Sessions
               /\ o.time \in succeeded' \cup doubtful'
    <3>1. CASE o \in New
      BY <1>0, <1>4, <1>5, <3>1
    <3>2. CASE o \in catalog \ Others
      <4>1. o \in Object
        BY <3>2, <1>0 DEF Kept
      <4>2. o.time \in Nat
        BY <4>1 DEF Object
      <4>3. o.time < number /\ o.node = Node /\ o.kind = Kind /\ o.seq \in Sessions
            /\ o.time \in succeeded \cup doubtful
        BY <3>2, <1>0 DEF Kept
      <4> QED BY <1>0, <4>2, <4>3
    <3> QED BY <1>0, <3>1, <3>2
  <2>4. succeeded' \subseteq 1 .. number' - 1
    <3>1. succeeded \subseteq 1 .. number - 1 /\ number \in Nat \ {0}
      BY <1>0 DEF Kept
    <3>2. succeeded' \subseteq succeeded \cup {number} /\ number' = number + 1
      BY <1>0
    <3>3. 1 .. number - 1 \subseteq 1 .. number /\ number \in 1 .. number
      BY ONLY <3>1
    <3>4. succeeded' \subseteq 1 .. number /\ number' - 1 = number
      BY ONLY <3>1, <3>2, <3>3
    <3> QED BY ONLY <3>4
  <2> QED BY <2>1, <2>2, <2>3, <2>4 DEF Kept
<1>8. Whole'
  <2> SUFFICES ASSUME NEW n \in succeeded', NEW b \in Buffers
               PROVE  \E s \in Sessions : /\ ObjectOf(n, s) \in catalog'
                                          /\ contents'[ObjectOf(n, s)][b] = BuffSize
    BY DEF Whole
  <2>1. CASE n \in succeeded
    <3>1. n \in Nat /\ n # number
      BY <1>0, <2>1 DEF Kept
    <3>2. PICK s \in Sessions :
             ObjectOf(n, s) \in catalog /\ contents[ObjectOf(n, s)][b] = BuffSize
      BY <1>0, <2>1 DEF Whole
    <3>3. ObjectOf(n, s) \in catalog' \ Others /\ ObjectOf(n, s).time = n
      BY <1>0, <3>1, <3>2, ObjectIs
    <3>4. contents'[ObjectOf(n, s)] = contents[ObjectOf(n, s)]
      BY <1>0, <3>1, <3>3
    <3> QED BY <3>2, <3>3, <3>4
  <2>2. CASE n = number /\ outcome = "succeeded"
    <3>1. PICK s \in Backup!Committed : stored[s][b] = BuffSize
      BY <1>0, <2>2, Outcome
    <3>2. s \in Sessions /\ ObjectOf(n, s) \in New
      BY <1>2, <2>2, <3>1 DEF New
    <3>3. /\ ObjectOf(n, s) \in catalog' \ Others
          /\ ObjectOf(n, s).time = number /\ ObjectOf(n, s).seq = s
      BY <1>0, <2>2, <3>2, ObjectIs
    <3>4. contents'[ObjectOf(n, s)] = stored[s]
      BY <1>0, <3>3
    <3> QED BY <3>1, <3>2, <3>3, <3>4
  <2> QED BY <1>0, <2>1, <2>2
<1>9. Phases'
  <2>1. /\ rc' = "SQLUV_OK" /\ left' = {} /\ answer' = "SUCCESS" /\ found' = None
        /\ foundDB' = FALSE /\ foundTS' = FALSE /\ best' = None /\ CNamelen' = 0
        /\ counted' = {}
    BY <1>0 DEF Phases, BackupEnds, fetchVars, latestVars
  <2>2. CASE pc' = "backup"
    BY <2>1, <2>2 DEF Phases
  <2>3. CASE pc' # "backup"
    <3>1. /\ request' \in Requests
          /\ pc' = IF request' = {} THEN "latestQuery" ELSE "query"
      BY <2>3 DEF BackupEnds
    <3>2. \A t \in request' : t \in Nat
      BY <3>1, SelectAssumption
    <3>3. Catalogued'
      BY <1>7 DEF Kept, Catalogued
    <3>4. SelectStarts'
      BY <2>1, <3>1, <3>2, <3>3 DEF SelectStarts
    <3>5. IInv'
      BY <3>4, SelectStartsThen
    <3> QED BY <2>3, <3>1, <3>5 DEF Phases
  <2> QED BY <2>2, <2>3
<1>10. number' \in Nat \ {0}
  BY <1>0
<1> QED BY <1>1, <1>7, <1>8, <1>9, <1>10 DEF CatalogIInv

LEMMA CatalogStutter == CatalogIInv /\ UNCHANGED catalogVars => CatalogIInv'
<1> SUFFICES ASSUME CatalogIInv, UNCHANGED catalogVars PROVE CatalogIInv'
  OBVIOUS
<1> USE DEF CatalogIInv, catalogVars, selectVars, db2Vars
<1>1. BP!IInv'
  <2>1. UNCHANGED BP!vars
    BY DEF backupVars, BP!vars
  <2> QED BY <2>1, BackupKeeps
<1>2. Kept'
  BY DEF Kept
<1>3. Whole'
  BY DEF Whole
<1>4. Phases'
  <2>1. pc # "backup" => IInv'
    <3>1. UNCHANGED vars
      BY DEF vars
    <3> QED BY <3>1, IInvStep DEF Phases
  <2> QED BY <2>1 DEF Phases, fetchVars, latestVars
<1> QED BY <1>1, <1>2, <1>3, <1>4

LEMMA CatalogIInvHolds == ASSUME SoundStore PROVE CatalogSpec => []CatalogIInv
<1>1. CatalogIInv /\ [CatalogNext]_catalogVars => CatalogIInv'
  BY BackupStepKeeps, BackupEndsKeeps, SelectStepKeeps, CatalogStutter DEF CatalogNext
<1> QED BY <1>1, CatalogStarts, PTL DEF CatalogSpec

\* A timestamp asked for names one backup.
OneTime == \A r \in Requests : \A t, u \in r : t = u

LEMMA ChosenFollows ==
  ASSUME WholeScan, OneTime, CatalogIInv
  PROVE  ChosenIsComplete
<1> SUFFICES ASSUME Selected
             PROVE  \E n \in {o.time : o \in counted} :
                       \/ n \in doubtful
                       \/ /\ n \in succeeded
                          /\ \A o \in counted : o.time = n
                          /\ \A b \in Buffers : \E o \in counted :
                                contents[o][b] = BuffSize
                          /\ request = {} => \A k \in succeeded : k <= n
                          /\ request # {} => n \in request
  BY DEF ChosenIsComplete
<1>1. IInv /\ request \in Requests /\ Kept /\ Whole /\ number \in Nat \ {0}
  BY DEF CatalogIInv, Phases, Selected
<1>2. counted = Asked /\ counted # {}
  BY <1>1 DEF IInv, Counting
<1>3. PICK c \in OnNode : c \in Asked
  BY <1>2 DEF Asked
<1>4. \A o \in OnNode : /\ o \in catalog \ Others /\ o.kind = Kind
                        /\ o.time \in succeeded \cup doubtful /\ o.time \in Nat
  BY <1>1, CatalogAssumption DEF Kept, OnNode, Object
<1>5. c.time \in {o.time : o \in counted}
  BY <1>2, <1>3
<1>6. CASE c.time \in doubtful
  BY <1>5, <1>6
<1>7. CASE c.time \in succeeded
  <2>1. request = {} => best = [kind |-> Kind, time |-> c.time]
    BY <1>3, <1>4 DEF Asked, Matches, ImageOf
  <2>2. request # {} => c.time \in request
    BY <1>3 DEF Asked, Matches
  <2>3. ASSUME NEW o \in counted PROVE o.time = c.time
    <3>1. o \in OnNode /\ Matches(o)
      BY <1>2 DEF Asked
    <3>2. CASE request = {}
      <4>1. ImageOf(o) = ImageOf(c)
        BY <3>1, <3>2, <1>3 DEF Asked, Matches
      <4>2. ImageOf(o).time = ImageOf(c).time
        BY <4>1
      <4> QED BY <4>2 DEF ImageOf
    <3>3. CASE request # {}
      BY <1>1, <2>2, <3>1, <3>3 DEF Matches, OneTime
    <3> QED BY <3>2, <3>3
  <2>4. ASSUME NEW k \in succeeded, NEW b \in Buffers
        PROVE  \E s \in Sessions : /\ ObjectOf(k, s) \in OnNode
                                   /\ ImageOf(ObjectOf(k, s)) = [kind |-> Kind, time |-> k]
                                   /\ ObjectOf(k, s).time = k /\ k \in Nat
                                   /\ contents[ObjectOf(k, s)][b] = BuffSize
    <3>1. PICK s \in Sessions :
             ObjectOf(k, s) \in catalog /\ contents[ObjectOf(k, s)][b] = BuffSize
      BY <1>1 DEF Whole
    <3>2. k \in Nat
      BY <1>1 DEF Kept
    <3> QED BY <3>1, <3>2, ObjectIs DEF OnNode, ImageOf
  <2>5. ASSUME NEW b \in Buffers
        PROVE  \E o \in counted : contents[o][b] = BuffSize
    <3>1. PICK s \in Sessions :
             /\ ObjectOf(c.time, s) \in OnNode
             /\ ImageOf(ObjectOf(c.time, s)) = [kind |-> Kind, time |-> c.time]
             /\ ObjectOf(c.time, s).time = c.time
             /\ contents[ObjectOf(c.time, s)][b] = BuffSize
      BY <1>7, <2>4
    <3>2. Matches(ObjectOf(c.time, s))
      BY <2>1, <2>2, <3>1 DEF Matches
    <3> QED BY <1>2, <3>1, <3>2 DEF Asked
  <2>6. ASSUME request = {}, NEW k \in succeeded PROVE k <= c.time
    <3>1. PICK b \in Buffers : TRUE
      BY CatalogAssumption
    <3>2. PICK s \in Sessions :
             /\ ObjectOf(k, s) \in OnNode
             /\ ImageOf(ObjectOf(k, s)) = [kind |-> Kind, time |-> k] /\ k \in Nat
      BY <2>4, <3>1
    <3>3. ImageOf(ObjectOf(k, s)) \in Images
      BY <2>6, <3>2 DEF Images, Wanted
    <3>4. BestOf(OnNode) /\ best # None
      BY <1>1, <2>6, ScanEnds, SelectAssumption
    <3>5. Length[Kind] = CNamelen /\ Length[Kind] \in Nat
      BY <1>4, <3>4, SelectAssumption, CatalogAssumption DEF BestOf
    <3>6. GreatestName
      BY <1>1, GreatestNameFollows
    <3>7. [kind |-> Kind, time |-> k] \in Images /\ best.kind = Kind /\ best.time = c.time
      BY <2>1, <2>6, <3>2, <3>3
    <3>8. [kind |-> Kind, time |-> k].time <= best.time
      BY <2>6, <3>5, <3>6, <3>7 DEF GreatestName
    <3> QED BY <3>7, <3>8
  <2> QED BY <1>5, <1>7, <2>2, <2>3, <2>5, <2>6
<1> QED BY <1>3, <1>4, <1>6, <1>7

\* Composed with the backups: what sqluvint settles for is the newest backup DB2 was
\* told succeeded (or the one asked for), and the objects it counts hold every byte of
\* it; the only other image it may choose is one whose removal sqluvdel has reported as
\* failed.  The conditions: BSASendData takes all or nothing, sqluvdel's BSAInit and the
\* two walks through the store meet no error, and a request names one timestamp.
THEOREM ChosenIsCompleteHolds ==
  ASSUME SoundStore, WholeScan, OneTime
  PROVE  CatalogSpec => []ChosenIsComplete
<1>1. CatalogIInv => ChosenIsComplete
  BY ChosenFollows
<1> QED BY <1>1, CatalogIInvHolds, PTL
=============================================================================
