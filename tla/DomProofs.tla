------------------------------ MODULE DomProofs ------------------------------
(***************************************************************************)
(* Proofs about Dom, for any nodes, any texts and any calls: a list of      *)
(* nodes stays one whole list, and an observer stays informed.              *)
(***************************************************************************)
EXTENDS Dom, Folding, FiniteSetTheorems

-----------------------------------------------------------------------------
(* The nodes, and the states the calls lead to.                               *)
Items == Children \cup Attributes

Records == [type : {"added", "removed", "attributes"}, node : Nodes]

(* An observer holds records only if a microtask is due, and watches          *)
(* something if it does.                                                      *)
WatchRecords ==
  [target : Elements \cup {Doc, Null}, childList : BOOLEAN, subtree : BOOLEAN,
   attributes : BOOLEAN, records : Seq(Records), scheduled : BOOLEAN]

Watches ==
  {w \in WatchRecords : /\ w.records # <<>> => w.scheduled
                        /\ w.records # <<>> \/ w.childList => w.target # Null}

States ==
  [next : [Linked -> Linked \cup {Null}], prev : [Linked -> Linked \cup {Null}],
   parent : [Nodes -> Parents \cup {Null}], owner : [Attributes -> Elements \cup {Null}],
   data : [Texts -> Seq(Texts)], connected : [Custom -> BOOLEAN],
   watch : [Observers -> Watches]]

SameLinks(e, d) ==
  e.next = d.next /\ e.prev = d.prev /\ e.parent = d.parent /\ e.owner = d.owner

(* What a callback makes of its records is a set of elements.                 *)
LEMMA NotedTyped ==
  ASSUME NEW known \in SUBSET Elements, NEW record \in Records
  PROVE  Noted(known, record) \in SUBSET Elements
BY DEF Noted

LEMMA ReadingSteps ==
  ASSUME NEW known \in SUBSET Elements, NEW records \in Seq(Records)
  PROVE  \E step : /\ step[0] = known
                   /\ step[Len(records)] = Reading(known, records)
                   /\ \A k \in 1..Len(records) : step[k] = Noted(step[k - 1], records[k])
<1> DEFINE n == Len(records)
           F(iter) == [s \in SUBSET DOMAIN records |->
                         IF s = {} THEN known
                         ELSE Noted(iter[s \ {Max(s)}], records[Max(s)])]
           each == CHOOSE iter : iter = F(iter)
           step == [k \in 1..n |-> [x \in SUBSET Elements |-> Noted(x, records[k])]]
<1>1. n \in Nat /\ DOMAIN records = 1..n /\ \A k \in 1..n : records[k] \in Records
  OBVIOUS
<1>2. Reading(known, records) = each[1..n]
  BY <1>1 DEF Reading, FoldLeft, MapThenFoldSet
<1>3. step \in [1..n -> [SUBSET Elements -> SUBSET Elements]]
  BY <1>1, NotedTyped
<1>4. PICK f \in [SUBSET (1..n) -> SUBSET Elements] : Folding(f, known, n, step)
  <2> HIDE DEF step, n
  <2>1. n \in Nat /\ known \in SUBSET Elements
    BY <1>1
  <2>2. QED
    BY ONLY <1>3, <2>1, FoldExists
<1>5. f = F(f)
  <2>1. ASSUME NEW s \in SUBSET (1..n), s # {}
        PROVE  f[s] = Noted(f[s \ {Max(s)}], records[Max(s)])
    <3>1. Max(s) \in 1..n
      BY <1>1, <2>1, MaxIn
    <3>2. f[s \ {Max(s)}] \in SUBSET Elements
      OBVIOUS
    <3>3. QED
      BY <1>4, <2>1, <3>1, <3>2 DEF Folding
  <2>2. QED
    BY <1>1, <1>4, <2>1 DEF Folding
<1>6. each = F(each)
  <2> HIDE DEF F
  <2> QED BY <1>5
<1> DEFINE body == [s \in SUBSET (1..n) |->
                      Noted(each[s \ {Max(s)}], records[Max(s)])]
<1>7. Unfolding(each, known, n, body)
  <2> HIDE DEF each
  <2> QED BY <1>1, <1>6 DEF Unfolding
<1> HIDE DEF each
<1>8. UnfoldedBy(each, known, n, body)
  <2> HIDE DEF body
  <2> QED BY <1>1, <1>7, FoldSteps
<1>9. \A k \in 1..n : each[1..k] = Noted(each[1..(k - 1)], records[k])
  <2>1. TAKE k \in 1..n
  <2>2. 1..k \in SUBSET (1..n)
    OBVIOUS
  <2>3. body[1..k] = Noted(each[(1..k) \ {Max(1..k)}], records[Max(1..k)])
    BY <2>2
  <2> HIDE DEF body
  <2>4. QED
    BY <1>8, <2>3 DEF UnfoldedBy
<1> DEFINE along == [k \in Nat |-> each[1..k]]
<1>10. /\ along[0] = known
       /\ along[n] = Reading(known, records)
       /\ \A k \in 1..n : along[k] = Noted(along[k - 1], records[k])
  BY <1>1, <1>2, <1>8, <1>9 DEF UnfoldedBy
<1>11. QED
  <2> HIDE DEF along
  <2> QED BY <1>10

LEMMA ReadingTyped ==
  ASSUME NEW known \in SUBSET Elements, NEW records \in Seq(Records)
  PROVE  Reading(known, records) \in SUBSET Elements
<1> DEFINE n == Len(records)
<1>1. n \in Nat /\ \A k \in 1..n : records[k] \in Records
  OBVIOUS
<1>2. PICK step : /\ step[0] = known
                  /\ step[n] = Reading(known, records)
                  /\ \A k \in 1..n : step[k] = Noted(step[k - 1], records[k])
  BY ReadingSteps
<1>3. \A k \in 1..n : step[k - 1] \in SUBSET Elements => step[k] \in SUBSET Elements
  BY <1>1, <1>2, NotedTyped
<1> HIDE DEF n
<1>4. step[n] \in SUBSET Elements
  <2>1. step[0] \in SUBSET Elements
    BY <1>2
  <2>2. QED
    BY <1>1, <1>3, <2>1, StepsKeep
<1>5. QED
  BY <1>2, <1>4

LEMMA ReadingAppend ==
  ASSUME NEW known \in SUBSET Elements, NEW records \in Seq(Records), NEW r \in Records
  PROVE  Reading(known, Append(records, r)) = Noted(Reading(known, records), r)
<1> DEFINE n == Len(records)
           more == Append(records, r)
<1>1. /\ n \in Nat /\ more \in Seq(Records) /\ Len(more) = n + 1 /\ more[n + 1] = r
      /\ \A k \in 1..n : more[k] = records[k]
  OBVIOUS
<1>2. PICK a : /\ a[0] = known
               /\ a[n] = Reading(known, records)
               /\ \A k \in 1..n : a[k] = Noted(a[k - 1], records[k])
  BY ReadingSteps
<1> HIDE DEF n, more
<1>3. PICK b : /\ b[0] = known
               /\ b[n + 1] = Reading(known, more)
               /\ \A k \in 1..(n + 1) : b[k] = Noted(b[k - 1], more[k])
  <2>1. PICK b : /\ b[0] = known
                 /\ b[Len(more)] = Reading(known, more)
                 /\ \A k \in 1..Len(more) : b[k] = Noted(b[k - 1], more[k])
    BY <1>1, ReadingSteps
  <2>2. QED
    BY <1>1, <2>1
<1> DEFINE reach == [k \in Nat |-> {a[k]}]
<1>4. b[0] \in reach[0]
  BY <1>2, <1>3
<1>5. ASSUME NEW k \in 1..n, b[k - 1] \in reach[k - 1] PROVE b[k] \in reach[k]
  <2>1. k \in Nat /\ k - 1 \in Nat /\ k \in 1..(n + 1)
    BY <1>1
  <2>2. b[k - 1] = a[k - 1]
    BY <1>5, <2>1
  <2>3. b[k] = a[k]
    BY <1>1, <1>2, <1>3, <2>1, <2>2
  <2>4. QED
    BY <2>1, <2>3
<1>6. b[n] = a[n]
  <2>1. n \in 0..n
    BY <1>1
  <2>2. b[n] \in reach[n]
    <3> HIDE DEF reach
    <3> QED BY <1>1, <1>4, <1>5, <2>1, StepsReach
  <2>3. QED
    BY <1>1, <2>2
<1>7. b[n + 1] = Noted(b[n], r)
  <2>1. n + 1 \in 1..(n + 1) /\ (n + 1) - 1 = n
    BY <1>1
  <2>2. QED
    BY <1>1, <1>3, <2>1
<1>8. QED
  BY <1>2, <1>3, <1>6, <1>7 DEF more

LEMMA ReadingNothing ==
  ASSUME NEW known \in SUBSET Elements
  PROVE  Reading(known, <<>>) = known
<1>1. <<>> \in Seq(Records) /\ Len(<<>>) = 0
  OBVIOUS
<1>2. PICK step : /\ step[0] = known
                  /\ step[Len(<<>>)] = Reading(known, <<>>)
                  /\ \A k \in 1..Len(<<>>) : step[k] = Noted(step[k - 1], <<>>[k])
  BY <1>1, ReadingSteps
<1>3. QED
  BY <1>1, <1>2

(* What the nodes of one kind are not: the provers need it again and again.   *)
LEMMA Kinds ==
  /\ Null \notin Linked
  /\ Items \subseteq Nodes /\ Nodes \subseteq Linked /\ Parents \subseteq Nodes
  /\ Children \subseteq Items /\ Elements \subseteq Children \cap Parents
  /\ Attributes \subseteq Items /\ Elements \cap Attributes = {}
  /\ Children \cap Attributes = {} /\ Attributes \cap Parents = {}
  /\ Children \cap Parents = Elements
  /\ Fragments \subseteq Parents /\ Doc \in Parents
  /\ Fragments \cap Items = {} /\ Doc \notin Items
  /\ \A p \in Parents : End(p) \in Linked /\ End(p) \notin Nodes /\ End(p) # Null
  /\ \A p, q \in Parents : End(p) = End(q) => p = q
  /\ \A n \in Linked : n \notin Nodes => \E p \in Parents : n = End(p)
<1> USE DomAssumption DEF Items, Nodes, Linked, Parents, Children
<1>1. \A p, q : End(p) = End(q) => p = q
  BY DEF End
<1>2. \A p \in Parents : End(p) \in Ends
  BY DEF Ends
<1>3. \A n \in Ends : \E p \in Parents : n = End(p)
  BY DEF Ends
<1> HIDE DEF Nodes, Linked, Items, Parents, Children
<1>4. Null \notin Linked
  OBVIOUS
<1>5. /\ Items \subseteq Nodes /\ Nodes \subseteq Linked /\ Parents \subseteq Nodes
      /\ Children \subseteq Items /\ Elements \subseteq Children \cap Parents
      /\ Attributes \subseteq Items
  BY DEF Items, Nodes, Linked, Parents, Children
<1>6. /\ Children \cap Attributes = {} /\ Attributes \cap Parents = {}
      /\ Children \cap Parents = Elements
      /\ Fragments \subseteq Parents /\ Doc \in Parents
      /\ Fragments \cap Items = {} /\ Doc \notin Items /\ Elements \cap Attributes = {}
  BY DEF Items, Parents, Children
<1>7. \A p \in Parents : End(p) \in Linked /\ End(p) \notin Nodes /\ End(p) # Null
  BY <1>2, <1>4 DEF Linked
<1>8. \A n \in Linked : n \notin Nodes => \E p \in Parents : n = End(p)
  BY <1>3 DEF Linked
<1>9. QED
  BY <1>1, <1>4, <1>5, <1>6, <1>7, <1>8

LEMMA GetEnds ==
  /\ \A x \in Linked : GetEnd(x) \in Linked
  /\ \A x, y \in Items : GetEnd(x) = GetEnd(y) => x = y
  /\ \A x \in Items : GetEnd(x) \notin Parents
  /\ \A x \in Items, p \in Parents : GetEnd(x) = End(p) => x = p /\ p \in Elements
  /\ \A x \in Items : x \notin Elements => GetEnd(x) = x
  /\ \A e \in Elements : GetEnd(e) = End(e)
  /\ \A x, y \in Items : GetEnd(x) = y => x = y /\ x \notin Elements
<1>1. \A e \in Elements : GetEnd(e) = End(e) /\ e \in Parents /\ End(e) \in Linked /\ End(e) \notin Nodes
  BY Kinds DEF GetEnd
<1>2. \A x : x \notin Elements => GetEnd(x) = x
  BY DEF GetEnd
<1>3. \A x \in Linked : GetEnd(x) \in Linked
  BY <1>1, <1>2
<1>31. \A x \in Items : GetEnd(x) \notin Parents
  <2>1. TAKE x \in Items
  <2>2. CASE x \in Elements
    BY <1>1, <2>2, Kinds
  <2>3. CASE x \notin Elements
    BY <1>2, <2>3, Kinds DEF Items
  <2>4. QED
    BY <2>2, <2>3
<1>32. /\ \A x \in Items : x \notin Elements => GetEnd(x) = x
       /\ \A e \in Elements : GetEnd(e) = End(e)
  BY <1>1, <1>2
<1>4. \A x, y \in Items : GetEnd(x) = GetEnd(y) => x = y
  BY <1>1, <1>2, Kinds
<1>5. \A x \in Items, p \in Parents : GetEnd(x) = End(p) => x = p /\ p \in Elements
  BY <1>1, <1>2, Kinds
<1>6. \A x, y \in Items : GetEnd(x) = y => x = y /\ x \notin Elements
  BY <1>1, <1>2, Kinds
<1>7. QED
  BY <1>3, <1>31, <1>32, <1>4, <1>5, <1>6

-----------------------------------------------------------------------------
(* What a change sets off leaves the links alone.                             *)
LEMMA Queued ==
  ASSUME NEW w \in Watches, w.target # Null, NEW r \in Records
  PROVE  /\ Queue(w, r) \in Watches
         /\ Queue(w, r).records = Append(w.records, r)
         /\ Queue(w, r).target = w.target
         /\ Queue(w, r).childList = w.childList /\ Queue(w, r).subtree = w.subtree
<1>1. Append(w.records, r) \in Seq(Records) /\ Append(w.records, r) # <<>>
  <2>1. w.records \in Seq(Records)
    BY DEF Watches, WatchRecords
  <2>2. QED
    BY <2>1
<1>2. Queue(w, r) = [w EXCEPT !.records = Append(w.records, r), !.scheduled = TRUE]
  BY DEF Queue, Watches, WatchRecords
<1>3. QED
  BY <1>1, <1>2 DEF Watches, WatchRecords

(* What an observer that watches the children of one node can tell from what  *)
(* it knew and its records.                                                   *)
Knows(w, known, parent) ==
  w.childList /\ ~w.subtree =>
    Reading(known, w.records) = {x \in Elements : parent[x] = w.target}

Informed(watch, known, parent) ==
  /\ known \in [Observers -> SUBSET Elements]
  /\ \A o \in Observers : Knows(watch[o], known[o], parent)

LEMMA KnowsQueued ==
  ASSUME NEW w \in Watches, w.target # Null, NEW r \in Records, NEW known \in SUBSET Elements,
         NEW parent,
         w.childList /\ ~w.subtree =>
           Noted(Reading(known, w.records), r) = {x \in Elements : parent[x] = w.target}
  PROVE  Knows(Queue(w, r), known, parent)
<1>1. w.records \in Seq(Records)
  BY DEF Watches, WatchRecords
<1>2. Reading(known, Queue(w, r).records) = Noted(Reading(known, w.records), r)
  BY <1>1, Queued, ReadingAppend
<1>3. /\ Queue(w, r).target = w.target
      /\ Queue(w, r).childList = w.childList /\ Queue(w, r).subtree = w.subtree
  BY Queued
<1>4. QED
  BY <1>2, <1>3 DEF Knows

(* A record of an attribute or of a text changes nothing.                     *)
LEMMA KnowsStill ==
  ASSUME NEW w \in Watches, w.target # Null, NEW r \in Records, NEW known \in SUBSET Elements,
         NEW parent, r.type = "attributes" \/ r.node \notin Elements, Knows(w, known, parent)
  PROVE  Knows(Queue(w, r), known, parent)
<1>1. w.records \in Seq(Records)
  BY DEF Watches, WatchRecords
<1>2. Reading(known, w.records) \in SUBSET Elements
  BY <1>1, ReadingTyped
<1>3. Noted(Reading(known, w.records), r) = Reading(known, w.records)
  <2>1. r.type \in {"added", "removed", "attributes"}
    BY DEF Records
  <2>2. CASE r.type = "attributes"
    BY <2>2 DEF Noted
  <2>3. CASE r.node \notin Elements /\ r.type = "added"
    <3>1. {r.node} \cap Elements = {}
      BY <2>3
    <3>2. QED
      BY <2>3, <3>1 DEF Noted
  <2>4. CASE r.node \notin Elements /\ r.type = "removed"
    <3>1. Reading(known, w.records) \ {r.node} = Reading(known, w.records)
      BY <1>2, <2>4
    <3>2. QED
      BY <2>4, <3>1 DEF Noted
  <2>5. QED
    BY <2>1, <2>2, <2>3, <2>4
<1>4. w.childList /\ ~w.subtree =>
        Noted(Reading(known, w.records), r) = {x \in Elements : parent[x] = w.target}
  BY <1>3 DEF Knows
<1>5. QED
  BY <1>4, KnowsQueued

LEMMA Watching ==
  ASSUME NEW d \in States, NEW watch \in [Observers -> Watches]
  PROVE  /\ [d EXCEPT !.watch = watch] \in States
         /\ SameLinks([d EXCEPT !.watch = watch], d)
         /\ [d EXCEPT !.watch = watch].data = d.data
         /\ [d EXCEPT !.watch = watch].watch = watch
BY DEF States, SameLinks

LEMMA MoCallbackKeepsLinks ==
  ASSUME NEW d \in States, NEW n \in Nodes, NEW parent
  PROVE  /\ MoCallback(d, n, parent) \in States
         /\ SameLinks(MoCallback(d, n, parent), d)
         /\ MoCallback(d, n, parent).data = d.data
         /\ \A o \in Observers :
              MoCallback(d, n, parent).watch[o] =
                IF Noticed(d, d.watch[o], n, parent)
                THEN Queue(d.watch[o], Record(IF parent = Null THEN "added" ELSE "removed", n))
                ELSE d.watch[o]
<1> DEFINE kind == IF parent = Null THEN "added" ELSE "removed"
           watch == [o \in Observers |->
                       IF Noticed(d, d.watch[o], n, parent)
                       THEN Queue(d.watch[o], Record(kind, n)) ELSE d.watch[o]]
<1>1. d.watch \in [Observers -> Watches]
  BY DEF States
<1>2. Record(kind, n) \in Records
  BY DEF Record, Records
<1>3. ASSUME NEW o \in Observers, Noticed(d, d.watch[o], n, parent)
      PROVE  Queue(d.watch[o], Record(kind, n)) \in Watches
  <2>1. d.watch[o].target # Null
    BY <1>3 DEF Noticed
  <2> HIDE DEF kind
  <2>2. QED
    BY <1>1, <1>2, <2>1, Queued
<1>4. watch \in [Observers -> Watches]
  <2> HIDE DEF kind
  <2> QED BY <1>1, <1>3
<1>5. MoCallback(d, n, parent) = [d EXCEPT !.watch = watch]
  BY DEF MoCallback, States
<1>6. [d EXCEPT !.watch = watch].watch = watch
  <2> HIDE DEF watch
  <2> QED BY DEF States
<1>7. \A o \in Observers : watch[o] = IF Noticed(d, d.watch[o], n, parent)
                                      THEN Queue(d.watch[o], Record(kind, n)) ELSE d.watch[o]
  OBVIOUS
<1>8. /\ MoCallback(d, n, parent) \in States
      /\ SameLinks(MoCallback(d, n, parent), d)
      /\ MoCallback(d, n, parent).data = d.data
      /\ MoCallback(d, n, parent).watch = watch
  <2> HIDE DEF watch
  <2> QED BY <1>4, <1>5, <1>6, Watching
<1>9. QED
  <2> HIDE DEF watch
  <2> QED BY <1>7, <1>8

LEMMA MoAttributesKeepsLinks ==
  ASSUME NEW d \in States, NEW e \in Nodes
  PROVE  /\ MoAttributes(d, e) \in States
         /\ SameLinks(MoAttributes(d, e), d)
         /\ MoAttributes(d, e).data = d.data
         /\ \A known, parent : Informed(d.watch, known, parent) =>
              Informed(MoAttributes(d, e).watch, known, parent)
<1> DEFINE noted(o) ==
             \/ /\ d.watch[o].childList
                /\ IF d.watch[o].subtree
                   THEN d.watch[o].target = Doc \/ Holds(d, d.watch[o].target, e)
                   ELSE e \in ToSet(ChildNodes(d, d.watch[o].target))
             \/ ~d.watch[o].childList /\ d.watch[o].attributes /\ d.watch[o].target = e
           r == Record("attributes", e)
           watch == [o \in Observers |->
                       IF d.watch[o].target # Null /\ noted(o)
                       THEN Queue(d.watch[o], r) ELSE d.watch[o]]
<1>1. d.watch \in [Observers -> Watches]
  BY DEF States
<1>2. r \in Records /\ r.type = "attributes"
  BY DEF Record, Records
<1>3. watch \in [Observers -> Watches]
  <2> HIDE DEF noted, r
  <2> QED BY <1>1, <1>2, Queued
<1>4. MoAttributes(d, e) = [d EXCEPT !.watch = watch]
  BY DEF MoAttributes, States
<1>5. ASSUME NEW known, NEW parent, Informed(d.watch, known, parent)
      PROVE  Informed(watch, known, parent)
  <2> HIDE DEF noted, r
  <2>1. known \in [Observers -> SUBSET Elements] /\ \A o \in Observers : Knows(d.watch[o], known[o], parent)
    BY <1>5 DEF Informed
  <2>2. ASSUME NEW o \in Observers PROVE Knows(watch[o], known[o], parent)
    <3>1. d.watch[o] \in Watches /\ known[o] \in SUBSET Elements /\ Knows(d.watch[o], known[o], parent)
      BY <1>1, <2>1
    <3>2. watch[o] = d.watch[o] \/ (d.watch[o].target # Null /\ watch[o] = Queue(d.watch[o], r))
      OBVIOUS
    <3>3. QED
      BY ONLY <1>2, <3>1, <3>2, KnowsStill
  <2> HIDE DEF watch
  <2>3. QED
    BY <2>1, <2>2 DEF Informed
<1>6. [d EXCEPT !.watch = watch].watch = watch
  <2> HIDE DEF watch
  <2> QED BY DEF States
<1>7. QED
  <2> HIDE DEF watch
  <2> QED BY <1>3, <1>4, <1>5, <1>6, Watching

LEMMA TriggerKeepsLinks ==
  ASSUME NEW d \in States, NEW n, NEW on \in BOOLEAN
  PROVE  /\ Trigger(d, n, on) \in States
         /\ SameLinks(Trigger(d, n, on), d)
         /\ Trigger(d, n, on).data = d.data /\ Trigger(d, n, on).watch = d.watch
<1> DEFINE called(e) == e \in ToSet(Inside(d, n)) /\ IsConnected(d, e) = on
           connected == [e \in Custom |-> IF called(e) THEN on ELSE d.connected[e]]
<1>1. connected \in [Custom -> BOOLEAN]
  <2> HIDE DEF called
  <2> QED BY DEF States
<1>2. n \in Elements => Trigger(d, n, on) = [d EXCEPT !.connected = connected]
  BY DEF Trigger, States
<1>3. n \notin Elements => Trigger(d, n, on) = d
  BY DEF Trigger
<1>4. /\ [d EXCEPT !.connected = connected] \in States
      /\ SameLinks([d EXCEPT !.connected = connected], d)
      /\ [d EXCEPT !.connected = connected].data = d.data
      /\ [d EXCEPT !.connected = connected].watch = d.watch
  <2> HIDE DEF connected
  <2> QED BY <1>1 DEF States, SameLinks
<1>5. QED
  <2> HIDE DEF connected
  <2> QED BY <1>2, <1>3, <1>4 DEF SameLinks

(* The records of a child that is a text are harmless; those of an element    *)
(* that leaves a parent keep what its observer can tell.                      *)
LEMMA TextKeepsInformed ==
  ASSUME NEW d \in States, NEW n \in Texts, NEW p, NEW known, NEW parent,
         Informed(d.watch, known, parent)
  PROVE  Informed(MoCallback(d, n, p).watch, known, parent)
<1> DEFINE r == Record(IF p = Null THEN "added" ELSE "removed", n)
           watch == MoCallback(d, n, p).watch
<1>1. n \in Nodes /\ n \notin Elements
  BY Kinds, DomAssumption DEF Children, DomAssumption, Parents
<1>2. r \in Records /\ r.node \notin Elements
  BY <1>1 DEF Record, Records
<1>3. \A o \in Observers : watch[o] = IF Noticed(d, d.watch[o], n, p) THEN Queue(d.watch[o], r)
                                      ELSE d.watch[o]
  BY <1>1, MoCallbackKeepsLinks
<1> HIDE DEF r, watch
<1>4. known \in [Observers -> SUBSET Elements] /\ \A o \in Observers : Knows(d.watch[o], known[o], parent)
  BY DEF Informed
<1>5. ASSUME NEW o \in Observers PROVE Knows(watch[o], known[o], parent)
  <2>1. d.watch[o] \in Watches /\ known[o] \in SUBSET Elements /\ Knows(d.watch[o], known[o], parent)
    BY <1>4 DEF States
  <2>2. watch[o] = d.watch[o] \/ (d.watch[o].target # Null /\ watch[o] = Queue(d.watch[o], r))
    BY <1>3 DEF Noticed
  <2>3. QED
    BY ONLY <1>2, <2>1, <2>2, KnowsStill
<1>6. QED
  BY <1>4, <1>5 DEF Informed, watch

LEMMA LeavingKeepsInformed ==
  ASSUME NEW d \in States, NEW n \in Children, NEW p \in Parents, NEW known, NEW parent,
         Informed(d.watch, known, parent), parent[n] = p, d.parent[n] = Null,
         \A x \in Elements : x # n => d.parent[x] = parent[x]
  PROVE  Informed(MoCallback(d, n, p).watch, known, d.parent)
<1> DEFINE r == Record("removed", n)
           watch == MoCallback(d, n, p).watch
<1>1. n \in Nodes /\ p # Null
  BY Kinds
<1>2. r \in Records /\ r.node = n /\ r.type = "removed"
  BY <1>1 DEF Record, Records
<1>3. \A o \in Observers : watch[o] = IF Noticed(d, d.watch[o], n, p) THEN Queue(d.watch[o], r)
                                      ELSE d.watch[o]
  BY <1>1, MoCallbackKeepsLinks
<1> HIDE DEF r, watch
<1>4. known \in [Observers -> SUBSET Elements] /\ \A o \in Observers : Knows(d.watch[o], known[o], parent)
  BY DEF Informed
<1>5. ASSUME NEW o \in Observers PROVE Knows(watch[o], known[o], d.parent)
  <2> DEFINE w == d.watch[o]
             kids == {x \in Elements : parent[x] = w.target}
             left == {x \in Elements : d.parent[x] = w.target}
             told0 == Reading(known[o], w.records)
  <2>1. w \in Watches /\ known[o] \in SUBSET Elements
    BY <1>4 DEF States
  <2>2. w.childList /\ ~w.subtree => told0 = kids /\ w.target # Null
    <3>1. w.childList /\ ~w.subtree => told0 = kids
      BY <1>4 DEF Knows
    <3>2. w.childList => w.target # Null
      BY <2>1 DEF Watches
    <3>3. QED
      BY <3>1, <3>2
  <2>3. w.childList /\ ~w.subtree => (Noticed(d, w, n, p) <=> w.target = p)
    BY <1>1, <2>2 DEF Noticed
  <2>4. w.target = p => kids \ {n} = left
    BY <1>1
  <2>5. w.target # p /\ w.target # Null => kids = left
    OBVIOUS
  <2>6. Noted(told0, r) = told0 \ {n}
    BY <1>2 DEF Noted
  <2>7. watch[o] = IF Noticed(d, w, n, p) THEN Queue(w, r) ELSE w
    BY <1>3
  <2>8. CASE Noticed(d, w, n, p)
    <3>1. w.target # Null
      BY <2>8 DEF Noticed
    <3>2. w.childList /\ ~w.subtree => Noted(told0, r) = left
      BY <2>2, <2>3, <2>4, <2>6, <2>8
    <3>3. Knows(Queue(w, r), known[o], d.parent)
      <4> HIDE DEF w
      <4> QED BY <1>2, <2>1, <3>1, <3>2, KnowsQueued
    <3>4. QED
      BY <2>7, <2>8, <3>3
  <2>9. CASE ~Noticed(d, w, n, p)
    <3>1. w.childList /\ ~w.subtree => told0 = left
      BY <2>2, <2>3, <2>5, <2>9
    <3>2. QED
      BY <2>7, <2>9, <3>1 DEF Knows
  <2>10. QED
    BY <2>8, <2>9
<1>6. QED
  BY <1>4, <1>5 DEF Informed, watch

(* Observers can tell the children of what they watch, as told says.          *)
Tells(d) == Informed(d.watch, told, d.parent)

-----------------------------------------------------------------------------
(* The two ways the links change: an item with all it holds leaves its place, *)
(* and an item is put before another one.                                     *)
Unlinked(e, d, x) ==
  /\ e.next = [m \in Linked |-> IF m = GetEnd(x) THEN Null
                                ELSE IF m = d.prev[x] THEN d.next[GetEnd(x)] ELSE d.next[m]]
  /\ e.prev = [m \in Linked |-> IF m = x THEN Null
                                ELSE IF m = d.next[GetEnd(x)] THEN d.prev[x] ELSE d.prev[m]]
  /\ e.parent = [n \in Nodes |-> IF n = x /\ n \in Children THEN Null ELSE d.parent[n]]
  /\ e.owner = [a \in Attributes |-> IF a = x THEN Null ELSE d.owner[a]]

LinkedIn(e, d, x, q, p) ==
  /\ e.next = [m \in Linked |-> IF m = GetEnd(x) THEN q
                                ELSE IF m = d.prev[q] THEN x ELSE d.next[m]]
  /\ e.prev = [m \in Linked |-> IF m = q THEN GetEnd(x)
                                ELSE IF m = x THEN d.prev[q] ELSE d.prev[m]]
  /\ e.parent = [n \in Nodes |-> IF n = x /\ n \in Children THEN p ELSE d.parent[n]]
  /\ e.owner = [a \in Attributes |-> IF a = x THEN p ELSE d.owner[a]]

(* The state with other links.                                                *)
Relinked(d, next, prev) == [d EXCEPT !.next = next, !.prev = prev]

LEMMA RelinkedIs ==
  ASSUME NEW d \in States, NEW next \in [Linked -> Linked \cup {Null}],
         NEW prev \in [Linked -> Linked \cup {Null}]
  PROVE  /\ Relinked(d, next, prev) \in States
         /\ Relinked(d, next, prev).next = next
         /\ Relinked(d, next, prev).prev = prev
         /\ Relinked(d, next, prev).parent = d.parent
         /\ Relinked(d, next, prev).owner = d.owner
         /\ Relinked(d, next, prev).data = d.data
         /\ Relinked(d, next, prev).watch = d.watch
BY DEF Relinked, States

(* parentNode is assigned, and observers and custom elements are told.        *)
LEMMA TakenIs ==
  ASSUME NEW d \in States, NEW n \in Children
  PROVE  /\ Taken(d, n) \in States
         /\ Taken(d, n).next = d.next /\ Taken(d, n).prev = d.prev
         /\ Taken(d, n).owner = d.owner /\ Taken(d, n).data = d.data
         /\ Taken(d, n).parent = [d.parent EXCEPT ![n] = Null]
         /\ d.parent[n] # Null /\ Tells(d) => Tells(Taken(d, n))
<1> DEFINE free == [d EXCEPT !.parent[n] = Null]
           seen == MoCallback(free, n, d.parent[n])
<1>0. n \in Nodes
  BY Kinds
<1>1. free \in States
  BY <1>0 DEF States
<1>2. /\ free.next = d.next /\ free.prev = d.prev /\ free.owner = d.owner /\ free.data = d.data
      /\ free.parent = [d.parent EXCEPT ![n] = Null] /\ free.watch = d.watch
  BY DEF States
<1> HIDE DEF free
<1>3. seen \in States /\ SameLinks(seen, free) /\ seen.data = free.data
  BY <1>0, <1>1, MoCallbackKeepsLinks
<1>4. Taken(d, n) = Trigger(seen, n, FALSE)
  BY DEF Taken, free
<1>5. ASSUME d.parent[n] # Null, Tells(d) PROVE Informed(seen.watch, told, free.parent)
  <2>1. d.parent \in [Nodes -> Parents \cup {Null}]
    BY DEF States
  <2>2. d.parent[n] \in Parents
    BY <1>0, <1>5, <2>1
  <2>3. free.parent[n] = Null /\ \A x \in Elements : x # n => free.parent[x] = d.parent[x]
    BY <1>0, <1>2, <2>1, Kinds
  <2>4. Informed(free.watch, told, d.parent)
    BY <1>2, <1>5 DEF Tells
  <2>5. QED
    BY <1>1, <2>2, <2>3, <2>4, LeavingKeepsInformed
<1> HIDE DEF seen
<1>6. /\ Trigger(seen, n, FALSE) \in States /\ SameLinks(Trigger(seen, n, FALSE), seen)
      /\ Trigger(seen, n, FALSE).data = seen.data /\ Trigger(seen, n, FALSE).watch = seen.watch
  BY <1>3, TriggerKeepsLinks
<1>7. /\ Taken(d, n) \in States
      /\ Taken(d, n).next = d.next /\ Taken(d, n).prev = d.prev
      /\ Taken(d, n).owner = d.owner /\ Taken(d, n).data = d.data
      /\ Taken(d, n).parent = free.parent /\ Taken(d, n).watch = seen.watch
  BY <1>2, <1>3, <1>4, <1>6 DEF SameLinks
<1>8. d.parent[n] # Null /\ Tells(d) => Tells(Taken(d, n))
  BY <1>5, <1>7 DEF Tells
<1>9. QED
  BY <1>2, <1>7, <1>8

LEMMA ArrivedIs ==
  ASSUME NEW d \in States, NEW n \in Children, NEW parent \in Parents
  PROVE  /\ Arrived(d, n, parent) \in States
         /\ Arrived(d, n, parent).next = d.next /\ Arrived(d, n, parent).prev = d.prev
         /\ Arrived(d, n, parent).owner = d.owner /\ Arrived(d, n, parent).data = d.data
         /\ Arrived(d, n, parent).parent = [d.parent EXCEPT ![n] = parent]
<1> DEFINE put == [d EXCEPT !.parent[n] = parent]
           seen == MoCallback(put, n, Null)
<1>0. n \in Nodes
  BY Kinds
<1>1. put \in States
  BY <1>0 DEF States
<1>2. /\ put.next = d.next /\ put.prev = d.prev /\ put.owner = d.owner /\ put.data = d.data
      /\ put.parent = [d.parent EXCEPT ![n] = parent]
  BY DEF States
<1> HIDE DEF put
<1>3. seen \in States /\ SameLinks(seen, put) /\ seen.data = put.data
  BY <1>0, <1>1, MoCallbackKeepsLinks
<1>4. Arrived(d, n, parent) = Trigger(seen, n, TRUE)
  BY DEF Arrived, put
<1> HIDE DEF seen
<1>5. /\ Trigger(seen, n, TRUE) \in States /\ SameLinks(Trigger(seen, n, TRUE), seen)
      /\ Trigger(seen, n, TRUE).data = seen.data
  BY <1>3, TriggerKeepsLinks
<1>6. QED
  BY <1>2, <1>3, <1>4, <1>5 DEF SameLinks

(* remove() of a child.                                                       *)
LEMMA RemoveNodeUnlinks ==
  ASSUME NEW d \in States, NEW n \in Children
  PROVE  /\ RemoveNode(d, n) \in States
         /\ Unlinked(RemoveNode(d, n), d, n)
         /\ RemoveNode(d, n).data = d.data
         /\ Tells(d) => Tells(RemoveNode(d, n))
<1> DEFINE prev  == d.prev[n]
           next  == d.next[GetEnd(n)]
           nexts == [m \in Linked |-> IF m = GetEnd(n) THEN Null
                                      ELSE IF m = prev THEN next ELSE d.next[m]]
           prevs == [m \in Linked |-> IF m = n THEN Null
                                      ELSE IF m = next THEN prev ELSE d.prev[m]]
           apart == IF prev = Null /\ next = Null THEN d
                    ELSE [SetAdjacent(d, prev, next) EXCEPT
                            !.prev[n] = Null, !.next[GetEnd(n)] = Null]
<1>1. n \in Linked /\ GetEnd(n) \in Linked /\ n \in Nodes
  BY Kinds, GetEnds
<1>2. /\ d.next \in [Linked -> Linked \cup {Null}] /\ d.prev \in [Linked -> Linked \cup {Null}]
      /\ d.parent \in [Nodes -> Parents \cup {Null}] /\ d.owner \in [Attributes -> Elements \cup {Null}]
  BY DEF States
<1>3. prev \in Linked \cup {Null} /\ next \in Linked \cup {Null} /\ Null \notin Linked
  BY <1>1, <1>2, Kinds
<1>4. nexts \in [Linked -> Linked \cup {Null}] /\ prevs \in [Linked -> Linked \cup {Null}]
  BY <1>2, <1>3
<1>5. apart = Relinked(d, nexts, prevs)
  <2>1. CASE prev = Null /\ next = Null
    <3>1. nexts = d.next
      BY <1>1, <1>2, <1>3, <2>1
    <3>2. prevs = d.prev
      BY <1>1, <1>2, <1>3, <2>1
    <3> HIDE DEF nexts, prevs
    <3>3. QED
      BY <2>1, <3>1, <3>2 DEF Relinked, States
  <2>2. CASE ~(prev = Null /\ next = Null)
    <3> DEFINE ahead == IF prev = Null THEN d.next ELSE [d.next EXCEPT ![prev] = next]
               back  == IF next = Null THEN d.prev ELSE [d.prev EXCEPT ![next] = prev]
    <3>1. nexts = [ahead EXCEPT ![GetEnd(n)] = Null]
      BY <1>1, <1>2, <1>3
    <3>2. prevs = [back EXCEPT ![n] = Null]
      BY <1>1, <1>2, <1>3
    <3>3. SetAdjacent(d, prev, next) = Relinked(d, ahead, back)
      BY DEF SetAdjacent, Relinked
    <3>4. apart = [Relinked(d, ahead, back) EXCEPT !.prev[n] = Null, !.next[GetEnd(n)] = Null]
      BY <2>2, <3>3
    <3> HIDE DEF nexts, prevs, ahead, back, apart
    <3>5. QED
      BY <3>1, <3>2, <3>4 DEF Relinked, States
  <2>3. QED
    BY <2>1, <2>2
<1>6. RemoveNode(d, n) = IF d.parent[n] = Null THEN apart ELSE Taken(apart, n)
  BY DEF RemoveNode
<1> HIDE DEF apart
<1>7. /\ apart \in States /\ apart.next = nexts /\ apart.prev = prevs
      /\ apart.parent = d.parent /\ apart.owner = d.owner /\ apart.data = d.data
      /\ apart.watch = d.watch
  <2> HIDE DEF nexts, prevs
  <2> QED BY <1>4, <1>5, RelinkedIs
<1>71. Tells(d) => Tells(RemoveNode(d, n))
  <2>1. Tells(d) => Tells(apart)
    BY <1>7 DEF Tells
  <2>2. d.parent[n] # Null /\ Tells(apart) => Tells(Taken(apart, n))
    BY <1>7, TakenIs
  <2>3. QED
    BY <1>6, <2>1, <2>2
<1> DEFINE e == RemoveNode(d, n)
<1>8. /\ e \in States /\ e.next = nexts /\ e.prev = prevs
      /\ e.parent = [d.parent EXCEPT ![n] = Null] /\ e.owner = d.owner /\ e.data = d.data
  <2> HIDE DEF nexts, prevs
  <2>1. CASE d.parent[n] = Null
    <3>1. [d.parent EXCEPT ![n] = Null] = d.parent
      BY <1>1, <1>2, <2>1
    <3>2. QED
      BY <1>6, <1>7, <2>1, <3>1
  <2>2. CASE d.parent[n] # Null
    BY <1>6, <1>7, <2>2, TakenIs
  <2>3. QED
    BY <2>1, <2>2
<1> HIDE DEF e
<1>9. Unlinked(e, d, n)
  <2>1. e.parent = [m \in Nodes |-> IF m = n /\ m \in Children THEN Null ELSE d.parent[m]]
    BY <1>1, <1>2, <1>8
  <2>2. e.owner = [a \in Attributes |-> IF a = n THEN Null ELSE d.owner[a]]
    BY <1>2, <1>8, Kinds
  <2>3. QED
    BY <1>8, <2>1, <2>2 DEF Unlinked
<1>10. QED
  BY <1>71, <1>8, <1>9 DEF e

(* The relinking of InsertNode and of SetAttributeNode.                       *)
LEMMA SegmentIs ==
  ASSUME NEW d \in States, NEW x \in Items, NEW q \in Linked, x # q
  PROVE  KnownSegment(d, d.prev[q], x, x, q) =
           Relinked(d, [m \in Linked |-> IF m = GetEnd(x) THEN q
                                         ELSE IF m = d.prev[q] THEN x ELSE d.next[m]],
                       [m \in Linked |-> IF m = q THEN GetEnd(x)
                                         ELSE IF m = x THEN d.prev[q] ELSE d.prev[m]])
<1> DEFINE prev  == d.prev[q]
           nexts == [m \in Linked |-> IF m = GetEnd(x) THEN q ELSE IF m = prev THEN x ELSE d.next[m]]
           prevs == [m \in Linked |-> IF m = q THEN GetEnd(x) ELSE IF m = x THEN prev ELSE d.prev[m]]
           ahead == [d.next EXCEPT ![prev] = x]
           back  == [d.prev EXCEPT ![x] = prev]
<1>1. x \in Linked /\ GetEnd(x) \in Linked /\ q \in Linked
  BY Kinds, GetEnds
<1>2. /\ d.next \in [Linked -> Linked \cup {Null}] /\ d.prev \in [Linked -> Linked \cup {Null}]
  BY DEF States
<1>3. nexts = [ahead EXCEPT ![GetEnd(x)] = q]
  BY <1>1, <1>2
<1>4. prevs = [back EXCEPT ![q] = GetEnd(x)]
  BY <1>1, <1>2
<1>5. KnownAdjacent(d, prev, x) = Relinked(d, ahead, back)
  BY DEF KnownAdjacent, Relinked
<1>6. KnownSegment(d, prev, x, x, q) =
        [Relinked(d, ahead, back) EXCEPT !.next[GetEnd(x)] = q, !.prev[q] = GetEnd(x)]
  BY <1>5 DEF KnownSegment, KnownAdjacent
<1> HIDE DEF ahead, back
<1>7. [Relinked(d, ahead, back) EXCEPT !.next[GetEnd(x)] = q, !.prev[q] = GetEnd(x)]
        = Relinked(d, [ahead EXCEPT ![GetEnd(x)] = q], [back EXCEPT ![q] = GetEnd(x)])
  BY DEF Relinked, States
<1>8. KnownSegment(d, prev, x, x, q) = Relinked(d, nexts, prevs)
  <2> HIDE DEF nexts, prevs, prev
  <2> QED BY <1>3, <1>4, <1>6, <1>7
<1>9. QED
  BY <1>8

LEMMA SegmentTypes ==
  ASSUME NEW d \in States, NEW x \in Items, NEW q \in Linked
  PROVE  /\ [m \in Linked |-> IF m = GetEnd(x) THEN q ELSE IF m = d.prev[q] THEN x ELSE d.next[m]]
              \in [Linked -> Linked \cup {Null}]
         /\ [m \in Linked |-> IF m = q THEN GetEnd(x) ELSE IF m = x THEN d.prev[q] ELSE d.prev[m]]
              \in [Linked -> Linked \cup {Null}]
<1>1. x \in Linked /\ GetEnd(x) \in Linked
  BY Kinds, GetEnds
<1>2. d.next \in [Linked -> Linked \cup {Null}] /\ d.prev \in [Linked -> Linked \cup {Null}]
  BY DEF States
<1>3. QED
  BY <1>1, <1>2

(* insertBefore of a child that is not the one it is put before.              *)
LEMMA InsertNodeLinks ==
  ASSUME NEW d \in States, NEW n \in Children, NEW q \in Linked, n # q, NEW parent \in Parents
  PROVE  /\ InsertNode(d, parent, n, q) \in States
         /\ LinkedIn(InsertNode(d, parent, n, q), d, n, q, parent)
         /\ InsertNode(d, parent, n, q).data = d.data
<1> DEFINE nexts == [m \in Linked |-> IF m = GetEnd(n) THEN q
                                      ELSE IF m = d.prev[q] THEN n ELSE d.next[m]]
           prevs == [m \in Linked |-> IF m = q THEN GetEnd(n)
                                      ELSE IF m = n THEN d.prev[q] ELSE d.prev[m]]
           mid   == KnownSegment(d, d.prev[q], n, n, q)
           e     == InsertNode(d, parent, n, q)
<1>1. n \in Items /\ n \in Nodes
  BY Kinds
<1>2. mid = Relinked(d, nexts, prevs)
  BY <1>1, SegmentIs
<1>3. nexts \in [Linked -> Linked \cup {Null}] /\ prevs \in [Linked -> Linked \cup {Null}]
  BY <1>1, SegmentTypes
<1>4. e = Arrived(mid, n, parent)
  BY DEF InsertNode
<1> HIDE DEF mid, e
<1>5. /\ mid \in States /\ mid.next = nexts /\ mid.prev = prevs
      /\ mid.parent = d.parent /\ mid.owner = d.owner /\ mid.data = d.data
  <2> HIDE DEF nexts, prevs
  <2> QED BY <1>2, <1>3, RelinkedIs
<1>6. /\ e \in States /\ e.next = nexts /\ e.prev = prevs
      /\ e.parent = [d.parent EXCEPT ![n] = parent] /\ e.owner = d.owner /\ e.data = d.data
  <2> HIDE DEF nexts, prevs
  <2> QED BY <1>4, <1>5, ArrivedIs
<1>7. d.parent \in [Nodes -> Parents \cup {Null}] /\ d.owner \in [Attributes -> Elements \cup {Null}]
  BY DEF States
<1>8. e.parent = [m \in Nodes |-> IF m = n /\ m \in Children THEN parent ELSE d.parent[m]]
  BY <1>1, <1>6, <1>7
<1>9. e.owner = [a \in Attributes |-> IF a = n THEN parent ELSE d.owner[a]]
  BY <1>6, <1>7, Kinds
<1>10. LinkedIn(e, d, n, q, parent)
  BY <1>6, <1>8, <1>9 DEF LinkedIn
<1>11. QED
  BY <1>6, <1>10 DEF e

LEMMA OwnerChanged ==
  ASSUME NEW d \in States, NEW a \in Attributes, NEW e \in Elements \cup {Null}
  PROVE  /\ [d EXCEPT !.owner[a] = e] \in States
         /\ [d EXCEPT !.owner[a] = e].next = d.next
         /\ [d EXCEPT !.owner[a] = e].prev = d.prev
         /\ [d EXCEPT !.owner[a] = e].parent = d.parent
         /\ [d EXCEPT !.owner[a] = e].owner = [d.owner EXCEPT ![a] = e]
         /\ [d EXCEPT !.owner[a] = e].data = d.data
         /\ [d EXCEPT !.owner[a] = e].watch = d.watch
BY DEF States

(* removeAttribute of an attribute an element has.                            *)
LEMMA AttributeUnlinks ==
  ASSUME NEW d \in States, NEW a \in Attributes, d.owner[a] # Null
  PROVE  /\ AttributeUnlinked(d, a) \in States
         /\ Unlinked(AttributeUnlinked(d, a), d, a)
         /\ AttributeUnlinked(d, a).data = d.data
         /\ Tells(d) => Tells(AttributeUnlinked(d, a))
<1> DEFINE prev  == d.prev[a]
           next  == d.next[a]
           nexts == [m \in Linked |-> IF m = a THEN Null ELSE IF m = prev THEN next ELSE d.next[m]]
           prevs == [m \in Linked |-> IF m = a THEN Null ELSE IF m = next THEN prev ELSE d.prev[m]]
           mid   == Relinked(d, nexts, prevs)
           off   == [mid EXCEPT !.owner[a] = Null]
           e     == AttributeUnlinked(d, a)
<1>1. a \in Items /\ a \in Nodes /\ a \in Linked /\ GetEnd(a) = a /\ a \notin Children
  BY Kinds, GetEnds
<1>2. /\ d.next \in [Linked -> Linked \cup {Null}] /\ d.prev \in [Linked -> Linked \cup {Null}]
      /\ d.parent \in [Nodes -> Parents \cup {Null}] /\ d.owner \in [Attributes -> Elements \cup {Null}]
  BY DEF States
<1>3. prev \in Linked \cup {Null} /\ next \in Linked \cup {Null} /\ Null \notin Linked
  BY <1>1, <1>2, Kinds
<1>4. nexts \in [Linked -> Linked \cup {Null}] /\ prevs \in [Linked -> Linked \cup {Null}]
  BY <1>2, <1>3
<1>5. d.owner[a] \in Nodes
  BY <1>2, Kinds
<1>6. nexts = [[d.next EXCEPT ![prev] = next] EXCEPT ![a] = Null]
  BY <1>1, <1>2, <1>3
<1>7. prevs = [[d.prev EXCEPT ![next] = prev] EXCEPT ![a] = Null]
  BY <1>1, <1>2, <1>3
<1>8. KnownAdjacent(d, prev, next)
        = Relinked(d, [d.next EXCEPT ![prev] = next], [d.prev EXCEPT ![next] = prev])
  BY DEF KnownAdjacent, Relinked
<1>9. [KnownAdjacent(d, prev, next) EXCEPT !.prev[a] = Null, !.next[a] = Null, !.owner[a] = Null]
        = off
  <2> DEFINE ahead == [d.next EXCEPT ![prev] = next]
             back  == [d.prev EXCEPT ![next] = prev]
  <2>1. [Relinked(d, ahead, back) EXCEPT !.prev[a] = Null, !.next[a] = Null, !.owner[a] = Null]
          = [Relinked(d, [ahead EXCEPT ![a] = Null], [back EXCEPT ![a] = Null])
               EXCEPT !.owner[a] = Null]
    <3> HIDE DEF ahead, back
    <3> QED BY DEF Relinked, States
  <2> HIDE DEF nexts, prevs, prev, next
  <2>2. QED
    BY <1>6, <1>7, <1>8, <2>1
<1>10. e = MoAttributes(off, d.owner[a])
  BY <1>9 DEF AttributeUnlinked
<1>11. /\ mid \in States /\ mid.next = nexts /\ mid.prev = prevs
       /\ mid.parent = d.parent /\ mid.owner = d.owner /\ mid.data = d.data
       /\ mid.watch = d.watch
  <2> HIDE DEF nexts, prevs
  <2> QED BY <1>4, RelinkedIs
<1> HIDE DEF mid
<1>12. /\ off \in States /\ off.next = nexts /\ off.prev = prevs
       /\ off.parent = d.parent /\ off.owner = [d.owner EXCEPT ![a] = Null]
       /\ off.data = d.data /\ off.watch = d.watch
  <2> HIDE DEF nexts, prevs
  <2> QED BY <1>11, OwnerChanged
<1> HIDE DEF off, e
<1>13. e \in States /\ SameLinks(e, off) /\ e.data = off.data
  BY <1>5, <1>10, <1>12, MoAttributesKeepsLinks
<1>131. Tells(d) => Tells(e)
  <2>1. Tells(d) => Informed(off.watch, told, d.parent)
    BY <1>12 DEF Tells
  <2>2. Informed(off.watch, told, d.parent) => Informed(e.watch, told, d.parent)
    BY <1>5, <1>10, <1>12, MoAttributesKeepsLinks
  <2>3. e.parent = d.parent
    BY <1>12, <1>13 DEF SameLinks
  <2>4. QED
    BY <2>1, <2>2, <2>3 DEF Tells
<1>14. e.parent = [n \in Nodes |-> IF n = a /\ n \in Children THEN Null ELSE d.parent[n]]
  BY <1>1, <1>2, <1>12, <1>13 DEF SameLinks
<1>15. e.owner = [b \in Attributes |-> IF b = a THEN Null ELSE d.owner[b]]
  BY <1>2, <1>12, <1>13 DEF SameLinks
<1>16. e.next = [m \in Linked |-> IF m = GetEnd(a) THEN Null
                                  ELSE IF m = d.prev[a] THEN d.next[GetEnd(a)] ELSE d.next[m]]
  BY <1>1, <1>12, <1>13 DEF SameLinks
<1>17. e.prev = [m \in Linked |-> IF m = a THEN Null
                                  ELSE IF m = d.next[GetEnd(a)] THEN d.prev[a] ELSE d.prev[m]]
  BY <1>1, <1>12, <1>13 DEF SameLinks
<1>18. Unlinked(e, d, a)
  BY <1>14, <1>15, <1>16, <1>17 DEF Unlinked
<1>19. QED
  BY <1>12, <1>13, <1>131, <1>18 DEF e

-----------------------------------------------------------------------------
(* The rows of the list: for every parent the parent itself, its attribute if *)
(* it has one, its children in order and its end node.  at gives what is at a *)
(* place of a row, size the place of the end node; what stands inside another *)
(* item has a row of its own.                                                 *)
Home(d, x) == IF x \in Attributes THEN d.owner[x] ELSE d.parent[x]

(* The node a link leads on from: an element is left by its end node.         *)
Out(at, p, i) == IF i = 1 THEN p ELSE GetEnd(at[p][i])

Shape(size, at) ==
  /\ size \in [Parents -> Nat \ {0, 1}]
  /\ at \in [Parents -> [Nat -> Linked]]
  /\ \A p \in Parents : at[p][1] = p /\ at[p][size[p]] = End(p)

(* A row has the items whose parent or owner it is of, each once, the         *)
(* attribute first.                                                           *)
Contents(d, size, at) ==
  /\ \A p \in Parents : \A i \in 2..(size[p] - 1) :
       /\ at[p][i] \in Items
       /\ Home(d, at[p][i]) = p
       /\ at[p][i] \in Attributes => i = 2
  /\ \A p \in Parents : \A i, j \in 2..(size[p] - 1) : at[p][i] = at[p][j] => i = j
  /\ \A x \in Items : Home(d, x) # Null =>
       \E i \in 2..(size[Home(d, x)] - 1) : at[Home(d, x)][i] = x

LinksFollow(d, size, at) ==
  \A p \in Parents : \A i \in 1..(size[p] - 1) :
    /\ d.next[Out(at, p, i)] = at[p][i + 1]
    /\ d.prev[at[p][i + 1]] = Out(at, p, i)

(* What is in no row is linked to nothing.                                    *)
Loose(d) ==
  /\ \A x \in Items : Home(d, x) = Null => d.prev[x] = Null /\ d.next[GetEnd(x)] = Null
  /\ \A p \in Parents \ Elements : d.prev[p] = Null /\ d.next[End(p)] = Null
  /\ \A n \in Nodes \ Children : d.parent[n] = Null

RowsOf(d, size, at) ==
  Shape(size, at) /\ Contents(d, size, at) /\ LinksFollow(d, size, at) /\ Loose(d)

(* Every link is that of one place of one row.                                *)
LEMMA Places ==
  ASSUME NEW d, NEW size, NEW at, Shape(size, at), Contents(d, size, at)
  PROVE  /\ \A p, q \in Parents : \A i \in 1..(size[p] - 1), j \in 1..(size[q] - 1) :
              Out(at, p, i) = Out(at, q, j) => p = q /\ i = j
         /\ \A p, q \in Parents : \A i \in 2..size[p], j \in 2..size[q] :
              at[p][i] = at[q][j] => p = q /\ i = j
         /\ \A p \in Parents : \A i \in 1..(size[p] - 1) : Out(at, p, i) \in Linked
<1> DEFINE Inner(p) == 2..(size[p] - 1)
<1>1. \A p \in Parents : size[p] \in Nat /\ size[p] >= 2 /\ at[p][1] = p /\ at[p][size[p]] = End(p)
  BY DEF Shape
<1>2. \A p \in Parents : \A i \in Inner(p) : at[p][i] \in Items /\ Home(d, at[p][i]) = p
  BY DEF Contents
<1>3. \A p \in Parents : \A i, j \in Inner(p) : at[p][i] = at[p][j] => i = j
  BY DEF Contents
<1>4. \A p, q \in Parents : \A i \in Inner(p), j \in Inner(q) : at[p][i] = at[q][j] => p = q /\ i = j
  <2> HIDE DEF Inner
  <2> QED BY <1>2, <1>3
<1>5. \A p \in Parents : \A i \in Inner(p) : Out(at, p, i) = GetEnd(at[p][i])
  BY <1>1 DEF Out
<1>6. \A p \in Parents : Out(at, p, 1) = p
  BY DEF Out
<1>7. \A p \in Parents : \A i \in 1..(size[p] - 1) : i = 1 \/ i \in Inner(p)
  BY <1>1
<1>8. \A p \in Parents : \A i \in 2..size[p] : i = size[p] \/ i \in Inner(p)
  BY <1>1
<1> HIDE DEF Inner
<1>9. ASSUME NEW p \in Parents, NEW q \in Parents,
             NEW i \in 1..(size[p] - 1), NEW j \in 1..(size[q] - 1), Out(at, p, i) = Out(at, q, j)
      PROVE  p = q /\ i = j
  <2>1. CASE i = 1 /\ j = 1
    BY <1>6, <1>9, <2>1
  <2>2. CASE i = 1 /\ j \in Inner(q)
    BY <1>2, <1>5, <1>6, <1>9, <2>2, GetEnds
  <2>3. CASE i \in Inner(p) /\ j = 1
    BY <1>2, <1>5, <1>6, <1>9, <2>3, GetEnds
  <2>4. CASE i \in Inner(p) /\ j \in Inner(q)
    BY <1>2, <1>4, <1>5, <1>9, <2>4, GetEnds
  <2>5. QED
    BY <1>7, <2>1, <2>2, <2>3, <2>4
<1>10. ASSUME NEW p \in Parents, NEW q \in Parents,
              NEW i \in 2..size[p], NEW j \in 2..size[q], at[p][i] = at[q][j]
       PROVE  p = q /\ i = j
  <2>1. CASE i = size[p] /\ j = size[q]
    <3>1. End(p) = End(q)
      BY <1>1, <1>10, <2>1
    <3>2. QED
      BY <3>1, <2>1, Kinds
  <2>2. CASE i = size[p] /\ j \in Inner(q)
    BY <1>1, <1>2, <1>10, <2>2, Kinds
  <2>3. CASE i \in Inner(p) /\ j = size[q]
    BY <1>1, <1>2, <1>10, <2>3, Kinds
  <2>4. CASE i \in Inner(p) /\ j \in Inner(q)
    BY <1>4, <1>10, <2>4
  <2>5. QED
    BY <1>8, <2>1, <2>2, <2>3, <2>4
<1>11. ASSUME NEW p \in Parents, NEW i \in 1..(size[p] - 1)
       PROVE  Out(at, p, i) \in Linked
  <2>1. CASE i = 1
    BY <1>6, <2>1, Kinds
  <2>2. CASE i \in Inner(p)
    BY <1>2, <1>5, <2>2, Kinds, GetEnds
  <2>3. QED
    BY <1>7, <2>1, <2>2
<1>12. QED
  BY <1>9, <1>10, <1>11

(* A row without what was at a place, and with an item put there.             *)
RowWithout(at, p, i) ==
  [at EXCEPT ![p] = [j \in Nat |-> IF j < i THEN at[p][j] ELSE at[p][j + 1]]]

RowWith(at, p, i, x) ==
  [at EXCEPT ![p] = [j \in Nat |-> IF j < i THEN at[p][j] ELSE IF j = i THEN x ELSE at[p][j - 1]]]

LEMMA RowWithoutIs ==
  ASSUME NEW size, NEW at, Shape(size, at), NEW p \in Parents, NEW i \in 2..(size[p] - 1)
  PROVE  /\ Shape([size EXCEPT ![p] = size[p] - 1], RowWithout(at, p, i))
         /\ \A q \in Parents : q # p => RowWithout(at, p, i)[q] = at[q]
         /\ \A j \in Nat : RowWithout(at, p, i)[p][j] = IF j < i THEN at[p][j] ELSE at[p][j + 1]
         /\ \A q \in Parents : [size EXCEPT ![p] = size[p] - 1][q] =
                                 IF q = p THEN size[p] - 1 ELSE size[q]
<1> DEFINE row == [j \in Nat |-> IF j < i THEN at[p][j] ELSE at[p][j + 1]]
           bt == RowWithout(at, p, i)
           bs == [size EXCEPT ![p] = size[p] - 1]
<1>1. /\ size \in [Parents -> Nat \ {0, 1}] /\ at \in [Parents -> [Nat -> Linked]]
      /\ \A q \in Parents : at[q][1] = q /\ at[q][size[q]] = End(q)
  BY DEF Shape
<1>2. size[p] \in Nat /\ size[p] >= 3 /\ at[p] \in [Nat -> Linked]
  BY <1>1
<1>3. row \in [Nat -> Linked]
  BY <1>2
<1>4. \A j \in Nat : row[j] = IF j < i THEN at[p][j] ELSE at[p][j + 1]
  OBVIOUS
<1>5. bt = [at EXCEPT ![p] = row]
  BY DEF RowWithout
<1> HIDE DEF row
<1>6. bt \in [Parents -> [Nat -> Linked]] /\ bt[p] = row /\ \A q \in Parents : q # p => bt[q] = at[q]
  BY <1>1, <1>3, <1>5
<1>7. bs \in [Parents -> Nat \ {0, 1}] /\ \A q \in Parents : bs[q] = IF q = p THEN size[p] - 1 ELSE size[q]
  BY <1>1, <1>2
<1> HIDE DEF bt, bs
<1>8. ASSUME NEW q \in Parents PROVE bt[q][1] = q /\ bt[q][bs[q]] = End(q)
  <2>1. CASE q = p
    <3>1. row[1] = p
      BY <1>1, <1>4
    <3>2. row[size[p] - 1] = End(p)
      BY <1>1, <1>2, <1>4
    <3>3. QED
      BY <2>1, <3>1, <3>2, <1>6, <1>7
  <2>2. CASE q # p
    BY <2>2, <1>1, <1>6, <1>7
  <2>3. QED
    BY <2>1, <2>2
<1>9. Shape(bs, bt)
  BY <1>6, <1>7, <1>8 DEF Shape
<1>10. QED
  BY <1>4, <1>6, <1>7, <1>9 DEF bt, bs

(* Removing an item takes it out of its row and changes no other.             *)
LEMMA UnlinkedRows ==
  ASSUME NEW d \in States, NEW e \in States, NEW size, NEW at, RowsOf(d, size, at),
         NEW p \in Parents, NEW i \in 2..(size[p] - 1), Unlinked(e, d, at[p][i])
  PROVE  RowsOf(e, [size EXCEPT ![p] = size[p] - 1], RowWithout(at, p, i))
<1> DEFINE x  == at[p][i]
           bt == RowWithout(at, p, i)
           bs == [size EXCEPT ![p] = size[p] - 1]
<1>1. Shape(size, at) /\ Contents(d, size, at) /\ LinksFollow(d, size, at) /\ Loose(d)
  BY DEF RowsOf
<1>2. \A q \in Parents : size[q] \in Nat /\ size[q] >= 2 /\ at[q][1] = q /\ at[q][size[q]] = End(q)
  BY <1>1 DEF Shape
<1>3. size[p] \in Nat /\ i \in Nat /\ i >= 2 /\ i <= size[p] - 1
  BY <1>2
<1>4. /\ Shape(bs, bt)
      /\ \A q \in Parents : q # p => bt[q] = at[q] /\ bs[q] = size[q]
      /\ \A j \in Nat : bt[p][j] = IF j < i THEN at[p][j] ELSE at[p][j + 1]
      /\ bs[p] = size[p] - 1
  BY <1>1, RowWithoutIs
<1>5. x \in Items /\ Home(d, x) = p /\ x \in Linked
  BY <1>1, Kinds DEF Contents
<1>6. d.prev[x] = Out(at, p, i - 1) /\ d.next[GetEnd(x)] = at[p][i + 1] /\ GetEnd(x) = Out(at, p, i)
  <2>1. i - 1 \in 1..(size[p] - 1) /\ i \in 1..(size[p] - 1) /\ (i - 1) + 1 = i
    BY <1>3
  <2>2. Out(at, p, i) = GetEnd(x)
    BY <1>3 DEF Out
  <2>3. QED
    BY <1>1, <2>1, <2>2 DEF LinksFollow
<1>7. /\ \A m \in Linked : e.next[m] = IF m = Out(at, p, i) THEN Null
                                       ELSE IF m = Out(at, p, i - 1) THEN at[p][i + 1] ELSE d.next[m]
      /\ \A m \in Linked : e.prev[m] = IF m = x THEN Null
                                       ELSE IF m = at[p][i + 1] THEN Out(at, p, i - 1) ELSE d.prev[m]
      /\ \A n \in Nodes : e.parent[n] = IF n = x /\ n \in Children THEN Null ELSE d.parent[n]
      /\ \A a \in Attributes : e.owner[a] = IF a = x THEN Null ELSE d.owner[a]
  BY <1>6 DEF Unlinked
<1>8. \A y \in Items : Home(e, y) = IF y = x THEN Null ELSE Home(d, y)
  BY <1>5, <1>7, Kinds DEF Home, Items
<1> HIDE DEF x, bt, bs
<1>9. Contents(e, bs, bt)
  <2>1. ASSUME NEW q \in Parents, NEW j \in 2..(bs[q] - 1)
        PROVE  /\ bt[q][j] \in Items
               /\ Home(e, bt[q][j]) = q
               /\ bt[q][j] \in Attributes => j = 2
    <3>1. CASE q # p
      <4>1. j \in 2..(size[q] - 1) /\ bt[q][j] = at[q][j]
        BY <1>4, <3>1
      <4>2. /\ at[q][j] \in Items /\ Home(d, at[q][j]) = q /\ (at[q][j] \in Attributes => j = 2)
        BY <1>1, <4>1 DEF Contents
      <4>3. at[q][j] # x
        BY <1>5, <4>2, <3>1
      <4>4. QED
        BY <1>8, <4>1, <4>2, <4>3
    <3>2. CASE q = p /\ j < i
      <4>1. j \in 2..(size[p] - 1) /\ bt[p][j] = at[p][j] /\ j # i
        BY <1>3, <1>4, <3>2
      <4>2. /\ at[p][j] \in Items /\ Home(d, at[p][j]) = p /\ (at[p][j] \in Attributes => j = 2)
            /\ at[p][j] # x
        BY <1>1, <4>1 DEF Contents, x
      <4>3. QED
        BY <1>8, <4>1, <4>2, <3>2
    <3>3. CASE q = p /\ ~(j < i)
      <4>1. j \in Nat /\ j + 1 \in 2..(size[p] - 1) /\ bt[p][j] = at[p][j + 1] /\ j + 1 # i /\ j + 1 # 2
        BY <1>3, <1>4, <3>3
      <4>2. /\ at[p][j + 1] \in Items /\ Home(d, at[p][j + 1]) = p
            /\ at[p][j + 1] \notin Attributes /\ at[p][j + 1] # x
        BY <1>1, <4>1 DEF Contents, x
      <4>3. QED
        BY <1>8, <4>1, <4>2, <3>3
    <3>4. QED
      BY <3>1, <3>2, <3>3
  <2>2. ASSUME NEW q \in Parents, NEW j \in 2..(bs[q] - 1), NEW k \in 2..(bs[q] - 1),
               bt[q][j] = bt[q][k]
        PROVE  j = k
    <3>1. CASE q # p
      BY <1>1, <1>4, <2>2, <3>1 DEF Contents
    <3>2. CASE q = p
      <4> DEFINE jj == IF j < i THEN j ELSE j + 1
                 kk == IF k < i THEN k ELSE k + 1
      <4>1. jj \in 2..(size[p] - 1) /\ kk \in 2..(size[p] - 1)
        BY <1>3, <1>4, <3>2
      <4>2. at[p][jj] = at[p][kk]
        BY <1>4, <2>2, <3>2
      <4>3. jj = kk
        BY <1>1, <4>1, <4>2 DEF Contents
      <4>4. QED
        BY <4>3
    <3>3. QED
      BY <3>1, <3>2
  <2>3. ASSUME NEW y \in Items, Home(e, y) # Null
        PROVE  \E j \in 2..(bs[Home(e, y)] - 1) : bt[Home(e, y)][j] = y
    <3>1. y # x /\ Home(e, y) = Home(d, y)
      BY <1>8, <2>3
    <3>2. PICK j \in 2..(size[Home(d, y)] - 1) : at[Home(d, y)][j] = y
      BY <1>1, <2>3, <3>1 DEF Contents
    <3>3. Home(d, y) \in Parents
      BY <2>3, <3>1, Kinds DEF Home, States, Items
    <3>4. CASE Home(d, y) # p
      BY <1>4, <3>1, <3>2, <3>3, <3>4
    <3>5. CASE Home(d, y) = p
      <4>1. j # i
        BY <3>1, <3>2, <3>5 DEF x
      <4>2. CASE j < i
        <5>1. j \in 2..(bs[p] - 1) /\ bt[p][j] = y
          BY <1>3, <1>4, <3>2, <3>5, <4>2
        <5>2. QED
          BY <3>1, <3>5, <5>1
      <4>3. CASE j > i
        <5>1. j - 1 \in 2..(bs[p] - 1) /\ bt[p][j - 1] = y
          BY <1>3, <1>4, <3>2, <3>5, <4>3
        <5>2. QED
          BY <3>1, <3>5, <5>1
      <4>4. QED
        BY <4>1, <4>2, <4>3
    <3>6. QED
      BY <3>4, <3>5
  <2>4. QED
    BY <2>1, <2>2, <2>3 DEF Contents
<1>10. LinksFollow(e, bs, bt)
  <2>0. /\ \A q, r \in Parents : \A j \in 1..(size[q] - 1), k \in 1..(size[r] - 1) :
             Out(at, q, j) = Out(at, r, k) => q = r /\ j = k
        /\ \A q, r \in Parents : \A j \in 2..size[q], k \in 2..size[r] :
             at[q][j] = at[r][k] => q = r /\ j = k
        /\ \A q \in Parents : \A j \in 1..(size[q] - 1) : Out(at, q, j) \in Linked
    BY <1>1, Places
  <2>00. \A q \in Parents : \A j \in 1..(size[q] - 1) :
           d.next[Out(at, q, j)] = at[q][j + 1] /\ d.prev[at[q][j + 1]] = Out(at, q, j)
    BY <1>1 DEF LinksFollow
  <2>000. \A q \in Parents : \A j \in 2..size[q] : at[q][j] \in Linked
    BY <1>1, <1>2 DEF Shape
  <2>1. SUFFICES ASSUME NEW q \in Parents, NEW j \in 1..(bs[q] - 1)
                 PROVE  /\ e.next[Out(bt, q, j)] = bt[q][j + 1]
                        /\ e.prev[bt[q][j + 1]] = Out(bt, q, j)
    BY DEF LinksFollow
  <2>2. CASE q # p
    <3>1. j \in 1..(size[q] - 1) /\ bt[q][j + 1] = at[q][j + 1] /\ Out(bt, q, j) = Out(at, q, j)
      BY <1>4, <2>2 DEF Out
    <3>2. Out(at, q, j) # Out(at, p, i) /\ Out(at, q, j) # Out(at, p, i - 1) /\ Out(at, q, j) \in Linked
      BY <1>3, <2>0, <2>2, <3>1
    <3>3. j + 1 \in 2..size[q] /\ i \in 2..size[p] /\ i + 1 \in 2..size[p]
      BY <1>2, <1>3, <3>1
    <3>4. at[q][j + 1] # x /\ at[q][j + 1] # at[p][i + 1] /\ at[q][j + 1] \in Linked
      BY <2>0, <2>000, <2>2, <3>3 DEF x
    <3>5. QED
      BY <1>7, <2>00, <3>1, <3>2, <3>4
  <2>3. CASE q = p /\ j < i - 1
    <3>1. /\ j \in 1..(size[p] - 1) /\ bt[p][j + 1] = at[p][j + 1] /\ Out(bt, p, j) = Out(at, p, j)
      BY <1>3, <1>4, <2>3 DEF Out
    <3>2. Out(at, p, j) # Out(at, p, i) /\ Out(at, p, j) # Out(at, p, i - 1) /\ Out(at, p, j) \in Linked
      BY <1>3, <2>0, <2>3, <3>1
    <3>3. j + 1 \in 2..size[p] /\ i \in 2..size[p] /\ i + 1 \in 2..size[p] /\ j + 1 # i /\ j + 1 # i + 1
      BY <1>2, <1>3, <2>3, <3>1
    <3>4. at[p][j + 1] # x /\ at[p][j + 1] # at[p][i + 1] /\ at[p][j + 1] \in Linked
      BY <2>0, <2>000, <3>3 DEF x
    <3>5. QED
      BY <1>7, <2>00, <2>3, <3>1, <3>2, <3>4
  <2>4. CASE q = p /\ j = i - 1
    <3>1. bt[p][j + 1] = at[p][i + 1] /\ Out(bt, p, j) = Out(at, p, i - 1)
      BY <1>3, <1>4, <2>4 DEF Out
    <3>2. i - 1 \in 1..(size[p] - 1) /\ i \in 1..(size[p] - 1) /\ i \in 2..size[p] /\ i + 1 \in 2..size[p]
      BY <1>3
    <3>3. Out(at, p, i - 1) # Out(at, p, i) /\ Out(at, p, i - 1) \in Linked
      BY <1>3, <2>0, <3>2
    <3>4. at[p][i + 1] # x /\ at[p][i + 1] \in Linked
      BY <1>3, <2>0, <2>000, <3>2 DEF x
    <3>5. QED
      BY <1>7, <2>4, <3>1, <3>3, <3>4
  <2>5. CASE q = p /\ j > i - 1
    <3>1. /\ j + 1 \in 1..(size[p] - 1) /\ bt[p][j + 1] = at[p][(j + 1) + 1]
          /\ Out(bt, p, j) = Out(at, p, j + 1)
      BY <1>3, <1>4, <2>5 DEF Out
    <3>2. /\ i \in 1..(size[p] - 1) /\ i - 1 \in 1..(size[p] - 1) /\ i \in 2..size[p]
          /\ i + 1 \in 2..size[p] /\ (j + 1) + 1 \in 2..size[p]
          /\ j + 1 # i /\ j + 1 # i - 1 /\ (j + 1) + 1 # i /\ (j + 1) + 1 # i + 1
      BY <1>3, <2>5, <3>1
    <3>3. /\ Out(at, p, j + 1) # Out(at, p, i) /\ Out(at, p, j + 1) # Out(at, p, i - 1)
          /\ Out(at, p, j + 1) \in Linked
      BY <2>0, <3>1, <3>2
    <3>4. at[p][(j + 1) + 1] # x /\ at[p][(j + 1) + 1] # at[p][i + 1] /\ at[p][(j + 1) + 1] \in Linked
      BY <2>0, <2>000, <3>2 DEF x
    <3>5. QED
      BY <1>7, <2>00, <2>5, <3>1, <3>3, <3>4
  <2>6. QED
    BY <1>3, <1>4, <2>2, <2>3, <2>4, <2>5
<1>11. Loose(e)
  <2>0. \A q \in Parents : \A j \in 1..(size[q] - 1) : Out(at, q, j) \in Linked
    BY <1>1, Places
  <2>1. ASSUME NEW y \in Items, Home(e, y) = Null
        PROVE  e.prev[y] = Null /\ e.next[GetEnd(y)] = Null
    <3>0. y \in Linked /\ GetEnd(y) \in Linked
      BY Kinds, GetEnds
    <3>1. CASE y = x
      BY <1>6, <1>7, <3>0, <3>1 DEF x
    <3>2. CASE y # x
      <4>1. d.prev[y] = Null /\ d.next[GetEnd(y)] = Null
        BY <1>1, <1>8, <2>1, <3>2 DEF Loose
      <4>2. GetEnd(y) # GetEnd(x)
        BY <1>5, <3>2, GetEnds
      <4>3. d.next[Out(at, p, i - 1)] = x /\ d.prev[at[p][i + 1]] = GetEnd(x)
        BY <1>1, <1>3, <1>6 DEF LinksFollow, x
      <4>4. GetEnd(y) # Out(at, p, i - 1) /\ y # at[p][i + 1]
        BY <4>1, <4>3, <1>5, <1>6, Kinds, GetEnds
      <4>5. QED
        BY <1>6, <1>7, <3>0, <3>2, <4>1, <4>2, <4>4 DEF x
    <3>3. QED
      BY <3>1, <3>2
  <2>2. ASSUME NEW q \in Parents \ Elements
        PROVE  e.prev[q] = Null /\ e.next[End(q)] = Null
    <3>1. d.prev[q] = Null /\ d.next[End(q)] = Null
      BY <1>1 DEF Loose
    <3>2. q \in Linked /\ End(q) \in Linked /\ q \notin Items
      BY Kinds DEF Items
    <3>3. d.next[Out(at, p, i - 1)] = x /\ d.prev[at[p][i + 1]] = GetEnd(x)
      BY <1>1, <1>3, <1>6 DEF LinksFollow, x
    <3>4. GetEnd(x) \in Linked
      BY <1>5, GetEnds
    <3>5. q # x /\ q # at[p][i + 1]
      BY <1>5, <3>1, <3>2, <3>3, <3>4, Kinds
    <3>6. End(q) # Out(at, p, i - 1) /\ End(q) # GetEnd(x)
      BY <1>5, <3>1, <3>3, Kinds, GetEnds
    <3>7. QED
      BY <1>6, <1>7, <3>1, <3>2, <3>5, <3>6 DEF x
  <2>3. ASSUME NEW n \in Nodes \ Children PROVE e.parent[n] = Null
    BY <1>1, <1>7 DEF Loose
  <2>4. QED
    BY <2>1, <2>2, <2>3 DEF Loose
<1>12. QED
  BY <1>4, <1>9, <1>10, <1>11 DEF RowsOf, bs, bt

(* Removing what is in no row changes no link.                                *)
LEMMA UnlinkedLoose ==
  ASSUME NEW d \in States, NEW e \in States, NEW x \in Items, Loose(d), Home(d, x) = Null,
         Unlinked(e, d, x)
  PROVE  SameLinks(e, d)
<1>1. x \in Linked /\ GetEnd(x) \in Linked /\ Null \notin Linked
  BY Kinds, GetEnds
<1>2. /\ d.next \in [Linked -> Linked \cup {Null}] /\ d.prev \in [Linked -> Linked \cup {Null}]
      /\ d.parent \in [Nodes -> Parents \cup {Null}] /\ d.owner \in [Attributes -> Elements \cup {Null}]
  BY DEF States
<1>3. d.prev[x] = Null /\ d.next[GetEnd(x)] = Null
  BY DEF Loose
<1>4. e.next = d.next
  BY <1>1, <1>2, <1>3 DEF Unlinked
<1>5. e.prev = d.prev
  BY <1>1, <1>2, <1>3 DEF Unlinked
<1>6. /\ x \in Children => d.parent[x] = Null
      /\ x \in Attributes => d.owner[x] = Null
  BY Kinds DEF Home
<1>7. e.parent = d.parent
  BY <1>2, <1>6 DEF Unlinked
<1>8. e.owner = d.owner
  BY <1>2, <1>6 DEF Unlinked
<1>9. QED
  BY <1>4, <1>5, <1>7, <1>8 DEF SameLinks

LEMMA SameLinksSameRows ==
  ASSUME NEW d, NEW e, SameLinks(e, d), NEW size, NEW at, RowsOf(d, size, at)
  PROVE  RowsOf(e, size, at)
BY DEF SameLinks, RowsOf, Contents, LinksFollow, Loose, Home

LEMMA RowWithIs ==
  ASSUME NEW size, NEW at, Shape(size, at), NEW p \in Parents, NEW i \in 2..size[p],
         NEW x \in Linked
  PROVE  /\ Shape([size EXCEPT ![p] = size[p] + 1], RowWith(at, p, i, x))
         /\ \A q \in Parents : q # p => RowWith(at, p, i, x)[q] = at[q]
         /\ \A j \in Nat : RowWith(at, p, i, x)[p][j] =
                             IF j < i THEN at[p][j] ELSE IF j = i THEN x ELSE at[p][j - 1]
         /\ \A q \in Parents : [size EXCEPT ![p] = size[p] + 1][q] =
                                 IF q = p THEN size[p] + 1 ELSE size[q]
<1> DEFINE row == [j \in Nat |-> IF j < i THEN at[p][j] ELSE IF j = i THEN x ELSE at[p][j - 1]]
           bt == RowWith(at, p, i, x)
           bs == [size EXCEPT ![p] = size[p] + 1]
<1>1. /\ size \in [Parents -> Nat \ {0, 1}] /\ at \in [Parents -> [Nat -> Linked]]
      /\ \A q \in Parents : at[q][1] = q /\ at[q][size[q]] = End(q)
  BY DEF Shape
<1>2. size[p] \in Nat /\ size[p] >= 2 /\ at[p] \in [Nat -> Linked] /\ i \in Nat /\ i >= 2 /\ i <= size[p]
  BY <1>1
<1>3. row \in [Nat -> Linked]
  <2>1. ASSUME NEW j \in Nat PROVE row[j] \in Linked
    <3>1. CASE j < i
      BY <1>2, <3>1
    <3>2. CASE j = i
      BY <1>2, <3>2
    <3>3. CASE j > i
      <4>1. j - 1 \in Nat
        BY <1>2, <3>3
      <4>2. QED
        BY <1>2, <3>3, <4>1
    <3>4. QED
      BY <1>2, <3>1, <3>2, <3>3
  <2>2. QED
    BY <2>1
<1>4. \A j \in Nat : row[j] = IF j < i THEN at[p][j] ELSE IF j = i THEN x ELSE at[p][j - 1]
  OBVIOUS
<1>5. bt = [at EXCEPT ![p] = row]
  BY DEF RowWith
<1> HIDE DEF row
<1>6. bt \in [Parents -> [Nat -> Linked]] /\ bt[p] = row /\ \A q \in Parents : q # p => bt[q] = at[q]
  BY <1>1, <1>3, <1>5
<1>7. bs \in [Parents -> Nat \ {0, 1}] /\ \A q \in Parents : bs[q] = IF q = p THEN size[p] + 1 ELSE size[q]
  BY <1>1, <1>2
<1> HIDE DEF bt, bs
<1>8. ASSUME NEW q \in Parents PROVE bt[q][1] = q /\ bt[q][bs[q]] = End(q)
  <2>1. CASE q = p
    <3>1. row[1] = p
      BY <1>1, <1>2, <1>4
    <3>2. row[size[p] + 1] = End(p)
      BY <1>1, <1>2, <1>4
    <3>3. QED
      BY <2>1, <3>1, <3>2, <1>6, <1>7
  <2>2. CASE q # p
    BY <2>2, <1>1, <1>6, <1>7
  <2>3. QED
    BY <2>1, <2>2
<1>9. Shape(bs, bt)
  BY <1>6, <1>7, <1>8 DEF Shape
<1>10. QED
  BY <1>4, <1>6, <1>7, <1>9 DEF bt, bs

(* Putting a loose item before what is at a place of a row shifts the rest of *)
(* that row and changes no other.  Nothing goes before an attribute, and an   *)
(* attribute only behind its element.                                         *)
LEMMA LinkedInRows ==
  ASSUME NEW d \in States, NEW e \in States, NEW size, NEW at, RowsOf(d, size, at),
         NEW p \in Parents, NEW i \in 2..size[p], at[p][i] \notin Attributes,
         NEW x \in Items, Home(d, x) = Null, x \in Attributes => i = 2 /\ p \in Elements,
         LinkedIn(e, d, x, at[p][i], p)
  PROVE  RowsOf(e, [size EXCEPT ![p] = size[p] + 1], RowWith(at, p, i, x))
<1> DEFINE q0 == at[p][i]
           bt == RowWith(at, p, i, x)
           bs == [size EXCEPT ![p] = size[p] + 1]
<1>1. Shape(size, at) /\ Contents(d, size, at) /\ LinksFollow(d, size, at) /\ Loose(d)
  BY DEF RowsOf
<1>2. \A q \in Parents : size[q] \in Nat /\ size[q] >= 2 /\ at[q][1] = q /\ at[q][size[q]] = End(q)
  BY <1>1 DEF Shape
<1>3. size[p] \in Nat /\ i \in Nat /\ i >= 2 /\ i <= size[p]
  BY <1>2
<1>4. x \in Linked /\ GetEnd(x) \in Linked /\ q0 \in Linked /\ Null \notin Linked
  BY <1>1, <1>3, Kinds, GetEnds DEF Shape
<1>5. /\ Shape(bs, bt)
      /\ \A q \in Parents : q # p => bt[q] = at[q] /\ bs[q] = size[q]
      /\ \A j \in Nat : bt[p][j] = IF j < i THEN at[p][j] ELSE IF j = i THEN x ELSE at[p][j - 1]
      /\ bs[p] = size[p] + 1
  BY <1>1, <1>4, RowWithIs
<1>6. d.prev[q0] = Out(at, p, i - 1) /\ d.next[Out(at, p, i - 1)] = q0
  <2>1. i - 1 \in 1..(size[p] - 1) /\ (i - 1) + 1 = i
    BY <1>3
  <2>2. QED
    BY <1>1, <2>1 DEF LinksFollow
<1>7. d.prev[x] = Null /\ d.next[GetEnd(x)] = Null
  BY <1>1 DEF Loose
<1>8. /\ \A q, r \in Parents : \A j \in 1..(size[q] - 1), k \in 1..(size[r] - 1) :
           Out(at, q, j) = Out(at, r, k) => q = r /\ j = k
      /\ \A q, r \in Parents : \A j \in 2..size[q], k \in 2..size[r] :
           at[q][j] = at[r][k] => q = r /\ j = k
      /\ \A q \in Parents : \A j \in 1..(size[q] - 1) : Out(at, q, j) \in Linked
  BY <1>1, Places
<1>9. \A q \in Parents : \A j \in 1..(size[q] - 1) :
        d.next[Out(at, q, j)] = at[q][j + 1] /\ d.prev[at[q][j + 1]] = Out(at, q, j)
  BY <1>1 DEF LinksFollow
<1>10. \A q \in Parents : \A j \in 2..size[q] : at[q][j] \in Linked
  BY <1>1, <1>2 DEF Shape
(* x stands nowhere yet.                                                      *)
<1>11. \A q \in Parents : \A j \in 1..(size[q] - 1) : Out(at, q, j) # GetEnd(x) /\ at[q][j + 1] # x
  <2>1. TAKE q \in Parents
  <2>2. TAKE j \in 1..(size[q] - 1)
  <2>3. at[q][j + 1] \in Linked /\ Out(at, q, j) \in Linked
    <3>1. j + 1 \in 2..size[q]
      BY <1>2
    <3>2. QED
      BY <3>1, <1>8, <1>10
  <2>4. QED
    BY <2>3, <1>4, <1>7, <1>9
<1>12. /\ \A m \in Linked : e.next[m] = IF m = GetEnd(x) THEN q0
                                        ELSE IF m = Out(at, p, i - 1) THEN x ELSE d.next[m]
       /\ \A m \in Linked : e.prev[m] = IF m = q0 THEN GetEnd(x)
                                        ELSE IF m = x THEN Out(at, p, i - 1) ELSE d.prev[m]
       /\ \A n \in Nodes : e.parent[n] = IF n = x /\ n \in Children THEN p ELSE d.parent[n]
       /\ \A a \in Attributes : e.owner[a] = IF a = x THEN p ELSE d.owner[a]
  BY <1>6 DEF LinkedIn
<1>13. \A y \in Items : Home(e, y) = IF y = x THEN p ELSE Home(d, y)
  BY <1>12, Kinds DEF Home, Items
<1>14. q0 # x
  <2>1. i - 1 \in 1..(size[p] - 1) /\ (i - 1) + 1 = i
    BY <1>3
  <2>2. QED
    BY <2>1, <1>11
<1>15. p # Null
  BY Kinds
<1> HIDE DEF bt, bs, q0
<1>16. Contents(e, bs, bt)
  <2>1. ASSUME NEW q \in Parents, NEW j \in 2..(bs[q] - 1)
        PROVE  /\ bt[q][j] \in Items
               /\ Home(e, bt[q][j]) = q
               /\ bt[q][j] \in Attributes => j = 2
    <3>1. CASE q # p
      <4>1. j \in 2..(size[q] - 1) /\ bt[q][j] = at[q][j]
        BY <1>5, <3>1
      <4>2. /\ at[q][j] \in Items /\ Home(d, at[q][j]) = q /\ (at[q][j] \in Attributes => j = 2)
        BY <1>1, <4>1 DEF Contents
      <4>3. at[q][j] # x
        BY <4>2, Kinds
      <4>4. QED
        BY <1>13, <4>1, <4>2, <4>3
    <3>2. CASE q = p /\ j < i
      <4>1. j \in 2..(size[p] - 1) /\ bt[p][j] = at[p][j]
        BY <1>3, <1>5, <3>2
      <4>2. /\ at[p][j] \in Items /\ Home(d, at[p][j]) = p /\ (at[p][j] \in Attributes => j = 2)
        BY <1>1, <4>1 DEF Contents
      <4>3. at[p][j] # x
        BY <4>2, Kinds
      <4>4. QED
        BY <1>13, <4>1, <4>2, <4>3, <3>2
    <3>3. CASE q = p /\ j = i
      <4>1. bt[p][j] = x
        BY <1>3, <1>5, <3>3
      <4>2. QED
        BY <1>13, <4>1, <3>3
    <3>4. CASE q = p /\ j > i
      <4>1. j - 1 \in 2..(size[p] - 1) /\ i \in 2..(size[p] - 1) /\ bt[p][j] = at[p][j - 1]
        BY <1>3, <1>5, <3>4
      <4>2. /\ at[p][j - 1] \in Items /\ Home(d, at[p][j - 1]) = p
            /\ (at[p][j - 1] \in Attributes => j - 1 = 2)
        BY <1>1, <4>1 DEF Contents
      <4>3. at[p][j - 1] # x
        BY <4>2, Kinds
      <4>4. at[p][j - 1] \in Attributes => i = 2 /\ j - 1 = 2
        BY <1>3, <3>4, <4>2
      <4>5. at[p][j - 1] \notin Attributes
        BY <4>4
      <4>6. QED
        BY <1>13, <4>1, <4>2, <4>3, <4>5, <3>4
    <3>5. QED
      BY <1>3, <3>1, <3>2, <3>3, <3>4
  <2>2. ASSUME NEW q \in Parents, NEW j \in 2..(bs[q] - 1), NEW k \in 2..(bs[q] - 1),
               bt[q][j] = bt[q][k]
        PROVE  j = k
    <3>1. CASE q # p
      BY <1>1, <1>5, <2>2, <3>1 DEF Contents
    <3>2. CASE q = p
      <4> DEFINE jj == IF j < i THEN j ELSE j - 1
                 kk == IF k < i THEN k ELSE k - 1
      <4>0. \A l \in 2..(size[p] - 1) : at[p][l] # x
        BY <1>1, Kinds DEF Contents
      <4>1. CASE j = i \/ k = i
        <5>1. /\ bt[p][i] = x
              /\ j # i => jj \in 2..(size[p] - 1) /\ bt[p][j] = at[p][jj]
              /\ k # i => kk \in 2..(size[p] - 1) /\ bt[p][k] = at[p][kk]
          BY <1>3, <1>5, <3>2
        <5>2. QED
          BY <4>0, <4>1, <5>1, <2>2, <3>2
      <4>2. CASE j # i /\ k # i
        <5>1. jj \in 2..(size[p] - 1) /\ kk \in 2..(size[p] - 1)
          BY <1>3, <1>5, <3>2, <4>2
        <5>2. at[p][jj] = at[p][kk]
          BY <1>3, <1>5, <2>2, <3>2, <4>2
        <5>3. jj = kk
          BY <1>1, <5>1, <5>2 DEF Contents
        <5>4. QED
          BY <1>3, <4>2, <5>3
      <4>3. QED
        BY <4>1, <4>2
    <3>3. QED
      BY <3>1, <3>2
  <2>3. ASSUME NEW y \in Items, Home(e, y) # Null
        PROVE  \E j \in 2..(bs[Home(e, y)] - 1) : bt[Home(e, y)][j] = y
    <3>1. CASE y = x
      <4>1. Home(e, y) = p
        BY <1>13, <3>1
      <4>2. i \in 2..(bs[p] - 1) /\ bt[p][i] = x
        BY <1>3, <1>5
      <4>3. QED
        BY <3>1, <4>1, <4>2
    <3>2. CASE y # x
      <4>1. Home(e, y) = Home(d, y)
        BY <1>13, <3>2
      <4>2. PICK j \in 2..(size[Home(d, y)] - 1) : at[Home(d, y)][j] = y
        BY <1>1, <2>3, <4>1 DEF Contents
      <4>3. Home(d, y) \in Parents
        BY <2>3, <4>1, Kinds DEF Home, States, Items
      <4>4. CASE Home(d, y) # p
        BY <1>5, <4>1, <4>2, <4>3, <4>4
      <4>5. CASE Home(d, y) = p
        <5>1. CASE j < i
          <6>1. j \in 2..(bs[p] - 1) /\ bt[p][j] = y
            BY <1>3, <1>5, <4>2, <4>5, <5>1
          <6>2. QED
            BY <4>1, <4>5, <6>1
        <5>2. CASE j >= i
          <6>1. j + 1 \in 2..(bs[p] - 1) /\ bt[p][j + 1] = y
            BY <1>3, <1>5, <4>2, <4>5, <5>2
          <6>2. QED
            BY <4>1, <4>5, <6>1
        <5>3. QED
          BY <1>3, <4>2, <4>5, <5>1, <5>2
      <4>6. QED
        BY <4>4, <4>5
    <3>3. QED
      BY <3>1, <3>2
  <2>4. QED
    BY <2>1, <2>2, <2>3 DEF Contents
<1>17. LinksFollow(e, bs, bt)
  <2>1. SUFFICES ASSUME NEW q \in Parents, NEW j \in 1..(bs[q] - 1)
                 PROVE  /\ e.next[Out(bt, q, j)] = bt[q][j + 1]
                        /\ e.prev[bt[q][j + 1]] = Out(bt, q, j)
    BY DEF LinksFollow
  <2>2. CASE q # p
    <3>1. j \in 1..(size[q] - 1) /\ bt[q][j + 1] = at[q][j + 1] /\ Out(bt, q, j) = Out(at, q, j)
      BY <1>5, <2>2 DEF Out
    <3>2. /\ Out(at, q, j) # Out(at, p, i - 1) /\ Out(at, q, j) # GetEnd(x)
          /\ Out(at, q, j) \in Linked /\ at[q][j + 1] # x
      BY <1>3, <1>8, <1>11, <2>2, <3>1
    <3>3. j + 1 \in 2..size[q] /\ i \in 2..size[p]
      BY <1>2, <1>3, <3>1
    <3>4. at[q][j + 1] # q0 /\ at[q][j + 1] \in Linked
      BY <1>8, <1>10, <2>2, <3>3 DEF q0
    <3>5. QED
      BY <1>9, <1>12, <3>1, <3>2, <3>4
  <2>3. CASE q = p /\ j < i - 1
    <3>1. /\ j \in 1..(size[p] - 1) /\ bt[p][j + 1] = at[p][j + 1] /\ Out(bt, p, j) = Out(at, p, j)
      BY <1>3, <1>5, <2>3 DEF Out
    <3>2. /\ Out(at, p, j) # Out(at, p, i - 1) /\ Out(at, p, j) # GetEnd(x)
          /\ Out(at, p, j) \in Linked /\ at[p][j + 1] # x
      BY <1>3, <1>8, <1>11, <2>3, <3>1
    <3>3. j + 1 \in 2..size[p] /\ i \in 2..size[p] /\ j + 1 # i
      BY <1>2, <1>3, <2>3, <3>1
    <3>4. at[p][j + 1] # q0 /\ at[p][j + 1] \in Linked
      BY <1>8, <1>10, <3>3 DEF q0
    <3>5. QED
      BY <1>9, <1>12, <2>3, <3>1, <3>2, <3>4
  <2>4. CASE q = p /\ j = i - 1
    <3>1. bt[p][j + 1] = x /\ Out(bt, p, j) = Out(at, p, i - 1)
      BY <1>3, <1>5, <2>4 DEF Out
    <3>2. i - 1 \in 1..(size[p] - 1)
      BY <1>3
    <3>3. Out(at, p, i - 1) # GetEnd(x) /\ Out(at, p, i - 1) \in Linked
      BY <1>8, <1>11, <3>2
    <3>4. QED
      BY <1>4, <1>12, <1>14, <2>4, <3>1, <3>3
  <2>5. CASE q = p /\ j = i
    <3>1. bt[p][j + 1] = q0 /\ Out(bt, p, j) = GetEnd(x)
      BY <1>3, <1>5, <2>5 DEF Out, q0
    <3>2. QED
      BY <1>4, <1>12, <2>5, <3>1
  <2>6. CASE q = p /\ j > i
    <3>1. /\ j - 1 \in 1..(size[p] - 1) /\ (j - 1) + 1 = j /\ bt[p][j + 1] = at[p][j]
          /\ Out(bt, p, j) = Out(at, p, j - 1)
      BY <1>3, <1>5, <2>6 DEF Out
    <3>2. i - 1 \in 1..(size[p] - 1) /\ i \in 2..size[p] /\ j \in 2..size[p] /\ j # i /\ j - 1 # i - 1
      BY <1>3, <2>6, <3>1
    <3>3. /\ Out(at, p, j - 1) # Out(at, p, i - 1) /\ Out(at, p, j - 1) # GetEnd(x)
          /\ Out(at, p, j - 1) \in Linked /\ at[p][j] # x
      BY <1>8, <1>11, <3>1, <3>2
    <3>4. at[p][j] # q0 /\ at[p][j] \in Linked
      BY <1>8, <1>10, <3>2 DEF q0
    <3>5. d.next[Out(at, p, j - 1)] = at[p][j] /\ d.prev[at[p][j]] = Out(at, p, j - 1)
      BY <1>9, <3>1
    <3>6. QED
      BY <1>12, <2>6, <3>1, <3>3, <3>4, <3>5
  <2>7. QED
    BY <1>3, <1>5, <2>2, <2>3, <2>4, <2>5, <2>6
<1>18. Loose(e)
  <2>1. ASSUME NEW y \in Items, Home(e, y) = Null
        PROVE  e.prev[y] = Null /\ e.next[GetEnd(y)] = Null
    <3>0. y \in Linked /\ GetEnd(y) \in Linked
      BY Kinds, GetEnds
    <3>1. y # x
      BY <1>13, <1>15, <2>1
    <3>2. d.prev[y] = Null /\ d.next[GetEnd(y)] = Null
      BY <1>1, <1>13, <2>1, <3>1 DEF Loose
    <3>3. GetEnd(y) # GetEnd(x)
      BY <3>1, GetEnds
    <3>4. i - 1 \in 1..(size[p] - 1)
      BY <1>3
    <3>5. Out(at, p, i - 1) \in Linked
      BY <1>8, <3>4
    <3>6. y # q0 /\ GetEnd(y) # Out(at, p, i - 1)
      BY <1>4, <1>6, <3>2, <3>5
    <3>7. QED
      BY <1>12, <3>0, <3>1, <3>2, <3>3, <3>6
  <2>2. ASSUME NEW q \in Parents \ Elements
        PROVE  e.prev[q] = Null /\ e.next[End(q)] = Null
    <3>1. d.prev[q] = Null /\ d.next[End(q)] = Null
      BY <1>1 DEF Loose
    <3>2. q \in Linked /\ End(q) \in Linked /\ q \notin Items
      BY Kinds DEF Items
    <3>3. i - 1 \in 1..(size[p] - 1)
      BY <1>3
    <3>4. Out(at, p, i - 1) \in Linked
      BY <1>8, <3>3
    <3>5. q # q0 /\ End(q) # Out(at, p, i - 1) /\ q # x /\ End(q) # GetEnd(x)
      BY <1>4, <1>6, <3>1, <3>2, <3>4, Kinds, GetEnds
    <3>6. QED
      BY <1>12, <3>1, <3>2, <3>5
  <2>3. ASSUME NEW n \in Nodes \ Children PROVE e.parent[n] = Null
    BY <1>1, <1>12 DEF Loose
  <2>4. QED
    BY <2>1, <2>2, <2>3 DEF Loose
<1>19. QED
  BY <1>5, <1>16, <1>17, <1>18 DEF RowsOf, bs, bt

-----------------------------------------------------------------------------
(* Reading the list.  No row is longer than there are nodes.                  *)
LEMMA RowsFit ==
  ASSUME NEW d, NEW size, NEW at, Shape(size, at), Contents(d, size, at)
  PROVE  /\ Cardinality(Linked) \in Nat /\ Cardinality(Linked) >= 1
         /\ \A p \in Parents : size[p] - 1 <= Cardinality(Linked)
<1>1. IsFiniteSet(Linked) /\ Linked # {}
  BY DomAssumption, Kinds
<1>2. Cardinality(Linked) \in Nat /\ Cardinality(Linked) >= 1
  BY <1>1, FS_CardinalityType, FS_EmptySet
<1>3. ASSUME NEW p \in Parents PROVE size[p] - 1 <= Cardinality(Linked)
  <2> DEFINE place == [i \in 2..size[p] |-> at[p][i]]
  <2>1. size[p] \in Nat /\ size[p] >= 2 /\ at[p] \in [Nat -> Linked]
    BY DEF Shape
  <2>2. \A i, j \in 2..size[p] : at[p][i] = at[p][j] => i = j
    BY Places
  <2>3. place \in [2..size[p] -> Linked] /\ \A i, j \in 2..size[p] : place[i] = place[j] => i = j
    BY <2>1, <2>2
  <2>4. place \in Injection(2..size[p], Linked)
    <3> HIDE DEF place
    <3> QED BY <2>3 DEF Injection, IsInjective
  <2>5. Cardinality(2..size[p]) <= Cardinality(Linked)
    <3> HIDE DEF place
    <3> QED BY <1>1, <2>4, FS_Injection
  <2>6. Cardinality(2..size[p]) = size[p] - 1
    BY <2>1, FS_Interval
  <2>7. QED
    BY <2>5, <2>6
<1>4. QED
  BY <1>2, <1>3

(* firstChild skips the attribute.                                            *)
LEMMA FirstChildIs ==
  ASSUME NEW d \in States, NEW p \in Parents, NEW first \in Linked,
         Cardinality(Linked) \in Nat, Cardinality(Linked) >= 1, first \notin Attributes,
         \/ d.next[p] = first
         \/ d.next[p] \in Attributes /\ d.next[d.next[p]] = first
  PROVE  FirstChild(d, p) = IF first = End(p) THEN Null ELSE first
<1> DEFINE C == Cardinality(Linked)
           G == Linked \cup {Null}
           F(skip) == [k \in Steps |-> [n \in G |->
                         IF n \in Attributes /\ k > 0 THEN skip[k - 1][d.next[n]] ELSE n]]
           chosen == CHOOSE skip : skip = F(skip)
           start == [n \in G |-> n]
           step == [k \in 1..C |-> [g \in [G -> G] |->
                      [n \in G |-> IF n \in Attributes THEN g[d.next[n]] ELSE n]]]
<1>1. Attributes \subseteq Linked /\ d.next \in [Linked -> G] /\ p \in Linked
  BY Kinds DEF States
<1>2. start \in [G -> G] /\ step \in [1..C -> [[G -> G] -> [G -> G]]]
  BY <1>1
<1>3. PICK f \in [0..C -> [G -> G]] : Recursion(f, start, C, step)
  <2> HIDE DEF start, step, C, G
  <2>1. C \in Nat
    BY DEF C
  <2>2. QED
    BY <1>2, <2>1, FunctionByRecursion
<1>4. f = F(f)
  <2>1. Steps = 0..C
    BY DEF Steps
  <2>2. f[0] = [n \in G |-> n]
    BY <1>3 DEF Recursion
  <2>3. \A k \in 1..C : f[k] = [n \in G |-> IF n \in Attributes THEN f[k - 1][d.next[n]] ELSE n]
    <3>1. TAKE k \in 1..C
    <3>2. k - 1 \in 0..C
      OBVIOUS
    <3>3. f[k - 1] \in [G -> G] /\ f[k] = step[k][f[k - 1]]
      <4> HIDE DEF C, G, step
      <4> QED BY <1>3, <3>2 DEF Recursion
    <3> HIDE DEF C, G
    <3>4. QED
      BY <3>3
  <2>4. ASSUME NEW k \in 0..C
        PROVE  f[k] = [n \in G |-> IF n \in Attributes /\ k > 0 THEN f[k - 1][d.next[n]] ELSE n]
    <3>1. CASE k = 0
      BY <2>2, <3>1
    <3>2. CASE k # 0
      <4>1. k \in 1..C /\ (k > 0) = TRUE
        BY <3>2
      <4>2. [n \in G |-> IF n \in Attributes /\ k > 0 THEN f[k - 1][d.next[n]] ELSE n]
              = [n \in G |-> IF n \in Attributes THEN f[k - 1][d.next[n]] ELSE n]
        BY <4>1
      <4>3. QED
        BY <2>3, <4>1, <4>2
    <3>3. QED
      BY <3>1, <3>2
  <2> HIDE DEF C, G
  <2>5. QED
    BY <2>1, <2>4
<1>5. chosen = F(chosen)
  <2> HIDE DEF F
  <2> QED BY <1>4
<1>6. FirstChild(d, p) = IF chosen[C][d.next[p]] = End(p) THEN Null ELSE chosen[C][d.next[p]]
  BY DEF FirstChild
<1>7. \A k \in 0..C : chosen[k] =
        [n \in G |-> IF n \in Attributes /\ k > 0 THEN chosen[k - 1][d.next[n]] ELSE n]
  <2> HIDE DEF chosen
  <2> QED BY <1>5 DEF Steps
<1> HIDE DEF chosen, F
<1>8. \A k \in 0..C : chosen[k][first] = first
  <2>1. first \in G
    OBVIOUS
  <2> HIDE DEF C, G
  <2>2. TAKE k \in 0..C
  <2>3. chosen[k] = [n \in G |-> IF n \in Attributes /\ k > 0 THEN chosen[k - 1][d.next[n]] ELSE n]
    BY <1>7
  <2>4. chosen[k][first] = IF first \in Attributes /\ k > 0 THEN chosen[k - 1][d.next[first]] ELSE first
    BY ONLY <2>1, <2>3
  <2>5. QED
    BY <2>4
<1>9. chosen[C][d.next[p]] = first
  <2>1. C \in 0..C /\ C - 1 \in 0..C /\ C > 0
    OBVIOUS
  <2>2. CASE d.next[p] = first
    BY <1>8, <2>1, <2>2
  <2>3. CASE d.next[p] \in Attributes /\ d.next[d.next[p]] = first
    <3>1. chosen[C][d.next[p]] = chosen[C - 1][first]
      BY <1>1, <1>7, <2>1, <2>3
    <3>2. QED
      BY <1>8, <2>1, <3>1
  <2>4. QED
    BY <2>2, <2>3
<1>10. QED
  BY <1>6, <1>9

LEMMA Prepended ==
  ASSUME NEW S, NEW kid \in [Nat -> S], NEW k \in Nat, NEW j \in Nat
  PROVE  <<kid[j]>> \o [i \in 1..k |-> kid[j + i]] = [i \in 1..(k + 1) |-> kid[(j + i) - 1]]
<1> DEFINE rest == [i \in 1..k |-> kid[j + i]]
           all  == [i \in 1..(k + 1) |-> kid[(j + i) - 1]]
<1>1. rest \in Seq(S) /\ Len(rest) = k /\ \A i \in 1..k : rest[i] = kid[j + i]
  OBVIOUS
<1>2. all \in Seq(S) /\ Len(all) = k + 1
  OBVIOUS
<1>3. <<kid[j]>> \in Seq(S) /\ Len(<<kid[j]>>) = 1 /\ <<kid[j]>>[1] = kid[j]
  OBVIOUS
<1>4. \A i \in 1..(k + 1) : all[i] = kid[(j + i) - 1]
  OBVIOUS
<1> HIDE DEF rest, all
<1>5. /\ <<kid[j]>> \o rest \in Seq(S) /\ Len(<<kid[j]>> \o rest) = k + 1
      /\ \A i \in 1..(k + 1) : (<<kid[j]>> \o rest)[i] =
           IF i <= 1 THEN <<kid[j]>>[i] ELSE rest[i - 1]
  BY <1>1, <1>3, ConcatProperties
<1>6. ASSUME NEW i \in 1..(k + 1) PROVE (<<kid[j]>> \o rest)[i] = all[i]
  <2>1. CASE i = 1
    <3>1. all[i] = kid[j]
      BY <1>4, <2>1
    <3>2. QED
      BY <1>3, <1>5, <2>1, <3>1
  <2>2. CASE i # 1
    <3>1. i - 1 \in 1..k /\ j + (i - 1) = (j + i) - 1 /\ ~(i <= 1)
      BY <2>2
    <3>2. QED
      BY <1>1, <1>4, <1>5, <3>1
  <2>3. QED
    BY <2>1, <2>2
<1>7. QED
  BY <1>2, <1>5, <1>6, SeqEqual DEF rest, all

(* childNodes follows the siblings.                                           *)
LEMMA ChildNodesIs ==
  ASSUME NEW d \in States, NEW p \in Parents, NEW m \in Nat, NEW kid \in [Nat -> Linked],
         Cardinality(Linked) \in Nat, m <= Cardinality(Linked),
         FirstChild(d, p) = IF m = 0 THEN Null ELSE kid[1],
         \A i \in 1..m : NextSibling(d, kid[i]) = IF i = m THEN Null ELSE kid[i + 1]
  PROVE  ChildNodes(d, p) = [i \in 1..m |-> kid[i]]
<1> DEFINE C == Cardinality(Linked)
           G == Linked \cup {Null}
           S == [G -> Seq(Linked)]
           F(rest) == [k \in Steps |-> [n \in G |->
                         IF n = Null \/ k = 0 THEN <<>>
                         ELSE <<n>> \o rest[k - 1][NextSibling(d, n)]]]
           chosen == CHOOSE rest : rest = F(rest)
           start == [n \in G |-> <<>>]
           step == [k \in 1..C |-> [g \in S |->
                      [n \in G |-> IF n = Null THEN <<>> ELSE <<n>> \o g[NextSibling(d, n)]]]]
<1>1. \A n \in Linked : NextSibling(d, n) \in G
  <2>1. \A n \in Linked : d.next[GetEnd(n)] \in G
    BY GetEnds DEF States
  <2>2. QED
    BY <2>1 DEF NextSibling
<1>2. start \in S /\ step \in [1..C -> [S -> S]]
  <2>1. start \in S
    OBVIOUS
  <2>2. ASSUME NEW g \in S, NEW n \in G
        PROVE  (IF n = Null THEN <<>> ELSE <<n>> \o g[NextSibling(d, n)]) \in Seq(Linked)
    <3>1. CASE n = Null
      BY <3>1
    <3>2. CASE n # Null
      <4>1. n \in Linked /\ NextSibling(d, n) \in G
        BY <1>1, <3>2
      <4>2. g[NextSibling(d, n)] \in Seq(Linked) /\ <<n>> \in Seq(Linked)
        BY <4>1
      <4> HIDE DEF G, S
      <4>3. QED
        BY <3>2, <4>2
    <3>3. QED
      BY <3>1, <3>2
  <2>3. \A g \in S : [n \in G |-> IF n = Null THEN <<>> ELSE <<n>> \o g[NextSibling(d, n)]] \in S
    BY <2>2
  <2> HIDE DEF G, S, C
  <2>4. QED
    BY <2>1, <2>3
<1>3. PICK f \in [0..C -> S] : Recursion(f, start, C, step)
  <2> HIDE DEF start, step, C, S
  <2>1. C \in Nat
    BY DEF C
  <2>2. QED
    BY <1>2, <2>1, FunctionByRecursion
<1>4. f = F(f)
  <2>1. Steps = 0..C
    BY DEF Steps
  <2>2. f[0] = [n \in G |-> <<>>]
    BY <1>3 DEF Recursion
  <2>3. \A k \in 1..C :
          f[k] = [n \in G |-> IF n = Null THEN <<>> ELSE <<n>> \o f[k - 1][NextSibling(d, n)]]
    <3>1. TAKE k \in 1..C
    <3>2. k - 1 \in 0..C
      OBVIOUS
    <3>3. f[k - 1] \in S /\ f[k] = step[k][f[k - 1]]
      <4> HIDE DEF C, S, step
      <4> QED BY <1>3, <3>2 DEF Recursion
    <3> HIDE DEF C, G, S
    <3>4. QED
      BY <3>3
  <2>4. ASSUME NEW k \in 0..C
        PROVE  f[k] = [n \in G |-> IF n = Null \/ k = 0 THEN <<>>
                                   ELSE <<n>> \o f[k - 1][NextSibling(d, n)]]
    <3>1. CASE k = 0
      BY <2>2, <3>1
    <3>2. CASE k # 0
      <4>1. k \in 1..C /\ (k = 0) = FALSE
        BY <3>2
      <4>2. [n \in G |-> IF n = Null \/ k = 0 THEN <<>>
                         ELSE <<n>> \o f[k - 1][NextSibling(d, n)]]
              = [n \in G |-> IF n = Null THEN <<>> ELSE <<n>> \o f[k - 1][NextSibling(d, n)]]
        BY <4>1
      <4>3. QED
        BY <2>3, <4>1, <4>2
    <3>3. QED
      BY <3>1, <3>2
  <2> HIDE DEF C, G
  <2>5. QED
    BY <2>1, <2>4
<1>5. chosen = F(chosen)
  <2> HIDE DEF F
  <2> QED BY <1>4
<1>6. ChildNodes(d, p) = chosen[C][FirstChild(d, p)]
  BY DEF ChildNodes
<1>7. \A k \in 0..C : \A n \in G :
        chosen[k][n] = IF n = Null \/ k = 0 THEN <<>>
                       ELSE <<n>> \o chosen[k - 1][NextSibling(d, n)]
  <2>1. TAKE k \in 0..C
  <2>2. chosen[k] = [n \in G |-> IF n = Null \/ k = 0 THEN <<>>
                                 ELSE <<n>> \o chosen[k - 1][NextSibling(d, n)]]
    <3> HIDE DEF chosen, G
    <3> QED BY <1>5 DEF Steps
  <2> HIDE DEF chosen, G
  <2>3. TAKE n \in G
  <2>4. QED
    BY ONLY <2>2, n \in G
<1> HIDE DEF chosen, F, start, step
<1> DEFINE After(j) == IF j = m THEN Null ELSE kid[j + 1]
           T == {k \in Nat : k <= m => \A c \in k..C :
                   chosen[c][After(m - k)] = [i \in 1..k |-> kid[(m - k) + i]]}
<1>8. 0 \in T
  <2>1. After(m - 0) = Null
    OBVIOUS
  <2>2. \A c \in 0..C : chosen[c][Null] = <<>>
    BY <1>7
  <2>3. [i \in 1..0 |-> kid[(m - 0) + i]] = <<>>
    OBVIOUS
  <2>4. QED
    BY <2>1, <2>2, <2>3
<1>9. ASSUME NEW k \in Nat, k \in T PROVE k + 1 \in T
  <2>1. SUFFICES ASSUME k + 1 <= m, NEW c \in (k + 1)..C
                 PROVE  chosen[c][After(m - (k + 1))] = [i \in 1..(k + 1) |-> kid[(m - (k + 1)) + i]]
    <3> DEFINE Right(c) == chosen[c][After(m - (k + 1))]
                            = [i \in 1..(k + 1) |-> kid[(m - (k + 1)) + i]]
    <3>1. k + 1 <= m => \A c \in (k + 1)..C : Right(c)
      BY <2>1 DEF Right
    <3>2. QED
      BY ONLY k \in Nat, <3>1 DEF T, Right
  <2> DEFINE j == m - k
             n == kid[j]
  <2>2. j \in 1..m /\ j \in Nat /\ c \in 0..C /\ c # 0 /\ c - 1 \in k..C /\ k <= m
    BY <2>1
  <2>3. After(m - (k + 1)) = n
    BY <2>1
  <2>4. n \in Linked /\ n # Null /\ n \in G
    BY <2>2, Kinds
  <2>5. NextSibling(d, n) = After(j)
    BY <2>2
  <2>6. chosen[c - 1][After(j)] = [i \in 1..k |-> kid[j + i]]
    BY <1>9, <2>2
  <2>7. chosen[c][n] = <<n>> \o [i \in 1..k |-> kid[j + i]]
    <3>1. chosen[c][n] = <<n>> \o chosen[c - 1][NextSibling(d, n)]
      BY <1>7, <2>2, <2>4
    <3>2. QED
      BY <3>1, <2>5, <2>6
  <2>8. \A i \in 1..(k + 1) : (j + i) - 1 = (m - (k + 1)) + i
    OBVIOUS
  <2>9. <<kid[j]>> \o [i \in 1..k |-> kid[j + i]] = [i \in 1..(k + 1) |-> kid[(j + i) - 1]]
    <3> HIDE DEF j
    <3> QED BY <2>2, Prepended
  <2>10. [i \in 1..(k + 1) |-> kid[(j + i) - 1]] = [i \in 1..(k + 1) |-> kid[(m - (k + 1)) + i]]
    BY <2>8
  <2>11. QED
    BY <2>3, <2>7, <2>9, <2>10
<1>10. m \in T
  <2> HIDE DEF T
  <2> QED BY <1>8, <1>9, SetInduction
<1>11. chosen[C][After(0)] = [i \in 1..m |-> kid[i]]
  <2>1. C \in m..C /\ m - m = 0
    OBVIOUS
  <2>2. chosen[C][After(m - m)] = [i \in 1..m |-> kid[(m - m) + i]]
    BY <1>10, <2>1
  <2>3. [i \in 1..m |-> kid[(m - m) + i]] = [i \in 1..m |-> kid[i]]
    BY <2>1
  <2>4. QED
    BY <2>1, <2>2, <2>3
<1>12. After(0) = FirstChild(d, p)
  OBVIOUS
<1>13. QED
  BY <1>6, <1>11, <1>12

(* The place of the first child, or of the end if there is none.              *)
Lead(at, p) == IF at[p][2] \in Attributes THEN 3 ELSE 2

LEMMA LeadIs ==
  ASSUME NEW d \in States, NEW size, NEW at, RowsOf(d, size, at), NEW p \in Parents
  PROVE  /\ Lead(at, p) \in {2, 3} /\ Lead(at, p) <= size[p]
         /\ \A i \in Lead(at, p)..(size[p] - 1) : at[p][i] \in Children /\ d.parent[at[p][i]] = p
         /\ \A i \in 2..(size[p] - 1) : i < Lead(at, p) => at[p][i] \in Attributes
         /\ Lead(at, p) = 3 => p \in Elements
<1> DEFINE a == Lead(at, p)
<1>1. Shape(size, at) /\ Contents(d, size, at)
  BY DEF RowsOf
<1>2. size[p] \in Nat /\ size[p] >= 2 /\ at[p][size[p]] = End(p) /\ End(p) \notin Attributes
  <2>1. End(p) \notin Attributes
    BY Kinds
  <2>2. QED
    BY <1>1, <2>1 DEF Shape
<1>3. a \in {2, 3} /\ a <= size[p]
  <2>1. CASE at[p][2] \in Attributes
    <3>1. size[p] # 2
      BY <1>2, <2>1
    <3>2. a = 3
      BY <2>1 DEF Lead
    <3>3. QED
      BY <1>2, <3>1, <3>2
  <2>2. CASE at[p][2] \notin Attributes
    BY <1>2, <2>2 DEF Lead
  <2>3. QED
    BY <2>1, <2>2
<1>4. ASSUME NEW i \in a..(size[p] - 1)
      PROVE  at[p][i] \in Children /\ d.parent[at[p][i]] = p
  <2>1. i \in 2..(size[p] - 1)
    BY <1>2, <1>3
  <2>2. /\ at[p][i] \in Items /\ Home(d, at[p][i]) = p
        /\ at[p][i] \in Attributes => i = 2
    BY <1>1, <2>1 DEF Contents
  <2>3. at[p][i] \notin Attributes
    BY <1>3, <2>2 DEF Lead
  <2>4. QED
    BY <2>2, <2>3 DEF Items, Home
<1>5. ASSUME NEW i \in 2..(size[p] - 1), i < a PROVE at[p][i] \in Attributes
  <2>1. i = 2 /\ a = 3
    BY <1>2, <1>3, <1>5
  <2>2. QED
    BY <2>1 DEF Lead
<1>6. ASSUME a = 3 PROVE p \in Elements
  <2>1. at[p][2] \in Attributes /\ 2 \in 2..(size[p] - 1)
    BY <1>2, <1>3, <1>6 DEF Lead
  <2>2. Home(d, at[p][2]) = p
    BY <1>1, <2>1 DEF Contents
  <2>3. d.owner[at[p][2]] \in Elements \cup {Null} /\ p # Null
    BY <2>1, Kinds DEF States
  <2>4. QED
    BY <2>1, <2>2, <2>3 DEF Home
<1>7. QED
  BY <1>3, <1>4, <1>5, <1>6

(* childNodes and firstChild show the children of the row: they read only the *)
(* links ahead.                                                               *)
LEMMA KidsByNext ==
  ASSUME NEW d \in States, NEW size, NEW at, RowsOf(d, size, at), NEW p \in Parents,
         NEW c \in States, c.next = d.next
  PROVE  /\ FirstChild(c, p) = IF Lead(at, p) = size[p] THEN Null ELSE at[p][Lead(at, p)]
         /\ ChildNodes(c, p) = [i \in 1..(size[p] - Lead(at, p)) |-> at[p][(Lead(at, p) - 1) + i]]
<1> DEFINE a == Lead(at, p)
           m == size[p] - a
           kid == [j \in Nat |-> at[p][(a - 1) + j]]
<1>1. Shape(size, at) /\ Contents(d, size, at) /\ LinksFollow(d, size, at)
  BY DEF RowsOf
<1>2. /\ size[p] \in Nat /\ size[p] >= 2 /\ at[p][size[p]] = End(p) /\ at[p][1] = p
      /\ at[p] \in [Nat -> Linked] /\ End(p) \notin Attributes /\ End(p) \in Linked
  <2>1. End(p) \notin Attributes /\ End(p) \in Linked
    BY Kinds
  <2>2. QED
    BY <1>1, <2>1 DEF Shape
<1>3. /\ a \in {2, 3} /\ a <= size[p]
      /\ \A i \in a..(size[p] - 1) : at[p][i] \in Children /\ d.parent[at[p][i]] = p
      /\ \A i \in 2..(size[p] - 1) : i < a => at[p][i] \in Attributes
  BY LeadIs
<1>31. (a = 3) <=> at[p][2] \in Attributes
  BY DEF Lead
<1> HIDE DEF a
<1>4. Cardinality(Linked) \in Nat /\ Cardinality(Linked) >= 1 /\ size[p] - 1 <= Cardinality(Linked)
  BY <1>1, RowsFit
<1>5. m \in Nat /\ m <= Cardinality(Linked) /\ kid \in [Nat -> Linked]
  <2>1. \A j \in Nat : (a - 1) + j \in Nat
    BY <1>3
  <2>2. QED
    BY <1>2, <1>3, <1>4, <2>1
<1>6. at[p][a] \in Linked /\ at[p][a] \notin Attributes
  <2>1. CASE a = size[p]
    BY <1>2, <2>1
  <2>2. CASE a # size[p]
    BY <1>2, <1>3, <2>2, Kinds
  <2>3. QED
    BY <2>1, <2>2
<1>7. \/ d.next[p] = at[p][a]
      \/ d.next[p] \in Attributes /\ d.next[d.next[p]] = at[p][a]
  <2>1. d.next[p] = at[p][2]
    <3>1. 1 \in 1..(size[p] - 1) /\ Out(at, p, 1) = p
      BY <1>2 DEF Out
    <3>2. QED
      BY <1>1, <3>1 DEF LinksFollow
  <2>2. CASE a = 2
    BY <2>1, <2>2
  <2>3. CASE a = 3
    <3>1. at[p][2] \in Attributes /\ 2 \in 1..(size[p] - 1)
      BY <1>2, <1>3, <1>31, <2>3
    <3>2. Out(at, p, 2) = at[p][2]
      BY <3>1, GetEnds, Kinds DEF Out, Items
    <3>3. d.next[at[p][2]] = at[p][3]
      BY <1>1, <3>1, <3>2 DEF LinksFollow
    <3>4. QED
      BY <2>1, <2>3, <3>1, <3>3
  <2>4. QED
    BY <1>3, <2>2, <2>3
<1>8. FirstChild(c, p) = IF at[p][a] = End(p) THEN Null ELSE at[p][a]
  BY <1>4, <1>6, <1>7, FirstChildIs
<1>9. at[p][a] = End(p) <=> a = size[p]
  <2>1. CASE a = size[p]
    BY <1>2, <2>1
  <2>2. CASE a # size[p]
    <3>1. at[p][a] \in Children
      BY <1>2, <1>3, <2>2
    <3>2. QED
      BY <2>2, <3>1, Kinds
  <2>3. QED
    BY <2>1, <2>2
<1>10. FirstChild(c, p) = IF m = 0 THEN Null ELSE kid[1]
  <2>1. (m = 0 <=> a = size[p]) /\ (a - 1) + 1 = a
    BY <1>2, <1>3
  <2>2. kid[1] = at[p][a]
    BY <2>1
  <2> HIDE DEF m, kid
  <2>3. QED
    BY <1>8, <1>9, <2>1, <2>2
<1>11. ASSUME NEW i \in 1..m
       PROVE  NextSibling(c, kid[i]) = IF i = m THEN Null ELSE kid[i + 1]
  <2> DEFINE j == (a - 1) + i
  <2>1. j \in a..(size[p] - 1) /\ j \in 1..(size[p] - 1) /\ j # 1 /\ i \in Nat
    BY <1>2, <1>3
  <2>2. kid[i] = at[p][j] /\ kid[i + 1] = at[p][j + 1]
    <3>1. (a - 1) + (i + 1) = j + 1
      BY <1>3
    <3>2. QED
      BY <2>1, <3>1
  <2>3. Out(at, p, j) = GetEnd(at[p][j])
    BY <2>1 DEF Out
  <2>4. d.next[GetEnd(at[p][j])] = at[p][j + 1]
    BY <1>1, <2>1, <2>3 DEF LinksFollow
  <2>5. NextSibling(c, kid[i]) = IF at[p][j + 1] \in Ends THEN Null ELSE at[p][j + 1]
    BY <2>2, <2>4 DEF NextSibling
  <2>6. CASE i = m
    <3>1. at[p][j + 1] = End(p)
      BY <1>2, <1>3, <2>6
    <3>2. End(p) \in Ends
      BY DEF Ends
    <3>3. QED
      BY <2>5, <2>6, <3>1, <3>2
  <2>7. CASE i # m
    <3>1. j + 1 \in a..(size[p] - 1)
      BY <1>2, <1>3, <2>7
    <3>2. at[p][j + 1] \in Nodes
      BY <1>3, <3>1, Kinds
    <3>3. at[p][j + 1] \notin Ends
      BY <3>2, DomAssumption
    <3> HIDE DEF m, kid, j
    <3>4. QED
      BY <2>2, <2>5, <2>7, <3>3
  <2>8. QED
    BY <2>6, <2>7
<1>12. ChildNodes(c, p) = [i \in 1..m |-> kid[i]]
  <2> HIDE DEF m, kid
  <2> QED BY <1>4, <1>5, <1>10, <1>11, ChildNodesIs
<1>13. [i \in 1..m |-> kid[i]] = [i \in 1..m |-> at[p][(a - 1) + i]]
  OBVIOUS
<1>14. QED
  BY <1>3, <1>8, <1>9, <1>12, <1>13 DEF a

LEMMA KidsOf ==
  ASSUME NEW d \in States, NEW size, NEW at, RowsOf(d, size, at), NEW p \in Parents
  PROVE  /\ FirstChild(d, p) = IF Lead(at, p) = size[p] THEN Null ELSE at[p][Lead(at, p)]
         /\ ChildNodes(d, p) = [i \in 1..(size[p] - Lead(at, p)) |-> at[p][(Lead(at, p) - 1) + i]]
BY KidsByNext

(* An item with a home has a place in its row.                                *)
LEMMA PlaceOf ==
  ASSUME NEW d \in States, NEW size, NEW at, RowsOf(d, size, at),
         NEW x \in Items, Home(d, x) # Null
  PROVE  /\ Home(d, x) \in Parents
         /\ \E i \in 2..(size[Home(d, x)] - 1) : at[Home(d, x)][i] = x
<1>1. Home(d, x) \in Parents \cup {Null}
  BY Kinds DEF Home, States, Items
<1>2. QED
  BY <1>1 DEF RowsOf, Contents

(* The children of the row are those whose parent it says.                    *)
LEMMA KidsIn ==
  ASSUME NEW d \in States, NEW size, NEW at, RowsOf(d, size, at), NEW p \in Parents
  PROVE  /\ ChildNodes(d, p) \in Seq(Children)
         /\ \A n \in Children : d.parent[n] = p <=> n \in ToSet(ChildNodes(d, p))
         /\ FirstChild(d, p) \in Children \cup {Null}
         /\ FirstChild(d, p) # Null => d.parent[FirstChild(d, p)] = p
<1> DEFINE a == Lead(at, p)
           m == size[p] - a
           kids == ChildNodes(d, p)
<1>3. /\ a \in {2, 3} /\ a <= size[p] /\ size[p] \in Nat
      /\ \A i \in a..(size[p] - 1) : at[p][i] \in Children /\ d.parent[at[p][i]] = p
      /\ \A i \in 2..(size[p] - 1) : i < a => at[p][i] \in Attributes
  <2>1. size[p] \in Nat
    BY DEF RowsOf, Shape
  <2>2. QED
    BY <2>1, LeadIs
<1>4. /\ FirstChild(d, p) = IF a = size[p] THEN Null ELSE at[p][a]
      /\ kids = [i \in 1..m |-> at[p][(a - 1) + i]]
  BY KidsOf
<1> HIDE DEF a, kids
<1>5. m \in Nat /\ \A i \in 1..m : (a - 1) + i \in a..(size[p] - 1)
  BY <1>3
<1>6. kids \in Seq(Children) /\ Len(kids) = m /\ \A i \in 1..m : kids[i] = at[p][(a - 1) + i]
  <2>1. \A i \in 1..m : at[p][(a - 1) + i] \in Children
    BY <1>3, <1>5
  <2> HIDE DEF m
  <2>2. QED
    BY <1>4, <1>5, <2>1
<1>7. ASSUME NEW n \in Children, d.parent[n] = p PROVE n \in ToSet(kids)
  <2>1. n \in Items /\ Home(d, n) = p /\ p # Null /\ n \notin Attributes
    BY <1>7, Kinds DEF Home
  <2>2. PICK i \in 2..(size[p] - 1) : at[p][i] = n
    BY <2>1, PlaceOf
  <2>3. i \in a..(size[p] - 1)
    BY <1>3, <2>1, <2>2
  <2>4. (i + 1) - a \in 1..m /\ (a - 1) + ((i + 1) - a) = i
    BY <1>3, <2>3
  <2>5. kids[(i + 1) - a] = n
    BY <1>6, <2>2, <2>4
  <2>6. QED
    BY <1>5, <1>6, <2>4, <2>5 DEF ToSet
<1>8. ASSUME NEW n \in ToSet(kids) PROVE d.parent[n] = p
  <2>1. PICK i \in 1..m : kids[i] = n
    BY <1>5, <1>6, <1>8 DEF ToSet
  <2>2. QED
    BY <1>3, <1>5, <1>6, <2>1
<1>9. FirstChild(d, p) # Null => FirstChild(d, p) \in Children /\ d.parent[FirstChild(d, p)] = p
  <2>1. CASE a = size[p]
    BY <1>4, <2>1
  <2>2. CASE a # size[p]
    <3>1. a \in a..(size[p] - 1)
      BY <1>3, <2>2
    <3>2. QED
      BY <1>3, <1>4, <2>2, <3>1
  <2>3. QED
    BY <2>1, <2>2
<1>10. QED
  BY <1>6, <1>7, <1>8, <1>9 DEF kids

(* A child that arrives keeps what its observers can tell, once the list has  *)
(* it in its place and if it came from no parent that can be watched.         *)
LEMMA ArrivingKeepsInformed ==
  ASSUME NEW d \in States, NEW n \in Children, NEW p \in Parents, NEW known, NEW parent,
         Informed(d.watch, known, parent), parent[n] \notin Elements \cup {Doc}, d.parent[n] = p,
         \A x \in Elements : x # n => d.parent[x] = parent[x],
         \A t \in Elements \cup {Doc} : n \in ToSet(ChildNodes(d, t)) <=> t = p
  PROVE  Informed(MoCallback(d, n, Null).watch, known, d.parent)
<1> DEFINE r == Record("added", n)
           watch == MoCallback(d, n, Null).watch
<1>1. n \in Nodes
  BY Kinds
<1>2. r \in Records /\ r.node = n /\ r.type = "added"
  BY <1>1 DEF Record, Records
<1>3. \A o \in Observers : watch[o] = IF Noticed(d, d.watch[o], n, Null) THEN Queue(d.watch[o], r)
                                      ELSE d.watch[o]
  BY <1>1, MoCallbackKeepsLinks
<1>4. known \in [Observers -> SUBSET Elements] /\ \A o \in Observers : Knows(d.watch[o], known[o], parent)
  BY DEF Informed
<1>5. CASE n \notin Elements
  <2>1. n \in Texts
    BY <1>5 DEF Children
  <2>2. ASSUME NEW o \in Observers PROVE Knows(d.watch[o], known[o], d.parent)
    <3>1. Knows(d.watch[o], known[o], parent)
      BY <1>4
    <3>2. {x \in Elements : parent[x] = d.watch[o].target}
            = {x \in Elements : d.parent[x] = d.watch[o].target}
      BY <1>5
    <3>3. QED
      BY <3>1, <3>2 DEF Knows
  <2>3. Informed(d.watch, known, d.parent)
    BY <1>4, <2>2 DEF Informed
  <2>4. QED
    BY <2>1, <2>3, TextKeepsInformed
<1>6. CASE n \in Elements
  <2> HIDE DEF r, watch
  <2>1. ASSUME NEW o \in Observers PROVE Knows(watch[o], known[o], d.parent)
    <3> DEFINE w == d.watch[o]
               kids == {x \in Elements : parent[x] = w.target}
               come == {x \in Elements : d.parent[x] = w.target}
               told0 == Reading(known[o], w.records)
    <3>1. w \in Watches /\ known[o] \in SUBSET Elements
      BY <1>4 DEF States
    <3>2. w.childList /\ ~w.subtree => told0 = kids /\ w.target \in Elements \cup {Doc}
      <4>1. w.childList /\ ~w.subtree => told0 = kids
        BY <1>4 DEF Knows
      <4>2. w.childList => w.target \in Elements \cup {Doc}
        BY <3>1 DEF Watches, WatchRecords
      <4>3. QED
        BY <4>1, <4>2
    <3>3. w.childList /\ ~w.subtree => (Noticed(d, w, n, Null) <=> w.target = p)
      <4>1. w.childList /\ ~w.subtree => w.target # Null
        BY <3>2, Kinds
      <4>2. QED
        BY <1>6, <3>2, <4>1 DEF Noticed
    <3>4. w.target = p => kids \cup {n} = come
      BY <1>6
    <3>5. w.target # p /\ w.target \in Elements \cup {Doc} => kids = come
      OBVIOUS
    <3>6. Noted(told0, r) = told0 \cup {n}
      <4>1. {n} \cap Elements = {n}
        BY <1>6
      <4>2. QED
        BY <1>2, <4>1 DEF Noted
    <3>7. watch[o] = IF Noticed(d, w, n, Null) THEN Queue(w, r) ELSE w
      BY <1>3
    <3>8. CASE Noticed(d, w, n, Null)
      <4>1. w.target # Null
        BY <3>8 DEF Noticed
      <4>2. w.childList /\ ~w.subtree => Noted(told0, r) = come
        BY <3>2, <3>3, <3>4, <3>6, <3>8
      <4>3. Knows(Queue(w, r), known[o], d.parent)
        <5> HIDE DEF w
        <5> QED BY <1>2, <3>1, <4>1, <4>2, KnowsQueued
      <4>4. QED
        BY <3>7, <3>8, <4>3
    <3>9. CASE ~Noticed(d, w, n, Null)
      <4>1. w.childList /\ ~w.subtree => told0 = come
        BY <3>2, <3>3, <3>5, <3>9
      <4>2. QED
        BY <3>7, <3>9, <4>1 DEF Knows
    <3>10. QED
      BY <3>8, <3>9
  <2>2. QED
    BY <1>4, <2>1 DEF Informed, watch
<1>7. QED
  BY <1>5, <1>6

LEMMA ArrivedTells ==
  ASSUME NEW d \in States, NEW n \in Children, NEW p \in Parents, Tells(d),
         d.parent[n] \notin Elements \cup {Doc},
         NEW r \in States, NEW size, NEW at, RowsOf(r, size, at), r.next = d.next, r.parent[n] = p
  PROVE  Tells(Arrived(d, n, p))
<1> DEFINE put == [d EXCEPT !.parent[n] = p]
           seen == MoCallback(put, n, Null)
<1>0. r \in States /\ RowsOf(r, size, at) /\ n \in Children
  OBVIOUS
<1>1. n \in Nodes /\ Elements \subseteq Nodes
  BY Kinds
<1>2. put \in States
  BY <1>1 DEF States
<1>3. put.next = d.next /\ put.parent = [d.parent EXCEPT ![n] = p] /\ put.watch = d.watch
  BY DEF States
<1> HIDE DEF put
<1>4. ASSUME NEW t \in Elements \cup {Doc} PROVE n \in ToSet(ChildNodes(put, t)) <=> t = p
  <2>1. t \in Parents
    BY Kinds
  <2>2. ChildNodes(put, t) = ChildNodes(r, t)
    <3>1. put.next = r.next
      BY <1>3
    <3>2. ChildNodes(put, t) = [i \in 1..(size[t] - Lead(at, t)) |-> at[t][(Lead(at, t) - 1) + i]]
      BY ONLY <1>0, <1>2, <2>1, <3>1, KidsByNext
    <3>3. ChildNodes(r, t) = [i \in 1..(size[t] - Lead(at, t)) |-> at[t][(Lead(at, t) - 1) + i]]
      BY ONLY <1>0, <2>1, KidsOf
    <3>4. QED
      BY ONLY <3>2, <3>3
  <2>3. r.parent[n] = t <=> n \in ToSet(ChildNodes(r, t))
    BY ONLY <1>0, <2>1, KidsIn
  <2>4. QED
    BY <2>2, <2>3
<1>5. put.parent[n] = p /\ \A x \in Elements : x # n => put.parent[x] = d.parent[x]
  <2>1. d.parent \in [Nodes -> Parents \cup {Null}]
    BY DEF States
  <2>2. QED
    BY <1>1, <1>3, <2>1
<1>6. Informed(put.watch, told, d.parent)
  BY <1>3 DEF Tells
<1>7. Informed(seen.watch, told, put.parent)
  BY <1>2, <1>4, <1>5, <1>6, ArrivingKeepsInformed
<1>8. seen \in States /\ SameLinks(seen, put)
  BY <1>1, <1>2, MoCallbackKeepsLinks
<1>9. Arrived(d, n, p) = Trigger(seen, n, TRUE)
  BY DEF Arrived, put
<1> HIDE DEF seen
<1>10. SameLinks(Trigger(seen, n, TRUE), seen) /\ Trigger(seen, n, TRUE).watch = seen.watch
  BY <1>8, TriggerKeepsLinks
<1>11. QED
  BY <1>7, <1>8, <1>9, <1>10 DEF SameLinks, Tells

(* A state whose links make such rows and whose observers know them.          *)
Whole(d) == d \in States /\ (\E size, at : RowsOf(d, size, at)) /\ Tells(d)

(* Only the parent of one child has changed, whatever the links.              *)
Homed(e, d, n, p) ==
  e.parent = [d.parent EXCEPT ![n] = p] /\ e.owner = d.owner /\ e.data = d.data

(* remove() keeps the links whole, whether or not the child has a parent.     *)
LEMMA RemoveNodeWhole ==
  ASSUME NEW d, Whole(d), NEW n \in Children
  PROVE  Whole(RemoveNode(d, n)) /\ Homed(RemoveNode(d, n), d, n, Null)
<1> DEFINE e == RemoveNode(d, n)
<1>1. d \in States
  BY DEF Whole
<1>2. PICK size, at : RowsOf(d, size, at)
  BY DEF Whole
<1>3. e \in States /\ Unlinked(e, d, n) /\ e.data = d.data /\ Tells(e)
  <2>1. Tells(d)
    BY DEF Whole
  <2>2. QED
    BY <1>1, <2>1, RemoveNodeUnlinks
<1>4. n \in Items /\ n \in Nodes /\ n \notin Attributes /\ Home(d, n) = d.parent[n]
  BY Kinds DEF Home
<1> HIDE DEF e
<1>5. e.parent = [d.parent EXCEPT ![n] = Null]
  BY <1>1, <1>3, <1>4 DEF Unlinked, States
<1>6. e.owner = d.owner
  BY <1>1, <1>3, <1>4 DEF Unlinked, States
<1>7. Whole(e)
  <2>1. CASE Home(d, n) = Null
    BY <1>1, <1>2, <1>3, <1>4, <2>1, UnlinkedLoose, SameLinksSameRows DEF RowsOf, Whole
  <2>2. CASE Home(d, n) # Null
    <3>1. PICK p \in Parents : \E i \in 2..(size[p] - 1) : at[p][i] = n
      BY <1>1, <1>2, <1>4, <2>2, PlaceOf
    <3>2. PICK i \in 2..(size[p] - 1) : at[p][i] = n
      BY <3>1
    <3>3. RowsOf(e, [size EXCEPT ![p] = size[p] - 1], RowWithout(at, p, i))
      BY <1>1, <1>2, <1>3, <3>2, UnlinkedRows
    <3>4. QED
      BY <1>3, <3>3 DEF Whole
  <2>3. QED
    BY <2>1, <2>2
<1>8. QED
  BY <1>3, <1>5, <1>6, <1>7 DEF e, Homed

(* Where a call inserts: in front of a child of the parent or at its end.     *)
Spot(d, parent, q) == q = End(parent) \/ (q \in Children /\ d.parent[q] = parent)

LEMMA SpotPlace ==
  ASSUME NEW d \in States, NEW size, NEW at, RowsOf(d, size, at),
         NEW p \in Parents, NEW q, Spot(d, p, q)
  PROVE  /\ \E i \in 2..size[p] : at[p][i] = q
         /\ q \in Linked /\ q \notin Attributes
<1>1. size[p] \in Nat /\ size[p] >= 2 /\ at[p][size[p]] = End(p)
  BY DEF RowsOf, Shape
<1>2. CASE q = End(p)
  <2>1. size[p] \in 2..size[p]
    BY <1>1
  <2>2. QED
    BY <1>1, <1>2, <2>1, Kinds
<1>3. CASE q \in Children /\ d.parent[q] = p
  <2>1. q \in Items /\ Home(d, q) = p /\ p # Null
    BY <1>3, Kinds DEF Home
  <2>2. \E i \in 2..(size[p] - 1) : at[p][i] = q
    BY <2>1, PlaceOf
  <2>3. QED
    BY <1>1, <1>3, <2>2, Kinds
<1>4. QED
  BY <1>2, <1>3 DEF Spot

(* insertBefore of a child that has no parent.                                *)
LEMMA InsertNodeTells ==
  ASSUME NEW d \in States, NEW parent \in Parents, NEW n \in Children, d.parent[n] = Null,
         NEW q \in Linked, n # q, Tells(d),
         NEW r \in States, NEW size, NEW at, RowsOf(r, size, at),
         r.next = InsertNode(d, parent, n, q).next, r.parent[n] = parent
  PROVE  Tells(InsertNode(d, parent, n, q))
<1> DEFINE nexts == [m \in Linked |-> IF m = GetEnd(n) THEN q
                                      ELSE IF m = d.prev[q] THEN n ELSE d.next[m]]
           prevs == [m \in Linked |-> IF m = q THEN GetEnd(n)
                                      ELSE IF m = n THEN d.prev[q] ELSE d.prev[m]]
           mid   == KnownSegment(d, d.prev[q], n, n, q)
           e     == InsertNode(d, parent, n, q)
<1>1. n \in Items /\ n \in Nodes
  BY Kinds
<1>2. mid = Relinked(d, nexts, prevs)
  BY <1>1, SegmentIs
<1>3. nexts \in [Linked -> Linked \cup {Null}] /\ prevs \in [Linked -> Linked \cup {Null}]
  BY <1>1, SegmentTypes
<1>4. e = Arrived(mid, n, parent) /\ e \in States
  BY InsertNodeLinks DEF InsertNode
<1> HIDE DEF mid
<1>5. mid \in States /\ mid.parent = d.parent /\ mid.watch = d.watch
  <2> HIDE DEF nexts, prevs
  <2> QED BY <1>2, <1>3, RelinkedIs
<1>6. e.next = mid.next
  <2> HIDE DEF e
  <2> QED BY <1>4, <1>5, ArrivedIs
<1>7. r.next = mid.next
  BY <1>6
<1>8. Tells(mid) /\ mid.parent[n] \notin Elements \cup {Doc}
  <2>1. Null \notin Elements \cup {Doc}
    BY Kinds
  <2>2. QED
    BY <1>5, <2>1 DEF Tells
<1> HIDE DEF e
<1>9. Tells(Arrived(mid, n, parent))
  BY <1>5, <1>7, <1>8, ArrivedTells
<1>10. QED
  BY <1>4, <1>9 DEF e

LEMMA InsertNodeWhole ==
  ASSUME NEW d, Whole(d), NEW parent \in Parents, NEW n \in Children, d.parent[n] = Null,
         NEW q, Spot(d, parent, q)
  PROVE  /\ Whole(InsertNode(d, parent, n, q))
         /\ Homed(InsertNode(d, parent, n, q), d, n, parent)
<1> DEFINE e == InsertNode(d, parent, n, q)
<1>1. d \in States
  BY DEF Whole
<1>2. PICK size, at : RowsOf(d, size, at)
  BY DEF Whole
<1>3. PICK i \in 2..size[parent] : at[parent][i] = q
  BY <1>1, <1>2, SpotPlace
<1>4. q \in Linked /\ q \notin Attributes
  BY <1>1, <1>2, SpotPlace
<1>5. n # q /\ n \in Items /\ n \in Nodes /\ n \notin Attributes /\ Home(d, n) = Null
  BY Kinds DEF Home, Spot
<1>6. e \in States /\ LinkedIn(e, d, n, q, parent) /\ e.data = d.data
  BY <1>1, <1>4, <1>5, InsertNodeLinks
<1> HIDE DEF e
<1>7. e.parent = [d.parent EXCEPT ![n] = parent]
  BY <1>1, <1>5, <1>6 DEF LinkedIn, States
<1>8. e.owner = d.owner
  BY <1>1, <1>5, <1>6 DEF LinkedIn, States
<1>9. RowsOf(e, [size EXCEPT ![parent] = size[parent] + 1], RowWith(at, parent, i, n))
  BY <1>1, <1>2, <1>3, <1>4, <1>5, <1>6, LinkedInRows
<1>10. Tells(e)
  <2>1. Tells(d)
    BY DEF Whole
  <2>2. e.parent[n] = parent
    <3>1. d.parent \in [Nodes -> Parents \cup {Null}]
      BY <1>1 DEF States
    <3>2. QED
      BY <1>5, <1>7, <3>1
  <2>3. QED
    BY <1>1, <1>4, <1>5, <1>6, <1>9, <2>1, <2>2, InsertNodeTells DEF e
<1>11. QED
  BY <1>6, <1>7, <1>8, <1>9, <1>10 DEF Whole, Homed, e

(* insertBefore of a child, which leaves the place it had.                    *)
LEMMA MoveWhole ==
  ASSUME NEW d, Whole(d), NEW parent \in Parents, NEW n \in Children,
         NEW q, Spot(d, parent, q), n # q
  PROVE  /\ Whole(InsertNode(RemoveNode(d, n), parent, n, q))
         /\ Homed(InsertNode(RemoveNode(d, n), parent, n, q), d, n, parent)
<1> DEFINE off == RemoveNode(d, n)
<1>1. n \in Nodes /\ d.parent \in [Nodes -> Parents \cup {Null}]
  BY Kinds DEF Whole, States
<1>2. Whole(off) /\ Homed(off, d, n, Null)
  BY RemoveNodeWhole
<1> HIDE DEF off
<1>3. off.parent[n] = Null
  BY <1>1, <1>2 DEF Homed
<1>4. Spot(off, parent, q)
  BY <1>1, <1>2, Kinds DEF Spot, Homed
<1>5. /\ Whole(InsertNode(off, parent, n, q))
      /\ Homed(InsertNode(off, parent, n, q), off, n, parent)
  BY <1>2, <1>3, <1>4, InsertNodeWhole
<1>6. ASSUME NEW e, Homed(e, off, n, parent) PROVE Homed(e, d, n, parent)
  BY <1>1, <1>2, <1>6 DEF Homed
<1>7. QED
  BY <1>5, <1>6 DEF off

-----------------------------------------------------------------------------
(* insertBefore of a child.                                                   *)
Position(parent, before) == IF before = Null THEN End(parent) ELSE before

LEMMA InsertBeforeIs ==
  ASSUME NEW d, NEW parent \in Parents, NEW n \in Children, NEW before \in Children \cup {Null}
  PROVE  /\ InsertBefore(d, parent, n, before) =
              IF n = before THEN d
              ELSE InsertNode(RemoveNode(d, n), parent, n, Position(parent, before))
         /\ n = Position(parent, before) <=> n = before
         /\ Position(parent, before) \in Linked
<1>1. n \notin Fragments /\ n # End(parent) /\ n # Null
  BY Kinds
<1>2. n = Position(parent, before) <=> n = before
  BY <1>1 DEF Position
<1>3. Position(parent, before) \in Linked
  BY Kinds DEF Position
<1>4. InsertBefore(d, parent, n, before) = InsertInFront(d, parent, n, Position(parent, before))
  BY DEF InsertBefore, Position
<1>5. QED
  BY <1>1, <1>2, <1>3, <1>4 DEF InsertInFront

LEMMA InsertBeforeTyped ==
  ASSUME NEW d \in States, NEW parent \in Parents, NEW n \in Children,
         NEW before \in Children \cup {Null}
  PROVE  InsertBefore(d, parent, n, before) \in States
BY InsertBeforeIs, RemoveNodeUnlinks, InsertNodeLinks

LEMMA InsertBeforeWhole ==
  ASSUME NEW d, Whole(d), NEW parent \in Parents, NEW n \in Children,
         NEW before \in Children \cup {Null}, before # Null => d.parent[before] = parent
  PROVE  /\ Whole(InsertBefore(d, parent, n, before))
         /\ n # before => Homed(InsertBefore(d, parent, n, before), d, n, parent)
         /\ n = before => InsertBefore(d, parent, n, before) = d
<1>1. Spot(d, parent, Position(parent, before))
  BY DEF Spot, Position
<1>2. QED
  BY <1>1, InsertBeforeIs, MoveWhole

(* The steps of InsertEach.                                                   *)
LEMMA InsertEachSteps ==
  ASSUME NEW d \in States, NEW parent \in Parents, NEW nodes \in Seq(Children),
         NEW before \in Children \cup {Null}
  PROVE  \E step : /\ step[0] = d
                   /\ step[Len(nodes)] = InsertEach(d, parent, nodes, before)
                   /\ \A k \in 1..Len(nodes) :
                        step[k] = InsertBefore(step[k - 1], parent, nodes[k], before)
<1> DEFINE n == Len(nodes)
           F(iter) == [s \in SUBSET DOMAIN nodes |->
                         IF s = {} THEN d
                         ELSE InsertBefore(iter[s \ {Max(s)}], parent, nodes[Max(s)], before)]
           each == CHOOSE iter : iter = F(iter)
           step == [k \in 1..n |-> [x \in States |-> InsertBefore(x, parent, nodes[k], before)]]
<1>1. n \in Nat /\ DOMAIN nodes = 1..n /\ \A k \in 1..n : nodes[k] \in Children
  OBVIOUS
<1>2. InsertEach(d, parent, nodes, before) = each[1..n]
  BY <1>1 DEF InsertEach, FoldLeft, MapThenFoldSet
<1>3. step \in [1..n -> [States -> States]]
  BY <1>1, InsertBeforeTyped
<1>4. PICK f \in [SUBSET (1..n) -> States] : Folding(f, d, n, step)
  <2> HIDE DEF step, n
  <2>1. n \in Nat /\ d \in States
    BY <1>1
  <2>2. QED
    BY ONLY <1>3, <2>1, FoldExists
<1>5. f = F(f)
  <2>1. ASSUME NEW s \in SUBSET (1..n), s # {}
        PROVE  f[s] = InsertBefore(f[s \ {Max(s)}], parent, nodes[Max(s)], before)
    <3>1. Max(s) \in 1..n
      BY <1>1, <2>1, MaxIn
    <3>2. f[s \ {Max(s)}] \in States
      OBVIOUS
    <3>3. QED
      BY <1>4, <2>1, <3>1, <3>2 DEF Folding
  <2>2. QED
    BY <1>1, <1>4, <2>1 DEF Folding
<1>6. each = F(each)
  <2> HIDE DEF F
  <2> QED BY <1>5
<1> DEFINE body == [s \in SUBSET (1..n) |->
                      InsertBefore(each[s \ {Max(s)}], parent, nodes[Max(s)], before)]
<1>7. Unfolding(each, d, n, body)
  <2> HIDE DEF each
  <2> QED BY <1>1, <1>6 DEF Unfolding
<1> HIDE DEF each
<1>8. UnfoldedBy(each, d, n, body)
  <2> HIDE DEF body
  <2> QED BY <1>1, <1>7, FoldSteps
<1>9. \A k \in 1..n : each[1..k] = InsertBefore(each[1..(k - 1)], parent, nodes[k], before)
  <2>1. TAKE k \in 1..n
  <2>2. 1..k \in SUBSET (1..n)
    OBVIOUS
  <2>3. body[1..k] = InsertBefore(each[(1..k) \ {Max(1..k)}], parent, nodes[Max(1..k)], before)
    BY <2>2
  <2> HIDE DEF body
  <2>4. QED
    BY <1>8, <2>3 DEF UnfoldedBy
<1> DEFINE along == [k \in Nat |-> each[1..k]]
<1>10. /\ along[0] = d
       /\ along[n] = InsertEach(d, parent, nodes, before)
       /\ \A k \in 1..n : along[k] = InsertBefore(along[k - 1], parent, nodes[k], before)
  BY <1>1, <1>2, <1>8, <1>9 DEF UnfoldedBy
<1>11. QED
  <2> HIDE DEF along
  <2> QED BY <1>10

(* A call that moves some children leaves the rest where it was.              *)
MovedOnly(e, d, moved) ==
  /\ Whole(e)
  /\ e.data = d.data
  /\ \A m \in Children : m \notin moved => e.parent[m] = d.parent[m]

LEMMA HomedMovedOnly ==
  ASSUME NEW d, NEW c, NEW e, NEW moved, MovedOnly(c, d, moved), NEW n \in Children, n \in moved,
         NEW p, Whole(e), Homed(e, c, n, p)
  PROVE  MovedOnly(e, d, moved)
<1>1. c.parent \in [Nodes -> Parents \cup {Null}] /\ Children \subseteq Nodes
  BY Kinds DEF MovedOnly, Whole, States
<1>2. \A m \in Children : m \notin moved => e.parent[m] = c.parent[m]
  BY <1>1 DEF Homed
<1>3. e.data = c.data
  BY DEF Homed
<1>4. QED
  BY <1>2, <1>3 DEF MovedOnly

(* append, prepend and the first half of before, after and replaceWith.       *)
LEMMA InsertEachWhole ==
  ASSUME NEW d, Whole(d), NEW parent \in Parents, NEW nodes \in Seq(Children),
         NEW before \in Children \cup {Null},
         before # Null => d.parent[before] = parent /\ \A i \in DOMAIN nodes : nodes[i] # before
  PROVE  MovedOnly(InsertEach(d, parent, nodes, before), d, {nodes[i] : i \in DOMAIN nodes})
<1> DEFINE moved == {nodes[i] : i \in DOMAIN nodes}
           reached == {x \in States : MovedOnly(x, d, moved)}
<1>1. d \in States /\ d \in reached
  BY DEF Whole, MovedOnly
<1>2. Len(nodes) \in Nat /\ DOMAIN nodes = 1..Len(nodes)
  OBVIOUS
<1>3. PICK step : /\ step[0] = d
                  /\ step[Len(nodes)] = InsertEach(d, parent, nodes, before)
                  /\ \A k \in 1..Len(nodes) :
                       step[k] = InsertBefore(step[k - 1], parent, nodes[k], before)
  BY <1>1, InsertEachSteps
<1>4. ASSUME NEW k \in 1..Len(nodes), step[k - 1] \in reached
      PROVE  step[k] \in reached
  <2> DEFINE c == step[k - 1]
             e == InsertBefore(c, parent, nodes[k], before)
  <2>1. nodes[k] \in Children /\ nodes[k] \in moved /\ k \in DOMAIN nodes
    BY <1>2
  <2>2. before # Null => c.parent[before] = parent /\ nodes[k] # before
    BY <1>4, <2>1 DEF MovedOnly
  <2>3. nodes[k] # before
    BY <2>1, <2>2, Kinds
  <2>4. step[k] = e
    BY <1>3
  <2>5. Whole(c) /\ MovedOnly(c, d, moved)
    BY <1>4 DEF MovedOnly
  <2> HIDE DEF c, moved
  <2>6. Whole(e) /\ Homed(e, c, nodes[k], parent)
    BY <2>1, <2>2, <2>3, <2>5, InsertBeforeWhole
  <2> HIDE DEF e
  <2>7. MovedOnly(e, d, moved)
    BY <2>1, <2>5, <2>6, HomedMovedOnly
  <2>8. QED
    BY <2>4, <2>6, <2>7 DEF Whole
<1>5. step[Len(nodes)] \in reached
  <2> HIDE DEF reached
  <2> QED BY <1>1, <1>2, <1>3, <1>4, StepsKeep
<1>6. QED
  BY <1>3, <1>5

(* What follows a child is its next sibling or the end of its parent.         *)
LEMMA NextIsSpot ==
  ASSUME NEW d, Whole(d), NEW n \in Children, NEW p \in Parents, d.parent[n] = p
  PROVE  Spot(d, p, d.next[GetEnd(n)]) /\ d.next[GetEnd(n)] # n
<1>1. d \in States
  BY DEF Whole
<1>2. PICK size, at : RowsOf(d, size, at)
  BY DEF Whole
<1>3. Shape(size, at) /\ Contents(d, size, at) /\ LinksFollow(d, size, at)
  BY <1>2 DEF RowsOf
<1>4. n \in Items /\ Home(d, n) = p /\ p # Null
  BY Kinds DEF Home
<1>5. PICK i \in 2..(size[p] - 1) : at[p][i] = n
  BY <1>1, <1>2, <1>4, PlaceOf
<1>6. size[p] \in Nat /\ at[p][size[p]] = End(p) /\ i \in 1..(size[p] - 1) /\ i \in 2..size[p]
      /\ i + 1 \in 2..size[p] /\ i + 1 # i /\ i + 1 # 2
  BY <1>3 DEF Shape
<1>7. Out(at, p, i) = GetEnd(n)
  BY <1>5 DEF Out
<1>8. d.next[GetEnd(n)] = at[p][i + 1]
  BY <1>3, <1>6, <1>7 DEF LinksFollow
<1>9. at[p][i + 1] # n
  BY <1>3, <1>5, <1>6, Places
<1>10. CASE i + 1 = size[p]
  BY <1>6, <1>8, <1>9, <1>10 DEF Spot
<1>11. CASE i + 1 # size[p]
  <2>1. i + 1 \in 2..(size[p] - 1)
    BY <1>6, <1>11
  <2>2. at[p][i + 1] \in Items /\ at[p][i + 1] \notin Attributes /\ Home(d, at[p][i + 1]) = p
    BY <1>3, <1>6, <2>1 DEF Contents
  <2>3. at[p][i + 1] \in Children /\ d.parent[at[p][i + 1]] = p
    BY <2>2 DEF Items, Home
  <2>4. QED
    BY <1>8, <1>9, <2>3 DEF Spot
<1>12. QED
  BY <1>10, <1>11

-----------------------------------------------------------------------------
(* The content of a fragment takes a place in another row.                    *)
RowFilled(at, p, i, f, m) ==
  [at EXCEPT ![f] = [j \in Nat |-> IF j = 1 THEN f ELSE End(f)],
             ![p] = [j \in Nat |-> IF j < i THEN at[p][j]
                                   ELSE IF j < i + m THEN at[f][(j - i) + 2] ELSE at[p][j - m]]]

SizeFilled(size, p, f, m) == [size EXCEPT ![f] = 2, ![p] = size[p] + m]

LEMMA RowFilledIs ==
  ASSUME NEW size, NEW at, Shape(size, at), NEW p \in Parents, NEW i \in 2..size[p],
         NEW f \in Parents, f # p, NEW m \in Nat, m = size[f] - 2
  PROVE  /\ Shape(SizeFilled(size, p, f, m), RowFilled(at, p, i, f, m))
         /\ \A r \in Parents : r # p /\ r # f =>
              RowFilled(at, p, i, f, m)[r] = at[r] /\ SizeFilled(size, p, f, m)[r] = size[r]
         /\ \A j \in Nat : RowFilled(at, p, i, f, m)[p][j] =
                             IF j < i THEN at[p][j]
                             ELSE IF j < i + m THEN at[f][(j - i) + 2] ELSE at[p][j - m]
         /\ \A j \in Nat : RowFilled(at, p, i, f, m)[f][j] = IF j = 1 THEN f ELSE End(f)
         /\ SizeFilled(size, p, f, m)[p] = size[p] + m /\ SizeFilled(size, p, f, m)[f] = 2
<1> DEFINE row   == [j \in Nat |-> IF j < i THEN at[p][j]
                                   ELSE IF j < i + m THEN at[f][(j - i) + 2] ELSE at[p][j - m]]
           empty == [j \in Nat |-> IF j = 1 THEN f ELSE End(f)]
           bt == RowFilled(at, p, i, f, m)
           bs == SizeFilled(size, p, f, m)
<1>1. /\ size \in [Parents -> Nat \ {0, 1}] /\ at \in [Parents -> [Nat -> Linked]]
      /\ \A q \in Parents : at[q][1] = q /\ at[q][size[q]] = End(q)
  BY DEF Shape
<1>2. /\ size[p] \in Nat /\ size[p] >= 2 /\ at[p] \in [Nat -> Linked]
      /\ i \in Nat /\ i >= 2 /\ i <= size[p] /\ at[f] \in [Nat -> Linked]
  BY <1>1
<1>3. row \in [Nat -> Linked]
  <2>1. ASSUME NEW j \in Nat PROVE row[j] \in Linked
    <3>1. CASE j < i
      BY <1>2, <3>1
    <3>2. CASE ~(j < i) /\ j < i + m
      <4>1. (j - i) + 2 \in Nat
        BY <1>2, <3>2
      <4>2. QED
        BY <1>2, <3>2, <4>1
    <3>3. CASE ~(j < i) /\ ~(j < i + m)
      <4>1. j - m \in Nat
        BY <1>2, <3>3
      <4>2. QED
        BY <1>2, <3>3, <4>1
    <3>4. QED
      BY <3>1, <3>2, <3>3
  <2>2. QED
    BY <2>1
<1>4. empty \in [Nat -> Linked]
  <2>1. f \in Linked /\ End(f) \in Linked
    BY Kinds
  <2>2. QED
    BY <2>1
<1>5. /\ \A j \in Nat : row[j] = IF j < i THEN at[p][j]
                                 ELSE IF j < i + m THEN at[f][(j - i) + 2] ELSE at[p][j - m]
      /\ \A j \in Nat : empty[j] = IF j = 1 THEN f ELSE End(f)
  OBVIOUS
<1>6. bt = [[at EXCEPT ![f] = empty] EXCEPT ![p] = row]
  BY DEF RowFilled
<1> HIDE DEF row, empty
<1>7. /\ bt \in [Parents -> [Nat -> Linked]] /\ bt[p] = row /\ bt[f] = empty
      /\ \A r \in Parents : r # p /\ r # f => bt[r] = at[r]
  <2> DEFINE mid == [at EXCEPT ![f] = empty]
  <2>1. /\ mid \in [Parents -> [Nat -> Linked]] /\ mid[f] = empty
        /\ \A r \in Parents : r # f => mid[r] = at[r]
    BY <1>1, <1>4
  <2>2. bt = [mid EXCEPT ![p] = row]
    BY <1>6
  <2> HIDE DEF mid, bt
  <2>3. QED
    BY <1>3, <2>1, <2>2
<1>8. /\ bs \in [Parents -> Nat \ {0, 1}] /\ bs[p] = size[p] + m /\ bs[f] = 2
      /\ \A r \in Parents : r # p /\ r # f => bs[r] = size[r]
  BY <1>1, <1>2 DEF SizeFilled
<1> HIDE DEF bt, bs
<1>9. ASSUME NEW r \in Parents PROVE bt[r][1] = r /\ bt[r][bs[r]] = End(r)
  <2>1. CASE r = p
    <3>1. row[1] = p
      BY <1>1, <1>2, <1>5
    <3>2. row[size[p] + m] = End(p)
      <4>1. size[p] + m \in Nat /\ ~(size[p] + m < i + m) /\ ~(size[p] + m < i) /\ (size[p] + m) - m = size[p]
        BY <1>2
      <4>2. QED
        BY <1>1, <1>5, <4>1
    <3>3. QED
      BY <2>1, <3>1, <3>2, <1>7, <1>8
  <2>2. CASE r = f
    BY <2>2, <1>5, <1>7, <1>8
  <2>3. CASE r # p /\ r # f
    BY <2>3, <1>1, <1>7, <1>8
  <2>4. QED
    BY <2>1, <2>2, <2>3
<1>10. Shape(bs, bt)
  BY <1>7, <1>8, <1>9 DEF Shape
<1>11. QED
  BY <1>5, <1>7, <1>8, <1>10 DEF bt, bs

(* How a fragment's content goes in front of q below p.                       *)
FragmentIn(e, d, f, p, q) ==
  LET first == d.next[f]
      out   == d.prev[End(f)]
  IN  /\ e.next = [x \in Linked |-> IF x = out THEN q ELSE IF x = d.prev[q] THEN first
                                    ELSE IF x = f THEN End(f) ELSE d.next[x]]
      /\ e.prev = [x \in Linked |-> IF x = q THEN out ELSE IF x = first THEN d.prev[q]
                                    ELSE IF x = End(f) THEN f ELSE d.prev[x]]
      /\ e.parent = [n \in Nodes |-> IF d.parent[n] = f THEN p ELSE d.parent[n]]
      /\ e.owner = d.owner

LEMMA FragmentInRows ==
  ASSUME NEW d \in States, NEW e \in States, NEW size, NEW at, RowsOf(d, size, at),
         NEW p \in Parents, NEW i \in 2..size[p], at[p][i] \notin Attributes,
         NEW f \in Fragments, f # p, NEW m \in Nat, m = size[f] - 2, m > 0,
         FragmentIn(e, d, f, p, at[p][i])
  PROVE  RowsOf(e, SizeFilled(size, p, f, m), RowFilled(at, p, i, f, m))
<1> DEFINE q0 == at[p][i]
           bt == RowFilled(at, p, i, f, m)
           bs == SizeFilled(size, p, f, m)
<1>1. Shape(size, at) /\ Contents(d, size, at) /\ LinksFollow(d, size, at) /\ Loose(d)
  BY DEF RowsOf
<1>2. \A q \in Parents : size[q] \in Nat /\ size[q] >= 2 /\ at[q][1] = q /\ at[q][size[q]] = End(q)
  BY <1>1 DEF Shape
<1>3. /\ size[p] \in Nat /\ i \in Nat /\ i >= 2 /\ i <= size[p]
      /\ f \in Parents /\ size[f] = m + 2 /\ f \notin Elements
  <2>1. f \in Parents /\ f \notin Elements
    BY Kinds
  <2>2. QED
    BY <1>2, <2>1
<1>31. f \in Parents
  BY <1>3
<1>32. m \in Nat /\ m > 0 /\ size[p] \in Nat /\ i \in Nat /\ i >= 2 /\ i <= size[p]
  BY <1>3
<1>4. q0 \in Linked /\ Null \notin Linked /\ f \in Linked /\ End(f) \in Linked
  BY <1>1, <1>3, Kinds DEF Shape
<1>5. /\ Shape(bs, bt)
      /\ \A r \in Parents : r # p /\ r # f => bt[r] = at[r] /\ bs[r] = size[r]
      /\ \A j \in Nat : bt[p][j] = IF j < i THEN at[p][j]
                                   ELSE IF j < i + m THEN at[f][(j - i) + 2] ELSE at[p][j - m]
      /\ \A j \in Nat : bt[f][j] = IF j = 1 THEN f ELSE End(f)
      /\ bs[p] = size[p] + m /\ bs[f] = 2
  <2>1. Shape(size, at) /\ f \in Parents
    BY <1>1, <1>3
  <2>2. Shape(bs, bt)
    BY <2>1, RowFilledIs
  <2>3. \A r \in Parents : r # p /\ r # f => bt[r] = at[r] /\ bs[r] = size[r]
    BY <2>1, RowFilledIs
  <2>4. \A j \in Nat : bt[p][j] = IF j < i THEN at[p][j]
                                   ELSE IF j < i + m THEN at[f][(j - i) + 2] ELSE at[p][j - m]
    BY <2>1, RowFilledIs
  <2>5. \A j \in Nat : bt[f][j] = IF j = 1 THEN f ELSE End(f)
    BY <2>1, RowFilledIs
  <2>6. bs[p] = size[p] + m /\ bs[f] = 2
    BY <2>1, RowFilledIs
  <2> HIDE DEF bt, bs
  <2>7. QED
    BY <2>2, <2>3, <2>4, <2>5, <2>6
<1>6. /\ \A q, r \in Parents : \A j \in 1..(size[q] - 1), k \in 1..(size[r] - 1) :
           Out(at, q, j) = Out(at, r, k) => q = r /\ j = k
      /\ \A q, r \in Parents : \A j \in 2..size[q], k \in 2..size[r] :
           at[q][j] = at[r][k] => q = r /\ j = k
      /\ \A q \in Parents : \A j \in 1..(size[q] - 1) : Out(at, q, j) \in Linked
  BY <1>1, Places
<1>7. /\ i - 1 \in 1..(size[p] - 1) /\ 1 \in 1..(size[f] - 1) /\ m + 1 \in 1..(size[f] - 1)
      /\ i \in 2..size[p] /\ 2 \in 2..size[f] /\ m + 2 \in 2..size[f] /\ m + 1 # 1
      /\ (i - 1) + 1 = i /\ 1 + 1 = 2 /\ (m + 1) + 1 = m + 2
  BY <1>3
<1>8. /\ d.prev[q0] = Out(at, p, i - 1) /\ d.next[f] = at[f][2] /\ d.prev[End(f)] = Out(at, f, m + 1)
      /\ Out(at, f, 1) = f /\ at[f][m + 2] = End(f)
  <2>1. Out(at, f, 1) = f /\ at[f][m + 2] = End(f)
    BY <1>2, <1>3 DEF Out
  <2>2. d.prev[at[p][(i - 1) + 1]] = Out(at, p, i - 1)
    BY <1>1, <1>7 DEF LinksFollow
  <2>3. d.next[Out(at, f, 1)] = at[f][1 + 1] /\ d.prev[at[f][(m + 1) + 1]] = Out(at, f, m + 1)
    BY <1>1, <1>3, <1>7 DEF LinksFollow
  <2>4. QED
    BY <1>7, <2>1, <2>2, <2>3
<1>9. /\ \A x \in Linked : e.next[x] = IF x = Out(at, f, m + 1) THEN q0
                                       ELSE IF x = Out(at, p, i - 1) THEN at[f][2]
                                       ELSE IF x = f THEN End(f) ELSE d.next[x]
      /\ \A x \in Linked : e.prev[x] = IF x = q0 THEN Out(at, f, m + 1)
                                       ELSE IF x = at[f][2] THEN Out(at, p, i - 1)
                                       ELSE IF x = End(f) THEN f ELSE d.prev[x]
      /\ \A n \in Nodes : e.parent[n] = IF d.parent[n] = f THEN p ELSE d.parent[n]
      /\ e.owner = d.owner
  BY <1>8 DEF FragmentIn
<1>10. \A x \in Items : Home(e, x) = IF Home(d, x) = f THEN p ELSE Home(d, x)
  <2>1. \A a \in Attributes : d.owner[a] # f
    BY <1>3, <1>4 DEF States
  <2>2. QED
    BY <1>9, <2>1, Kinds DEF Home
<1>11. p # Null /\ f # Null
  BY <1>3, Kinds
<1> HIDE DEF q0, bt, bs
(* The step from place k of row r is not one of the three that were relinked. *)
<1> DEFINE Same(r, k) == /\ k \in 1..(size[r] - 1)
                         /\ ~(r = p /\ k = i - 1) /\ ~(r = f /\ k = 1) /\ ~(r = f /\ k = m + 1)
<1>12. ASSUME NEW r \in Parents, NEW k \in Nat, Same(r, k)
       PROVE  e.next[Out(at, r, k)] = at[r][k + 1] /\ e.prev[at[r][k + 1]] = Out(at, r, k)
  <2>1. k \in 1..(size[r] - 1) /\ k + 1 \in 2..size[r] /\ k \in Nat /\ Out(at, r, k) \in Linked
    BY <1>2, <1>6, <1>12
  <2>2. /\ Out(at, r, k) # Out(at, f, m + 1) /\ Out(at, r, k) # Out(at, p, i - 1)
        /\ Out(at, r, k) # f
    <3>1. Out(at, r, k) # Out(at, f, m + 1)
      BY <1>31, <1>6, <1>7, <1>12, <2>1
    <3>2. Out(at, r, k) # Out(at, p, i - 1)
      BY <1>31, <1>6, <1>7, <1>12, <2>1
    <3>3. Out(at, r, k) # Out(at, f, 1)
      BY <1>31, <1>6, <1>7, <1>12, <2>1
    <3>4. QED
      BY <1>8, <3>1, <3>2, <3>3
  <2>3. at[r][k + 1] \in Linked
    BY <1>1 DEF Shape
  <2>4. /\ at[r][k + 1] # q0 /\ at[r][k + 1] # at[f][2] /\ at[r][k + 1] # End(f)
    <3>1. /\ (r = p => k + 1 # i) /\ (r = f => k + 1 # 2) /\ (r = f => k + 1 # m + 2)
      BY <1>3, <1>12, <2>1
    <3>2. QED
      <4>1. at[r][k + 1] # at[p][i]
        BY <1>6, <1>7, <2>1, <3>1
      <4>2. at[r][k + 1] # at[f][2]
        BY <1>31, <1>6, <1>7, <2>1, <3>1
      <4>3. at[r][k + 1] # at[f][m + 2]
        BY <1>31, <1>6, <1>7, <2>1, <3>1
      <4>4. QED
        BY <1>8, <4>1, <4>2, <4>3 DEF q0
  <2>5. d.next[Out(at, r, k)] = at[r][k + 1] /\ d.prev[at[r][k + 1]] = Out(at, r, k)
    BY <1>1, <2>1 DEF LinksFollow
  <2>6. QED
    BY <1>9, <2>1, <2>2, <2>3, <2>4, <2>5
<1> HIDE DEF Same
(* What stands in the row of p: what is before the spot, the content, the rest. *)
<1>13. ASSUME NEW j \in 2..(bs[p] - 1)
       PROVE  \/ j < i /\ j \in 2..(size[p] - 1) /\ bt[p][j] = at[p][j]
              \/ /\ j >= i /\ j < i + m /\ (j - i) + 2 \in 2..(size[f] - 1)
                 /\ bt[p][j] = at[f][(j - i) + 2]
              \/ j >= i + m /\ j - m \in i..(size[p] - 1) /\ bt[p][j] = at[p][j - m]
  <2>0. j \in 2..((size[p] + m) - 1)
    BY <1>5
  <2>1. j \in Nat /\ j >= 2 /\ j <= (size[p] + m) - 1
    BY ONLY <1>32, <2>0
  <2>2. CASE j < i
    BY <1>3, <1>5, <2>1, <2>2
  <2>3. CASE ~(j < i) /\ j < i + m
    <3>1. bt[p][j] = at[f][(j - i) + 2]
      BY <1>5, <2>1, <2>3
    <3>2. (j - i) + 2 \in 2..(size[f] - 1) /\ j >= i
      BY <1>3, <2>1, <2>3
    <3>3. QED
      BY <2>3, <3>1, <3>2
  <2>4. CASE ~(j < i) /\ ~(j < i + m)
    <3>1. bt[p][j] = at[p][j - m]
      BY <1>5, <2>1, <2>4
    <3>2. j - m \in i..(size[p] - 1) /\ j >= i + m
      BY <1>3, <2>1, <2>4
    <3>3. QED
      BY <2>4, <3>1, <3>2
  <2>5. QED
    BY <2>2, <2>3, <2>4
<1>14. \A r \in Parents : \A j \in 2..(size[r] - 1) :
         /\ at[r][j] \in Items /\ Home(d, at[r][j]) = r
         /\ at[r][j] \in Attributes => j = 2
  BY <1>1 DEF Contents
<1>15. \A j \in 2..(size[f] - 1) : at[f][j] \notin Attributes
  <2>1. TAKE j \in 2..(size[f] - 1)
  <2>2. Home(d, at[f][j]) = f
    BY <1>14, <1>31
  <2>3. \A a \in Attributes : Home(d, a) # f
    BY <1>3, <1>11 DEF Home, States
  <2>4. QED
    BY <2>2, <2>3
<1>16. Contents(e, bs, bt)
  <2>1. ASSUME NEW r \in Parents, NEW j \in 2..(bs[r] - 1)
        PROVE  /\ bt[r][j] \in Items
               /\ Home(e, bt[r][j]) = r
               /\ bt[r][j] \in Attributes => j = 2
    <3>1. CASE r # p /\ r # f
      <4>1. j \in 2..(size[r] - 1) /\ bt[r][j] = at[r][j]
        BY <1>5, <3>1
      <4>2. QED
        BY <1>10, <1>14, <3>1, <4>1
    <3>2. CASE r = f
      BY <1>5, <3>2
    <3>3. CASE r = p
      <4>1. CASE j < i /\ j \in 2..(size[p] - 1) /\ bt[p][j] = at[p][j]
        BY <1>10, <1>14, <3>3, <4>1
      <4>2. CASE (j - i) + 2 \in 2..(size[f] - 1) /\ bt[p][j] = at[f][(j - i) + 2]
        <5>1. /\ at[f][(j - i) + 2] \in Items /\ Home(d, at[f][(j - i) + 2]) = f
              /\ at[f][(j - i) + 2] \notin Attributes
          BY <1>14, <1>15, <1>31, <4>2
        <5>2. QED
          BY <1>10, <3>3, <4>2, <5>1
      <4>3. CASE j - m \in i..(size[p] - 1) /\ bt[p][j] = at[p][j - m]
        <5>1. j - m \in 2..(size[p] - 1)
          BY <1>3, <4>3
        <5>2. at[p][j - m] \in Items /\ Home(d, at[p][j - m]) = p
          BY <1>14, <5>1
        <5>3. at[p][j - m] \notin Attributes
          <6>1. CASE j - m = i
            BY <6>1
          <6>2. CASE j - m # i
            <7>1. j - m # 2
              BY <1>3, <4>3, <6>2
            <7>2. QED
              BY <1>14, <5>1, <7>1
          <6>3. QED
            BY <6>1, <6>2
        <5>4. QED
          BY <1>10, <3>3, <4>3, <5>2, <5>3
      <4>4. QED
        BY <1>13, <3>3, <4>1, <4>2, <4>3
    <3>4. QED
      BY <3>1, <3>2, <3>3
  <2>2. ASSUME NEW r \in Parents, NEW j \in 2..(bs[r] - 1), NEW k \in 2..(bs[r] - 1),
               bt[r][j] = bt[r][k]
        PROVE  j = k
    <3>1. CASE r # p /\ r # f
      <4>1. /\ j \in 2..(size[r] - 1) /\ bt[r][j] = at[r][j]
            /\ k \in 2..(size[r] - 1) /\ bt[r][k] = at[r][k]
        BY <1>5, <3>1
      <4>2. QED
        <5>1. at[r][j] = at[r][k]
          BY <2>2, <4>1
        <5>2. \A a, b \in 2..(size[r] - 1) : at[r][a] = at[r][b] => a = b
          BY <1>1 DEF Contents
        <5>3. QED
          BY <4>1, <5>1, <5>2
    <3>2. CASE r = f
      BY <1>5, <3>2
    <3>3. CASE r = p
      <4> DEFINE Place(l) == IF l < i THEN l ELSE IF l < i + m THEN (l - i) + 2 ELSE l - m
                 row(l) == IF l < i THEN p ELSE IF l < i + m THEN f ELSE p
      <4>1. ASSUME NEW l \in 2..(bs[p] - 1)
            PROVE  /\ row(l) \in Parents /\ Place(l) \in 2..size[row(l)] /\ bt[p][l] = at[row(l)][Place(l)]
                   /\ l \in Nat
        <5>1. CASE l < i /\ l \in 2..(size[p] - 1) /\ bt[p][l] = at[p][l]
          BY <1>3, <5>1
        <5>2. CASE /\ l >= i /\ l < i + m /\ (l - i) + 2 \in 2..(size[f] - 1)
                   /\ bt[p][l] = at[f][(l - i) + 2]
          <6>1. l \in Nat /\ ~(l < i)
            BY <1>3, <5>2
          <6>2. row(l) = f /\ Place(l) = (l - i) + 2
            BY <5>2, <6>1
          <6>3. (l - i) + 2 \in 2..size[f]
            BY <1>3, <5>2
          <6> HIDE DEF row, Place
          <6>4. QED
            BY <1>31, <5>2, <6>1, <6>2, <6>3
        <5>3. CASE l >= i + m /\ l - m \in i..(size[p] - 1) /\ bt[p][l] = at[p][l - m]
          <6>1. l \in Nat /\ ~(l < i) /\ ~(l < i + m)
            BY <1>3, <5>3
          <6>2. row(l) = p /\ Place(l) = l - m
            BY <6>1
          <6>3. l - m \in 2..size[p]
            BY <1>3, <5>3
          <6> HIDE DEF row, Place
          <6>4. QED
            BY <5>3, <6>1, <6>2, <6>3
        <5>4. QED
          BY <1>13, <5>1, <5>2, <5>3
      <4>2. /\ row(j) \in Parents /\ Place(j) \in 2..size[row(j)] /\ bt[p][j] = at[row(j)][Place(j)]
            /\ row(k) \in Parents /\ Place(k) \in 2..size[row(k)] /\ bt[p][k] = at[row(k)][Place(k)]
            /\ j \in Nat /\ k \in Nat
        <5> HIDE DEF row, Place
        <5> QED BY <4>1, <3>3
      <4>3. row(j) = row(k) /\ Place(j) = Place(k)
        <5> HIDE DEF row, Place
        <5> QED BY <1>6, <2>2, <3>3, <4>2
      <4>4. QED
        BY <1>3, <4>2, <4>3
    <3>4. QED
      BY <3>1, <3>2, <3>3
  <2>3. ASSUME NEW x \in Items, Home(e, x) # Null
        PROVE  \E j \in 2..(bs[Home(e, x)] - 1) : bt[Home(e, x)][j] = x
    <3> DEFINE r == Home(d, x)
    <3>1. r # Null
      BY <1>10, <1>11, <2>3
    <3>2. r \in Parents
      <4> HIDE DEF r
      <4>1. r \in Parents \cup {Null}
        BY Kinds DEF r, Home, States, Items
      <4>2. QED
        BY <3>1, <4>1
    <3>3. PICK k \in 2..(size[r] - 1) : at[r][k] = x
      BY <1>1, <3>1 DEF Contents
    <3>4. k \in Nat /\ k >= 2 /\ k <= size[r] - 1
      BY <1>2, <3>2, <3>3
    <3> HIDE DEF r
    <3>5. CASE r = f
      <4>1. Home(e, x) = p
        BY <1>10, <3>5 DEF r
      <4>2. (k + i) - 2 \in 2..(bs[p] - 1) /\ (k + i) - 2 \in Nat /\ ~((k + i) - 2 < i)
            /\ (k + i) - 2 < i + m /\ (((k + i) - 2) - i) + 2 = k
        <5>1. k <= m + 1
          <6>1. size[r] = m + 2
            BY <1>3, <3>5
          <6>2. QED
            BY ONLY <1>32, <3>4, <6>1
        <5>2. (k + i) - 2 \in 2..((size[p] + m) - 1)
          BY ONLY <1>32, <3>4, <5>1
        <5>3. (k + i) - 2 \in Nat /\ ~((k + i) - 2 < i)
              /\ (k + i) - 2 < i + m /\ (((k + i) - 2) - i) + 2 = k
          BY ONLY <1>32, <3>4, <5>1
        <5>4. QED
          BY <1>5, <5>2, <5>3
      <4>3. bt[p][(k + i) - 2] = x
        BY <1>5, <3>3, <3>5, <4>2
      <4>4. QED
        BY <4>1, <4>2, <4>3
    <3>6. CASE r = p
      <4>1. Home(e, x) = p
        BY <1>10, <3>6 DEF r
      <4>2. CASE k < i
        <5>1. bs[p] = size[p] + m /\ k <= size[p] - 1
          BY <1>5, <3>4, <3>6
        <5>2. k \in 2..(bs[p] - 1)
          BY ONLY <1>32, <3>4, <5>1
        <5>3. bt[p][k] = x
          BY <1>5, <3>3, <3>4, <3>6, <4>2
        <5>4. QED
          BY <4>1, <5>2, <5>3
      <4>3. CASE ~(k < i)
        <5>1. k + m \in 2..(bs[p] - 1) /\ k + m \in Nat /\ ~(k + m < i) /\ ~(k + m < i + m)
              /\ (k + m) - m = k
          <6>1. bs[p] = size[p] + m /\ k <= size[p] - 1
            BY <1>5, <3>4, <3>6
          <6>2. QED
            BY ONLY <1>32, <3>4, <4>3, <6>1
        <5>2. bt[p][k + m] = x
          BY <1>5, <3>3, <3>6, <5>1
        <5>3. QED
          BY <4>1, <5>1, <5>2
      <4>4. QED
        BY <4>2, <4>3
    <3>7. CASE r # p /\ r # f
      <4>1. Home(e, x) = r
        BY <1>10, <3>7 DEF r
      <4>2. k \in 2..(bs[r] - 1) /\ bt[r][k] = x
        BY <1>5, <3>2, <3>3, <3>7
      <4>3. QED
        BY <4>1, <4>2
    <3>8. QED
      BY <3>5, <3>6, <3>7
  <2>4. QED
    BY <2>1, <2>2, <2>3 DEF Contents
<1>17. LinksFollow(e, bs, bt)
  <2>1. SUFFICES ASSUME NEW r \in Parents, NEW j \in 1..(bs[r] - 1)
                 PROVE  e.next[Out(bt, r, j)] = bt[r][j + 1] /\ e.prev[bt[r][j + 1]] = Out(bt, r, j)
    BY DEF LinksFollow
  <2>2. CASE r # p /\ r # f
    <3>1. j \in 1..(size[r] - 1) /\ j \in Nat /\ bt[r][j + 1] = at[r][j + 1] /\ Out(bt, r, j) = Out(at, r, j)
      BY <1>2, <1>5, <2>2 DEF Out
    <3>2. Same(r, j)
      BY <2>2, <3>1 DEF Same
    <3>3. QED
      BY <1>12, <3>1, <3>2
  <2>3. CASE r = f
    <3>1. j = 1
      BY <1>5, <2>3
    <3>2. Out(bt, f, 1) = f /\ bt[f][1 + 1] = End(f)
      BY <1>5 DEF Out
    <3>3. f # Out(at, f, m + 1) /\ f # Out(at, p, i - 1)
      <4>1. Out(at, f, 1) # Out(at, f, m + 1)
        BY <1>31, <1>6, <1>7
      <4>2. Out(at, f, 1) # Out(at, p, i - 1)
        BY <1>31, <1>6, <1>7
      <4>3. QED
        BY <1>8, <4>1, <4>2
    <3>4. e.next[f] = End(f)
      BY <1>4, <1>9, <3>3
    <3>5. End(f) # q0 /\ End(f) # at[f][2]
      <4>1. at[f][m + 2] # at[p][i]
        BY <1>31, <1>6, <1>7
      <4>2. at[f][m + 2] # at[f][2]
        <5>1. m + 2 # 2
          BY <1>32
        <5>2. QED
          BY <1>31, <1>6, <1>7, <5>1
      <4>3. QED
        BY <1>8, <4>1, <4>2 DEF q0
    <3>6. e.prev[End(f)] = f
      BY <1>4, <1>9, <3>5
    <3>7. QED
      BY <2>3, <3>1, <3>2, <3>4, <3>6
  <2>4. CASE r = p
    <3>0. j \in 1..((size[p] + m) - 1)
      BY <1>5, <2>4
    <3>1. j \in Nat /\ j >= 1 /\ j <= (size[p] + m) - 1 /\ j + 1 \in Nat
      BY ONLY <1>32, <3>0
    <3>2. CASE j < i - 1
      <4>1. j \in 1..(size[p] - 1) /\ j < i /\ j + 1 < i /\ j # i - 1
        BY ONLY <1>32, <3>1, <3>2
      <4>2. bt[p][j] = at[p][j] /\ bt[p][j + 1] = at[p][j + 1]
        BY <1>5, <3>1, <4>1
      <4>3. Out(bt, p, j) = Out(at, p, j)
        BY <4>2 DEF Out
      <4>4. Same(p, j)
        BY <4>1 DEF Same
      <4>5. QED
        BY <1>12, <2>4, <3>1, <4>2, <4>3, <4>4
    <3>3. CASE j = i - 1
      <4>1. j < i /\ j + 1 = i /\ ~(i < i) /\ i < i + m /\ (i - i) + 2 = 2
        BY ONLY <1>32, <3>1, <3>3
      <4>2. bt[p][j] = at[p][j] /\ bt[p][j + 1] = at[f][2]
        BY <1>5, <1>32, <3>1, <4>1
      <4>3. Out(bt, p, j) = Out(at, p, i - 1)
        BY <3>3, <4>2 DEF Out
      <4>4. Out(at, p, i - 1) # Out(at, f, m + 1) /\ at[f][2] # q0 /\ Out(at, p, i - 1) \in Linked
        BY <1>31, <1>6, <1>7 DEF q0
      <4>5. at[f][2] \in Linked
        BY <1>1, <1>31 DEF Shape
      <4>6. QED
        BY <1>9, <2>4, <4>2, <4>3, <4>4, <4>5
    <3>4. CASE j >= i /\ j < (i + m) - 1
      <4>1. /\ ~(j < i) /\ j < i + m /\ ~(j + 1 < i) /\ j + 1 < i + m /\ j # 1
            /\ (j - i) + 2 \in Nat /\ (j - i) + 2 # 1 /\ (j - i) + 2 # m + 1
            /\ ((j + 1) - i) + 2 = ((j - i) + 2) + 1 /\ (j - i) + 2 \in 1..((m + 2) - 1)
        BY ONLY <1>32, <3>1, <3>4
      <4>2. bt[p][j] = at[f][(j - i) + 2] /\ bt[p][j + 1] = at[f][((j - i) + 2) + 1]
        BY <1>5, <3>1, <4>1
      <4>3. Out(bt, p, j) = Out(at, f, (j - i) + 2)
        BY <4>1, <4>2 DEF Out
      <4>4. Same(f, (j - i) + 2)
        BY <1>3, <4>1 DEF Same
      <4>5. QED
        BY <1>12, <1>31, <2>4, <4>1, <4>2, <4>3, <4>4
    <3>5. CASE j = (i + m) - 1
      <4>1. /\ ~(j < i) /\ j < i + m /\ (j - i) + 2 = m + 1 /\ j # 1 /\ m + 1 # 1
            /\ ~(j + 1 < i) /\ ~(j + 1 < i + m) /\ (j + 1) - m = i
        BY ONLY <1>32, <3>1, <3>5
      <4>2. bt[p][j] = at[f][m + 1] /\ bt[p][j + 1] = q0
        BY <1>5, <3>1, <4>1 DEF q0
      <4>3. Out(bt, p, j) = Out(at, f, m + 1)
        BY <4>1, <4>2 DEF Out
      <4>4. Out(at, f, m + 1) \in Linked
        BY <1>31, <1>6, <1>7
      <4>5. QED
        BY <1>4, <1>9, <2>4, <4>2, <4>3, <4>4
    <3>6. CASE j > (i + m) - 1
      <4>1. /\ ~(j < i) /\ ~(j < i + m) /\ ~(j + 1 < i) /\ ~(j + 1 < i + m) /\ j # 1
            /\ j - m \in Nat /\ j - m # 1 /\ (j + 1) - m = (j - m) + 1
            /\ j - m \in 1..(size[p] - 1) /\ j - m # i - 1
        BY ONLY <1>32, <3>1, <3>6
      <4>2. bt[p][j] = at[p][j - m] /\ bt[p][j + 1] = at[p][(j - m) + 1]
        BY <1>5, <3>1, <4>1
      <4>3. Out(bt, p, j) = Out(at, p, j - m)
        BY <4>1, <4>2 DEF Out
      <4>4. Same(p, j - m)
        BY <4>1 DEF Same
      <4>5. QED
        BY <1>12, <2>4, <4>1, <4>2, <4>3, <4>4
    <3>7. j < i - 1 \/ j = i - 1 \/ (j >= i /\ j < (i + m) - 1) \/ j = (i + m) - 1 \/ j > (i + m) - 1
      BY ONLY <1>32, <3>1
    <3>8. QED
      BY <3>2, <3>3, <3>4, <3>5, <3>6, <3>7
  <2>5. QED
    BY <2>2, <2>3, <2>4
<1>18. Loose(e)
  <2>1. \/ i - 1 = 1 /\ Out(at, p, i - 1) = p
        \/ i - 1 \in 2..(size[p] - 1) /\ Out(at, p, i - 1) = GetEnd(at[p][i - 1])
    BY <1>32 DEF Out
  <2>2. Out(at, f, m + 1) = GetEnd(at[f][m + 1]) /\ m + 1 \in 2..(size[f] - 1)
    BY <1>3, <1>32 DEF Out
  <2>3. at[f][m + 1] \in Items /\ Home(d, at[f][m + 1]) = f
    BY <1>14, <1>31, <2>2
  <2>4. at[f][2] \in Items /\ Home(d, at[f][2]) = f
    <3>1. 2 \in 2..(size[f] - 1)
      BY <1>3, <1>32
    <3>2. QED
      BY <1>14, <1>31, <3>1
  <2>5. q0 = End(p) \/ (q0 \in Items /\ Home(d, q0) = p)
    <3>1. CASE i = size[p]
      BY <1>2, <3>1 DEF q0
    <3>2. CASE i # size[p]
      <4>1. i \in 2..(size[p] - 1)
        BY ONLY <1>32, <3>2
      <4>2. QED
        BY <1>14, <4>1 DEF q0
    <3>3. QED
      BY <3>1, <3>2
  <2>6. ASSUME NEW x \in Items, Home(e, x) = Null
        PROVE  e.prev[x] = Null /\ e.next[GetEnd(x)] = Null
    <3>1. Home(d, x) = Null /\ x \in Linked /\ GetEnd(x) \in Linked
      BY <1>10, <1>11, <2>6, Kinds, GetEnds
    <3>2. d.prev[x] = Null /\ d.next[GetEnd(x)] = Null
      BY <1>1, <3>1 DEF Loose
    <3>3. x # q0 /\ x # at[f][2] /\ x # End(f)
      BY <1>11, <1>31, <2>4, <2>5, <3>1, Kinds
    <3>4. GetEnd(x) # Out(at, f, m + 1)
      BY <1>11, <2>2, <2>3, <3>1, GetEnds
    <3>5. GetEnd(x) # f
      BY <1>31, GetEnds
    <3>6. GetEnd(x) # Out(at, p, i - 1)
      <4>1. CASE i - 1 = 1 /\ Out(at, p, i - 1) = p
        BY <4>1, GetEnds
      <4>2. CASE i - 1 \in 2..(size[p] - 1) /\ Out(at, p, i - 1) = GetEnd(at[p][i - 1])
        <5>1. at[p][i - 1] \in Items /\ Home(d, at[p][i - 1]) = p
          BY <1>14, <4>2
        <5>2. QED
          BY <1>11, <3>1, <4>2, <5>1, GetEnds
      <4>3. QED
        BY <2>1, <4>1, <4>2
    <3>7. QED
      BY <1>9, <3>1, <3>2, <3>3, <3>4, <3>5, <3>6
  <2>7. ASSUME NEW r \in Parents \ Elements
        PROVE  e.prev[r] = Null /\ e.next[End(r)] = Null
    <3>1. d.prev[r] = Null /\ d.next[End(r)] = Null
      BY <1>1 DEF Loose
    <3>2. r \in Linked /\ End(r) \in Linked /\ r \notin Items
      BY Kinds DEF Items
    <3>3. r # q0 /\ r # at[f][2] /\ r # End(f)
      BY <1>31, <2>4, <2>5, <3>2, Kinds
    <3>4. End(r) # Out(at, f, m + 1)
      BY <2>2, <2>3, GetEnds
    <3>5. End(r) # f
      BY <1>31, Kinds
    <3>6. End(r) # Out(at, p, i - 1)
      <4>1. CASE i - 1 = 1 /\ Out(at, p, i - 1) = p
        BY <4>1, Kinds
      <4>2. CASE i - 1 \in 2..(size[p] - 1) /\ Out(at, p, i - 1) = GetEnd(at[p][i - 1])
        <5>1. at[p][i - 1] \in Items
          BY <1>14, <4>2
        <5>2. QED
          BY <4>2, <5>1, GetEnds
      <4>3. QED
        BY <2>1, <4>1, <4>2
    <3>7. QED
      BY <1>9, <3>1, <3>2, <3>3, <3>4, <3>5, <3>6
  <2>8. ASSUME NEW n \in Nodes \ Children PROVE e.parent[n] = Null
    <3>1. d.parent[n] = Null
      BY <1>1 DEF Loose
    <3>2. QED
      BY <1>9, <1>11, <3>1
  <2>9. QED
    BY <2>6, <2>7, <2>8 DEF Loose
<1>19. QED
  BY <1>5, <1>16, <1>17, <1>18 DEF RowsOf, bs, bt

(* lastChild reads the node before the end node.                              *)
LEMMA LastChildIs ==
  ASSUME NEW d \in States, NEW size, NEW at, RowsOf(d, size, at), NEW p \in Parents
  PROVE  LastChild(d, p) = IF Lead(at, p) = size[p] THEN Null ELSE at[p][size[p] - 1]
<1> DEFINE a == Lead(at, p)
           s == size[p]
           prev == d.prev[End(p)]
<1>1. Shape(size, at) /\ Contents(d, size, at) /\ LinksFollow(d, size, at)
  BY DEF RowsOf
<1>2. s \in Nat /\ s >= 2 /\ at[p][s] = End(p)
  BY <1>1 DEF Shape
<1>3. /\ a \in {2, 3} /\ a <= s
      /\ \A i \in a..(s - 1) : at[p][i] \in Children
      /\ \A i \in 2..(s - 1) : i < a => at[p][i] \in Attributes
  BY LeadIs
<1>4. prev = Out(at, p, s - 1)
  <2>1. s - 1 \in 1..(size[p] - 1) /\ (s - 1) + 1 = s
    BY <1>2
  <2>2. d.prev[at[p][(s - 1) + 1]] = Out(at, p, s - 1)
    BY <1>1, <2>1 DEF LinksFollow
  <2>3. QED
    BY <1>2, <2>1, <2>2
<1>5. LastChild(d, p) = CASE prev \in Ends -> Start(prev) [] prev \in Attributes -> Null
                          [] prev = p -> Null [] OTHER -> prev
  BY DEF LastChild
<1>6. /\ Nodes \cap Ends = {} /\ Attributes \subseteq Nodes /\ Children \subseteq Nodes
      /\ Parents \subseteq Nodes
  BY Kinds, DomAssumption
<1> HIDE DEF prev
<1>7. CASE a = s
  <2>1. CASE s = 2
    <3>1. prev = p
      BY <1>4, <2>1 DEF Out
    <3>2. prev \notin Ends /\ prev \notin Attributes
      BY <1>6, <3>1, Kinds
    <3>3. QED
      BY <1>5, <1>7, <3>1, <3>2
  <2>2. CASE s = 3
    <3>1. at[p][2] \in Attributes
      BY <1>3, <1>7, <2>2
    <3>2. prev = at[p][2]
      BY <1>4, <2>2, <3>1, GetEnds, Kinds DEF Out
    <3>3. prev \in Attributes /\ prev \notin Ends
      BY <1>6, <3>1, <3>2
    <3>4. QED
      BY <1>5, <1>7, <3>3
  <2>3. QED
    BY <1>3, <1>7, <2>1, <2>2
<1>8. CASE a # s
  <2> DEFINE x == at[p][s - 1]
  <2>1. s - 1 \in a..(s - 1) /\ s - 1 # 1
    BY <1>2, <1>3, <1>8
  <2>2. x \in Children
    BY <1>3, <2>1
  <2>3. prev = GetEnd(x)
    BY <1>4, <2>1 DEF Out
  <2> HIDE DEF x
  <2>4. CASE x \in Elements
    <3>1. prev = End(x) /\ End(x) \in Ends
      BY <2>3, <2>4, GetEnds, Kinds DEF Ends
    <3>2. Start(prev) = x
      BY <3>1 DEF Start, End
    <3>3. prev \notin Attributes /\ prev # p
      BY <1>6, <3>1
    <3>4. QED
      BY <1>5, <1>8, <3>1, <3>2, <3>3 DEF x
  <2>5. CASE x \notin Elements
    <3>1. prev = x
      BY <2>2, <2>3, <2>5, GetEnds, Kinds
    <3>2. x \notin Ends /\ x \notin Attributes /\ x # p
      BY <1>6, <2>2, <2>5, Kinds
    <3>3. QED
      BY <1>5, <1>8, <3>1, <3>2 DEF x
  <2>6. QED
    BY <2>4, <2>5
<1>9. QED
  BY <1>7, <1>8

(* The children of a fragment are told of one by one.                         *)
ArrivedEach(d, nodes, parent) ==
  FoldLeft(LAMBDA sofar, kid : Arrived(sofar, kid, parent), d, nodes)

LEMMA ArrivedEachSteps ==
  ASSUME NEW d \in States, NEW parent \in Parents, NEW nodes \in Seq(Children)
  PROVE  \E step : /\ step[0] = d
                   /\ step[Len(nodes)] = ArrivedEach(d, nodes, parent)
                   /\ \A k \in 1..Len(nodes) : step[k] = Arrived(step[k - 1], nodes[k], parent)
<1> DEFINE n == Len(nodes)
           F(iter) == [s \in SUBSET DOMAIN nodes |->
                         IF s = {} THEN d
                         ELSE Arrived(iter[s \ {Max(s)}], nodes[Max(s)], parent)]
           each == CHOOSE iter : iter = F(iter)
           step == [k \in 1..n |-> [x \in States |-> Arrived(x, nodes[k], parent)]]
<1>1. n \in Nat /\ DOMAIN nodes = 1..n /\ \A k \in 1..n : nodes[k] \in Children
  OBVIOUS
<1>2. ArrivedEach(d, nodes, parent) = each[1..n]
  BY <1>1 DEF ArrivedEach, FoldLeft, MapThenFoldSet
<1>3. step \in [1..n -> [States -> States]]
  BY <1>1, ArrivedIs
<1>4. PICK f \in [SUBSET (1..n) -> States] : Folding(f, d, n, step)
  <2> HIDE DEF step, n
  <2>1. n \in Nat /\ d \in States
    BY <1>1
  <2>2. QED
    BY ONLY <1>3, <2>1, FoldExists
<1>5. f = F(f)
  <2>1. ASSUME NEW s \in SUBSET (1..n), s # {}
        PROVE  f[s] = Arrived(f[s \ {Max(s)}], nodes[Max(s)], parent)
    <3>1. Max(s) \in 1..n
      BY <1>1, <2>1, MaxIn
    <3>2. f[s \ {Max(s)}] \in States
      OBVIOUS
    <3>3. QED
      BY <1>4, <2>1, <3>1, <3>2 DEF Folding
  <2>2. QED
    BY <1>1, <1>4, <2>1 DEF Folding
<1>6. each = F(each)
  <2> HIDE DEF F
  <2> QED BY <1>5
<1> DEFINE body == [s \in SUBSET (1..n) |->
                      Arrived(each[s \ {Max(s)}], nodes[Max(s)], parent)]
<1>7. Unfolding(each, d, n, body)
  <2> HIDE DEF each
  <2> QED BY <1>1, <1>6 DEF Unfolding
<1> HIDE DEF each
<1>8. UnfoldedBy(each, d, n, body)
  <2> HIDE DEF body
  <2> QED BY <1>1, <1>7, FoldSteps
<1>9. \A k \in 1..n : each[1..k] = Arrived(each[1..(k - 1)], nodes[k], parent)
  <2>1. TAKE k \in 1..n
  <2>2. 1..k \in SUBSET (1..n)
    OBVIOUS
  <2>3. body[1..k] = Arrived(each[(1..k) \ {Max(1..k)}], nodes[Max(1..k)], parent)
    BY <2>2
  <2> HIDE DEF body
  <2>4. QED
    BY <1>8, <2>3 DEF UnfoldedBy
<1> DEFINE along == [k \in Nat |-> each[1..k]]
<1>10. /\ along[0] = d
       /\ along[n] = ArrivedEach(d, nodes, parent)
       /\ \A k \in 1..n : along[k] = Arrived(along[k - 1], nodes[k], parent)
  BY <1>1, <1>2, <1>8, <1>9 DEF UnfoldedBy
<1>11. QED
  <2> HIDE DEF along
  <2> QED BY <1>10

LEMMA ArrivedEachIs ==
  ASSUME NEW d \in States, NEW parent \in Parents, NEW nodes \in Seq(Children)
  PROVE  /\ ArrivedEach(d, nodes, parent) \in States
         /\ ArrivedEach(d, nodes, parent).next = d.next
         /\ ArrivedEach(d, nodes, parent).prev = d.prev
         /\ ArrivedEach(d, nodes, parent).owner = d.owner
         /\ ArrivedEach(d, nodes, parent).data = d.data
         /\ ArrivedEach(d, nodes, parent).parent =
              [n \in Nodes |-> IF \E i \in 1..Len(nodes) : nodes[i] = n THEN parent ELSE d.parent[n]]
<1> DEFINE homes(k) == [n \in Nodes |-> IF \E i \in 1..k : nodes[i] = n THEN parent ELSE d.parent[n]]
           reach == [k \in Nat |-> {x \in States : /\ x.next = d.next /\ x.prev = d.prev
                                                   /\ x.owner = d.owner /\ x.data = d.data
                                                   /\ x.parent = homes(k)}]
<1>1. Len(nodes) \in Nat /\ \A k \in 1..Len(nodes) : nodes[k] \in Children /\ nodes[k] \in Nodes
  BY Kinds
<1>2. d.parent \in [Nodes -> Parents \cup {Null}]
  BY DEF States
<1>3. PICK step : /\ step[0] = d
                  /\ step[Len(nodes)] = ArrivedEach(d, nodes, parent)
                  /\ \A k \in 1..Len(nodes) : step[k] = Arrived(step[k - 1], nodes[k], parent)
  BY ArrivedEachSteps
<1>4. step[0] \in reach[0]
  <2>1. homes(0) = d.parent
    BY <1>2
  <2> HIDE DEF homes
  <2>2. QED
    BY <1>3, <2>1
<1>5. ASSUME NEW k \in 1..Len(nodes), step[k - 1] \in reach[k - 1]
      PROVE  step[k] \in reach[k]
  <2> DEFINE c == step[k - 1]
             e == step[k]
  <2>1. k \in Nat /\ k - 1 \in Nat
    OBVIOUS
  <2>2. /\ c \in States /\ c.next = d.next /\ c.prev = d.prev
        /\ c.owner = d.owner /\ c.data = d.data /\ c.parent = homes(k - 1)
    <3> HIDE DEF homes
    <3> QED BY <1>5, <2>1
  <2>3. e = Arrived(c, nodes[k], parent)
    BY <1>3
  <2> HIDE DEF c, e
  <2>4. /\ e \in States /\ e.next = c.next /\ e.prev = c.prev /\ e.owner = c.owner /\ e.data = c.data
        /\ e.parent = [c.parent EXCEPT ![nodes[k]] = parent]
    <3> HIDE DEF homes
    <3> QED BY <1>1, <2>2, <2>3, ArrivedIs
  <2>5. [homes(k - 1) EXCEPT ![nodes[k]] = parent] = homes(k)
    <3>1. \A n \in Nodes : (\E i \in 1..k : nodes[i] = n)
                              <=> (n = nodes[k] \/ \E i \in 1..(k - 1) : nodes[i] = n)
      OBVIOUS
    <3>2. QED
      BY <1>1, <3>1
  <2> HIDE DEF homes
  <2>6. /\ e \in States /\ e.next = d.next /\ e.prev = d.prev
        /\ e.owner = d.owner /\ e.data = d.data /\ e.parent = homes(k)
    BY <2>2, <2>4, <2>5
  <2>7. QED
    BY <2>1, <2>6 DEF e
<1>6. step[Len(nodes)] \in reach[Len(nodes)]
  <2>1. Len(nodes) \in 0..Len(nodes)
    BY <1>1
  <2> HIDE DEF reach
  <2>2. QED
    BY <1>1, <1>4, <1>5, <2>1, StepsReach
<1>7. QED
  <2> HIDE DEF homes
  <2>1. /\ step[Len(nodes)] \in States
        /\ step[Len(nodes)].next = d.next /\ step[Len(nodes)].prev = d.prev
        /\ step[Len(nodes)].owner = d.owner /\ step[Len(nodes)].data = d.data
        /\ step[Len(nodes)].parent = homes(Len(nodes))
    BY <1>1, <1>6
  <2>2. QED
    BY <1>3, <2>1 DEF homes

LEMMA ArrivedEachTells ==
  ASSUME NEW d \in States, NEW parent \in Parents, NEW nodes \in Seq(Children), Tells(d),
         \A i, j \in 1..Len(nodes) : nodes[i] = nodes[j] => i = j,
         \A i \in 1..Len(nodes) : d.parent[nodes[i]] \notin Elements \cup {Doc},
         NEW r \in States, NEW size, NEW at, RowsOf(r, size, at), r.next = d.next,
         \A i \in 1..Len(nodes) : r.parent[nodes[i]] = parent
  PROVE  Tells(ArrivedEach(d, nodes, parent))
<1> DEFINE homes(k) == [n \in Nodes |-> IF \E i \in 1..k : nodes[i] = n THEN parent ELSE d.parent[n]]
           reach == [k \in Nat |-> {x \in States : /\ x.next = d.next /\ x.parent = homes(k)
                                                   /\ Tells(x)}]
<1>1. Len(nodes) \in Nat /\ \A k \in 1..Len(nodes) : nodes[k] \in Children /\ nodes[k] \in Nodes
  BY Kinds
<1>2. d.parent \in [Nodes -> Parents \cup {Null}]
  BY DEF States
<1>3. PICK step : /\ step[0] = d
                  /\ step[Len(nodes)] = ArrivedEach(d, nodes, parent)
                  /\ \A k \in 1..Len(nodes) : step[k] = Arrived(step[k - 1], nodes[k], parent)
  BY ArrivedEachSteps
<1>4. step[0] \in reach[0]
  <2>1. homes(0) = d.parent
    BY <1>2
  <2> HIDE DEF homes
  <2>2. QED
    BY <1>3, <2>1
<1>5. ASSUME NEW k \in 1..Len(nodes), step[k - 1] \in reach[k - 1]
      PROVE  step[k] \in reach[k]
  <2> DEFINE c == step[k - 1]
             e == step[k]
  <2>1. k \in Nat /\ k - 1 \in Nat
    OBVIOUS
  <2>2. c \in States /\ c.next = d.next /\ c.parent = homes(k - 1) /\ Tells(c)
    <3> HIDE DEF homes
    <3> QED BY <1>5, <2>1
  <2>3. e = Arrived(c, nodes[k], parent)
    BY <1>3
  <2>4. homes(k - 1)[nodes[k]] = d.parent[nodes[k]]
    <3>1. ~ \E i \in 1..(k - 1) : nodes[i] = nodes[k]
      BY <1>1
    <3>2. QED
      BY <1>1, <3>1
  <2> HIDE DEF c, e
  <2>5. e \in States /\ e.next = c.next /\ e.parent = [c.parent EXCEPT ![nodes[k]] = parent]
    <3> HIDE DEF homes
    <3> QED BY <1>1, <2>2, <2>3, ArrivedIs
  <2>6. [homes(k - 1) EXCEPT ![nodes[k]] = parent] = homes(k)
    <3>1. \A n \in Nodes : (\E i \in 1..k : nodes[i] = n)
                              <=> (n = nodes[k] \/ \E i \in 1..(k - 1) : nodes[i] = n)
      OBVIOUS
    <3>2. QED
      BY <1>1, <3>1
  <2> HIDE DEF homes
  <2>7. c.parent[nodes[k]] \notin Elements \cup {Doc} /\ r.next = c.next /\ r.parent[nodes[k]] = parent
    BY <2>2, <2>4
  <2>8. Tells(e)
    BY <1>1, <2>2, <2>3, <2>7, ArrivedTells
  <2>9. e \in States /\ e.next = d.next /\ e.parent = homes(k)
    BY <2>2, <2>5, <2>6
  <2>10. QED
    BY <2>1, <2>8, <2>9 DEF e
<1>6. step[Len(nodes)] \in reach[Len(nodes)]
  <2>1. Len(nodes) \in 0..Len(nodes)
    BY <1>1
  <2> HIDE DEF reach
  <2>2. QED
    BY <1>1, <1>4, <1>5, <2>1, StepsReach
<1>7. QED
  <2> HIDE DEF homes
  <2>1. Tells(step[Len(nodes)])
    BY <1>1, <1>6
  <2>2. QED
    BY <1>3, <2>1

LEMMA InsertFragmentWhole ==
  ASSUME NEW d, Whole(d), NEW p \in Parents, NEW f \in Fragments, f # p, NEW q, Spot(d, p, q)
  PROVE  /\ Whole(InsertFragment(d, p, f, q))
         /\ InsertFragment(d, p, f, q).data = d.data
<1>1. d \in States
  BY DEF Whole
<1>2. PICK size, at : RowsOf(d, size, at)
  BY DEF Whole
<1>3. Shape(size, at) /\ Contents(d, size, at) /\ LinksFollow(d, size, at)
  BY <1>2 DEF RowsOf
<1>4. PICK i \in 2..size[p] : at[p][i] = q
  BY <1>1, <1>2, SpotPlace
<1>5. q \in Linked /\ q \notin Attributes
  BY <1>1, <1>2, SpotPlace
<1>6. f \in Parents /\ f \notin Elements
  BY Kinds
<1> DEFINE m == size[f] - 2
<1>7. size[f] \in Nat /\ size[f] >= 2 /\ m \in Nat /\ size[p] \in Nat /\ size[f] = m + 2
  <2>1. size[f] \in Nat /\ size[f] >= 2 /\ size[p] \in Nat
    BY <1>3, <1>6 DEF Shape
  <2>2. QED
    BY <2>1
<1>8. Lead(at, f) = 2 /\ \A j \in 2..(size[f] - 1) : at[f][j] \in Children /\ d.parent[at[f][j]] = f
  <2>1. Lead(at, f) = 2
    BY <1>1, <1>2, <1>6, LeadIs
  <2>2. QED
    BY <1>1, <1>2, <1>6, <2>1, LeadIs
<1> DEFINE kids == ChildNodes(d, f)
<1>9. kids = [j \in 1..m |-> at[f][1 + j]]
  <2>1. kids = [j \in 1..(size[f] - 2) |-> at[f][(2 - 1) + j]]
    BY <1>1, <1>2, <1>6, <1>8, KidsOf
  <2>2. \A j \in 1..m : (2 - 1) + j = 1 + j
    OBVIOUS
  <2>3. QED
    BY <2>1, <2>2
<1>10. CASE m = 0
  <2>1. kids = <<>>
    BY <1>9, <1>10
  <2>2. InsertFragment(d, p, f, q) = d
    BY <2>1 DEF InsertFragment
  <2>3. QED
    BY <2>2
<1>11. CASE m # 0
  <2> DEFINE prev  == d.prev[q]
             first == at[f][2]
             last  == at[f][m + 1]
             mid   == KnownAdjacent(KnownSegment(d, prev, kids[1], LastChild(d, f), q), f, End(f))
             nexts == [x \in Linked |-> IF x = GetEnd(last) THEN q ELSE IF x = prev THEN first
                                        ELSE IF x = f THEN End(f) ELSE d.next[x]]
             prevs == [x \in Linked |-> IF x = q THEN GetEnd(last) ELSE IF x = first THEN prev
                                        ELSE IF x = End(f) THEN f ELSE d.prev[x]]
             e     == InsertFragment(d, p, f, q)
  <2>1. m > 0 /\ 1 \in 1..m /\ m \in 1..m /\ 1 + m = m + 1 /\ size[f] - 1 = m + 1
    BY <1>7, <1>11
  <2>2. kids[1] = first /\ kids # <<>>
    <3>1. kids[1] = at[f][1 + 1]
      BY <1>9, <2>1
    <3>2. Len(kids) = m
      BY <1>7, <1>9
    <3>3. Len(<<>>) = 0
      OBVIOUS
    <3> HIDE DEF m, kids
    <3>4. QED
      BY <1>11, <3>1, <3>2, <3>3
  <2>3. LastChild(d, f) = last
    <3>1. size[f] # 2
      BY <1>7, <1>11
    <3>2. QED
      BY <1>1, <1>2, <1>6, <1>8, <2>1, <3>1, LastChildIs
  <2>4. first \in Children /\ last \in Children
    BY <1>7, <1>8, <2>1
  <2>5. kids \in Seq(Children) /\ Len(kids) = m /\ \A j \in 1..m : kids[j] = at[f][1 + j]
    <3>1. \A j \in 1..m : at[f][1 + j] \in Children
      BY <1>7, <1>8
    <3> HIDE DEF kids
    <3>2. QED
      BY <1>7, <1>9, <3>1
  <2>6. i - 1 \in 1..(size[p] - 1) /\ (i - 1) + 1 = i /\ 1 \in 1..(size[f] - 1) /\ m + 1 \in 1..(size[f] - 1)
        /\ i \in 2..size[p] /\ 2 \in 2..size[f] /\ m + 2 \in 2..size[f] /\ m + 1 # 1 /\ m + 2 # 2
        /\ (m + 1) + 1 = m + 2
    BY <1>7, <2>1
  <2>7. prev = Out(at, p, i - 1) /\ Out(at, f, 1) = f /\ Out(at, f, m + 1) = GetEnd(last)
    <3>1. d.prev[at[p][(i - 1) + 1]] = Out(at, p, i - 1)
      BY <1>3, <2>6 DEF LinksFollow
    <3>2. Out(at, f, 1) = f /\ Out(at, f, m + 1) = GetEnd(last)
      BY <2>6 DEF Out
    <3>3. QED
      BY <1>4, <2>6, <3>1, <3>2
  <2>8. at[f][m + 2] = End(f) /\ d.next[f] = first /\ d.prev[End(f)] = GetEnd(last)
    <3>1. at[f][m + 2] = End(f)
      BY <1>3, <1>6, <1>7 DEF Shape
    <3>2. d.next[Out(at, f, 1)] = at[f][1 + 1] /\ d.prev[at[f][(m + 1) + 1]] = Out(at, f, m + 1)
      BY <1>3, <1>6, <2>6 DEF LinksFollow
    <3>3. QED
      BY <2>6, <2>7, <3>1, <3>2
  <2>9. f # prev /\ f # GetEnd(last) /\ prev # GetEnd(last)
    <3>1. \A r, s \in Parents : \A j \in 1..(size[r] - 1), k \in 1..(size[s] - 1) :
            Out(at, r, j) = Out(at, s, k) => r = s /\ j = k
      BY <1>3, Places
    <3>2. Out(at, f, 1) # Out(at, p, i - 1) /\ Out(at, f, 1) # Out(at, f, m + 1)
          /\ Out(at, p, i - 1) # Out(at, f, m + 1)
      BY <1>6, <2>6, <3>1
    <3>3. QED
      BY <2>7, <3>2
  <2>10. End(f) # q /\ End(f) # first /\ q # first
    <3>1. \A r, s \in Parents : \A j \in 2..size[r], k \in 2..size[s] :
            at[r][j] = at[s][k] => r = s /\ j = k
      BY <1>3, Places
    <3>2. at[f][m + 2] # at[p][i] /\ at[f][m + 2] # at[f][2] /\ at[p][i] # at[f][2]
      BY <1>6, <2>6, <3>1
    <3>3. QED
      BY <1>4, <2>8, <3>2
  <2>11. /\ f \in Linked /\ End(f) \in Linked /\ first \in Linked /\ GetEnd(last) \in Linked
         /\ prev \in Linked \cup {Null}
    BY <1>1, <1>5, <1>6, <2>4, Kinds, GetEnds DEF States
  <2>12. d.next \in [Linked -> Linked \cup {Null}] /\ d.prev \in [Linked -> Linked \cup {Null}]
    BY <1>1 DEF States
  <2> HIDE DEF kids, prev, first, last, m
  <2>13. nexts \in [Linked -> Linked \cup {Null}] /\ prevs \in [Linked -> Linked \cup {Null}]
    BY <1>5, <2>11, <2>12
  <2>14. mid = Relinked(d, nexts, prevs)
    <3> DEFINE ahead == [d.next EXCEPT ![prev] = first]
               back  == [d.prev EXCEPT ![first] = prev]
    <3>1. nexts = [[ahead EXCEPT ![GetEnd(last)] = q] EXCEPT ![f] = End(f)]
      BY <2>9, <2>11, <2>12
    <3>2. prevs = [[back EXCEPT ![q] = GetEnd(last)] EXCEPT ![End(f)] = f]
      BY <2>10, <2>11, <2>12
    <3>3. KnownAdjacent(d, prev, first) = Relinked(d, ahead, back)
      BY DEF KnownAdjacent, Relinked
    <3>4. mid = [[Relinked(d, ahead, back) EXCEPT !.next[GetEnd(last)] = q, !.prev[q] = GetEnd(last)]
                   EXCEPT !.next[f] = End(f), !.prev[End(f)] = f]
      BY <2>2, <2>3, <3>3 DEF KnownSegment, KnownAdjacent
    <3> HIDE DEF nexts, prevs, ahead, back, mid
    <3>5. QED
      BY <1>1, <3>1, <3>2, <3>4 DEF Relinked, States
  <2>15. e = ArrivedEach(mid, kids, p)
    BY <2>2 DEF InsertFragment, ArrivedEach, kids, prev
  <2> HIDE DEF mid, e
  <2>16. /\ mid \in States /\ mid.next = nexts /\ mid.prev = prevs
         /\ mid.parent = d.parent /\ mid.owner = d.owner /\ mid.data = d.data
         /\ mid.watch = d.watch
    <3> HIDE DEF nexts, prevs
    <3> QED BY <1>1, <2>13, <2>14, RelinkedIs
  <2>17. /\ e \in States /\ e.next = nexts /\ e.prev = prevs /\ e.owner = d.owner /\ e.data = d.data
         /\ e.parent = [n \in Nodes |-> IF \E j \in 1..m : kids[j] = n THEN p ELSE d.parent[n]]
    <3> HIDE DEF nexts, prevs
    <3> QED BY <2>5, <2>15, <2>16, ArrivedEachIs
  <2>18. \A n \in Nodes : (\E j \in 1..m : kids[j] = n) <=> d.parent[n] = f
    <3>1. ASSUME NEW n \in Nodes, d.parent[n] = f PROVE \E j \in 1..m : kids[j] = n
      <4>1. n \in Children /\ f # Null
        BY <1>2, <1>6, <3>1, Kinds DEF RowsOf, Loose
      <4>2. n \in Items /\ Home(d, n) = f
        BY <3>1, <4>1, Kinds DEF Home
      <4>3. PICK k \in 2..(size[f] - 1) : at[f][k] = n
        BY <1>1, <1>2, <4>1, <4>2, PlaceOf
      <4>4. k - 1 \in 1..m /\ 1 + (k - 1) = k
        BY <1>7
      <4>5. QED
        BY <2>5, <4>3, <4>4
    <3>2. ASSUME NEW n \in Nodes, NEW j \in 1..m, kids[j] = n PROVE d.parent[n] = f
      <4>1. 1 + j \in 2..(size[f] - 1)
        BY <1>7
      <4>2. QED
        BY <1>8, <2>5, <3>2, <4>1
    <3>3. QED
      BY <3>1, <3>2
  <2>19. e.parent = [n \in Nodes |-> IF d.parent[n] = f THEN p ELSE d.parent[n]]
    BY <2>17, <2>18
  <2>20. FragmentIn(e, d, f, p, q)
    BY <2>8, <2>17, <2>19 DEF FragmentIn, prev
  <2>21. RowsOf(e, SizeFilled(size, p, f, m), RowFilled(at, p, i, f, m))
    <3>1. m = size[f] - 2 /\ m \in Nat /\ m > 0
      BY <1>7, <2>1 DEF m
    <3>2. QED
      BY <1>1, <1>2, <1>4, <1>5, <2>17, <2>20, <3>1, FragmentInRows
  <2>22. Tells(e)
    <3>1. Tells(mid)
      BY <2>16 DEF Tells, Whole
    <3>2. \A j, k \in 1..m : kids[j] = kids[k] => j = k
      <4>1. \A j \in 1..m : 1 + j \in 2..(size[f] - 1) /\ kids[j] = at[f][1 + j]
        BY <1>7, <2>5
      <4>2. \A j, k \in 2..(size[f] - 1) : at[f][j] = at[f][k] => j = k
        BY <1>3, <1>6 DEF Contents
      <4>3. \A j, k \in 1..m : 1 + j = 1 + k => j = k
        OBVIOUS
      <4>4. QED
        BY <4>1, <4>2, <4>3
    <3>3. \A j \in 1..m : mid.parent[kids[j]] = f /\ e.parent[kids[j]] = p
      <4>1. \A j \in 1..m : kids[j] \in Nodes
        BY <2>5, Kinds
      <4>2. QED
        BY <2>16, <2>17, <2>18, <4>1
    <3>4. f \notin Elements \cup {Doc}
      BY <1>6, DomAssumption DEF DomAssumption
    <3>5. e.next = mid.next
      BY <2>16, <2>17
    <3>6. mid \in States /\ e \in States /\ p \in Parents /\ kids \in Seq(Children) /\ Len(kids) = m
      BY <2>5, <2>16, <2>17
    <3>7. \A j \in 1..m : mid.parent[kids[j]] \notin Elements \cup {Doc}
      BY ONLY <3>3, <3>4
    <3>8. \A j \in 1..m : e.parent[kids[j]] = p
      BY ONLY <3>3
    <3>9. Tells(ArrivedEach(mid, kids, p))
      BY ONLY <2>21, <3>1, <3>2, <3>5, <3>6, <3>7, <3>8, ArrivedEachTells
    <3>10. QED
      BY ONLY <2>15, <3>9
  <2>23. QED
    <3>1. \E s, t : RowsOf(e, s, t)
      BY ONLY <2>21
    <3>2. Whole(e)
      BY ONLY <2>17, <2>22, <3>1 DEF Whole
    <3>3. QED
      BY ONLY <2>17, <3>2 DEF e
<1>12. QED
  BY <1>10, <1>11

-----------------------------------------------------------------------------
(* The operations keep the links whole.                                       *)
Moves(e, d) == Whole(e) /\ e.data = d.data

LEMMA InsertInFrontWhole ==
  ASSUME NEW d, Whole(d), NEW p \in Parents, NEW n \in Children \cup Fragments, n # p \/ n \in Children,
         NEW q, Spot(d, p, q)
  PROVE  Moves(InsertInFront(d, p, n, q), d)
<1>1. CASE n = q
  BY <1>1 DEF InsertInFront, Moves
<1>2. CASE n # q /\ n \in Fragments
  <2>1. n # p
    BY <1>2, Kinds
  <2>2. Whole(InsertFragment(d, p, n, q)) /\ InsertFragment(d, p, n, q).data = d.data
    BY <1>2, <2>1, InsertFragmentWhole
  <2>3. QED
    BY <1>2, <2>2 DEF InsertInFront, Moves
<1>3. CASE n # q /\ n \notin Fragments
  <2>1. n \in Children
    BY <1>3
  <2>2. /\ Whole(InsertNode(RemoveNode(d, n), p, n, q))
        /\ Homed(InsertNode(RemoveNode(d, n), p, n, q), d, n, p)
    BY <1>3, <2>1, MoveWhole
  <2>3. QED
    BY <1>3, <2>2 DEF InsertInFront, Homed, Moves
<1>4. QED
  BY <1>1, <1>2, <1>3

(* Removing children one by one: replaceChildren.                             *)
LEMMA RemoveEachSteps ==
  ASSUME NEW d \in States, NEW nodes \in Seq(Children)
  PROVE  \E step : /\ step[0] = d
                   /\ step[Len(nodes)] = FoldLeft(RemoveNode, d, nodes)
                   /\ \A k \in 1..Len(nodes) : step[k] = RemoveNode(step[k - 1], nodes[k])
<1> DEFINE n == Len(nodes)
           F(iter) == [s \in SUBSET DOMAIN nodes |->
                         IF s = {} THEN d
                         ELSE RemoveNode(iter[s \ {Max(s)}], nodes[Max(s)])]
           each == CHOOSE iter : iter = F(iter)
           step == [k \in 1..n |-> [x \in States |-> RemoveNode(x, nodes[k])]]
<1>1. n \in Nat /\ DOMAIN nodes = 1..n /\ \A k \in 1..n : nodes[k] \in Children
  OBVIOUS
<1>2. FoldLeft(RemoveNode, d, nodes) = each[1..n]
  BY <1>1 DEF FoldLeft, MapThenFoldSet
<1>3. step \in [1..n -> [States -> States]]
  BY <1>1, RemoveNodeUnlinks
<1>4. PICK f \in [SUBSET (1..n) -> States] : Folding(f, d, n, step)
  <2> HIDE DEF step, n
  <2>1. n \in Nat /\ d \in States
    BY <1>1
  <2>2. QED
    BY ONLY <1>3, <2>1, FoldExists
<1>5. f = F(f)
  <2>1. ASSUME NEW s \in SUBSET (1..n), s # {}
        PROVE  f[s] = RemoveNode(f[s \ {Max(s)}], nodes[Max(s)])
    <3>1. Max(s) \in 1..n
      BY <1>1, <2>1, MaxIn
    <3>2. f[s \ {Max(s)}] \in States
      OBVIOUS
    <3>3. QED
      BY <1>4, <2>1, <3>1, <3>2 DEF Folding
  <2>2. QED
    BY <1>1, <1>4, <2>1 DEF Folding
<1>6. each = F(each)
  <2> HIDE DEF F
  <2> QED BY <1>5
<1> DEFINE body == [s \in SUBSET (1..n) |->
                      RemoveNode(each[s \ {Max(s)}], nodes[Max(s)])]
<1>7. Unfolding(each, d, n, body)
  <2> HIDE DEF each
  <2> QED BY <1>1, <1>6 DEF Unfolding
<1> HIDE DEF each
<1>8. UnfoldedBy(each, d, n, body)
  <2> HIDE DEF body
  <2> QED BY <1>1, <1>7, FoldSteps
<1>9. \A k \in 1..n : each[1..k] = RemoveNode(each[1..(k - 1)], nodes[k])
  <2>1. TAKE k \in 1..n
  <2>2. 1..k \in SUBSET (1..n)
    OBVIOUS
  <2>3. body[1..k] = RemoveNode(each[(1..k) \ {Max(1..k)}], nodes[Max(1..k)])
    BY <2>2
  <2> HIDE DEF body
  <2>4. QED
    BY <1>8, <2>3 DEF UnfoldedBy
<1> DEFINE along == [k \in Nat |-> each[1..k]]
<1>10. /\ along[0] = d
       /\ along[n] = FoldLeft(RemoveNode, d, nodes)
       /\ \A k \in 1..n : along[k] = RemoveNode(along[k - 1], nodes[k])
  BY <1>1, <1>2, <1>8, <1>9 DEF UnfoldedBy
<1>11. QED
  <2> HIDE DEF along
  <2> QED BY <1>10

LEMMA RemoveEachWhole ==
  ASSUME NEW d, Whole(d), NEW nodes \in Seq(Children)
  PROVE  Moves(FoldLeft(RemoveNode, d, nodes), d)
<1> DEFINE reached == {x \in States : Moves(x, d)}
<1>1. d \in States /\ d \in reached
  BY DEF Whole, Moves
<1>2. Len(nodes) \in Nat /\ \A k \in 1..Len(nodes) : nodes[k] \in Children
  OBVIOUS
<1>3. PICK step : /\ step[0] = d
                  /\ step[Len(nodes)] = FoldLeft(RemoveNode, d, nodes)
                  /\ \A k \in 1..Len(nodes) : step[k] = RemoveNode(step[k - 1], nodes[k])
  BY <1>1, RemoveEachSteps
<1>4. ASSUME NEW k \in 1..Len(nodes), step[k - 1] \in reached
      PROVE  step[k] \in reached
  <2> DEFINE c == step[k - 1]
             e == RemoveNode(c, nodes[k])
  <2>1. Whole(c) /\ c.data = d.data /\ step[k] = e
    BY <1>3, <1>4 DEF Moves
  <2> HIDE DEF c
  <2>2. Whole(e) /\ Homed(e, c, nodes[k], Null)
    BY <1>2, <2>1, RemoveNodeWhole
  <2> HIDE DEF e
  <2>3. QED
    BY <2>1, <2>2 DEF Homed, Moves, Whole
<1>5. step[Len(nodes)] \in reached
  <2> HIDE DEF reached
  <2> QED BY <1>1, <1>2, <1>3, <1>4, StepsKeep
<1>6. QED
  BY <1>3, <1>5

LEMMA KidsTyped ==
  ASSUME NEW d, Whole(d), NEW p \in Parents
  PROVE  /\ ChildNodes(d, p) \in Seq(Children)
         /\ \A n \in Children : d.parent[n] = p <=> n \in ToSet(ChildNodes(d, p))
         /\ FirstChild(d, p) \in Children \cup {Null}
         /\ FirstChild(d, p) # Null => d.parent[FirstChild(d, p)] = p
<1>1. PICK size, at : RowsOf(d, size, at)
  BY DEF Whole
<1>2. QED
  BY <1>1, KidsIn DEF Whole

LEMMA ReplaceChildrenWhole ==
  ASSUME NEW d, Whole(d), NEW p \in Parents, NEW nodes \in Seq(Children)
  PROVE  Moves(ReplaceChildren(d, p, nodes), d)
<1> DEFINE bare == FoldLeft(RemoveNode, d, ChildNodes(d, p))
<1>1. Moves(bare, d)
  BY KidsTyped, RemoveEachWhole
<1>2. ReplaceChildren(d, p, nodes) = InsertEach(bare, p, nodes, Null)
  BY DEF ReplaceChildren
<1> HIDE DEF bare
<1>3. MovedOnly(InsertEach(bare, p, nodes, Null), bare, {nodes[i] : i \in DOMAIN nodes})
  BY <1>1, InsertEachWhole DEF Moves
<1>4. QED
  BY <1>1, <1>2, <1>3 DEF Moves, MovedOnly

LEMMA InsertGatheredWhole ==
  ASSUME NEW d, Whole(d), NEW p \in Parents, NEW nodes \in Seq(Children), NEW f \in Fragments, f # p,
         NEW q \in Children, d.parent[q] = p, \A i \in DOMAIN nodes : nodes[i] # q
  PROVE  Moves(InsertGathered(d, p, nodes, q, f), d)
<1> DEFINE gathered == InsertEach(d, f, nodes, Null)
           moved == {nodes[i] : i \in DOMAIN nodes}
<1>1. f \in Parents /\ f \notin Children
  BY Kinds DEF Items
<1>2. MovedOnly(gathered, d, moved)
  BY <1>1, InsertEachWhole
<1>3. q \notin moved
  OBVIOUS
<1> HIDE DEF gathered, moved
<1>4. Whole(gathered) /\ gathered.data = d.data /\ Spot(gathered, p, q)
  BY <1>2, <1>3 DEF MovedOnly, Spot
<1>5. Moves(InsertInFront(gathered, p, f, q), gathered)
  BY <1>4, InsertInFrontWhole
<1>6. QED
  BY <1>4, <1>5 DEF Moves, InsertGathered, gathered

LEMMA ReplaceChildWhole ==
  ASSUME NEW d, Whole(d), NEW p \in Parents, NEW n \in Children \cup Fragments, n # p,
         NEW replaced \in Children, d.parent[replaced] = p
  PROVE  Moves(ReplaceChild(d, p, n, replaced), d)
<1> DEFINE off == RemoveNode(d, replaced)
           q == d.next[GetEnd(replaced)]
<1>1. Whole(off) /\ Homed(off, d, replaced, Null)
  BY RemoveNodeWhole
<1>2. Spot(d, p, q) /\ q # replaced
  BY NextIsSpot
<1> HIDE DEF off, q
<1>3. d.parent \in [Nodes -> Parents \cup {Null}] /\ Children \subseteq Nodes
  BY Kinds DEF Whole, States
<1>4. Spot(off, p, q)
  BY <1>1, <1>2, <1>3 DEF Spot, Homed
<1>5. Moves(InsertInFront(off, p, n, q), off)
  BY <1>1, <1>4, InsertInFrontWhole
<1>6. QED
  BY <1>1, <1>5 DEF Moves, Homed, ReplaceChild, off, q

(* The data of a text.                                                        *)
LEMMA SameLinksWhole ==
  ASSUME NEW d, Whole(d), NEW e \in States, SameLinks(e, d), Tells(e)
  PROVE  Whole(e)
BY SameLinksSameRows DEF Whole

LEMMA DataChanged ==
  ASSUME NEW d \in States, NEW text \in Texts, NEW value \in Seq(Texts)
  PROVE  /\ [d EXCEPT !.data[text] = value] \in States
         /\ SameLinks([d EXCEPT !.data[text] = value], d)
         /\ [d EXCEPT !.data[text] = value].data = [d.data EXCEPT ![text] = value]
         /\ [d EXCEPT !.data[text] = value].watch = d.watch
BY DEF States, SameLinks

LEMMA SetDataTyped ==
  ASSUME NEW d \in States, NEW text \in Texts, NEW value \in Seq(Texts)
  PROVE  /\ SetData(d, text, value) \in States
         /\ SameLinks(SetData(d, text, value), d)
         /\ SetData(d, text, value).data = [d.data EXCEPT ![text] = value]
         /\ Tells(d) => Tells(SetData(d, text, value))
<1> DEFINE c == [d EXCEPT !.data[text] = value]
<1>1. /\ c \in States /\ SameLinks(c, d) /\ c.data = [d.data EXCEPT ![text] = value]
      /\ c.watch = d.watch
  BY DataChanged
<1>2. text \in Nodes
  BY Kinds DEF Children
<1>3. SetData(d, text, value) = MoCallback(c, text, d.parent[text])
  BY DEF SetData
<1> HIDE DEF c
<1>4. /\ MoCallback(c, text, d.parent[text]) \in States
      /\ SameLinks(MoCallback(c, text, d.parent[text]), c)
      /\ MoCallback(c, text, d.parent[text]).data = c.data
  BY <1>1, <1>2, MoCallbackKeepsLinks
<1>5. Tells(d) => Tells(MoCallback(c, text, d.parent[text]))
  <2>1. Tells(d) => Informed(c.watch, told, d.parent)
    BY <1>1 DEF Tells
  <2>2. Informed(c.watch, told, d.parent)
          => Informed(MoCallback(c, text, d.parent[text]).watch, told, d.parent)
    BY <1>1, TextKeepsInformed
  <2>3. MoCallback(c, text, d.parent[text]).parent = d.parent
    BY <1>1, <1>4 DEF SameLinks
  <2>4. QED
    BY <2>1, <2>2, <2>3 DEF Tells
<1>6. QED
  BY <1>1, <1>3, <1>4, <1>5 DEF SameLinks

LEMMA NormalizeOneTyped ==
  ASSUME NEW d \in States, NEW n
  PROVE  /\ NormalizeOne(d, n) \in States
         /\ Whole(d) => Whole(NormalizeOne(d, n))
<1> DEFINE prev == d.prev[n]
           joined == SetData(d, prev, d.data[prev] \o d.data[n])
<1>1. CASE n \notin Texts
  BY <1>1 DEF NormalizeOne
<1>2. CASE n \in Texts /\ d.data[n] = <<>>
  <2>1. n \in Children
    BY <1>2 DEF Children
  <2>2. NormalizeOne(d, n) = RemoveNode(d, n)
    BY <1>2 DEF NormalizeOne
  <2>3. QED
    BY <2>1, <2>2, RemoveNodeUnlinks, RemoveNodeWhole
<1>3. CASE n \in Texts /\ d.data[n] # <<>> /\ prev \in Texts
  <2>1. n \in Children
    BY <1>3 DEF Children
  <2>2. NormalizeOne(d, n) = RemoveNode(joined, n)
    BY <1>3 DEF NormalizeOne
  <2>3. d.data[prev] \o d.data[n] \in Seq(Texts)
    <3>1. d.data[prev] \in Seq(Texts) /\ d.data[n] \in Seq(Texts)
      BY <1>3 DEF States
    <3>2. QED
      BY <3>1
  <2> HIDE DEF prev
  <2>4. joined \in States /\ SameLinks(joined, d) /\ (Tells(d) => Tells(joined))
    BY <1>3, <2>3, SetDataTyped
  <2> HIDE DEF joined
  <2>5. RemoveNode(joined, n) \in States
    BY <2>1, <2>4, RemoveNodeUnlinks
  <2>6. Whole(d) => Whole(RemoveNode(joined, n))
    <3>1. Whole(d) => Tells(d)
      BY DEF Whole
    <3>2. QED
      BY <2>1, <2>4, <3>1, SameLinksWhole, RemoveNodeWhole
  <2>7. QED
    BY <2>2, <2>5, <2>6
<1>4. CASE n \in Texts /\ d.data[n] # <<>> /\ prev \notin Texts
  BY <1>4 DEF NormalizeOne
<1>5. QED
  BY <1>1, <1>2, <1>3, <1>4

(* Reading a parent's list from itself to its end node gives nodes.           *)
LEMMA InsideTyped ==
  ASSUME NEW d \in States, NEW p \in Parents
  PROVE  Inside(d, p) \in Seq(Linked)
<1> DEFINE C == Cardinality(Linked)
           G == Linked \cup {Null}
           to == End(p)
           S == [G -> Seq(Linked)]
           F(rest) == [k \in Steps |->
                         [n \in G |-> IF n = Null THEN <<>>
                                      ELSE IF n = to \/ k = 0 THEN <<n>>
                                      ELSE <<n>> \o rest[k - 1][d.next[n]]]]
           start == [n \in G |-> IF n = Null THEN <<>> ELSE <<n>>]
           step == [k \in 1..C |-> [x \in S |->
                      [n \in G |-> IF n = Null THEN <<>>
                                   ELSE IF n = to THEN <<n>> ELSE <<n>> \o x[d.next[n]]]]]
           chosen == CHOOSE rest : rest = F(rest)
<1>1. C \in Nat
  BY DomAssumption, FS_CardinalityType DEF DomAssumption
<1>2. start \in S
  OBVIOUS
<1>3. step \in [1..C -> [S -> S]]
  <2>1. ASSUME NEW k \in 1..C, NEW x \in S
        PROVE  [n \in G |-> IF n = Null THEN <<>>
                            ELSE IF n = to THEN <<n>> ELSE <<n>> \o x[d.next[n]]] \in S
    <3>1. ASSUME NEW n \in G
          PROVE  (IF n = Null THEN <<>> ELSE IF n = to THEN <<n>> ELSE <<n>> \o x[d.next[n]])
                    \in Seq(Linked)
      <4>1. CASE n = Null
        BY <4>1
      <4>2. CASE n # Null
        <5>1. n \in Linked /\ d.next[n] \in G
          BY <4>2 DEF States
        <5> HIDE DEF G
        <5>2. x[d.next[n]] \in Seq(Linked) /\ <<n>> \in Seq(Linked)
          BY <5>1
        <5>3. <<n>> \o x[d.next[n]] \in Seq(Linked)
          BY <5>2
        <5>4. QED
          BY <4>2, <5>2, <5>3
      <4>3. QED
        BY <4>1, <4>2
    <3>2. QED
      BY <3>1
  <2> HIDE DEF G, S, C
  <2>2. QED
    BY <2>1
<1>4. PICK f \in [0..C -> S] : Recursion(f, start, C, step)
  <2> HIDE DEF start, step, S, C
  <2>2. QED
    BY <1>1, <1>2, <1>3, FunctionByRecursion
<1>5. f = F(f)
  <2>1. Steps = 0..C
    BY DEF Steps
  <2>2. f[0] = [n \in G |-> IF n = Null THEN <<>> ELSE <<n>>]
    BY <1>4 DEF Recursion
  <2>3. \A k \in 1..C :
          f[k] = [n \in G |-> IF n = Null THEN <<>>
                              ELSE IF n = to THEN <<n>> ELSE <<n>> \o f[k - 1][d.next[n]]]
    <3>1. TAKE k \in 1..C
    <3>2. k - 1 \in 0..C
      BY <1>1
    <3>3. f[k - 1] \in S /\ f[k] = step[k][f[k - 1]]
      <4> HIDE DEF C, S, step
      <4> QED BY <1>4, <3>2 DEF Recursion
    <3> HIDE DEF C, G, S
    <3>4. QED
      BY <3>3
  <2>4. ASSUME NEW k \in 0..C
        PROVE  f[k] = [n \in G |-> IF n = Null THEN <<>>
                                   ELSE IF n = to \/ k = 0 THEN <<n>>
                                   ELSE <<n>> \o f[k - 1][d.next[n]]]
    <3>1. CASE k = 0
      BY <2>2, <3>1
    <3>2. CASE k # 0
      <4>1. k \in 1..C /\ (k = 0) = FALSE
        BY <1>1, <3>2
      <4>2. [n \in G |-> IF n = Null THEN <<>>
                         ELSE IF n = to \/ k = 0 THEN <<n>>
                         ELSE <<n>> \o f[k - 1][d.next[n]]]
              = [n \in G |-> IF n = Null THEN <<>>
                             ELSE IF n = to THEN <<n>> ELSE <<n>> \o f[k - 1][d.next[n]]]
        BY <4>1
      <4>3. QED
        BY <2>3, <4>1, <4>2
    <3>3. QED
      BY <3>1, <3>2
  <2> HIDE DEF C, G
  <2>5. QED
    BY <2>1, <2>4
<1>6. chosen = F(chosen)
  <2> HIDE DEF F
  <2> QED BY <1>5
<1>7. Inside(d, p) = chosen[C][p]
  BY DEF Inside, Chain
<1>8. \A k \in 0..C :
        chosen[k] = [n \in G |-> IF n = Null THEN <<>>
                                 ELSE IF n = to \/ k = 0 THEN <<n>>
                                 ELSE <<n>> \o chosen[k - 1][d.next[n]]]
  <2> HIDE DEF chosen, G
  <2> QED BY <1>6 DEF Steps
<1> HIDE DEF chosen, F, start, step
<1>9. chosen[0] \in S
  <2>1. chosen[0] = [n \in G |-> IF n = Null THEN <<>>
                                 ELSE IF n = to \/ 0 = 0 THEN <<n>>
                                 ELSE <<n>> \o chosen[0 - 1][d.next[n]]]
    <3> HIDE DEF C, G
    <3>1. 0 \in 0..C
      BY <1>1
    <3>2. QED
      BY ONLY <1>8, <3>1
  <2>2. QED
    BY <2>1
<1>10. \A k \in 1..C : chosen[k - 1] \in S => chosen[k] \in S
  <2>1. ASSUME NEW k \in 1..C, chosen[k - 1] \in S
        PROVE  chosen[k] \in S
    <3> DEFINE x == chosen[k - 1]
               at(n) == IF n = Null THEN <<>>
                        ELSE IF n = to \/ k = 0 THEN <<n>> ELSE <<n>> \o x[d.next[n]]
    <3>1. chosen[k] = [n \in G |-> at(n)]
      <4> HIDE DEF C, G
      <4>1. k \in 0..C
        BY <1>1
      <4>2. QED
        BY ONLY <1>8, <4>1 DEF at, x
    <3>2. ASSUME NEW n \in G PROVE at(n) \in Seq(Linked)
      <4>1. CASE n = Null
        BY <4>1
      <4>2. CASE n # Null
        <5>1. n \in Linked /\ d.next[n] \in G
          BY <4>2 DEF States
        <5> HIDE DEF G, x
        <5>2. x[d.next[n]] \in Seq(Linked) /\ <<n>> \in Seq(Linked)
          BY <2>1, <5>1 DEF x
        <5>3. <<n>> \o x[d.next[n]] \in Seq(Linked)
          BY <5>2
        <5>4. QED
          BY <4>2, <5>2, <5>3
      <4>3. QED
        BY <4>1, <4>2
    <3> HIDE DEF at, G
    <3>3. QED
      BY <3>1, <3>2
  <2>2. QED
    BY <2>1
<1>11. chosen[C] \in S
  <2> HIDE DEF S, C
  <2> QED BY <1>1, <1>9, <1>10, StepsKeep
<1>12. p \in G
  BY Kinds
<1>13. QED
  BY <1>7, <1>11, <1>12

LEMMA NormalizeAllSteps ==
  ASSUME NEW d \in States, NEW nodes \in Seq(Linked)
  PROVE  \E step : /\ step[0] = d
                   /\ step[Len(nodes)] = FoldLeft(NormalizeOne, d, nodes)
                   /\ \A k \in 1..Len(nodes) : step[k] = NormalizeOne(step[k - 1], nodes[k])
<1> DEFINE n == Len(nodes)
           F(iter) == [s \in SUBSET DOMAIN nodes |->
                         IF s = {} THEN d
                         ELSE NormalizeOne(iter[s \ {Max(s)}], nodes[Max(s)])]
           each == CHOOSE iter : iter = F(iter)
           step == [k \in 1..n |-> [x \in States |-> NormalizeOne(x, nodes[k])]]
<1>1. n \in Nat /\ DOMAIN nodes = 1..n /\ \A k \in 1..n : nodes[k] \in Linked
  OBVIOUS
<1>2. FoldLeft(NormalizeOne, d, nodes) = each[1..n]
  BY <1>1 DEF FoldLeft, MapThenFoldSet
<1>3. step \in [1..n -> [States -> States]]
  BY <1>1, NormalizeOneTyped
<1>4. PICK f \in [SUBSET (1..n) -> States] : Folding(f, d, n, step)
  <2> HIDE DEF step, n
  <2>1. n \in Nat /\ d \in States
    BY <1>1
  <2>2. QED
    BY ONLY <1>3, <2>1, FoldExists
<1>5. f = F(f)
  <2>1. ASSUME NEW s \in SUBSET (1..n), s # {}
        PROVE  f[s] = NormalizeOne(f[s \ {Max(s)}], nodes[Max(s)])
    <3>1. Max(s) \in 1..n
      BY <1>1, <2>1, MaxIn
    <3>2. f[s \ {Max(s)}] \in States
      OBVIOUS
    <3>3. QED
      BY <1>4, <2>1, <3>1, <3>2 DEF Folding
  <2>2. QED
    BY <1>1, <1>4, <2>1 DEF Folding
<1>6. each = F(each)
  <2> HIDE DEF F
  <2> QED BY <1>5
<1> DEFINE body == [s \in SUBSET (1..n) |->
                      NormalizeOne(each[s \ {Max(s)}], nodes[Max(s)])]
<1>7. Unfolding(each, d, n, body)
  <2> HIDE DEF each
  <2> QED BY <1>1, <1>6 DEF Unfolding
<1> HIDE DEF each
<1>8. UnfoldedBy(each, d, n, body)
  <2> HIDE DEF body
  <2> QED BY <1>1, <1>7, FoldSteps
<1>9. \A k \in 1..n : each[1..k] = NormalizeOne(each[1..(k - 1)], nodes[k])
  <2>1. TAKE k \in 1..n
  <2>2. 1..k \in SUBSET (1..n)
    OBVIOUS
  <2>3. body[1..k] = NormalizeOne(each[(1..k) \ {Max(1..k)}], nodes[Max(1..k)])
    BY <2>2
  <2> HIDE DEF body
  <2>4. QED
    BY <1>8, <2>3 DEF UnfoldedBy
<1> DEFINE along == [k \in Nat |-> each[1..k]]
<1>10. /\ along[0] = d
       /\ along[n] = FoldLeft(NormalizeOne, d, nodes)
       /\ \A k \in 1..n : along[k] = NormalizeOne(along[k - 1], nodes[k])
  BY <1>1, <1>2, <1>8, <1>9 DEF UnfoldedBy
<1>11. QED
  <2> HIDE DEF along
  <2> QED BY <1>10

LEMMA NormalizeAllWhole ==
  ASSUME NEW d, Whole(d), NEW p \in Parents
  PROVE  Whole(NormalizeAll(d, p))
<1> DEFINE nodes == Inside(d, p)
<1>1. d \in States
  BY DEF Whole
<1>2. nodes \in Seq(Linked) /\ Len(nodes) \in Nat
  BY <1>1, InsideTyped
<1> HIDE DEF nodes
<1>3. PICK step : /\ step[0] = d
                  /\ step[Len(nodes)] = FoldLeft(NormalizeOne, d, nodes)
                  /\ \A k \in 1..Len(nodes) : step[k] = NormalizeOne(step[k - 1], nodes[k])
  BY <1>1, <1>2, NormalizeAllSteps
<1> DEFINE reached == {step[k] : k \in {k \in 0..Len(nodes) : Whole(step[k])}}
<1>4. step[0] \in reached
  BY <1>2, <1>3
<1>5. \A k \in 1..Len(nodes) : step[k - 1] \in reached => step[k] \in reached
  <2>1. ASSUME NEW k \in 1..Len(nodes), step[k - 1] \in reached
        PROVE  step[k] \in reached
    <3>1. Whole(step[k - 1])
      BY <2>1
    <3>2. step[k - 1] \in States
      BY <3>1 DEF Whole
    <3>3. Whole(step[k])
      BY <1>3, <2>1, <3>1, <3>2, NormalizeOneTyped
    <3>4. QED
      BY <1>2, <3>3
  <2>2. QED
    BY <2>1
<1>6. step[Len(nodes)] \in reached
  <2> HIDE DEF reached
  <2> QED BY <1>2, <1>4, <1>5, StepsKeep
<1>7. QED
  BY <1>3, <1>6 DEF NormalizeAll, nodes

(* An attribute that goes leaves the list of its element.                     *)
Owned(e, d, a, p) ==
  e.parent = d.parent /\ e.owner = [d.owner EXCEPT ![a] = p] /\ e.data = d.data

LEMMA RemoveAttributeWhole ==
  ASSUME NEW d, Whole(d), NEW a \in Attributes
  PROVE  Whole(RemoveAttribute(d, a)) /\ Owned(RemoveAttribute(d, a), d, a, Null)
<1>1. PICK size, at : RowsOf(d, size, at)
  BY DEF Whole
<1>2. d \in States /\ a \in Items /\ Home(d, a) = d.owner[a] /\ a \notin Children
  BY Kinds DEF Whole, Home
<1>3. d.owner \in [Attributes -> Elements \cup {Null}] /\ d.parent \in [Nodes -> Parents \cup {Null}]
  BY <1>2 DEF States
<1>4. CASE d.owner[a] = Null
  <2>1. RemoveAttribute(d, a) = d
    BY <1>4 DEF RemoveAttribute
  <2>2. QED
    BY <1>3, <1>4, <2>1 DEF Owned
<1>5. CASE d.owner[a] # Null
  <2> DEFINE e == AttributeUnlinked(d, a)
             p == d.owner[a]
  <2>1. RemoveAttribute(d, a) = e
    BY <1>5 DEF RemoveAttribute
  <2>2. e \in States /\ Unlinked(e, d, a) /\ e.data = d.data /\ Tells(e)
    <3>1. Tells(d)
      BY DEF Whole
    <3>2. QED
      BY <1>2, <1>5, <3>1, AttributeUnlinks
  <2> HIDE DEF e
  <2>3. PICK i \in 2..(size[p] - 1) : at[p][i] = a
    BY <1>1, <1>2, <1>5, PlaceOf
  <2>4. p \in Parents
    BY <1>2, <1>3, <1>5, Kinds
  <2> HIDE DEF p
  <2>5. RowsOf(e, [size EXCEPT ![p] = size[p] - 1], RowWithout(at, p, i))
    BY <1>1, <1>2, <2>2, <2>3, <2>4, UnlinkedRows
  <2>6. Whole(e)
    BY <2>2, <2>5 DEF Whole
  <2>7. e.parent = d.parent /\ e.owner = [d.owner EXCEPT ![a] = Null]
    BY <1>2, <1>3, <2>2 DEF Unlinked
  <2>8. QED
    BY <2>1, <2>2, <2>6, <2>7 DEF Owned
<1>6. QED
  BY <1>4, <1>5

(* The attribute an element has is the only one it owns.                      *)
LEMMA OneAttribute ==
  ASSUME NEW d, Whole(d), NEW e \in Elements, NEW a \in Attributes
  PROVE  d.owner[a] = e <=> GetAttributeNode(d, e) = a
<1>1. PICK size, at : RowsOf(d, size, at)
  BY DEF Whole
<1>2. d \in States /\ a \in Items /\ Home(d, a) = d.owner[a] /\ e # Null /\ e \in Parents
      /\ a # Null
  BY Kinds DEF Whole, Home
<1>3. Shape(size, at) /\ Contents(d, size, at) /\ LinksFollow(d, size, at)
  BY <1>1 DEF RowsOf
<1>4. size[e] \in Nat /\ size[e] >= 2 /\ at[e][size[e]] = End(e) /\ at[e][1] = e
  BY <1>2, <1>3 DEF Shape
<1>5. d.next[e] = at[e][2]
  <2>1. 1 \in 1..(size[e] - 1) /\ Out(at, e, 1) = e
    BY <1>4 DEF Out
  <2>2. QED
    BY <1>2, <1>3, <2>1 DEF LinksFollow
<1>6. ASSUME d.owner[a] = e PROVE GetAttributeNode(d, e) = a
  <2>1. PICK i \in 2..(size[e] - 1) : at[e][i] = a
    BY <1>1, <1>2, <1>6, PlaceOf
  <2>2. i = 2
    BY <1>2, <1>3, <2>1 DEF Contents
  <2>3. QED
    BY <1>5, <2>1, <2>2 DEF GetAttributeNode
<1>7. ASSUME GetAttributeNode(d, e) = a PROVE d.owner[a] = e
  <2>1. at[e][2] = a
    BY <1>2, <1>5, <1>7 DEF GetAttributeNode
  <2>2. size[e] # 2
    BY <1>2, <1>4, <2>1, Kinds
  <2>3. 2 \in 2..(size[e] - 1)
    BY <1>4, <2>2
  <2>4. Home(d, a) = e
    BY <1>2, <1>3, <2>1, <2>3 DEF Contents
  <2>5. QED
    BY <1>2, <2>4
<1>8. QED
  BY <1>6, <1>7

(* An attribute that has no element is linked in behind the element.          *)
LEMMA AttributeIn ==
  ASSUME NEW d, Whole(d), NEW e \in Elements, NEW a \in Attributes, d.owner[a] = Null,
         \A b \in Attributes : d.owner[b] # e
  PROVE  Moves(MoAttributes([KnownSegment(d, e, a, a, d.next[e]) EXCEPT !.owner[a] = e], e), d)
<1>1. PICK size, at : RowsOf(d, size, at)
  BY DEF Whole
<1>2. d \in States /\ a \in Items /\ Home(d, a) = Null /\ e # Null /\ e \in Parents
      /\ e \in Nodes /\ a \notin Elements /\ a \in Nodes /\ a \in Linked
  BY Kinds DEF Whole, Home
<1>3. Shape(size, at) /\ Contents(d, size, at) /\ LinksFollow(d, size, at)
  BY <1>1 DEF RowsOf
<1>4. size[e] \in Nat /\ size[e] >= 2 /\ at[e][size[e]] = End(e) /\ at[e][2] \in Linked
  <2>1. size[e] \in Nat \ {0, 1} /\ at[e] \in [Nat -> Linked] /\ at[e][size[e]] = End(e)
    BY <1>2, <1>3 DEF Shape
  <2>2. QED
    BY <2>1
<1> DEFINE q == at[e][2]
<1>5. d.next[e] = q /\ d.prev[q] = e
  <2>1. 1 \in 1..(size[e] - 1) /\ Out(at, e, 1) = e
    BY <1>4 DEF Out
  <2>2. QED
    BY <1>2, <1>3, <2>1 DEF LinksFollow
<1>6. q \notin Attributes
  <2>1. CASE size[e] = 2
    BY <1>2, <1>4, <2>1, Kinds
  <2>2. CASE size[e] # 2
    <3>1. 2 \in 2..(size[e] - 1)
      BY <1>4, <2>2
    <3>2. Home(d, q) = e
      BY <1>2, <1>3, <3>1 DEF Contents
    <3>3. QED
      BY <3>2 DEF Home
  <2>3. QED
    BY <2>1, <2>2
<1>7. q \in Linked /\ a # q
  BY <1>4, <1>6
<1> DEFINE next == [m \in Linked |-> IF m = GetEnd(a) THEN q ELSE IF m = d.prev[q] THEN a ELSE d.next[m]]
           prev == [m \in Linked |-> IF m = q THEN GetEnd(a) ELSE IF m = a THEN d.prev[q] ELSE d.prev[m]]
           c == Relinked(d, next, prev)
           o == [c EXCEPT !.owner[a] = e]
           r == MoAttributes(o, e)
<1>8. KnownSegment(d, e, a, a, d.next[e]) = c
  <2> HIDE DEF q
  <2>1. KnownSegment(d, d.prev[q], a, a, q) = c
    BY <1>2, <1>7, SegmentIs
  <2>2. QED
    BY <1>5, <2>1
<1>9. next \in [Linked -> Linked \cup {Null}] /\ prev \in [Linked -> Linked \cup {Null}]
  <2> HIDE DEF q
  <2> QED BY <1>2, <1>7, SegmentTypes
<1> HIDE DEF q
<1>10. /\ c \in States /\ c.next = next /\ c.prev = prev /\ c.parent = d.parent
       /\ c.owner = d.owner /\ c.data = d.data /\ c.watch = d.watch
  <2> HIDE DEF next, prev
  <2> QED BY <1>2, <1>9, RelinkedIs
<1> HIDE DEF c
<1>11. /\ o \in States /\ o.next = c.next /\ o.prev = c.prev /\ o.parent = c.parent
       /\ o.owner = [c.owner EXCEPT ![a] = e] /\ o.data = c.data /\ o.watch = c.watch
  BY <1>10, OwnerChanged
<1> HIDE DEF o
<1>12. r \in States /\ SameLinks(r, o) /\ r.data = o.data
  BY <1>2, <1>11, MoAttributesKeepsLinks
<1>121. Informed(r.watch, told, d.parent)
  <2>1. Informed(o.watch, told, d.parent)
    BY <1>10, <1>11 DEF Whole, Tells
  <2>2. QED
    BY <1>2, <1>11, <2>1, MoAttributesKeepsLinks
<1> HIDE DEF r
<1>13. /\ r.next = next /\ r.prev = prev /\ r.parent = d.parent
       /\ r.owner = [d.owner EXCEPT ![a] = e] /\ r.data = d.data
  BY <1>10, <1>11, <1>12 DEF SameLinks
<1>14. LinkedIn(r, d, a, q, e)
  <2>1. d.owner \in [Attributes -> Elements \cup {Null}] /\ d.parent \in [Nodes -> Parents \cup {Null}]
    BY <1>2 DEF States
  <2>2. r.parent = [n \in Nodes |-> IF n = a /\ n \in Children THEN e ELSE d.parent[n]]
    BY <1>13, <2>1, Kinds
  <2>3. r.owner = [b \in Attributes |-> IF b = a THEN e ELSE d.owner[b]]
    BY <1>13, <2>1
  <2>4. QED
    BY <1>13, <2>2, <2>3 DEF LinkedIn
<1>15. RowsOf(r, [size EXCEPT ![e] = size[e] + 1], RowWith(at, e, 2, a))
  <2> HIDE DEF next, prev
  <2>1. 2 \in 2..size[e] /\ at[e][2] = q
    BY <1>4 DEF q
  <2>2. QED
    BY <1>1, <1>2, <1>6, <1>12, <1>14, <2>1, LinkedInRows
<1>16. Whole(r) /\ r.data = d.data
  <2>1. Tells(r)
    BY <1>13, <1>121 DEF Tells
  <2>2. QED
    BY <1>12, <1>13, <1>15, <2>1 DEF Whole
<1>17. QED
  BY <1>8, <1>16 DEF Moves, r, o

LEMMA SetAttributeNodeWhole ==
  ASSUME NEW d, Whole(d), NEW e \in Elements, NEW a \in Attributes
  PROVE  Moves(SetAttributeNode(d, e, a), d)
<1> DEFINE previously == GetAttributeNode(d, e)
           rid == IF previously = Null THEN d ELSE RemoveAttribute(d, previously)
           free == RemoveAttribute(rid, a)
<1>1. CASE previously = a
  BY <1>1 DEF SetAttributeNode, Moves
<1>2. CASE previously # a
  <2>1. previously \in Attributes \cup {Null} /\ Null \notin Attributes
    BY Kinds DEF GetAttributeNode
  <2>2. \A b \in Attributes : d.owner[b] = e <=> previously = b
    BY OneAttribute
  <2>3. d.owner \in [Attributes -> Elements \cup {Null}] /\ e # Null
    BY Kinds DEF Whole, States
  <2>4. SetAttributeNode(d, e, a) =
          MoAttributes([KnownSegment(free, e, a, a, free.next[e]) EXCEPT !.owner[a] = e], e)
    BY <1>2 DEF SetAttributeNode
  <2> HIDE DEF previously
  <2>5. Whole(rid) /\ rid.data = d.data /\ \A b \in Attributes : rid.owner[b] # e
    <3>1. CASE previously = Null
      BY <2>1, <2>2, <3>1
    <3>2. CASE previously # Null
      <4>1. previously \in Attributes /\ rid = RemoveAttribute(d, previously)
        BY <2>1, <3>2
      <4> HIDE DEF rid
      <4>2. Whole(rid) /\ Owned(rid, d, previously, Null)
        BY <4>1, RemoveAttributeWhole
      <4>3. QED
        BY <2>2, <2>3, <4>1, <4>2 DEF Owned
    <3>3. QED
      BY <3>1, <3>2
  <2> HIDE DEF rid
  <2>6. Whole(free) /\ Owned(free, rid, a, Null)
    BY <2>5, RemoveAttributeWhole
  <2> HIDE DEF free
  <2>7. rid.owner \in [Attributes -> Elements \cup {Null}]
    BY <2>5 DEF Whole, States
  <2>8. free.owner[a] = Null /\ free.data = d.data /\ \A b \in Attributes : free.owner[b] # e
    BY <2>3, <2>5, <2>6, <2>7 DEF Owned
  <2>9. QED
    BY <2>4, <2>6, <2>8, AttributeIn DEF Moves
<1>3. QED
  BY <1>1, <1>2

(* A range takes its stretch of siblings out of the list at once, and then    *)
(* removes them one by one from what is no longer a list: t is such a state   *)
(* and e the one without the first of these two steps.  P and Q are the       *)
(* neighbours of the stretch; only there may the two differ.                  *)
Torn(t, e, P, Q) ==
  /\ t \in States /\ e \in States
  /\ t.parent = e.parent /\ t.owner = e.owner /\ t.data = e.data
  /\ \A m \in Linked : m # P => t.next[m] = e.next[m]
  /\ \A m \in Linked : m # Q => t.prev[m] = e.prev[m]

(* The stretch s has n nodes, of which k are gone.                            *)
Span(s, n, P, Q) ==
  /\ P \in Linked /\ Q \in Linked
  /\ \A i \in 1..n : s[i] \in Children /\ s[i] # Q /\ GetEnd(s[i]) # P
  /\ \A i, j \in 1..n : s[i] = s[j] => i = j

Ahead(e, s, k, n, P, Q) ==
  /\ k < n => e.prev[s[k + 1]] = P
  /\ \A j \in (k + 1)..n : e.next[GetEnd(s[j])] = IF j = n THEN Q ELSE s[j + 1]

LEMMA TornRemove ==
  ASSUME NEW t, NEW e, NEW P \in Linked, NEW Q \in Linked, Torn(t, e, P, Q),
         NEW x \in Children, x # Q, GetEnd(x) # P, e.prev[x] = P
  PROVE  /\ Torn(RemoveNode(t, x), RemoveNode(e, x), P, Q)
         /\ e.next[GetEnd(x)] = Q => SameLinks(RemoveNode(t, x), RemoveNode(e, x))
         /\ RemoveNode(t, x).data = RemoveNode(e, x).data
         /\ RemoveNode(t, x).next = RemoveNode(e, x).next
<1> DEFINE T == RemoveNode(t, x)
           E == RemoveNode(e, x)
           y == e.next[GetEnd(x)]
<1>1. t \in States /\ e \in States /\ x \in Linked /\ GetEnd(x) \in Linked
  BY Kinds, GetEnds DEF Torn
<1>2. T \in States /\ Unlinked(T, t, x) /\ T.data = t.data
  BY <1>1, RemoveNodeUnlinks
<1>3. E \in States /\ Unlinked(E, e, x) /\ E.data = e.data
  BY <1>1, RemoveNodeUnlinks
<1> HIDE DEF T, E
<1>4. t.prev[x] = P /\ t.next[GetEnd(x)] = y
  BY <1>1 DEF Torn
<1> HIDE DEF y
<1>5. T.parent = E.parent /\ T.owner = E.owner /\ T.data = E.data
  BY <1>2, <1>3 DEF Torn, Unlinked
<1>6. T.next = [m \in Linked |-> IF m = GetEnd(x) THEN Null ELSE IF m = P THEN y ELSE t.next[m]]
  BY <1>2, <1>4 DEF Unlinked
<1>7. E.next = [m \in Linked |-> IF m = GetEnd(x) THEN Null ELSE IF m = P THEN y ELSE e.next[m]]
  BY <1>3 DEF Unlinked, y
<1>8. T.prev = [m \in Linked |-> IF m = x THEN Null ELSE IF m = y THEN P ELSE t.prev[m]]
  BY <1>2, <1>4 DEF Unlinked
<1>9. E.prev = [m \in Linked |-> IF m = x THEN Null ELSE IF m = y THEN P ELSE e.prev[m]]
  BY <1>3 DEF Unlinked, y
<1>10. T.next = E.next
  BY <1>6, <1>7 DEF Torn
<1>11. \A m \in Linked : m # Q => T.prev[m] = E.prev[m]
  BY <1>8, <1>9 DEF Torn
<1>12. ASSUME y = Q PROVE T.prev = E.prev
  BY <1>8, <1>9, <1>12 DEF Torn
<1>13. Torn(T, E, P, Q)
  BY <1>2, <1>3, <1>5, <1>10, <1>11 DEF Torn
<1>14. QED
  BY <1>5, <1>10, <1>12, <1>13 DEF SameLinks, T, E, y

LEMMA AheadRemove ==
  ASSUME NEW e \in States, NEW P, NEW Q, NEW s, NEW n \in Nat, Span(s, n, P, Q),
         NEW k \in Nat, k < n, Ahead(e, s, k, n, P, Q)
  PROVE  /\ Ahead(RemoveNode(e, s[k + 1]), s, k + 1, n, P, Q)
         /\ \A m \in Linked : m # Q /\ (\A i \in 1..n : s[i] # m) =>
              RemoveNode(e, s[k + 1]).prev[m] = e.prev[m]
<1> DEFINE x == s[k + 1]
           E == RemoveNode(e, x)
           y == IF k + 1 = n THEN Q ELSE s[k + 2]
<1>1. k + 1 \in 1..n /\ x \in Children /\ x \in Linked /\ GetEnd(x) \in Linked /\ x \in Items
  <2>1. k + 1 \in 1..n
    OBVIOUS
  <2>2. x \in Children
    BY <2>1 DEF Span
  <2>3. QED
    BY <2>1, <2>2, Kinds, GetEnds
<1>2. E \in States /\ Unlinked(E, e, x)
  BY <1>1, RemoveNodeUnlinks
<1>3. e.prev[x] = P /\ e.next[GetEnd(x)] = y
  <2>1. k + 1 \in (k + 1)..n /\ (k + 1) + 1 = k + 2
    OBVIOUS
  <2>2. QED
    BY <2>1 DEF Ahead
<1> HIDE DEF E
<1>4. E.next = [m \in Linked |-> IF m = GetEnd(x) THEN Null ELSE IF m = P THEN y ELSE e.next[m]]
  <2> HIDE DEF x, y
  <2> QED BY <1>2, <1>3 DEF Unlinked
<1>5. E.prev = [m \in Linked |-> IF m = x THEN Null ELSE IF m = y THEN P ELSE e.prev[m]]
  <2> HIDE DEF x, y
  <2> QED BY <1>2, <1>3 DEF Unlinked
<1>6. ASSUME k + 1 < n PROVE E.prev[s[(k + 1) + 1]] = P
  <2>1. k + 2 \in 1..n /\ k + 2 # k + 1 /\ (k + 1) + 1 = k + 2 /\ k + 1 # n
    BY <1>6
  <2>2. s[k + 2] \in Children /\ s[k + 2] # x
    BY <1>1, <2>1 DEF Span
  <2>3. y = s[k + 2] /\ s[k + 2] \in Linked
    BY <2>1, <2>2, Kinds
  <2> HIDE DEF x, y
  <2>4. E.prev[y] = P
    BY <1>5, <2>2, <2>3
  <2>5. QED
    BY <2>1, <2>3, <2>4
<1>7. ASSUME NEW j \in ((k + 1) + 1)..n
      PROVE  E.next[GetEnd(s[j])] = IF j = n THEN Q ELSE s[j + 1]
  <2>1. j \in 1..n /\ j \in (k + 1)..n /\ j # k + 1
    OBVIOUS
  <2>2. s[j] \in Children /\ s[j] # x /\ GetEnd(s[j]) # P
    BY <1>1, <2>1 DEF Span
  <2>3. s[j] \in Items /\ s[j] \in Linked
    BY <2>2, Kinds
  <2>4. GetEnd(s[j]) # GetEnd(x) /\ GetEnd(s[j]) \in Linked
    BY <1>1, <2>2, <2>3, GetEnds
  <2>5. E.next[GetEnd(s[j])] = e.next[GetEnd(s[j])]
    BY <1>4, <2>2, <2>4
  <2>6. QED
    BY <2>1, <2>5 DEF Ahead
<1>8. Ahead(E, s, k + 1, n, P, Q)
  BY <1>6, <1>7 DEF Ahead
<1>9. ASSUME NEW m \in Linked, m # Q, \A i \in 1..n : s[i] # m
      PROVE  E.prev[m] = e.prev[m]
  <2>1. x # m
    BY <1>1, <1>9
  <2>2. y # m
    <3>1. CASE k + 1 = n
      BY <1>9, <3>1
    <3>2. CASE k + 1 # n
      <4>1. k + 2 \in 1..n
        BY <3>2
      <4>2. QED
        BY <1>9, <3>2, <4>1
    <3>3. QED
      BY <3>1, <3>2
  <2> HIDE DEF x, y
  <2>3. QED
    BY <1>5, <2>1, <2>2
<1>10. QED
  BY <1>8, <1>9 DEF E, x

(* With a fragment each node goes to the end of it.                           *)
LEMMA MovedIs ==
  ASSUME NEW d \in States, NEW f \in Parents, NEW x \in Children
  PROVE  /\ RemoveNode(d, x) \in States
         /\ InsertBefore(d, f, x, Null) \in States
         /\ LinkedIn(InsertBefore(d, f, x, Null), RemoveNode(d, x), x, End(f), f)
         /\ InsertBefore(d, f, x, Null).data = RemoveNode(d, x).data
<1>1. x # Null /\ End(f) \in Linked /\ x # End(f)
  BY Kinds
<1>2. InsertBefore(d, f, x, Null) = InsertNode(RemoveNode(d, x), f, x, End(f))
  BY <1>1, InsertBeforeIs DEF Position
<1>3. RemoveNode(d, x) \in States
  BY RemoveNodeUnlinks
<1>4. QED
  BY <1>1, <1>2, <1>3, InsertNodeLinks

LEMMA TornInsert ==
  ASSUME NEW t, NEW e, NEW P \in Linked, NEW Q \in Linked, Torn(t, e, P, Q),
         NEW x \in Children, x # Q, GetEnd(x) # P, e.prev[x] = P,
         NEW f \in Parents, End(f) # Q
  PROVE  /\ Torn(InsertBefore(t, f, x, Null), InsertBefore(e, f, x, Null), P, Q)
         /\ e.next[GetEnd(x)] = Q =>
              SameLinks(InsertBefore(t, f, x, Null), InsertBefore(e, f, x, Null))
         /\ Tells(t) /\ Whole(InsertBefore(e, f, x, Null)) =>
              Tells(InsertBefore(t, f, x, Null))
<1> DEFINE T0 == RemoveNode(t, x)
           E0 == RemoveNode(e, x)
           T == InsertBefore(t, f, x, Null)
           E == InsertBefore(e, f, x, Null)
           z == End(f)
           out == E0.prev[z]
<1>1. t \in States /\ e \in States
  BY DEF Torn
<1>2. /\ Torn(T0, E0, P, Q) /\ T0.data = E0.data /\ T0.next = E0.next
      /\ e.next[GetEnd(x)] = Q => SameLinks(T0, E0)
  BY TornRemove
<1>3. T \in States /\ LinkedIn(T, T0, x, z, f) /\ T.data = T0.data
  BY <1>1, MovedIs
<1>4. E \in States /\ LinkedIn(E, E0, x, z, f) /\ E.data = E0.data
  BY <1>1, MovedIs
<1>5. z \in Linked /\ x # z
  BY Kinds
<1>51. /\ T = InsertNode(T0, f, x, z) /\ T0 \in States /\ T0.parent[x] = Null
       /\ Tells(t) => Tells(T0)
  <2>1. T = InsertNode(T0, f, x, z)
    <3>1. x # Null
      BY Kinds
    <3>2. QED
      BY <3>1, InsertBeforeIs DEF Position
  <2>2. T0 \in States /\ Unlinked(T0, t, x) /\ (Tells(t) => Tells(T0))
    BY <1>1, RemoveNodeUnlinks
  <2>3. x \in Nodes
    BY Kinds
  <2>4. QED
    BY <2>1, <2>2, <2>3 DEF Unlinked
<1> HIDE DEF T, E, T0, E0, z
<1>6. T0.prev[z] = out
  BY <1>2, <1>5 DEF Torn, z
<1> HIDE DEF out
<1>7. T.next = [m \in Linked |-> IF m = GetEnd(x) THEN z ELSE IF m = out THEN x ELSE T0.next[m]]
  BY <1>3, <1>6 DEF LinkedIn
<1>8. E.next = [m \in Linked |-> IF m = GetEnd(x) THEN z ELSE IF m = out THEN x ELSE E0.next[m]]
  BY <1>4 DEF LinkedIn, out
<1>9. T.prev = [m \in Linked |-> IF m = z THEN GetEnd(x) ELSE IF m = x THEN out ELSE T0.prev[m]]
  BY <1>3, <1>6 DEF LinkedIn
<1>10. E.prev = [m \in Linked |-> IF m = z THEN GetEnd(x) ELSE IF m = x THEN out ELSE E0.prev[m]]
  BY <1>4 DEF LinkedIn, out
<1>11. T.parent = E.parent /\ T.owner = E.owner /\ T.data = E.data
  BY <1>2, <1>3, <1>4 DEF Torn, LinkedIn
<1>12. \A m \in Linked : m # P => T.next[m] = E.next[m]
  BY <1>2, <1>7, <1>8 DEF Torn
<1>13. \A m \in Linked : m # Q => T.prev[m] = E.prev[m]
  BY <1>2, <1>9, <1>10 DEF Torn
<1>14. ASSUME e.next[GetEnd(x)] = Q PROVE SameLinks(T, E)
  <2>1. T0.next = E0.next /\ T0.prev = E0.prev
    BY <1>2, <1>14 DEF SameLinks
  <2>2. T.next = E.next /\ T.prev = E.prev
    BY <1>7, <1>8, <1>9, <1>10, <2>1
  <2>3. QED
    BY <1>11, <2>2 DEF SameLinks
<1>15. Torn(T, E, P, Q)
  BY <1>3, <1>4, <1>11, <1>12, <1>13 DEF Torn
<1>16. ASSUME Tells(t), Whole(E) PROVE Tells(T)
  <2>1. PICK size, at : RowsOf(E, size, at)
    BY <1>16 DEF Whole
  <2>2. E.next = T.next /\ E.parent[x] = f
    <3>1. x \in Nodes
      BY Kinds
    <3>2. QED
      BY <1>2, <1>4, <1>7, <1>8, <3>1 DEF LinkedIn
  <2>3. Tells(InsertNode(T0, f, x, z))
    BY <1>4, <1>5, <1>16, <1>51, <2>1, <2>2, InsertNodeTells
  <2>4. QED
    BY <1>51, <2>3
<1>17. QED
  BY <1>14, <1>15, <1>16 DEF T, E

Filled(e, s, k, f) == e.prev[End(f)] = IF k = 0 THEN f ELSE GetEnd(s[k])

LEMMA AheadInsert ==
  ASSUME NEW e \in States, NEW P, NEW Q, NEW s, NEW n \in Nat, Span(s, n, P, Q),
         NEW k \in Nat, k < n, Ahead(e, s, k, n, P, Q), NEW f \in Fragments, End(f) # Q,
         Filled(e, s, k, f)
  PROVE  /\ Ahead(InsertBefore(e, f, s[k + 1], Null), s, k + 1, n, P, Q)
         /\ Filled(InsertBefore(e, f, s[k + 1], Null), s, k + 1, f)
<1> DEFINE x == s[k + 1]
           E0 == RemoveNode(e, x)
           E == InsertBefore(e, f, x, Null)
           z == End(f)
           out == E0.prev[z]
<1>1. /\ k + 1 \in 1..n /\ x \in Children /\ x \in Linked /\ GetEnd(x) \in Linked /\ x \in Items
      /\ f \in Parents /\ z \in Linked /\ z \notin Nodes
  <2>1. k + 1 \in 1..n
    OBVIOUS
  <2>2. x \in Children
    BY <2>1 DEF Span
  <2>3. QED
    BY <2>1, <2>2, Kinds, GetEnds
<1>2. E \in States /\ LinkedIn(E, E0, x, z, f)
  BY <1>1, MovedIs
<1>3. Ahead(E0, s, k + 1, n, P, Q) /\ out = e.prev[z]
  <2>1. \A i \in 1..n : s[i] # z
    BY <1>1, Kinds DEF Span
  <2> HIDE DEF z
  <2>2. QED
    BY <1>1, <2>1, AheadRemove DEF z
<1>4. out = IF k = 0 THEN f ELSE GetEnd(s[k])
  BY <1>3 DEF Filled
<1> HIDE DEF E, E0, z, out
<1>5. E.next = [m \in Linked |-> IF m = GetEnd(x) THEN z ELSE IF m = out THEN x ELSE E0.next[m]]
  BY <1>2 DEF LinkedIn, out
<1>6. E.prev = [m \in Linked |-> IF m = z THEN GetEnd(x) ELSE IF m = x THEN out ELSE E0.prev[m]]
  BY <1>2 DEF LinkedIn, out
<1>7. Filled(E, s, k + 1, f)
  <2>1. E.prev[z] = GetEnd(x)
    BY <1>1, <1>6
  <2>2. k + 1 # 0
    OBVIOUS
  <2>3. QED
    BY <2>1, <2>2 DEF Filled, z
<1>8. ASSUME k + 1 < n PROVE E.prev[s[(k + 1) + 1]] = P
  <2>1. k + 2 \in 1..n /\ k + 2 # k + 1 /\ (k + 1) + 1 = k + 2
    BY <1>8
  <2>2. s[k + 2] \in Children /\ s[k + 2] # x
    BY <1>1, <2>1 DEF Span
  <2>3. s[k + 2] \in Linked /\ s[k + 2] # z
    BY <1>1, <2>2, Kinds
  <2>4. E0.prev[s[k + 2]] = P
    BY <1>3, <1>8, <2>1 DEF Ahead
  <2> HIDE DEF x
  <2>5. QED
    BY <1>6, <2>1, <2>2, <2>3, <2>4
<1>9. ASSUME NEW j \in ((k + 1) + 1)..n
      PROVE  E.next[GetEnd(s[j])] = IF j = n THEN Q ELSE s[j + 1]
  <2>1. j \in 1..n /\ j # k + 1 /\ (k # 0 => k \in 1..n /\ j # k)
    OBVIOUS
  <2>2. s[j] \in Children /\ s[j] # x
    BY <1>1, <2>1 DEF Span
  <2>3. s[j] \in Items /\ s[j] \in Linked
    BY <2>2, Kinds
  <2>4. GetEnd(s[j]) # GetEnd(x) /\ GetEnd(s[j]) \in Linked
    BY <1>1, <2>2, <2>3, GetEnds
  <2>5. GetEnd(s[j]) # out
    <3>1. CASE k = 0
      BY <1>1, <1>4, <2>3, <3>1, GetEnds
    <3>2. CASE k # 0
      <4>1. s[k] \in Items /\ s[k] # s[j]
        BY <2>1, <3>2, Kinds DEF Span
      <4>2. QED
        BY <1>4, <2>3, <3>2, <4>1, GetEnds
    <3>3. QED
      BY <3>1, <3>2
  <2>6. E.next[GetEnd(s[j])] = E0.next[GetEnd(s[j])]
    BY <1>5, <2>4, <2>5
  <2>7. QED
    BY <1>3, <2>6 DEF Ahead
<1>10. Ahead(E, s, k + 1, n, P, Q)
  BY <1>8, <1>9 DEF Ahead
<1>11. QED
  BY <1>7, <1>10 DEF E, x

LEMMA SpanRemoved ==
  ASSUME NEW d, Whole(d), NEW t, NEW P, NEW Q, Torn(t, d, P, Q), Tells(t), NEW nodes \in Seq(Children),
         Len(nodes) > 0, Span(nodes, Len(nodes), P, Q), Ahead(d, nodes, 0, Len(nodes), P, Q)
  PROVE  Moves(FoldLeft(RemoveNode, t, nodes), d)
<1> DEFINE n == Len(nodes)
<1>1. d \in States /\ t \in States /\ n \in Nat /\ n > 0
  BY DEF Whole, Torn
<1>2. PICK a : /\ a[0] = t
               /\ a[n] = FoldLeft(RemoveNode, t, nodes)
               /\ \A k \in 1..n : a[k] = RemoveNode(a[k - 1], nodes[k])
  BY <1>1, RemoveEachSteps
<1>3. PICK b : /\ b[0] = d
               /\ b[n] = FoldLeft(RemoveNode, d, nodes)
               /\ \A k \in 1..n : b[k] = RemoveNode(b[k - 1], nodes[k])
  BY <1>1, RemoveEachSteps
<1> DEFINE Step(k) == /\ Torn(a[k], b[k], P, Q)
                      /\ Ahead(b[k], nodes, k, n, P, Q)
                      /\ k = n => SameLinks(a[k], b[k])
                      /\ Tells(a[k])
           reached == {k \in 0..n : Step(k)}
           count == [k \in 0..n |-> k]
<1>4. count[0] \in reached
  BY <1>1, <1>2, <1>3
<1>5. \A k \in 1..n : count[k - 1] \in reached => count[k] \in reached
  <2>1. ASSUME NEW k \in 1..n, count[k - 1] \in reached
        PROVE  count[k] \in reached
    <3> DEFINE j == k - 1
    <3>1. j \in Nat /\ j < n /\ j + 1 = k /\ j \in 0..n /\ k \in 0..n /\ count[j] = j /\ count[k] = k
      BY <1>1
    <3>2. Torn(a[j], b[j], P, Q) /\ Ahead(b[j], nodes, j, n, P, Q) /\ Tells(a[j])
      BY <2>1, <3>1
    <3>3. a[k] = RemoveNode(a[j], nodes[k]) /\ b[k] = RemoveNode(b[j], nodes[k])
      BY <1>2, <1>3
    <3> HIDE DEF n, j, reached, count
    <3>4. Span(nodes, n, P, Q)
      BY DEF n
    <3>5. /\ nodes[k] \in Children /\ nodes[k] # Q /\ GetEnd(nodes[k]) # P
          /\ P \in Linked /\ Q \in Linked
      BY <3>4 DEF Span
    <3>6. b[j].prev[nodes[k]] = P /\ (k = n => b[j].next[GetEnd(nodes[k])] = Q)
      <4>1. k \in (j + 1)..n
        BY <1>1, <3>1
      <4>2. b[j].prev[nodes[j + 1]] = P
        BY <3>1, <3>2 DEF Ahead
      <4>3. b[j].next[GetEnd(nodes[k])] = IF k = n THEN Q ELSE nodes[k + 1]
        BY <3>2, <4>1 DEF Ahead
      <4>4. QED
        BY <3>1, <4>2, <4>3
    <3>7. Torn(a[k], b[k], P, Q) /\ (k = n => SameLinks(a[k], b[k]))
      BY <3>2, <3>3, <3>5, <3>6, TornRemove
    <3>8. b[j] \in States /\ a[j] \in States
      BY <3>2 DEF Torn
    <3>9. Ahead(b[k], nodes, k, n, P, Q)
      BY <1>1, <3>1, <3>2, <3>3, <3>4, <3>8, AheadRemove
    <3>10. Tells(a[k])
      BY <3>2, <3>3, <3>5, <3>8, RemoveNodeUnlinks
    <3>11. QED
      BY <3>1, <3>7, <3>9, <3>10 DEF reached
  <2>2. QED
    BY <2>1
<1>6. n \in reached
  <2>1. count[n] \in reached
    <3> HIDE DEF reached, count, n
    <3> QED BY <1>1, <1>4, <1>5, StepsKeep
  <2>2. QED
    BY <1>1, <2>1
<1>7. Torn(a[n], b[n], P, Q) /\ SameLinks(a[n], b[n]) /\ Tells(a[n])
  BY <1>6
<1>8. Moves(b[n], d)
  BY <1>3, RemoveEachWhole
<1>9. a[n] \in States /\ a[n].data = b[n].data
  BY <1>7 DEF Torn
<1>10. Whole(a[n])
  BY <1>7, <1>8, <1>9, SameLinksWhole DEF Moves
<1>11. QED
  BY <1>2, <1>8, <1>9, <1>10 DEF Moves

LEMMA SpanMoved ==
  ASSUME NEW d, Whole(d), NEW t, NEW P, NEW Q, Torn(t, d, P, Q), Tells(t), NEW nodes \in Seq(Children),
         Len(nodes) > 0, Span(nodes, Len(nodes), P, Q), Ahead(d, nodes, 0, Len(nodes), P, Q),
         NEW f \in Fragments, End(f) # Q, d.prev[End(f)] = f
  PROVE  Moves(InsertEach(t, f, nodes, Null), d)
<1> DEFINE n == Len(nodes)
<1>1. d \in States /\ t \in States /\ n \in Nat /\ n > 0 /\ f \in Parents
  BY Kinds DEF Whole, Torn
<1>2. PICK a : /\ a[0] = t
               /\ a[n] = InsertEach(t, f, nodes, Null)
               /\ \A k \in 1..n : a[k] = InsertBefore(a[k - 1], f, nodes[k], Null)
  BY <1>1, InsertEachSteps
<1>3. PICK b : /\ b[0] = d
               /\ b[n] = InsertEach(d, f, nodes, Null)
               /\ \A k \in 1..n : b[k] = InsertBefore(b[k - 1], f, nodes[k], Null)
  BY <1>1, InsertEachSteps
<1> DEFINE Step(k) == /\ Torn(a[k], b[k], P, Q)
                      /\ Ahead(b[k], nodes, k, n, P, Q)
                      /\ Filled(b[k], nodes, k, f)
                      /\ k = n => SameLinks(a[k], b[k])
                      /\ Whole(b[k]) /\ Tells(a[k])
           reached == {k \in 0..n : Step(k)}
           count == [k \in 0..n |-> k]
<1>4. count[0] \in reached
  <2>1. Filled(d, nodes, 0, f)
    BY DEF Filled
  <2>2. QED
    BY <1>1, <1>2, <1>3, <2>1
<1>5. \A k \in 1..n : count[k - 1] \in reached => count[k] \in reached
  <2>1. ASSUME NEW k \in 1..n, count[k - 1] \in reached
        PROVE  count[k] \in reached
    <3> DEFINE j == k - 1
    <3>1. j \in Nat /\ j < n /\ j + 1 = k /\ j \in 0..n /\ k \in 0..n /\ count[j] = j /\ count[k] = k
      BY <1>1
    <3>2. /\ Torn(a[j], b[j], P, Q) /\ Ahead(b[j], nodes, j, n, P, Q) /\ Filled(b[j], nodes, j, f)
          /\ Whole(b[j]) /\ Tells(a[j])
      BY <2>1, <3>1
    <3>3. a[k] = InsertBefore(a[j], f, nodes[k], Null) /\ b[k] = InsertBefore(b[j], f, nodes[k], Null)
      BY <1>2, <1>3
    <3> HIDE DEF n, j, reached, count
    <3>4. Span(nodes, n, P, Q)
      BY DEF n
    <3>5. /\ nodes[k] \in Children /\ nodes[k] # Q /\ GetEnd(nodes[k]) # P
          /\ P \in Linked /\ Q \in Linked
      BY <3>4 DEF Span
    <3>6. b[j].prev[nodes[k]] = P /\ (k = n => b[j].next[GetEnd(nodes[k])] = Q)
      <4>1. k \in (j + 1)..n
        BY <1>1, <3>1
      <4>2. b[j].prev[nodes[j + 1]] = P
        BY <3>1, <3>2 DEF Ahead
      <4>3. b[j].next[GetEnd(nodes[k])] = IF k = n THEN Q ELSE nodes[k + 1]
        BY <3>2, <4>1 DEF Ahead
      <4>4. QED
        BY <3>1, <4>2, <4>3
    <3>61. Whole(b[k])
      <4>1. nodes[k] # Null
        BY <3>5, Kinds
      <4>2. QED
        BY <1>1, <3>2, <3>3, <3>5, <4>1, InsertBeforeWhole
    <3>7. Torn(a[k], b[k], P, Q) /\ (k = n => SameLinks(a[k], b[k])) /\ Tells(a[k])
      BY <1>1, <3>2, <3>3, <3>5, <3>6, <3>61, TornInsert
    <3>8. b[j] \in States
      BY <3>2 DEF Torn
    <3>9. Ahead(b[k], nodes, k, n, P, Q) /\ Filled(b[k], nodes, k, f)
      BY <1>1, <3>1, <3>2, <3>3, <3>4, <3>8, AheadInsert
    <3>10. QED
      BY <3>1, <3>61, <3>7, <3>9 DEF reached
  <2>2. QED
    BY <2>1
<1>6. n \in reached
  <2>1. count[n] \in reached
    <3> HIDE DEF reached, count, n
    <3> QED BY <1>1, <1>4, <1>5, StepsKeep
  <2>2. QED
    BY <1>1, <2>1
<1>7. Torn(a[n], b[n], P, Q) /\ SameLinks(a[n], b[n]) /\ Tells(a[n])
  BY <1>6
<1>8. Moves(b[n], d)
  BY <1>1, <1>3, InsertEachWhole DEF Moves, MovedOnly
<1>9. a[n] \in States /\ a[n].data = b[n].data
  BY <1>7 DEF Torn
<1>10. Whole(a[n])
  BY <1>7, <1>8, <1>9, SameLinksWhole DEF Moves
<1>11. QED
  BY <1>2, <1>8, <1>9, <1>10 DEF Moves

(* The stretch leaves the list at once.                                       *)
LEMMA ApartTorn ==
  ASSUME NEW d \in States, NEW P \in Linked, NEW Q \in Linked
  PROVE  Torn(SetAdjacent(d, P, Q), d, P, Q) /\ (Tells(d) => Tells(SetAdjacent(d, P, Q)))
<1> DEFINE next == [d.next EXCEPT ![P] = Q]
           prev == [d.prev EXCEPT ![Q] = P]
<1>1. P # Null /\ Q # Null
  BY Kinds
<1>2. d.next \in [Linked -> Linked \cup {Null}] /\ d.prev \in [Linked -> Linked \cup {Null}]
  BY DEF States
<1>3. next \in [Linked -> Linked \cup {Null}] /\ prev \in [Linked -> Linked \cup {Null}]
  BY <1>2
<1>4. SetAdjacent(d, P, Q) = Relinked(d, next, prev)
  BY <1>1 DEF SetAdjacent, Relinked
<1>5. \A m \in Linked : (m # P => next[m] = d.next[m]) /\ (m # Q => prev[m] = d.prev[m])
  BY <1>2
<1> HIDE DEF next, prev
<1>6. QED
  BY <1>3, <1>4, <1>5, RelinkedIs DEF Torn, Tells

(* The stretch of the n children from place i of the row of p on.             *)
StretchOf(at, p, i, n) == [j \in 1..n |-> at[p][(i + j) - 1]]

Stretched(d, at, p, i, n) ==
  LET s == StretchOf(at, p, i, n)
      P == Out(at, p, i - 1)
      Q == at[p][i + n]
  IN  /\ s \in Seq(Children) /\ Len(s) = n
      /\ Span(s, n, P, Q)
      /\ Ahead(d, s, 0, n, P, Q)
      /\ d.prev[at[p][i]] = P
      /\ d.next[GetEnd(at[p][(i + n) - 1])] = Q

LEMMA StretchIs ==
  ASSUME NEW d \in States, NEW size, NEW at, RowsOf(d, size, at), NEW p \in Parents,
         NEW i \in Nat, Lead(at, p) <= i, NEW n \in Nat, n > 0, i + n <= size[p]
  PROVE  Stretched(d, at, p, i, n)
<1> DEFINE s == StretchOf(at, p, i, n)
           P == Out(at, p, i - 1)
           Q == at[p][i + n]
<1>1. Shape(size, at) /\ Contents(d, size, at) /\ LinksFollow(d, size, at)
  BY DEF RowsOf
<1>2. size[p] \in Nat /\ at[p] \in [Nat -> Linked] /\ Lead(at, p) \in {2, 3}
  BY <1>1, LeadIs DEF Shape
<1>3. /\ i >= 2 /\ i - 1 \in 1..(size[p] - 1) /\ i + n \in 2..size[p] /\ (i - 1) + 1 = i
      /\ (i + n) - 1 \in 1..(size[p] - 1) /\ ((i + n) - 1) + 1 = i + n /\ (i + n) - 1 # 1
      /\ n \in 1..n /\ 1 \in 1..n
  BY <1>2
<1>4. ASSUME NEW j \in 1..n
      PROVE  /\ (i + j) - 1 \in Lead(at, p)..(size[p] - 1) /\ (i + j) - 1 \in 2..size[p]
             /\ (i + j) - 1 \in 1..(size[p] - 1) /\ (i + j) - 1 # i + n /\ (i + j) - 1 # i - 1
             /\ (i + j) - 1 # 1 /\ ((i + j) - 1) + 1 = i + j
             /\ j # n => j + 1 \in 1..n /\ (i + (j + 1)) - 1 = i + j
  BY <1>2, <1>3
<1>5. \A j \in 1..n : s[j] = at[p][(i + j) - 1] /\ s[j] \in Children
  <2>1. TAKE j \in 1..n
  <2>2. s[j] = at[p][(i + j) - 1]
    BY DEF StretchOf
  <2>3. at[p][(i + j) - 1] \in Children
    BY <1>4, LeadIs
  <2>4. QED
    BY <2>2, <2>3
<1>6. s \in Seq(Children) /\ Len(s) = n
  <2>1. s \in [1..n -> Children]
    BY <1>5 DEF StretchOf
  <2>2. QED
    BY <2>1
<1> HIDE DEF s
<1>7. /\ \A k, j \in 1..(size[p] - 1) : Out(at, p, k) = Out(at, p, j) => k = j
      /\ \A k, j \in 2..size[p] : at[p][k] = at[p][j] => k = j
      /\ \A k \in 1..(size[p] - 1) : Out(at, p, k) \in Linked
  BY <1>1, Places
<1>8. \A j \in 1..n : GetEnd(s[j]) = Out(at, p, (i + j) - 1)
  BY <1>4, <1>5 DEF Out
<1>9. Span(s, n, P, Q)
  <2>1. P \in Linked /\ Q \in Linked
    BY <1>2, <1>3, <1>7
  <2>2. ASSUME NEW j \in 1..n PROVE s[j] \in Children /\ s[j] # Q /\ GetEnd(s[j]) # P
    BY <1>3, <1>4, <1>5, <1>7, <1>8
  <2>3. ASSUME NEW j \in 1..n, NEW k \in 1..n, s[j] = s[k] PROVE j = k
    <3>1. (i + j) - 1 = (i + k) - 1
      BY <1>4, <1>5, <1>7, <2>3
    <3>2. QED
      BY <3>1
  <2> HIDE DEF P, Q
  <2>4. QED
    BY <2>1, <2>2, <2>3 DEF Span
<1>10. \A k \in 1..(size[p] - 1) : /\ d.next[Out(at, p, k)] = at[p][k + 1]
                                   /\ d.prev[at[p][k + 1]] = Out(at, p, k)
  BY <1>1 DEF LinksFollow
<1>11. d.prev[at[p][i]] = P
  BY <1>3, <1>10
<1>12. d.next[GetEnd(at[p][(i + n) - 1])] = Q
  <2>1. GetEnd(at[p][(i + n) - 1]) = Out(at, p, (i + n) - 1)
    BY <1>3 DEF Out
  <2>2. QED
    BY <1>3, <1>10, <2>1
<1>13. Ahead(d, s, 0, n, P, Q)
  <2>1. d.prev[s[0 + 1]] = P
    <3>1. s[1] = at[p][i]
      BY <1>3, <1>5
    <3>2. QED
      BY <1>11, <3>1
  <2>2. ASSUME NEW j \in (0 + 1)..n
        PROVE  d.next[GetEnd(s[j])] = IF j = n THEN Q ELSE s[j + 1]
    <3>1. j \in 1..n
      OBVIOUS
    <3>2. d.next[GetEnd(s[j])] = at[p][i + j]
      BY <1>4, <1>8, <1>10, <3>1
    <3>3. j # n => s[j + 1] = at[p][i + j]
      BY <1>4, <1>5, <3>1
    <3>4. QED
      BY <3>2, <3>3
  <2> HIDE DEF P, Q
  <2>3. QED
    BY <2>1, <2>2 DEF Ahead
<1>14. QED
  BY <1>6, <1>9, <1>11, <1>12, <1>13 DEF s, Stretched

LEMMA IndexIs ==
  ASSUME NEW kids, NEW m \in Nat, Len(kids) = m, NEW u \in 1..m, NEW x, kids[u] = x,
         \A v \in 1..m : kids[v] = x => v = u
  PROVE  PlaceIn(kids, x) = u
<1>1. {v \in 1..Len(kids) : kids[v] = x} = {u}
  OBVIOUS
<1>2. Min({u}) = u
  BY DEF Min
<1>3. QED
  BY <1>1, <1>2 DEF PlaceIn, SelectInSeq

(* Where a child stands: its place in the row and its index in childNodes.    *)
LEMMA KidPlace ==
  ASSUME NEW d \in States, NEW size, NEW at, RowsOf(d, size, at), NEW p \in Parents,
         NEW x \in Children, d.parent[x] = p
  PROVE  \E u \in 1..(size[p] - Lead(at, p)) :
           /\ at[p][(Lead(at, p) - 1) + u] = x
           /\ PlaceIn(ChildNodes(d, p), x) = u
<1> DEFINE lead == Lead(at, p)
           m == size[p] - lead
           kids == ChildNodes(d, p)
<1>1. Shape(size, at) /\ Contents(d, size, at)
  BY DEF RowsOf
<1>2. x \in Items /\ x \notin Attributes /\ p # Null
  BY Kinds
<1>3. Home(d, x) = p
  BY <1>2 DEF Home
<1>4. PICK i \in 2..(size[p] - 1) : at[p][i] = x
  BY <1>2, <1>3, PlaceOf
<1>5. size[p] \in Nat /\ lead \in {2, 3} /\ lead <= size[p] /\ m \in Nat
  <2>1. size[p] \in Nat /\ lead \in {2, 3} /\ lead <= size[p]
    BY <1>1, LeadIs DEF Shape
  <2>2. QED
    BY <2>1
<1>6. i >= lead
  BY <1>2, <1>4, LeadIs
<1>7. kids = [j \in 1..m |-> at[p][(lead - 1) + j]]
  BY KidsOf
<1> HIDE DEF kids, lead, m
<1> DEFINE u == i - (lead - 1)
<1>8. u \in 1..m /\ (lead - 1) + u = i
  BY <1>5, <1>6 DEF m
<1>9. kids[u] = x
  BY <1>4, <1>7, <1>8
<1>10. \A v \in 1..m : kids[v] = x => v = u
  <2>1. ASSUME NEW v \in 1..m, kids[v] = x PROVE v = u
    <3>1. (lead - 1) + v \in 2..(size[p] - 1) /\ at[p][(lead - 1) + v] = x
      BY <1>5, <1>7, <2>1 DEF m
    <3>2. (lead - 1) + v = i
      BY <1>1, <1>4, <3>1 DEF Contents
    <3>3. QED
      BY <1>5, <3>2
  <2>2. QED
    BY <2>1
<1>11. Len(kids) = m
  BY <1>5, <1>7
<1> HIDE DEF u
<1>12. PlaceIn(kids, x) = u
  BY <1>5, <1>8, <1>9, <1>10, <1>11, IndexIs
<1>13. QED
  BY <1>4, <1>8, <1>12 DEF kids, lead, m

LEMMA EmptyFragment ==
  ASSUME NEW d \in States, NEW size, NEW at, RowsOf(d, size, at), NEW f \in Parents,
         d.next[f] = End(f)
  PROVE  size[f] = 2 /\ d.prev[End(f)] = f
<1>1. Shape(size, at) /\ Contents(d, size, at) /\ LinksFollow(d, size, at)
  BY DEF RowsOf
<1>2. size[f] \in Nat \ {0, 1} /\ at[f][size[f]] = End(f)
  BY <1>1 DEF Shape
<1>3. 1 \in 1..(size[f] - 1) /\ 2 \in 2..size[f] /\ size[f] \in 2..size[f] /\ Out(at, f, 1) = f
  BY <1>2 DEF Out
<1>4. d.next[f] = at[f][2] /\ d.prev[at[f][2]] = f
  <2>1. 1 + 1 = 2
    OBVIOUS
  <2>2. QED
    BY <1>1, <1>3, <2>1 DEF LinksFollow
<1>5. 2 = size[f]
  BY <1>1, <1>2, <1>3, <1>4, Places
<1>6. QED
  BY <1>2, <1>4, <1>5

(* A range from a child to a sibling that is an element, or of one child.     *)
LEMMA TakeRangeWhole ==
  ASSUME NEW d, Whole(d), NEW first \in Children, NEW last \in Children,
         d.parent[first] # Null, d.parent[last] = d.parent[first],
         PlaceIn(ChildNodes(d, d.parent[first]), first)
           <= PlaceIn(ChildNodes(d, d.parent[first]), last),
         first = last \/ last \in Elements,
         NEW f \in Fragments \cup {Null}, f # Null => d.next[f] = End(f)
  PROVE  Moves(TakeRange(d, first, last, f), d)
<1> DEFINE p == d.parent[first]
           kids == ChildNodes(d, p)
<1>1. d \in States
  BY DEF Whole
<1>2. PICK size, at : RowsOf(d, size, at)
  BY DEF Whole
<1>3. p \in Parents
  BY <1>1, Kinds DEF States
<1> DEFINE lead == Lead(at, p)
           m == size[p] - lead
<1>4. PICK u \in 1..m : at[p][(lead - 1) + u] = first /\ PlaceIn(kids, first) = u
  BY <1>1, <1>2, <1>3, KidPlace
<1>5. PICK w \in 1..m : at[p][(lead - 1) + w] = last /\ PlaceIn(kids, last) = w
  BY <1>1, <1>2, <1>3, KidPlace
<1>6. size[p] \in Nat /\ lead \in {2, 3} /\ lead <= size[p] /\ m \in Nat
  <2>1. size[p] \in Nat /\ lead \in {2, 3} /\ lead <= size[p]
    BY <1>1, <1>2, <1>3, LeadIs DEF RowsOf, Shape
  <2>2. QED
    BY <2>1
<1>7. kids = [j \in 1..m |-> at[p][(lead - 1) + j]]
  <2> HIDE DEF p
  <2> QED BY ONLY <1>1, <1>2, <1>3, KidsOf
<1> DEFINE i == (lead - 1) + u
           n == (w - u) + 1
           nodes == StretchOf(at, p, i, n)
           P == Out(at, p, i - 1)
           Q == at[p][i + n]
           apart == SetAdjacent(d, P, Q)
<1>8. u <= w
  BY <1>4, <1>5
<1>9. /\ i \in Nat /\ lead <= i /\ n \in Nat /\ n > 0 /\ i + n <= size[p]
      /\ (i + n) - 1 = (lead - 1) + w /\ i \in 2..(size[p] - 1)
  <2> HIDE DEF lead
  <2> QED BY <1>6, <1>8
<1>10. SubSeq(kids, u, w) = nodes
  <2>1. SubSeq(kids, u, w) = [j \in 1..n |-> kids[(u + j) - 1]]
    <3>1. kids \in Seq(Children) /\ Len(kids) = m
      BY <1>3, <1>6, <1>7, KidsTyped
    <3>2. \A j \in 1..((1 + w) - u) : (j + u) - 1 = (u + j) - 1
      OBVIOUS
    <3>3. (1 + w) - u = n
      OBVIOUS
    <3> HIDE DEF kids, lead, m, n
    <3>4. SubSeq(kids, u, w) = [j \in 1..((1 + w) - u) |-> kids[(j + u) - 1]]
      BY <1>6, <1>8, <3>1
    <3>5. QED
      BY <3>2, <3>3, <3>4
  <2>2. \A j \in 1..n : kids[(u + j) - 1] = at[p][(i + j) - 1]
    <3>1. TAKE j \in 1..n
    <3>2. (u + j) - 1 \in 1..m /\ (lead - 1) + ((u + j) - 1) = (i + j) - 1
      <4> HIDE DEF lead, m
      <4> QED BY <1>6, <1>8
    <3> HIDE DEF lead, m, kids, i, n
    <3>3. QED
      BY <1>7, <3>2
  <2> HIDE DEF kids, lead, m, i, n
  <2>3. QED
    BY <2>1, <2>2 DEF StretchOf, nodes
<1> HIDE DEF lead, m, i, n
<1>11. /\ nodes \in Seq(Children) /\ Len(nodes) = n /\ Span(nodes, n, P, Q)
       /\ Ahead(d, nodes, 0, n, P, Q) /\ d.prev[at[p][i]] = P
       /\ d.next[GetEnd(at[p][(i + n) - 1])] = Q
  <2>1. Lead(at, p) <= i
    BY <1>9 DEF lead
  <2> HIDE DEF p, nodes, P, Q, apart, kids
  <2>2. Stretched(d, at, p, i, n)
    BY <1>1, <1>2, <1>3, <1>9, <2>1, StretchIs
  <2>3. QED
    BY <2>2 DEF Stretched, nodes, P, Q
<1>12. d.prev[first] = P /\ d.next[GetEnd(last)] = Q
  BY <1>4, <1>5, <1>9, <1>11 DEF i
<1> HIDE DEF nodes, P, Q, p, kids
<1>13. P \in Linked /\ Q \in Linked
  BY <1>11 DEF Span
<1>14. Torn(apart, d, P, Q) /\ Tells(apart)
  <2>1. Tells(d)
    BY DEF Whole
  <2> HIDE DEF apart
  <2>2. QED
    BY <1>1, <1>13, <2>1, ApartTorn DEF apart
<1>15. TakeRange(d, first, last, f) =
         IF f = Null THEN FoldLeft(RemoveNode, apart, nodes) ELSE InsertEach(apart, f, nodes, Null)
  <2>1. (IF first = last \/ last \in Elements THEN PlaceIn(kids, last) ELSE PlaceIn(kids, last) - 1) = w
    BY <1>5
  <2>2. TakeRange(d, first, last, f) =
          IF f = Null THEN FoldLeft(RemoveNode, apart, SubSeq(kids, u, w))
          ELSE InsertEach(apart, f, SubSeq(kids, u, w), Null)
    BY <1>4, <1>12, <2>1 DEF TakeRange, kids, p
  <2> HIDE DEF apart
  <2>3. QED
    BY <1>10, <2>2
<1> HIDE DEF apart
<1>16. CASE f = Null
  BY <1>9, <1>11, <1>14, <1>15, <1>16, SpanRemoved
<1>17. CASE f # Null
  <2>1. f \in Fragments /\ f \in Parents /\ d.next[f] = End(f)
    BY <1>17, Kinds
  <2>2. size[f] = 2 /\ d.prev[End(f)] = f
    BY <1>1, <1>2, <2>1, EmptyFragment
  <2>3. Shape(size, at) /\ Contents(d, size, at)
    BY <1>2 DEF RowsOf
  <2>4. at[f][2] = End(f) /\ 2 \in 2..size[f] /\ i + n \in 2..size[p]
    BY <1>6, <1>9, <2>1, <2>2, <2>3 DEF Shape
  <2>5. End(f) # Q
    <3>1. SUFFICES ASSUME End(f) = Q PROVE FALSE
      OBVIOUS
    <3>2. f = p
      BY <1>3, <2>1, <2>3, <2>4, <3>1, Places DEF Q
    <3>3. QED
      BY <1>6, <1>9, <2>2, <3>2
  <2>6. InsertEach(apart, f, nodes, Null) = TakeRange(d, first, last, f)
    BY <1>15, <1>17
  <2>7. QED
    BY <1>9, <1>11, <1>14, <2>1, <2>2, <2>5, <2>6, SpanMoved
<1>18. QED
  BY <1>16, <1>17

(* The list of a whole document: the two links of neighbours agree.           *)
Neighbours(d) ==
  \A n \in Linked :
    /\ d.next[n] # Null => d.prev[d.next[n]] = n
    /\ d.prev[n] # Null => d.next[d.prev[n]] = n

LEMMA WholeNeighbours ==
  ASSUME NEW d, Whole(d)
  PROVE  Neighbours(d)
<1>1. d \in States
  BY DEF Whole
<1>2. PICK size, at : RowsOf(d, size, at)
  BY DEF Whole
<1>3. Shape(size, at) /\ Contents(d, size, at) /\ LinksFollow(d, size, at) /\ Loose(d)
  BY <1>2 DEF RowsOf
<1>4. \A p \in Parents : /\ size[p] \in Nat /\ size[p] >= 2
                         /\ at[p][1] = p /\ at[p][size[p]] = End(p)
  <2>1. TAKE p \in Parents
  <2>2. size[p] \in Nat \ {0, 1} /\ at[p][1] = p /\ at[p][size[p]] = End(p)
    BY <1>3 DEF Shape
  <2>3. QED
    BY <2>2
<1>5. \A p \in Parents : \A i \in 1..(size[p] - 1) :
        d.prev[d.next[Out(at, p, i)]] = Out(at, p, i)
  BY <1>3 DEF LinksFollow
<1>6. \A p \in Parents : \A i \in 2..size[p] : d.next[d.prev[at[p][i]]] = at[p][i]
  <2>1. TAKE p \in Parents
  <2>2. TAKE i \in 2..size[p]
  <2>3. i - 1 \in 1..(size[p] - 1) /\ (i - 1) + 1 = i
    BY <1>4
  <2>4. QED
    BY <1>3, <2>3 DEF LinksFollow
<1>7. ASSUME NEW x \in Items
      PROVE  /\ d.next[GetEnd(x)] # Null => d.prev[d.next[GetEnd(x)]] = GetEnd(x)
             /\ d.prev[x] # Null => d.next[d.prev[x]] = x
  <2>1. CASE Home(d, x) = Null
    BY <1>3, <2>1 DEF Loose
  <2>2. CASE Home(d, x) # Null
    <3> DEFINE p == Home(d, x)
    <3>1. p \in Parents /\ \E i \in 2..(size[p] - 1) : at[p][i] = x
      BY <1>1, <1>2, <2>2, PlaceOf
    <3>2. PICK i \in 2..(size[p] - 1) : at[p][i] = x
      BY <3>1
    <3> HIDE DEF p
    <3>3. i \in 1..(size[p] - 1) /\ i \in 2..size[p] /\ i # 1
      BY <1>4, <3>1
    <3>4. Out(at, p, i) = GetEnd(x)
      BY <3>2, <3>3 DEF Out
    <3>5. QED
      BY <1>5, <1>6, <3>1, <3>2, <3>3, <3>4
  <2>3. QED
    BY <2>1, <2>2
<1>8. ASSUME NEW p \in Parents
      PROVE  /\ d.next[p] # Null => d.prev[d.next[p]] = p
             /\ d.prev[End(p)] # Null => d.next[d.prev[End(p)]] = End(p)
  <2>1. 1 \in 1..(size[p] - 1) /\ size[p] \in 2..size[p] /\ Out(at, p, 1) = p
    BY <1>4, <1>8 DEF Out
  <2>2. QED
    BY <1>4, <1>5, <1>6, <1>8, <2>1
<1>9. ASSUME NEW n \in Linked
      PROVE  d.next[n] # Null => d.prev[d.next[n]] = n
  <2>1. CASE n \in Items /\ n \notin Elements
    BY <1>7, <2>1, GetEnds
  <2>2. CASE n \in Parents
    BY <1>8, <2>2
  <2>3. CASE n \notin Nodes
    <3>1. PICK p \in Parents : n = End(p)
      BY <2>3, Kinds
    <3>2. CASE p \in Elements
      BY <1>7, <3>1, <3>2, Kinds, GetEnds
    <3>3. CASE p \notin Elements
      BY <1>3, <3>1, <3>3 DEF Loose
    <3>4. QED
      BY <3>2, <3>3
  <2>4. QED
    BY <2>1, <2>2, <2>3 DEF Items, Nodes, Children, Parents
<1>10. ASSUME NEW n \in Linked
       PROVE  d.prev[n] # Null => d.next[d.prev[n]] = n
  <2>1. CASE n \in Items
    BY <1>7, <2>1
  <2>2. CASE n \in Parents /\ n \notin Elements
    BY <1>3, <2>2 DEF Loose
  <2>3. CASE n \notin Nodes
    <3>1. PICK p \in Parents : n = End(p)
      BY <2>3, Kinds
    <3>2. QED
      BY <1>8, <3>1
  <2>4. QED
    BY <2>1, <2>2, <2>3, Kinds DEF Items, Nodes, Children, Parents
<1>11. QED
  BY <1>9, <1>10 DEF Neighbours

(* The readings of a whole document agree.                                    *)
LEMMA PreviousIs ==
  ASSUME NEW d \in States, NEW size, NEW at, RowsOf(d, size, at), NEW p \in Parents,
         NEW j \in Lead(at, p)..(size[p] - 1)
  PROVE  PreviousSibling(d, at[p][j]) = IF j = Lead(at, p) THEN Null ELSE at[p][j - 1]
<1> DEFINE lead == Lead(at, p)
           prev == d.prev[at[p][j]]
<1>1. Shape(size, at) /\ Contents(d, size, at) /\ LinksFollow(d, size, at)
  BY DEF RowsOf
<1>2. size[p] \in Nat /\ lead \in {2, 3} /\ at[p][1] = p
  BY <1>1, LeadIs DEF Shape
<1>3. j \in Nat /\ j - 1 \in 1..(size[p] - 1) /\ (j - 1) + 1 = j
  BY <1>2
<1>4. prev = Out(at, p, j - 1)
  BY <1>1, <1>3 DEF LinksFollow
<1>5. PreviousSibling(d, at[p][j]) = CASE prev \in Ends  -> Start(prev)
                                       [] prev \in Texts -> prev
                                       [] OTHER          -> Null
  BY DEF PreviousSibling
<1> HIDE DEF prev
<1>6. CASE j = lead
  <2>1. prev \in Parents \cup Attributes
    <3>1. CASE lead = 2
      <4>1. prev = p
        BY <1>2, <1>4, <1>6, <3>1 DEF Out
      <4>2. QED
        BY <4>1
    <3>2. CASE lead = 3
      <4>1. 2 \in 2..(size[p] - 1) /\ 2 < lead /\ j - 1 = 2
        BY <1>2, <1>6, <3>2
      <4>2. at[p][2] \in Attributes
        BY <4>1, LeadIs
      <4>3. prev = GetEnd(at[p][2])
        BY <1>4, <4>1 DEF Out
      <4>4. QED
        BY <4>2, <4>3, Kinds, GetEnds
    <3>3. QED
      BY <1>2, <3>1, <3>2
  <2>2. prev \notin Ends /\ prev \notin Texts
    BY <2>1, DomAssumption DEF DomAssumption, Nodes
  <2>3. QED
    BY <1>5, <1>6, <2>2
<1>7. CASE j # lead
  <2> DEFINE kid == at[p][j - 1]
  <2>1. j - 1 \in lead..(size[p] - 1) /\ j - 1 # 1
    BY <1>2, <1>7
  <2>2. kid \in Children
    BY <2>1, LeadIs
  <2>3. prev = GetEnd(kid)
    BY <1>4, <2>1 DEF Out
  <2> HIDE DEF kid
  <2>4. CASE kid \in Elements
    <3>1. prev = End(kid) /\ prev \in Ends
      BY <2>3, <2>4, Kinds DEF GetEnd, Ends
    <3>2. Start(End(kid)) = kid
      BY DEF Start, End
    <3>3. prev \notin Texts
      BY <3>1, DomAssumption DEF DomAssumption, Nodes
    <3>4. QED
      BY <1>5, <1>7, <3>1, <3>2, <3>3 DEF kid
  <2>5. CASE kid \notin Elements
    <3>1. prev = kid /\ kid \in Texts
      BY <2>2, <2>3, <2>5 DEF GetEnd, Children
    <3>2. prev \notin Ends
      BY <3>1, DomAssumption DEF DomAssumption, Nodes
    <3>3. QED
      BY <1>5, <1>7, <3>1, <3>2 DEF kid
  <2>6. QED
    BY <2>4, <2>5
<1>8. QED
  BY <1>6, <1>7

KidsAgree(d, p) ==
  LET kids == ChildNodes(d, p)
  IN  /\ ToSet(kids) = {n \in Children : d.parent[n] = p}
      /\ LastChild(d, p) = IF kids = <<>> THEN Null ELSE Last(kids)
      /\ \A i \in DOMAIN kids :
           PreviousSibling(d, kids[i]) = IF i = 1 THEN Null ELSE kids[i - 1]

LEMMA WholeKids ==
  ASSUME NEW d, Whole(d), NEW p \in Parents
  PROVE  KidsAgree(d, p)
<1> DEFINE kids == ChildNodes(d, p)
<1>1. d \in States
  BY DEF Whole
<1>2. PICK size, at : RowsOf(d, size, at)
  BY DEF Whole
<1> DEFINE lead == Lead(at, p)
           m == size[p] - lead
<1>3. size[p] \in Nat /\ lead \in {2, 3} /\ lead <= size[p] /\ m \in Nat
  <2>1. size[p] \in Nat /\ lead \in {2, 3} /\ lead <= size[p]
    BY <1>1, <1>2, LeadIs DEF RowsOf, Shape
  <2>2. QED
    BY <2>1
<1>4. kids = [i \in 1..m |-> at[p][(lead - 1) + i]]
  BY <1>1, <1>2, KidsOf
<1>5. LastChild(d, p) = IF lead = size[p] THEN Null ELSE at[p][size[p] - 1]
  BY <1>1, <1>2, LastChildIs
<1>6. \A j \in lead..(size[p] - 1) :
        PreviousSibling(d, at[p][j]) = IF j = lead THEN Null ELSE at[p][j - 1]
  BY <1>1, <1>2, PreviousIs
<1>7. kids \in Seq(Children) /\ \A n \in Children : d.parent[n] = p <=> n \in ToSet(kids)
  BY KidsTyped
<1> HIDE DEF kids, lead
<1>8. ToSet(kids) = {n \in Children : d.parent[n] = p}
  <2>1. ToSet(kids) \subseteq Children
    BY <1>7 DEF ToSet
  <2>2. QED
    BY <1>7, <2>1
<1>9. Len(kids) = m /\ DOMAIN kids = 1..m
  BY <1>3, <1>4
<1>10. LastChild(d, p) = IF kids = <<>> THEN Null ELSE Last(kids)
  <2>1. CASE m = 0
    <3>1. kids = <<>> /\ lead = size[p]
      BY <1>3, <1>7, <1>9, <2>1
    <3>2. QED
      BY <1>5, <3>1
  <2>2. CASE m # 0
    <3>1. kids # <<>> /\ lead # size[p] /\ m \in 1..m /\ (lead - 1) + m = size[p] - 1
      BY <1>3, <1>9, <2>2
    <3>2. Last(kids) = kids[m]
      BY <1>9 DEF Last
    <3> HIDE DEF m
    <3>3. kids[m] = at[p][(lead - 1) + m]
      BY <1>4, <3>1
    <3>4. QED
      BY <1>5, <3>1, <3>2, <3>3
  <2>3. QED
    BY <2>1, <2>2
<1>11. ASSUME NEW i \in DOMAIN kids
       PROVE  PreviousSibling(d, kids[i]) = IF i = 1 THEN Null ELSE kids[i - 1]
  <2>1. i \in 1..m /\ i \in Nat
    BY <1>9
  <2>2. /\ (lead - 1) + i \in lead..(size[p] - 1)
        /\ (lead - 1) + i = lead <=> i = 1
        /\ i # 1 => i - 1 \in 1..m /\ ((lead - 1) + i) - 1 = (lead - 1) + (i - 1)
    BY <1>3, <2>1
  <2> HIDE DEF m
  <2>3. kids[i] = at[p][(lead - 1) + i] /\ (i # 1 => kids[i - 1] = at[p][(lead - 1) + (i - 1)])
    BY <1>4, <2>1, <2>2
  <2>4. QED
    BY <1>6, <2>2, <2>3
<1>12. QED
  BY <1>8, <1>10, <1>11 DEF KidsAgree, kids

(* The invariant: a whole document, its texts within the bound, and what the  *)
(* observers were told made of elements.                                      *)
Fit(d) == Whole(d) /\ \A t \in Texts : Len(d.data[t]) <= MaxData

IInv == Fit(dom)

LEMMA MovesFit ==
  ASSUME NEW d, Fit(d), NEW e, Moves(e, d)
  PROVE  Fit(e)
BY DEF Fit, Moves

LEMMA ParentTyped ==
  ASSUME NEW d, Whole(d), NEW n \in Children, d.parent[n] # Null
  PROVE  d.parent[n] \in Parents
BY Kinds DEF Whole, States

LEMMA EmptyNotParent ==
  ASSUME NEW d, Whole(d), NEW n \in Children, NEW p \in Parents, d.parent[n] = p,
         NEW f \in Fragments, d.next[f] = End(f)
  PROVE  f # p
<1>1. d \in States
  BY DEF Whole
<1>2. PICK size, at : RowsOf(d, size, at)
  BY DEF Whole
<1>3. n \in Items /\ Home(d, n) = p /\ p # Null /\ f \in Parents
  BY Kinds DEF Home
<1>4. PICK i \in 2..(size[p] - 1) : at[p][i] = n
  BY <1>1, <1>2, <1>3, PlaceOf
<1>5. size[f] = 2
  BY <1>1, <1>2, <1>3, EmptyFragment
<1>6. QED
  BY <1>4, <1>5

LEMMA ListsTyped ==
  ASSUME NEW nodes \in Lists
  PROVE  nodes \in Seq(Children)
BY DomAssumption DEF DomAssumption

LEMMA InsertBeforeFit ==
  ASSUME Fit(dom), NEW parent \in Parents, NEW n \in Children \cup Fragments,
         NEW before \in Children \cup {Null}, CallInsertBefore(parent, n, before)
  PROVE  Fit(dom')
<1> DEFINE q == IF before = Null THEN End(parent) ELSE before
<1>1. dom' = InsertInFront(dom, parent, n, q) /\ n # parent
      /\ (before # Null => dom.parent[before] = parent)
  BY DEF CallInsertBefore, Call, Legal, InsertBefore
<1>2. Spot(dom, parent, q)
  BY <1>1 DEF Spot
<1> HIDE DEF q
<1>3. Moves(InsertInFront(dom, parent, n, q), dom)
  BY <1>1, <1>2, InsertInFrontWhole DEF Fit
<1>4. QED
  BY <1>1, <1>3, MovesFit

LEMMA RemoveFit ==
  ASSUME Fit(dom), NEW n \in Children, CallRemove(n)
  PROVE  Fit(dom')
<1>1. dom' = RemoveNode(dom, n)
  BY DEF CallRemove, Call
<1>2. Moves(RemoveNode(dom, n), dom)
  BY RemoveNodeWhole DEF Fit, Moves, Homed
<1>3. QED
  BY <1>1, <1>2, MovesFit

LEMMA ReplaceChildFit ==
  ASSUME Fit(dom), NEW parent \in Parents, NEW n \in Children \cup Fragments,
         NEW replaced \in Children, CallReplaceChild(parent, n, replaced)
  PROVE  Fit(dom')
<1>1. dom' = ReplaceChild(dom, parent, n, replaced) /\ n # parent /\ dom.parent[replaced] = parent
  BY DEF CallReplaceChild, Call, Legal
<1>2. Moves(ReplaceChild(dom, parent, n, replaced), dom)
  BY <1>1, ReplaceChildWhole DEF Fit
<1>3. QED
  BY <1>1, <1>2, MovesFit

LEMMA AppendFit ==
  ASSUME Fit(dom), NEW parent \in Parents, NEW nodes \in Lists, CallAppend(parent, nodes)
  PROVE  Fit(dom')
<1>1. dom' = InsertEach(dom, parent, nodes, Null)
  BY DEF CallAppend, Call
<1>2. MovedOnly(InsertEach(dom, parent, nodes, Null), dom, {nodes[i] : i \in DOMAIN nodes})
  BY ListsTyped, InsertEachWhole DEF Fit
<1>3. QED
  BY <1>1, <1>2, MovesFit DEF MovedOnly, Moves

LEMMA PrependFit ==
  ASSUME Fit(dom), NEW parent \in Parents, NEW nodes \in Lists, CallPrepend(parent, nodes)
  PROVE  Fit(dom')
<1> DEFINE first == FirstChild(dom, parent)
<1>1. dom' = InsertEach(dom, parent, nodes, first) /\ \A i \in DOMAIN nodes : nodes[i] # first
  BY DEF CallPrepend, Call
<1>2. first \in Children \cup {Null} /\ (first # Null => dom.parent[first] = parent)
  BY KidsTyped DEF Fit
<1> HIDE DEF first
<1>3. MovedOnly(InsertEach(dom, parent, nodes, first), dom, {nodes[i] : i \in DOMAIN nodes})
  BY <1>1, <1>2, ListsTyped, InsertEachWhole DEF Fit
<1>4. QED
  BY <1>1, <1>3, MovesFit DEF MovedOnly, Moves

LEMMA ReplaceChildrenFit ==
  ASSUME Fit(dom), NEW parent \in Parents, NEW nodes \in Lists, CallReplaceChildren(parent, nodes)
  PROVE  Fit(dom')
<1>1. dom' = ReplaceChildren(dom, parent, nodes)
  BY DEF CallReplaceChildren, Call
<1>2. Moves(ReplaceChildren(dom, parent, nodes), dom)
  BY ListsTyped, ReplaceChildrenWhole DEF Fit
<1>3. QED
  BY <1>1, <1>2, MovesFit

LEMMA BeforeFit ==
  ASSUME Fit(dom), NEW n \in Children, NEW nodes \in Lists, NEW fragment \in Fragments,
         CallBefore(n, nodes, fragment)
  PROVE  Fit(dom')
<1> DEFINE parent == dom.parent[n]
<1>1. /\ dom' = InsertGathered(dom, parent, nodes, n, fragment) /\ parent # Null
      /\ dom.next[fragment] = End(fragment) /\ \A i \in DOMAIN nodes : nodes[i] # n
  BY DEF CallBefore, Call, Empty
<1>2. parent \in Parents
  BY <1>1, ParentTyped DEF Fit
<1>3. dom.parent[n] = parent
  OBVIOUS
<1> HIDE DEF parent
<1>4. fragment # parent
  BY <1>1, <1>2, <1>3, EmptyNotParent DEF Fit
<1>5. Moves(InsertGathered(dom, parent, nodes, n, fragment), dom)
  BY <1>1, <1>2, <1>3, <1>4, ListsTyped, InsertGatheredWhole DEF Fit
<1>6. QED
  BY <1>1, <1>5, MovesFit

LEMMA ReplaceWithFit ==
  ASSUME Fit(dom), NEW n \in Children, NEW nodes \in Lists, NEW fragment \in Fragments,
         CallReplaceWith(n, nodes, fragment)
  PROVE  Fit(dom')
<1> DEFINE parent == dom.parent[n]
           gathered == InsertGathered(dom, parent, nodes, n, fragment)
<1>1. /\ dom' = RemoveNode(gathered, n) /\ parent # Null
      /\ dom.next[fragment] = End(fragment) /\ \A i \in DOMAIN nodes : nodes[i] # n
  BY DEF CallReplaceWith, Call, Empty
<1>2. parent \in Parents
  BY <1>1, ParentTyped DEF Fit
<1>3. dom.parent[n] = parent
  OBVIOUS
<1> HIDE DEF parent
<1>4. fragment # parent
  BY <1>1, <1>2, <1>3, EmptyNotParent DEF Fit
<1>5. Moves(gathered, dom)
  BY <1>1, <1>2, <1>3, <1>4, ListsTyped, InsertGatheredWhole DEF Fit
<1> HIDE DEF gathered
<1>6. Moves(RemoveNode(gathered, n), gathered)
  BY <1>5, RemoveNodeWhole DEF Moves, Homed
<1>7. QED
  BY <1>1, <1>5, <1>6, MovesFit

LEMMA AfterFit ==
  ASSUME Fit(dom), NEW n \in Children, NEW nodes \in Lists, NEW fragment \in Fragments,
         CallAfter(n, nodes, fragment)
  PROVE  Fit(dom')
<1> DEFINE parent == dom.parent[n]
           gathered == InsertEach(dom, fragment, nodes, Null)
           q == gathered.next[GetEnd(n)]
           moved == {nodes[i] : i \in DOMAIN nodes}
<1>1. /\ dom' = InsertInFront(gathered, parent, fragment, q) /\ parent # Null
      /\ dom.next[fragment] = End(fragment) /\ \A i \in DOMAIN nodes : nodes[i] # n
  BY DEF CallAfter, Call, Empty
<1>2. parent \in Parents /\ fragment \in Parents
  BY <1>1, ParentTyped, Kinds DEF Fit
<1>3. dom.parent[n] = parent
  OBVIOUS
<1> HIDE DEF parent
<1>4. fragment # parent
  BY <1>1, <1>2, <1>3, EmptyNotParent DEF Fit
<1>5. MovedOnly(gathered, dom, moved)
  BY <1>2, ListsTyped, InsertEachWhole DEF Fit
<1>6. n \notin moved
  BY <1>1
<1> HIDE DEF gathered, moved
<1>7. Moves(gathered, dom) /\ Whole(gathered) /\ gathered.parent[n] = parent
  BY <1>3, <1>5, <1>6 DEF MovedOnly, Moves
<1>8. Spot(gathered, parent, q)
  BY <1>2, <1>7, NextIsSpot
<1> HIDE DEF q
<1>9. Moves(InsertInFront(gathered, parent, fragment, q), gathered)
  BY <1>2, <1>4, <1>7, <1>8, InsertInFrontWhole
<1>10. QED
  BY <1>1, <1>7, <1>9, MovesFit

LEMMA SetTextContentFit ==
  ASSUME Fit(dom), NEW e \in Elements, NEW text \in Texts, CallSetTextContent(e, text)
  PROVE  Fit(dom')
<1> DEFINE bare == ReplaceChildren(dom, e, <<>>)
           filled == [bare EXCEPT !.data[text] = <<text>>]
<1>1. dom' = InsertBefore(filled, e, text, Null)
  BY DEF CallSetTextContent, Call
<1>2. e \in Parents /\ text \in Children /\ text # Null /\ <<>> \in Seq(Children)
      /\ <<text>> \in Seq(Texts) /\ Len(<<text>>) = 1
  BY Kinds DEF Children
<1>3. Moves(bare, dom)
  BY <1>2, ReplaceChildrenWhole DEF Fit
<1>4. Fit(bare)
  BY <1>3, MovesFit
<1> HIDE DEF bare
<1>5. bare \in States
  BY <1>4 DEF Fit, Whole
<1>6. /\ filled \in States /\ SameLinks(filled, bare)
      /\ filled.data = [bare.data EXCEPT ![text] = <<text>>] /\ filled.watch = bare.watch
  BY <1>2, <1>5, DataChanged
<1> HIDE DEF filled
<1>7. Whole(filled)
  <2>1. Whole(bare)
    BY <1>4 DEF Fit
  <2>2. filled.parent = bare.parent
    BY <1>6 DEF SameLinks
  <2>3. Tells(filled)
    BY <1>6, <2>1, <2>2 DEF Whole, Tells
  <2>4. QED
    BY <1>6, <2>1, <2>3, SameLinksWhole
<1>8. bare.data \in [Texts -> Seq(Texts)] /\ 1 <= MaxData
  <2>1. bare.data \in [Texts -> Seq(Texts)]
    BY <1>5 DEF States
  <2>2. MaxData \in Nat \ {0}
    BY DomAssumption DEF DomAssumption
  <2>3. QED
    BY <2>1, <2>2
<1>9. \A t \in Texts : Len(filled.data[t]) <= MaxData
  BY <1>2, <1>4, <1>6, <1>8 DEF Fit
<1>10. Fit(filled)
  BY <1>7, <1>9 DEF Fit
<1>11. /\ Whole(InsertBefore(filled, e, text, Null))
       /\ Homed(InsertBefore(filled, e, text, Null), filled, text, e)
  BY <1>2, <1>7, InsertBeforeWhole
<1>12. QED
  BY <1>1, <1>10, <1>11, MovesFit DEF Homed, Moves

LEMMA SetDataFit ==
  ASSUME Fit(dom), NEW text \in Texts, CallSetData(text, <<>>)
  PROVE  Fit(dom')
<1>1. dom' = SetData(dom, text, <<>>)
  BY DEF CallSetData, Call
<1>2. dom \in States /\ <<>> \in Seq(Texts) /\ Len(<<>>) = 0
  BY DEF Fit, Whole
<1>3. /\ dom' \in States /\ SameLinks(dom', dom)
      /\ dom'.data = [dom.data EXCEPT ![text] = <<>>]
      /\ Tells(dom) => Tells(dom')
  BY <1>1, <1>2, SetDataTyped
<1>4. Whole(dom')
  <2>1. Whole(dom)
    BY DEF Fit
  <2>2. Tells(dom')
    BY <1>3, <2>1 DEF Whole
  <2>3. QED
    BY <1>3, <2>1, <2>2, SameLinksWhole
<1>5. dom.data \in [Texts -> Seq(Texts)] /\ 0 <= MaxData
  <2>1. dom.data \in [Texts -> Seq(Texts)]
    BY <1>2 DEF States
  <2>2. MaxData \in Nat \ {0}
    BY DomAssumption DEF DomAssumption
  <2>3. QED
    BY <2>1, <2>2
<1>6. \A t \in Texts : Len(dom'.data[t]) <= MaxData
  BY <1>2, <1>3, <1>5 DEF Fit
<1>7. QED
  BY <1>4, <1>6 DEF Fit

LEMMA NormalizeFit ==
  ASSUME Fit(dom), NEW parent \in Parents, CallNormalize(parent)
  PROVE  Fit(dom')
<1>1. dom' = NormalizeAll(dom, parent) /\ \A t \in Texts : Len(dom'.data[t]) <= MaxData
  BY DEF CallNormalize, Call
<1>2. Whole(NormalizeAll(dom, parent))
  BY NormalizeAllWhole DEF Fit
<1>3. QED
  BY <1>1, <1>2 DEF Fit

LEMMA TakeRangeFit ==
  ASSUME Fit(dom), ~AnyRange, NEW first \in Children, NEW last \in Children,
         NEW fragment \in Fragments \cup {Null}, CallTakeRange(first, last, fragment)
  PROVE  Fit(dom')
<1>1. /\ dom' = TakeRange(dom, first, last, fragment)
      /\ dom.parent[first] # Null /\ dom.parent[last] = dom.parent[first]
      /\ PlaceIn(ChildNodes(dom, dom.parent[first]), first)
           <= PlaceIn(ChildNodes(dom, dom.parent[first]), last)
      /\ first = last \/ last \in Elements
      /\ fragment # Null => dom.next[fragment] = End(fragment)
  BY DEF CallTakeRange, Call, Empty
<1>2. Moves(TakeRange(dom, first, last, fragment), dom)
  BY <1>1, TakeRangeWhole DEF Fit
<1>3. QED
  BY <1>1, <1>2, MovesFit

LEMMA SetAttributeNodeFit ==
  ASSUME Fit(dom), NEW e \in Elements, NEW attribute \in Attributes,
         CallSetAttributeNode(e, attribute)
  PROVE  Fit(dom')
<1>1. dom' = SetAttributeNode(dom, e, attribute)
  BY DEF CallSetAttributeNode, Call
<1>2. Moves(SetAttributeNode(dom, e, attribute), dom)
  BY SetAttributeNodeWhole DEF Fit
<1>3. QED
  BY <1>1, <1>2, MovesFit

LEMMA RemoveAttributeFit ==
  ASSUME Fit(dom), NEW attribute \in Attributes, CallRemoveAttribute(attribute)
  PROVE  Fit(dom')
<1>1. dom' = RemoveAttribute(dom, attribute)
  BY DEF CallRemoveAttribute, Call
<1>2. Moves(RemoveAttribute(dom, attribute), dom)
  BY RemoveAttributeWhole DEF Fit, Moves, Owned
<1>3. QED
  BY <1>1, <1>2, MovesFit

(* The start: every parent has an empty list.                                 *)
LEMMA InitFit == Init => IInv
<1> SUFFICES ASSUME Init PROVE IInv
  OBVIOUS
<1> DEFINE size == [p \in Parents |-> 2]
           at == [p \in Parents |-> [i \in Nat |-> IF i = 1 THEN p ELSE End(p)]]
<1>1. /\ dom.next = [n \in Linked |-> IF n \in Parents THEN End(n) ELSE Null]
      /\ dom.prev = [n \in Linked |-> IF n \in Ends THEN Start(n) ELSE Null]
      /\ dom.parent = [n \in Nodes |-> Null] /\ dom.owner = [a \in Attributes |-> Null]
      /\ dom.data = [t \in Texts |-> <<t>>]
      /\ told = [o \in Observers |-> {}]
  BY DEF Init
<1>2. \A p \in Parents : Start(End(p)) = p /\ End(p) \in Ends
  BY DEF Start, End, Ends
<1>3. \A n \in Ends : Start(n) \in Parents /\ n \in Linked
  <2>1. TAKE n \in Ends
  <2>2. PICK p \in Parents : n = End(p)
    BY DEF Ends
  <2>3. QED
    BY <1>2, <2>2, Kinds
<1>4. dom \in States
  <2>1. Unobserved \in Watches
    BY DEF Unobserved, Watches, WatchRecords
  <2>2. [n \in Linked |-> IF n \in Parents THEN End(n) ELSE Null] \in [Linked -> Linked \cup {Null}]
    BY Kinds
  <2>3. [n \in Linked |-> IF n \in Ends THEN Start(n) ELSE Null] \in [Linked -> Linked \cup {Null}]
    BY <1>3, Kinds
  <2>4. [n \in Nodes |-> Null] \in [Nodes -> Parents \cup {Null}]
    OBVIOUS
  <2>5. [a \in Attributes |-> Null] \in [Attributes -> Elements \cup {Null}]
    OBVIOUS
  <2>6. [t \in Texts |-> <<t>>] \in [Texts -> Seq(Texts)]
    OBVIOUS
  <2>7. [e \in Custom |-> FALSE] \in [Custom -> BOOLEAN]
    OBVIOUS
  <2>8. [o \in Observers |-> Unobserved] \in [Observers -> Watches]
    BY <2>1
  <2>9. QED
    BY <2>2, <2>3, <2>4, <2>5, <2>6, <2>7, <2>8 DEF Init, States
<1>5. Shape(size, at)
  <2>1. size \in [Parents -> Nat \ {0, 1}]
    OBVIOUS
  <2>2. at \in [Parents -> [Nat -> Linked]]
    BY Kinds
  <2>3. \A p \in Parents : at[p][1] = p /\ at[p][size[p]] = End(p)
    OBVIOUS
  <2> HIDE DEF size, at
  <2>4. QED
    BY <2>1, <2>2, <2>3 DEF Shape
<1>6. \A x \in Items : Home(dom, x) = Null
  BY <1>1, Kinds DEF Home
<1>7. Contents(dom, size, at)
  <2>1. \A p \in Parents : 2..(size[p] - 1) = {}
    OBVIOUS
  <2> HIDE DEF size, at
  <2>2. QED
    BY <1>6, <2>1 DEF Contents
<1>8. LinksFollow(dom, size, at)
  <2>1. \A p \in Parents : \A i \in 1..(size[p] - 1) : i = 1 /\ Out(at, p, i) = p /\ at[p][i + 1] = End(p)
    BY DEF Out
  <2>2. \A p \in Parents : dom.next[p] = End(p) /\ dom.prev[End(p)] = p
    BY <1>1, <1>2, Kinds
  <2> HIDE DEF size, at
  <2>3. QED
    BY <2>1, <2>2 DEF LinksFollow
<1>9. Loose(dom)
  <2>1. \A x \in Items : dom.prev[x] = Null /\ dom.next[GetEnd(x)] = Null
    <3>1. TAKE x \in Items
    <3>2. x \in Linked /\ x \notin Ends /\ GetEnd(x) \in Linked /\ GetEnd(x) \notin Parents
      BY Kinds, GetEnds, DomAssumption DEF DomAssumption
    <3>3. QED
      BY <1>1, <3>2
  <2>2. \A p \in Parents : dom.next[End(p)] = Null
    BY <1>1, Kinds
  <2>3. \A p \in Parents : dom.prev[p] = Null
    <3>1. TAKE p \in Parents
    <3>2. p \in Linked /\ p \notin Ends
      BY Kinds, DomAssumption DEF DomAssumption
    <3>3. QED
      BY <1>1, <3>2
  <2>4. QED
    BY <1>1, <2>1, <2>2, <2>3 DEF Loose
<1>91. Tells(dom)
  <2>1. \A o \in Observers : ~dom.watch[o].childList
    BY DEF Init, Unobserved
  <2>2. told \in [Observers -> SUBSET Elements]
    BY <1>1
  <2>3. QED
    BY <2>1, <2>2 DEF Tells, Informed, Knows
<1>10. Whole(dom)
  BY <1>4, <1>5, <1>7, <1>8, <1>9, <1>91 DEF Whole, RowsOf
<1>11. \A t \in Texts : Len(dom.data[t]) <= MaxData
  <2>1. \A t \in Texts : dom.data[t] = <<t>> /\ Len(<<t>>) = 1
    BY <1>1
  <2>2. 1 <= MaxData
    BY DomAssumption DEF DomAssumption
  <2>3. QED
    BY <2>1, <2>2
<1>12. QED
  BY <1>10, <1>11 DEF IInv, Fit

(* A step of an observer changes neither links nor data, and only what this   *)
(* observer watches, keeps and knows.                                         *)
LEMMA ObserverKeeps ==
  ASSUME IInv, NEW o \in Observers, NEW v \in Watches, NEW known \in SUBSET Elements,
         dom' = [dom EXCEPT !.watch = [dom.watch EXCEPT ![o] = v]],
         told' = [told EXCEPT ![o] = known], Knows(v, known, dom.parent)
  PROVE  IInv'
<1> DEFINE watch == [dom.watch EXCEPT ![o] = v]
<1>1. /\ dom \in States /\ dom.watch \in [Observers -> Watches] /\ Tells(dom)
      /\ \A t \in Texts : Len(dom.data[t]) <= MaxData
  BY DEF IInv, Fit, Whole, States
<1>2. PICK size, at : RowsOf(dom, size, at)
  BY DEF IInv, Fit, Whole
<1>3. watch \in [Observers -> Watches]
  BY <1>1
<1>4. told \in [Observers -> SUBSET Elements]
      /\ \A b \in Observers : Knows(dom.watch[b], told[b], dom.parent)
  BY <1>1 DEF Tells, Informed
<1>5. told' \in [Observers -> SUBSET Elements]
  BY <1>4
<1>6. \A b \in Observers : Knows(watch[b], told'[b], dom.parent)
  BY <1>1, <1>4
<1> HIDE DEF watch
<1>7. dom' \in States /\ SameLinks(dom', dom) /\ dom'.data = dom.data /\ dom'.watch = watch
  BY <1>1, <1>3, Watching DEF watch
<1>8. RowsOf(dom', size, at)
  BY <1>2, <1>7, SameLinksSameRows
<1>9. Informed(dom'.watch, told', dom'.parent)
  BY <1>5, <1>6, <1>7 DEF Informed, SameLinks
<1>10. Tells(dom)'
  BY <1>9 DEF Tells
<1>11. Whole(dom)'
  BY <1>7, <1>8, <1>10 DEF Whole
<1>12. QED
  BY <1>1, <1>7, <1>11 DEF IInv, Fit

LEMMA Emptied ==
  ASSUME NEW w \in Watches, NEW on \in BOOLEAN
  PROVE  /\ [w EXCEPT !.scheduled = FALSE, !.records = <<>>] \in Watches
         /\ [w EXCEPT !.records = <<>>] \in Watches
         /\ [Unobserved EXCEPT !.scheduled = on] \in Watches
         /\ \A known \in SUBSET Elements : \A parent : Knows(w, known, parent) =>
              /\ Knows([w EXCEPT !.scheduled = FALSE, !.records = <<>>],
                       Reading(known, w.records), parent)
              /\ Knows([w EXCEPT !.records = <<>>], Reading(known, w.records), parent)
         /\ \A known, parent : Knows([Unobserved EXCEPT !.scheduled = on], known, parent)
<1>1. PICK none : none = <<>>
  OBVIOUS
<1>2. none \in Seq(Records) /\ w.records \in Seq(Records)
  BY <1>1 DEF Watches, WatchRecords
<1> DEFINE delivered == [w EXCEPT !.scheduled = FALSE, !.records = none]
           taken == [w EXCEPT !.records = none]
           off == [Unobserved EXCEPT !.scheduled = on]
<1>3. /\ w \in WatchRecords /\ (w.childList => w.target # Null)
      /\ (w.records # none => w.target # Null)
  BY <1>1 DEF Watches
<1>4. /\ delivered \in WatchRecords /\ delivered.records = none
      /\ delivered.target = w.target /\ delivered.childList = w.childList
      /\ delivered.subtree = w.subtree
  BY <1>2, <1>3 DEF WatchRecords
<1>5. /\ taken \in WatchRecords /\ taken.records = none
      /\ taken.target = w.target /\ taken.childList = w.childList /\ taken.subtree = w.subtree
  BY <1>2, <1>3 DEF WatchRecords
<1>6. off \in WatchRecords /\ off.records = none /\ off.childList = FALSE
  <2>1. Unobserved = [target |-> Null, childList |-> FALSE, subtree |-> FALSE,
                      attributes |-> FALSE, records |-> none, scheduled |-> FALSE]
    BY <1>1 DEF Unobserved
  <2>2. QED
    BY <1>2, <2>1 DEF WatchRecords
<1> HIDE DEF delivered, taken, off
<1>7. delivered \in Watches /\ taken \in Watches /\ off \in Watches
  BY <1>1, <1>3, <1>4, <1>5, <1>6 DEF Watches
<1>8. ASSUME NEW known \in SUBSET Elements, NEW parent, Knows(w, known, parent)
      PROVE  Knows(delivered, Reading(known, w.records), parent)
             /\ Knows(taken, Reading(known, w.records), parent)
  <2>1. Reading(known, w.records) \in SUBSET Elements
    BY <1>2, ReadingTyped
  <2>2. Reading(Reading(known, w.records), none) = Reading(known, w.records)
    BY <1>1, <2>1, ReadingNothing
  <2>3. QED
    BY <1>4, <1>5, <1>8, <2>2 DEF Knows
<1>9. \A known, parent : Knows(off, known, parent)
  BY <1>6 DEF Knows
<1>10. QED
  BY <1>1, <1>7, <1>8, <1>9 DEF delivered, taken, off

LEMMA ObserveKeeps ==
  ASSUME IInv, NEW o \in Observers, NEW target \in Watched, NEW options \in Options,
         Observe(o, target, options)
  PROVE  IInv'
<1> DEFINE w == dom.watch[o]
           v == [w EXCEPT !.target = target, !.childList = options.childList,
                          !.subtree = options.subtree, !.attributes = options.attributes]
           known == Elements \cap ToSet(ChildNodes(dom, target))
<1>1. dom \in States /\ dom.watch \in [Observers -> Watches] /\ Whole(dom)
  BY DEF IInv, Fit, Whole, States
<1>2. w \in WatchRecords /\ w.target = Null /\ w.records = <<>>
  BY <1>1 DEF Observe, Watches
<1>3. target \in Elements \cup {Doc} /\ target # Null /\ target \in Parents
      /\ options \in [childList : BOOLEAN, subtree : BOOLEAN, attributes : BOOLEAN]
  <2>1. target \in Elements \cup {Doc}
        /\ options \in [childList : BOOLEAN, subtree : BOOLEAN, attributes : BOOLEAN]
    BY DomAssumption DEF DomAssumption
  <2>2. QED
    BY <2>1, Kinds
<1> HIDE DEF w
<1>4. v \in WatchRecords /\ v.records = <<>> /\ v.target = target
  BY <1>2, <1>3 DEF WatchRecords
<1>5. v \in Watches
  BY <1>3, <1>4 DEF Watches
<1>6. known = {x \in Elements : dom.parent[x] = target}
  <2>1. \A x \in Children : dom.parent[x] = target <=> x \in ToSet(ChildNodes(dom, target))
    BY <1>1, <1>3, KidsTyped
  <2>2. QED
    BY <2>1, Kinds
<1>7. Reading(known, v.records) = known
  BY <1>4, ReadingNothing
<1>8. dom' = [dom EXCEPT !.watch = [dom.watch EXCEPT ![o] = v]]
  BY <1>1 DEF Observe, w
<1>9. told' = [told EXCEPT ![o] = known]
  BY DEF Observe
<1> HIDE DEF v, known
<1>10. Knows(v, known, dom.parent)
  BY <1>4, <1>6, <1>7 DEF Knows
<1>11. known \in SUBSET Elements
  BY <1>6
<1>12. QED
  BY <1>5, <1>8, <1>9, <1>10, <1>11, ObserverKeeps

LEMMA DeliverKeeps ==
  ASSUME IInv, NEW o \in Observers, Deliver(o)
  PROVE  IInv'
<1> DEFINE w == dom.watch[o]
           v == [w EXCEPT !.scheduled = FALSE, !.records = <<>>]
           known == Reading(told[o], w.records)
<1>1. dom.watch \in [Observers -> Watches] /\ Tells(dom)
  BY DEF IInv, Fit, Whole, States
<1>2. w \in Watches /\ told[o] \in SUBSET Elements /\ Knows(w, told[o], dom.parent)
      /\ w.records \in Seq(Records)
  BY <1>1 DEF Tells, Informed, Watches, WatchRecords
<1>3. dom' = [dom EXCEPT !.watch = [dom.watch EXCEPT ![o] = v]]
  BY <1>1 DEF Deliver
<1>4. told' = [told EXCEPT ![o] = known]
  BY DEF Deliver
<1> HIDE DEF w
<1>5. v \in Watches /\ Knows(v, known, dom.parent)
  BY <1>2, Emptied
<1>6. known \in SUBSET Elements
  BY <1>2, ReadingTyped
<1> HIDE DEF v, known
<1>7. QED
  BY <1>3, <1>4, <1>5, <1>6, ObserverKeeps

LEMMA TakeRecordsKeeps ==
  ASSUME IInv, NEW o \in Observers, TakeRecords(o)
  PROVE  IInv'
<1> DEFINE w == dom.watch[o]
           v == [w EXCEPT !.records = <<>>]
           known == Reading(told[o], w.records)
<1>1. dom.watch \in [Observers -> Watches] /\ Tells(dom)
  BY DEF IInv, Fit, Whole, States
<1>2. w \in Watches /\ told[o] \in SUBSET Elements /\ Knows(w, told[o], dom.parent)
      /\ w.records \in Seq(Records)
  BY <1>1 DEF Tells, Informed, Watches, WatchRecords
<1>3. dom' = [dom EXCEPT !.watch = [dom.watch EXCEPT ![o] = v]]
  BY <1>1 DEF TakeRecords
<1>4. told' = [told EXCEPT ![o] = known]
  BY DEF TakeRecords
<1> HIDE DEF w
<1>5. v \in Watches /\ Knows(v, known, dom.parent)
  BY <1>2, Emptied
<1>6. known \in SUBSET Elements
  BY <1>2, ReadingTyped
<1> HIDE DEF v, known
<1>7. QED
  BY <1>3, <1>4, <1>5, <1>6, ObserverKeeps

LEMMA DisconnectKeeps ==
  ASSUME IInv, NEW o \in Observers, Disconnect(o)
  PROVE  IInv'
<1> DEFINE w == dom.watch[o]
           v == [Unobserved EXCEPT !.scheduled = w.scheduled]
<1>1. dom.watch \in [Observers -> Watches]
  BY DEF IInv, Fit, Whole, States
<1>2. w \in Watches /\ w.scheduled \in BOOLEAN
  BY <1>1 DEF Watches, WatchRecords
<1>3. dom' = [dom EXCEPT !.watch = [dom.watch EXCEPT ![o] = v]]
  BY <1>1 DEF Disconnect
<1>4. told' = [told EXCEPT ![o] = {}]
  BY DEF Disconnect
<1> HIDE DEF w
<1>5. v \in Watches /\ Knows(v, {}, dom.parent)
  BY <1>2, Emptied
<1> HIDE DEF v
<1>6. QED
  BY <1>3, <1>4, <1>5, ObserverKeeps

LEMMA CallsKeepTold ==
  ASSUME TreeNext
  PROVE  told' = told
BY DEF TreeNext, Call, CallInsertBefore, CallRemove, CallReplaceChild, CallAppend,
   CallPrepend,
       CallReplaceChildren, CallBefore, CallAfter, CallReplaceWith, CallSetTextContent,
       CallSetData, CallNormalize, CallTakeRange, CallSetAttributeNode, CallRemoveAttribute

LEMMA NextKeeps ==
  ASSUME ~AnyRange, IInv, [Next]_vars
  PROVE  IInv'
<1> USE DEF IInv
<1>1. CASE TreeNext
  <2>1. told' = told
    BY <1>1, CallsKeepTold
  <2>2. Fit(dom)
    OBVIOUS
  <2> SUFFICES Fit(dom')
    BY <2>1 DEF Fit, Whole, Tells
  <2>3. CASE \E parent \in Parents, n \in Children \cup Fragments, before \in Children \cup {Null} :
               CallInsertBefore(parent, n, before)
    BY <2>3, InsertBeforeFit
  <2>4. CASE \E n \in Children : CallRemove(n)
    BY <2>4, RemoveFit
  <2>5. CASE \E parent \in Parents, n \in Children \cup Fragments, replaced \in Children :
               CallReplaceChild(parent, n, replaced)
    BY <2>5, ReplaceChildFit
  <2>6. CASE \E parent \in Parents, nodes \in Lists : CallAppend(parent, nodes)
    BY <2>6, AppendFit
  <2>7. CASE \E parent \in Parents, nodes \in Lists : CallPrepend(parent, nodes)
    BY <2>7, PrependFit
  <2>8. CASE \E parent \in Parents, nodes \in Lists : CallReplaceChildren(parent, nodes)
    BY <2>8, ReplaceChildrenFit
  <2>9. CASE \E n \in Children, nodes \in Lists, fragment \in Fragments : CallBefore(n, nodes, fragment)
    BY <2>9, BeforeFit
  <2>10. CASE \E n \in Children, nodes \in Lists, fragment \in Fragments : CallAfter(n, nodes, fragment)
    BY <2>10, AfterFit
  <2>11. CASE \E n \in Children, nodes \in Lists, fragment \in Fragments :
                CallReplaceWith(n, nodes, fragment)
    BY <2>11, ReplaceWithFit
  <2>12. CASE \E e \in Elements, text \in Texts : CallSetTextContent(e, text)
    BY <2>12, SetTextContentFit
  <2>13. CASE \E text \in Texts : CallSetData(text, <<>>)
    BY <2>13, SetDataFit
  <2>14. CASE \E parent \in Parents : CallNormalize(parent)
    BY <2>14, NormalizeFit
  <2>15. CASE \E first, last \in Children, fragment \in Fragments \cup {Null} :
                CallTakeRange(first, last, fragment)
    BY <2>15, TakeRangeFit
  <2>16. CASE \E e \in Elements, attribute \in Attributes : CallSetAttributeNode(e, attribute)
    BY <2>16, SetAttributeNodeFit
  <2>17. CASE \E attribute \in Attributes : CallRemoveAttribute(attribute)
    BY <2>17, RemoveAttributeFit
  <2>18. QED
    BY <1>1, <2>3, <2>4, <2>5, <2>6, <2>7, <2>8, <2>9, <2>10, <2>11, <2>12, <2>13,
       <2>14, <2>15,
       <2>16, <2>17 DEF TreeNext
<1>2. CASE ObserverNext
  BY <1>2, ObserveKeeps, DeliverKeeps, TakeRecordsKeeps, DisconnectKeeps DEF ObserverNext
<1>3. CASE UNCHANGED vars
  BY <1>3 DEF vars, Fit, Whole, Tells
<1>4. QED
  BY <1>1, <1>2, <1>3 DEF Next

(* What the invariant says of a state.                                        *)
LEMMA InvWhole == IInv => ListWhole
<1> SUFFICES ASSUME IInv PROVE ListWhole
  OBVIOUS
<1>1. Whole(dom) /\ dom \in States /\ \A t \in Texts : Len(dom.data[t]) <= MaxData
  BY DEF IInv, Fit, Whole
<1>2. TypeOK
  <2>1. /\ dom.next \in [Linked -> Linked \cup {Null}] /\ dom.prev \in [Linked -> Linked \cup {Null}]
        /\ dom.parent \in [Nodes -> Parents \cup {Null}]
        /\ dom.owner \in [Attributes -> Elements \cup {Null}]
        /\ dom.data \in [Texts -> Seq(Texts)]
        /\ dom.connected \in [Custom -> BOOLEAN]
        /\ dom.watch \in [Observers -> Watches]
    BY <1>1 DEF States
  <2>2. \A o \in Observers : /\ dom.watch[o].target \in Elements \cup {Doc, Null}
                             /\ dom.watch[o].target = Null => dom.watch[o].records = <<>>
    BY <2>1 DEF Watches, WatchRecords
  <2>3. told \in [Observers -> SUBSET Elements]
    BY <1>1 DEF Whole, Tells, Informed
  <2>4. QED
    BY <1>1, <2>1, <2>2, <2>3 DEF TypeOK
<1>3. NeighboursAgree
  BY <1>1, WholeNeighbours DEF Neighbours, NeighboursAgree
<1>4. GettersAgree
  <2>1. \A p \in Parents : KidsAgree(dom, p)
    BY <1>1, WholeKids
  <2>2. \A e \in Elements, a \in Attributes : dom.owner[a] = e <=> GetAttributeNode(dom, e) = a
    BY <1>1, OneAttribute
  <2>3. QED
    BY <2>1, <2>2 DEF GettersAgree, KidsAgree
<1>5. QED
  BY <1>2, <1>3, <1>4 DEF ListWhole

LEMMA InvInformed == IInv => ObserversInformed
<1> SUFFICES ASSUME IInv PROVE ObserversInformed
  OBVIOUS
<1>1. Whole(dom) /\ dom.watch \in [Observers -> Watches] /\ Tells(dom)
  BY DEF IInv, Fit, Whole, States
<1>2. RecordsScheduled
  BY <1>1 DEF RecordsScheduled, Watches
<1>3. RecordsTell
  <2>1. SUFFICES ASSUME NEW o \in Observers, dom.watch[o].childList, ~dom.watch[o].subtree
                 PROVE  Reading(told[o], dom.watch[o].records)
                          = Elements \cap ToSet(ChildNodes(dom, dom.watch[o].target))
    BY DEF RecordsTell
  <2> DEFINE t == dom.watch[o].target
  <2>2. Reading(told[o], dom.watch[o].records) = {x \in Elements : dom.parent[x] = t}
    BY <1>1, <2>1 DEF Tells, Informed, Knows
  <2>3. t \in Parents
    <3>1. t \in Elements \cup {Doc}
      BY <1>1, <2>1 DEF Watches, WatchRecords
    <3>2. QED
      BY <3>1, Kinds
  <2> HIDE DEF t
  <2>4. \A x \in Children : dom.parent[x] = t <=> x \in ToSet(ChildNodes(dom, t))
    BY <1>1, <2>3, KidsTyped
  <2>5. {x \in Elements : dom.parent[x] = t} = Elements \cap ToSet(ChildNodes(dom, t))
    BY <2>4, Kinds
  <2>6. QED
    BY <2>2, <2>5 DEF t
<1>4. QED
  BY <1>2, <1>3 DEF ObserversInformed

(* However large the document and however long the sequence of calls: the     *)
(* pointers of neighbours in linkedjsdom.js agree, and the getters that start *)
(* from different ones read the same children, siblings and attributes.       *)
(* Ranges of several siblings end with an element, for behind a text          *)
(* deleteContents breaks the list.                                            *)
THEOREM ListStaysWhole == ~AnyRange => (Spec => []ListWhole)
<1>1. SUFFICES ASSUME ~AnyRange PROVE Spec => []ListWhole
  OBVIOUS
<1>2. Init => IInv
  BY InitFit
<1>3. IInv /\ [Next]_vars => IInv'
  BY <1>1, NextKeeps
<1>4. IInv => ListWhole
  BY InvWhole
<1>5. QED
  BY <1>2, <1>3, <1>4, PTL DEF Spec

(* However many nodes the calls move, through however many fragments, and     *)
(* whenever the microtasks run: a mutation observer that watches the children *)
(* of one node can tell them from the records it is given, and no record      *)
(* waits without its microtask.                                               *)
THEOREM ObserversStayInformed == ~AnyRange => (Spec => []ObserversInformed)
<1>1. SUFFICES ASSUME ~AnyRange PROVE Spec => []ObserversInformed
  OBVIOUS
<1>2. Init => IInv
  BY InitFit
<1>3. IInv /\ [Next]_vars => IInv'
  BY <1>1, NextKeeps
<1>4. IInv => ObserversInformed
  BY InvInformed
<1>5. QED
  BY <1>2, <1>3, <1>4, PTL DEF Spec
=============================================================================
