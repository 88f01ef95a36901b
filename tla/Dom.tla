-------------------------------- MODULE Dom --------------------------------
(* The document tree of linkedjsdom.js: all the nodes below a parent stand  *)
(* in one doubly linked list, in document order, between the parent and its *)
(* end node.  An element comes with its attributes, its content and its own *)
(* end node, so that moving a subtree relinks four pointers.  On top of it, *)
(* the mutation observers and the reactions of custom elements that each    *)
(* change sets off.                                                         *)
(*                                                                          *)
(* A call is one step: reactions and observers of this model only watch.    *)
EXTENDS DomTree

CONSTANTS
  Custom,      \* the elements upgraded to custom elements with both callbacks
  Observers,   \* the mutation observers
  Watched,     \* bound on the nodes they observe: elements and the document
  Options,     \* bound on the options they are given
  Lists,       \* bound on the lists of nodes passed to a call
  AnyRange,    \* whether a range of several siblings may end with a text
  MaxRecords,  \* bound on the records an observer holds when a call starts
  MaxData      \* bound on the length of a text

Nodes    == Parents \cup Texts \cup Attributes
End(n)   == <<"end", n>>
Ends     == {End(p) : p \in Parents}
Linked   == Nodes \cup Ends

ASSUME DomAssumption ==
  /\ IsFiniteSet(Linked)
  /\ Custom \subseteq Elements
  /\ Watched \subseteq Elements \cup {Doc}
  /\ Doc \notin Elements \cup Fragments
  /\ Elements \cap Fragments = {}
  /\ Texts \cap Parents = {}
  /\ Attributes \cap (Parents \cup Texts) = {}
  /\ Null \notin Linked
  /\ Nodes \cap Ends = {}
  /\ Options \subseteq [childList : BOOLEAN, subtree : BOOLEAN, attributes : BOOLEAN]
  /\ \A nodes \in Lists : nodes \in Seq(Children)
  /\ AnyRange \in BOOLEAN
  /\ MaxRecords \in Nat
  /\ MaxData \in Nat \ {0}

VARIABLES
  dom,     \* the nodes: their links, and what the last change set off
  children,\* the tree a script expects (history)
  told     \* per observer, the children of its target by its records (history)

vars == <<dom, children, told>>

Start(n) == n[2]

(* The node a subtree ends with.                                            *)
GetEnd(n) == IF n \in Elements THEN End(n) ELSE n

KnownAdjacent(d, prev, next) == [d EXCEPT !.next[prev] = next, !.prev[next] = prev]

(* Defect: the pointer back is left as it was. *)
SetAdjacentOneWay(d, prev, next) ==
  [d EXCEPT !.next = IF prev = Null THEN @ ELSE [@ EXCEPT ![prev] = next],
            !.prev = IF next = Null \/ prev # Null THEN @ ELSE [@ EXCEPT ![next] = prev]]

SetAdjacent(d, prev, next) ==
  [d EXCEPT !.next = IF prev = Null THEN @ ELSE [@ EXCEPT ![prev] = next],
            !.prev = IF next = Null THEN @ ELSE [@ EXCEPT ![next] = prev]]

(* knownBoundaries, knownSegment and knownSiblings: put what goes from      *)
(* first to the end of last between two neighbours.                         *)
KnownSegment(d, prev, first, last, next) ==
  KnownAdjacent(KnownAdjacent(d, prev, first), GetEnd(last), next)

-----------------------------------------------------------------------------
(* Reading the list.                                                        *)

(* No list has more nodes than there are.                                   *)
Steps == 0..Cardinality(Linked)

(* The nodes from one to another, both included, as the links lead there.   *)
Chain(d, from, to) ==
  LET rest[k \in Steps] ==
        [n \in Linked \cup {Null} |->
           IF n = Null THEN <<>>
           ELSE IF n = to \/ k = 0 THEN <<n>>
           ELSE <<n>> \o rest[k - 1][d.next[n]]]
  IN  rest[Cardinality(Linked)][from]

Inside(d, parent) == Chain(d, parent, End(parent))

FirstChild(d, parent) ==
  LET skip[k \in Steps] ==
        [n \in Linked \cup {Null} |->
           IF n \in Attributes /\ k > 0 THEN skip[k - 1][d.next[n]] ELSE n]
      first == skip[Cardinality(Linked)][d.next[parent]]
  IN  IF first = End(parent) THEN Null ELSE first

LastChild(d, parent) ==
  LET prev == d.prev[End(parent)]
  IN  CASE prev \in Ends            -> Start(prev)
        [] prev \in Attributes      -> Null
        [] prev = parent            -> Null
        [] OTHER                    -> prev

NextSibling(d, n) ==
  LET next == d.next[GetEnd(n)] IN IF next \in Ends THEN Null ELSE next

PreviousSibling(d, n) ==
  LET prev == d.prev[n]
  IN  CASE prev \in Ends  -> Start(prev)
        [] prev \in Texts -> prev
        [] OTHER          -> Null

ChildNodes(d, parent) ==
  LET rest[k \in Steps] ==
        [n \in Linked \cup {Null} |->
           IF n = Null \/ k = 0 THEN <<>> ELSE <<n>> \o rest[k - 1][NextSibling(d, n)]]
  IN  rest[Cardinality(Linked)][FirstChild(d, parent)]

(* A node's parents, the node first.                                        *)
Ancestors(d, n) ==
  LET up[k \in Steps] ==
        [m \in Nodes \cup {Null} |->
           IF m = Null \/ k = 0 THEN {} ELSE {m} \cup up[k - 1][d.parent[m]]]
  IN  up[Cardinality(Linked)][n]

Holds(d, parent, n)    == parent \in Ancestors(d, n)
IsConnected(d, n)      == Doc \in Ancestors(d, n) \ {n}

(* All the attributes here have one name: the first one is the one.         *)
GetAttributeNode(d, e) == IF d.next[e] \in Attributes THEN d.next[e] ELSE Null

-----------------------------------------------------------------------------
(* What a change sets off.                                                  *)

Record(type, n) == [type |-> type, node |-> n]

(* queueAttribute and the end of moCallback: the record is kept, and one    *)
(* microtask is scheduled to deliver all that are kept by then.             *)
Queue(watch, record) ==
  [watch EXCEPT !.records = Append(@, record), !.scheduled = TRUE]

(* moCallback: a child went in (parent Null) or came out of a parent.       *)
Noticed(d, watch, n, parent) ==
  LET target == watch.target
  IN  /\ target # Null
      /\ watch.childList
      /\ IF parent # Null
         THEN target = parent \/ (watch.subtree /\ Holds(d, target, parent))
         ELSE IF watch.subtree
              THEN target = Doc \/ Holds(d, target, n)
              ELSE n \in Elements /\ n \in ToSet(ChildNodes(d, target))

(* Defect: an observer is told of what goes in but not of what comes out. *)
MoCallbackInsertions(d, n, parent) ==
  [d EXCEPT !.watch = [o \in Observers |->
     IF Noticed(d, @[o], n, parent) /\ parent = Null
     THEN Queue(@[o], Record("added", n))
     ELSE @[o]]]

MoCallback(d, n, parent) ==
  [d EXCEPT !.watch = [o \in Observers |->
     IF Noticed(d, @[o], n, parent)
     THEN Queue(@[o], Record(IF parent = Null THEN "added" ELSE "removed", n))
     ELSE @[o]]]

(* attributeChangedCallback of the mutation observers: with childList the   *)
(* attributes of the children are reported too.                             *)
MoAttributes(d, e) ==
  [d EXCEPT !.watch = [o \in Observers |->
     LET w == @[o]
     IN  IF w.target = Null THEN w
         ELSE IF /\ w.childList
                 /\ IF w.subtree THEN w.target = Doc \/ Holds(d, w.target, e)
                    ELSE e \in ToSet(ChildNodes(d, w.target))
              THEN Queue(w, Record("attributes", e))
              ELSE IF ~w.childList /\ w.attributes /\ w.target = e
                   THEN Queue(w, Record("attributes", e))
                   ELSE w]]

(* Defect: only the element itself is called. *)
TriggerTop(d, n, on) ==
  [d EXCEPT !.connected = [e \in Custom |->
     IF e = n /\ IsConnected(d, e) = on THEN on ELSE @[e]]]

(* connectedCallback and disconnectedCallback: the element and the elements *)
(* inside it, each called if that changes what it was told last.            *)
Trigger(d, n, on) ==
  IF n \notin Elements THEN d
  ELSE [d EXCEPT !.connected = [e \in Custom |->
          IF e \in ToSet(Inside(d, n)) /\ IsConnected(d, e) = on THEN on ELSE @[e]]]

-----------------------------------------------------------------------------
(* The operations, as functions of the nodes.                               *)

Taken(d, n) == Trigger(MoCallback([d EXCEPT !.parent[n] = Null], n, d.parent[n]), n, FALSE)

RemoveNode(d, n) ==
  LET prev  == d.prev[n]
      next  == d.next[GetEnd(n)]
      apart == IF prev = Null /\ next = Null THEN d
               ELSE [SetAdjacent(d, prev, next) EXCEPT
                       !.prev[n] = Null, !.next[GetEnd(n)] = Null]
  IN  IF d.parent[n] = Null THEN apart ELSE Taken(apart, n)

Arrived(d, n, parent) ==
  Trigger(MoCallback([d EXCEPT !.parent[n] = parent], n, Null), n, TRUE)

InsertNode(d, parent, n, next) ==
  Arrived(KnownSegment(d, d.prev[next], n, n, next), n, parent)

(* A fragment's content is linked in as a whole, then told of child by      *)
(* child.                                                                   *)
(* Defect: the fragment still points to what was its content. *)
InsertFragmentKept(d, parent, fragment, next) ==
  LET kids == ChildNodes(d, fragment)
  IN  IF kids = <<>> THEN d
      ELSE FoldSeq(LAMBDA kid, sofar : Arrived(sofar, kid, parent),
                   KnownSegment(d, d.prev[next], kids[1], LastChild(d, fragment), next),
                   kids)

InsertFragment(d, parent, fragment, next) ==
  LET kids == ChildNodes(d, fragment)
  IN  IF kids = <<>> THEN d
      ELSE FoldLeft(LAMBDA sofar, kid : Arrived(sofar, kid, parent),
                    KnownAdjacent(KnownSegment(d, d.prev[next], kids[1],
                                               LastChild(d, fragment), next),
                                  fragment, End(fragment)),
                    kids)

InsertInFront(d, parent, n, next) ==
  IF n = next THEN d
  ELSE IF n \in Fragments THEN InsertFragment(d, parent, n, next)
  ELSE InsertNode(RemoveNode(d, n), parent, n, next)

InsertBefore(d, parent, n, before) ==
  InsertInFront(d, parent, n, IF before = Null THEN End(parent) ELSE before)

InsertEach(d, parent, nodes, before) ==
  FoldLeft(LAMBDA sofar, n : InsertBefore(sofar, parent, n, before), d, nodes)

(* before, after and replaceWith gather their nodes in a new fragment.  It  *)
(* is empty again when they are done: any empty fragment stands for it.     *)
InsertGathered(d, parent, nodes, next, fragment) ==
  InsertInFront(InsertEach(d, fragment, nodes, Null), parent, fragment, next)

(* What follows the replaced node is read before it is removed.             *)
ReplaceChild(d, parent, n, replaced) ==
  InsertInFront(RemoveNode(d, replaced), parent, n, d.next[GetEnd(replaced)])

ReplaceChildren(d, parent, nodes) ==
  InsertEach(FoldLeft(RemoveNode, d, ChildNodes(d, parent)), parent, nodes, Null)

SetData(d, text, value) ==
  MoCallback([d EXCEPT !.data[text] = value], text, d.parent[text])

NormalizeOne(d, n) ==
  LET prev == d.prev[n]
  IN  IF n \notin Texts THEN d
      ELSE IF d.data[n] = <<>> THEN RemoveNode(d, n)
      ELSE IF prev \in Texts THEN RemoveNode(SetData(d, prev, d.data[prev] \o d.data[n]), n)
      ELSE d

NormalizeAll(d, parent) == FoldLeft(NormalizeOne, d, Inside(d, parent))

AttributeUnlinked(d, attribute) ==
  MoAttributes([KnownAdjacent(d, d.prev[attribute], d.next[attribute]) EXCEPT
                  !.prev[attribute] = Null, !.next[attribute] = Null,
                  !.owner[attribute] = Null],
               d.owner[attribute])

RemoveAttribute(d, attribute) ==
  IF d.owner[attribute] = Null THEN d ELSE AttributeUnlinked(d, attribute)

(* Setting an attribute removes the one the element has.                    *)
SetAttributeNode(d, e, attribute) ==
  LET previously == GetAttributeNode(d, e)
      free == RemoveAttribute(IF previously = Null THEN d ELSE RemoveAttribute(d, previously),
                              attribute)
  IN  IF previously = attribute THEN d
      ELSE MoAttributes([KnownSegment(free, e, attribute, attribute, free.next[e])
                           EXCEPT !.owner[attribute] = e], e)

(* deleteContents of a range: the whole stretch is unlinked, then its nodes *)
(* are removed, or put in a fragment, one by one until the end is reached.  *)
(* The end is not handled itself: for an element it is its end node.        *)
TakeRange(d, first, last, fragment) ==
  LET kids  == ChildNodes(d, d.parent[first])
      end   == PlaceIn(kids, last)
      nodes == SubSeq(kids, PlaceIn(kids, first),
                      IF first = last \/ last \in Elements THEN end ELSE end - 1)
      apart == SetAdjacent(d, d.prev[first], d.next[GetEnd(last)])
  IN  IF fragment = Null THEN FoldLeft(RemoveNode, apart, nodes)
      ELSE InsertEach(apart, fragment, nodes, Null)

(* cloneNode(true): the list of the element is copied in one pass, parent   *)
(* being the copy that is open.  A copy goes by the name of its original.   *)
Copied(d, c, n) ==
  IF n \in Ends
  THEN [c EXCEPT !.next[c.last] = End(c.open), !.last = End(c.open),
                 !.open = c.parent[c.open]]
  ELSE [c EXCEPT !.next[c.last] = n, !.last = n, !.parent[n] = c.open,
                 !.open = IF n \in Elements THEN n ELSE @]

CloneNode(d, e) ==
  LET content == SelectSeq(Tail(Inside(d, e)), LAMBDA n : n # End(e))
      copy == FoldLeft(LAMBDA c, n : Copied(d, c, n),
                       [next |-> [n \in Linked |-> Null], parent |-> [n \in Nodes |-> Null],
                        last |-> e, open |-> e], content)
  IN  [copy EXCEPT !.next[copy.last] = End(e)]

-----------------------------------------------------------------------------
(* The calls of a script.                                                   *)

Unobserved == [target |-> Null, childList |-> FALSE, subtree |-> FALSE,
               attributes |-> FALSE, records |-> <<>>, scheduled |-> FALSE]

Init ==
  /\ dom = [next      |-> [n \in Linked |-> IF n \in Parents THEN End(n) ELSE Null],
            prev      |-> [n \in Linked |-> IF n \in Ends THEN Start(n) ELSE Null],
            parent    |-> [n \in Nodes |-> Null],
            owner     |-> [a \in Attributes |-> Null],
            data      |-> [t \in Texts |-> <<t>>],
            connected |-> [e \in Custom |-> FALSE],
            watch     |-> [o \in Observers |-> Unobserved]]
  /\ children = NoChildren
  /\ told = [o \in Observers |-> {}]

HasRoom == \A o \in Observers : Len(dom.watch[o].records) < MaxRecords

(* The code does not check these; the DOM standard refuses the calls that   *)
(* break them, and so does this model.                                      *)
Legal(parent, n, before) ==
  /\ n # parent
  /\ ~Holds(dom, n, parent)
  /\ before # Null => dom.parent[before] = parent
  /\ parent = Doc => ToSet(NodesOf(children, n)) \cap Texts = {}

Call(result, expected) ==
  /\ HasRoom
  /\ dom' = result
  /\ children' = expected
  /\ UNCHANGED told

Empty(fragment) == dom.next[fragment] = End(fragment)

CallInsertBefore(parent, n, before) ==
  /\ Legal(parent, n, before)
  /\ Call(InsertBefore(dom, parent, n, before), Inserted(children, parent, n, before))

CallRemove(n) == Call(RemoveNode(dom, n), Without(children, {n}))

CallReplaceChild(parent, n, replaced) ==
  /\ dom.parent[replaced] = parent
  /\ Legal(parent, n, replaced)
  /\ Call(ReplaceChild(dom, parent, n, replaced),
          Replaced(children, parent, NodesOf(children, n), replaced))

(* append and prepend.                                                      *)
CallAppend(parent, nodes) ==
  /\ \A i \in DOMAIN nodes : Legal(parent, nodes[i], Null)
  /\ Call(InsertEach(dom, parent, nodes, Null), Placed(children, parent, nodes, Null))

CallPrepend(parent, nodes) ==
  LET first == FirstChild(dom, parent)
  IN  /\ \A i \in DOMAIN nodes : Legal(parent, nodes[i], Null) /\ nodes[i] # first
      /\ Call(InsertEach(dom, parent, nodes, first), Placed(children, parent, nodes, first))

CallBefore(n, nodes, fragment) ==
  LET parent == dom.parent[n]
  IN  /\ parent # Null
      /\ Empty(fragment)
      /\ \A i \in DOMAIN nodes : nodes[i] # n /\ Legal(parent, nodes[i], Null)
      /\ Call(InsertGathered(dom, parent, nodes, n, fragment),
              Placed(children, parent, nodes, n))

CallAfter(n, nodes, fragment) ==
  LET parent == dom.parent[n]
      gathered == InsertEach(dom, fragment, nodes, Null)
  IN  /\ parent # Null
      /\ Empty(fragment)
      /\ \A i \in DOMAIN nodes : nodes[i] # n /\ Legal(parent, nodes[i], Null)
      /\ Call(InsertInFront(gathered, parent, fragment, gathered.next[GetEnd(n)]),
              Placed(children, parent, nodes, Following(children, parent, n, nodes)))

CallReplaceWith(n, nodes, fragment) ==
  LET parent == dom.parent[n]
  IN  /\ parent # Null
      /\ Empty(fragment)
      /\ \A i \in DOMAIN nodes : nodes[i] # n /\ Legal(parent, nodes[i], Null)
      /\ Call(RemoveNode(InsertGathered(dom, parent, nodes, n, fragment), n),
              Replaced(children, parent, nodes, n))

CallReplaceChildren(parent, nodes) ==
  /\ \A i \in DOMAIN nodes : Legal(parent, nodes[i], Null)
  /\ Call(ReplaceChildren(dom, parent, nodes), Refilled(children, parent, nodes))

(* The textContent of an element: a text of its own takes the place of all  *)
(* its children.  A text without parent stands for the new one.             *)
CallSetTextContent(e, text) ==
  /\ dom.parent[text] = Null
  /\ Call(InsertBefore([ReplaceChildren(dom, e, <<>>) EXCEPT !.data[text] = <<text>>],
                       e, text, Null),
          Refilled(children, e, <<text>>))

CallSetData(text, value) == Call(SetData(dom, text, value), children)

CallNormalize(parent) ==
  /\ Call(NormalizeAll(dom, parent),
          Without(children, Superfluous(children, dom.data, parent)))
  /\ \A t \in Texts : Len(dom'.data[t]) <= MaxData

CallTakeRange(first, last, fragment) ==
  LET kids == ChildNodes(dom, dom.parent[first])
  IN  /\ dom.parent[first] # Null
      /\ dom.parent[last] = dom.parent[first]
      /\ PlaceIn(kids, first) <= PlaceIn(kids, last)
      /\ first = last \/ last \in Elements \/ AnyRange
      /\ fragment # Null => Empty(fragment)
      /\ Call(TakeRange(dom, first, last, fragment),
              Moved(children, Stretch(children, dom.parent[first], first, last), fragment))

CallSetAttributeNode(e, attribute) == Call(SetAttributeNode(dom, e, attribute), children)

CallRemoveAttribute(attribute) ==
  /\ dom.owner[attribute] # Null
  /\ Call(RemoveAttribute(dom, attribute), children)

-----------------------------------------------------------------------------
(* The mutation observers.                                                  *)

(* What a callback that keeps a set of children up to date makes of records.*)
Noted(known, record) ==
  CASE record.type = "added"   -> known \cup ({record.node} \cap Elements)
    [] record.type = "removed" -> known \ {record.node}
    [] OTHER                   -> known

Reading(known, records) == FoldLeft(Noted, known, records)

Observe(o, target, options) ==
  /\ dom.watch[o].target = Null
  /\ dom' = [dom EXCEPT !.watch[o] =
       [@ EXCEPT !.target = target, !.childList = options.childList,
                 !.subtree = options.subtree, !.attributes = options.attributes]]
  /\ told' = [told EXCEPT ![o] = Elements \cap ToSet(ChildNodes(dom, target))]
  /\ UNCHANGED children

(* The microtask that the first record scheduled.                           *)
Deliver(o) ==
  /\ dom.watch[o].scheduled
  /\ dom' = [dom EXCEPT !.watch[o].scheduled = FALSE, !.watch[o].records = <<>>]
  /\ told' = [told EXCEPT ![o] = Reading(@, dom.watch[o].records)]
  /\ UNCHANGED children

TakeRecords(o) ==
  /\ dom.watch[o].records # <<>>
  /\ dom' = [dom EXCEPT !.watch[o].records = <<>>]
  /\ told' = [told EXCEPT ![o] = Reading(@, dom.watch[o].records)]
  /\ UNCHANGED children

Disconnect(o) ==
  /\ dom.watch[o].target # Null
  /\ dom' = [dom EXCEPT !.watch[o] = [Unobserved EXCEPT !.scheduled = dom.watch[o].scheduled]]
  /\ told' = [told EXCEPT ![o] = {}]
  /\ UNCHANGED children

-----------------------------------------------------------------------------
TreeNext ==
  \/ \E parent \in Parents, n \in Children \cup Fragments, before \in Children \cup {Null} :
       CallInsertBefore(parent, n, before)
  \/ \E n \in Children : CallRemove(n)
  \/ \E parent \in Parents, n \in Children \cup Fragments, replaced \in Children :
       CallReplaceChild(parent, n, replaced)
  \/ \E parent \in Parents, nodes \in Lists :
       \/ CallAppend(parent, nodes)
       \/ CallPrepend(parent, nodes)
       \/ CallReplaceChildren(parent, nodes)
  \/ \E n \in Children, nodes \in Lists, fragment \in Fragments :
       \/ CallBefore(n, nodes, fragment)
       \/ CallAfter(n, nodes, fragment)
       \/ CallReplaceWith(n, nodes, fragment)
  \/ \E e \in Elements, text \in Texts : CallSetTextContent(e, text)
  \/ \E text \in Texts : CallSetData(text, <<>>)
  \/ \E parent \in Parents : CallNormalize(parent)
  \/ \E first, last \in Children, fragment \in Fragments \cup {Null} :
       CallTakeRange(first, last, fragment)
  \/ \E e \in Elements, attribute \in Attributes : CallSetAttributeNode(e, attribute)
  \/ \E attribute \in Attributes : CallRemoveAttribute(attribute)

ObserverNext ==
  \E o \in Observers :
    \/ \E target \in Watched, options \in Options : Observe(o, target, options)
    \/ Deliver(o)
    \/ TakeRecords(o)
    \/ Disconnect(o)

Next == TreeNext \/ ObserverNext

Spec == Init /\ [][Next]_vars

-----------------------------------------------------------------------------
(* The links lead to nodes, and an observer holds no more records than the  *)
(* bound and one call can give.                                             *)
TypeOK ==
  /\ dom.next \in [Linked -> Linked \cup {Null}]
  /\ dom.prev \in [Linked -> Linked \cup {Null}]
  /\ dom.parent \in [Nodes -> Parents \cup {Null}]
  /\ dom.owner \in [Attributes -> Elements \cup {Null}]
  /\ \A t \in Texts : dom.data[t] \in Seq(Texts) /\ Len(dom.data[t]) <= MaxData
  /\ dom.connected \in [Custom -> BOOLEAN]
  /\ \A o \in Observers :
       /\ dom.watch[o].target \in Elements \cup {Doc, Null}
       /\ dom.watch[o].target = Null => dom.watch[o].records = <<>>
  /\ told \in [Observers -> SUBSET Elements]

(* No sequence of calls breaks the list: the two links of neighbours agree. *)
NeighboursAgree ==
  \A n \in Linked :
    /\ dom.next[n] # Null => dom.prev[dom.next[n]] = n
    /\ dom.prev[n] # Null => dom.next[dom.prev[n]] = n

(* The getters start from different links and give one tree: parentNode     *)
(* reads a node's own field, childNodes follows the list, lastChild reads   *)
(* the node before the end node, previousSibling the node before, which may *)
(* be an attribute, a parent or the end of a sibling; and ownerElement and  *)
(* getAttributeNode say the same.                                           *)
GettersAgree ==
  /\ \A p \in Parents :
       LET kids == ChildNodes(dom, p)
       IN  /\ ToSet(kids) = {n \in Children : dom.parent[n] = p}
           /\ LastChild(dom, p) = IF kids = <<>> THEN Null ELSE Last(kids)
           /\ \A i \in DOMAIN kids :
                PreviousSibling(dom, kids[i]) = IF i = 1 THEN Null ELSE kids[i - 1]
  /\ \A e \in Elements, a \in Attributes : dom.owner[a] = e <=> GetAttributeNode(dom, e) = a

(* The list is the tree a script expects: below every parent there are      *)
(* first its attributes, then one after the other the lists of the children *)
(* it should have, then its end node.                                       *)
Segment(n) == IF n \in Elements THEN Inside(dom, n) ELSE <<n>>

ListIsTree ==
  \A p \in Parents :
    LET kids  == children[p]
        attrs == SelectSeq(Tail(Inside(dom, p)),
                           LAMBDA n : n \in Attributes /\ dom.owner[n] = p)
    IN  /\ ChildNodes(dom, p) = kids
        /\ Inside(dom, p) =
             <<p>> \o attrs \o FlattenSeq([i \in DOMAIN kids |-> Segment(kids[i])]) \o <<End(p)>>
        /\ ToSet(attrs) = {a \in Attributes : dom.owner[a] = p}

(* cloneNode(true) gives a copy of the whole subtree: the same nodes in the *)
(* same order with the same parents.                                        *)
CloneAgrees ==
  \A e \in Elements :
    LET copy   == CloneNode(dom, e)
        within == ToSet(Inside(dom, e)) \ {End(e)}
    IN  /\ \A n \in within : copy.next[n] = dom.next[n]
        /\ \A n \in within \ ({e} \cup Ends \cup Attributes) : copy.parent[n] = dom.parent[n]

(* custom-element-registry.js: after a call every custom element was told   *)
(* last what is true, however many nodes the call moved and through however *)
(* many fragments they went.                                                *)
ReactionsSettled == \A e \in Custom : dom.connected[e] = IsConnected(dom, e)

(* mutation-observer.js: a callback that only reads its records knows the   *)
(* element children of its target, whatever calls were made between two     *)
(* deliveries.                                                              *)
RecordsTell ==
  \A o \in Observers :
    LET w == dom.watch[o]
    IN  w.childList /\ ~w.subtree =>
          Reading(told[o], w.records) = Elements \cap ToSet(ChildNodes(dom, w.target))

(* A record is never left without a microtask that delivers it, also after  *)
(* takeRecords and disconnect, which leave the microtask behind.            *)
RecordsScheduled == \A o \in Observers : dom.watch[o].records # <<>> => dom.watch[o].scheduled

(* The list is whole after any sequence of calls, each of which relinks a   *)
(* few of its ends, and all that reads it agrees on what it holds.          *)
ListWhole == TypeOK /\ NeighboursAgree /\ GettersAgree

(* List, clones and custom elements show the one tree that the calls of a   *)
(* script built.                                                            *)
TreeAsBuilt == ListIsTree /\ CloneAgrees /\ ReactionsSettled

(* What a mutation observer is told adds up to the tree as it is.           *)
ObserversInformed == RecordsTell /\ RecordsScheduled
=============================================================================
