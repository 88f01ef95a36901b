------------------------------ MODULE DomTree ------------------------------
(* What a script expects of the tree operations of linkedjsdom.js: every    *)
(* parent has a sequence of children, every node at most one place in these *)
(* sequences, and a call changes them as the DOM standard says.  Dom keeps  *)
(* the same tree in one doubly linked list and is compared with this.       *)
EXTENDS Naturals, Sequences, SequencesExt, FiniteSets

CONSTANTS
  Elements, Texts, Attributes, Fragments,  \* the nodes, all made in advance
  Doc, Null

Parents  == Elements \cup Fragments \cup {Doc}
Children == Elements \cup Texts

NoChildren == [p \in Parents |-> <<>>]

(* The index of a node among siblings.                                      *)
PlaceIn(nodes, n) == SelectInSeq(nodes, LAMBDA m : m = n)

(* The tree without the nodes of a set, which keep their own children.      *)
Without(c, nodes) == [p \in Parents |-> SelectSeq(c[p], LAMBDA n : n \notin nodes)]

(* Nodes put before a child or, for Null, last: they leave their places.    *)
Placed(c, parent, nodes, before) ==
  LET rest == Without(c, ToSet(nodes))
      at   == IF before = Null THEN Len(rest[parent]) + 1
              ELSE PlaceIn(rest[parent], before)
  IN  [rest EXCEPT ![parent] = SubSeq(@, 1, at - 1) \o nodes \o SubSeq(@, at, Len(@))]

(* Inserting a fragment inserts its children.                               *)
NodesOf(c, node) == IF node \in Fragments THEN c[node] ELSE <<node>>

Inserted(c, parent, node, before) ==
  IF node = before THEN c ELSE Placed(c, parent, NodesOf(c, node), before)

(* The place of a child is before the first sibling after it that is not    *)
(* among the nodes put there.                                               *)
Following(c, parent, child, nodes) ==
  LET at   == PlaceIn(c[parent], child)
      rest == SelectSeq(SubSeq(c[parent], at + 1, Len(c[parent])),
                        LAMBDA n : n \notin ToSet(nodes))
  IN  IF rest = <<>> THEN Null ELSE Head(rest)

Replaced(c, parent, nodes, child) ==
  Placed(Without(c, {child}), parent, nodes, Following(c, parent, child, nodes))

Refilled(c, parent, nodes) ==
  Placed(Without(c, ToSet(c[parent])), parent, nodes, Null)

(* The siblings from one child to another.                                  *)
Stretch(c, parent, first, last) ==
  SubSeq(c[parent], PlaceIn(c[parent], first), PlaceIn(c[parent], last))

(* They leave, into a fragment or, for Null, out of the tree.               *)
Moved(c, nodes, fragment) ==
  IF fragment = Null THEN Without(c, ToSet(nodes)) ELSE Placed(c, fragment, nodes, Null)

(* The nodes below a parent in document order.                              *)
Content(c, parent) ==
  LET below[k \in 0..Cardinality(Children), n \in Parents \cup Texts] ==
        <<n>> \o (IF n \in Texts \/ k = 0 THEN <<>>
                  ELSE FlattenSeq([i \in DOMAIN c[n] |-> below[k - 1, c[n][i]]]))
  IN  Tail(below[Cardinality(Children), parent])

(* normalize(): of the texts below a parent the empty ones go, and those    *)
(* that follow a text, once the empty ones are gone.                        *)
Superfluous(c, data, parent) ==
  LET within == ToSet(Content(c, parent))
      empty  == {t \in Texts \cap within : data[t] = <<>>}
      kept   == Without(c, empty)
  IN  empty \cup {t \in (Texts \cap within) \ empty :
                    \E p \in Parents : \E i \in 2..Len(kept[p]) :
                      kept[p][i] = t /\ kept[p][i - 1] \in Texts}
=============================================================================
