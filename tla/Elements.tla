------------------------------- MODULE Elements -------------------------------
(* The queries of CssSelect (linkedjsdom.js), asked of elements whose       *)
(* attributes a script writes: the tree they are asked of is what the       *)
(* code's own reads of AttributeViews make up.                              *)
EXTENDS AttributeViews, SelectorMeaning

CONSTANT
  Queries     \* the queries asked of each document, which has a tree too

VARIABLE
  answer      \* the last query asked and what it found

vars == <<viewVars, answer>>

Unasked == [asked |-> FALSE]

(* ------------------------------- queries -------------------------------- *)
AttrsOf(s, e) ==
  FoldSet(LAMBDA x, map : (s.attrs[x].name :> s.attrs[x].value) @@ map, NoAttrs,
          {x \in AttrNodes : s.attrs[x].owner = e})

(* The tree as the code reads it, and as the standard has it.               *)
Tree(d, attr, list) ==
  [par |-> d.par, name |-> d.name, data |-> d.data,
   attr |-> SubSeq([n \in DOMAIN d.par |-> IF n \in Writable THEN attr[n] ELSE d.attr[n]], 1, Len(d.par)),
   list |-> SubSeq([n \in DOMAIN d.par |-> IF n \in Writable THEN list[n] ELSE TokensIn(d.attr[n])], 1, Len(d.par))]
TreeRead  == Tree(Document, [e \in Writable |-> AttrsOf(S, e)], [e \in Writable |-> TokensNow(S, e)])
TreeMeant == Tree(Document, std, [e \in Writable |-> StdTokens(e)])

Found(t, q) ==
  LET m == prepareMatch(t, q.root, ListText(q.list, q.loose))
  IN  CASE q.call = "querySelectorAll" -> querySelectorAll(t, q.root, m)
        [] q.call = "querySelector"    -> querySelector(t, q.root, m)
        [] q.call = "matches"          -> matches(t, q.root, m)
        [] q.call = "closest"          -> closest(t, q.root, m)
        [] q.call = "getElementsByClassName" -> getElementsByClassName(t, q.root, q.list[1][1].parts[1].value)
        [] q.call = "getElementsByTagName"   -> getElementsByTagName(t, q.root, q.list[1][1].parts[1].name)

Ask(q) ==
  /\ ~answer.asked
  /\ answer' = [asked |-> TRUE, q |-> q, found |-> Found(TreeRead, q)]
  /\ UNCHANGED viewVars

Init == ViewInit /\ answer = Unasked
Next ==
  \/ ViewNext /\ answer' = Unasked
  \/ \E q \in Queries[scene] : Ask(q)

Spec == Init /\ [][Next]_vars

(* ------------------------------ properties ------------------------------ *)
(* What a query answers is what its selector means in the tree that the     *)
(* attributes written so far make up: the same elements, in document order, *)
(* however the selector is sorted, compiled and tried, whatever the cache   *)
(* kept from the elements tried before, and however the text is spaced.     *)
(* (getElementsBy... look into a template too, the others do not.)          *)
Meant(t, q) ==
  LET means == ListMeans(t, q.list, q.root)
      chain == <<q.root>> \o (IF q.root = 0 THEN <<>> ELSE Ancestors(t, q.root))
  IN  CASE q.call = "querySelector" -> First(SelectSeq(Visited(t, q.root), LAMBDA n : n \in means))
        [] q.call = "matches"       -> SelectSeq(<<q.root>>, LAMBDA n : n \in means)
        [] q.call = "closest"       -> First(SelectSeq(chain, LAMBDA n : n \in means))
        [] q.call = "querySelectorAll" -> SelectSeq(Visited(t, q.root), LAMBDA n : n \in means)
        [] OTHER -> Ordered(t, {n \in means : Within(t, q.root, n)})

SelectorsAgree ==
  (answer.asked /\ bypassed = {}) => answer.found = Meant(TreeMeant, answer.q)
=============================================================================
