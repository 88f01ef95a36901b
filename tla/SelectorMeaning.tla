--------------------------- MODULE SelectorMeaning ----------------------------
(* What the selectors standard makes of a selector: sets of elements, built *)
(* up compound after compound from the left; and how a selector is written. *)
(* CssSelect goes the other way, from text to parts tried from the right.   *)
EXTENDS CssSelect

(* A selector list is a sequence of selectors, a selector a sequence of     *)
(* steps, a step a combinator and the parts of a compound.                  *)
Step(combinator, parts) == [combinator |-> combinator, parts |-> parts]
Part(kind, name) ==
  [kind |-> kind, name |-> name, op |-> "", value |-> <<>>, flag |-> "", list |-> <<>>, a |-> 0, b |-> 0]

Every             == Part("any", <<>>)
Tag(w)            == Part("tag", <<w>>)
OfClass(v)        == [Part("class", <<"class">>) EXCEPT !.op = "~", !.value = v]
OfId(v)           == [Part("id", <<"id">>) EXCEPT !.op = "=", !.value = v]
Attr(w, op, v, f) == [Part("attr", <<w>>) EXCEPT !.op = op, !.value = v, !.flag = f]
Named(w)          == Part("pseudo", <<w>>)
Nth(w, a, b)      == [Part("nth", <<w>>) EXCEPT !.a = a, !.b = b]
OfList(w, list)   == [Part("list", <<w>>) EXCEPT !.list = list]

(* ------------------------------- meaning -------------------------------- *)
Tags(t) == {e \in Nodes(t) : isTag(t, e)}

Folded(p, v) ==
  IF p.flag = "i" \/ (p.flag = "" /\ p.name \in caseInsensitiveAttributes) THEN toLowerCase(v) ELSE v

AttributeHolds(t, p, e) ==
  LET a == Folded(p, getAttributeValue(t, e, p.name))
      v == Folded(p, p.value)
      places == {i \in 0..Len(a) - Len(v) : SubSeq(a, i + 1, i + Len(v)) = v}
      Ends(i, after) == At(a, i + Len(v) + 1) \in {""} \cup after
  IN  /\ hasAttrib(t, e, p.name)
      /\ CASE p.op = ""  -> TRUE
           [] p.op = "=" -> a = v
           [] p.op = "|" -> 0 \in places /\ Ends(0, {"-"})
           [] p.op = "~" -> v # <<>> /\ \E i \in places : At(a, i) \in {"", " "} /\ Ends(i, {" "})
           [] p.op = "^" -> v # <<>> /\ 0 \in places
           [] p.op = "$" -> v # <<>> /\ Len(a) - Len(v) \in places
           [] p.op = "*" -> v # <<>> /\ places # {}

(* a*n + b for some n is the place of the element among its like.           *)
NthMeans(t, p, e) ==
  LET like  == IF p.name \in {<<"nth-of-type">>, <<"nth-last-of-type">>} THEN SameName(t, e) ELSE Tags(t)
      these == IF p.name \in {<<"nth-child">>, <<"nth-of-type">>} THEN Earlier(t, e) ELSE Later(t, e)
  IN  \E n \in 0..Len(t.par) : p.a * n + p.b = Cardinality(these \cap like) + 1

Related(t, combinator, from, e) ==
  CASE combinator = " " -> from \cap ToSet(Ancestors(t, e)) # {}
    [] combinator = ">" -> t.par[e] \in from
    [] combinator = "+" -> Earlier(t, e) # {} /\ Max(Earlier(t, e)) \in from
    [] combinator = "~" -> from \cap Earlier(t, e) # {}
    [] combinator = ""  -> TRUE

RECURSIVE ListMeans(_, _, _)
PartMeans(t, p, e, scope) ==
  CASE p.kind = "any"  -> TRUE
    [] p.kind = "tag"  -> getName(t, e) = toLowerCase(p.name)
    [] p.kind \in {"class", "id", "attr"} -> AttributeHolds(t, p, e)
    [] p.kind = "nth"  -> NthMeans(t, p, e)
    [] p.kind = "list" ->
         CASE p.name = <<"has">> -> ListMeans(t, p.list, e) # {}
           [] p.name = <<"not">> -> e \notin ListMeans(t, p.list, scope)
           [] OTHER              -> e \in ListMeans(t, p.list, scope)
    [] p.kind = "pseudo" ->
         CASE p.name = <<"scope">> -> e = scope
           [] p.name = <<"root">>  -> t.par[e] = 0
           [] p.name = <<"link">>  -> hasAttrib(t, e, <<"href">>) /\ getName(t, e) = <<"a">>
           [] OTHER                -> Pseudo(t, p.name, e)

(* The elements that a selector reaches from the one it is relative to.     *)
SelectorMeans(t, steps, scope) ==
  FoldLeft(LAMBDA from, s : {e \in Tags(t) : /\ Related(t, s.combinator, from, e)
                                             /\ \A i \in DOMAIN s.parts : PartMeans(t, s.parts[i], e, scope)},
           {scope}, steps)

ListMeans(t, list, scope) == UNION {SelectorMeans(t, list[i], scope) : i \in DOMAIN list}

(* ------------------------------- writing -------------------------------- *)
Digits(n) == CASE n = 0 -> <<"0">> [] n = 1 -> <<"1">> [] n = 2 -> <<"2">> [] n = 3 -> <<"3">> [] n = 4 -> <<"4">>
Signed(n) == IF n < 0 THEN <<"-">> \o Digits(-n) ELSE <<"+">> \o Digits(n)

RECURSIVE ListText(_, _)
PartText(p, loose) ==
  CASE p.kind = "any"   -> <<"*">>
    [] p.kind = "tag"   -> p.name
    [] p.kind = "class" -> <<".">> \o p.value
    [] p.kind = "id"    -> <<"#">> \o p.value
    [] p.kind = "attr"  ->
         <<"[">> \o p.name \o
           (IF p.op = "" THEN <<>>
            ELSE (IF p.op = "=" THEN <<"=">> ELSE <<p.op, "=">>)
                 \o (IF loose THEN <<" ", "\"">> \o p.value \o <<"\"">> ELSE <<"'">> \o p.value \o <<"'">>)
                 \o (IF p.flag = "" THEN <<>> ELSE <<" ", p.flag>>))
           \o <<"]">>
    [] p.kind = "pseudo" -> <<":">> \o p.name
    [] p.kind = "nth"    ->
         <<":">> \o p.name \o <<"(">> \o Signed(p.a) \o <<"n">> \o (IF loose THEN <<" ">> ELSE <<>>)
           \o (IF p.b = 0 THEN <<>> ELSE IF loose THEN <<Signed(p.b)[1], " ">> \o Tail(Signed(p.b)) ELSE Signed(p.b))
           \o <<")">>
    [] p.kind = "list"   -> <<":">> \o p.name \o <<"(">> \o ListText(p.list, loose) \o <<")">>

StepText(s, loose) ==
  (IF s.combinator \in {"", " "} THEN (IF s.combinator = "" THEN <<>> ELSE <<" ">>)
   ELSE IF loose THEN <<" ", s.combinator, " ">> ELSE <<s.combinator>>)
  \o FlattenSeq([i \in DOMAIN s.parts |-> PartText(s.parts[i], loose)])

SelectorText(steps, loose) == FlattenSeq([i \in DOMAIN steps |-> StepText(steps[i], loose)])

ListText(list, loose) ==
  FlattenSeq([i \in DOMAIN list |->
    (IF i = 1 THEN <<>> ELSE IF loose THEN <<" ", ",", " ">> ELSE <<",">>) \o SelectorText(list[i], loose)])
=============================================================================
