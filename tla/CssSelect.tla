----------------------------- MODULE CssSelect --------------------------------
(* How a parsed selector is compiled and tried (linkedjsdom.js: css-select, *)
(* nth-check and their adapter), for an HTML document.  A tree t is         *)
(*   par[n]  the parent of node n, 0 for the document; nodes are numbered   *)
(*           in document order                                              *)
(*   name[n] the local name of an element, <<>> for a text                  *)
(*   data[n] the characters of a text                                       *)
(*   attr[n] the attributes of an element, a function from name to value    *)
(*   list[n] the tokens of its classList                                    *)
EXTENDS CssWhat, Words

(* ------------------------------- the adapter ---------------------------- *)
Nodes(t)       == DOMAIN t.par
isTag(t, n)    == n # 0 /\ t.name[n] # <<>>
getName(t, e)  == toLowerCase(t.name[e])
hasAttrib(t, e, name) == name \in DOMAIN t.attr[e]

(* The class is read from classList, which every element has.               *)
HasValue(t, e, name) == name = <<"class">> \/ hasAttrib(t, e, name)
getAttributeValue(t, e, name) == IF name = <<"class">> THEN Joined(t.list[e]) ELSE t.attr[e][name]

Ordered(t, ns) == SelectSeq([n \in Nodes(t) |-> n], LAMBDA n : n \in ns)
getSiblings(t, e) == {n \in Nodes(t) : t.par[n] = t.par[e] /\ isTag(t, n)}
Earlier(t, e)     == {n \in getSiblings(t, e) : n < e}
Later(t, e)       == {n \in getSiblings(t, e) : n > e}
SameName(t, e)    == {n \in Nodes(t) : isTag(t, n) /\ getName(t, n) = getName(t, e)}

RECURSIVE Ancestors(_, _)
Ancestors(t, n) == IF isTag(t, t.par[n]) THEN <<t.par[n]>> \o Ancestors(t, t.par[n]) ELSE <<>>

IsRoot(t, e) == ~isTag(t, t.par[e])
Below(t, e, n) == n \in Nodes(t) /\ e \in ToSet(Ancestors(t, n))

getText(t, e) ==
  LET texts == Ordered(t, {n \in Nodes(t) : t.name[n] = <<>> /\ (t.par[n] = e \/ Below(t, e, n))})
  IN  FlattenSeq([i \in DOMAIN texts |-> t.data[texts[i]]])

Includes(text, part) ==
  \E i \in 0..Len(text) - Len(part) : SubSeq(text, i + 1, i + Len(part)) = part

(* ------------------------------ attribute rules ------------------------- *)
caseInsensitiveAttributes == {<<"type">>, <<"lang">>, <<"dir">>}

shouldIgnoreCase(r) ==
  \/ r.ignoreCase = "true"
  \/ r.ignoreCase = "null" /\ toLowerCase(r.name) \in caseInsensitiveAttributes

NeverMatches(r) ==
  \/ r.action = "element" /\ " " \in ToSet(r.value)
  \/ r.action \in {"start", "end", "any"} /\ r.value = <<>>

IsToken(a, v) ==
  \E i \in 0..Len(a) - Len(v) :
    /\ SubSeq(a, i + 1, i + Len(v)) = v
    /\ i = 0 \/ a[i] = " "
    /\ i + Len(v) = Len(a) \/ a[i + Len(v) + 1] = " "

attributeRules(t, r, e) ==
  LET name  == toLowerCase(r.name)
      has   == HasValue(t, e, name)
      raw   == IF has THEN getAttributeValue(t, e, name) ELSE <<>>
      a     == IF shouldIgnoreCase(r) THEN toLowerCase(raw) ELSE raw
      v     == IF shouldIgnoreCase(r) THEN toLowerCase(r.value) ELSE r.value
  IN  CASE r.action = "exists"  -> hasAttrib(t, e, name)
        [] r.action = "equals"  -> has /\ a = v
        [] r.action = "hyphen"  -> has /\ IsPrefix(v, a) /\ At(a, Len(v) + 1) \in {"", "-"}
        [] r.action = "element" -> has /\ IsToken(a, v)
        [] r.action = "start"   -> has /\ IsPrefix(v, a)
        [] r.action = "end"     -> has /\ IsSuffix(v, a)
        [] r.action = "any"     -> has /\ Includes(a, v)
        [] r.action = "not"     -> IF v = <<>> THEN a # <<>> ELSE ~(has /\ a = v)

(* ------------------------------- nth-check ------------------------------ *)
DigitOf == [d \in {"0", "1", "2", "3", "4"} |->
  CASE d = "0" -> 0 [] d = "1" -> 1 [] d = "2" -> 2 [] d = "3" -> 3 [] d = "4" -> 4]

(* A sign and then digits, from i on: read says that there was a digit.     *)
IntegerTo(f, i, from, end) ==
  [sign |-> IF At(f, i) = "-" THEN -1 ELSE 1, read |-> end > from, end |-> end,
   number |-> FoldLeft(LAMBDA n, d : 10 * n + DigitOf[d], 0, SubSeq(f, from, end - 1))]
IntegerFrom(f, i, from) ==
  IntegerTo(f, i, from, Min({j \in from..Len(f) : f[j] \notin DOMAIN DigitOf} \cup {Max({from, Len(f) + 1})}))
AfterSign(f, i) == IF At(f, i) \in {"+", "-"} THEN i + 1 ELSE i

Formula(ok, a, b) == [ok |-> ok, a |-> a, b |-> b]
NthOffset(f, a, n) == Formula(n.read /\ n.end > Len(f), a, n.sign * n.number)
NthStep(f, a, i) ==
  IF i > Len(f) THEN Formula(TRUE, a, 0) ELSE NthOffset(f, a, IntegerFrom(f, i, Strip(f, AfterSign(f, i))))
NthFirst(f, m) ==
  IF At(f, m.end) # "n" THEN Formula(m.read /\ m.end > Len(f), 0, m.sign * m.number)
  ELSE NthStep(f, m.sign * (IF m.read THEN m.number ELSE 1), Strip(f, m.end + 1))
NthText(f) ==
  CASE f = <<"even">> -> Formula(TRUE, 2, 0)
    [] f = <<"odd">>  -> Formula(TRUE, 2, 1)
    [] OTHER          -> NthFirst(f, IntegerFrom(f, 1, AfterSign(f, 1)))
NthParse(text) == NthText(Trim(toLowerCase(text)))

(* The compiled formula, for an index that starts at 0.                     *)
NthNever(f)  == f.b - 1 < 0 /\ f.a <= 0
NthAlways(f) == f.a = 1 /\ f.b - 1 < 0
NthHolds(f, index) ==
  LET b    == f.b - 1
      absA == IF f.a < 0 THEN -f.a ELSE f.a
  IN  CASE f.a = -1 -> index <= b
        [] f.a = 0  -> index = b
        [] f.a = 1  -> index >= b
        [] f.a > 1  -> index >= b /\ index % absA = b % absA
        [] f.a < -1 -> index <= b /\ index % absA = b % absA

(* ------------------------------- pseudos -------------------------------- *)
NthPlaces == {<<"nth-child">>, <<"nth-last-child">>, <<"nth-of-type">>, <<"nth-last-of-type">>}
NthAmong(t, name, e) ==
  CASE name = <<"nth-child">>        -> Earlier(t, e)
    [] name = <<"nth-last-child">>   -> Later(t, e)
    [] name = <<"nth-of-type">>      -> Earlier(t, e) \cap SameName(t, e)
    [] name = <<"nth-last-of-type">> -> Later(t, e) \cap SameName(t, e)

(* A formula that every index satisfies is not tried; a parent is asked.    *)
NthFilter(t, r, e, f) ==
  IF NthAlways(f) THEN ~IsRoot(t, e) ELSE NthHolds(f, Cardinality(NthAmong(t, r.name, e)))

pseudos == {<<"empty">>, <<"first-child">>, <<"last-child">>, <<"first-of-type">>,
            <<"last-of-type">>, <<"only-child">>, <<"only-of-type">>}
Pseudo(t, name, e) ==
  CASE name = <<"empty">> -> \A n \in Nodes(t) : t.par[n] = e => t.name[n] = <<>> /\ t.data[n] = <<>>
    [] name = <<"first-child">>   -> Earlier(t, e) = {}
    [] name = <<"last-child">>    -> Later(t, e) = {}
    [] name = <<"first-of-type">> -> Earlier(t, e) \cap SameName(t, e) = {}
    [] name = <<"last-of-type">>  -> Later(t, e) \cap SameName(t, e) = {}
    [] name = <<"only-child">>    -> Earlier(t, e) \cup Later(t, e) = {}
    [] name = <<"only-of-type">>  -> (Earlier(t, e) \cup Later(t, e)) \cap SameName(t, e) = {}

dynamicStatePseudos == {<<"hover">>, <<"visited">>, <<"active">>}
subselects == {<<"is">>, <<"matches">>, <<"where">>, <<"not">>, <<"has">>}

aliases ==
  (<<"any-link">> :> <<":", "is", "(", "a", ",", "area", ",", "link", ")", "[", "href", "]">>) @@
  (<<"link">>     :> <<":", "any-link", ":", "not", "(", ":", "visited", ")">>) @@
  (<<"parent">>   :> <<":", "not", "(", ":", "empty", ")">>)

(* ------------------------------- compile -------------------------------- *)
(* sortByProcedure: within a compound the cheapest parts come last to be    *)
(* tried first; a combinator, and a pseudo-element, stays where it is.      *)
RECURSIVE getProcedure(_)
getProcedure(r) ==
  LET listed == {getProcedure(q) : q \in UNION {ToSet(r.subs[i]) : i \in DOMAIN r.subs}}
      rule   == CASE r.action = "equals" -> IF r.name = <<"id">> THEN 9 ELSE 8
                  [] r.action = "exists" -> 10 [] r.action = "not" -> 7
                  [] r.action \in {"start", "end"} -> 6 [] r.action = "any" -> 5 [] OTHER -> 4
  IN  CASE r.type = "universal" -> 50
        [] r.type = "tag"       -> 30
        [] r.type = "attribute" -> IF r.ignoreCase \in {"true", "quirks"} THEN rule \div 2 ELSE rule
        [] r.type = "pseudo"    ->
             IF r.arg = "none" \/ (r.arg = "text" /\ r.data = <<>>) THEN 3
             ELSE IF r.name \in {<<"has">>, <<"contains">>} THEN 0
             ELSE IF r.arg = "list" THEN Max({0, Min(listed)}) ELSE 2
        [] OTHER -> -1

(* One part moves left past those of a greater weight next to it.           *)
Sink(rs, r) ==
  LET w    == getProcedure(r)
      stop == Max({0} \cup {i \in DOMAIN rs : getProcedure(rs[i]) <= w})
  IN  IF w < 0 THEN Append(rs, r) ELSE SubSeq(rs, 1, stop) \o <<r>> \o SubSeq(rs, stop + 1, Len(rs))
sortByProcedure(rs) == FoldLeft(Sink, <<>>, rs)

isTraversal(r) == r.type \notin {"universal", "tag", "attribute", "pseudo"}
SCOPE_TOKEN      == [Token("pseudo") EXCEPT !.name = <<"scope">>]
DESCENDANT_TOKEN == Token("descendant")

RECURSIVE includesScopePseudo(_)
includesScopePseudo(r) ==
  /\ r.type = "pseudo"
  /\ \/ r.name = <<"scope">>
     \/ \E i \in DOMAIN r.subs : \E q \in ToSet(r.subs[i]) : includesScopePseudo(q)

(* A context: none, the element asked, the list that a selector inside gets *)
(* of it, or the element that a :has is being tried on.  inner says that    *)
(* the context's parent is an element.                                      *)
absolutize(rs, context) ==
  IF isTraversal(rs[1]) /\ rs[1].type # "descendant" THEN <<SCOPE_TOKEN>> \o rs
  ELSE IF context.inner /\ ~\E i \in DOMAIN rs : includesScopePseudo(rs[i])
  THEN <<SCOPE_TOKEN, DESCENDANT_TOKEN>> \o rs
  ELSE rs

NoContext == [kind |-> "none", inner |-> FALSE]
Inside(context) == IF context.kind = "element" THEN [context EXCEPT !.kind = "list"] ELSE context
Placeholder == [kind |-> "list", inner |-> TRUE]

(* In a list, "descendant of the scope" takes in the scope itself.          *)
Relative(rs, context) ==
  IF Len(rs) >= 2 /\ rs[1] = SCOPE_TOKEN /\ context.kind = "list" /\ rs[2].type = "descendant"
  THEN [rs EXCEPT ![2].type = "_flexibleDescendant"] ELSE rs

TestsSiblings(rs) ==
  Len(rs) >= 2 /\ rs[1] = SCOPE_TOKEN /\ rs[2].type \in {"adjacent", "sibling"}

(* What a compiled part is: err, or never, always or sometimes true.        *)
Compiled(r, is) == [rule |-> r, is |-> is]
Error == Compiled(Token(""), "err")

CompileNth(r, f) ==
  IF r.arg = "none" \/ ~f.ok THEN Error
  ELSE IF NthNever(f) THEN Compiled(r, "never") ELSE Compiled(r, "sometimes")

(* Defect: the options are passed on as they are.                           *)
copyOptionsAsTheyAre(cache) == cache

(* cache is the value of options.cacheResults, which a selector inside gets *)
(* as a Boolean: undefined at the top, where results are then kept.         *)
copyOptions(cache) == IF cache = "undefined" THEN "false" ELSE cache

RECURSIVE compileToken(_, _, _, _)
ListCompiled(rule, is) ==
  Compiled(rule, CASE is \in {"err", "sometimes"} -> is
                   [] is = "never"  -> IF rule.name = <<"not">> THEN "always" ELSE "never"
                   [] is = "always" -> IF rule.name = <<"not">> THEN "never"
                                       ELSE IF rule.name = <<"has">> THEN "sometimes" ELSE "always")
ListOf(r, own, c) == ListCompiled([r EXCEPT !.subs = c.subs, !.own = own, !.siblings = c.siblings], c.is)
CompileList(r, context, cache, key) ==
  LET Has(own) == ListOf(r, own, compileToken(r.subs, IF own THEN Placeholder ELSE NoContext, copyOptions(cache), key))
  IN  IF r.name = <<"has">>
      THEN Has(\E i \in DOMAIN r.subs : \E q \in ToSet(r.subs[i]) : isTraversal(q))
      ELSE ListOf(r, FALSE, compileToken(r.subs, Inside(context), copyOptions(cache), key))

(* An alias is compiled as :is of its text.                                 *)
Unaliased(r) ==
  IF r.name \notin DOMAIN aliases \/ r.arg # "none" THEN r
  ELSE [r EXCEPT !.name = <<"is">>, !.arg = "list", !.subs = parse(aliases[r.name]).subs]

PseudoCompiled(r, context) ==
  CASE r.name \in NthPlaces -> CompileNth(r, NthParse(r.data))
    [] r.name = <<"scope">> ->
         Compiled(IF context.kind = "none" THEN [r EXCEPT !.name = <<"root">>] ELSE r, "sometimes")
    [] r.name \in dynamicStatePseudos -> Compiled(r, "never")
    [] \/ r.name \in {<<"root">>, <<"contains">>}
       \/ r.name = <<"icontains">> /\ r.arg # "none"
       \/ r.name \in pseudos /\ r.arg = "none" -> Compiled(r, "sometimes")
    [] OTHER -> Error
compilePseudoSelector(r, context, cache, key) ==
  IF r.arg # "list" THEN PseudoCompiled(r, context)
  ELSE IF r.name \in subselects THEN CompileList(r, context, cache, key) ELSE Error

compileGeneralSelector(r, context, cache, key) ==
  CASE r.type \in {"pseudo-element", "column-combinator"} -> Error
    [] r.type \in {"attribute", "tag"} /\ r.ns # <<>>    -> Error
    [] r.type = "universal" /\ r.ns \notin {<<>>, <<<<"*">>>>} -> Error
    [] r.type = "attribute" /\ r.ns = <<>> -> Compiled(r, IF NeverMatches(r) THEN "never" ELSE "sometimes")
    [] r.type = "pseudo"     -> compilePseudoSelector(Unaliased(r), context, cache, key)
    [] r.type = "descendant" -> Compiled([r EXCEPT !.cached = cache # "false", !.key = key], "sometimes")
    [] r.type = "universal" /\ r.ns \in {<<>>, <<<<"*">>>>} -> Compiled(r, "always")
    [] OTHER -> Compiled(r, "sometimes")

(* compileRules: from left to right; past a part that is never true the     *)
(* rest is not looked at.                                                   *)
Extend(done, c) == [rules |-> Append(done.rules, c.rule), is |-> IF c.is = "always" THEN done.is ELSE c.is]
compileRules(rs, context, cache, key) ==
  FoldLeft(LAMBDA done, i :
             IF done.is \in {"err", "never"} THEN done
             ELSE Extend(done, compileGeneralSelector(rs[i], context, cache, key \o <<i>>)),
           [rules |-> <<>>, is |-> "always"], [i \in DOMAIN rs |-> i])

AllCompiled(all, siblings, is) ==
  [subs |-> LET some == SelectSeq(all, LAMBDA c : c.is # "never") IN [i \in DOMAIN some |-> some[i].rules],
   siblings |-> siblings,
   is |-> IF "err" \in is THEN "err" ELSE IF "always" \in is THEN "always"
          ELSE IF "sometimes" \in is THEN "sometimes" ELSE "never"]
compileToken(subs, context, cache, key) ==
  LET Join(rules, all) == AllCompiled(all, \E i \in DOMAIN rules : TestsSiblings(rules[i]), {all[i].is : i \in DOMAIN all})
      All(rules) == Join(rules, [i \in DOMAIN rules |-> compileRules(rules[i], context, cache, key \o <<i>>)])
  IN  All([i \in DOMAIN subs |-> Relative(absolutize(sortByProcedure(subs[i]), context), context)])

(* ------------------------------- the test ------------------------------- *)
(* A part that asks other elements, and which ones, in the order tried.     *)
Candidates(t, r, e) ==
  CASE r.type = "descendant"          -> Ancestors(t, e)
    [] r.type = "_flexibleDescendant" -> <<e>> \o Ancestors(t, e)
    [] r.type = "parent"   -> Ordered(t, {n \in Nodes(t) : t.par[n] = e /\ isTag(t, n)})
    [] r.type = "child"    -> IF IsRoot(t, e) THEN <<>> ELSE <<t.par[e]>>
    [] r.type = "sibling"  -> Ordered(t, Earlier(t, e))
    [] r.type = "adjacent" -> IF Earlier(t, e) = {} THEN <<>> ELSE <<Max(Earlier(t, e))>>

(* The elements :has is to find one among: those below, and for a selector  *)
(* that starts with + or ~ the later siblings and those below them.         *)
HasCandidates(t, r, e) ==
  Ordered(t, {n \in Nodes(t) : /\ isTag(t, n)
                               /\ \/ Below(t, e, n)
                                  \/ r.siblings /\ \E s \in Later(t, e) : n = s \/ Below(t, s, n)})

Holds(t, r, e, scope) ==
  CASE r.type = "tag"       -> getName(t, e) = toLowerCase(r.name)
    [] r.type = "universal" -> TRUE
    [] r.type = "attribute" -> attributeRules(t, r, e)
    [] r.type = "pseudo"    ->
         CASE r.name = <<"scope">>    -> e = scope
           [] r.name = <<"root">>     -> IsRoot(t, e)
           [] r.name = <<"contains">> -> Includes(getText(t, e), IF r.arg = "none" THEN <<"null">> ELSE r.data)
           [] r.name = <<"icontains">> -> Includes(toLowerCase(getText(t, e)), toLowerCase(r.data))
           [] r.name \in NthPlaces    -> NthFilter(t, r, e, NthParse(r.data))
           [] r.name \in pseudos      -> Pseudo(t, r.name, e)

(* Whether e satisfies the first k parts, the last one first.  cache keeps  *)
(* the ancestors known not to satisfy what is left of a "descendant".       *)
RECURSIVE Test(_, _, _, _, _, _), AnyOf(_, _, _, _, _, _), AnyList(_, _, _, _, _)
Result(ok, cache) == [ok |-> ok, cache |-> cache]

HasOne(t, r, e, cs, scope, cache) ==
  FoldLeft(LAMBDA found, n : IF found.ok THEN found ELSE AnyList(t, r.subs, n, scope, found.cache),
           Result(FALSE, cache), cs)

Listed(t, rs, k, e, scope, f) ==
  IF f.ok = (rs[k].name # <<"not">>) THEN Test(t, rs, k - 1, e, scope, f.cache) ELSE Result(FALSE, f.cache)

Having(t, r, e, scope, n) ==
  IF n.ok THEN HasOne(t, r, e, HasCandidates(t, r, e), IF r.own THEN e ELSE scope, n.cache) ELSE n

Test(t, rs, k, e, scope, cache) ==
  IF k = 0 THEN Result(TRUE, cache)
  ELSE IF rs[k].type \in Combinators \cup {"_flexibleDescendant"}
  THEN AnyOf(t, rs, k, Candidates(t, rs[k], e), scope, cache)
  ELSE IF rs[k].arg = "list" /\ rs[k].name = <<"has">>
  THEN Having(t, rs[k], e, scope, Test(t, rs, k - 1, e, scope, cache))
  ELSE IF rs[k].arg = "list"
  THEN Listed(t, rs, k, e, scope, AnyList(t, rs[k].subs, e, scope, cache))
  ELSE IF Holds(t, rs[k], e, scope) THEN Test(t, rs, k - 1, e, scope, cache)
  ELSE Result(FALSE, cache)

Missed(t, rs, k, cs, scope, n) ==
  IF n.ok THEN n
  ELSE AnyOf(t, rs, k, Tail(cs), scope,
             IF rs[k].cached THEN n.cache \cup {<<rs[k].key, Head(cs)>>} ELSE n.cache)

AnyOf(t, rs, k, cs, scope, cache) ==
  IF cs = <<>> THEN Result(FALSE, cache)
  ELSE IF rs[k].cached /\ <<rs[k].key, Head(cs)>> \in cache THEN AnyOf(t, rs, k, Tail(cs), scope, cache)
  ELSE Missed(t, rs, k, cs, scope, Test(t, rs, k - 1, Head(cs), scope, cache))

AnyList(t, subs, e, scope, cache) ==
  FoldLeft(LAMBDA found, rs : IF found.ok THEN found ELSE Test(t, rs, Len(rs), e, scope, found.cache),
           Result(FALSE, cache), subs)

(* ------------------------------- the calls ------------------------------ *)
(* prepareMatch: the element is the context only of a text with :scope.     *)
prepareMatch(t, element, text) ==
  LET p == parse(text)
      c == IF \E i \in DOMAIN text : Occurs(text, i, <<":", "scope">>)
           THEN [kind |-> "element", inner |-> element # 0 /\ ~IsRoot(t, element)] ELSE NoContext
  IN  IF p.err THEN [subs |-> <<>>, siblings |-> FALSE, is |-> "err"]
      ELSE compileToken(p.subs, c, "undefined", <<>>)

(* The elements below one or the document, in document order, without those *)
(* inside a template.                                                       *)
Within(t, e, n) == e = 0 \/ Below(t, e, n)
Visited(t, e) ==
  Ordered(t, {n \in Nodes(t) : /\ isTag(t, n) /\ Within(t, e, n)
                               /\ \A a \in ToSet(Ancestors(t, n)) :
                                    Within(t, e, a) => t.name[a] # <<"template">>})

(* One query compiles its selectors once and tries them on element after    *)
(* element, with one cache.                                                 *)
Matching(t, m, es, scope) ==
  FoldLeft(LAMBDA r, e :
             LET f == AnyList(t, m.subs, e, scope, r.cache)
             IN  [cache |-> f.cache, found |-> IF f.ok THEN Append(r.found, e) ELSE r.found],
           [cache |-> {}, found |-> <<>>], es).found

First(es) == SubSeq(es, 1, Min({1, Len(es)}))
querySelectorAll(t, e, m) == Matching(t, m, Visited(t, e), e)
querySelector(t, e, m)    == First(querySelectorAll(t, e, m))
matches(t, e, m)          == Matching(t, m, <<e>>, e)
closest(t, e, m)          == First(Matching(t, m, <<e>> \o Ancestors(t, e), e))

getElementsByClassName(t, e, token) ==
  Ordered(t, {n \in Nodes(t) : /\ isTag(t, n) /\ Within(t, e, n)
                               /\ hasAttrib(t, n, <<"class">>) /\ token \in ToSet(t.list[n])})
getElementsByTagName(t, e, name) ==
  Ordered(t, {n \in Nodes(t) : isTag(t, n) /\ Within(t, e, n) /\ name \in {t.name[n], localCase(t.name[n])}})
=============================================================================
