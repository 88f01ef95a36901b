------------------------------ MODULE CssWhat ---------------------------------
(* The parser of selectors (linkedjsdom.js: css-what).  A text is a         *)
(* sequence of symbols: a punctuation mark, or a word of characters that a  *)
(* name may have.  Hexadecimal escapes are left out.                        *)
EXTENDS Integers, Sequences, SequencesExt, FiniteSets, FiniteSetsExt

(* ------------------------------- the text ------------------------------- *)
Punctuation == {"#", ".", "[", "]", "=", "~", "^", "$", "*", "!", "|", ":", "(", ")",
                ",", ">", "<", "+", "\"", "'", "/", "\\", " "}

Lower == [A |-> "a", B |-> "b", N |-> "n", DIV |-> "div"]
toLowerCase(text) == [i \in DOMAIN text |-> IF text[i] \in DOMAIN Lower THEN Lower[text[i]] ELSE text[i]]

Upper == [a |-> "A", b |-> "B", n |-> "N", div |-> "DIV"]
localCase(text) == [i \in DOMAIN text |-> IF text[i] \in DOMAIN Upper THEN Upper[text[i]] ELSE text[i]]

At(s, i) == IF i \in DOMAIN s THEN s[i] ELSE ""
Occurs(s, i, word) == \A k \in DOMAIN word : At(s, i + k - 1) = word[k]
isQuote(c) == c \in {"\"", "'"}

isEscaped(s, i) ==
  Cardinality({j \in 1..i - 1 : \A k \in j..i - 1 : s[k] = "\\"}) % 2 = 1

unescapeCSS(s) ==
  LET kept == SelectSeq([i \in DOMAIN s |-> i],
                        LAMBDA i : s[i] # "\\" \/ isEscaped(s, i) \/ i = Len(s))
  IN  [k \in DOMAIN kept |-> s[kept[k]]]

(* The end of the part of a name that starts at i: i when there is none.    *)
RECURSIVE NameEnd(_, _)
NameEnd(s, i) ==
  IF At(s, i) \notin Punctuation \cup {""} THEN NameEnd(s, i + 1)
  ELSE IF At(s, i) = "\\" /\ i < Len(s) THEN NameEnd(s, i + 2)
  ELSE i

(* reName: any one character but \ and # may come before the name.          *)
NameTo(s, i, end) == [found |-> end > i, end |-> end, name |-> unescapeCSS(SubSeq(s, i, end - 1))]
NameAt(s, i) ==
  NameTo(s, i, NameEnd(s, IF At(s, i) \notin {"\\", "#", ""} /\ NameEnd(s, i + 1) > i + 1
                          THEN i + 1 ELSE i))

Strip(s, i) == Min({j \in i..Len(s) + 1 : At(s, j) # " "} \cup {Max({i, Len(s) + 1})})

(* ------------------------------- the parser ----------------------------- *)
Token(type) ==
  [type |-> type, name |-> <<>>, action |-> "", value |-> <<>>, ignoreCase |-> "null",
   ns |-> <<>>, arg |-> "none", data |-> <<>>, subs |-> <<>>,
   own |-> FALSE, siblings |-> FALSE, cached |-> FALSE, key |-> <<>>]

Combinators == {"adjacent", "child", "descendant", "parent", "sibling", "column-combinator"}
CombinatorOf == [x \in {">", "<", "~", "+"} |->
  CASE x = ">" -> "child" [] x = "<" -> "parent" [] x = "~" -> "sibling" [] x = "+" -> "adjacent"]
actionTypes == [x \in {"~", "^", "$", "*", "!", "|"} |->
  CASE x = "~" -> "element" [] x = "^" -> "start" [] x = "$" -> "end"
    [] x = "*" -> "any" [] x = "!" -> "not" [] x = "|" -> "hyphen"]
unpackPseudos == {<<"has">>, <<"not">>, <<"matches">>, <<"is">>, <<"where">>, <<"host">>}

Reading(s, i) == [s |-> s, i |-> i, tokens |-> <<>>, subs |-> <<>>, err |-> FALSE]
Fail(p)       == [p EXCEPT !.err = TRUE]
Skip(p, i)    == [p EXCEPT !.i = Strip(p.s, i)]
Push(p, token, i) == [p EXCEPT !.tokens = Append(@, token), !.i = i]

EndsWith(p, types) == p.tokens # <<>> /\ p.tokens[Len(p.tokens)].type \in types

addTraversal(p, type, i) ==
  IF EndsWith(p, {"descendant"})
  THEN Skip([p EXCEPT !.tokens[Len(p.tokens)].type = type], i)
  ELSE IF EndsWith(p, Combinators) THEN Fail(p)
  ELSE Skip(Push(p, Token(type), i), i)

ReadSpace(p) ==
  IF p.tokens # <<>> /\ p.tokens[1].type = "descendant" THEN Skip(p, p.i + 1)
  ELSE IF EndsWith(p, Combinators) THEN Fail(p)
  ELSE Skip(Push(p, Token("descendant"), p.i), p.i + 1)

SpecialAttribute(p, name, action, n) ==
  IF ~n.found THEN Fail(p)
  ELSE Push(p, [Token("attribute") EXCEPT !.name = name, !.action = action,
                  !.value = n.name, !.ignoreCase = "quirks"], n.end)
addSpecialAttribute(p, name, action) == SpecialAttribute(p, name, action, NameAt(p.s, p.i + 1))

Finished(p, kept) == IF kept = <<>> THEN Fail(p) ELSE [p EXCEPT !.subs = Append(@, kept), !.tokens = <<>>]
finalizeSubselector(p) ==
  Finished(p, IF EndsWith(p, {"descendant"}) THEN SubSeq(p.tokens, 1, Len(p.tokens) - 1) ELSE p.tokens)

(* [name], [|name], [*|name] and [ns|name]: where the name ends.            *)
Prefixed(s, n) ==
  IF n.found /\ At(s, n.end) = "|" /\ At(s, n.end + 1) # "="
  THEN NameAt(s, n.end + 1) @@ [ns |-> <<n.name>>] ELSE n @@ [ns |-> <<>>]
AttributeName(s, i) ==
  IF At(s, i) = "|" THEN NameAt(s, i + 1) @@ [ns |-> <<>>]
  ELSE IF Occurs(s, i, <<"*", "|">>) THEN NameAt(s, i + 2) @@ [ns |-> <<<<"*">>>>]
  ELSE Prefixed(s, NameAt(s, i))

(* The value, from the character that opens it: in quotes, or to the next   *)
(* blank or bracket.                                                        *)
ValueTo(s, quoted, from, end) ==
  [found |-> quoted => At(s, end) # "", value |-> unescapeCSS(SubSeq(s, from, end - 1)),
   end |-> Strip(s, IF quoted THEN end + 1 ELSE end)]
ValueFrom(s, i, quoted, from) ==
  ValueTo(s, quoted, from,
          Min({j \in from..Len(s) : /\ ~isEscaped(s, j)
                                    /\ IF quoted THEN s[j] = s[i] ELSE s[j] \in {" ", "]"}}
              \cup {Max({from, Len(s) + 1})}))
AttributeValue(s, i) ==
  IF isQuote(At(s, i)) THEN ValueFrom(s, i, TRUE, i + 1) ELSE ValueFrom(s, i, FALSE, i)

AttributeEnd(p, token, i) == IF At(p.s, i) # "]" THEN Fail(p) ELSE Push(p, token, i + 1)

AttributeFlag(p, token, flag, v) ==
  IF ~v.found THEN Fail(p)
  ELSE AttributeEnd(p, [token EXCEPT !.value = v.value, !.ignoreCase = flag],
                    IF flag = "null" THEN v.end ELSE Strip(p.s, v.end + 1))
Flagged(p, token, v) ==
  AttributeFlag(p, token, CASE At(p.s, v.end) = "s" -> "false" [] At(p.s, v.end) = "i" -> "true"
                            [] OTHER -> "null", v)

AttributeFrom(p, n, i, symbol, token) ==
  IF ~n.found \/ (symbol \in DOMAIN actionTypes /\ At(p.s, i + 1) # "=") THEN Fail(p)
  ELSE IF symbol \in DOMAIN actionTypes
  THEN Flagged(p, [token EXCEPT !.action = actionTypes[symbol]], AttributeValue(p.s, Strip(p.s, i + 2)))
  ELSE IF symbol = "=" THEN Flagged(p, [token EXCEPT !.action = "equals"], AttributeValue(p.s, Strip(p.s, i + 1)))
  ELSE AttributeEnd(p, token, i)
AttributeNamed(p, n, i) ==
  AttributeFrom(p, n, i, At(p.s, i),
                [Token("attribute") EXCEPT !.name = n.name, !.ns = n.ns, !.action = "exists"])
ReadAttribute(p) ==
  LET Naming(n) == AttributeNamed(p, n, Strip(p.s, n.end))
  IN  Naming(AttributeName(p.s, Strip(p.s, p.i + 1)))

(* Where the parenthesis opened at i - 1 is closed; 0 when it is not.       *)
Closing(s, i) ==
  LET count(j, c) == Cardinality({k \in i..j : s[k] = c /\ ~isEscaped(s, k)})
      closed == {j \in i..Len(s) : count(j, ")") = count(j, "(") + 1}
  IN  IF closed = {} THEN 0 ELSE Min(closed)

Unquoted(token, text) ==
  IF token.name \in {<<"contains">>, <<"icontains">>} /\ text # <<>>
     /\ text[1] = text[Len(text)] /\ isQuote(text[1])
  THEN SubSeq(text, 2, Len(text) - 1) ELSE text
ValueEnds(p, token, text, end) ==
  IF end = 0 THEN Fail(p)
  ELSE Push(p, [token EXCEPT !.arg = "text",
                  !.data = IF token.type = "pseudo" THEN unescapeCSS(Unquoted(token, text)) ELSE text], end + 1)
readValueWithParenthesis(p, token, i) ==
  LET To(end) == ValueEnds(p, token, unescapeCSS(SubSeq(p.s, i + 1, end - 1)), end)
  IN  To(Closing(p.s, i + 1))

(* A name, * or neither, and after a bar the name proper.                   *)
TagPushed(p, ns, m) ==
  IF ~m.found THEN Fail(p)
  ELSE Push(p, [Token(IF m.name = <<"*">> THEN "universal" ELSE "tag") EXCEPT !.name = m.name, !.ns = ns], m.end)
TagNamed(p, n) ==
  IF At(p.s, n.end) # "|" \/ At(p.s, n.end + 1) = "|" THEN TagPushed(p, <<>>, n)
  ELSE TagPushed(p, <<n.name>>, IF At(p.s, n.end + 1) = "*" THEN [n EXCEPT !.end = @ + 2, !.name = <<"*">>]
                                ELSE NameAt(p.s, n.end + 1))
ReadTag(p) ==
  IF Occurs(p.s, p.i, <<"|", "|">>) THEN addTraversal(p, "column-combinator", p.i + 2)
  ELSE TagNamed(p, CASE At(p.s, p.i) = "*" -> [found |-> TRUE, end |-> p.i + 1, name |-> <<"*">>]
                     [] At(p.s, p.i) = "|" -> [found |-> TRUE, end |-> p.i, name |-> <<>>]
                     [] OTHER -> NameAt(p.s, p.i))

ReadComment(p) ==
  LET ends == {j \in p.i + 2..Len(p.s) : Occurs(p.s, j, <<"*", "/">>)}
  IN  IF ends = {} THEN Fail(p)
      ELSE IF p.tokens = <<>> THEN Skip(p, Min(ends) + 2) ELSE [p EXCEPT !.i = Min(ends) + 2]

(* The loop of parseSelector ends where none of its cases applies.          *)
AtEnd(p) ==
  \/ p.i > Len(p.s)
  \/ /\ At(p.s, p.i) \notin (DOMAIN CombinatorOf) \cup {" ", ".", "#", "[", ":", ",", "*", "|"}
     /\ ~Occurs(p.s, p.i, <<"/", "*">>)
     /\ ~NameAt(p.s, p.i).found

RECURSIVE parseSelector(_)
PseudoElement(p, e) ==
  IF ~e.found THEN Fail(p)
  ELSE IF At(p.s, e.end) = "(" THEN readValueWithParenthesis(p, Token("pseudo-element"), e.end)
  ELSE Push(p, Token("pseudo-element"), e.end)
PseudoList(p, token, sub) ==
  IF sub.err \/ At(p.s, sub.i) # ")" THEN Fail(p)
  ELSE Push(p, [token EXCEPT !.arg = "list", !.subs = sub.subs], sub.i + 1)
PseudoNamed(p, n, token) ==
  IF ~n.found THEN Fail(p)
  ELSE IF At(p.s, n.end) # "(" THEN Push(p, token, n.end)
  ELSE IF token.name \notin unpackPseudos THEN readValueWithParenthesis(p, token, n.end)
  ELSE IF isQuote(At(p.s, n.end + 1)) THEN Fail(p)
  ELSE PseudoList(p, token, parseSelector(Reading(p.s, Strip(p.s, n.end + 1))))
ReadPseudo(p) ==
  LET Naming(n) == PseudoNamed(p, n, [Token("pseudo") EXCEPT !.name = toLowerCase(n.name)])
  IN  IF At(p.s, p.i + 1) = ":" THEN PseudoElement(p, NameAt(p.s, p.i + 2)) ELSE Naming(NameAt(p.s, p.i + 1))

ReadOne(p) ==
  LET c == p.s[p.i]
  IN  CASE c = " "  -> ReadSpace(p)
        [] c \in DOMAIN CombinatorOf -> addTraversal(p, CombinatorOf[c], p.i + 1)
        [] c = "."  -> addSpecialAttribute(p, <<"class">>, "element")
        [] c = "#"  -> addSpecialAttribute(p, <<"id">>, "equals")
        [] c = "["  -> ReadAttribute(p)
        [] c = ":"  -> ReadPseudo(p)
        [] c = ","  -> LET q == finalizeSubselector(p) IN IF q.err THEN q ELSE Skip(q, q.i + 1)
        [] Occurs(p.s, p.i, <<"/", "*">>) -> ReadComment(p)
        [] OTHER    -> ReadTag(p)

parseSelector(p) ==
  IF p.err THEN p
  ELSE IF AtEnd(p) THEN finalizeSubselector(p)
  ELSE parseSelector(ReadOne(p))

(* parse: an empty text is an empty list, a rest is an error.               *)
Whole(p) == IF p.i <= Len(p.s) THEN Fail(p) ELSE p
parse(s) == IF Strip(s, 1) > Len(s) THEN Reading(s, 1) ELSE Whole(parseSelector(Reading(s, Strip(s, 1))))
=============================================================================
