----------------------------- MODULE MCElements -------------------------------
(* The documents and the queries that TLC tries Elements with.              *)
EXTENDS Elements

a == <<"a">>
b == <<"b">>

MCValues ==
  (Class :> {a, <<"b", " ", "a">>, <<>>}) @@ (Data :> {a, <<>>})
  @@ (Style :> {<<"k", ":", "a">>, <<"k", " ", ";", "m", ":", " ", "b">>})
MCTokens    == {a, b}
MCKeys      == {<<"k">>}
MCKeyValues == {b}

(* ------------------------------- queries -------------------------------- *)
One(parts)   == <<Step("", parts)>>
Then(c, p)   == <<Step(c, <<p>>)>>
Of(parts)    == <<One(parts)>>

Query(call, root, list, loose) == [call |-> call, root |-> root, list |-> list, loose |-> loose]
AllOf(ls)  == {Query("querySelectorAll", 0, list, loose) : list \in ls, loose \in BOOLEAN}
Under(ls, root) == {Query("querySelectorAll", root, list, FALSE) : list \in ls}
Calls(call, ls, roots) == {Query(call, root, list, FALSE) : list \in ls, root \in roots}

div == Tag("div")
p   == Tag("p")

(* Combinators, lists, and a scope that is not the document.                *)
Structure == {
  Of(<<Every>>), Of(<<p, OfClass(b)>>), Of(<<Named("root")>>), Of(<<Named("empty")>>), Of(<<Named("link")>>),
  <<One(<<div>>) \o Then(" ", p)>>,
  <<One(<<div>>) \o Then(">", p) \o Then("+", Every)>>,
  <<One(<<p>>) \o Then("~", div) \o Then(" ", Every), One(<<OfId(<<"x">>)>>)>>,
  <<One(<<div>>) \o Then(" ", div) \o Then(">", div) \o Then(" ", Every)>>,
  <<One(<<OfClass(a)>>) \o Then(" ", OfClass(b)) \o Then(" ", p)>>,
  Of(<<OfList("is", <<One(<<div>>) \o Then(" ", p), One(<<OfId(<<"x">>), Named("last-child")>>)>>), Named("only-of-type")>>),
  Of(<<div, OfList("not", <<One(<<OfClass(a)>>) \o Then(">", div)>>)>>),
  Of(<<OfList("has", <<Then(">", div) \o Then(" ", p)>>)>>),
  Of(<<OfList("has", <<Then("+", div) \o Then(" ", p)>>)>>),
  Of(<<OfList("has", <<Then("~", p), Then(">", OfClass(b))>>)>>),
  Of(<<div, OfList("not", <<One(<<OfList("has", <<Then(">", p)>>)>>)>>)>>),
  <<One(<<OfList("has", <<Then(">", p)>>)>>) \o Then(" ", p)>>}

(* Places among siblings.                                                   *)
Places ==
  {Of(<<Nth(name, f[1], f[2])>>) :
     name \in {"nth-child", "nth-last-child", "nth-of-type", "nth-last-of-type"},
     f \in {<<0, 1>>, <<0, 2>>, <<2, 0>>, <<2, 1>>, <<-1, 2>>, <<-2, 3>>, <<3, -1>>, <<1, 2>>, <<0, 0>>}}
  \cup {Of(<<div, Named(name)>>) : name \in {"first-child", "last-child", "first-of-type",
                                             "last-of-type", "only-child", "only-of-type"}}

(* Attributes of the elements 1 and 2, and of those that nobody writes to.  *)
AttributeTests == {Of(<<Attr(w, op, v, f)>>) :
  w \in {"lang", "title"}, op \in {"=", "|", "~", "^", "$", "*"}, v \in {a, b, <<"A", "-", "b">>}, f \in {"", "i"}}
  \cup {Of(<<Attr("lang", "", <<>>, "")>>)}
ClassTests == {Of(<<OfClass(a)>>), Of(<<OfClass(b), OfList("not", Of(<<OfClass(a)>>))>>),
               Of(<<Attr("class", "=", <<"b", " ", "a">>, "")>>), Of(<<Attr("class", "$", a, "")>>)}
DataTests  == {Of(<<Attr("data-x", "=", a, "")>>), Of(<<OfList("not", Of(<<Attr("data-x", "", <<>>, "")>>))>>)}

(* ------------------------------ documents ------------------------------- *)
None == NoAttrs
Doc(par, name, data, attr, names, n) ==
  [par |-> par, name |-> name, data |-> data, attr |-> attr, names |-> names, writes |-> n]

Pair(names, n) ==
  Doc(<<0, 1>>, <<<<"div">>, <<"p">>>>, <<<<>>, <<>>>>, <<None, None>>, names, n)

(* div( p( "a b" ) div.a( div.b#x( p.b ) p[lang] ) template( p ) div p.a )  *)
Large ==
  Doc(<<0, 1, 2, 1, 4, 5, 4, 1, 8, 1, 1>>,
    <<<<"div">>, <<"p">>, <<>>, <<"div">>, <<"div">>, <<"p">>, <<"p">>, <<"template">>, <<"p">>, <<"div">>, <<"p">>>>,
    [n \in 1..11 |-> IF n = 3 THEN <<"a", " ", "b">> ELSE <<>>],
    [n \in 1..11 |-> CASE n = 4 -> Class :> a
                       [] n = 5 -> (Class :> b) @@ (<<"id">> :> <<"x">>)
                       [] n = 6 -> (Class :> <<"a", " ", "b">>) @@ (<<"title">> :> <<"A", "-", "b">>)
                       [] n = 7 -> (<<"lang">> :> <<"A", "-", "b">>) @@ (<<"href">> :> b)
                       [] n = 11 -> (Class :> a) @@ (<<"title">> :> <<"a", "a", " ", "b">>)
                       [] OTHER -> None], {}, 0)

MCDocuments == <<Pair({Class}, 2), Pair({Class}, 3), Pair({Style}, 4), Pair({Data, Style}, 2), Large>>
MCQueries ==
  <<Under(ClassTests, 0), {}, {}, Under(DataTests, 0),
    AllOf(Structure \cup Places \cup AttributeTests)
    \cup Under(Structure, 4)
    \cup Calls("querySelector", Structure, {0, 1})
    \cup Calls("matches", Structure, {2, 4, 5, 6, 10})
    \cup Calls("closest", Structure, {2, 6, 9})
    \cup Calls("getElementsByClassName", {Of(<<OfClass(w)>>) : w \in {a, b}}, {0, 4})
    \cup Calls("getElementsByTagName", {Of(<<Tag(w)>>) : w \in {"p", "DIV"}}, {0, 4})>>
=============================================================================
