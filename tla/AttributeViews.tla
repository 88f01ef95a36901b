---------------------------- MODULE AttributeViews ----------------------------
(* The attributes of elements (linkedjsdom.js) and the views a script has   *)
(* of them: classList, style and dataset are made once, keep what they have *)
(* read, and write the attribute themselves.  std is what the DOM standard  *)
(* says the attributes are after the same calls.                            *)
EXTENDS Words, FiniteSets

CONSTANTS
  Documents,  \* the documents tried: the names of the attributes that are
              \* written and how often (a bound)
  Writable,   \* the elements a script writes to
  Values,     \* for each attribute the values it gives it
  Tokens,     \* the tokens it gives classList
  Keys,       \* the keys it sets in style, and their values
  KeyValues,
  AttrNodes,  \* bound: the attribute nodes there may be
  ListIds     \* bound: the classList objects there may be

Class == <<"class">>
Style == <<"style">>
Data  == <<"data-x">>

(* What a script passes: a token is one word; a key and its value have no   *)
(* space around them, and nothing that ends a declaration.                  *)
Without(text, symbols) == \A i \in DOMAIN text : text[i] \notin symbols
IsWord(text) == text \in Seq(Symbols) \ {<<>>} /\ Without(text, {Space})
IsTrimmed(text) ==
  text \in Seq(Symbols) \ {<<>>} /\ text[1] # Space /\ text[Len(text)] # Space

ASSUME ViewsAssumption ==
  /\ Writable \subseteq Nat \ {0}
  /\ AttrNodes \subseteq Nat \ {0} /\ ListIds \subseteq Nat \ {0}
  /\ {Class, Style, Data} \subseteq DOMAIN Values /\ <<>> \notin DOMAIN Values
  /\ \A name \in DOMAIN Values : Values[name] \subseteq Seq(Symbols)
  /\ \A d \in DOMAIN Documents :
       Documents[d].names \subseteq DOMAIN Values /\ Documents[d].writes \in Nat
  /\ \A token \in Tokens : IsWord(token)
  /\ \A key \in Keys : IsTrimmed(key) /\ Without(key, {Colon, Semicolon})
  /\ \A value \in KeyValues : IsTrimmed(value) /\ Without(value, {Semicolon})

VARIABLES
  scene,    \* which of the documents this behaviour is about
  writes,   \* how many writes are left
  attrs,    \* the attribute nodes
  lists,    \* the classList objects
  current,  \* CLASS_LIST of each element, 0 while there is none
  style,    \* STYLE of each element: PRIVATE and the other entries of the Map
  known,    \* the names that the element's dataset has
  std,      \* the attributes by the standard
  bypassed  \* the views written past, see ViewsAgree

Document == Documents[scene]
viewVars == <<scene, writes, attrs, lists, current, style, known, std, bypassed>>

NoAttrs == [n \in {} |-> <<>>]

(* ------------------------------ values ---------------------------------- *)
Add(tokens, token)  == IF token = <<>> \/ token \in ToSet(tokens) THEN tokens ELSE Append(tokens, token)
Drop(tokens, token) == RemoveFirst(tokens, token)
addTokens(text)     == FoldLeft(Add, <<>>, Split(text, Space))

TokensIn(attr)      == IF Class \in DOMAIN attr THEN addTokens(attr[Class]) ELSE <<>>

(* A Map of declarations: a key keeps its place when its value changes.     *)
Put(map, key, value) ==
  IF \E i \in DOMAIN map : map[i][1] = key
  THEN [i \in DOMAIN map |-> IF map[i][1] = key THEN <<key, value>> ELSE map[i]]
  ELSE Append(map, <<key, value>>)
Delete(map, key) ==
  IF \E i \in DOMAIN map : map[i][1] = key
  THEN RemoveAt(map, CHOOSE i \in DOMAIN map : map[i][1] = key)
  ELSE map

(* What a rule between two semicolons declares.                             *)
Declare(map, rule) ==
  LET colon == SelectInSeq(rule, LAMBDA c : c = Colon)
      key   == Trim(SubSeq(rule, 1, colon - 1))
      value == Trim(SubSeq(rule, colon + 1, Len(rule)))
  IN  IF colon = 0 \/ key = <<>> \/ value = <<>> THEN map ELSE Put(map, key, value)
Declarations(text) == FoldLeft(Declare, <<>>, Split(text, Semicolon))

cssText(map) == JoinedBy([i \in DOMAIN map |-> map[i][1] \o <<Colon>> \o map[i][2]], Semicolon)

(* ------------------------- the code's own state ------------------------- *)
S == [attrs |-> attrs, lists |-> lists, current |-> current]

getAttributeNode(s, e, name) ==
  LET own == {a \in AttrNodes : s.attrs[a].owner = e /\ s.attrs[a].name = name}
  IN  IF own = {} THEN 0 ELSE CHOOSE a \in own : TRUE
ValueOf(s, e, name) == s.attrs[getAttributeNode(s, e, name)].value
Present(s, e, name) == getAttributeNode(s, e, name) # 0

Fresh(objects) == CHOOSE x \in objects : TRUE
FreeNodes(s) == {a \in AttrNodes : s.attrs[a].name = <<>>}
FreeLists(s) == {l \in ListIds : s.lists[l].owner = 0}
NewAttr(s, a, name, value) ==
  [s EXCEPT !.attrs[a] = [name |-> name, value |-> value, changed |-> FALSE, owner |-> 0]]

(* Attr.value = ...                                                         *)
SetValue(s, a, value) == [s EXCEPT !.attrs[a].value = value, !.attrs[a].changed = TRUE]

(* classList: made of the attribute when first asked for.                   *)
TokensNow(s, e) ==
  IF s.current[e] # 0 THEN s.lists[s.current[e]].tokens
  ELSE IF Present(s, e, Class) THEN addTokens(ValueOf(s, e, Class)) ELSE <<>>
classList(s, e) ==
  IF s.current[e] # 0 THEN s
  ELSE LET l == Fresh(FreeLists(s))
       IN  [s EXCEPT !.current[e] = l, !.lists[l] = [owner |-> e, tokens |-> TokensNow(s, e)]]

(* The node enters the element; a class is written through classList, which *)
(* writes it back.                                                          *)
setAttribute(s, e, a) ==
  LET r == [s EXCEPT !.attrs[a].owner = e]
      c == classList(r, e)
      tokens == addTokens(s.attrs[a].value)
  IN  IF s.attrs[a].name # Class THEN r
      ELSE SetValue([c EXCEPT !.lists[c.current[e]].tokens = tokens], a, Joined(tokens))

(* DOMTokenList's update: the class attribute becomes the list's value.     *)
update(s, l) ==
  LET e == s.lists[l].owner
      a == Fresh(FreeNodes(s))
      value == Joined(s.lists[l].tokens)
  IN  IF Present(s, e, Class) THEN SetValue(s, getAttributeNode(s, e, Class), value)
      ELSE setAttribute(NewAttr(s, a, Class, value), e, a)

Retoken(s, l, tokens) == update([s EXCEPT !.lists[l].tokens = tokens], l)

(* className = ...: clear, then add, which updates.                         *)
className(s, e, value) ==
  LET c == classList(s, e) IN Retoken(c, c.current[e], addTokens(value))

ElementSetAttribute(s, e, name, value) ==
  LET a == Fresh(FreeNodes(s))
  IN  IF name = Class THEN className(s, e, value)
      ELSE IF Present(s, e, name) THEN SetValue(s, getAttributeNode(s, e, name), value)
      ELSE setAttribute(NewAttr(s, a, name, value), e, a)

(* Defect: CLASS_LIST stays when the class attribute goes.                  *)
removeAttributeKeepingList(s, a) == [s EXCEPT !.attrs[a].owner = 0]

(* removeAttribute of the helper module, and the element's own.             *)
removeAttribute(s, a) ==
  LET e == s.attrs[a].owner
      r == [s EXCEPT !.attrs[a].owner = 0]
  IN  IF s.attrs[a].name = Class THEN [r EXCEPT !.current[e] = 0] ELSE r

ElementRemoveAttribute(s, e, name) ==
  LET l == s.current[e]
      r == IF name = Class /\ l # 0 THEN [s EXCEPT !.lists[l].tokens = <<>>] ELSE s
  IN  IF Present(r, e, name) THEN removeAttribute(r, getAttributeNode(r, e, name)) ELSE r

setAttributeNode(s, e, a) ==
  LET name == s.attrs[a].name
      r == IF Present(s, e, name) THEN removeAttribute(s, getAttributeNode(s, e, name)) ELSE s
      q == IF r.attrs[a].owner # 0 THEN removeAttribute(r, a) ELSE r
  IN  IF getAttributeNode(s, e, name) = a THEN s ELSE setAttribute(q, e, a)

(* updateKeys: the Map is read again when its attribute is another one or   *)
(* has been written.                                                        *)
Reread(s, view, e) ==
  LET a == getAttributeNode(s, e, Style)
  IN  IF a = 0 THEN TRUE ELSE s.attrs[a].changed \/ view.from # a
updateKeys(s, view, e) ==
  IF ~Reread(s, view, e) THEN view
  ELSE IF ~Present(s, e, Style) THEN [from |-> 0, map |-> <<>>]
  ELSE [from |-> getAttributeNode(s, e, Style), map |-> Declarations(ValueOf(s, e, Style))]

(* ------------------------------- actions -------------------------------- *)
ViewInit ==
  /\ scene \in DOMAIN Documents /\ writes = Document.writes
  /\ attrs = [a \in AttrNodes |-> [name |-> <<>>, value |-> <<>>, changed |-> FALSE, owner |-> 0]]
  /\ lists = [l \in ListIds |-> [owner |-> 0, tokens |-> <<>>]]
  /\ current = [e \in Writable |-> 0]
  /\ style = [e \in Writable |-> [from |-> 0, map |-> <<>>]]
  /\ known = [e \in Writable |-> "unmade"]
  /\ std = [e \in Writable |-> NoAttrs]
  /\ bypassed = {}

(* Bound: a write needs a free node and a free list.                        *)
MayWrite ==
  /\ writes > 0 /\ FreeNodes(S) # {} /\ FreeLists(S) # {}
  /\ writes' = writes - 1 /\ UNCHANGED scene

Becomes(s) == attrs' = s.attrs /\ lists' = s.lists /\ current' = s.current

StdSet(d, e, name, value) ==
  [d EXCEPT ![e] = [n \in DOMAIN @ \cup {name} |-> IF n = name THEN value ELSE @[n]]]
StdDrop(d, e, name) == [d EXCEPT ![e] = [n \in DOMAIN @ \ {name} |-> @[n]]]
StdTokens(e) == TokensIn(std[e])
StdStyle(e)  == IF Style \in DOMAIN std[e] THEN Declarations(std[e][Style]) ELSE <<>>

(* A class written as a whole makes its views agree again.                  *)
Healed(es, name) == IF name = Class THEN bypassed \ {<<e, Class>> : e \in es} ELSE bypassed

SetAttribute(e, name, value) ==
  /\ MayWrite
  /\ Becomes(ElementSetAttribute(S, e, name, value))
  /\ std' = StdSet(std, e, name, value)
  /\ bypassed' = Healed({e}, name)
  /\ UNCHANGED <<style, known>>

RemoveAttribute(e, name) ==
  /\ MayWrite /\ Present(S, e, name)
  /\ Becomes(ElementRemoveAttribute(S, e, name))
  /\ std' = StdDrop(std, e, name)
  /\ bypassed' = Healed({e}, name)
  /\ UNCHANGED <<style, known>>

(* attr.value = ...: classList is not told.                                 *)
SetAttrValue(a, value) ==
  LET e == attrs[a].owner IN
  /\ MayWrite /\ attrs[a].name # <<>>
  /\ Becomes(SetValue(S, a, value))
  /\ std' = IF e = 0 THEN std ELSE StdSet(std, e, attrs[a].name, value)
  /\ bypassed' = bypassed \cup (IF attrs[a].name = Class /\ e # 0 /\ current[e] # 0
                                THEN {<<e, Class>>} ELSE {})
  /\ UNCHANGED <<style, known>>

SetAttributeNode(e, a) ==
  LET from == attrs[a].owner
      name == attrs[a].name IN
  /\ MayWrite /\ name # <<>> /\ from # e
  /\ Becomes(setAttributeNode(S, e, a))
  /\ std' = StdSet(IF from = 0 THEN std ELSE StdDrop(std, from, name), e, name, attrs[a].value)
  /\ bypassed' = Healed({e, from}, name)
  /\ UNCHANGED <<style, known>>

RemoveAttributeNode(a) ==
  LET e == attrs[a].owner IN
  /\ MayWrite /\ e # 0
  /\ Becomes(removeAttribute(S, a))
  /\ std' = StdDrop(std, e, attrs[a].name)
  /\ bypassed' = Healed({e}, attrs[a].name)
  /\ UNCHANGED <<style, known>>

(* className, getAttribute("class") and any selector that asks for a class. *)
ReadClass(e) ==
  /\ Class \in Document.names /\ current[e] = 0 /\ FreeLists(S) # {}
  /\ Becomes(classList(S, e))
  /\ UNCHANGED <<scene, writes, style, known, std, bypassed>>

(* add, remove, toggle and replace, of any classList object a script has.   *)
ListWrite(l, tokens, stdTokens) ==
  LET e == lists[l].owner IN
  /\ MayWrite
  /\ Becomes(Retoken(S, l, tokens))
  /\ std' = IF stdTokens = <<>> /\ Class \notin DOMAIN std[e] THEN std
            ELSE StdSet(std, e, Class, Joined(stdTokens))
  /\ bypassed' = IF l = current[e] THEN bypassed ELSE bypassed \cup {<<e, Class>>}
  /\ UNCHANGED <<style, known>>

StdOf(l) == StdTokens(lists[l].owner)
ListAdd(l, token)    == ListWrite(l, Add(lists[l].tokens, token), Add(StdOf(l), token))
ListRemove(l, token) == ListWrite(l, Drop(lists[l].tokens, token), Drop(StdOf(l), token))
ListToggle(l, token) ==
  IF token \in ToSet(lists[l].tokens) THEN ListRemove(l, token) ELSE ListAdd(l, token)
(* The new token is added last; the standard puts it where the old one was. *)
ListReplace(l, token, new) ==
  /\ token \in ToSet(lists[l].tokens)
  /\ ListWrite(l, Add(Drop(lists[l].tokens, token), new), Add(Drop(StdOf(l), token), new))

(* The Map of an element's style, read by a script.                         *)
StyleRead(e) ==
  /\ Reread(S, style[e], e) /\ style' = [style EXCEPT ![e] = updateKeys(S, @, e)]
  /\ style' # style
  /\ bypassed' = bypassed \ {<<e, Style>>}
  /\ UNCHANGED <<scene, writes, attrs, lists, current, known, std>>

(* style.key = value, for <<>> removed: the attribute is written as it is.  *)
StyleSet(e, key, value) ==
  LET view == updateKeys(S, style[e], e)
      map  == IF value = <<>> THEN Delete(view.map, key) ELSE Put(view.map, key, value)
      free == Fresh(FreeNodes(S))
      s    == IF Present(S, e, Style) THEN S ELSE setAttribute(NewAttr(S, free, Style, <<>>), e, free)
      a    == getAttributeNode(s, e, Style)
      past == {x \in Writable \ {e} : style[x].from = a}
      stdMap == IF value = <<>> THEN Delete(StdStyle(e), key) ELSE Put(StdStyle(e), key, value)
  IN  /\ MayWrite /\ Style \in Document.names
      /\ Becomes([s EXCEPT !.attrs[a].changed = FALSE, !.attrs[a].value = cssText(map)])
      /\ style' = [style EXCEPT ![e] = [from |-> a, map |-> map]]
      /\ std' = StdSet(std, e, Style, cssText(stdMap))
      /\ bypassed' = (IF Reread(S, style[e], e) THEN bypassed \ {<<e, Style>>} ELSE bypassed)
                     \cup {<<x, Style>> : x \in past}
      /\ UNCHANGED known

(* dataset: the names are those the attributes have when it is made.        *)
DatasetMake(e) ==
  /\ Data \in Document.names /\ known[e] = "unmade"
  /\ known' = [known EXCEPT ![e] = IF Present(S, e, Data) THEN "in" ELSE "out"]
  /\ UNCHANGED <<scene, writes, attrs, lists, current, style, std, bypassed>>

DatasetSet(e, value) ==
  /\ MayWrite /\ known[e] # "unmade"
  /\ known' = [known EXCEPT ![e] = "in"]
  /\ Becomes(ElementSetAttribute(S, e, Data, value))
  /\ std' = StdSet(std, e, Data, value)
  /\ UNCHANGED <<style, bypassed>>

DatasetDelete(e) ==
  /\ MayWrite /\ known[e] = "in"
  /\ known' = [known EXCEPT ![e] = "out"]
  /\ Becomes(ElementRemoveAttribute(S, e, Data))
  /\ std' = StdDrop(std, e, Data)
  /\ UNCHANGED <<style, bypassed>>

(* ------------------------------ behaviours ------------------------------ *)
ViewNext ==
  \/ \E e \in Writable :
       \/ \E name \in Document.names : \/ \E value \in Values[name] : SetAttribute(e, name, value)
                                       \/ RemoveAttribute(e, name)
       \/ \E a \in AttrNodes : SetAttributeNode(e, a)
       \/ ReadClass(e) \/ StyleRead(e) \/ DatasetMake(e) \/ DatasetDelete(e)
       \/ \E key \in Keys : \E value \in KeyValues \cup {<<>>} : StyleSet(e, key, value)
       \/ \E value \in Values[Data] : DatasetSet(e, value)
  \/ \E a \in AttrNodes :
       \/ RemoveAttributeNode(a)
       \/ attrs[a].name # <<>> /\ \E value \in Values[attrs[a].name] : SetAttrValue(a, value)
  \/ \E l \in ListIds : lists[l].owner # 0 /\ \E token \in Tokens :
       \/ ListAdd(l, token) \/ ListRemove(l, token) \/ ListToggle(l, token)
       \/ \E new \in Tokens : ListReplace(l, token, new)

ViewSpec == ViewInit /\ [][ViewNext]_viewVars

(* ------------------------------ properties ------------------------------ *)
(* A classList belongs to one element, and a style's PRIVATE is a node of   *)
(* the name "style"; the numbers stay within their bounds.                  *)
TypeOK ==
  /\ writes \in 0..Document.writes
  /\ \A e \in Writable : /\ current[e] # 0 => lists[current[e]].owner = e
                         /\ style[e].from # 0 => attrs[style[e].from].name = Style
                         /\ known[e] \in {"unmade", "in", "out"}
  /\ \A a \in AttrNodes : attrs[a].owner \in Writable \cup {0}

(* Whatever calls were made, through the element, its attribute nodes,      *)
(* classList, style or dataset, and whenever a view was made: every view    *)
(* shows what the standard says the attributes are by then, an element has  *)
(* one attribute of a name, and its text says the same as the views.        *)
(* Excepted are the views written past: a class whose node was given a      *)
(* value, or that was written through a classList of before a removal; a    *)
(* style whose node another element's style has written.                    *)
ViewsAgree ==
  /\ TypeOK
  /\ \A e \in Writable :
       /\ \A a, b \in AttrNodes : attrs[a].owner = e /\ attrs[b].owner = e /\ attrs[a].name = attrs[b].name => a = b
       /\ <<e, Class>> \notin bypassed =>
            /\ TokensNow(S, e) = StdTokens(e)
            /\ Present(S, e, Class) => addTokens(ValueOf(S, e, Class)) = StdTokens(e)
       /\ <<e, Style>> \notin bypassed =>
            /\ updateKeys(S, style[e], e).map = StdStyle(e)
            /\ Present(S, e, Style) => Declarations(ValueOf(S, e, Style)) = StdStyle(e)
       /\ Present(S, e, Data) <=> Data \in DOMAIN std[e]
       /\ Present(S, e, Data) => ValueOf(S, e, Data) = std[e][Data]
=============================================================================
