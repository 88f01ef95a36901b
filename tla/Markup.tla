-------------------------------- MODULE Markup --------------------------------
(***************************************************************************)
(* How linkedjsdom.js reads markup and writes it again: the tokenizer and    *)
(* the parser of htmlparser2, the callbacks that build the tree, and the     *)
(* toString methods of its nodes.                                            *)
(*                                                                         *)
(* A document is a sequence of symbols: a character, or a word that the code *)
(* compares as a whole (the name of a tag or an entity, "CDATA["). The       *)
(* buffer is written once and ended, as parseFromString does.                *)
(***************************************************************************)
EXTENDS Integers, Sequences, SequencesExt, FiniteSetsExt, TLC

CONSTANT Documents  \* the documents that are parsed, as HTML and as XML

VARIABLE p          \* the tokenizer, the parser over it, and the tree they build

vars == <<p>>
-----------------------------------------------------------------------------
(* Symbols and names. The tables keep the names that the documents use.      *)
Whitespace == {" "}
Digits     == {"60"}
Special    == {"<", ">", "/", "!", "-", "=", "\"", "'", " ", "&", ";", "#", "?", "[", "]",
                "$", "grave"}

isEndOfTagSection(c) == c \in {"/", ">"} \cup Whitespace
isASCIIAlpha(c)      == c \notin Special \cup Digits

EndTag(name) == <<"<", "/", name>>
CdataEnd     == <<"]", "]", ">">>
CommentEnd   == <<"-", "-", ">">>

openImpliesClose == [name \in {"p", "div", "tr", "td"} |->
                      CASE name = "tr" -> {<<"tr">>, <<"td">>}
                        [] name = "td" -> {<<"td">>}
                        [] OTHER       -> {<<"p">>}]
ImpliesClose(name) ==
  IF Len(name) = 1 /\ name[1] \in DOMAIN openImpliesClose THEN openImpliesClose[name[1]] ELSE {}

voidElements            == {<<"br">>, <<"frame">>}
foreignContextElements  == {<<"svg">>}
htmlIntegrationElements == {<<"title">>, <<"desc">>}

(* The parent of the document is null. *)
Null == -1
-----------------------------------------------------------------------------
(* The tree: nodes are only ever appended, so their order is document order. *)
Node(kind, name, data, attrs, svg, parent) ==
  [kind |-> kind, name |-> name, data |-> data, attrs |-> attrs, svg |-> svg, parent |-> parent]

AppendLeaf(s, kind, data) ==
  [s EXCEPT !.nodes = Append(@, Node(kind, <<>>, data, <<>>, FALSE, s.node))]

BuildOpen(s, name, attrs) ==
  LET svg == s.isHTML /\ (s.owner # 0 \/ name = <<"svg">>)
      new == Len(s.nodes) + 1
  IN  [s EXCEPT !.nodes = Append(@, Node("element", name, <<>>, attrs, svg, s.node)),
                !.node  = new,
                !.owner = IF svg /\ @ = 0 THEN new ELSE @]

ParentOf(nodes, node) == IF node = 0 THEN Null ELSE nodes[node].parent

BuildClose(s) ==
  [s EXCEPT !.node  = ParentOf(s.nodes, @),
            !.owner = IF s.isHTML /\ @ = s.node THEN 0 ELSE @]
-----------------------------------------------------------------------------
(* The parser: what it makes of the tokenizer's events.                      *)
getSlice(s, start, end) ==
  SubSeq(s.buffer, (IF start < 0 THEN Len(s.buffer) + start ELSE start) + 1, end)

ontext(s, start, end) ==
  AppendLeaf(s, "text", getSlice(s, start, end))

isVoidElement(s, name) == s.isHTML /\ name \in voidElements

(* The elements on top of the stack are closed, in the builder too.          *)
CloseTop(s, count) ==
  FoldLeft(LAMBDA r, i : [BuildClose(r) EXCEPT !.stack = Tail(@)], s, [i \in 1..count |-> i])

(* Defect: an element without content is put on the stack like any other.    *)
emitOpenTagVoid(s, name) ==
  LET implied == IF s.isHTML THEN ImpliesClose(name) ELSE {}
      r == CloseTop(s, Max({k \in 0..Len(s.stack) : \A i \in 1..k : s.stack[i] \in implied}))
  IN  [r EXCEPT !.tagname = name, !.attribs = <<>>, !.stack = <<name>> \o @,
                !.foreign = IF ~s.isHTML THEN @
                            ELSE IF name \in foreignContextElements THEN <<TRUE>> \o @
                            ELSE IF name \in htmlIntegrationElements THEN <<FALSE>> \o @
                            ELSE @]

emitOpenTag(s, name) ==
  LET implied == IF s.isHTML THEN ImpliesClose(name) ELSE {}
      r == CloseTop(s, Max({k \in 0..Len(s.stack) : \A i \in 1..k : s.stack[i] \in implied}))
      open == ~isVoidElement(s, name)
  IN  [r EXCEPT !.tagname = name,
                !.attribs = <<>>,
                !.stack   = IF open THEN <<name>> \o @ ELSE @,
                !.foreign = IF ~open \/ ~s.isHTML THEN @
                            ELSE IF name \in foreignContextElements THEN <<TRUE>> \o @
                            ELSE IF name \in htmlIntegrationElements THEN <<FALSE>> \o @
                            ELSE @]

endOpenTag(s) ==
  LET r == BuildOpen(s, s.tagname, s.attribs)
  IN  [IF isVoidElement(s, s.tagname) THEN BuildClose(r) ELSE r
        EXCEPT !.tagname = <<>>, !.attribs = <<>>]

closeCurrentTag(s) ==
  LET r == endOpenTag(s)
  IN  IF r.stack # <<>> /\ Head(r.stack) = s.tagname THEN CloseTop(r, 1) ELSE r

onselfclosingtag(s) ==
  IF ~s.isHTML \/ (s.foreign # <<>> /\ Head(s.foreign)) THEN closeCurrentTag(s) ELSE endOpenTag(s)

onclosetag(s, start, end) ==
  LET name == getSlice(s, start, end)
      r    == IF s.isHTML /\ name \in foreignContextElements \cup htmlIntegrationElements
                   /\ s.foreign # <<>>
              THEN [s EXCEPT !.foreign = Tail(@)] ELSE s
  IN  CASE name \in ToSet(r.stack) /\ ~isVoidElement(s, name) ->
             CloseTop(r, SelectInSeq(r.stack, LAMBDA n : n = name))
        [] s.isHTML /\ name = <<"p">> /\ name \notin ToSet(r.stack) ->
             closeCurrentTag(emitOpenTag(r, name))
        [] s.isHTML /\ name = <<"br">> -> BuildClose(BuildOpen(r, name, <<>>))
        [] OTHER -> r

onattribname(s, start, end) == [s EXCEPT !.attribname = getSlice(s, start, end)]
onattribdata(s, start, end) == [s EXCEPT !.attribvalue = @ \o getSlice(s, start, end)]

(* Of two attributes of one name the first counts. *)
onattribend(s) ==
  [s EXCEPT !.attribs = IF \E i \in DOMAIN @ : @[i].name = s.attribname THEN @
                        ELSE Append(@, [name |-> s.attribname, value |-> s.attribvalue]),
            !.attribvalue = <<>>]

oncomment(s, start, end, offset) == AppendLeaf(s, "comment", getSlice(s, start, end - offset))

oncdata(s, start, end, offset) ==
  LET data == getSlice(s, start, end - offset)
  IN  IF s.isHTML THEN AppendLeaf(s, "comment", <<"[", "CDATA[">> \o data \o <<"]", "]">>)
      ELSE AppendLeaf(s, "cdata", data)
-----------------------------------------------------------------------------
(* The entity decoder. A symbol stands for a whole name or number, so what   *)
(* is left of its trie is the table of values. result is the value found.    *)
Entities == ("lt" :> "<") @@ ("gt" :> ">") @@ ("amp" :> "&") @@ ("quot" :> "\"")
CodePoints == "60" :> "<"

startEntity(s) ==
  [s EXCEPT !.baseState = s.state, !.state = "InEntity", !.entityStart = s.index,
            !.decoder = [state |-> "EntityStart", result |-> <<>>, consumed |-> 1]]

InText(s) == s.baseState \in {"Text", "InSpecialTag"}
Strict(s) == ~s.isHTML

(* The text or the value up to the entity, then what it stands for.          *)
emitCodePoint(s, cp, consumed) ==
  LET before == s.sectionStart < s.entityStart
      r == IF ~before THEN s
           ELSE IF InText(s) THEN ontext(s, s.sectionStart, s.entityStart)
           ELSE onattribdata(s, s.sectionStart, s.entityStart)
      q == IF InText(s) THEN AppendLeaf(r, "text", cp) ELSE [r EXCEPT !.attribvalue = @ \o cp]
  IN  [q EXCEPT !.state = s.baseState, !.sectionStart = s.entityStart + consumed,
                !.index = s.entityStart + consumed - 1]

(* No entity: the ampersand stands for itself, and what follows is read again. *)
NotAnEntity(s) == [s EXCEPT !.state = s.baseState, !.index = s.entityStart]

MoreOfEntity(s, state, result) ==
  [s EXCEPT !.decoder = [state |-> state, result |-> result, consumed |-> @.consumed + 1]]

emitNumericEntity(s, c) ==
  LET d == s.decoder IN
  IF d.consumed <= 2 \/ (c # ";" /\ Strict(s)) THEN NotAnEntity(s)
  ELSE emitCodePoint(s, d.result, d.consumed + (IF c = ";" THEN 1 ELSE 0))

(* A name without its semicolon counts, but not in XML, nor in an attribute  *)
(* when more of a word or "=" follows.                                       *)
emitNamedEntity(s, c) ==
  LET d == s.decoder IN
  IF c = ";" THEN emitCodePoint(s, d.result, d.consumed + 1)
  ELSE IF Strict(s) \/ (~InText(s) /\ (c \in Digits \cup {"="} \/ isASCIIAlpha(c)))
  THEN NotAnEntity(s) ELSE emitCodePoint(s, d.result, d.consumed)

stateInEntity(s, c) ==
  CASE s.decoder.state = "EntityStart" ->
         IF c = "#" THEN MoreOfEntity(s, "Numeric", <<>>)
         ELSE IF c \in DOMAIN Entities THEN MoreOfEntity(s, "Named", <<Entities[c]>>)
         ELSE NotAnEntity(s)
    [] s.decoder.state = "Numeric" ->
         IF c \in Digits THEN MoreOfEntity(s, "Numeric", <<CodePoints[c]>>)
         ELSE emitNumericEntity(s, c)
    [] OTHER -> emitNamedEntity(s, c)

(* The end of the input in the middle of an entity.                          *)
EndOfEntity(s) ==
  CASE s.decoder.state = "Numeric" -> emitNumericEntity(s, "")
    [] s.decoder.state = "Named" /\ ~Strict(s) -> emitCodePoint(s, s.decoder.result, s.decoder.consumed)
    [] OTHER -> [s EXCEPT !.state = s.baseState]
-----------------------------------------------------------------------------
(* The tokenizer: one handler for each of its states. Where the code skips   *)
(* forward to a symbol, the handler leaves what is before it alone.          *)
To(s, state)      == [s EXCEPT !.state = state]
Section(s, start) == [s EXCEPT !.sectionStart = start]
NextSection(s, state) == Section(To(s, state), s.index + 1)

stateText(s, c) ==
  CASE c = "<" -> Section(To(IF s.index > s.sectionStart THEN ontext(s, s.sectionStart, s.index)
                             ELSE s, "BeforeTagName"), s.index)
    [] c = "&" -> startEntity(s)
    [] OTHER   -> s

(* The words that start a special tag are single symbols: it remains to see  *)
(* that the name ends there.                                                 *)
isTagStartChar(s, c) == IF s.isHTML THEN isASCIIAlpha(c) ELSE ~isEndOfTagSection(c)

stateBeforeTagName(s, c) ==
  CASE c = "!" -> NextSection(s, "BeforeDeclaration")
    [] c = "?" -> NextSection(s, "InProcessingInstruction")
    [] c = "/" -> To(s, "BeforeClosingTagName")
    [] c \notin {"!", "?"} /\ isTagStartChar(s, c) ->
         LET r == Section(s, s.index)
         IN  IF s.isHTML /\ c \in {"script", "title"}
             THEN [r EXCEPT !.isSpecial = TRUE, !.sequence = EndTag(c),
                            !.state = "SpecialStartSequence"]
             ELSE To(r, "InTagName")
    [] OTHER -> stateText(To(s, "Text"), c)

stateBeforeAttributeName(s, c) ==
  CASE c = ">" ->
         LET r == endOpenTag(s)
         IN  NextSection([r EXCEPT !.sequenceIndex = IF s.isSpecial THEN 0 ELSE @],
                         IF s.isSpecial THEN "InSpecialTag" ELSE "Text")
    [] c = "/" -> To(s, "InSelfClosingTag")
    [] c \in Whitespace -> s
    [] OTHER -> Section(To(s, "InAttributeName"), s.index)

stateInTagName(s, c) ==
  IF isEndOfTagSection(c)
  THEN stateBeforeAttributeName(
         Section(To(emitOpenTag(s, getSlice(s, s.sectionStart, s.index)), "BeforeAttributeName"), -1), c)
  ELSE s

stateSpecialStartSequence(s, c) ==
  stateInTagName([s EXCEPT !.isSpecial = isEndOfTagSection(c), !.sequenceIndex = 0,
                           !.state = "InTagName"], c)

stateAfterClosingTagName(s, c) == IF c = ">" THEN NextSection(s, "Text") ELSE s

stateInClosingTagName(s, c) ==
  IF c = ">" \/ c \in Whitespace
  THEN stateAfterClosingTagName(
         Section(To(onclosetag(s, s.sectionStart, s.index), "AfterClosingTagName"), -1), c)
  ELSE s

stateBeforeClosingTagName(s, c) ==
  CASE c \in Whitespace -> s
    [] c = ">" -> To(s, "Text")
    [] OTHER -> Section(To(s, IF isTagStartChar(s, c) THEN "InClosingTagName"
                              ELSE "InSpecialComment"), s.index)

(* In a special tag only its own end tag counts, and in a title entities.    *)
stateInSpecialTag(s, c) ==
  LET matched   == s.sequenceIndex = Len(s.sequence)
      endOfText == s.index - Len(s.sequence)
      at        == IF matched THEN 0 ELSE s.sequenceIndex
  IN  CASE matched /\ (c = ">" \/ c \in Whitespace) ->
             LET r == IF s.sectionStart < endOfText THEN ontext(s, s.sectionStart, endOfText) ELSE s
             IN  stateInClosingTagName([r EXCEPT !.isSpecial = FALSE,
                                                 !.sectionStart = endOfText + 2], c)
        [] c = s.sequence[at + 1] -> [s EXCEPT !.sequenceIndex = at + 1]
        [] c # s.sequence[at + 1] /\ at = 0 /\ c = "&" /\ s.sequence = EndTag("title") ->
             startEntity([s EXCEPT !.sequenceIndex = 0])
        [] OTHER -> [s EXCEPT !.sequenceIndex = IF c = "<" THEN 1 ELSE 0]

stateInSelfClosingTag(s, c) ==
  CASE c = ">" -> [NextSection(onselfclosingtag(s), "Text") EXCEPT !.isSpecial = FALSE]
    [] c \in Whitespace -> s
    [] OTHER -> stateBeforeAttributeName(To(s, "BeforeAttributeName"), c)

stateAfterAttributeName(s, c) ==
  CASE c = "=" -> To(s, "BeforeAttributeValue")
    [] c \in {"/", ">"} ->
         stateBeforeAttributeName(Section(To(onattribend(s), "BeforeAttributeName"), -1), c)
    [] c \in Whitespace -> s
    [] OTHER -> Section(To(onattribend(s), "InAttributeName"), s.index)

stateInAttributeName(s, c) ==
  IF c = "=" \/ isEndOfTagSection(c)
  THEN stateAfterAttributeName(
         Section(To(onattribname(s, s.sectionStart, s.index), "AfterAttributeName"), s.index), c)
  ELSE s

AttributeEnd(s) ==
  Section(To(onattribend(onattribdata(s, s.sectionStart, s.index)), "BeforeAttributeName"), -1)

handleInAttributeValue(s, c, quote) ==
  CASE c = quote -> AttributeEnd(s)
    [] c = "&"   -> startEntity(s)
    [] OTHER     -> s

stateInAttributeValueNoQuotes(s, c) ==
  CASE c = ">" \/ c \in Whitespace -> stateBeforeAttributeName(AttributeEnd(s), c)
    [] c = "&" -> startEntity(s)
    [] OTHER   -> s

stateBeforeAttributeValue(s, c) ==
  CASE c = "\"" -> NextSection(s, "InAttributeValueDq")
    [] c = "'"  -> NextSection(s, "InAttributeValueSq")
    [] c \in Whitespace -> s
    [] OTHER -> stateInAttributeValueNoQuotes(Section(To(s, "InAttributeValueNq"), s.index), c)

stateBeforeDeclaration(s, c) ==
  CASE c = "[" -> [To(s, "CDATASequence") EXCEPT !.sequenceIndex = 0]
    [] c = "-" -> To(s, "BeforeComment")
    [] OTHER   -> To(s, "InDeclaration")

(* The builder takes notice of a doctype only, which is not modelled.        *)
stateInDeclaration(s, c) == IF c = ">" THEN NextSection(s, "Text") ELSE s
stateInProcessingInstruction(s, c) == IF c = ">" THEN NextSection(s, "Text") ELSE s

stateCDATASequence(s, c) ==
  IF c = "CDATA["
  THEN [NextSection(s, "InCommentLike") EXCEPT !.sequence = CdataEnd, !.sequenceIndex = 0]
  ELSE stateInDeclaration([To(s, "InDeclaration") EXCEPT !.sequenceIndex = 0], c)

stateBeforeComment(s, c) ==
  IF c = "-"
  THEN [NextSection(s, "InCommentLike") EXCEPT !.sequence = CommentEnd, !.sequenceIndex = 2]
  ELSE To(s, "InDeclaration")

stateInCommentLike(s, c) ==
  LET at == s.sequenceIndex IN
  CASE c = s.sequence[at + 1] /\ at + 1 = Len(s.sequence) ->
         LET r == IF s.sequence = CdataEnd THEN oncdata(s, s.sectionStart, s.index, 2)
                  ELSE oncomment(s, s.sectionStart, s.index, 2)
         IN  NextSection([r EXCEPT !.sequenceIndex = 0], "Text")
    [] c = s.sequence[at + 1] /\ at + 1 < Len(s.sequence) -> [s EXCEPT !.sequenceIndex = at + 1]
    [] c # s.sequence[at + 1] /\ at > 0 /\ c # s.sequence[at] -> [s EXCEPT !.sequenceIndex = 0]
    [] OTHER -> s

stateInSpecialComment(s, c) ==
  IF c = ">" THEN NextSection(oncomment(s, s.sectionStart, s.index, 0), "Text") ELSE s
-----------------------------------------------------------------------------
(* A parse from the start of a document to its end.                          *)
Start(document, isHTML) ==
  [buffer |-> document, isHTML |-> isHTML, ended |-> FALSE,
   state |-> "Text", baseState |-> "Text", index |-> 0, sectionStart |-> 0, entityStart |-> 0,
   isSpecial |-> FALSE, sequence |-> <<>>, sequenceIndex |-> 0,
   decoder |-> [state |-> "EntityStart", result |-> <<>>, consumed |-> 1],
   tagname |-> <<>>, attribname |-> <<>>, attribvalue |-> <<>>, attribs |-> <<>>,
   stack |-> <<>>, foreign |-> <<~isHTML>>,
   nodes |-> <<>>, node |-> 0, owner |-> 0]

Handle(s, c) ==
  CASE s.state = "Text"                    -> stateText(s, c)
    [] s.state = "SpecialStartSequence"    -> stateSpecialStartSequence(s, c)
    [] s.state = "InSpecialTag"            -> stateInSpecialTag(s, c)
    [] s.state = "CDATASequence"           -> stateCDATASequence(s, c)
    [] s.state = "InAttributeValueDq"      -> handleInAttributeValue(s, c, "\"")
    [] s.state = "InAttributeName"         -> stateInAttributeName(s, c)
    [] s.state = "InCommentLike"           -> stateInCommentLike(s, c)
    [] s.state = "InSpecialComment"        -> stateInSpecialComment(s, c)
    [] s.state = "BeforeAttributeName"     -> stateBeforeAttributeName(s, c)
    [] s.state = "InTagName"               -> stateInTagName(s, c)
    [] s.state = "InClosingTagName"        -> stateInClosingTagName(s, c)
    [] s.state = "BeforeTagName"           -> stateBeforeTagName(s, c)
    [] s.state = "AfterAttributeName"      -> stateAfterAttributeName(s, c)
    [] s.state = "InAttributeValueSq"      -> handleInAttributeValue(s, c, "'")
    [] s.state = "BeforeAttributeValue"    -> stateBeforeAttributeValue(s, c)
    [] s.state = "BeforeClosingTagName"    -> stateBeforeClosingTagName(s, c)
    [] s.state = "AfterClosingTagName"     -> stateAfterClosingTagName(s, c)
    [] s.state = "InAttributeValueNq"      -> stateInAttributeValueNoQuotes(s, c)
    [] s.state = "InSelfClosingTag"        -> stateInSelfClosingTag(s, c)
    [] s.state = "InDeclaration"           -> stateInDeclaration(s, c)
    [] s.state = "BeforeDeclaration"       -> stateBeforeDeclaration(s, c)
    [] s.state = "BeforeComment"           -> stateBeforeComment(s, c)
    [] s.state = "InProcessingInstruction" -> stateInProcessingInstruction(s, c)
    [] s.state = "InEntity"                -> stateInEntity(s, c)

MoreInput(s) == s.index < Len(s.buffer)

ParseOne(s) == LET r == Handle(s, s.buffer[s.index + 1]) IN [r EXCEPT !.index = @ + 1]

InAttributeValue(s) ==
  s.state \in {"InAttributeValueDq", "InAttributeValueSq", "InAttributeValueNq"}

(* What was read of a text or a value is reported when the buffer is used up. *)
cleanup(s) ==
  IF s.sectionStart = s.index THEN s
  ELSE IF s.state = "Text" \/ (s.state = "InSpecialTag" /\ s.sequenceIndex = 0)
  THEN Section(ontext(s, s.sectionStart, s.index), s.index)
  ELSE IF InAttributeValue(s)
  THEN Section(onattribdata(s, s.sectionStart, s.index), s.index) ELSE s

InTag(s) ==
  \/ InAttributeValue(s)
  \/ s.state \in {"InTagName", "BeforeAttributeName", "BeforeAttributeValue",
                   "AfterAttributeName", "InAttributeName", "InClosingTagName"}

handleTrailingData(s) ==
  LET end == Len(s.buffer) IN
  IF s.sectionStart >= end \/ (s.state # "InCommentLike" /\ InTag(s)) THEN s
  ELSE IF s.state # "InCommentLike" THEN ontext(s, s.sectionStart, end)
  ELSE IF s.sequence = CdataEnd THEN oncdata(s, s.sectionStart, end, 0)
  ELSE oncomment(s, s.sectionStart, end, 0)

(* The end closes what is open, and leaves the stack as it is.               *)
onend(s) == FoldLeft(LAMBDA r, name : BuildClose(r), [s EXCEPT !.ended = TRUE], s.stack)

finish(s) ==
  LET r == cleanup(s)
  IN  onend(handleTrailingData(IF r.state = "InEntity" THEN EndOfEntity(r) ELSE r))

(* The same at one go.                                                       *)
RECURSIVE ParseRest(_)
ParseRest(s) == IF MoreInput(s) THEN ParseRest(ParseOne(s)) ELSE finish(s)

ParseAll(document, isHTML) == ParseRest(Start(document, isHTML))
-----------------------------------------------------------------------------
(* Writing a tree: toString of each kind of node.                            *)
(* Defect: an ampersand is written as it is.                                 *)
escapeAnglesOnly(text) ==
  FlattenSeq([i \in DOMAIN text |->
    CASE text[i] = "<" -> <<"&", "lt", ";">>
      [] text[i] = ">" -> <<"&", "gt", ";">>
      [] OTHER         -> <<text[i]>>])

escape(text) ==
  FlattenSeq([i \in DOMAIN text |->
    CASE text[i] = "<" -> <<"&", "lt", ";">>
      [] text[i] = ">" -> <<"&", "gt", ";">>
      [] text[i] = "&" -> <<"&", "amp", ";">>
      [] OTHER         -> <<text[i]>>])

emptyAttributes == {<<"id">>, <<"hidden">>}

(* An empty id, class or style is not written.                               *)
AttrString(attr) ==
  IF attr.name \in emptyAttributes /\ attr.value = <<>>
  THEN IF attr.name = <<"id">> THEN <<>> ELSE <<" ">> \o attr.name
  ELSE <<" ">> \o attr.name \o <<"=", "\"">>
       \o FlattenSeq([i \in DOMAIN attr.value |->
                        IF attr.value[i] = "\"" THEN <<"&", "quot", ";">> ELSE <<attr.value[i]>>])
       \o <<"\"">>

isVoid(isHTML, name) == isHTML => name \in {<<"br">>, <<"menuitem">>}

ChildrenOf(nodes, node) ==
  SelectSeq([n \in DOMAIN nodes |-> n], LAMBDA n : nodes[n].parent = node)

IsTextElement(isHTML, node) ==
  isHTML /\ node.kind = "element" /\ ~node.svg /\ node.name \in {<<"script">>, <<"title">>}

(* The text nodes below a node.                                              *)
RECURSIVE textContent(_, _)
textContent(nodes, node) ==
  FlattenSeq([i \in DOMAIN ChildrenOf(nodes, node) |->
    LET n == ChildrenOf(nodes, node)[i]
    IN  CASE nodes[n].kind = "text"    -> nodes[n].data
          [] nodes[n].kind = "element" -> textContent(nodes, n)
          [] OTHER                     -> <<>>])

ElementString(isHTML, node, content) ==
  LET open == <<"<">> \o node.name
              \o FlattenSeq([i \in DOMAIN node.attrs |-> AttrString(node.attrs[i])])
  IN  CASE content # <<>> -> open \o <<">">> \o content \o <<"<", "/">> \o node.name \o <<">">>
        [] content = <<>> /\ (node.svg \/ (isVoid(isHTML, node.name) /\ ~isHTML)) ->
             open \o <<" ", "/", ">">>
        [] content = <<>> /\ ~node.svg /\ isVoid(isHTML, node.name) /\ isHTML -> open \o <<">">>
        [] OTHER -> open \o <<">", "<", "/">> \o node.name \o <<">">>

(* What String.replace puts in the place of a match: after a "$" in the      *)
(* replacement, four symbols stand for a "$", the match, what is before and  *)
(* what is after it. Any other "$" is itself: there are no groups.           *)
Substitute(text, match, before, after) ==
  LET pattern == ("$" :> <<"$">>) @@ ("&" :> match) @@ ("grave" :> before) @@ ("'" :> after)
      Step(r, c) ==
        CASE ~r.dollar /\ c = "$" -> [r EXCEPT !.dollar = TRUE]
          [] ~r.dollar /\ c # "$" -> [r EXCEPT !.out = Append(@, c)]
          [] r.dollar ->
               [dollar |-> FALSE,
                out |-> r.out \o (IF c \in DOMAIN pattern THEN pattern[c] ELSE <<"$", c>>)]
  IN  FoldLeft(Step, [dollar |-> FALSE, out |-> <<>>], text).out

(* Text elements are written without their children. Their text, between ">" *)
(* and "<", replaces the first ">" and "<" that stand together.              *)
TextElementString(node, text) ==
  LET outer  == ElementString(TRUE, node, <<>>)
      at     == Min({i \in 1..(Len(outer) - 1) : outer[i] = ">" /\ outer[i + 1] = "<"})
      before == SubSeq(outer, 1, at - 1)
      after  == SubSeq(outer, at + 2, Len(outer))
  IN  before \o Substitute(<<">">> \o text \o <<"<">>, <<">", "<">>, before, after) \o after

RECURSIVE Markup(_, _, _)
Markup(isHTML, nodes, parent) ==
  FlattenSeq([i \in DOMAIN ChildrenOf(nodes, parent) |->
    LET n    == ChildrenOf(nodes, parent)[i]
        node == nodes[n]
    IN  CASE node.kind = "text"    -> escape(node.data)
          [] node.kind = "comment" -> <<"<", "!", "-", "-">> \o node.data \o CommentEnd
          [] node.kind = "cdata"   -> <<"<", "!", "[", "CDATA[">> \o node.data \o CdataEnd
          [] IsTextElement(isHTML, node) -> TextElementString(node, textContent(nodes, n))
          [] node.kind = "element" /\ ~IsTextElement(isHTML, node) ->
               ElementString(isHTML, node, Markup(isHTML, nodes, n))])
-----------------------------------------------------------------------------
Init == \E document \in Documents, isHTML \in BOOLEAN : p = Start(document, isHTML)

Parse  == ~p.ended /\ MoreInput(p) /\ p' = ParseOne(p)
Finish == ~p.ended /\ ~MoreInput(p) /\ p' = finish(p)

Next == Parse \/ Finish

Spec == Init /\ [][Next]_vars
-----------------------------------------------------------------------------
(* A tree by its content: texts that stand together are one text.            *)
RECURSIVE Content(_, _)
Content(nodes, parent) ==
  FoldLeft(LAMBDA done, n :
             LET node == nodes[n]
                 last == done[Len(done)]
             IN  IF node.kind = "text" /\ done # <<>> /\ last[1] = "text"
                 THEN [done EXCEPT ![Len(done)] = <<"text", <<>>, last[3] \o node.data, <<>>, <<>>>>]
                 ELSE Append(done, <<node.kind, node.name, node.data, node.attrs, Content(nodes, n)>>),
           <<>>, ChildrenOf(nodes, parent))

OpenElements(s) ==
  LET path[n \in 0..Len(s.nodes)] ==
        IF n = 0 THEN <<>> ELSE <<s.nodes[n].name>> \o path[s.nodes[n].parent]
  IN  path[s.node]

(* The builder has open what the parser has on its stack, but for the tag    *)
(* whose attributes are still being read.                                    *)
TreeFollowsStack ==
  ~p.ended =>
    OpenElements(p) = IF p.tagname # <<>> /\ ~isVoidElement(p, p.tagname)
                      THEN Tail(p.stack) ELSE p.stack

Holds(s, part) == \E i \in DOMAIN s : IsPrefix(part, SubSeq(s, i, Len(s)))

(* What a tree may not hold, for its markup to be read back as it was: a     *)
(* comment with the end of one; an ampersand in a value, or an empty id; an  *)
(* empty menuitem; a text element with other children, with "><" in a value, *)
(* with a pattern of String.replace in its text or, in a title, markup;      *)
(* within svg a text element or desc.                                        *)
Writable(isHTML, nodes) ==
  \A n \in DOMAIN nodes :
    LET node == nodes[n] IN
    /\ node.kind = "comment" => ~Holds(node.data, CommentEnd)
    /\ \A i \in DOMAIN node.attrs :
         /\ node.attrs[i] # [name |-> <<"id">>, value |-> <<>>]
         /\ "&" \notin ToSet(node.attrs[i].value)
         /\ IsTextElement(isHTML, node) => ~Holds(node.attrs[i].value, <<">", "<">>)
    /\ node.name = <<"menuitem">> => ChildrenOf(nodes, n) # <<>>
    /\ IsTextElement(isHTML, node) =>
         /\ \A c \in ToSet(ChildrenOf(nodes, n)) : nodes[c].kind = "text"
         /\ \A c \in {"$", "&", "grave", "'"} : ~Holds(textContent(nodes, n), <<"$", c>>)
         /\ node.name = <<"title">> => {"<", "&"} \cap ToSet(textContent(nodes, n)) = {}
    /\ node.svg => node.name \notin {<<"script">>, <<"title">>, <<"desc">>}

(* What a document was read into is read back from what it is written as.    *)
ReparsedSame ==
  p.ended /\ Writable(p.isHTML, p.nodes) =>
    LET written == Markup(p.isHTML, p.nodes, 0)
    IN  Content(ParseAll(written, p.isHTML).nodes, 0) = Content(p.nodes, 0)
=============================================================================
