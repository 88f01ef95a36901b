------------------------------- MODULE LegacyUrl -------------------------------
(***************************************************************************)
(* Node's old url.parse and url.format, as node-fetch.js carries them: what  *)
(* a Request keeps of its URL, and what http.request is asked for.           *)
(*                                                                         *)
(* Strings are those of Host; null is the empty string, as the code tests    *)
(* neither apart.  Left out: the parsing of the query (nobody asks for it),  *)
(* javascript: URLs, and names longer than 255 or labels longer than 63.     *)
(***************************************************************************)
EXTENDS Host

slashedProtocol == {<<"http", ":">>, <<"file", ":">>}
autoEscape == {"|", "\\", "^", "<", ">", " "}
nonHostChars == {"%", "/", "?", ";", "#"} \cup autoEscape
hostEndingChars == {"/", "?", "#"}

PlainInURI(c) == Alpha(c) \/ c \in Digits \cup {"-", ".", "xn--", "-9ca"}
URIEncoded == Encoded @@ ("%" :> <<"%", "2", "5">>) @@ ("=" :> <<"%", "3", "D">>)
           @@ ("&" :> <<"%", "2", "6">>) @@ ("+" :> <<"%", "2", "B">>)
           @@ (";" :> <<"%", "3", "B">>)
encodeURIComponent(s) ==
  FoldLeft(LAMBDA out, c : out \o (IF PlainInURI(c) THEN <<c>> ELSE URIEncoded[c]), <<>>, s)

(* decodeURIComponent throws on a "%" alone and on bytes that are not UTF-8: at
   most one string. *)
decodeURIComponent(s) ==
  IF \E i \in DOMAIN s : s[i] = "%" /\ ~Escape(s, i) THEN <<>>
  ELSE Utf8Decode(PercentDecode(s))

(* String.indexOf() for one of several characters, Len(s) + 1 if there is none. *)
FirstOf(s, chars) ==
  LET i == SelectInSeq(s, LAMBDA c : c \in chars) IN IF i = 0 THEN Len(s) + 1 ELSE i
From(s, i) == SubSeq(s, i, Len(s))
Before(s, i) == SubSeq(s, 1, i - 1)
Trim(s) ==
  LET kept == {i \in DOMAIN s : s[i] # " "}
  IN  IF kept = {} THEN <<>>
      ELSE SubSeq(s, CHOOSE i \in kept : \A j \in kept : i <= j,
                     CHOOSE i \in kept : \A j \in kept : i >= j)
Join(parts, sep) ==
  FoldLeftDomain(LAMBDA out, i : out \o (IF i = 1 THEN <<>> ELSE <<sep>>) \o parts[i], <<>>, parts)

Url == [protocol |-> <<>>, slashes |-> FALSE, auth |-> <<>>, host |-> <<>>, port |-> <<>>,
        hostname |-> <<>>, hash |-> <<>>, search |-> <<>>, pathname |-> <<>>, path |-> <<>>]
-----------------------------------------------------------------------------
(* Backslashes become slashes up to the query, or up to the fragment where no
   fragment follows the query. *)
Forward(s) ==
  LET query == FirstOf(s, {"?"})
      fragment == FirstOf(s, {"#"})
      end == IF query < fragment /\ fragment <= Len(s) THEN query ELSE fragment
  IN  ReplaceAll(Before(s, end), "\\", "/") \o From(s, end)

(* simplePathPattern: a path and a query, no host. *)
SimplePath(s) ==
  /\ s # <<>> /\ s[1] = "/" /\ " " \notin ToSet(s)
  /\ SymbolAt(s, 2) = "/" => SymbolAt(s, 3) # "/"
SimpleUrl(s) ==
  LET query == FirstOf(s, {"?"})
  IN  [Url EXCEPT !.path = s, !.pathname = Before(s, query), !.search = From(s, query)]

InProtocol(c) == Alpha(c) \/ c \in Digits \cup {".", "+", "-"}
Protocol(s) ==
  LET colon == FirstOf(s, {":"})
  IN  IF 1 < colon /\ colon <= Len(s) /\ \A i \in 1 .. colon - 1 : InProtocol(s[i])
      THEN SubSeq(s, 1, colon) ELSE <<>>

TwoSlashes(s) == SymbolAt(s, 1) = "/" /\ SymbolAt(s, 2) = "/"
(* A user and a server behind two slashes. *)
UserAtServer(s) ==
  LET t == From(s, 3)
      at == FirstOf(t, {"@", "/"})
  IN  TwoSlashes(s) /\ at > 1 /\ SymbolAt(t, at) = "@"
      /\ SymbolAt(t, at + 1) \notin {"@", "/", "end"}

(* The last "@" in front of the first character that ends a host; 0 for none. *)
AtSign(s) == SelectLastInSubSeq(s, 1, FirstOf(s, hostEndingChars) - 1, LAMBDA c : c = "@")

(* portPattern: a colon and digits at the end of a host. *)
PortAt(s) ==
  LET colon == SelectLastInSeq(s, LAMBDA c : c \notin Digits)
  IN  IF colon # 0 /\ s[colon] = ":" THEN colon ELSE Len(s) + 1
parseHost(u, host) == [u EXCEPT !.hostname = Before(host, PortAt(host)),
                                !.port = From(host, PortAt(host) + 1)]

InHostname(c) == Alpha(c) \/ c \in Digits \cup {"+", "_", "-", "xn--", "-9ca"} \cup NonAscii
WrongLabel(label) == \E i \in DOMAIN label : ~InHostname(label[i])

(* The hostname that is valid, and what follows: from the first character that is
   in no label the rest goes to the path. *)
Validated(hostname, rest) ==
  LET labels == Split(hostname, ".")
      wrong == SelectInSeq(labels, WrongLabel)
      valid == Before(labels[wrong], SelectInSeq(labels[wrong],
                                                 LAMBDA c : ~InHostname(c) \/ c \in NonAscii))
      notHost == <<From(labels[wrong], Len(valid) + 1)>> \o From(labels, wrong + 1)
  IN  IF wrong = 0 THEN [hostname |-> hostname, rest |-> rest]
      ELSE [hostname |-> Join(Append(Before(labels, wrong), valid), "."),
            rest |-> <<"/">> \o Join(notHost, ".") \o rest]

(* punycode.toASCII of a name in lower case. *)
LabelToASCII(label) ==
  IF ToSet(label) \cap NonAscii = {} THEN label
  ELSE <<"xn--">> \o SelectSeq(label, LAMBDA c : c \notin NonAscii) \o <<"-9ca">>
toASCII(s) ==
  LET labels == Split(ReplaceAll(s, "fullstop", "."), ".")
  IN  Join([i \in DOMAIN labels |-> LabelToASCII(labels[i])], ".")

IPv6(hostname) == hostname # <<>> /\ hostname[1] = "[" /\ Last(hostname) = "]"

PortPart(u) == IF u.port = <<>> THEN <<>> ELSE <<":">> \o u.port
Named(u, name, rest) ==
  [u |-> [u EXCEPT !.hostname = name, !.host = name \o PortPart(u)], rest |-> rest]
NamedBy(u, v) == Named(u, toASCII(LowerAll(v.hostname)), v.rest)
HostRead(u, left) ==
  IF IPv6(u.hostname)
  THEN [u |-> [u EXCEPT !.hostname = Tail(Front(LowerAll(@))),
                        !.host = LowerAll(u.hostname) \o PortPart(u)],
        rest |-> IF SymbolAt(left, 1) = "/" THEN left ELSE <<"/">> \o left]
  ELSE NamedBy(u, Validated(u.hostname, left))

(* The host at the head of rest, and what is left: [u, rest]. *)
WithHost(u, rest) ==
  LET behind == From(rest, AtSign(rest) + 1)
      end == FirstOf(behind, nonHostChars)
  IN  HostRead(parseHost(u, Before(behind, end)), From(behind, end))

Escaped(s) ==
  FoldLeft(LAMBDA out, c : out \o (IF c \in autoEscape THEN encodeURIComponent(<<c>>) ELSE <<c>>),
           <<>>, s)

(* Fragment, query and path of what is behind the host. *)
WithPath(u, rest) ==
  LET s == Escaped(rest)
      fragment == FirstOf(s, {"#"})
      t == Before(s, fragment)
      query == FirstOf(t, {"?"})
      path == IF query = 1 /\ u.protocol \in slashedProtocol /\ u.hostname # <<>>
              THEN <<"/">> ELSE Before(t, query)
  IN  [u EXCEPT !.hash = From(s, fragment), !.search = From(t, query), !.pathname = path,
                !.path = path \o From(t, query)]

WithRest(w) == WithPath(w.u, w.rest)
Hosted(u, auth, rest) ==
  IF auth = <<>> THEN <<>> ELSE <<WithRest(WithHost([u EXCEPT !.auth = auth[1]], rest))>>

(* parse: the Url, in a sequence of at most one element, as decoding the user's
   name may throw. *)
parse(url) ==
  LET s == Trim(Forward(url))
      proto == Protocol(s)
      behind == From(s, Len(proto) + 1)
      slashes == (proto # <<>> \/ UserAtServer(s)) /\ TwoSlashes(behind)
      rest == IF slashes THEN From(behind, 3) ELSE behind
      u == [Url EXCEPT !.protocol = LowerAll(proto), !.slashes = slashes]
      hosted == slashes \/ (proto # <<>> /\ proto \notin slashedProtocol)
  IN  CASE "#" \notin ToSet(url) /\ SimplePath(s) -> <<SimpleUrl(s)>>
        [] ~("#" \notin ToSet(url) /\ SimplePath(s)) /\ ~hosted -> <<WithPath(u, rest)>>
        [] OTHER -> Hosted(u, decodeURIComponent(Before(rest, AtSign(rest))), rest)

(* Defect: the name and the password are written as they were decoded. *)
AuthAsDecoded(auth) == auth

(* encodeURIComponent(auth), its first colon kept. *)
EncodedAuth(auth) ==
  LET colon == FirstOf(auth, {":"})
  IN  encodeURIComponent(Before(auth, colon))
      \o (IF colon > Len(auth) THEN <<>> ELSE <<":">> \o encodeURIComponent(From(auth, colon + 1)))

format(u) ==
  LET auth == IF u.auth = <<>> THEN <<>> ELSE Append(EncodedAuth(u.auth), "@")
      doubled == u.slashes \/ (u.protocol \in slashedProtocol \cup {<<>>} /\ u.host # <<>>)
  IN  u.protocol
      \o (IF doubled THEN <<"/", "/">> ELSE <<>>)
      \o (IF u.host = <<>> THEN <<>> ELSE auth \o u.host)
      \o (IF doubled /\ u.pathname # <<>> /\ u.pathname[1] # "/" THEN <<"/">> ELSE <<>>)
      \o u.pathname \o u.search \o u.hash
=============================================================================
