-------------------------------- MODULE FetchUrl --------------------------------
(***************************************************************************)
(* The URL class inside node-fetch.js: an older whatwg-url than the one      *)
(* scripts get (module Url).  Request parses what it is given with it, and   *)
(* fetch the locations of its redirections.                                  *)
(*                                                                         *)
(* Here a parse is an operator: Run calls the handler of the machine's       *)
(* state until one ends it.  Strings are those of Host.                      *)
(***************************************************************************)
EXTENDS Host

null == <<>>
Special == (<<"http">> :> <<80>>) @@ (<<"ws">> :> <<80>>) @@ (<<"file">> :> null)
isSpecialScheme(scheme) == scheme \in DOMAIN Special
defaultPort(scheme) == IF isSpecialScheme(scheme) THEN Special[scheme] ELSE <<-1>>

EmptyUrl == [scheme |-> <<>>, username |-> <<>>, password |-> <<>>, host |-> NoHost,
             port |-> null, opaque |-> FALSE, path |-> <<>>, query |-> null,
             fragment |-> null]
isSpecial(url) == isSpecialScheme(url.scheme)
includesCredentials(url) == url.username # <<>> \/ url.password # <<>>
cannotHaveAUsernamePasswordPort(url) ==
  url.host \in {NoHost, Name(<<>>)} \/ url.opaque \/ url.scheme = <<"file">>

isSingleDot(s) == LowerAll(s) \in {<<".">>, <<"%", "2", "e">>}
isDoubleDot(s) == LowerAll(s) \in {<<".", ".">>, <<"%", "2", "e", ".">>,
                                   <<".", "%", "2", "e">>, <<"%", "2", "e", "%", "2", "e">>}
isWindowsDriveLetter(s) == Len(s) = 2 /\ s[1] \in Letters /\ s[2] \in {":", "|"}
isNormalizedWindowsDriveLetter(s) == isWindowsDriveLetter(s) /\ s[2] = ":"

shortenPath(url) ==
  IF \/ url.path = <<>>
     \/ /\ url.scheme = <<"file">> /\ Len(url.path) = 1
        /\ isNormalizedWindowsDriveLetter(url.path[1])
  THEN url ELSE [url EXCEPT !.path = Front(@)]
-----------------------------------------------------------------------------
(* The predicates of the percent encoding, as sets of the symbols they take. *)
isPathPercentEncode == C0Control \cup {" ", "#", "<", ">", "?"}
isUserinfoPercentEncode == isPathPercentEncode \cup {"/", ":", "=", "@", "[", "\\", "]", "^", "|"}
QueryEncoded == C0Control \cup {" ", "#", "<", ">"}

Percent == Encoded @@ ("=" :> <<"%", "3", "D">>)
percentEncodeChar(c, set) == IF c \in set THEN Percent[c] ELSE <<c>>
encodeAll(s, set) == FoldLeft(LAMBDA out, c : out \o percentEncodeChar(c, set), <<>>, s)

(* utf8PercentDecode: Buffer.toString() replaces bytes that are not UTF-8. *)
utf8PercentDecode(s) ==
  LET t == Utf8Text(PercentDecode(s))
  IN  [i \in DOMAIN t |-> IF t[i] \in {"C3", "A9", "bad"} THEN "fffd" ELSE t[i]]

(* tr46.toASCII: characters are mapped, then each label is checked and written
   in ASCII; "xn--" and "-9ca" stand for the punycode of a label.  A label is not
   checked for disallowed characters: validateLabel compares the wrong name. *)
Mapped(s) == ReplaceAll(LowerAll(s), "fullstop", ".")
LabelToASCII(label) ==
  IF "eacute" \notin ToSet(label) THEN label
  ELSE <<"xn--">> \o SelectSeq(label, LAMBDA c : c # "eacute") \o <<"-9ca">>
LabelRefused(label) == label # <<>> /\ (label[1] = "-" \/ Last(label) = "-")
toASCII(s) ==
  LET labels == Split(Mapped(s), ".")
      written(i) == (IF i = 1 THEN <<>> ELSE <<".">>) \o LabelToASCII(labels[i])
  IN  IF "fffd" \in ToSet(s) \/ \E i \in DOMAIN labels : LabelRefused(labels[i])
      THEN FailedHost
      ELSE Name(FoldLeftDomain(LAMBDA out, i : out \o written(i), <<>>, labels))

forbiddenExceptPercent == {" ", "#", "/", ":", "?", "@", "[", "\\", "]"}
forbidden == forbiddenExceptPercent \cup {"%"}

(* A name that is not four numbers at most is a domain, whatever it ends in. *)
parseIPv4(s) ==
  LET labels == Labels(s)
      notNumbers == \/ Len(labels) > 4
                    \/ \E i \in DOMAIN labels : \/ labels[i] = <<>>
                                                \/ ParseIPv4Number(labels[i]) = failure
  IN  IF notNumbers THEN Name(s) ELSE NumericHost(IPv4OfLabels(labels))

parseDomain(host) ==
  CASE host.kind # "name" -> host
    [] ToSet(host.name) \cap forbidden # {} -> FailedHost
    [] OTHER -> parseIPv4(host.name)

parseOpaqueHost(s) ==
  IF ToSet(s) \cap forbiddenExceptPercent # {} THEN FailedHost
  ELSE Name(encodeAll(s, C0Control))

(* The parsers and the writers of addresses are the same in both files. *)
parseIPv6(s) == IPv6Host(ParseIPv6(s))
findLongestZeroSequence(a) == LongestZeros(a)
serializeIPv6(a) == SerializeIPv6(a)
serializeIPv4(n) == SerializeIPv4(n)

parseHost(s, special) ==
  CASE s # <<>> /\ s[1] = "[" ->
         IF Last(s) # "]" THEN FailedHost ELSE parseIPv6(SubSeq(s, 2, Len(s) - 1))
    [] (s = <<>> \/ s[1] # "[") /\ ~special -> parseOpaqueHost(s)
    [] OTHER -> parseDomain(toASCII(utf8PercentDecode(s)))

serializeHost(host) ==
  CASE host.kind = "v4" -> serializeIPv4(host.address[1])
    [] host.kind = "v6" ->
         <<"[">> \o serializeIPv6([i \in 0 .. Pieces - 1 |-> host.address[i + 1]]) \o <<"]">>
    [] OTHER -> host.name
-----------------------------------------------------------------------------
(* The URLStateMachine f, as the machine m of Url; ret may be "failure" or, when
   a handler throws, "throws". *)

Machine(input, base, url, override) ==
  [input |-> input, at |-> 1, state |-> IF override = "" THEN "scheme start" ELSE override,
   override |-> override, base |-> base, url |-> url, buffer |-> <<>>, atFlag |-> FALSE,
   arrFlag |-> FALSE, passwordTokenSeen |-> FALSE, ret |-> "run"]

Sym(f) == SymbolAt(f.input, f.at)
Ahead(f, k) == SymbolAt(f.input, f.at + k)
Advance(f) == [f EXCEPT !.at = @ + 1]
Finish(f) == [f EXCEPT !.ret = "done"]
Fail(f) == [f EXCEPT !.ret = "failure"]
To(f, state) == [f EXCEPT !.state = state]
Slash(f, url) == Sym(f) = "/" \/ (isSpecial(url) /\ Sym(f) = "\\")

parseSchemeStart(f) ==
  CASE Alpha(Sym(f)) -> Advance(To([f EXCEPT !.buffer = Append(@, Lower(Sym(f)))], "scheme"))
    [] ~Alpha(Sym(f)) /\ f.override = "" -> To(f, "no scheme")
    [] OTHER -> Fail(f)

SchemeKept(f) ==
  \/ isSpecial(f.url) # isSpecialScheme(f.buffer)
  \/ (includesCredentials(f.url) \/ f.url.port # null) /\ f.buffer = <<"file">>
  \/ f.url.scheme = <<"file">> /\ f.url.host \in {NoHost, Name(<<>>)}

afterScheme(f) ==
  CASE f.url.scheme = <<"file">> -> Advance(To(f, "file"))
    [] isSpecial(f.url) /\ f.url.scheme # <<"file">> ->
         Advance(To(f, IF f.base # null /\ f.base[1].scheme = f.url.scheme
                       THEN "special relative or authority"
                       ELSE "special authority slashes"))
    [] ~isSpecial(f.url) /\ Ahead(f, 1) = "/" -> Advance(Advance(To(f, "path or authority")))
    [] OTHER -> Advance(To([f EXCEPT !.url.opaque = TRUE, !.url.path = Append(@, <<>>)],
                           "cannot-be-a-base-URL path"))

parseScheme(f) ==
  LET named == [f EXCEPT !.url.scheme = f.buffer, !.buffer = <<>>]
      c == Sym(f)
  IN  CASE Alpha(c) \/ c \in Digits \cup {"+", "-", "."} ->
             Advance([f EXCEPT !.buffer = Append(@, Lower(c))])
        [] c = ":" -> IF f.override = "" THEN afterScheme(named)
                      ELSE IF SchemeKept(f) THEN Finish(f) ELSE Finish(named)
        [] OTHER -> IF f.override # "" THEN Fail(f)
                    ELSE To([f EXCEPT !.buffer = <<>>, !.at = 1], "no scheme")

parseNoScheme(f) ==
  CASE f.base = null \/ (f.base[1].opaque /\ Sym(f) # "#") -> Fail(f)
    [] f.base # null /\ f.base[1].opaque /\ Sym(f) = "#" ->
         Advance(To([f EXCEPT !.url.scheme = f.base[1].scheme, !.url.path = f.base[1].path,
                              !.url.query = f.base[1].query, !.url.fragment = <<<<>>>>,
                              !.url.opaque = TRUE], "fragment"))
    [] OTHER -> To(f, IF f.base[1].scheme = <<"file">> THEN "file" ELSE "relative")

TwoSlashes(f) == Sym(f) = "/" /\ Ahead(f, 1) = "/"

parseSpecialRelativeOrAuthority(f) ==
  IF TwoSlashes(f) THEN Advance(Advance(To(f, "special authority ignore slashes")))
  ELSE To(f, "relative")

parsePathOrAuthority(f) ==
  IF Sym(f) = "/" THEN Advance(To(f, "authority")) ELSE To(f, "path")

WithAuthorityOf(f) ==
  [f EXCEPT !.url.scheme = f.base[1].scheme, !.url.username = f.base[1].username,
            !.url.password = f.base[1].password, !.url.host = f.base[1].host,
            !.url.port = f.base[1].port]
BeginsQuery(f) == Advance(To([f EXCEPT !.url.query = <<<<>>>>], "query"))
BeginsFragment(f) == Advance(To([f EXCEPT !.url.fragment = <<<<>>>>], "fragment"))

parseRelative(f) ==
  LET b == f.base[1]
      copied == [WithAuthorityOf(f) EXCEPT !.url.path = b.path, !.url.query = b.query]
  IN  CASE Slash(f, b) -> Advance(To([f EXCEPT !.url.scheme = b.scheme], "relative slash"))
        [] Sym(f) = "end" -> Advance(copied)
        [] Sym(f) = "?" -> BeginsQuery(copied)
        [] Sym(f) = "#" -> BeginsFragment(copied)
        [] OTHER -> To([WithAuthorityOf(f)
                        EXCEPT !.url.path = IF b.path = <<>> THEN <<>> ELSE Front(b.path)],
                       "path")

parseRelativeSlash(f) ==
  CASE isSpecial(f.url) /\ Sym(f) \in {"/", "\\"} ->
         Advance(To(f, "special authority ignore slashes"))
    [] ~isSpecial(f.url) /\ Sym(f) = "/" -> Advance(To(f, "authority"))
    [] OTHER -> To(WithAuthorityOf(f), "path")

parseSpecialAuthoritySlashes(f) ==
  LET r == To(f, "special authority ignore slashes")
  IN  IF TwoSlashes(f) THEN Advance(Advance(r)) ELSE r

(* Defect: a backslash is taken for the beginning of the authority. *)
SlashesOnlyIgnored(f) == IF Sym(f) = "/" THEN Advance(f) ELSE To(f, "authority")

parseSpecialAuthorityIgnoreSlashes(f) ==
  IF Sym(f) \in {"/", "\\"} THEN Advance(f) ELSE To(f, "authority")
-----------------------------------------------------------------------------
EndsAuthority(f) == Sym(f) \in {"end", "?", "#"} \/ Slash(f, f.url)

(* What was read before an "@": up to the first colon the name, then the password. *)
Credentials(f) ==
  LET Step(r, c) ==
        IF c = ":" /\ ~r.passwordTokenSeen THEN [r EXCEPT !.passwordTokenSeen = TRUE]
        ELSE IF r.passwordTokenSeen
             THEN [r EXCEPT !.url.password = @ \o percentEncodeChar(c, isUserinfoPercentEncode)]
             ELSE [r EXCEPT !.url.username = @ \o percentEncodeChar(c, isUserinfoPercentEncode)]
  IN  FoldLeft(Step, [f EXCEPT !.atFlag = TRUE, !.buffer = <<>>],
               (IF f.atFlag THEN <<"%", "4", "0">> ELSE <<>>) \o f.buffer)

parseAuthority(f) ==
  CASE Sym(f) = "@" -> Advance(Credentials(f))
    [] EndsAuthority(f) /\ f.atFlag /\ f.buffer = <<>> -> Fail(f)
    [] EndsAuthority(f) /\ ~(f.atFlag /\ f.buffer = <<>>) ->
         To([f EXCEPT !.at = @ - Len(f.buffer), !.buffer = <<>>], "host")
    [] OTHER -> Advance([f EXCEPT !.buffer = Append(@, Sym(f))])

(* The host h was read. *)
HostRead(f, h, state) ==
  IF h.kind = "failure" THEN Fail(f)
  ELSE To([f EXCEPT !.url.host = h, !.buffer = <<>>], state)
parsedHost(f) == parseHost(f.buffer, isSpecial(f.url))
Ends(f, condition) == IF condition /\ f.ret = "run" THEN Finish(f) ELSE f

parseHostName(f) ==
  LET file == f.override # "" /\ f.url.scheme = <<"file">>
      colon == Sym(f) = ":" /\ ~f.arrFlag
      ends == colon \/ EndsAuthority(f)
      kept == /\ ~isSpecial(f.url) /\ f.override # "" /\ f.buffer = <<>>
              /\ includesCredentials(f.url) \/ f.url.port # null
      fails == f.buffer = <<>> /\ (colon \/ isSpecial(f.url))
  IN  CASE file -> To(f, "file host")
        [] ~file /\ ends /\ fails -> Fail(f)
        [] ~file /\ ends /\ ~fails /\ kept -> Finish(f)
        [] ~file /\ ends /\ ~fails /\ ~kept ->
             Ends(HostRead(IF colon THEN Advance(f) ELSE f, parsedHost(f),
                           IF colon THEN "port" ELSE "path start"),
                  f.override = "hostname" \/ (f.override # "" /\ ~colon))
        [] OTHER -> Advance([f EXCEPT !.buffer = Append(@, Sym(f)),
                                      !.arrFlag = Sym(f) = "[" \/ (@ /\ Sym(f) # "]")])

parsePort(f) ==
  LET port == ParseInt(f.buffer, 10)
      r == IF f.buffer = <<>> THEN f
           ELSE [f EXCEPT !.url.port = IF <<port>> = defaultPort(f.url.scheme) THEN null
                                       ELSE <<port>>,
                          !.buffer = <<>>]
  IN  CASE Sym(f) \in Digits -> Advance([f EXCEPT !.buffer = Append(@, Sym(f))])
        [] Sym(f) \notin Digits /\ (EndsAuthority(f) \/ f.override # "") ->
             IF f.buffer # <<>> /\ port > 65535 THEN Fail(f)
             ELSE IF f.override # "" THEN Finish(r) ELSE To(r, "path start")
        [] OTHER -> Fail(f)
-----------------------------------------------------------------------------
FileBase(f) == f.base # null /\ f.base[1].scheme = <<"file">>

parseFile(f) ==
  LET r == [f EXCEPT !.url.scheme = <<"file">>]
      b == f.base[1]
      copied == [r EXCEPT !.url.host = b.host, !.url.path = b.path, !.url.query = b.query]
      drive == /\ Sym(f) \in Letters
               /\ Ahead(f, 1) \in {":", "|"}
               /\ Ahead(f, 2) \in {"end", "/", "\\", "?", "#"}
  IN  CASE Sym(f) \in {"/", "\\"} -> Advance(To(r, "file slash"))
        [] Sym(f) \notin {"/", "\\"} /\ ~FileBase(f) -> To(r, "path")
        [] Sym(f) = "end" /\ FileBase(f) -> Advance(copied)
        [] Sym(f) = "?" /\ FileBase(f) -> BeginsQuery(copied)
        [] Sym(f) = "#" /\ FileBase(f) -> BeginsFragment(copied)
        [] OTHER -> IF drive THEN To(r, "path")
                    ELSE To([r EXCEPT !.url = shortenPath([@ EXCEPT !.host = b.host,
                                                                   !.path = b.path])], "path")

parseFileSlash(f) ==
  CASE Sym(f) \in {"/", "\\"} -> Advance(To(f, "file host"))
    [] Sym(f) \notin {"/", "\\"} /\ ~FileBase(f) -> To(f, "path")
    [] OTHER -> IF f.base[1].path = <<>> THEN [f EXCEPT !.ret = "throws"]
                ELSE IF isNormalizedWindowsDriveLetter(f.base[1].path[1])
                THEN To([f EXCEPT !.url.path = Append(@, f.base[1].path[1])], "path")
                ELSE To([f EXCEPT !.url.host = f.base[1].host], "path")

NoLocalhost(h) == IF h = Name(<<"localhost">>) THEN Name(<<>>) ELSE h

parseFileHost(f) ==
  CASE Sym(f) \notin {"end", "/", "\\", "?", "#"} ->
         Advance([f EXCEPT !.buffer = Append(@, Sym(f))])
    [] OTHER -> IF f.override = "" /\ isWindowsDriveLetter(f.buffer) THEN To(f, "path")
                ELSE Ends(HostRead(f, IF f.buffer = <<>> THEN Name(<<>>)
                                      ELSE NoLocalhost(parsedHost(f)), "path start"),
                          f.override # "")

parsePathStart(f) ==
  CASE isSpecial(f.url) ->
         IF Sym(f) \in {"/", "\\"} THEN Advance(To(f, "path")) ELSE To(f, "path")
    [] ~isSpecial(f.url) /\ f.override = "" /\ Sym(f) = "?" -> BeginsQuery(f)
    [] ~isSpecial(f.url) /\ f.override = "" /\ Sym(f) = "#" -> BeginsFragment(f)
    [] OTHER -> CASE Sym(f) = "end" -> Advance(f)
                  [] Sym(f) = "/" -> Advance(To(f, "path"))
                  [] OTHER -> To(f, "path")

(* The segment in the buffer is over.  A drive letter in a file URL drops its host. *)
WithSegment(f) ==
  LET shorter == IF isDoubleDot(f.buffer) THEN shortenPath(f.url) ELSE f.url
      drive == /\ f.url.scheme = <<"file">> /\ f.url.path = <<>>
               /\ isWindowsDriveLetter(f.buffer)
  IN  CASE isDoubleDot(f.buffer) \/ isSingleDot(f.buffer) ->
             IF Slash(f, f.url) THEN shorter ELSE [shorter EXCEPT !.path = Append(@, <<>>)]
        [] drive -> [f.url EXCEPT !.path = <<<<f.buffer[1], ":">>>>,
                                  !.host = IF @ = NoHost THEN @ ELSE Name(<<>>)]
        [] OTHER -> [f.url EXCEPT !.path = Append(@, f.buffer)]

(* At the end of the path of a file URL the empty segments in front go. *)
WithoutEmptyFirst(url) ==
  LET kept == {i \in DOMAIN url.path : i = Len(url.path) \/ url.path[i] # <<>>}
      first == CHOOSE i \in kept : \A j \in kept : i <= j
  IN  IF url.path = <<>> THEN url ELSE [url EXCEPT !.path = SubSeq(@, first, Len(@))]

parsePath(f) ==
  LET ends == Sym(f) = "end" \/ Slash(f, f.url) \/ (f.override = "" /\ Sym(f) \in {"?", "#"})
      url == IF f.url.scheme = <<"file">> /\ Sym(f) \in {"end", "?", "#"}
             THEN WithoutEmptyFirst(WithSegment(f)) ELSE WithSegment(f)
      r == [f EXCEPT !.url = url, !.buffer = <<>>]
  IN  CASE ends /\ Sym(f) = "?" -> BeginsQuery(r)
        [] ends /\ Sym(f) = "#" -> BeginsFragment(r)
        [] ends /\ Sym(f) \notin {"?", "#"} -> Advance(r)
        [] OTHER -> Advance([f EXCEPT !.buffer =
                                        @ \o percentEncodeChar(Sym(f), isPathPercentEncode)])

parseCannotBeABaseURLPath(f) ==
  CASE Sym(f) = "?" -> BeginsQuery(f)
    [] Sym(f) = "#" -> BeginsFragment(f)
    [] Sym(f) = "end" -> Advance(f)
    [] OTHER -> Advance([f EXCEPT !.url.path =
                                    <<@[1] \o percentEncodeChar(Sym(f), C0Control)>> \o Tail(@)])

parseQuery(f) ==
  LET r == [f EXCEPT !.url.query = <<@[1] \o encodeAll(f.buffer, QueryEncoded)>>,
                     !.buffer = <<>>]
  IN  CASE Sym(f) = "end" -> Advance(r)
        [] f.override = "" /\ Sym(f) = "#" -> BeginsFragment(r)
        [] OTHER -> Advance([f EXCEPT !.buffer = Append(@, Sym(f))])

parseFragment(f) ==
  IF Sym(f) = "end" THEN Advance(f)
  ELSE Advance([f EXCEPT !.url.fragment = <<@[1] \o percentEncodeChar(Sym(f), C0Control)>>])

Turn(f) ==
  CASE f.state = "scheme start" -> parseSchemeStart(f)
    [] f.state = "scheme" -> parseScheme(f)
    [] f.state = "no scheme" -> parseNoScheme(f)
    [] f.state = "special relative or authority" -> parseSpecialRelativeOrAuthority(f)
    [] f.state = "path or authority" -> parsePathOrAuthority(f)
    [] f.state = "relative" -> parseRelative(f)
    [] f.state = "relative slash" -> parseRelativeSlash(f)
    [] f.state = "special authority slashes" -> parseSpecialAuthoritySlashes(f)
    [] f.state = "special authority ignore slashes" -> parseSpecialAuthorityIgnoreSlashes(f)
    [] f.state = "authority" -> parseAuthority(f)
    [] f.state \in {"host", "hostname"} -> parseHostName(f)
    [] f.state = "port" -> parsePort(f)
    [] f.state = "file" -> parseFile(f)
    [] f.state = "file slash" -> parseFileSlash(f)
    [] f.state = "file host" -> parseFileHost(f)
    [] f.state = "path start" -> parsePathStart(f)
    [] f.state = "path" -> parsePath(f)
    [] f.state = "cannot-be-a-base-URL path" -> parseCannotBeABaseURLPath(f)
    [] f.state = "query" -> parseQuery(f)
    [] f.state = "fragment" -> parseFragment(f)

RECURSIVE Run(_)
Run(f) ==
  CASE f.ret # "run" -> f
    [] f.ret = "run" /\ f.at > Len(f.input) + 1 -> Finish(f)
    [] OTHER -> Run(Turn(f))
-----------------------------------------------------------------------------
trimControlChars(s) ==
  LET kept == {i \in DOMAIN s : s[i] # " "}
  IN  IF kept = {} THEN <<>>
      ELSE SubSeq(s, CHOOSE i \in kept : \A j \in kept : i <= j,
                     CHOOSE i \in kept : \A j \in kept : i >= j)

(* basicURLParse: the machine when it has ended; base is a URL or null. *)
basicURLParse(input, base) == Run(Machine(trimControlChars(input), base, EmptyUrl, ""))

(* new URL(input, base): the URL, in a sequence of at most one element. *)
Accepted(f) == IF f.ret = "done" THEN <<f.url>> ELSE <<>>
construct(input) == Accepted(basicURLParse(input, null))
OnBase(input, base) == IF base = <<>> THEN <<>> ELSE Accepted(basicURLParse(input, base))
constructWith(input, base) == OnBase(input, construct(base))

serializePath(url) ==
  IF url.opaque THEN url.path[1]
  ELSE FoldLeft(LAMBDA out, segment : out \o <<"/">> \o segment, <<>>, url.path)
serializePort(url) == IF url.port = null THEN <<>> ELSE <<":">> \o Numeral(url.port[1], 10)

(* Nothing marks a path that begins with an empty segment when there is no host. *)
serializeURL(url) ==
  url.scheme \o <<":">>
  \o (IF url.host # NoHost
      THEN <<"/", "/">>
           \o (IF ~includesCredentials(url) THEN <<>>
               ELSE url.username
                    \o (IF url.password = <<>> THEN <<>> ELSE <<":">> \o url.password)
                    \o <<"@">>)
           \o serializeHost(url.host) \o serializePort(url)
      ELSE IF url.scheme = <<"file">> THEN <<"/", "/">> ELSE <<>>)
  \o serializePath(url)
  \o (IF url.query = null THEN <<>> ELSE <<"?">> \o url.query[1])
  \o (IF url.fragment = null THEN <<>> ELSE <<"#">> \o url.fragment[1])

(* The getters. *)
hostname(url) == serializeHost(url.host)
host(url) == IF url.host = NoHost THEN <<>> ELSE hostname(url) \o serializePort(url)
port(url) == IF url.port = null THEN <<>> ELSE Numeral(url.port[1], 10)
pathname(url) == serializePath(url)
search(url) == IF url.query \in {null, <<<<>>>>} THEN <<>> ELSE <<"?">> \o url.query[1]

(* The setters: the URL after an assignment.  The machine changes it in place,
   also when it fails in the end. *)
Behind(s, mark) == IF s # <<>> /\ s[1] = mark THEN Tail(s) ELSE s
Assigned(url, part, input) == Run(Machine(input, null, url, part)).url

(* All of the setters run the machine but those of user name and password, which
   are left out, and those that are given nothing for a port, query or fragment. *)
Fixed(url, part) ==
  \/ part \in {"host", "hostname", "path start"} /\ url.opaque
  \/ part = "port" /\ cannotHaveAUsernamePasswordPort(url)
Emptied(url, part) ==
  CASE part = "path start" -> [url EXCEPT !.path = <<>>]
    [] part = "query" -> [url EXCEPT !.query = <<<<>>>>]
    [] part = "fragment" -> [url EXCEPT !.fragment = <<<<>>>>]
    [] OTHER -> url
Given(part, v) ==
  CASE part = "scheme start" -> Append(v, ":")
    [] part = "query" -> Behind(v, "?")
    [] part = "fragment" -> Behind(v, "#")
    [] OTHER -> v
setPart(url, part, v) ==
  CASE Fixed(url, part) -> url
    [] ~Fixed(url, part) /\ v = <<>> /\ part \in {"port", "query", "fragment"} ->
         [url EXCEPT ![part] = null]
    [] OTHER -> Assigned(Emptied(url, part), part, Given(part, v))
=============================================================================
