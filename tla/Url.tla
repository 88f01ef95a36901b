---------------------------------- MODULE Url ----------------------------------
(***************************************************************************)
(* The URL class of scripts: lib/URL.js over the state machine of            *)
(* lib/url-state-machine.js, with the list of its URLSearchParams.           *)
(*                                                                         *)
(* A script makes a URL object from a string and perhaps a base, assigns to  *)
(* its properties and reads its href again.  A parse takes one action per    *)
(* symbol: the handler that the code picks by the name of the state.  The    *)
(* handlers of an assignment change the object's own record in place.        *)
(***************************************************************************)
EXTENDS Host

CONSTANTS
  Inputs,     \* strings given to the constructor
  Bases,      \* strings given as the constructor's base, and to href
  Values,     \* strings assigned to the other properties
  Pairs,      \* pairs given to the URLSearchParams
  MaxChanges  \* bound: assignments to an object made from one of Bases; an object
              \* made from one of Inputs gets one less

VARIABLES
  phase,   \* what the script is doing
  m,       \* the URLStateMachine that runs
  pending, \* the constructor's URL while its base is parsed
  obj,     \* the URL object: url, list of its searchParams
  changes  \* assignments made so far

vars == <<phase, m, pending, obj, changes>>
-----------------------------------------------------------------------------
(* A value that may be null is a sequence of at most one element. *)
null == <<>>

SpecialSchemes == (<<"http">> :> <<80>>) @@ (<<"ws">> :> <<80>>) @@ (<<"file">> :> null)
SpecialScheme(scheme) == scheme \in DOMAIN SpecialSchemes
DefaultPort(scheme) == IF SpecialScheme(scheme) THEN SpecialSchemes[scheme] ELSE <<-1>>

(* A path is opaque, one string, or a list of segments. *)
EmptyUrl == [scheme |-> <<>>, username |-> <<>>, password |-> <<>>, host |-> NoHost,
             port |-> null, opaque |-> FALSE, path |-> <<>>, query |-> null,
             fragment |-> null]
Special(url) == SpecialScheme(url.scheme)
IncludesCredentials(url) == url.username # <<>> \/ url.password # <<>>
CannotHaveUsernamePasswordPort(url) ==
  url.host \in {NoHost, Name(<<>>)} \/ url.scheme = <<"file">>

SingleDot(s) == LowerAll(s) \in {<<".">>, <<"%", "2", "e">>}
DoubleDot(s) == LowerAll(s) \in {<<".", ".">>, <<"%", "2", "e", ".">>, <<".", "%", "2", "e">>,
                                 <<"%", "2", "e", "%", "2", "e">>}
DriveLetter(s) == Len(s) = 2 /\ s[1] \in Letters /\ s[2] \in {":", "|"}
NormalizedDriveLetter(s) == DriveLetter(s) /\ s[2] = ":"

ShortenPath(url) ==
  IF \/ url.path = <<>>
     \/ url.scheme = <<"file">> /\ Len(url.path) = 1 /\ NormalizedDriveLetter(url.path[1])
  THEN url ELSE [url EXCEPT !.path = Front(@)]

SerializePath(url) ==
  IF url.opaque THEN url.path[1]
  ELSE FoldLeft(LAMBDA out, segment : out \o <<"/">> \o segment, <<>>, url.path)

SerializePort(url) == IF url.port = null THEN <<>> ELSE <<":">> \o Numeral(url.port[1], 10)

(* Defect: a path that begins with an empty segment gets no "/." in front. *)
SerializeWithoutDot(url) ==
  url.scheme \o <<":">>
  \o (IF url.host = NoHost THEN <<>>
      ELSE <<"/", "/">>
           \o (IF ~IncludesCredentials(url) THEN <<>>
               ELSE url.username
                    \o (IF url.password = <<>> THEN <<>> ELSE <<":">> \o url.password)
                    \o <<"@">>)
           \o SerializeHost(url.host) \o SerializePort(url))
  \o SerializePath(url)
  \o (IF url.query = null THEN <<>> ELSE <<"?">> \o url.query[1])
  \o (IF url.fragment = null THEN <<>> ELSE <<"#">> \o url.fragment[1])

SerializeURL(url) ==
  url.scheme \o <<":">>
  \o (IF url.host = NoHost THEN <<>>
      ELSE <<"/", "/">>
           \o (IF ~IncludesCredentials(url) THEN <<>>
               ELSE url.username
                    \o (IF url.password = <<>> THEN <<>> ELSE <<":">> \o url.password)
                    \o <<"@">>)
           \o SerializeHost(url.host) \o SerializePort(url))
  \o (IF url.host = NoHost /\ ~url.opaque /\ Len(url.path) > 1 /\ url.path[1] = <<>>
      THEN <<"/", ".">> ELSE <<>>)
  \o SerializePath(url)
  \o (IF url.query = null THEN <<>> ELSE <<"?">> \o url.query[1])
  \o (IF url.fragment = null THEN <<>> ELSE <<"#">> \o url.fragment[1])
-----------------------------------------------------------------------------
(* parseUrlencodedString and serializeUrlencoded; the latter writes names and
   values as they are.  Decoding throws on bytes that are not UTF-8, so the list
   is given in a sequence of at most one element. *)

ParsePair(s) ==
  LET plain == ReplaceAll(s, "+", " ")
      equal == SelectInSeq(plain, LAMBDA c : c = "=")
      name == IF equal = 0 THEN plain ELSE SubSeq(plain, 1, equal - 1)
      value == IF equal = 0 THEN <<>> ELSE SubSeq(plain, equal + 1, Len(plain))
  IN  <<Utf8Decode(PercentDecode(name)), Utf8Decode(PercentDecode(value))>>

ParseUrlencoded(s) ==
  LET parts == SelectSeq(Split(s, "&"), LAMBDA part : part # <<>>)
      pairs == [i \in DOMAIN parts |-> ParsePair(parts[i])]
  IN  IF \E i \in DOMAIN pairs : <<>> \in {pairs[i][1], pairs[i][2]} THEN <<>>
      ELSE <<[i \in DOMAIN pairs |-> <<pairs[i][1][1], pairs[i][2][1]>>]>>

SerializeUrlencoded(list) ==
  FoldLeftDomain(LAMBDA out, i : out \o (IF i = 1 THEN <<>> ELSE <<"&">>)
                                 \o list[i][1] \o <<"=">> \o list[i][2],
                 <<>>, list)
-----------------------------------------------------------------------------
(* The machine.  at is pointer + 1; ret is "run", "done" (a handler returned
   false, or the input is over), "failure" or "throws"; calls is a history
   variable, the handlers called so far. *)

Idle == [input |-> <<>>, at |-> 1, state |-> "scheme start", override |-> "",
         base |-> null, url |-> EmptyUrl, buffer |-> <<>>, atFlag |-> FALSE,
         arrFlag |-> FALSE, passwordTokenSeen |-> FALSE, ret |-> "done", calls |-> 0]

(* trimControlChars: here spaces only. *)
Trim(s) ==
  LET kept == {i \in DOMAIN s : s[i] # " "}
  IN  IF kept = {} THEN <<>>
      ELSE SubSeq(s, CHOOSE i \in kept : \A j \in kept : i <= j,
                     CHOOSE i \in kept : \A j \in kept : i >= j)

(* basicURLParse with no url of its own, and with one and a state to begin in. *)
Parse(input, base) ==
  m' = [Idle EXCEPT !.input = Trim(input), !.base = base, !.ret = "run"]
ParsePart(input, url, override) ==
  m' = [Idle EXCEPT !.input = input, !.url = url, !.state = override,
                    !.override = override, !.ret = "run"]

c == SymbolAt(m.input, m.at)
Next(k) == SymbolAt(m.input, m.at + k)
Base == m.base[1]
Slash(url) == c = "/" \/ (Special(url) /\ c = "\\")

(* How a handler leaves the machine: on to the next symbol, with the same symbol
   again (--pointer), finished, or failed. *)
Advance(r) == m' = [r EXCEPT !.at = @ + 1, !.calls = @ + 1,
                             !.ret = IF r.at + 1 > Len(r.input) + 1 THEN "done" ELSE "run"]
Again(r) == m' = [r EXCEPT !.calls = @ + 1]
Finish(r) == m' = [r EXCEPT !.ret = "done"]
Fail == m' = [m EXCEPT !.ret = "failure"]
Throw == m' = [m EXCEPT !.ret = "throws"]
-----------------------------------------------------------------------------
SchemeStart ==
  /\ m.state = "scheme start"
  /\ \/ Alpha(c) /\ Advance([m EXCEPT !.buffer = Append(@, Lower(c)), !.state = "scheme"])
     \/ ~Alpha(c) /\ m.override = "" /\ Again([m EXCEPT !.state = "no scheme"])
     \/ ~Alpha(c) /\ m.override # "" /\ Fail

SchemeSymbol == Alpha(c) \/ c \in Digits \cup {"+", "-", "."}

(* Defect: a file URL without a host may become another special URL. *)
SchemeKeptOfFile ==
  \/ Special(m.url) # SpecialScheme(m.buffer)
  \/ (IncludesCredentials(m.url) \/ m.url.port # null) /\ m.buffer = <<"file">>

(* What an assignment to protocol refuses. *)
SchemeKept ==
  \/ Special(m.url) # SpecialScheme(m.buffer)
  \/ (IncludesCredentials(m.url) \/ m.url.port # null) /\ m.buffer = <<"file">>
  \/ m.url.scheme = <<"file">> /\ m.url.host = Name(<<>>)

OverrideScheme ==
  IF SchemeKept THEN Finish(m)
  ELSE Finish([m EXCEPT !.url.scheme = m.buffer,
                        !.url.port = IF @ = DefaultPort(m.buffer) THEN null ELSE @])

(* The state behind the scheme of a URL. *)
SchemeRead ==
  LET r == [m EXCEPT !.url.scheme = m.buffer, !.buffer = <<>>]
  IN  CASE m.buffer = <<"file">> -> Advance([r EXCEPT !.state = "file"])
        [] SpecialScheme(m.buffer) /\ m.buffer # <<"file">> ->
             Advance([r EXCEPT !.state = IF m.base # null /\ Base.scheme = m.buffer
                                         THEN "special FileBase or authority"
                                         ELSE "special authority slashes"])
        [] ~SpecialScheme(m.buffer) /\ Next(1) = "/" ->
             Advance([r EXCEPT !.state = "path or authority", !.at = @ + 1])
        [] OTHER -> Advance([r EXCEPT !.url.opaque = TRUE, !.url.path = <<<<>>>>,
                                      !.state = "opaque path"])

Scheme ==
  /\ m.state = "scheme"
  /\ \/ SchemeSymbol /\ Advance([m EXCEPT !.buffer = Append(@, Lower(c))])
     \/ c = ":" /\ m.override # "" /\ OverrideScheme
     \/ c = ":" /\ m.override = "" /\ SchemeRead
     \/ /\ ~SchemeSymbol /\ c # ":" /\ m.override = ""
        /\ Again([m EXCEPT !.buffer = <<>>, !.state = "no scheme", !.at = 1])
     \/ ~SchemeSymbol /\ c # ":" /\ m.override # "" /\ Fail

NoScheme ==
  /\ m.state = "no scheme"
  /\ \/ m.base = null /\ Fail
     \/ m.base # null /\ Base.opaque /\ c # "#" /\ Fail
     \/ /\ m.base # null /\ Base.opaque /\ c = "#"
        /\ Advance([m EXCEPT !.url.scheme = Base.scheme, !.url.opaque = TRUE,
                             !.url.path = Base.path, !.url.query = Base.query,
                             !.url.fragment = <<<<>>>>, !.state = "fragment"])
     \/ /\ m.base # null /\ ~Base.opaque
        /\ Again([m EXCEPT !.state = IF Base.scheme = <<"file">> THEN "file" ELSE "relative"])

SpecialRelativeOrAuthority ==
  /\ m.state = "special FileBase or authority"
  /\ \/ /\ c = "/" /\ Next(1) = "/"
        /\ Advance([m EXCEPT !.state = "special authority ignore slashes", !.at = @ + 1])
     \/ ~(c = "/" /\ Next(1) = "/") /\ Again([m EXCEPT !.state = "relative"])

PathOrAuthority ==
  /\ m.state = "path or authority"
  /\ \/ c = "/" /\ Advance([m EXCEPT !.state = "authority"])
     \/ c # "/" /\ Again([m EXCEPT !.state = "path"])

(* What a FileBase URL takes from its base. *)
WithAuthorityOf(url) ==
  [m.url EXCEPT !.scheme = url.scheme, !.username = url.username,
                !.password = url.password, !.host = url.host, !.port = url.port]

(* The query or the fragment begins at c. *)
BeginsQuery(r) == Advance([r EXCEPT !.url.query = <<<<>>>>, !.state = "query"])
BeginsFragment(r) == Advance([r EXCEPT !.url.fragment = <<<<>>>>, !.state = "fragment"])

Relative ==
  LET copied == [m EXCEPT !.url = [WithAuthorityOf(Base) EXCEPT !.path = Base.path,
                                                               !.query = Base.query]]
  IN  /\ m.state = "relative"
      /\ \/ Slash(Base) /\ Advance([m EXCEPT !.url.scheme = Base.scheme,
                                             !.state = "relative slash"])
         \/ c = "?" /\ BeginsQuery(copied)
         \/ c = "#" /\ BeginsFragment(copied)
         \/ c = "end" /\ Advance(copied)
         \/ /\ ~Slash(Base) /\ c \notin {"?", "#", "end"}
            /\ Again([copied EXCEPT !.url.query = null, !.state = "path",
                                    !.url.path = IF @ = <<>> THEN @ ELSE Front(@)])

RelativeSlash ==
  /\ m.state = "relative slash"
  /\ \/ /\ Special(m.url) /\ c \in {"/", "\\"}
        /\ Advance([m EXCEPT !.state = "special authority ignore slashes"])
     \/ ~Special(m.url) /\ c = "/" /\ Advance([m EXCEPT !.state = "authority"])
     \/ ~Slash(m.url) /\ Again([m EXCEPT !.url = WithAuthorityOf(Base), !.state = "path"])

SpecialAuthoritySlashes ==
  /\ m.state = "special authority slashes"
  /\ LET r == [m EXCEPT !.state = "special authority ignore slashes"]
     IN  IF c = "/" /\ Next(1) = "/" THEN Advance([r EXCEPT !.at = @ + 1]) ELSE Again(r)

SpecialAuthorityIgnoreSlashes ==
  /\ m.state = "special authority ignore slashes"
  /\ \/ c \in {"/", "\\"} /\ Advance(m)
     \/ c \notin {"/", "\\"} /\ Again([m EXCEPT !.state = "authority"])
-----------------------------------------------------------------------------
EndsAuthority == c \in {"end", "?", "#"} \/ Slash(m.url)

(* An "@": what was read are credentials, up to the first colon the name. *)
Credentials(buffer) ==
  LET Step(r, x) ==
        IF x = ":" /\ ~r.passwordTokenSeen THEN [r EXCEPT !.passwordTokenSeen = TRUE]
        ELSE IF r.passwordTokenSeen
             THEN [r EXCEPT !.url.password = @ \o PercentEncodeCodePoint(x, UserinfoSet)]
             ELSE [r EXCEPT !.url.username = @ \o PercentEncodeCodePoint(x, UserinfoSet)]
  IN  FoldLeft(Step, m, buffer)

Authority ==
  /\ m.state = "authority"
  /\ \/ c = "@" /\ Advance([Credentials(IF m.atFlag THEN <<"%", "4", "0">> \o m.buffer
                                        ELSE m.buffer)
                            EXCEPT !.buffer = <<>>, !.atFlag = TRUE])
     \/ EndsAuthority /\ m.atFlag /\ m.buffer = <<>> /\ Fail
     \/ /\ EndsAuthority /\ ~(m.atFlag /\ m.buffer = <<>>)
        /\ Again([m EXCEPT !.at = @ - Len(m.buffer), !.buffer = <<>>, !.state = "host"])
     \/ c # "@" /\ ~EndsAuthority /\ Advance([m EXCEPT !.buffer = Append(@, c)])

(* What becomes of the host h that was read before c. *)
HostBeforePort(h) ==
  CASE h.kind = "failure" -> Fail
    [] h.kind = "throws" -> Throw
    [] OTHER -> Advance([m EXCEPT !.url.host = h, !.buffer = <<>>, !.state = "port"])
HostBeforePath(h) ==
  CASE h.kind = "failure" -> Fail
    [] h.kind = "throws" -> Throw
    [] OTHER -> IF m.override # "" THEN Finish([m EXCEPT !.url.host = h])
                ELSE Again([m EXCEPT !.url.host = h, !.buffer = <<>>, !.state = "path start"])
HostRead == ParseHost(m.buffer, ~Special(m.url))

HostHandler ==
  /\ m.state \in {"host", "hostname"}
  /\ \/ /\ m.override # "" /\ m.url.scheme = <<"file">>
        /\ Again([m EXCEPT !.state = "file host"])
     \/ /\ ~(m.override # "" /\ m.url.scheme = <<"file">>)
        /\ CASE c = ":" /\ ~m.arrFlag ->
                  IF m.buffer = <<>> THEN Fail
                  ELSE IF m.override = "hostname" THEN Finish(m) ELSE HostBeforePort(HostRead)
             [] EndsAuthority ->
                  CASE Special(m.url) /\ m.buffer = <<>> -> Fail
                    [] /\ ~Special(m.url) /\ m.override # "" /\ m.buffer = <<>>
                       /\ IncludesCredentials(m.url) \/ m.url.port # null -> Finish(m)
                    [] OTHER -> HostBeforePath(HostRead)
             [] OTHER -> Advance([m EXCEPT !.buffer = Append(@, c),
                                           !.arrFlag = (c = "[") \/ (@ /\ c # "]")])

Port ==
  LET port == ParseInt(m.buffer, 10)
      r == IF m.buffer = <<>> THEN m
           ELSE [m EXCEPT !.url.port = IF <<port>> = DefaultPort(m.url.scheme)
                                       THEN null ELSE <<port>>,
                          !.buffer = <<>>]
  IN  /\ m.state = "port"
      /\ \/ c \in Digits /\ Advance([m EXCEPT !.buffer = Append(@, c)])
         \/ /\ c \notin Digits
            /\ CASE ~EndsAuthority /\ m.override = "" -> Fail
                 [] m.buffer # <<>> /\ port > 65535 -> Fail
                 [] OTHER -> IF m.override # "" THEN Finish(r)
                             ELSE Again([r EXCEPT !.state = "path start"])
-----------------------------------------------------------------------------
FileBase == m.base # null /\ Base.scheme = <<"file">>

BeginsWithDriveLetter ==
  /\ c \in Letters
  /\ Next(1) \in {":", "|"}
  /\ Next(2) \in {"end", "/", "\\", "?", "#"}

File ==
  LET r == [m EXCEPT !.url.scheme = <<"file">>, !.url.host = Name(<<>>)]
      copied == [r EXCEPT !.url.host = Base.host, !.url.path = Base.path,
                          !.url.query = Base.query]
  IN  /\ m.state = "file"
      /\ \/ c \in {"/", "\\"} /\ Advance([r EXCEPT !.state = "file slash"])
         \/ c = "?" /\ FileBase /\ BeginsQuery(copied)
         \/ c = "#" /\ FileBase /\ BeginsFragment(copied)
         \/ c = "end" /\ FileBase /\ Advance(copied)
         \/ /\ c \notin {"/", "\\", "?", "#", "end"} /\ FileBase
            /\ Again([copied EXCEPT !.url = IF BeginsWithDriveLetter
                                            THEN [@ EXCEPT !.query = null, !.path = <<>>]
                                            ELSE ShortenPath([@ EXCEPT !.query = null]),
                                    !.state = "path"])
         \/ c \notin {"/", "\\"} /\ ~FileBase /\ Again([r EXCEPT !.state = "path"])

FileSlash ==
  /\ m.state = "file slash"
  /\ \/ c \in {"/", "\\"} /\ Advance([m EXCEPT !.state = "file host"])
     \/ /\ c \notin {"/", "\\"} /\ ~FileBase
        /\ Again([m EXCEPT !.state = "path"])
     \/ /\ c \notin {"/", "\\"} /\ FileBase
        /\ IF BeginsWithDriveLetter \/ Base.path # <<>>
           THEN Again([m EXCEPT !.url.host = Base.host, !.state = "path",
                                !.url.path = IF /\ ~BeginsWithDriveLetter
                                                /\ NormalizedDriveLetter(Base.path[1])
                                             THEN Append(@, Base.path[1]) ELSE @])
           ELSE Throw

FileHost ==
  /\ m.state = "file host"
  /\ \/ /\ c \notin {"end", "/", "\\", "?", "#"}
        /\ Advance([m EXCEPT !.buffer = Append(@, c)])
     \/ /\ c \in {"end", "/", "\\", "?", "#"}
        /\ CASE m.override = "" /\ DriveLetter(m.buffer) -> Again([m EXCEPT !.state = "path"])
             [] m.buffer = <<>> -> HostBeforePath(Name(<<>>))
             [] OTHER -> \E h \in {ParseHost(m.buffer, FALSE)} :
                           HostBeforePath(IF h = Name(<<"localhost">>) THEN Name(<<>>) ELSE h)

PathStart ==
  /\ m.state = "path start"
  /\ \/ /\ Special(m.url)
        /\ LET r == [m EXCEPT !.state = "path"]
           IN  IF c \in {"/", "\\"} THEN Advance(r) ELSE Again(r)
     \/ ~Special(m.url) /\ m.override = "" /\ c = "?" /\ BeginsQuery(m)
     \/ ~Special(m.url) /\ m.override = "" /\ c = "#" /\ BeginsFragment(m)
     \/ /\ ~Special(m.url) /\ c # "end" /\ (m.override # "" \/ c \notin {"?", "#"})
        /\ LET r == [m EXCEPT !.state = "path"] IN IF c = "/" THEN Advance(r) ELSE Again(r)
     \/ /\ ~Special(m.url) /\ c = "end"
        /\ Advance([m EXCEPT !.url.path = IF m.override # "" /\ m.url.host = NoHost
                                          THEN Append(@, <<>>) ELSE @])

(* The segment in the buffer is over. *)
WithSegment ==
  LET segment == IF /\ m.url.scheme = <<"file">> /\ m.url.path = <<>>
                    /\ DriveLetter(m.buffer)
                 THEN <<m.buffer[1], ":">> ELSE m.buffer
      shorter == IF DoubleDot(m.buffer) THEN ShortenPath(m.url) ELSE m.url
  IN  IF SingleDot(m.buffer) \/ DoubleDot(m.buffer)
      THEN IF Slash(m.url) THEN shorter ELSE [shorter EXCEPT !.path = Append(@, <<>>)]
      ELSE [m.url EXCEPT !.path = Append(@, segment)]

(* Defect: "?" and "#" end the path of an assignment, too. *)
PathTakingQuery ==
  LET ends == c \in {"end", "?", "#"} \/ Slash(m.url)
      r == [m EXCEPT !.url = WithSegment, !.buffer = <<>>]
  IN  /\ m.state = "path"
      /\ \/ ends /\ c = "?" /\ BeginsQuery(r)
         \/ ends /\ c = "#" /\ BeginsFragment(r)
         \/ ends /\ c \notin {"?", "#"} /\ Advance(r)
         \/ ~ends /\ Advance([m EXCEPT !.buffer = @ \o PercentEncodeCodePoint(c, PathSet)])

Path ==
  LET ends == c = "end" \/ Slash(m.url) \/ (m.override = "" /\ c \in {"?", "#"})
      r == [m EXCEPT !.url = WithSegment, !.buffer = <<>>]
  IN  /\ m.state = "path"
      /\ \/ ends /\ c = "?" /\ BeginsQuery(r)
         \/ ends /\ c = "#" /\ BeginsFragment(r)
         \/ ends /\ c \notin {"?", "#"} /\ Advance(r)
         \/ ~ends /\ Advance([m EXCEPT !.buffer = @ \o PercentEncodeCodePoint(c, PathSet)])

OpaquePath ==
  /\ m.state = "opaque path"
  /\ \/ c = "?" /\ BeginsQuery(m)
     \/ c = "#" /\ BeginsFragment(m)
     \/ c = "end" /\ Advance(m)
     \/ /\ c \notin {"?", "#", "end"}
        /\ Advance([m EXCEPT !.url.path = <<@[1] \o PercentEncodeCodePoint(c, C0Control)>>])

(* The query is taken as it is: its percent-encoding is commented out. *)
Query ==
  LET ends == c = "end" \/ (m.override = "" /\ c = "#")
      r == [m EXCEPT !.url.query = <<@[1] \o m.buffer>>, !.buffer = <<>>]
  IN  /\ m.state = "query"
      /\ \/ ends /\ c = "#" /\ BeginsFragment(r)
         \/ ends /\ c = "end" /\ Advance(r)
         \/ ~ends /\ Advance([m EXCEPT !.buffer = Append(@, c)])

Fragment ==
  /\ m.state = "fragment"
  /\ Advance(IF c = "end" THEN m
             ELSE [m EXCEPT !.url.fragment =
                              <<@[1] \o PercentEncodeCodePoint(c, FragmentSet)>>])

ParseStep ==
  /\ m.ret = "run"
  /\ \/ SchemeStart \/ Scheme \/ NoScheme \/ SpecialRelativeOrAuthority
     \/ PathOrAuthority \/ Relative \/ RelativeSlash \/ SpecialAuthoritySlashes
     \/ SpecialAuthorityIgnoreSlashes \/ Authority \/ HostHandler \/ Port
     \/ File \/ FileSlash \/ FileHost \/ PathStart \/ Path \/ OpaquePath
     \/ Query \/ Fragment
  /\ UNCHANGED <<phase, pending, obj, changes>>
-----------------------------------------------------------------------------
(* The object.  list is what searchParams holds; spoilt records that an exception
   or an unencoded pair has let list and query differ. *)

NoObject == [url |-> EmptyUrl, list |-> <<>>, spoilt |-> FALSE]
QueryOf(url) == IF url.query = null THEN <<>> ELSE url.query[1]

Init ==
  /\ phase = "new"
  /\ m = Idle
  /\ pending = <<>>
  /\ obj = NoObject
  /\ changes = 0

(* new URL(string) takes its base from the string: what is before the first slash
   and between the second and the third. *)
BaseOf(input) ==
  LET parts == Split(input, "/")
  IN  parts[1] \o <<"/", "/">>
      \o (IF Len(parts) >= 3 THEN parts[3] ELSE <<"undefined">>) \o <<"/">>

Construct ==
  /\ phase = "new"
  /\ \/ \E input \in Inputs, base \in Bases :
          Parse(base, null) /\ phase' = "base" /\ pending' = input /\ changes' = 1
     \/ \E input \in Inputs :
          Parse(BaseOf(input), null) /\ phase' = "base" /\ pending' = input /\ changes' = 1
     \/ \E input \in Inputs :
          Parse(input, null) /\ phase' = "url" /\ pending' = <<>> /\ changes' = 1
     \/ \E input \in Bases :
          Parse(input, null) /\ phase' = "url" /\ pending' = <<>> /\ changes' = 0
  /\ UNCHANGED obj

Ended == m.ret \in {"done", "failure", "throws"}
Rejected == phase' = "rejected" /\ m' = Idle /\ pending' = <<>> /\ UNCHANGED <<obj, changes>>

BaseParsed ==
  /\ phase = "base"
  /\ Ended
  /\ IF m.ret = "done"
     THEN /\ Parse(pending, <<m.url>>)
          /\ phase' = "url"
          /\ pending' = <<>>
          /\ UNCHANGED <<obj, changes>>
     ELSE Rejected

UrlParsed ==
  /\ phase = "url"
  /\ Ended
  /\ LET list == ParseUrlencoded(QueryOf(m.url))
     IN  IF m.ret = "done" /\ list # <<>>
         THEN /\ obj' = [url |-> m.url, list |-> list[1], spoilt |-> FALSE]
              /\ phase' = "ready"
              /\ m' = Idle
              /\ UNCHANGED <<pending, changes>>
         ELSE Rejected

Changes(next) ==
  /\ phase = "ready"
  /\ changes < MaxChanges
  /\ changes' = changes + 1
  /\ UNCHANGED pending
  /\ next

(* An assignment that runs the machine on the object's own record. *)
SetPart(input, url, override) ==
  ParsePart(input, url, override) /\ phase' = "set" /\ UNCHANGED obj
SetNow(url) == obj' = [obj EXCEPT !.url = url] /\ UNCHANGED <<phase, m>>

(* _potentiallyStripTrailingSpacesFromAnOpaquePath: spaces at the end go when
   neither query nor fragment is left. *)
TrimEnd(s) ==
  LET kept == {i \in DOMAIN s : s[i] # " "}
  IN  IF kept = {} THEN <<>> ELSE SubSeq(s, 1, CHOOSE i \in kept : \A j \in kept : i >= j)
StripOpaque(url) ==
  IF url.opaque /\ url.fragment = null /\ url.query = null
  THEN [url EXCEPT !.path = <<TrimEnd(@[1])>>] ELSE url

Without(s, mark) == IF s # <<>> /\ s[1] = mark THEN Tail(s) ELSE s

HostGetter(url) == SerializeHost(url.host) \o SerializePort(url)
HostnameGetter(url) == SerializeHost(url.host)
PortGetter(url) == IF url.port = null THEN <<>> ELSE Numeral(url.port[1], 10)

SetHref ==
  \E v \in Bases : Changes(Parse(v, null) /\ phase' = "href" /\ UNCHANGED obj)

SetProtocol ==
  \E v \in Values \cup {obj.url.scheme} :
    Changes(SetPart(Append(v, ":"), obj.url, "scheme start"))

SetCredentials ==
  \E v \in Values :
    /\ ~CannotHaveUsernamePasswordPort(obj.url)
    /\ \/ Changes(SetNow([obj.url EXCEPT !.username = PercentEncodeString(v, UserinfoSet)]))
       \/ Changes(SetNow([obj.url EXCEPT !.password = PercentEncodeString(v, UserinfoSet)]))

SetHost ==
  \E v \in Values \cup {HostGetter(obj.url)} :
    ~obj.url.opaque /\ Changes(SetPart(v, obj.url, "host"))

SetHostname ==
  \E v \in Values \cup {HostnameGetter(obj.url)} :
    ~obj.url.opaque /\ Changes(SetPart(v, obj.url, "hostname"))

SetPort ==
  \E v \in Values \cup {PortGetter(obj.url)} :
    /\ ~CannotHaveUsernamePasswordPort(obj.url)
    /\ IF v = <<>> THEN Changes(SetNow([obj.url EXCEPT !.port = null]))
       ELSE Changes(SetPart(v, obj.url, "port"))

SetPathname ==
  \E v \in Values \cup {SerializePath(obj.url)} :
    /\ ~obj.url.opaque
    /\ Changes(SetPart(v, [obj.url EXCEPT !.path = <<>>], "path start"))

SetSearch ==
  \E v \in Values :
    \/ /\ v = <<>>
       /\ Changes(/\ obj' = [url |-> StripOpaque([obj.url EXCEPT !.query = null]),
                             list |-> <<>>, spoilt |-> FALSE]
                  /\ UNCHANGED <<phase, m>>)
    \/ /\ v # <<>>
       /\ Changes(SetPart(Without(v, "?"), [obj.url EXCEPT !.query = <<<<>>>>], "query"))

SetHash ==
  \E v \in Values :
    IF v = <<>> THEN Changes(SetNow(StripOpaque([obj.url EXCEPT !.fragment = null])))
    ELSE Changes(SetPart(Without(v, "#"), [obj.url EXCEPT !.fragment = <<<<>>>>], "fragment"))

(* Defect: assigning to search leaves the list of searchParams as it was. *)
PartSetListKept ==
  /\ phase = "set"
  /\ Ended
  /\ obj' = [obj EXCEPT !.url = m.url]
  /\ phase' = "ready"
  /\ m' = Idle
  /\ UNCHANGED <<pending, changes>>

(* The record was changed in place, whatever the outcome; search then gives
   searchParams its list, which may throw. *)
PartSet ==
  /\ phase = "set"
  /\ Ended
  /\ LET list == ParseUrlencoded(m.input)
     IN  obj' = CASE m.override # "query" -> [obj EXCEPT !.url = m.url]
                  [] list = <<>> -> [obj EXCEPT !.url = m.url, !.spoilt = TRUE]
                  [] OTHER -> [url |-> m.url, list |-> list[1], spoilt |-> FALSE]
  /\ phase' = "ready"
  /\ m' = Idle
  /\ UNCHANGED <<pending, changes>>

HrefSet ==
  /\ phase = "href"
  /\ Ended
  /\ LET list == ParseUrlencoded(QueryOf(m.url))
     IN  obj' = CASE m.ret # "done" -> obj
                  [] list = <<>> -> [url |-> m.url, list |-> <<>>, spoilt |-> TRUE]
                  [] OTHER -> [url |-> m.url, list |-> list[1], spoilt |-> FALSE]
  /\ phase' = "ready"
  /\ m' = Idle
  /\ UNCHANGED <<pending, changes>>

(* A pair that says something else when it is written without encoding. *)
NeedsEncoding(list) ==
  \E i \in DOMAIN list : \/ ToSet(list[i][1]) \cap {"&", "=", "+", "%"} # {}
                         \/ ToSet(list[i][2]) \cap {"&", "+", "%"} # {}

(* searchParams: every change of the list writes the query. *)
WritesQuery(list) ==
  LET query == SerializeUrlencoded(list)
      written == [obj.url EXCEPT !.query = IF query = <<>> THEN null ELSE <<query>>]
  IN  /\ obj' = [url |-> IF query = <<>> THEN StripOpaque(written) ELSE written,
                 list |-> list,
                 spoilt |-> NeedsEncoding(list)]
      /\ UNCHANGED <<phase, m>>

Append_(pair) == Changes(WritesQuery(Append(obj.list, pair)))
Delete(name) == Changes(WritesQuery(SelectSeq(obj.list, LAMBDA p : p[1] # name)))

(* set(): the first pair of the name gets the value, the others go. *)
Set(name, value) ==
  LET first == SelectInSeq(obj.list, LAMBDA p : p[1] = name)
      list == IF first = 0 THEN Append(obj.list, <<name, value>>)
              ELSE SubSeq(obj.list, 1, first - 1) \o <<<<name, value>>>>
                   \o SelectSeq(SubSeq(obj.list, first + 1, Len(obj.list)),
                                LAMBDA p : p[1] # name)
  IN  Changes(WritesQuery(list))

ChangeParams ==
  \E pair \in Pairs : Append_(pair) \/ Delete(pair[1]) \/ Set(pair[1], pair[2])

(* The script reads href and makes a URL of it. *)
ReadBack ==
  /\ phase = "ready"
  /\ Parse(SerializeURL(obj.url), null)
  /\ phase' = "again"
  /\ UNCHANGED <<pending, obj, changes>>

(* The script gives the object no further use. *)
ReadBackEnds ==
  /\ phase = "again"
  /\ Ended
  /\ phase' = "over"
  /\ UNCHANGED <<m, pending, obj, changes>>

Assign ==
  \/ SetHref \/ SetProtocol \/ SetCredentials \/ SetHost \/ SetHostname \/ SetPort
  \/ SetPathname \/ SetSearch \/ SetHash \/ ChangeParams

NextState ==
  \/ Construct \/ BaseParsed \/ UrlParsed
  \/ Assign \/ PartSet \/ HrefSet
  \/ ReadBack \/ ReadBackEnds
  \/ ParseStep

Spec == Init /\ [][NextState]_vars
-----------------------------------------------------------------------------
(* Type invariant: the machine stays inside its input, and the URL of an object
   has the parts its form allows. *)
TypeOK ==
  /\ phase \in {"new", "base", "url", "ready", "set", "href", "again", "over", "rejected"}
  /\ m.at \in 1 .. Len(m.input) + 2
  /\ m.ret \in {"run", "done", "failure", "throws"}
  /\ m.url.host.kind \in {"null", "name", "v4", "v6"}
  /\ obj.url.opaque => Len(obj.url.path) = 1
  /\ changes \in 0 .. MaxChanges

(* A URL object never gets into a form that no string stands for: no credentials
   or port without a host they belong to, no special URL without a host or a path
   (which the next relative URL would read), no default port. *)
WellFormed ==
  LET url == obj.url
  IN  phase \in {"ready", "over"} =>
        /\ CannotHaveUsernamePasswordPort(url) => ~IncludesCredentials(url) /\ url.port = null
        /\ Special(url) /\ url.scheme # <<"file">> => url.host \notin {NoHost, Name(<<>>)}
        /\ Special(url) => ~url.opaque /\ url.path # <<>>
        /\ url.port # null => url.port # DefaultPort(url.scheme)

(* The href of a URL object, parsed again, gives the same URL: what a script sends
   is what it assembled.  A query with "#" in it and a space at the very end,
   which search and hash let in unencoded, are excepted. *)
HrefParsesBack ==
  LET href == SerializeURL(obj.url)
  IN  phase = "over" /\ "#" \notin ToSet(QueryOf(obj.url)) /\ Last(href) # " " =>
        m.ret = "done" /\ m.url = obj.url

(* searchParams and the query of the URL say the same, unless an exception came
   between them or a pair needed an encoding it does not get. *)
ParamsMatchQuery ==
  phase \in {"ready", "over"} /\ ~obj.spoilt =>
    ParseUrlencoded(QueryOf(obj.url)) = <<obj.list>>

(* What an assignment may change. *)
Parts(override) ==
  CASE override = "scheme start" -> {"scheme", "port"}
    [] override = "host" -> {"host", "port"}
    [] override = "hostname" -> {"host"}
    [] override = "port" -> {"port"}
    [] override = "path start" -> {"path"}
    [] OTHER -> {override}

(* An assignment to one property of a URL leaves the others as they were, whatever
   delimiters the assigned string has in it. *)
AssignmentStaysInPart ==
  [][phase = "set" /\ phase' = "ready" =>
       \A part \in DOMAIN obj.url \ Parts(m.override) : obj'.url[part] = obj.url[part]]_vars

(* Assigning to a property what it reads as changes nothing (a URL without a host
   excepted, which gets an empty one). *)
SelfAssignmentKeepsUrl ==
  [][/\ phase = "set" /\ phase' = "ready"
     /\ \/ m.override = "scheme start" /\ m.input = Append(obj.url.scheme, ":")
        \/ /\ m.override = "host" /\ m.input = HostGetter(obj.url)
           /\ obj.url.host # NoHost
        \/ /\ m.override = "hostname" /\ m.input = HostnameGetter(obj.url)
           /\ obj.url.host # NoHost
        \/ m.override = "port" /\ m.input = PortGetter(obj.url)
        \/ m.override = "path start" /\ m.input = SerializePath(obj.url)
     => obj'.url = obj.url]_vars

(* Every parse ends: although handlers send the machine back, to the beginning
   of the input or to that of the authority, they are called at most twice per
   symbol and six times more. *)
ParseEnds == m.calls <= 2 * Len(m.input) + 6

(* The machine ends its parses, what it leaves in an object is well-formed, and the
   object's searchParams are those of its query. *)
UrlValid == TypeOK /\ WellFormed /\ ParseEnds /\ ParamsMatchQuery

(* What an assignment to one property of a URL does to the others, and to itself
   when the value is the present one: nothing. *)
AssignmentContained == AssignmentStaysInPart /\ SelfAssignmentKeepsUrl
=============================================================================
