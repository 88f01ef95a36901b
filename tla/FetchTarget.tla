------------------------------ MODULE FetchTarget ------------------------------
(***************************************************************************)
(* The three parsers a URL meets on its way from a script to a request: the  *)
(* URL class of scripts (Url), that of node-fetch.js (FetchUrl) and url.parse *)
(* (LegacyUrl).                                                              *)
(***************************************************************************)
EXTENDS Url

F == INSTANCE FetchUrl
L == INSTANCE LegacyUrl

(* parseURL: what begins with a scheme goes through both parsers; the result is a
   sequence of at most one Url. *)
Absolute(s) == L!Protocol(s) # <<>> /\ Alpha(s[1])
Normal(url) == IF url = <<>> THEN url ELSE <<F!serializeURL(url[1])>>
Parsed(s) == IF s = <<>> THEN s ELSE L!parse(s[1])
parseURL(s) == Parsed(IF Absolute(s) THEN Normal(F!construct(s)) ELSE <<s>>)

(* Request.url, and the requests getNodeRequestOptions lets through. *)
RequestUrl(u) == L!format(u)
Requestable(u) == u.hostname # <<>> /\ u.protocol = <<"http", ":">>

(* What a request for a URL of scripts has to ask for: names in lower case, the
   query encoded, the user's name and password decoded. *)
Sent(url) ==
  LET name == LowerAll(HostnameGetter(url))
      userinfo == url.username
                  \o (IF url.password = <<>> THEN <<>> ELSE <<":">> \o url.password)
  IN  [protocol |-> Append(url.scheme, ":"),
       auth |-> Utf8Decode(PercentDecode(userinfo))[1],
       hostname |-> IF url.host.kind = "v6" THEN Tail(Front(name)) ELSE name,
       port |-> PortGetter(url),
       pathname |-> L!Escaped(SerializePath(url)),
       search |-> IF url.query = null THEN <<>>
                  ELSE <<"?">> \o L!Escaped(F!encodeAll(url.query[1], F!QueryEncoded))]

(* A name with an encoded colon: decoded, it is a name and a password. *)
ColonInName(name) ==
  \E i \in 3 .. Len(name) : LowerAll(SubSeq(name, i - 2, i)) = <<"%", "3", "a">>
(* A query that url.parse changes: a "#" or, unless a fragment follows, a backslash. *)
QuerySpoilt(url) ==
  \/ "#" \in ToSet(QueryOf(url))
  \/ "\\" \in ToSet(QueryOf(url)) /\ url.fragment = null

(* A request asks for what the URL of a script says, wherever one of the three
   parsers might find a delimiter in it that the others do not.  The URL that the
   request then shows says so again (fetch resolves redirections against it),
   unless a colon is encoded in the user's name. *)
AsksFor(u, url) ==
  /\ u # <<>> /\ Requestable(u[1])
  /\ \A part \in DOMAIN Sent(url) : u[1][part] = Sent(url)[part]
  /\ ColonInName(url.username) \/ parseURL(RequestUrl(u[1])) = u
FetchAsksForUrl ==
  phase = "over" /\ obj.url.scheme = <<"http">> /\ ~QuerySpoilt(obj.url) =>
    AsksFor(parseURL(SerializeURL(obj.url)), obj.url)

(* The two URL classes.  Names are in lower case in fetch's only, and its query is
   encoded; of the fragment nothing is sent. *)
LowerHost(url) == [url EXCEPT !.host.name = LowerAll(@)]
SameQuery(q, r) == F!encodeAll(q, F!QueryEncoded) = F!encodeAll(r, F!QueryEncoded)
SameUrl(r, url) ==
  /\ \A part \in {"scheme", "username", "password", "host", "port", "path"} : r[part] = url[part]
  /\ (r.query = null) = (url.query = null)
  /\ SameQuery(QueryOf(r), QueryOf(url))
  /\ F!host(r) = HostGetter(url) /\ F!hostname(r) = HostnameGetter(url)
  /\ F!port(r) = PortGetter(url) /\ F!pathname(r) = SerializePath(url)
  /\ SameQuery(F!search(r), IF QueryOf(url) = <<>> THEN <<>> ELSE <<"?">> \o QueryOf(url))

ForRequests(url) == url.scheme \in {<<"http">>, <<"ws">>}
(* Hosts that only fetch takes: names that are not ASCII, names with characters it
   does not look for, and names that end in a number. *)
OnlyFetch(host) ==
  \/ ToSet(host.name) \cap {"xn--", "<", ">", "^", "|"} # {}
  \/ host.kind = "name" /\ EndsInANumber(host.name)

ReadLike(there, m_) ==
  /\ m_.ret = "done" /\ ForRequests(m_.url) =>
       there # <<>> /\ SameUrl(there[1], LowerHost(m_.url))
  /\ there # <<>> /\ ForRequests(there[1]) /\ ~OnlyFetch(there[1].host) => m_.ret = "done"

(* What a script reads in a URL, alone or on a base, fetch reads in it. *)
ReadAlike ==
  [][phase = "url" /\ phase' # "url" =>
       ReadLike(IF m.base = null THEN F!construct(m.input)
                ELSE F!constructWith(m.input, SerializeURL(m.base[1])), m)]_vars

Assignment(m_) == IF m_.override = "scheme start" THEN Front(m_.input) ELSE m_.input

(* An assignment changes the same in both, but for a port behind a host name,
   at which the newer class gives up and the older one keeps the name. *)
SetAlike ==
  [][/\ phase = "set" /\ phase' = "ready"
     /\ ForRequests(obj.url) /\ ForRequests(obj'.url)
     /\ ~(m.override = "hostname" /\ ":" \in ToSet(m.input) /\ m.input[1] # "[")
     => SameUrl(LowerHost(F!setPart(obj.url, m.override, Assignment(m))), LowerHost(obj'.url))]_vars

(* fetch and the script understand a URL alike, read or assembled by assignments:
   a request goes where the script's checks of the URL said it would. *)
ClassesAgree == ReadAlike /\ SetAlike
=============================================================================
