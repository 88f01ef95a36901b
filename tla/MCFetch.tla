------------------------------- MODULE MCFetch --------------------------------
(* Instances of Fetch: calls that differ in method, body, headers and       *)
(* options; answers that stay, go below, above, aside, or to plain http.    *)
EXTENDS Fetch

Url(protocol, host) == [protocol |-> protocol, host |-> host]
Home == Url("https:", <<"example", "com">>)
HomePlain == Url("http:", <<"example", "com">>)
Below == Url("https:", <<"api", "example", "com">>)
Aside == Url("https:", <<"example", "net">>)
Elsewhere == Url("ftp:", <<"example", "com">>)

Get == [url |-> Home, method |-> "GET", body |-> "none", headers |-> NoHeaders,
        redirect |-> "follow", follow |-> 2, timeout |-> FALSE, size |-> FALSE, signal |-> FALSE]
Secret ==
  OfPairs(<< <<"Authorization", "secret">>, <<"COOKIE", "a">>, <<"Cookie", "b">>, <<"Accept", "text">> >>)
Post == [Get EXCEPT !.method = "POST", !.body = "text", !.headers = OfPairs(<< <<"Content-Length", "9">> >>)]

MCCalls ==
  { [Get EXCEPT !.headers = Secret],
    [Get EXCEPT !.timeout = TRUE, !.follow = 1],
    [Get EXCEPT !.size = TRUE, !.redirect = "manual"],
    [Get EXCEPT !.redirect = "error", !.timeout = TRUE],
    [Get EXCEPT !.signal = TRUE],
    [Get EXCEPT !.body = "text"],
    [Get EXCEPT !.url = Elsewhere],
    [Get EXCEPT !.url = Below, !.method = "HEAD", !.headers = Secret, !.follow = 0],
    Post,
    [Post EXCEPT !.method = "PUT", !.body = "bytes", !.headers = Secret, !.follow = 1],
    [Post EXCEPT !.body = "stream", !.timeout = TRUE],
    [Post EXCEPT !.body = "blob", !.timeout = TRUE] }

(* The loop of the constructor over another Headers, on these.              *)
Pairs(map) ==
  FlattenSeq([i \in 1 .. Cardinality(DOMAIN map) |->
    LET key == SetToSeq(DOMAIN map)[i]
    IN  [j \in DOMAIN map[key] |-> <<key, map[key][j]>>]])
ASSUME CopyAppends == \A c \in MCCalls : Copy(c.headers) = OfPairs(Pairs(c.headers))

MCStatuses == {200, 302, 303, 307}
MCLocations == {NoLocation, InvalidLocation, Home, HomePlain, Below, Aside, Elsewhere}
=============================================================================
