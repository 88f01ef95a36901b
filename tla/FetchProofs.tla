------------------------------ MODULE FetchProofs ------------------------------
(***************************************************************************)
(* Proofs about Fetch, for any headers, URLs, limits and answers.           *)
(***************************************************************************)
EXTENDS Fetch, SequenceTheorems, TLAPS

-----------------------------------------------------------------------------
(* Headers: what the methods do, seen through get. *)
Same(m, n) == toLowerCase(m) = toLowerCase(n)

LEMMA GetFacts ==
  ASSUME NEW map, OneSpelling(map), NEW name
  PROVE  /\ \A key \in DOMAIN map : Same(key, name) => get(map, name) = map[key]
         /\ (\A key \in DOMAIN map : ~Same(key, name)) => get(map, name) = <<>>
         /\ has(map, name) <=> \E key \in DOMAIN map : Same(key, name)
         /\ has(map, name) => find(map, name) \in DOMAIN map /\ Same(find(map, name), name)
<1>1. has(map, name) <=> \E key \in DOMAIN map : Same(key, name)
  BY DEF has, Spelled, Same
<1>2. has(map, name) => find(map, name) \in Spelled(map, name)
  BY DEF has, find
<1>3. has(map, name) => find(map, name) \in DOMAIN map /\ Same(find(map, name), name)
  BY <1>2 DEF Spelled, Same
<1>4. ASSUME NEW key \in DOMAIN map, Same(key, name)
      PROVE  get(map, name) = map[key]
  <2>1. find(map, name) = key
    BY <1>1, <1>3, <1>4 DEF OneSpelling, Same
  <2> QED BY <1>1, <1>4, <2>1 DEF get
<1> QED BY <1>1, <1>3, <1>4 DEF get

LEMMA CopyFacts ==
  ASSUME NEW map, OneSpelling(map)
  PROVE  /\ OneSpelling(Copy(map))
         /\ \A name : get(Copy(map), name) = get(map, name)
<1>1. /\ DOMAIN Copy(map) = {k \in DOMAIN map : map[k] # <<>>}
      /\ \A k \in DOMAIN Copy(map) : Copy(map)[k] = map[k]
  BY DEF Copy
<1> HIDE DEF Copy
<1>2. OneSpelling(Copy(map))
  BY <1>1 DEF OneSpelling
<1>3. ASSUME NEW name
      PROVE  get(Copy(map), name) = get(map, name)
  <2>1. ASSUME NEW key \in DOMAIN Copy(map), Same(key, name)
        PROVE  get(Copy(map), name) = get(map, name)
    BY <1>1, <1>2, <2>1, GetFacts
  <2>2. ASSUME \A key \in DOMAIN Copy(map) : ~Same(key, name),
               NEW key \in DOMAIN map, Same(key, name)
        PROVE  get(Copy(map), name) = get(map, name)
    <3>1. map[key] = <<>>
      BY <1>1, <2>2
    <3> QED BY <1>2, <2>2, <3>1, GetFacts
  <2>3. ASSUME \A key \in DOMAIN Copy(map) : ~Same(key, name),
               \A key \in DOMAIN map : ~Same(key, name)
        PROVE  get(Copy(map), name) = get(map, name)
    BY <1>2, <2>3, GetFacts
  <2> QED BY <2>1, <2>2, <2>3
<1> QED BY <1>2, <1>3

LEMMA DeleteFacts ==
  ASSUME NEW map, OneSpelling(map), NEW gone
  PROVE  /\ OneSpelling(delete(map, gone))
         /\ \A name : get(delete(map, gone), name) =
                        IF Same(name, gone) THEN <<>> ELSE get(map, name)
<1> DEFINE left == delete(map, gone)
<1>1. /\ \A k : k \in DOMAIN left <=> k \in DOMAIN map /\ ~Same(k, gone)
      /\ \A k \in DOMAIN left : left[k] = map[k]
  BY DEF delete, Spelled, Same
<1> HIDE DEF left
<1>2. OneSpelling(left)
  BY <1>1 DEF OneSpelling
<1>3. ASSUME NEW name
      PROVE  get(left, name) = IF Same(name, gone) THEN <<>> ELSE get(map, name)
  <2>1. CASE Same(name, gone)
    <3>1. \A key \in DOMAIN left : ~Same(key, name)
      BY <1>1, <2>1 DEF Same
    <3> QED BY <1>2, <2>1, <3>1, GetFacts
  <2>2. ASSUME ~Same(name, gone), NEW key \in DOMAIN map, Same(key, name)
        PROVE  get(left, name) = get(map, name)
    <3>1. key \in DOMAIN left
      BY <1>1, <2>2 DEF Same
    <3> QED BY <1>1, <1>2, <2>2, <3>1, GetFacts
  <2>3. ASSUME \A key \in DOMAIN map : ~Same(key, name)
        PROVE  get(left, name) = get(map, name)
    <3>1. \A key \in DOMAIN left : ~Same(key, name)
      BY <1>1, <2>3
    <3> QED BY <1>2, <2>3, <3>1, GetFacts
  <2> QED BY <2>1, <2>2, <2>3
<1> QED BY <1>2, <1>3 DEF left

(* set and append: one name is given new values, the others keep theirs. *)
KeyOf(map, name) == IF has(map, name) THEN find(map, name) ELSE name

LEMMA PutFacts ==
  ASSUME NEW map, OneSpelling(map), NEW given, NEW values
  PROVE  /\ OneSpelling(Put(map, KeyOf(map, given), values))
         /\ \A name : get(Put(map, KeyOf(map, given), values), name) =
                        IF Same(name, given) THEN values ELSE get(map, name)
<1> DEFINE key == KeyOf(map, given)
           new == Put(map, key, values)
<1>1. /\ DOMAIN new = DOMAIN map \cup {key} /\ new[key] = values
      /\ \A k \in DOMAIN new : k # key => new[k] = map[k]
  BY DEF Put
<1> HIDE DEF key, new
<1>2. Same(key, given) /\ \A k \in DOMAIN map : Same(k, given) => k = key
  <2>1. CASE has(map, given)
    BY <2>1, GetFacts DEF OneSpelling, Same, key, KeyOf
  <2>2. CASE ~has(map, given)
    BY <2>2, GetFacts DEF Same, key, KeyOf
  <2> QED BY <2>1, <2>2
<1>3. OneSpelling(new)
  BY <1>1, <1>2 DEF OneSpelling, Same
<1>4. ASSUME NEW name
      PROVE  get(new, name) = IF Same(name, given) THEN values ELSE get(map, name)
  <2>1. CASE Same(name, given)
    <3>1. key \in DOMAIN new /\ Same(key, name)
      BY <1>1, <1>2, <2>1 DEF Same
    <3> QED BY <1>1, <1>3, <2>1, <3>1, GetFacts
  <2>2. ASSUME ~Same(name, given), NEW k \in DOMAIN map, Same(k, name)
        PROVE  get(new, name) = get(map, name)
    <3>1. k \in DOMAIN new /\ k # key
      BY <1>1, <1>2, <2>2 DEF Same
    <3> QED BY <1>1, <1>3, <2>2, <3>1, GetFacts
  <2>3. ASSUME ~Same(name, given), \A k \in DOMAIN map : ~Same(k, name)
        PROVE  get(new, name) = get(map, name)
    <3>1. \A k \in DOMAIN new : ~Same(k, name)
      BY <1>1, <1>2, <2>3 DEF Same
    <3> QED BY <1>3, <2>3, <3>1, GetFacts
  <2> QED BY <2>1, <2>2, <2>3
<1> QED BY <1>3, <1>4 DEF new, key

LEMMA SetFacts ==
  ASSUME NEW map, OneSpelling(map), NEW given, NEW value
  PROVE  /\ OneSpelling(set(map, given, value))
         /\ \A name : get(set(map, given, value), name) =
                        IF Same(name, given) THEN <<value>> ELSE get(map, name)
<1> DEFINE values == <<value>>
<1>1. set(map, given, value) = Put(map, KeyOf(map, given), values)
  BY DEF set, KeyOf
<1> HIDE DEF values
<1>2. OneSpelling(Put(map, KeyOf(map, given), values))
  BY PutFacts
<1>3. \A name : get(Put(map, KeyOf(map, given), values), name) =
                  IF Same(name, given) THEN values ELSE get(map, name)
  BY PutFacts
<1> QED BY <1>1, <1>2, <1>3 DEF values

LEMMA AppendKeeps ==
  ASSUME NEW map, OneSpelling(map), NEW given, NEW value
  PROVE  OneSpelling(append(map, given, value))
BY PutFacts DEF append, KeyOf

(* The names the code uses, none of which is a spelling of another. *)
LEMMA NamesApart ==
  /\ \A name \in credentials :
       /\ ~Same(name, "Accept") /\ ~Same(name, "User-Agent") /\ ~Same(name, "Content-Length")
       /\ ~Same(name, "content-length") /\ ~Same(name, "content-type")
  /\ \A name \in credentials :
       \/ Same(name, "authorization") \/ Same(name, "www-authenticate")
       \/ Same(name, "cookie") \/ Same(name, "cookie2")
  /\ \A name \in {"content-type", "content-length"} :
       /\ ~Same(name, "authorization") /\ ~Same(name, "www-authenticate")
       /\ ~Same(name, "cookie") /\ ~Same(name, "cookie2")
       /\ ~Same(name, "Accept") /\ ~Same(name, "User-Agent")
  /\ Same("content-length", "Content-Length") /\ Same("content-length", "content-length")
  /\ ~Same("content-type", "Content-Length") /\ ~Same("content-type", "content-length")
BY DEF Same, toLowerCase, credentials
-----------------------------------------------------------------------------
(* Hosts: what ends with what ends with a host ends with that host. *)
LEMMA SuffixMeans ==
  ASSUME NEW s \in Seq(STRING), NEW t \in Seq(STRING)
  PROVE  IsSuffix(s, t) <=>
           /\ Len(s) <= Len(t)
           /\ \A i \in 1 .. Len(s) : s[Len(s) - i + 1] = t[Len(t) - i + 1]
<1> DEFINE a == Reverse(s)
           b == Reverse(t)
<1>1. /\ a \in Seq(STRING) /\ Len(a) = Len(s) /\ Len(s) \in Nat
      /\ \A i \in 1 .. Len(s) : a[i] = s[Len(s) - i + 1]
  BY DEF Reverse
<1>2. /\ b \in Seq(STRING) /\ Len(b) = Len(t) /\ Len(t) \in Nat
      /\ \A i \in 1 .. Len(t) : b[i] = t[Len(t) - i + 1]
  BY DEF Reverse
<1>3. IsSuffix(s, t) <=> /\ Len(a) <= Len(b)
                         /\ SubSeq(a, 1, Len(a)) = SubSeq(b, 1, Len(a))
  BY DEF IsSuffix, IsPrefix
<1> HIDE DEF a, b
<1>4. ASSUME Len(a) <= Len(b)
      PROVE  SubSeq(a, 1, Len(a)) = SubSeq(b, 1, Len(a)) <=>
               \A i \in 1 .. Len(a) : a[i] = b[i]
  <2>1. SubSeq(a, 1, Len(a)) = [i \in 1 .. Len(a) |-> a[i]]
    BY <1>1
  <2>2. SubSeq(b, 1, Len(a)) = [i \in 1 .. Len(a) |-> b[i]]
    BY <1>1, <1>2, <1>4
  <2> QED BY <2>1, <2>2
<1>5. ASSUME Len(s) <= Len(t)
      PROVE  (\A i \in 1 .. Len(a) : a[i] = b[i]) <=>
               \A i \in 1 .. Len(s) : s[Len(s) - i + 1] = t[Len(t) - i + 1]
  <2>1. \A i \in 1 .. Len(s) : i \in 1 .. Len(t)
    BY <1>1, <1>2, <1>5
  <2> QED BY <1>1, <1>2, <2>1
<1> QED BY <1>1, <1>2, <1>3, <1>4, <1>5

LEMMA SuffixOrder ==
  /\ \A s \in Seq(STRING) : IsSuffix(s, s)
  /\ \A s, t, u \in Seq(STRING) : IsSuffix(s, t) /\ IsSuffix(t, u) => IsSuffix(s, u)
<1>1. ASSUME NEW s \in Seq(STRING)
      PROVE  IsSuffix(s, s)
  BY SuffixMeans
<1>2. ASSUME NEW s \in Seq(STRING), NEW t \in Seq(STRING), NEW u \in Seq(STRING),
             IsSuffix(s, t), IsSuffix(t, u)
      PROVE  IsSuffix(s, u)
  <2>1. /\ Len(s) <= Len(t) /\ Len(t) <= Len(u)
        /\ \A i \in 1 .. Len(s) : s[Len(s) - i + 1] = t[Len(t) - i + 1]
        /\ \A i \in 1 .. Len(t) : t[Len(t) - i + 1] = u[Len(u) - i + 1]
    BY <1>2, SuffixMeans
  <2>2. Len(s) <= Len(u) /\ \A i \in 1 .. Len(s) : i \in 1 .. Len(t)
    BY <2>1
  <2>3. \A i \in 1 .. Len(s) : s[Len(s) - i + 1] = u[Len(u) - i + 1]
    BY <2>1, <2>2
  <2> QED BY <2>2, <2>3, SuffixMeans
<1> QED BY <1>1, <1>2
-----------------------------------------------------------------------------
(* Requests. *)
(* What Request and getNodeRequestOptions make of headers that hold. *)
LEMMA RequestFacts ==
  ASSUME NEW c, OneSpelling(c.headers), NEW counter
  PROVE  /\ OneSpelling(Request(c, counter).headers)
         /\ c.body # "text" =>
              \A name : get(Request(c, counter).headers, name) = get(c.headers, name)
<1> DEFINE kept == Copy(c.headers)
<1>1. OneSpelling(kept) /\ \A name : get(kept, name) = get(c.headers, name)
  BY CopyFacts
<1>2. Request(c, counter).headers = WithType(kept, c.body)
  BY DEF Request
<1> HIDE DEF kept
<1>3. OneSpelling(append(kept, "Content-Type", "text/plain"))
  BY <1>1, AppendKeeps
<1>4. CASE c.body # "text" \/ has(kept, "Content-Type")
  <2>1. WithType(kept, c.body) = kept
    BY <1>4 DEF WithType
  <2> QED BY <1>1, <1>2, <2>1
<1>5. CASE ~(c.body # "text" \/ has(kept, "Content-Type"))
  <2>1. WithType(kept, c.body) = append(kept, "Content-Type", "text/plain")
    BY <1>5 DEF WithType
  <2> QED BY <1>2, <1>3, <1>5, <2>1
<1> QED BY <1>4, <1>5

SentHeaders(r) == getNodeRequestOptions(r)
OwnName(name) == Same(name, "Accept") \/ Same(name, "User-Agent")

LEMMA SetOnceFacts ==
  ASSUME NEW map, OneSpelling(map), NEW given, NEW value
  PROVE  /\ OneSpelling(SetOnce(map, given, value))
         /\ \A name : ~Same(name, given) =>
              get(SetOnce(map, given, value), name) = get(map, name)
BY SetFacts DEF SetOnce

LEMMA SentFacts ==
  ASSUME NEW r, OneSpelling(r.headers)
  PROVE  \A name : ~OwnName(name) =>
           get(SentHeaders(r), name) =
             IF ContentLength(r) # "null" /\ Same(name, "Content-Length")
             THEN <<ContentLength(r)>> ELSE get(r.headers, name)
<1> DEFINE a == Copy(r.headers)
           b == SetOnce(a, "Accept", "*/*")
           h == SetOnce(b, "User-Agent", "node-fetch")
<1>1. OneSpelling(a) /\ \A name : get(a, name) = get(r.headers, name)
  BY CopyFacts
<1> HIDE DEF a
<1>2. OneSpelling(b) /\ \A name : ~Same(name, "Accept") => get(b, name) = get(a, name)
  BY <1>1, SetOnceFacts
<1> HIDE DEF b
<1>3. OneSpelling(h) /\ \A name : ~Same(name, "User-Agent") => get(h, name) = get(b, name)
  BY <1>2, SetOnceFacts
<1>4. SentHeaders(r) =
        IF ContentLength(r) = "null" THEN h ELSE set(h, "Content-Length", ContentLength(r))
  BY DEF SentHeaders, getNodeRequestOptions, h, b, a
<1> HIDE DEF h
<1> DEFINE n == ContentLength(r)
<1> HIDE DEF n
<1>5. OneSpelling(set(h, "Content-Length", n))
      /\ \A name : get(set(h, "Content-Length", n), name) =
                     IF Same(name, "Content-Length") THEN <<n>> ELSE get(h, name)
  BY <1>3, SetFacts
<1>6. \A name : ~OwnName(name) => get(h, name) = get(r.headers, name)
  BY <1>1, <1>2, <1>3 DEF OwnName
<1>7. SentHeaders(r) = IF n = "null" THEN h ELSE set(h, "Content-Length", n)
  BY <1>4 DEF n
<1>8. \A name : ~OwnName(name) =>
        get(SentHeaders(r), name) =
          IF n # "null" /\ Same(name, "Content-Length") THEN <<n>> ELSE get(r.headers, name)
  <2>1. CASE n = "null"
    BY <1>6, <1>7, <2>1
  <2>2. CASE n # "null"
    BY <1>5, <1>6, <1>7, <2>2
  <2> QED BY <2>1, <2>2
<1> QED BY <1>8 DEF n

LEMMA UndisclosedFacts ==
  ASSUME NEW map, OneSpelling(map)
  PROVE  /\ OneSpelling(Undisclosed(map))
         /\ \A name \in credentials : get(Undisclosed(map), name) = <<>>
         /\ \A name \in {"content-type", "content-length"} :
              get(Undisclosed(map), name) = get(map, name)
<1> DEFINE a == delete(map, "authorization")
           b == delete(a, "www-authenticate")
           c == delete(b, "cookie")
           d == delete(c, "cookie2")
<1>1. OneSpelling(a) /\ \A name : get(a, name) = IF Same(name, "authorization") THEN <<>>
                                                 ELSE get(map, name)
  BY DeleteFacts
<1> HIDE DEF a
<1>2. OneSpelling(b) /\ \A name : get(b, name) = IF Same(name, "www-authenticate") THEN <<>>
                                                 ELSE get(a, name)
  BY <1>1, DeleteFacts
<1> HIDE DEF b
<1>3. OneSpelling(c) /\ \A name : get(c, name) = IF Same(name, "cookie") THEN <<>>
                                                 ELSE get(b, name)
  BY <1>2, DeleteFacts
<1> HIDE DEF c
<1>4. OneSpelling(d) /\ \A name : get(d, name) = IF Same(name, "cookie2") THEN <<>>
                                                 ELSE get(c, name)
  BY <1>3, DeleteFacts
<1>5. Undisclosed(map) = d
  BY DEF Undisclosed, a, b, c, d
<1> HIDE DEF d
<1>6. \A name \in credentials : get(d, name) = <<>>
  BY <1>1, <1>2, <1>3, <1>4, NamesApart
<1>7. \A name \in {"content-type", "content-length"} : get(d, name) = get(map, name)
  BY <1>1, <1>2, <1>3, <1>4, NamesApart
<1> QED BY <1>4, <1>5, <1>6, <1>7

Confined(r, location) ==
  isDomainOrSubdomain(r.url, location) /\ isSameProtocol(r.url, location)

LEMMA RedirectedFacts ==
  ASSUME NEW r, OneSpelling(r.headers), r.body # "text", NEW status, NEW location, NEW n,
         n = Redirected(r, status, location)
  PROVE  /\ n.url = location /\ n.follow = r.follow /\ n.counter = r.counter + 1
         /\ OneSpelling(n.headers) /\ n.body # "text"
         /\ n.method = IF ToGet(r, status) THEN "GET" ELSE r.method
         /\ n.body = IF ToGet(r, status) THEN "none" ELSE r.body
         /\ \A name \in credentials :
              get(n.headers, name) = IF Confined(r, location) THEN get(r.headers, name)
                                     ELSE <<>>
         /\ get(n.headers, "content-type") = get(r.headers, "content-type")
         /\ get(n.headers, "content-length") =
              IF ToGet(r, status) THEN <<>> ELSE get(r.headers, "content-length")
<1> DEFINE kept == Copy(r.headers)
           safe == IF Confined(r, location) THEN kept ELSE Undisclosed(kept)
           last == IF ToGet(r, status) THEN delete(safe, "content-length") ELSE safe
           call == [url |-> location, redirect |-> "follow", follow |-> r.follow,
                    timeout |-> r.timeout, size |-> r.size, signal |-> r.signal,
                    method |-> IF ToGet(r, status) THEN "GET" ELSE r.method,
                    body |-> IF ToGet(r, status) THEN "none" ELSE r.body,
                    headers |-> last]
<1>1. OneSpelling(kept) /\ \A name : get(kept, name) = get(r.headers, name)
  BY CopyFacts
<1>2. n = Request(call, r.counter + 1)
  BY DEF Redirected, Confined
<1> HIDE DEF kept
<1>3. /\ OneSpelling(safe)
      /\ \A name \in credentials :
           get(safe, name) = IF Confined(r, location) THEN get(r.headers, name) ELSE <<>>
      /\ \A name \in {"content-type", "content-length"} :
           get(safe, name) = get(r.headers, name)
  <2>1. CASE Confined(r, location)
    BY <1>1, <2>1
  <2>2. CASE ~Confined(r, location)
    BY <1>1, <2>2, UndisclosedFacts
  <2> QED BY <2>1, <2>2
<1> HIDE DEF safe
<1>4. /\ OneSpelling(last)
      /\ \A name : get(last, name) =
           IF ToGet(r, status) /\ Same(name, "content-length") THEN <<>> ELSE get(safe, name)
  <2>1. CASE ToGet(r, status)
    BY <1>3, <2>1, DeleteFacts
  <2>2. CASE ~ToGet(r, status)
    BY <1>3, <2>2
  <2> QED BY <2>1, <2>2
<1> HIDE DEF last
<1>5. /\ call.headers = last /\ call.url = location /\ call.follow = r.follow
      /\ call.method = IF ToGet(r, status) THEN "GET" ELSE r.method
      /\ call.body = IF ToGet(r, status) THEN "none" ELSE r.body
  OBVIOUS
<1> HIDE DEF call
<1>6. call.body # "text"
  BY <1>5
<1>7. OneSpelling(n.headers) /\ \A name : get(n.headers, name) = get(last, name)
  <2>1. OneSpelling(call.headers) /\ call.body # "text"
    BY <1>4, <1>5, <1>6
  <2> DEFINE counter == r.counter + 1
  <2>2. n = Request(call, counter)
    BY <1>2
  <2> HIDE DEF counter
  <2>3. OneSpelling(n.headers) /\ \A name : get(n.headers, name) = get(call.headers, name)
    BY <2>1, <2>2, RequestFacts
  <2> QED BY <1>5, <2>3
<1>8. /\ n.url = call.url /\ n.follow = call.follow /\ n.counter = r.counter + 1
      /\ n.method = call.method /\ n.body = call.body
  BY <1>2, <1>6 DEF Request, BodyOf
<1>9. /\ \A name \in credentials : get(n.headers, name) = get(safe, name)
      /\ get(n.headers, "content-type") = get(safe, "content-type")
      /\ get(n.headers, "content-length") =
           IF ToGet(r, status) THEN <<>> ELSE get(safe, "content-length")
  BY <1>4, <1>7, NamesApart
<1> QED BY <1>3, <1>5, <1>6, <1>7, <1>8, <1>9
-----------------------------------------------------------------------------
(* The invariant.  A request is live when the script still waits for it or  *)
(* when it was given to the native request.  Of the requests rs of a fetch, *)
(* each is Made from the first, and each live one is Kept: as the chain of  *)
(* redirections has to leave it.  Only the last may be followed, since all  *)
(* before it are over or in the middle of their answer (InOrder).           *)
Live(k) == promise[k] # "rejected" \/ native[k] # "unsent"
SomeSeq(s) == \E S : s \in Seq(S)

Made(rs, k) ==
  /\ OneSpelling(rs[k].headers) /\ rs[k].url \in URLs /\ rs[k].body # "text"
  /\ rs[k].follow = rs[1].follow /\ rs[1].follow \in Nat

Inside(first, url) == url.protocol = first.protocol /\ IsSuffix(first.host, url.host)
CredentialKept(rs, k, name) ==
  LET own == get(rs[1].headers, name)
      now == get(rs[k].headers, name)
  IN  /\ now = own \/ (now = <<>> /\ \E j \in 1 .. k : rs[j].url # rs[1].url)
      /\ now # <<>> => \A j \in 1 .. k : Inside(rs[1].url, rs[j].url)
BodyKept(first, r) ==
  /\ r.method \in {"GET", "HEAD"} => r.body = "none"
  /\ r.body # "none" => /\ r.body = first.body /\ r.method = first.method
                        /\ get(r.headers, "content-length") = get(first.headers, "content-length")
  /\ r.body # "blob"
  /\ r.body = "none" /\ first.body # "none" =>
       r.method = "GET" /\ get(r.headers, "content-length") = <<>>
  /\ get(r.headers, "content-type") = get(first.headers, "content-type")
Kept(rs, k) ==
  /\ k <= 1 + rs[1].follow /\ rs[k].counter = k - 1
  /\ \A name \in credentials : CredentialKept(rs, k, name)
  /\ BodyKept(rs[1], rs[k])

Promises == {"pending", "rejected", "resolved", "locked"}
Natives == {"unsent", "open", "aborted", "answered", "over"}
TaskOK ==
  /\ task \in [of : Nat, next : {"none", "data", "end"}]
  /\ task # Idle => task.of \in 1 .. Len(requests) /\ native[task.of] = "answered"
  /\ task = Idle \/ task.next \in {"data", "end"}
Shape ==
  /\ SomeSeq(requests) /\ promise \in Seq(Promises) /\ native \in Seq(Natives)
  /\ Len(promise) = Len(requests) /\ Len(native) = Len(requests)
  /\ TaskOK
InOrder ==
  \A j \in 1 .. Len(requests) :
    j < Len(requests) => native[j] = "over" \/ (task # Idle /\ task.of = j)
AllMade == \A k \in 1 .. Len(requests) : Made(requests, k)
LiveKept == \A k \in 1 .. Len(requests) : Live(k) => Kept(requests, k)
Chain == Shape /\ InOrder /\ AllMade /\ LiveKept

(* Sequences: appending and overwriting, element by element. *)
LEMMA AppendFacts ==
  ASSUME NEW s, SomeSeq(s), NEW x
  PROVE  /\ SomeSeq(Append(s, x)) /\ Len(s) \in Nat /\ Len(Append(s, x)) = Len(s) + 1
         /\ Append(s, x)[Len(s) + 1] = x
         /\ \A k \in 1 .. Len(s) : Append(s, x)[k] = s[k]
         /\ DOMAIN s = 1 .. Len(s)
<1>1. PICK S : s \in Seq(S)
  BY DEF SomeSeq
<1> DEFINE T == S \cup {x}
<1>2. s \in Seq(T)
  <2>1. PICK n \in Nat : s \in [1 .. n -> S]
    BY <1>1, SeqDef
  <2>2. s \in [1 .. n -> T]
    BY <2>1
  <2> QED BY <2>1, <2>2, SeqDef
<1>3. x \in T
  OBVIOUS
<1> HIDE DEF T
<1>4. Append(s, x) \in Seq(T)
  BY <1>2, <1>3
<1>5. SomeSeq(Append(s, x))
  BY <1>4 DEF SomeSeq
<1> QED BY <1>2, <1>3, <1>5

LEMMA OverwriteFacts ==
  ASSUME NEW S, NEW s \in Seq(S), NEW k \in 1 .. Len(s), NEW v \in S
  PROVE  /\ [s EXCEPT ![k] = v] \in Seq(S)
         /\ Len([s EXCEPT ![k] = v]) = Len(s)
         /\ \A i \in 1 .. Len(s) : [s EXCEPT ![k] = v][i] = IF i = k THEN v ELSE s[i]
BY ExceptSeq

-----------------------------------------------------------------------------
(* Steps. *)
(* A step that makes no request, and gives none that is dead a new life. *)
LEMMA Quiet ==
  ASSUME AllMade, LiveKept, requests' = requests,
         \A k \in 1 .. Len(requests) : Live(k)' => Live(k)
  PROVE  AllMade' /\ LiveKept'
<1>1. AllMade'
  BY DEF AllMade, Made
<1>2. ASSUME NEW k \in 1 .. Len(requests), Live(k)', Kept(requests, k)
      PROVE  Kept(requests, k)'
  BY <1>2 DEF Kept, CredentialKept
<1>3. LiveKept'
  BY <1>2 DEF LiveKept
<1> QED BY <1>1, <1>3

(* What the promise and the native request of one request come to. *)
LEMMA SettleFacts ==
  ASSUME Shape, NEW k \in 1 .. Len(requests), NEW as \in Promises
  PROVE  /\ Settle(k, as) \in Seq(Promises) /\ Len(Settle(k, as)) = Len(requests)
         /\ \A j \in 1 .. Len(requests) : promise[j] = "rejected" => Settle(k, as)[j] = "rejected"
<1>1. promise \in Seq(Promises) /\ Len(promise) = Len(requests) /\ k \in 1 .. Len(promise)
  BY DEF Shape
<1>2. /\ [promise EXCEPT ![k] = as] \in Seq(Promises)
      /\ Len([promise EXCEPT ![k] = as]) = Len(promise)
      /\ \A j \in 1 .. Len(promise) : [promise EXCEPT ![k] = as][j] = IF j = k THEN as ELSE promise[j]
  <2>1. [promise EXCEPT ![k] = as] \in Seq(Promises)
    BY <1>1, OverwriteFacts
  <2>2. Len([promise EXCEPT ![k] = as]) = Len(promise)
    BY ONLY <1>1
  <2>3. \A j \in 1 .. Len(promise) : [promise EXCEPT ![k] = as][j] = IF j = k THEN as ELSE promise[j]
    <3>1. DOMAIN promise = 1 .. Len(promise)
      BY ONLY <1>1
    <3> QED BY ONLY <3>1
  <2> QED BY <2>1, <2>2, <2>3
<1>3. CASE promise[k] = "pending"
  BY <1>1, <1>2, <1>3 DEF Settle
<1>4. CASE promise[k] # "pending"
  BY <1>1, <1>4 DEF Settle
<1> QED BY <1>3, <1>4

LEMMA NativeFacts ==
  ASSUME Shape, NEW k \in 1 .. Len(requests), NEW as \in Natives
  PROVE  /\ [native EXCEPT ![k] = as] \in Seq(Natives)
         /\ Len([native EXCEPT ![k] = as]) = Len(requests)
         /\ \A j \in 1 .. Len(requests) : [native EXCEPT ![k] = as][j] = IF j = k THEN as ELSE native[j]
<1>1. native \in Seq(Natives) /\ Len(native) = Len(requests) /\ k \in 1 .. Len(native)
  BY DEF Shape
<1>2. [native EXCEPT ![k] = as] \in Seq(Natives)
  BY <1>1, OverwriteFacts
<1>3. Len([native EXCEPT ![k] = as]) = Len(native)
  BY ONLY <1>1
<1>4. \A j \in 1 .. Len(native) : [native EXCEPT ![k] = as][j] = IF j = k THEN as ELSE native[j]
  <2>1. DOMAIN native = 1 .. Len(native)
    BY ONLY <1>1
  <2> QED BY ONLY <2>1
<1> QED BY <1>1, <1>2, <1>3, <1>4

LEMMA QuietStep ==
  ASSUME Chain, requests' = requests,
         promise' \in Seq(Promises), Len(promise') = Len(requests),
         native' \in Seq(Natives), Len(native') = Len(requests),
         \A j \in 1 .. Len(requests) : promise[j] = "rejected" => promise'[j] = "rejected",
         \A j \in 1 .. Len(requests) : native[j] = "unsent" => native'[j] = "unsent",
         TaskOK', InOrder'
  PROVE  Chain'
<1>1. Shape'
  BY DEF Chain, Shape
<1>2. ASSUME NEW j \in 1 .. Len(requests), ~Live(j)
      PROVE  ~Live(j)'
  BY <1>2 DEF Live
<1>3. AllMade' /\ LiveKept'
  BY <1>2, Quiet DEF Chain
<1> QED BY <1>1, <1>3 DEF Chain

(* The native request of k comes to as. *)
LEMMA NativeStep ==
  ASSUME Chain, NEW k \in 1 .. Len(requests), NEW as \in Natives,
         native' = [native EXCEPT ![k] = as],
         native[k] = "unsent" => as = "unsent", native[k] = "over" => as = "over"
  PROVE  /\ native' \in Seq(Natives) /\ Len(native') = Len(requests)
         /\ \A j \in 1 .. Len(requests) : native'[j] = IF j = k THEN as ELSE native[j]
         /\ \A j \in 1 .. Len(requests) : native[j] = "unsent" => native'[j] = "unsent"
         /\ \A j \in 1 .. Len(requests) : native[j] = "over" => native'[j] = "over"
<1> DEFINE new == [native EXCEPT ![k] = as]
<1>1. /\ new \in Seq(Natives) /\ Len(new) = Len(requests)
      /\ \A j \in 1 .. Len(requests) : new[j] = IF j = k THEN as ELSE native[j]
  BY NativeFacts DEF Chain
<1>2. native' = new
  OBVIOUS
<1> HIDE DEF new
<1> QED BY <1>1, <1>2

LEMMA SettleStep ==
  ASSUME Chain, NEW k \in 1 .. Len(requests), NEW as \in Promises, promise' = Settle(k, as)
  PROVE  /\ promise' \in Seq(Promises) /\ Len(promise') = Len(requests)
         /\ \A j \in 1 .. Len(requests) : promise[j] = "rejected" => promise'[j] = "rejected"
BY SettleFacts DEF Chain

LEMMA ChainFacts ==
  ASSUME Chain
  PROVE  /\ DOMAIN requests = 1 .. Len(requests) /\ Ks = 1 .. Len(requests) /\ Len(requests) \in Nat
         /\ promise \in Seq(Promises) /\ Len(promise) = Len(requests)
         /\ native \in Seq(Natives) /\ Len(native) = Len(requests)
         /\ \A j \in 1 .. Len(requests) : native[j] \in Natives
         /\ TaskOK
<1>1. /\ native \in Seq(Natives) /\ Len(native) = Len(requests) /\ SomeSeq(requests) /\ TaskOK
      /\ promise \in Seq(Promises) /\ Len(promise) = Len(requests)
  BY DEF Chain, Shape
<1>2. \A j \in 1 .. Len(requests) : native[j] \in Natives
  BY <1>1, ElementOfSeq
<1>3. DOMAIN requests = 1 .. Len(requests) /\ Len(requests) \in Nat
  BY <1>1, AppendFacts
<1> QED BY <1>1, <1>2, <1>3 DEF Ks

LEMMA TimeoutStep ==
  ASSUME Chain, NEW k \in Ks, Timeout(k)
  PROVE  Chain'
<1>1. k \in 1 .. Len(requests) /\ native[k] \in Natives /\ TaskOK
  BY ChainFacts
<1> DEFINE as == IF native[k] = "open" THEN "aborted" ELSE native[k]
<1>2. native' = [native EXCEPT ![k] = as] /\ promise' = Settle(k, "rejected")
      /\ requests' = requests /\ task' = Idle /\ task = Idle
  BY DEF Timeout, Aborted
<1>3. as \in Natives /\ (native[k] = "unsent" => as = "unsent") /\ (native[k] = "over" => as = "over")
  BY <1>1 DEF Natives
<1> HIDE DEF as
<1>4. /\ native' \in Seq(Natives) /\ Len(native') = Len(requests)
      /\ \A j \in 1 .. Len(requests) : native[j] = "unsent" => native'[j] = "unsent"
      /\ \A j \in 1 .. Len(requests) : native[j] = "over" => native'[j] = "over"
  BY <1>1, <1>2, <1>3, NativeStep
<1>5. /\ promise' \in Seq(Promises) /\ Len(promise') = Len(requests)
      /\ \A j \in 1 .. Len(requests) : promise[j] = "rejected" => promise'[j] = "rejected"
  BY <1>1, <1>2, SettleStep DEF Promises
<1>6. InOrder'
  BY <1>2, <1>4 DEF Chain, InOrder, Idle
<1>7. TaskOK'
  BY <1>1, <1>2 DEF TaskOK, Idle
<1> QED BY <1>2, <1>4, <1>5, <1>6, <1>7, QuietStep

LEMMA DownloadStep ==
  ASSUME Chain, NEW k \in Ks, Download(k)
  PROVE  Chain'
<1>1. /\ k \in 1 .. Len(requests) /\ TaskOK
      /\ promise \in Seq(Promises) /\ Len(promise) = Len(requests)
  BY ChainFacts
<1>2. /\ native' = [native EXCEPT ![k] = "answered"] /\ promise' = promise
      /\ requests' = requests /\ task' = task /\ native[k] # "unsent" /\ native[k] # "over"
  BY DEF Download
<1>3. /\ native' \in Seq(Natives) /\ Len(native') = Len(requests)
      /\ \A j \in 1 .. Len(requests) : native'[j] = IF j = k THEN "answered" ELSE native[j]
      /\ \A j \in 1 .. Len(requests) : native[j] = "unsent" => native'[j] = "unsent"
      /\ \A j \in 1 .. Len(requests) : native[j] = "over" => native'[j] = "over"
  BY <1>1, <1>2, NativeStep DEF Natives
<1>4. InOrder'
  BY <1>2, <1>3 DEF Chain, InOrder, Idle
<1>5. TaskOK'
  BY <1>1, <1>2, <1>3 DEF TaskOK, Idle
<1> QED BY <1>1, <1>2, <1>3, <1>4, <1>5, QuietStep

LEMMA FailsStep ==
  ASSUME Chain, NEW k \in Ks, Fails(k)
  PROVE  Chain'
<1>1. k \in 1 .. Len(requests) /\ TaskOK
  BY ChainFacts
<1>2. /\ native' = [native EXCEPT ![k] = "over"] /\ promise' = Settle(k, "rejected")
      /\ requests' = requests /\ task' = Idle /\ task = Idle /\ native[k] = "answered"
  BY DEF Fails, Ends
<1>3. /\ native' \in Seq(Natives) /\ Len(native') = Len(requests)
      /\ \A j \in 1 .. Len(requests) : native[j] = "unsent" => native'[j] = "unsent"
      /\ \A j \in 1 .. Len(requests) : native[j] = "over" => native'[j] = "over"
  BY <1>1, <1>2, NativeStep DEF Natives
<1>4. /\ promise' \in Seq(Promises) /\ Len(promise') = Len(requests)
      /\ \A j \in 1 .. Len(requests) : promise[j] = "rejected" => promise'[j] = "rejected"
  BY <1>1, <1>2, SettleStep DEF Promises
<1>5. InOrder'
  BY <1>2, <1>3 DEF Chain, InOrder, Idle
<1>6. TaskOK'
  BY <1>1, <1>2 DEF TaskOK, Idle
<1> QED BY <1>2, <1>3, <1>4, <1>5, <1>6, QuietStep

(* Respond and Reject: the answer of the last request begins. *)
LEMMA AnsweringFacts ==
  ASSUME Chain, NEW k \in Ks, Answering(k)
  PROVE  /\ k = Len(requests) /\ k \in 1 .. Len(requests) /\ native[k] = "answered"
         /\ \A j \in 1 .. Len(requests) : j < Len(requests) => native[j] = "over"
         /\ task' \in [of : Nat, next : {"none", "data", "end"}] /\ task'.of = k /\ task'.next = "data"
<1>1. k \in 1 .. Len(requests) /\ Len(requests) \in Nat
  BY ChainFacts
<1>2. task = Idle /\ native[k] = "answered" /\ task' = [of |-> k, next |-> "data"]
  BY DEF Answering
<1>4. k \in Nat
  BY <1>1
<1>3. \A j \in 1 .. Len(requests) : j < Len(requests) => native[j] = "over"
  BY <1>2 DEF Chain, InOrder
<1> QED BY <1>1, <1>2, <1>3, <1>4

LEMMA AnswerStep ==
  ASSUME Chain, NEW k \in Ks, Answering(k), UNCHANGED <<requests, native>>,
         NEW as \in Promises, promise' = Settle(k, as)
  PROVE  Chain'
<1>1. /\ k \in 1 .. Len(requests) /\ native \in Seq(Natives) /\ Len(native) = Len(requests)
  BY ChainFacts
<1>2. /\ promise' \in Seq(Promises) /\ Len(promise') = Len(requests)
      /\ \A j \in 1 .. Len(requests) : promise[j] = "rejected" => promise'[j] = "rejected"
  BY <1>1, SettleStep
<1>3. /\ \A j \in 1 .. Len(requests) : j < Len(requests) => native[j] = "over"
      /\ task' \in [of : Nat, next : {"none", "data", "end"}] /\ task'.of = k /\ task'.next = "data"
      /\ native[k] = "answered"
  BY AnsweringFacts
<1>4. InOrder'
  BY <1>3 DEF InOrder
<1>5. TaskOK'
  BY <1>1, <1>3 DEF TaskOK
<1> QED BY <1>1, <1>2, <1>4, <1>5, QuietStep

LEMMA OnDataStep ==
  ASSUME Chain, OnData
  PROVE  Chain'
<1>1. /\ promise \in Seq(Promises) /\ Len(promise) = Len(requests)
      /\ native \in Seq(Natives) /\ Len(native) = Len(requests) /\ TaskOK
  BY ChainFacts
<1>2. /\ task.next = "data" /\ task' = [task EXCEPT !.next = "end"]
      /\ UNCHANGED <<requests, promise, native>>
  BY DEF OnData
<1>3. /\ task # Idle /\ task' \in [of : Nat, next : {"none", "data", "end"}] /\ task'.of = task.of
      /\ task'.next = "end" /\ task' # Idle
  BY <1>1, <1>2 DEF TaskOK, Idle
<1>4. InOrder'
  BY <1>2, <1>3 DEF Chain, InOrder
<1>5. TaskOK'
  BY <1>1, <1>2, <1>3 DEF TaskOK
<1> QED BY <1>1, <1>2, <1>4, <1>5, QuietStep

LEMMA OnEndStep ==
  ASSUME Chain, OnEnd
  PROVE  Chain'
<1> DEFINE k == task.of
<1>1. promise \in Seq(Promises) /\ Len(promise) = Len(requests) /\ TaskOK
  BY ChainFacts
<1>2. /\ task.next = "end" /\ task' = Idle /\ native' = [native EXCEPT ![k] = "over"]
      /\ UNCHANGED <<requests, promise>>
  BY DEF OnEnd, Ends
<1>3. k \in 1 .. Len(requests) /\ task # Idle
  BY <1>1, <1>2 DEF TaskOK, Idle
<1> HIDE DEF k
<1>4. native[k] = "answered"
  BY <1>1, <1>3 DEF k, TaskOK
<1>5. /\ native' \in Seq(Natives) /\ Len(native') = Len(requests)
      /\ \A j \in 1 .. Len(requests) : native'[j] = IF j = k THEN "over" ELSE native[j]
      /\ \A j \in 1 .. Len(requests) : native[j] = "unsent" => native'[j] = "unsent"
      /\ \A j \in 1 .. Len(requests) : native[j] = "over" => native'[j] = "over"
  BY <1>2, <1>3, <1>4, NativeStep DEF Natives
<1>6. InOrder'
  BY <1>2, <1>5 DEF Chain, InOrder, k
<1>7. TaskOK'
  BY <1>2 DEF TaskOK, Idle
<1> QED BY <1>1, <1>2, <1>5, <1>6, <1>7, QuietStep

-----------------------------------------------------------------------------
(* A new request. *)
LEMMA StartsFacts ==
  ASSUME Chain, NEW r, NEW promises \in Seq(Promises), Len(promises) = Len(requests),
         NEW timers, Starts(r, promises, timers),
         \A j \in 1 .. Len(requests) : promise[j] = "rejected" => promises[j] = "rejected"
  PROVE  LET n == Len(requests) + 1 IN
         /\ SomeSeq(requests') /\ Len(requests') = n
         /\ requests'[n] = r /\ \A j \in 1 .. Len(requests) : requests'[j] = requests[j]
         /\ promise' \in Seq(Promises) /\ Len(promise') = n
         /\ \A j \in 1 .. Len(requests) : promise[j] = "rejected" => promise'[j] = "rejected"
         /\ native' \in Seq(Natives) /\ Len(native') = n
         /\ \A j \in 1 .. Len(requests) : native'[j] = native[j]
         /\ r.body = "blob" => promise'[n] = "rejected" /\ native'[n] = "unsent"
<1> DEFINE dead == Refused(r) \/ r.body = "blob"
           p == IF dead THEN "rejected" ELSE "pending"
           v == IF dead THEN "unsent" ELSE "open"
<1>1. /\ requests' = Append(requests, r) /\ promise' = Append(promises, p)
      /\ native' = Append(native, v)
  BY DEF Starts
<1>2. p \in Promises /\ v \in Natives /\ (r.body = "blob" => p = "rejected" /\ v = "unsent")
  BY DEF Promises, Natives
<1> HIDE DEF p, v, dead
<1>3. /\ SomeSeq(requests) /\ Len(requests) \in Nat
      /\ native \in Seq(Natives) /\ Len(native) = Len(requests)
  BY ChainFacts DEF Chain, Shape
<1>4. /\ SomeSeq(requests') /\ Len(requests') = Len(requests) + 1
      /\ requests'[Len(requests) + 1] = r
      /\ \A j \in 1 .. Len(requests) : requests'[j] = requests[j]
  BY <1>1, <1>3, AppendFacts
<1>5. /\ promise' \in Seq(Promises) /\ Len(promise') = Len(requests) + 1
      /\ promise'[Len(requests) + 1] = p
      /\ \A j \in 1 .. Len(requests) : promise'[j] = promises[j]
  BY <1>1, <1>2, <1>3
<1>6. /\ native' \in Seq(Natives) /\ Len(native') = Len(requests) + 1
      /\ native'[Len(requests) + 1] = v
      /\ \A j \in 1 .. Len(requests) : native'[j] = native[j]
  BY <1>1, <1>2, <1>3
<1> QED BY <1>2, <1>4, <1>5, <1>6

(* What a script's call makes. *)
LEMMA FirstFacts ==
  ASSUME NEW c \in Calls
  PROVE  LET r == Request(c, 0) IN
         /\ OneSpelling(r.headers) /\ r.url \in URLs /\ r.body # "text" /\ r.follow \in Nat
         /\ r.counter = 0 /\ r.method = c.method
         /\ ~InvalidRequest(c) /\ r.method \in {"GET", "HEAD"} => r.body = "none"
<1>1. c.url \in URLs /\ c.follow \in Nat /\ OneSpelling(c.headers)
  BY FetchAssumption
<1>2. OneSpelling(Request(c, 0).headers)
  BY <1>1, RequestFacts
<1>3. /\ Request(c, 0).url = c.url /\ Request(c, 0).body = BodyOf(c.body)
      /\ Request(c, 0).follow = c.follow /\ Request(c, 0).counter = 0
      /\ Request(c, 0).method = c.method
  BY DEF Request
<1>4. BodyOf(c.body) # "text" /\ (c.body = "none" => BodyOf(c.body) = "none")
  BY DEF BodyOf
<1> QED BY <1>1, <1>2, <1>3, <1>4 DEF InvalidRequest

LEMMA CallStep ==
  ASSUME Chain, NEW c \in Calls, Call(c)
  PROVE  Chain'
<1> DEFINE r == Request(c, 0)
<1>1. /\ OneSpelling(r.headers) /\ r.url \in URLs /\ r.body # "text" /\ r.follow \in Nat
      /\ r.counter = 0
      /\ ~InvalidRequest(c) /\ r.method \in {"GET", "HEAD"} => r.body = "none"
  BY FirstFacts
<1>2. requests = <<>> /\ task' = task
  BY DEF Call
<1>3. Len(requests) = 0 /\ task = Idle
  BY <1>2, ChainFacts DEF TaskOK
<1>4. /\ SomeSeq(requests') /\ Len(requests') = 1 /\ requests'[1] = r
      /\ promise' \in Seq(Promises) /\ Len(promise') = 1
      /\ native' \in Seq(Natives) /\ Len(native') = 1
      /\ Live(1)' => r.body # "blob" /\ ~InvalidRequest(c)
  <2>1. CASE InvalidRequest(c)
    <3>1. requests' = <<r>> /\ promise' = <<"rejected">> /\ native' = <<"unsent">>
      BY <2>1 DEF Call
    <3> HIDE DEF r
    <3>2. <<r>> \in Seq({r})
      OBVIOUS
    <3>3. SomeSeq(requests')
      BY <3>1, <3>2 DEF SomeSeq
    <3>4. promise' \in Seq(Promises) /\ native' \in Seq(Natives)
      BY <3>1 DEF Promises, Natives
    <3> QED BY <3>1, <3>3, <3>4 DEF Live
  <2>2. CASE ~InvalidRequest(c)
    <3>1. Starts(r, promise, timer)
      BY <2>2 DEF Call
    <3> HIDE DEF r
    <3>2. promise \in Seq(Promises) /\ Len(promise) = Len(requests)
      BY ChainFacts
    <3> DEFINE n == Len(requests) + 1
    <3>3. /\ SomeSeq(requests') /\ Len(requests') = n /\ requests'[n] = r
          /\ promise' \in Seq(Promises) /\ Len(promise') = n
          /\ native' \in Seq(Natives) /\ Len(native') = n
          /\ r.body = "blob" => promise'[n] = "rejected" /\ native'[n] = "unsent"
      BY <3>1, <3>2, StartsFacts
    <3>4. n = 1
      BY <1>3
    <3> HIDE DEF n
    <3> QED BY <2>2, <3>3, <3>4 DEF Live
  <2> QED BY <2>1, <2>2
<1> HIDE DEF r
<1>5. TaskOK'
  BY <1>2, <1>3, ChainFacts DEF TaskOK, Idle
<1>6. Shape' /\ InOrder'
  BY <1>4, <1>5 DEF Shape, InOrder
<1>7. Made(requests', 1)
  BY <1>1, <1>4 DEF Made
<1>8. ASSUME Live(1)'
      PROVE  Kept(requests', 1)
  <2>1. r.method \in {"GET", "HEAD"} => r.body = "none"
    BY <1>1, <1>4, <1>8
  <2>2. BodyKept(requests'[1], requests'[1])
    BY <1>4, <1>8, <2>1 DEF BodyKept
  <2>3. Inside(r.url, r.url)
    BY <1>1, SuffixOrder DEF Inside, URLs
  <2>4. \A j \in 1 .. 1 : requests'[j] = r
    BY <1>4
  <2>5. ASSUME NEW name \in credentials
        PROVE  CredentialKept(requests', 1, name)
    BY <1>4, <2>3, <2>4 DEF CredentialKept
  <2>6. 1 <= 1 + requests'[1].follow /\ requests'[1].counter = 1 - 1
    BY <1>1, <1>4
  <2> QED BY <2>2, <2>5, <2>6 DEF Kept
<1>9. AllMade' /\ LiveKept'
  BY <1>4, <1>7, <1>8 DEF AllMade, LiveKept
<1> QED BY <1>6, <1>9 DEF Chain

(* What was kept of a chain is kept of a longer one. *)
LEMMA KeptExtends ==
  ASSUME NEW rs, NEW longer, NEW n \in Nat, NEW k \in 1 .. n,
         \A j \in 1 .. n : longer[j] = rs[j]
  PROVE  /\ Made(rs, k) => Made(longer, k)
         /\ Kept(rs, k) => Kept(longer, k)
<1>1. 1 \in 1 .. n /\ longer[1] = rs[1] /\ longer[k] = rs[k] /\ \A j \in 1 .. k : longer[j] = rs[j]
  OBVIOUS
<1>2. Made(rs, k) => Made(longer, k)
  BY <1>1 DEF Made
<1>3. ASSUME NEW name \in credentials, CredentialKept(rs, k, name)
      PROVE  CredentialKept(longer, k, name)
  BY <1>1, <1>3 DEF CredentialKept
<1>4. Kept(rs, k) => Kept(longer, k)
  BY <1>1, <1>3 DEF Kept
<1> QED BY <1>2, <1>4

(* One redirection, as the request r of the k-th, r0, is made. *)
LEMMA RedirectionKept ==
  ASSUME NEW rs, NEW k \in Nat \ {0}, \A j \in 1 .. k : Made(rs, j), Kept(rs, k),
         NEW status, NEW location \in URLs, rs[k].counter < rs[k].follow,
         rs[k + 1] = Redirected(rs[k], status, location), rs[k + 1].body # "blob"
  PROVE  Made(rs, k + 1) /\ Kept(rs, k + 1)
<1> DEFINE r0 == rs[k]
           r == rs[k + 1]
           n == k + 1
<1>1. /\ OneSpelling(r0.headers) /\ r0.body # "text" /\ r0.url \in URLs
      /\ r0.follow = rs[1].follow /\ rs[1].follow \in Nat /\ rs[1].url \in URLs
  BY DEF Made
<1>2. /\ r.url = location /\ r.follow = r0.follow /\ r.counter = r0.counter + 1
      /\ OneSpelling(r.headers) /\ r.body # "text"
      /\ r.method = IF ToGet(r0, status) THEN "GET" ELSE r0.method
      /\ r.body = IF ToGet(r0, status) THEN "none" ELSE r0.body
      /\ \A name \in credentials :
           get(r.headers, name) = IF Confined(r0, location) THEN get(r0.headers, name) ELSE <<>>
      /\ get(r.headers, "content-type") = get(r0.headers, "content-type")
      /\ get(r.headers, "content-length") =
           IF ToGet(r0, status) THEN <<>> ELSE get(r0.headers, "content-length")
  BY <1>1, RedirectedFacts
<1>3. Made(rs, n)
  BY <1>1, <1>2 DEF Made
<1>4. r0.counter = k - 1 /\ k <= 1 + rs[1].follow /\ BodyKept(rs[1], r0)
  BY DEF Kept
<1>5. n <= 1 + rs[1].follow /\ r.counter = n - 1
  BY <1>1, <1>2, <1>4
<1>6. BodyKept(rs[1], r)
  <2> HIDE DEF r0, r
  <2>1. r.body # "blob"
    BY DEF r
  <2>2. CASE ToGet(r0, status)
    BY <1>2, <1>4, <2>1, <2>2 DEF BodyKept
  <2>3. CASE ~ToGet(r0, status)
    BY <1>2, <1>4, <2>1, <2>3 DEF BodyKept
  <2> QED BY <2>2, <2>3
<1>7. ASSUME NEW name \in credentials
      PROVE  CredentialKept(rs, n, name)
  <2> DEFINE own == get(rs[1].headers, name)
             was == get(r0.headers, name)
             now == get(r.headers, name)
  <2>1. /\ was = own \/ (was = <<>> /\ \E j \in 1 .. k : rs[j].url # rs[1].url)
        /\ was # <<>> => \A j \in 1 .. k : Inside(rs[1].url, rs[j].url)
    BY DEF Kept, CredentialKept
  <2>2. now = IF Confined(r0, location) THEN was ELSE <<>>
    BY <1>2
  <2> HIDE DEF own, was, now
  <2>3. ASSUME Confined(r0, location), was # <<>>
        PROVE  \A j \in 1 .. n : Inside(rs[1].url, rs[j].url)
    <3>1. Inside(rs[1].url, r0.url)
      BY <2>1, <2>3
    <3>2. IsSuffix(r0.url.host, location.host) /\ location.protocol = r0.url.protocol
      BY <2>3 DEF Confined, isDomainOrSubdomain, isSameProtocol
    <3>3. Inside(rs[1].url, location)
      BY <1>1, <3>1, <3>2, SuffixOrder DEF Inside, URLs
    <3>4. \A j \in 1 .. n : j \in 1 .. k \/ j = n
      OBVIOUS
    <3> QED BY <1>2, <2>1, <2>3, <3>3, <3>4
  <2>4. ASSUME ~Confined(r0, location)
        PROVE  \E j \in 1 .. n : rs[j].url # rs[1].url
    <3>1. r0.url # location
      BY <1>1, <2>4, SuffixOrder DEF Confined, isDomainOrSubdomain, isSameProtocol, URLs
    <3>2. k \in 1 .. n /\ n \in 1 .. n /\ rs[n].url = location /\ rs[k].url = r0.url
      BY <1>2
    <3> HIDE DEF n, r0
    <3>3. rs[k].url # rs[1].url \/ rs[n].url # rs[1].url
      BY <3>1, <3>2
    <3> QED BY <3>2, <3>3
  <2>5. now = own \/ (now = <<>> /\ \E j \in 1 .. n : rs[j].url # rs[1].url)
    <3>1. \A j \in 1 .. k : j \in 1 .. n
      OBVIOUS
    <3> QED BY <2>1, <2>2, <2>4, <3>1
  <2>6. now # <<>> => \A j \in 1 .. n : Inside(rs[1].url, rs[j].url)
    BY <2>2, <2>3
  <2> QED BY <2>5, <2>6 DEF CredentialKept, own, now
<1> QED BY <1>3, <1>5, <1>6, <1>7 DEF Kept

LEMMA FollowStep ==
  ASSUME Chain, NEW k \in Ks, NEW status, NEW location \in Locations,
         Follow(k, status, location),
         ~IsRejected(requests[k], status, location), Follows(requests[k], status, location)
  PROVE  Chain'
<1> DEFINE r == Redirected(requests[k], status, location)
           promises == Settle(k, "locked")
           timers == Cleared(k)
           n == k + 1
<1>1. /\ k = Len(requests) /\ k \in 1 .. Len(requests) /\ native[k] = "answered"
      /\ \A j \in 1 .. Len(requests) : j < Len(requests) => native[j] = "over"
      /\ task' \in [of : Nat, next : {"none", "data", "end"}]
      /\ task'.of = k /\ task'.next = "data"
  BY AnsweringFacts DEF Follow
<1>2. /\ promises \in Seq(Promises) /\ Len(promises) = Len(requests)
      /\ \A j \in 1 .. Len(requests) : promise[j] = "rejected" => promises[j] = "rejected"
  BY <1>1, SettleFacts DEF Chain, Promises
<1>3. Starts(r, promises, timers)
  BY DEF Follow
<1> HIDE DEF promises, timers
<1>4. Len(requests) + 1 = n /\ k \in Nat \ {0}
  BY <1>1, ChainFacts
<1>5. /\ SomeSeq(requests') /\ Len(requests') = n
      /\ requests'[n] = r /\ \A j \in 1 .. k : requests'[j] = requests[j]
      /\ promise' \in Seq(Promises) /\ Len(promise') = n
      /\ \A j \in 1 .. k : promise[j] = "rejected" => promise'[j] = "rejected"
      /\ native' \in Seq(Natives) /\ Len(native') = n
      /\ \A j \in 1 .. k : native'[j] = native[j]
      /\ r.body = "blob" => promise'[n] = "rejected" /\ native'[n] = "unsent"
  <2> HIDE DEF r, n
  <2> DEFINE m == Len(requests) + 1
  <2>1. /\ SomeSeq(requests') /\ Len(requests') = m
        /\ requests'[m] = r /\ \A j \in 1 .. Len(requests) : requests'[j] = requests[j]
        /\ promise' \in Seq(Promises) /\ Len(promise') = m
        /\ \A j \in 1 .. Len(requests) : promise[j] = "rejected" => promise'[j] = "rejected"
        /\ native' \in Seq(Natives) /\ Len(native') = m
        /\ \A j \in 1 .. Len(requests) : native'[j] = native[j]
        /\ r.body = "blob" => promise'[m] = "rejected" /\ native'[m] = "unsent"
    BY <1>2, <1>3, StartsFacts
  <2> HIDE DEF m
  <2>2. m = n /\ Len(requests) = k
    BY <1>1, <1>4 DEF m
  <2> QED BY <2>1, <2>2
<1>6. \A j \in 1 .. n : j \in 1 .. k \/ j = n
  BY <1>4
<1>7. TaskOK'
  BY <1>1, <1>4, <1>5 DEF TaskOK
<1>8. InOrder'
  <2>1. \A j \in 1 .. n : j < n => native'[j] = "over" \/ j = k
    BY <1>1, <1>4, <1>5
  <2>2. task' # Idle
    BY <1>1 DEF Idle
  <2> QED BY <1>1, <1>5, <2>1, <2>2 DEF InOrder
<1>9. Shape'
  BY <1>5, <1>7 DEF Shape
<1>10. /\ \A j \in 1 .. k : Made(requests', j)
       /\ \A j \in 1 .. k : Kept(requests, j) => Kept(requests', j)
  <2>1. \A j \in 1 .. k : Made(requests, j)
    BY <1>1 DEF Chain, AllMade
  <2> QED BY <1>4, <1>5, <2>1, KeptExtends
<1>11. Kept(requests', k)
  BY <1>1, <1>10 DEF Chain, LiveKept, Live
<1>12. ASSUME r.body # "blob"
       PROVE  Made(requests', n) /\ Kept(requests', n)
  <2>1. requests'[k] = requests[k]
    BY <1>4, <1>5
  <2>2. requests'[k].counter < requests'[k].follow
    <3>1. /\ requests[k].follow \in Nat /\ requests[k].counter = k - 1
      BY <1>1, <1>10, <1>11, <2>1 DEF Made, Kept
    <3>2. ~(requests[k].counter >= requests[k].follow)
      BY DEF IsRejected, Follows
    <3> QED BY <1>4, <2>1, <3>1, <3>2
  <2>3. location \in URLs
    BY FetchAssumption
  <2>4. requests'[n] = Redirected(requests'[k], status, location)
    BY <1>5, <2>1
  <2> DEFINE rs == requests'
  <2>5. /\ k \in Nat \ {0} /\ \A j \in 1 .. k : Made(rs, j)
        /\ Kept(rs, k) /\ rs[k].counter < rs[k].follow
        /\ rs[k + 1] = Redirected(rs[k], status, location) /\ rs[k + 1].body # "blob"
    BY <1>4, <1>5, <1>10, <1>11, <1>12, <2>2, <2>4
  <2> HIDE DEF rs
  <2>6. Made(rs, k + 1) /\ Kept(rs, k + 1)
    BY <2>3, <2>5, RedirectionKept
  <2> QED BY <2>6 DEF rs
<1>13. Made(requests', n)
  <2>1. /\ OneSpelling(requests[k].headers) /\ requests[k].body # "text"
        /\ requests[k].follow = requests[1].follow /\ requests[1].follow \in Nat
    BY <1>1 DEF Chain, AllMade, Made
  <2>2. location \in URLs
    BY FetchAssumption
  <2>3. r.url = location /\ r.follow = requests[k].follow /\ OneSpelling(r.headers) /\ r.body # "text"
    BY <2>1, RedirectedFacts
  <2> HIDE DEF r
  <2>4. requests'[1] = requests[1]
    BY <1>4, <1>5
  <2> QED BY <1>5, <2>1, <2>2, <2>3, <2>4 DEF Made
<1> HIDE DEF r, n
<1>14. AllMade'
  BY <1>5, <1>6, <1>10, <1>13 DEF AllMade
<1>15. LiveKept'
  <2>1. ASSUME NEW j \in 1 .. k, promise'[j] # "rejected" \/ native'[j] # "unsent"
        PROVE  Kept(requests', j)
    <3>1. Live(j)
      BY <1>5, <2>1 DEF Live
    <3> QED BY <1>1, <1>10, <3>1 DEF Chain, LiveKept
  <2>2. ASSUME promise'[n] # "rejected" \/ native'[n] # "unsent"
        PROVE  Kept(requests', n)
    BY <1>5, <1>12, <2>2
  <2> QED BY <1>5, <1>6, <2>1, <2>2 DEF LiveKept, Live
<1> QED BY <1>8, <1>9, <1>14, <1>15 DEF Chain

LEMMA ChainInit ==
  ASSUME Init
  PROVE  Chain
<1>1. requests = <<>> /\ promise = <<>> /\ native = <<>> /\ task = Idle
  BY DEF Init
<1>2. requests \in Seq({}) /\ promise \in Seq(Promises) /\ native \in Seq(Natives)
      /\ Len(requests) = 0 /\ Len(promise) = 0 /\ Len(native) = 0
  BY <1>1
<1>3. TaskOK
  BY <1>1 DEF TaskOK, Idle
<1> QED BY <1>2, <1>3 DEF Chain, Shape, SomeSeq, InOrder, AllMade, LiveKept

LEMMA OnResponseStep ==
  ASSUME Chain, NEW k \in Ks, NEW status, NEW location \in Locations,
         OnResponse(k, status, location)
  PROVE  Chain'
<1>1. ASSUME IsRejected(requests[k], status, location)
      PROVE  Chain'
  <2>1. Reject(k)
    BY <1>1 DEF OnResponse
  <2>2. Answering(k) /\ promise' = Settle(k, "rejected") /\ UNCHANGED <<requests, native>>
    BY <2>1 DEF Reject
  <2> QED BY <2>2, AnswerStep DEF Promises
<1>2. ASSUME ~IsRejected(requests[k], status, location), Follows(requests[k], status, location)
      PROVE  Chain'
  <2>1. Follow(k, status, location)
    BY <1>2 DEF OnResponse
  <2> QED BY <1>2, <2>1, FollowStep
<1>3. ASSUME ~IsRejected(requests[k], status, location), ~Follows(requests[k], status, location)
      PROVE  Chain'
  <2>1. Respond(k)
    BY <1>3 DEF OnResponse
  <2>2. Answering(k) /\ promise' = Settle(k, "resolved") /\ UNCHANGED <<requests, native>>
    BY <2>1 DEF Respond
  <2> QED BY <2>2, AnswerStep DEF Promises
<1> QED BY <1>1, <1>2, <1>3

(* Timers and bodies alone. *)
LEMMA ElsewhereStep ==
  ASSUME Chain, UNCHANGED <<requests, promise, native, task>>
  PROVE  Chain'
<1>1. /\ promise \in Seq(Promises) /\ Len(promise) = Len(requests)
      /\ native \in Seq(Natives) /\ Len(native) = Len(requests) /\ TaskOK
  BY ChainFacts
<1>2. TaskOK'
  BY <1>1 DEF TaskOK, Idle
<1>3. InOrder'
  BY DEF Chain, InOrder, Idle
<1> QED BY <1>1, <1>2, <1>3, QuietStep

LEMMA ChainStep ==
  ASSUME Chain, [Next]_vars
  PROVE  Chain'
<1>1. ASSUME NEW c \in Calls, Call(c)
      PROVE  Chain'
  BY <1>1, CallStep
<1>2. ASSUME NEW k \in Ks, StartTimeout(k)
      PROVE  Chain'
  BY <1>2, ElsewhereStep DEF StartTimeout
<1>3. ASSUME NEW k \in Ks, Timeout(k)
      PROVE  Chain'
  BY <1>3, TimeoutStep
<1>4. ASSUME NEW k \in Ks, Download(k)
      PROVE  Chain'
  BY <1>4, DownloadStep
<1>5. ASSUME NEW k \in Ks, Fails(k)
      PROVE  Chain'
  BY <1>5, FailsStep
<1>6. ASSUME NEW k \in Ks, NEW status \in Statuses, NEW location \in Locations,
             OnResponse(k, status, location)
      PROVE  Chain'
  BY <1>6, OnResponseStep
<1>7. CASE OnData
  BY <1>7, OnDataStep
<1>8. CASE OnEnd
  BY <1>8, OnEndStep
<1>9. ASSUME NEW i \in DOMAIN bodies, consumeBody(i) \/ BodyTimeout(i) \/ Clone(i)
      PROVE  Chain'
  <2>1. UNCHANGED <<requests, promise, native, task>>
    BY <1>9 DEF consumeBody, BodyTimeout, Clone
  <2> QED BY <2>1, ElsewhereStep
<1>10. CASE UNCHANGED vars
  BY <1>10, ElsewhereStep DEF vars
<1> QED BY <1>1, <1>2, <1>3, <1>4, <1>5, <1>6, <1>7, <1>8, <1>9, <1>10 DEF Next

(* What is kept of a request is seen in what is sent for it. *)
LEMMA ChainContained ==
  ASSUME Chain
  PROVE  RedirectsContained
<1> SUFFICES ASSUME NEW k \in Ks, Live(k)
             PROVE  LET r == requests[k] IN
                    /\ k <= 1 + First.follow /\ r.counter = k - 1
                    /\ \A name \in credentials :
                         LET sent == get(Sent(k), name)
                             own == get(First.headers, name)
                         IN  /\ sent = own \/ (sent = <<>> /\ \E j \in 1..k : requests[j].url # First.url)
                             /\ sent # <<>> => \A j \in 1..k : InsideFirst(requests[j].url)
                    /\ r.method \in {"GET", "HEAD"} => r.body = "none"
                    /\ r.body # "none" => r.body = First.body /\ r.method = First.method
                    /\ First.body # "none" =>
                         get(Sent(k), "content-length") =
                           CASE r.body = "none" -> IF r.method \in {"POST", "PUT"} THEN <<"0">> ELSE <<>>
                             [] r.body = "bytes" -> <<"n">>
                             [] OTHER -> get(First.headers, "content-length")
                    /\ get(Sent(k), "content-type") = get(First.headers, "content-type")
  BY DEF RedirectsContained, Live
<1> DEFINE r == requests[k]
           length == ContentLength(r)
<1>1. k \in 1 .. Len(requests)
  BY ChainFacts
<1>2. Kept(requests, k) /\ OneSpelling(r.headers)
  BY <1>1 DEF Chain, LiveKept, AllMade, Made
<1>3. \A name : ~OwnName(name) =>
        get(Sent(k), name) =
          IF length # "null" /\ Same(name, "Content-Length") THEN <<length>> ELSE get(r.headers, name)
  <2>1. Sent(k) = SentHeaders(r)
    BY DEF Sent, SentHeaders
  <2> HIDE DEF r
  <2> QED BY <1>2, <2>1, SentFacts
<1>4. BodyKept(First, r) /\ k <= 1 + First.follow /\ r.counter = k - 1
  BY <1>2 DEF Kept, First
<1> HIDE DEF length
<1>5. ASSUME NEW name \in credentials
      PROVE  LET sent == get(Sent(k), name)
                 own == get(First.headers, name)
             IN  /\ sent = own \/ (sent = <<>> /\ \E j \in 1..k : requests[j].url # First.url)
                 /\ sent # <<>> => \A j \in 1..k : InsideFirst(requests[j].url)
  <2>1. get(Sent(k), name) = get(r.headers, name)
    BY <1>3, NamesApart DEF OwnName
  <2>2. CredentialKept(requests, k, name)
    BY <1>2 DEF Kept
  <2> QED BY <2>1, <2>2 DEF CredentialKept, Inside, InsideFirst, First
<1>6. get(Sent(k), "content-type") = get(First.headers, "content-type")
  <2>1. get(Sent(k), "content-type") = get(r.headers, "content-type")
    BY <1>3, NamesApart DEF OwnName
  <2> QED BY <1>4, <2>1 DEF BodyKept
<1>7. get(Sent(k), "content-length") =
        IF length # "null" THEN <<length>> ELSE get(r.headers, "content-length")
  BY <1>3, NamesApart DEF OwnName
<1>8. ASSUME First.body # "none"
      PROVE  get(Sent(k), "content-length") =
               CASE r.body = "none" -> IF r.method \in {"POST", "PUT"} THEN <<"0">> ELSE <<>>
                 [] r.body = "bytes" -> <<"n">>
                 [] OTHER -> get(First.headers, "content-length")
  <2>1. CASE r.body = "none"
    <3>1. r.method = "GET" /\ get(r.headers, "content-length") = <<>>
      BY <1>4, <1>8, <2>1 DEF BodyKept
    <3>2. length = "null"
      BY <2>1, <3>1 DEF length, ContentLength
    <3> QED BY <1>7, <2>1, <3>1, <3>2
  <2>2. CASE r.body = "bytes"
    <3>1. length = "n"
      BY <2>2 DEF length, ContentLength, getTotalBytes
    <3> QED BY <1>7, <2>2, <3>1
  <2>3. CASE r.body # "none" /\ r.body # "bytes"
    <3>1. get(r.headers, "content-length") = get(First.headers, "content-length") /\ r.body # "blob"
      BY <1>4, <2>3 DEF BodyKept
    <3>2. length = "null"
      BY <2>3, <3>1 DEF length, ContentLength, getTotalBytes
    <3> QED BY <1>7, <2>3, <3>1, <3>2
  <2> QED BY <2>1, <2>2, <2>3
<1>9. /\ r.method \in {"GET", "HEAD"} => r.body = "none"
      /\ r.body # "none" => r.body = First.body /\ r.method = First.method
  BY <1>4 DEF BodyKept
<1> QED BY <1>4, <1>5, <1>6, <1>8, <1>9

(* However long the chain of redirections, whatever the headers, hosts and  *)
(* the spelling of names: it stops at follow, credentials stay with the     *)
(* first server and those below it over its protocol, and a body goes with  *)
(* its length or not at all (fetch, where its response handler follows).    *)
THEOREM RedirectionsContained == Spec => []RedirectsContained
<1>1. Init => Chain
  BY ChainInit
<1>2. Chain /\ [Next]_vars => Chain'
  BY ChainStep
<1>3. Chain => RedirectsContained
  BY ChainContained
<1> QED BY <1>1, <1>2, <1>3, PTL DEF Spec
=============================================================================
