-------------------------------- MODULE Fetch ---------------------------------
(* fetch (node-fetch.js) over the native request: redirections, timeouts    *)
(* and the bodies of responses.  The main loop runs one task or timer at a  *)
(* time; a task of an answer emits response, data and end, and promises'    *)
(* callbacks run between these.                                             *)
EXTENDS Headers

CONSTANTS
  Calls,     \* what a script may pass to fetch
  Statuses,  \* the statuses of answers
  Locations, \* the Location headers of answers: URLs, NoLocation, InvalidLocation
  MaxBodies  \* bound: the Response objects of one response

URLs == [protocol : STRING, host : Seq(STRING)]

(* What the code takes for granted of a Headers object is that it was made  *)
(* by its methods: they never store a name under two spellings.             *)
OneSpelling(map) ==
  \A m, n \in DOMAIN map : toLowerCase(m) = toLowerCase(n) => m = n

ASSUME FetchAssumption ==
  /\ Locations \subseteq URLs
  /\ \A c \in Calls : c.url \in URLs /\ c.follow \in Nat /\ OneSpelling(c.headers)

VARIABLES
  once,     \* whether the native request has a method once (external)
  requests, \* the requests made: the script's, then those of redirections
  promise,  \* the promise of each: pending, rejected, resolved, locked in to the next
  native,   \* the native request of each: unsent, open, answered, over
  timer,    \* its timeout: none, starting, set, over
  task,     \* the answer the main loop is in the middle of, and its next event
  bodies    \* the Response objects of the last response

vars == <<once, requests, promise, native, timer, task, bodies>>

Idle == [of |-> 0, next |-> "none"]
NoLocation == [protocol |-> "none", host |-> <<>>]
InvalidLocation == [protocol |-> "invalid", host |-> <<>>]
credentials == {"authorization", "www-authenticate", "cookie", "cookie2"}

(* ------------------------------- requests ------------------------------- *)
(* The body as Body and extractContentType take it: a text becomes bytes.   *)
BodyOf(body) == IF body = "text" THEN "bytes" ELSE body
WithType(headers, body) ==
  IF body # "text" \/ has(headers, "Content-Type") THEN headers
  ELSE append(headers, "Content-Type", "text/plain")

(* Defect: the request of a redirection goes out without the timeout.       *)
RequestTimedOnce(c, counter) ==
  [url |-> c.url, method |-> c.method, body |-> BodyOf(c.body), headers |-> WithType(Copy(c.headers), c.body),
   redirect |-> c.redirect, follow |-> c.follow, timeout |-> c.timeout /\ counter = 0, size |-> c.size,
   signal |-> c.signal, counter |-> counter]
Request(c, counter) ==
  [url |-> c.url, method |-> c.method, body |-> BodyOf(c.body), headers |-> WithType(Copy(c.headers), c.body),
   redirect |-> c.redirect, follow |-> c.follow, timeout |-> c.timeout, size |-> c.size, signal |-> c.signal,
   counter |-> counter]

InvalidRequest(c) == c.body # "none" /\ c.method \in {"GET", "HEAD"}

(* A request with a signal is refused as well: Stream.Readable is undefined,*)
(* and instanceof throws.                                                   *)
Refused(r) == r.url.protocol \notin {"http:", "https:"} \/ r.signal

getTotalBytes(r) == IF r.body \in {"bytes", "blob"} THEN "n" ELSE IF r.body = "none" THEN "0" ELSE "null"

SetOnce(headers, name, value) == IF has(headers, name) THEN headers ELSE set(headers, name, value)
ContentLength(r) ==
  IF r.body = "none" THEN IF r.method \in {"POST", "PUT"} THEN "0" ELSE "null" ELSE getTotalBytes(r)
getNodeRequestOptions(r) ==
  LET h == SetOnce(SetOnce(Copy(r.headers), "Accept", "*/*"), "User-Agent", "node-fetch")
  IN  IF ContentLength(r) = "null" THEN h ELSE set(h, "Content-Length", ContentLength(r))

(* A blob's stream() throws, after the native request has been made.        *)
Starts(r, promises, timers) ==
  /\ requests' = Append(requests, r)
  /\ promise' = Append(promises, IF Refused(r) \/ r.body = "blob" THEN "rejected" ELSE "pending")
  /\ native' = Append(native, IF Refused(r) \/ r.body = "blob" THEN "unsent" ELSE "open")
  /\ timer' = Append(timers, IF Refused(r) \/ ~r.timeout THEN "none" ELSE IF once THEN "starting" ELSE "set")

Init ==
  /\ once \in BOOLEAN
  /\ requests = <<>> /\ promise = <<>> /\ native = <<>> /\ timer = <<>>
  /\ task = Idle /\ bodies = <<>>

Call(c) ==
  /\ requests = <<>>
  /\ IF InvalidRequest(c)
     THEN /\ requests' = <<Request(c, 0)>> /\ promise' = <<"rejected">>
          /\ native' = <<"unsent">> /\ timer' = <<"none">>
     ELSE Starts(Request(c, 0), promise, timer)
  /\ UNCHANGED <<once, task, bodies>>

Ks == DOMAIN requests
Settle(k, as) == IF promise[k] = "pending" THEN [promise EXCEPT ![k] = as] ELSE promise

(* -------------------------------- timeouts ------------------------------ *)
(* The fallback for a socket event that never comes.                        *)
StartTimeout(k) ==
  /\ task = Idle /\ timer[k] = "starting"
  /\ timer' = [timer EXCEPT ![k] = "set"]
  /\ UNCHANGED <<once, requests, promise, native, task, bodies>>

(* finalize aborts the native request; an answer that is queued still comes.*)
Aborted(k) == [native EXCEPT ![k] = IF @ = "open" THEN "aborted" ELSE @]
Timeout(k) ==
  /\ task = Idle /\ timer[k] = "set"
  /\ timer' = [timer EXCEPT ![k] = "over"]
  /\ promise' = Settle(k, "rejected")
  /\ native' = Aborted(k)
  /\ UNCHANGED <<once, requests, task, bodies>>

(* -------------------------------- answers ------------------------------- *)
(* The download thread is done and has queued its task.  Whether an aborted *)
(* request gets so far is left open.                                        *)
Download(k) ==
  /\ native[k] \in {"open", "aborted"}
  /\ native' = [native EXCEPT ![k] = "answered"]
  /\ UNCHANGED <<once, requests, promise, timer, task, bodies>>

Ends(k) == [native EXCEPT ![k] = "over"]

(* clearTimeout: of what is set by then.                                    *)
Cleared(k) == [timer EXCEPT ![k] = IF @ = "set" THEN "over" ELSE @]

Fails(k) ==
  /\ task = Idle /\ native[k] = "answered"
  /\ promise' = Settle(k, "rejected") /\ native' = Ends(k) /\ timer' = Cleared(k)
  /\ UNCHANGED <<once, requests, task, bodies>>

(* The events after the response of k: data, then end.                      *)
Answering(k) == task = Idle /\ native[k] = "answered" /\ task' = [of |-> k, next |-> "data"]

Respond(k) ==
  /\ Answering(k)
  /\ promise' = Settle(k, "resolved") /\ timer' = Cleared(k)
  /\ bodies' = <<[used |-> FALSE, timeout |-> requests[k].timeout, size |-> requests[k].size, read |-> "none",
                  heard |-> FALSE, timer |-> "none"]>>
  /\ UNCHANGED <<once, requests, native>>

isRedirect(status) == status \in {301, 302, 303, 307, 308}
Follows(r, status, location) ==
  isRedirect(status) /\ r.redirect = "follow" /\ location \notin {NoLocation, InvalidLocation}

IsRejected(r, status, location) ==
  /\ isRedirect(status)
  /\ \/ location = InvalidLocation /\ r.redirect # "manual"
     \/ r.redirect = "error"
     \/ Follows(r, status, location) /\ (r.counter >= r.follow \/ (status # 303 /\ getTotalBytes(r) = "null"))

Reject(k) ==
  /\ Answering(k)
  /\ promise' = Settle(k, "rejected") /\ timer' = Cleared(k)
  /\ UNCHANGED <<once, requests, native, bodies>>

(* Host names by their labels: the new one is the old one or below it.      *)
isDomainOrSubdomain(destination, original) == IsSuffix(destination.host, original.host)
isSameProtocol(destination, original) == destination.protocol = original.protocol

Undisclosed(headers) ==
  delete(delete(delete(delete(headers, "authorization"), "www-authenticate"), "cookie"), "cookie2")
ToGet(r, status) == status = 303 \/ (status \in {301, 302} /\ r.method = "POST")

Redirected(r, status, location) ==
  LET kept == Copy(r.headers)
      safe == IF isDomainOrSubdomain(r.url, location) /\ isSameProtocol(r.url, location)
              THEN kept ELSE Undisclosed(kept)
      call == [url |-> location, redirect |-> "follow", follow |-> r.follow, timeout |-> r.timeout,
               size |-> r.size, signal |-> r.signal, method |-> IF ToGet(r, status) THEN "GET" ELSE r.method,
               body |-> IF ToGet(r, status) THEN "none" ELSE r.body,
               headers |-> IF ToGet(r, status) THEN delete(safe, "content-length") ELSE safe]
  IN  Request(call, r.counter + 1)

(* The new request is made even for a promise that the timeout rejected.    *)
Follow(k, status, location) ==
  /\ Answering(k)
  /\ Starts(Redirected(requests[k], status, location), Settle(k, "locked"), Cleared(k))
  /\ UNCHANGED <<once, bodies>>

OnResponse(k, status, location) ==
  IF IsRejected(requests[k], status, location) THEN Reject(k)
  ELSE IF Follows(requests[k], status, location) THEN Follow(k, status, location)
  ELSE Respond(k)

(* -------------------------------- bodies -------------------------------- *)
OnData ==
  /\ task.next = "data"
  /\ task' = [task EXCEPT !.next = "end"]
  /\ bodies' = [i \in DOMAIN bodies |->
       IF bodies[i].read # "pending" THEN bodies[i]
       ELSE IF bodies[i].size THEN [bodies[i] EXCEPT !.read = "rejected"]
       ELSE [bodies[i] EXCEPT !.heard = TRUE]]
  /\ UNCHANGED <<once, requests, promise, native, timer>>

OnEnd ==
  /\ task.next = "end"
  /\ task' = Idle /\ native' = Ends(task.of)
  /\ bodies' = [i \in DOMAIN bodies |->
       IF bodies[i].read # "pending" THEN bodies[i]
       ELSE [bodies[i] EXCEPT !.read = IF bodies[i].heard THEN "whole" ELSE "empty", !.timer = "over"]]
  /\ UNCHANGED <<once, requests, promise, timer>>

(* What the script's promise has come to.                                   *)
Outcome ==
  IF promise = <<>> THEN "pending" ELSE promise[Min({k \in DOMAIN promise : promise[k] # "locked"})]

(* A callback of the promise runs before the data; a later one when the     *)
(* main loop runs something else.                                           *)
ScriptRuns == Outcome = "resolved" /\ (task = Idle \/ task.next = "data")

(* text(), json() and the others: the stream is listened to from here on.   *)
consumeBody(i) ==
  /\ ScriptRuns /\ ~bodies[i].used
  /\ bodies' = [bodies EXCEPT ![i].used = TRUE, ![i].read = "pending",
                              ![i].timer = IF bodies[i].timeout THEN "set" ELSE "none"]
  /\ UNCHANGED <<once, requests, promise, native, timer, task>>

BodyTimeout(i) ==
  /\ task = Idle /\ bodies[i].timer = "set"
  /\ bodies' = [bodies EXCEPT ![i].timer = "over", ![i].read = "rejected"]
  /\ UNCHANGED <<once, requests, promise, native, timer, task>>

(* The stream is shared, since the native one is no Stream; timeout and     *)
(* size are not handed on.                                                  *)
Clone(i) ==
  /\ ScriptRuns /\ ~bodies[i].used /\ Len(bodies) < MaxBodies
  /\ bodies' = Append(bodies, [bodies[i] EXCEPT !.timeout = FALSE, !.size = FALSE])
  /\ UNCHANGED <<once, requests, promise, native, timer, task>>

Next ==
  \/ \E c \in Calls : Call(c)
  \/ \E k \in Ks :
       \/ StartTimeout(k) \/ Timeout(k) \/ Download(k) \/ Fails(k)
       \/ \E status \in Statuses, location \in Locations : OnResponse(k, status, location)
  \/ OnData \/ OnEnd
  \/ \E i \in DOMAIN bodies : consumeBody(i) \/ BodyTimeout(i) \/ Clone(i)

(* The main loop runs what is due.  The network answers in the end, except  *)
(* to a call that brought a timeout along.                                  *)
MaxRequests == 1 + Max({c.follow : c \in Calls})
Fairness ==
  /\ WF_vars(OnData) /\ WF_vars(OnEnd)
  /\ \A k \in 1..MaxRequests :
       /\ WF_vars(k \in Ks /\ StartTimeout(k)) /\ WF_vars(k \in Ks /\ Timeout(k))
       /\ WF_vars(k \in Ks /\ ~requests[1].timeout /\ Download(k))
       /\ WF_vars(k \in Ks /\ (Fails(k) \/ \E status \in Statuses, location \in Locations :
                                             OnResponse(k, status, location)))
  /\ \A i \in 1..MaxBodies : WF_vars(i \in DOMAIN bodies /\ BodyTimeout(i))

Spec == Init /\ [][Next]_vars /\ Fairness

(* ------------------------------ properties ------------------------------ *)
First == requests[1]
Sent(k) == getNodeRequestOptions(requests[k])
InsideFirst(url) == url.protocol = First.url.protocol /\ IsSuffix(First.url.host, url.host)

(* However a chain of redirections goes: it is no longer than follow says;  *)
(* credentials, in whatever spelling, reach a server only when it and all   *)
(* on the way to it are the first one or below it, over its protocol; a     *)
(* body is the first one's and goes with its length, a request that lost it *)
(* announces none, and what is left of the headers is unchanged.            *)
RedirectsContained ==
  \A k \in Ks : promise[k] # "rejected" \/ native[k] # "unsent" =>
    LET r == requests[k] IN
    /\ k <= 1 + First.follow /\ r.counter = k - 1
    /\ \A name \in credentials :
         LET sent == get(Sent(k), name)
             own == get(First.headers, name)
         IN  /\ sent = own \/ (sent = <<>> /\ \E j \in 1..k : requests[j].url # First.url)
             /\ sent # <<>> => \A j \in 1..k : InsideFirst(requests[j].url)
    /\ r.method \in {"GET", "HEAD"} => r.body = "none"
    /\ r.body # "none" => r.body = First.body /\ r.method = First.method
    /\ First.body # "none" =>
         get(Sent(k), "content-length") =
           CASE r.body = "none" -> IF r.method \in {"POST", "PUT"} THEN <<"0">> ELSE <<>>
             [] r.body = "bytes" -> <<"n">>
             [] OTHER -> get(First.headers, "content-length")
    /\ get(Sent(k), "content-type") = get(First.headers, "content-type")

(* A fetch is answered, or rejected by its timeout when the network never   *)
(* answers, at whatever hop; and a body that is read from a callback of the *)
(* response, or under a timeout, is read or refused.                        *)
Settled(state) == state \in {"resolved", "rejected"}
FetchEnds ==
  /\ requests # <<>> ~> Settled(Outcome)
  /\ \A i \in 1..MaxBodies :
       (i \in DOMAIN bodies /\ bodies[i].read = "pending" /\ (bodies[i].timer = "set" \/ task.next = "data"))
         ~> (i \in DOMAIN bodies /\ bodies[i].read \in {"whole", "rejected"})
=============================================================================
