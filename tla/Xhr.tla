---------------------------------- MODULE Xhr ----------------------------------
(***************************************************************************)
(* One XMLHttpRequest object of utils/xhr.js, the requests it makes of the  *)
(* transport and the tasks in which their answers reach it.                 *)
(*                                                                         *)
(* Everything runs on the main thread.  dispatchEvent calls the script's    *)
(* listeners in the middle of open, send, abort, the response handler and   *)
(* the timeout, and a listener may call any method again: what is left to   *)
(* do of the interrupted calls is the stack todo.  A download thread queues *)
(* an answer for the main loop, where it stays queued whatever the script   *)
(* does to the request in the meantime.                                     *)
(*                                                                         *)
(* Requests are asynchronous (a synchronous send does nothing).  Headers,   *)
(* status and body are left out.                                            *)
(***************************************************************************)
EXTENDS Naturals, Sequences

CONSTANTS
  MaxRedirects, \* maxRedirects, 10 in the code
  MaxConns,     \* bound: requests made of the transport
  MaxCalls      \* bound: calls of open, send and abort

ASSUME XhrAssumption ==
  MaxRedirects \in Nat /\ MaxConns \in Nat \ {0} /\ MaxCalls \in Nat

VARIABLES
  xhr,     \* the object: its readyState and the variables of its closure
  timers,  \* request timeouts installed and neither fired nor cleared
  conns,   \* requests made of the transport, in order
  pending, \* gPendingFun: answers queued for the main loop
  todo,    \* what is left to do of the calls under way, the innermost first
  events,  \* history: the events since open, readystatechange apart
  calls,   \* calls the script has made
  nested   \* history: has a listener made one of them

vars == <<xhr, timers, conns, pending, todo, events, calls, nested>>
called == <<calls, nested>>
-----------------------------------------------------------------------------
UNSENT == 0
OPENED == 1
HEADERS_RECEIVED == 2
LOADING == 3
DONE == 4

ConnId == 1 .. MaxConns
Answers == {"response", "redirect", "error", "abort"}
Events == {"loadstart", "load", "loadend", "error", "timeout", "abort"}

(* A connection is "new" until send asks the transport for it, then "open", and
   "over" once it is answered, or "lost" if the answer was an abort that nothing
   listens for.  aborted is history: the script has called abort or open, or the
   request has timed out, since its send. *)
Conn == [phase : {"new", "open", "over", "lost"}, hop : Nat, aborted : BOOLEAN]

Steps == Answers \cup {"emit", "listener", "setState", "status", "data", "end", "ended",
                       "create", "aborted"}

Step(step, conn) == [step |-> step, conn |-> conn, event |-> ""]
Emit(event) == [step |-> "emit", conn |-> 0, event |-> event]

AtStep(step, conn) == todo # <<>> /\ Head(todo) = Step(step, conn)
Doing(step) == todo # <<>> /\ Head(todo).step = step

(* What comes next is steps, then the rest of the calls under way. *)
Then(steps) == todo' = steps \o Tail(todo)
Calling(steps) == todo' = steps \o todo

(* The script runs in tasks of its own and in listeners. *)
ScriptRuns ==
  /\ calls < MaxCalls
  /\ todo = <<>> \/ Doing("listener")

Called ==
  /\ calls' = calls + 1
  /\ nested' = (nested \/ todo # <<>>)

Init ==
  /\ xhr = [readyState |-> UNSENT, sendFlag |-> FALSE, errorFlag |-> FALSE,
            didTimeout |-> FALSE, request |-> 0, response |-> 0, timer |-> 0]
  /\ timers = {}
  /\ conns = <<>>
  /\ pending = <<>>
  /\ todo = <<>>
  /\ events = <<>>
  /\ calls = 0
  /\ nested = FALSE
-----------------------------------------------------------------------------
(* dispatchEvent and setState *)

DispatchEvent ==
  /\ Doing("emit")
  /\ Then(<<[Head(todo) EXCEPT !.step = "listener"]>>)
  /\ events' = IF Head(todo).event \in Events THEN Append(events, Head(todo).event)
               ELSE events
  /\ UNCHANGED <<xhr, timers, conns, pending, called>>

ListenerReturns ==
  /\ Doing("listener")
  /\ Then(<<>>)
  /\ UNCHANGED <<xhr, timers, conns, pending, events, called>>

(* The steps of setState(state) called on x. *)
SetState(x, state) ==
  IF state = LOADING \/ x.readyState # state
  THEN <<Emit("readystatechange"), Step("setState", 0)>>
  ELSE <<>>

(* The end of setState, after the listeners of readystatechange. *)
SetStateDone ==
  /\ Doing("setState")
  /\ Then(IF xhr.readyState = DONE /\ ~xhr.errorFlag
          THEN <<Emit("load"), Emit("loadend")>> ELSE <<>>)
  /\ UNCHANGED <<xhr, timers, conns, pending, events, called>>

(* Defect: a failed request never ends for the script. *)
HandleErrorNoLoadend(x) == SetState(x, DONE) \o <<Emit("error")>>

(* handleError clears the timeout and leaves sendFlag as it is. *)
Failed(x) == [x EXCEPT !.readyState = DONE, !.errorFlag = TRUE, !.timer = 0]
HandleError(x) == SetState(x, DONE) \o <<Emit("error"), Emit("loadend")>>
-----------------------------------------------------------------------------
(* open, send and abort *)

Abandoned == [c \in DOMAIN conns |-> [conns[c] EXCEPT !.aborted = TRUE]]

(* A method that is not allowed leaves the object reset, as UNSENT. *)
Open(allowed) ==
  /\ ScriptRuns
  /\ Called
  /\ LET reset == [xhr EXCEPT !.readyState = UNSENT, !.sendFlag = FALSE,
                     !.errorFlag = FALSE, !.didTimeout = FALSE, !.request = 0,
                     !.response = 0, !.timer = 0]
     IN IF allowed
        THEN /\ xhr' = [reset EXCEPT !.readyState = OPENED]
             /\ Calling(SetState(reset, OPENED))
        ELSE xhr' = reset /\ UNCHANGED todo
  /\ timers' = timers \ {xhr.timer}
  /\ conns' = Abandoned
  /\ events' = <<>>
  /\ UNCHANGED pending

CanSend ==
  /\ ScriptRuns
  /\ xhr.readyState = OPENED
  /\ ~xhr.sendFlag

SendBadUrl ==
  /\ CanSend
  /\ Called
  /\ xhr' = Failed(xhr)
  /\ timers' = timers \ {xhr.timer}
  /\ Calling(HandleError(xhr))
  /\ UNCHANGED <<conns, pending, events>>

Send ==
  /\ CanSend
  /\ Len(conns) < MaxConns
  /\ Called
  /\ xhr' = [xhr EXCEPT !.errorFlag = FALSE, !.sendFlag = TRUE]
  /\ conns' = Append(conns, [phase |-> "new", hop |-> 0, aborted |-> FALSE])
  /\ Calling(<<Emit("readystatechange"), Step("create", Len(conns) + 1)>>)
  /\ UNCHANGED <<timers, pending, events>>

(* transport.request throws. *)
CreateFails(c) ==
  /\ AtStep("create", c)
  /\ xhr' = Failed(xhr)
  /\ timers' = timers \ {xhr.timer}
  /\ conns' = [conns EXCEPT ![c].phase = "over"]
  /\ Then(HandleError(xhr))
  /\ UNCHANGED <<pending, events, called>>

(* The rest of send, with the listeners of readystatechange behind it: it looks
   at nothing they may have changed.  A timer is named by its connection. *)
Create(c, timeout) ==
  /\ AtStep("create", c)
  /\ xhr' = [xhr EXCEPT !.request = c, !.timer = IF timeout THEN c ELSE @]
  /\ timers' = IF timeout THEN timers \cup {c} ELSE timers
  /\ conns' = [conns EXCEPT ![c].phase = "open"]
  /\ Then(<<Emit("loadstart")>>)
  /\ UNCHANGED <<pending, events, called>>

(* Defect: the timeout is forgotten, not cleared. *)
AbortKeepTimer ==
  /\ ScriptRuns
  /\ Called
  /\ LET active == xhr.request # 0 \/ xhr.sendFlag \/ xhr.readyState \notin {UNSENT, DONE}
         emits == \/ xhr.readyState \in {HEADERS_RECEIVED, LOADING}
                  \/ xhr.readyState = OPENED /\ xhr.sendFlag
     IN /\ xhr' = [xhr EXCEPT !.request = 0, !.timer = 0, !.didTimeout = FALSE,
                     !.errorFlag = TRUE,
                     !.sendFlag = IF emits THEN FALSE ELSE @,
                     !.readyState = IF emits THEN DONE ELSE @]
        /\ Calling((IF emits THEN SetState(xhr, DONE) ELSE <<>>)
                   \o <<Step("aborted", IF active THEN 1 ELSE 0)>>)
  /\ conns' = Abandoned
  /\ UNCHANGED <<timers, pending, events>>

(* DONE is shown to listeners of a request that was under way only. *)
Abort ==
  /\ ScriptRuns
  /\ Called
  /\ LET active == xhr.request # 0 \/ xhr.sendFlag \/ xhr.readyState \notin {UNSENT, DONE}
         emits == \/ xhr.readyState \in {HEADERS_RECEIVED, LOADING}
                  \/ xhr.readyState = OPENED /\ xhr.sendFlag
     IN /\ xhr' = [xhr EXCEPT !.request = 0, !.timer = 0, !.didTimeout = FALSE,
                     !.errorFlag = TRUE,
                     !.sendFlag = IF emits THEN FALSE ELSE @,
                     !.readyState = IF emits THEN DONE ELSE @]
        /\ Calling((IF emits THEN SetState(xhr, DONE) ELSE <<>>)
                   \o <<Step("aborted", IF active THEN 1 ELSE 0)>>)
  /\ timers' = timers \ {xhr.timer}
  /\ conns' = Abandoned
  /\ UNCHANGED <<pending, events>>

(* The end of abort; conn is 1 if there was something to abort. *)
AbortDone ==
  /\ Doing("aborted")
  /\ xhr' = [xhr EXCEPT !.readyState = UNSENT]
  /\ Then(IF Head(todo).conn = 1 THEN <<Emit("abort")>> ELSE <<>>)
  /\ UNCHANGED <<timers, conns, pending, events, called>>
-----------------------------------------------------------------------------
(* The transport (pxCore) and the main loop *)

(* A download thread is done with c, aborted or not. *)
Answer(c) ==
  /\ c \in DOMAIN conns /\ conns[c].phase = "open"
  /\ \E kind \in Answers :
       /\ kind = "redirect" => Len(conns) < MaxConns
       /\ pending' = Append(pending, Step(kind, c))
  /\ conns' = [conns EXCEPT ![c].phase = "over"]
  /\ UNCHANGED <<xhr, timers, todo, events, called>>

(* dispatchPending runs the next task: the answer, its data and its end. *)
Deliver ==
  /\ todo = <<>>
  /\ pending # <<>>
  /\ todo' = <<Head(pending)>>
  /\ pending' = Tail(pending)
  /\ UNCHANGED <<xhr, timers, conns, events, called>>

(* responseHandler, for what is not a redirection. *)
Response(c) ==
  /\ AtStep("response", c)
  /\ xhr' = [xhr EXCEPT !.timer = 0, !.response = c, !.readyState = HEADERS_RECEIVED]
  /\ timers' = timers \ {xhr.timer}
  /\ Then(SetState(xhr, HEADERS_RECEIVED) \o <<Step("status", c)>>)
  /\ UNCHANGED <<conns, pending, events, called>>

(* The rest of it reads response, which a listener may have reset: then it
   throws, before anyone listens to the data and the end. *)
Status(c) ==
  /\ AtStep("status", c)
  /\ Then(IF xhr.response = 0 THEN <<>> ELSE <<Step("data", c), Step("end", c)>>)
  /\ UNCHANGED <<xhr, timers, conns, pending, events, called>>

Data(c) ==
  /\ AtStep("data", c)
  /\ xhr' = IF xhr.sendFlag THEN [xhr EXCEPT !.readyState = LOADING] ELSE xhr
  /\ Then(IF xhr.sendFlag THEN SetState(xhr, LOADING) ELSE <<>>)
  /\ UNCHANGED <<timers, conns, pending, events, called>>

(* Defect: the end of an aborted connection is not discarded. *)
EndAnyway(c) ==
  /\ AtStep("end", c)
  /\ xhr' = [xhr EXCEPT !.timer = 0, !.readyState = DONE]
  /\ Then(SetState(xhr, DONE) \o <<Step("ended", c)>>)
  /\ timers' = timers \ {xhr.timer}
  /\ UNCHANGED <<conns, pending, events, called>>

End(c) ==
  /\ AtStep("end", c)
  /\ xhr' = [xhr EXCEPT !.timer = 0, !.readyState = IF xhr.sendFlag THEN DONE ELSE @]
  /\ Then(IF xhr.sendFlag THEN SetState(xhr, DONE) \o <<Step("ended", c)>> ELSE <<>>)
  /\ timers' = timers \ {xhr.timer}
  /\ UNCHANGED <<conns, pending, events, called>>

(* sendFlag is reset once the listeners of load and loadend have run. *)
EndDone(c) ==
  /\ AtStep("ended", c)
  /\ xhr' = [xhr EXCEPT !.sendFlag = FALSE]
  /\ Then(<<>>)
  /\ UNCHANGED <<timers, conns, pending, events, called>>

(* responseHandler, for a redirection: the next request replaces the one the
   object holds, without a timeout and with no listener for abort. *)
Redirect(c) ==
  /\ AtStep("redirect", c)
  /\ timers' = timers \ {xhr.timer}
  /\ \/ /\ conns[c].hop < MaxRedirects
        /\ Len(conns) < MaxConns
        /\ xhr' = [xhr EXCEPT !.timer = 0, !.response = c, !.request = Len(conns) + 1]
        /\ conns' = Append(conns, [conns[c] EXCEPT !.phase = "open", !.hop = @ + 1])
        /\ Then(<<>>)
     \/ \* too many, or a location that makes no URL
        /\ xhr' = [Failed(xhr) EXCEPT !.response = c]
        /\ Then(HandleError(xhr))
        /\ UNCHANGED conns
  /\ UNCHANGED <<pending, events, called>>

(* errorHandler, which the listener of abort calls unless the timeout caused it. *)
Error(c) ==
  /\ AtStep("error", c) \/ (AtStep("abort", c) /\ conns[c].hop = 0 /\ ~xhr.didTimeout)
  /\ xhr' = Failed(xhr)
  /\ timers' = timers \ {xhr.timer}
  /\ Then(HandleError(xhr))
  /\ UNCHANGED <<conns, pending, events, called>>

AbortUnheard(c) ==
  /\ AtStep("abort", c)
  /\ conns[c].hop > 0 \/ xhr.didTimeout
  /\ conns' = [conns EXCEPT ![c].phase = "lost"]
  /\ Then(<<>>)
  /\ UNCHANGED <<xhr, timers, pending, events, called>>

(* Defect: the request times out without a word to the script. *)
TimeoutSilent(t) ==
  /\ todo = <<>>
  /\ t \in timers
  /\ timers' = timers \ {t}
  /\ conns' = Abandoned
  /\ xhr' = [xhr EXCEPT !.didTimeout = TRUE, !.request = 0, !.errorFlag = TRUE,
               !.sendFlag = FALSE]
  /\ UNCHANGED <<todo, pending, events, called>>

(* The timer of send runs out.  requestTimeoutId keeps naming it. *)
Timeout(t) ==
  /\ todo = <<>>
  /\ t \in timers
  /\ timers' = timers \ {t}
  /\ IF xhr.sendFlag
     THEN /\ conns' = Abandoned
          /\ xhr' = [xhr EXCEPT !.didTimeout = TRUE, !.request = 0, !.errorFlag = TRUE,
                       !.sendFlag = FALSE, !.readyState = DONE]
          /\ todo' = SetState(xhr, DONE) \o <<Emit("timeout"), Emit("loadend")>>
     ELSE UNCHANGED <<conns, xhr, todo>>
  /\ UNCHANGED <<pending, events, called>>
-----------------------------------------------------------------------------
Script == (\E allowed \in BOOLEAN : Open(allowed)) \/ SendBadUrl \/ Send \/ Abort

(* The steps of what runs on the main thread, once it has begun. *)
Runs ==
  \/ DispatchEvent \/ ListenerReturns \/ SetStateDone \/ AbortDone
  \/ \E c \in ConnId :
       \/ CreateFails(c) \/ (\E timeout \in BOOLEAN : Create(c, timeout))
       \/ Response(c) \/ Status(c) \/ Data(c) \/ End(c) \/ EndDone(c)
       \/ Redirect(c) \/ Error(c) \/ AbortUnheard(c)

TimersFire == \E t \in timers : Timeout(t)

Next ==
  \/ Script \/ Runs \/ Deliver \/ TimersFire
  \/ \E c \in ConnId : Answer(c)

(* The main loop keeps running tasks and timers; the network may stay silent. *)
Spec ==
  /\ Init /\ [][Next]_vars
  /\ WF_vars(Runs) /\ WF_vars(Deliver) /\ WF_vars(TimersFire)
-----------------------------------------------------------------------------
Seen(event) == \E i \in DOMAIN events : events[i] = event

(* The types of the variables. *)
TypeOK ==
  /\ xhr \in [readyState : UNSENT .. DONE, sendFlag : BOOLEAN, errorFlag : BOOLEAN,
              didTimeout : BOOLEAN, request : 0 .. MaxConns, response : 0 .. MaxConns,
              timer : 0 .. MaxConns]
  /\ timers \subseteq ConnId
  /\ conns \in Seq(Conn) /\ Len(conns) <= MaxConns
  /\ pending \in Seq([step : Answers, conn : ConnId, event : {""}])
  /\ todo \in Seq([step : Steps, conn : 0 .. MaxConns,
                   event : Events \cup {"", "readystatechange"}])
  /\ events \in Seq(Events)
  /\ calls \in 0 .. MaxCalls
  /\ nested \in BOOLEAN

(* getAllResponseHeaders may take the response for granted: an object past OPENED
   without an error holds one, late answers to earlier requests included.  (Not
   so when a listener reopens the object in the middle of an answer.) *)
HeadersReadable ==
  ~nested /\ xhr.readyState >= HEADERS_RECEIVED /\ ~xhr.errorFlag => xhr.response # 0

(* Once a request has failed, timed out or been aborted, no load is reported
   before the next open, although its answer may be waiting in the main loop's
   queue and sendFlag stays set after an error.  (A listener that reopens the
   object in the middle of handleError gets the error of the old request.) *)
FailureIsFinal ==
  ~nested =>
    \A i, j \in DOMAIN events :
      i < j /\ events[i] \in {"error", "timeout", "abort"} => events[j] # "load"

(* An open leads to one load at most, however many answers arrive after it and
   whatever listeners call in the middle of what. *)
LoadsOnce ==
  \A i, j \in DOMAIN events : events[i] = "load" /\ events[j] = "load" => i = j

(* The only timeout installed is the one requestTimeoutId names: the object can
   always clear it, and none outlives its request.  (A listener that sends again
   from within send overwrites that name.) *)
TimeoutTracked == ~nested => timers \subseteq {xhr.timer}

(* A request that has loaded or failed does not time out afterwards. *)
TimeoutBeforeOutcome ==
  ~nested =>
    \A i, j \in DOMAIN events :
      i < j /\ events[i] \in {"load", "error"} => events[j] # "timeout"

(* A send makes maxRedirects + 1 requests at most. *)
RedirectsBounded == \A c \in DOMAIN conns : conns[c].hop <= MaxRedirects

Over == Seen("loadend") \/ Seen("abort") \/ ~Seen("loadstart")

(* A request with a timeout ends, is answered by a redirection or is given up,
   even if the network never answers.  (The request made for a redirection has no
   timeout.) *)
TimeoutEndsWait ==
  Seen("loadstart") /\ timers # {}
    ~> nested \/ Over \/ \E c \in DOMAIN conns : xhr.response = c

Awaited(c) == c \in DOMAIN conns /\ ~conns[c].aborted /\ conns[c].phase = "open"
Lost == \E c \in DOMAIN conns : conns[c].phase = "lost" /\ ~conns[c].aborted

(* A request that was started is reported as over if the network answers what
   nobody aborted, with an error if nothing else: also one that late answers to
   earlier requests interfere with.  (An abort by the transport goes unheard once
   the request has been redirected.) *)
RequestEnds ==
  (\A c \in ConnId : []<>~Awaited(c)) => (Seen("loadstart") ~> nested \/ Over \/ Lost)

(* What the object relies on between two calls: a response to read headers
   from, one timeout it can clear, a bounded chain of redirections. *)
RequestTracked == TypeOK /\ HeadersReadable /\ TimeoutTracked /\ RedirectsBounded

(* A request has one outcome: it loads once, or fails and never loads, and does
   not time out after either. *)
OneOutcome == FailureIsFinal /\ LoadsOnce /\ TimeoutBeforeOutcome
=============================================================================
