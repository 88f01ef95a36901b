-------------------------------- MODULE Contexts --------------------------------
(***************************************************************************)
(* JavaScript contexts, what native code keeps of them, and the tasks that  *)
(* download threads leave for the main loop.                                *)
(*                                                                         *)
(* A context is a JSGlobalContextRef, an address that is used again after   *)
(* its release, and a private object (rtJSCContextPrivate) that is found    *)
(* through gPrivCtxCache and finalized by a later garbage collection.  A    *)
(* listener given to a request is wrapped by an rtJSCProtected, which       *)
(* remembers the context and enters the private object's set, so that the   *)
(* deletion of the context can make it forget the context.  Two raw pointers *)
(* to the JavaScriptContext are never taken back: the listener of the keys, *)
(* and the listener of a request's network metrics, which the download       *)
(* thread calls itself.                                                     *)
(*                                                                         *)
(* Requests are counted references: one of JavaScript, one per task that    *)
(* was dispatched.  Download threads add a reference and then dispatch, in  *)
(* two steps; everything else is the main thread.  The library's request    *)
(* (rtHttpRequest) is external: its destruction cancels the download.       *)
(***************************************************************************)
EXTENDS Naturals, Sequences, FiniteSets

CONSTANTS
  Address,     \* the addresses JavaScriptCore places contexts at
  MaxContexts, \* bound: contexts created
  Requests,    \* the requests scripts make
  MaxEvents,   \* bound: events of a request, its answer included
  Quick,       \* bound: the requests that are answered without progress before
  envValue     \* whether the environment asks for network metrics

ASSUME ContextsAssumption ==
  /\ Address # {} /\ MaxContexts \in Nat /\ MaxEvents \in Nat \ {0}
  /\ Quick \subseteq Requests
  /\ envValue \in BOOLEAN

VARIABLES
  made,        \* how many contexts were created; they are numbered 1 .. made
  live,        \* the contexts that are not deleted
  address,     \* the address of each context created, even when deleted
  cache,       \* gPrivCtxCache: per address the context whose private it holds
  finalized,   \* the contexts whose private object is gone
  protected,   \* m_protected of each private object: requests whose listener is in
  top,         \* gTopLevelContext, 0 for none
  keyListener, \* EssosInstance's listener, 0 for none
  listener,    \* per request, the wrapper of its listener: its context, its private
  metrics,     \* mMetricsListener of each request: a context, 0 for none
  refs,        \* per request: references counted
  script,      \* per request: JavaScript still holds it
  produced,    \* per request: events its download thread has produced
  thread,      \* per request: "none", "running", "measured", "counted" or "over"
  queue,       \* gPendingFun
  batch,       \* the tasks dispatchPending took and has not run yet
  delivered    \* history, per request: events emitted

contexts == <<made, live, address, cache, finalized, top, keyListener>>
wrappers == <<protected, listener>>
requests == <<metrics, refs, script, produced, thread, delivered>>
tasks == <<queue, batch>>
vars == <<contexts, wrappers, requests, tasks>>
-----------------------------------------------------------------------------
Ids == 1 .. MaxContexts
NoWrapper == [context |-> 0, private |-> 0]

(* The last event of a request is the answer, an error or a response. *)
Answer(r) == IF r \in Quick THEN 1 ELSE MaxEvents

(* A request exists from its creation to its last Release(). *)
Exists(r) == refs[r] > 0

Init ==
  /\ made = 0
  /\ live = {}
  /\ address = [c \in Ids |-> CHOOSE a \in Address : TRUE]
  /\ cache = [a \in Address |-> 0]
  /\ finalized = {}
  /\ protected = [c \in Ids |-> {}]
  /\ top = 0
  /\ keyListener = 0
  /\ listener = [r \in Requests |-> NoWrapper]
  /\ metrics = [r \in Requests |-> 0]
  /\ refs = [r \in Requests |-> 0]
  /\ script = [r \in Requests |-> FALSE]
  /\ produced = [r \in Requests |-> 0]
  /\ thread = [r \in Requests |-> "none"]
  /\ queue = <<>>
  /\ batch = <<>>
  /\ delivered = [r \in Requests |-> 0]
-----------------------------------------------------------------------------
(* Contexts are created and deleted while the renderer drains its requests,
   never inside a task. *)

CreateContext(a) ==
  /\ batch = <<>>
  /\ made < MaxContexts
  /\ \A c \in live : address[c] # a
  /\ made' = made + 1
  /\ live' = live \cup {made'}
  /\ address' = [address EXCEPT ![made'] = a]
  /\ cache' = [cache EXCEPT ![a] = made']
  /\ top' = IF top = 0 THEN made' ELSE top
  /\ keyListener' = made'
  /\ UNCHANGED <<finalized, wrappers, requests, tasks>>

(* The wrappers in the set s forget their context. *)
ReleaseProtected(s) ==
  listener' = [r \in Requests |-> IF r \in s THEN NoWrapper ELSE listener[r]]

(* Defect: the wrappers are not told. *)
DeleteContextKeepingWrappers(c) ==
  /\ batch = <<>>
  /\ c \in live
  /\ live' = live \ {c}
  /\ top' = IF top = c THEN 0 ELSE top
  /\ UNCHANGED <<made, address, cache, finalized, keyListener, wrappers, requests,
                 tasks>>

DeleteContext(c) ==
  /\ batch = <<>>
  /\ c \in live
  /\ live' = live \ {c}
  /\ top' = IF top = c THEN 0 ELSE top
  /\ ReleaseProtected(protected[c])
  /\ protected' = [protected EXCEPT ![c] = {}]
  /\ UNCHANGED <<made, address, cache, finalized, keyListener, requests, tasks>>

(* Defect: the entry of the address is erased, whoever owns it by now. *)
FinalizePrivateByAddress(c) ==
  /\ c \in (1 .. made) \ (live \cup finalized)
  /\ finalized' = finalized \cup {c}
  /\ cache' = [cache EXCEPT ![address[c]] = 0]
  /\ UNCHANGED <<made, live, address, top, keyListener, wrappers, requests, tasks>>

(* Garbage collection reaches the private object of a deleted context; the
   cache is searched by value. *)
FinalizePrivate(c) ==
  /\ c \in (1 .. made) \ (live \cup finalized)
  /\ finalized' = finalized \cup {c}
  /\ cache' = [a \in Address |-> IF cache[a] = c THEN 0 ELSE cache[a]]
  /\ UNCHANGED <<made, live, address, top, keyListener, wrappers, requests, tasks>>
-----------------------------------------------------------------------------
(* Requests.  A script of context c makes one and gives it a listener, whose
   wrapper looks its private object up by the context's address.  Without one
   the wrapper keeps nothing.  The metrics listener is the JavaScriptContext itself,
   a raw pointer that lasts as long as the request. *)

MakeRequest(c, r) ==
  /\ c \in live
  /\ thread[r] = "none"
  /\ LET private == cache[address[c]]
     IN  IF private # 0
         THEN /\ listener' = [listener EXCEPT ![r] = [context |-> c, private |-> private]]
              /\ protected' = [protected EXCEPT ![private] = @ \cup {r}]
         ELSE UNCHANGED wrappers
  /\ metrics' = [metrics EXCEPT ![r] = c]
  /\ refs' = [refs EXCEPT ![r] = 1]
  /\ script' = [script EXCEPT ![r] = TRUE]
  /\ thread' = [thread EXCEPT ![r] = "running"]
  /\ UNCHANGED <<contexts, produced, delivered, tasks>>

(* Release(): the last one destroys the request and its wrapper. *)
Release(r) ==
  /\ refs' = [refs EXCEPT ![r] = @ - 1]
  /\ IF refs[r] = 1
     THEN /\ protected' = [c \in Ids |-> IF listener[r].private = c
                                         THEN protected[c] \ {r} ELSE protected[c]]
          /\ listener' = [listener EXCEPT ![r] = NoWrapper]
          /\ metrics' = [metrics EXCEPT ![r] = 0]
          /\ thread' = [thread EXCEPT ![r] = "over"]
     ELSE UNCHANGED <<protected, listener, metrics, thread>>

(* JavaScript no longer holds the request: its wrapper object was collected. *)
Collect(r) ==
  /\ script[r]
  /\ script' = [script EXCEPT ![r] = FALSE]
  /\ Release(r)
  /\ UNCHANGED <<contexts, produced, delivered, tasks>>

(* The download thread has progress or an answer: AddRef() first.  A response
   is measured if the environment asks for it. *)
CountReference(r) ==
  /\ thread[r] = "running"
  /\ produced[r] < Answer(r)
  /\ refs' = [refs EXCEPT ![r] = @ + 1]
  /\ \E next \in {"counted"} \cup
                  (IF envValue /\ produced[r] + 1 = Answer(r) THEN {"measured"} ELSE {}) :
       thread' = [thread EXCEPT ![r] = next]
  /\ UNCHANGED <<contexts, wrappers, metrics, script, produced, delivered, tasks>>

(* The download thread calls onMetricsData of the context that made the request,
   whatever has become of it. *)
ReportMetrics(r) ==
  /\ thread[r] = "measured"
  /\ thread' = [thread EXCEPT ![r] = "counted"]
  /\ UNCHANGED <<contexts, wrappers, metrics, refs, script, produced, delivered, tasks>>

(* Then dispatchOnMainLoop. *)
Dispatch(r) ==
  /\ thread[r] = "counted"
  /\ produced' = [produced EXCEPT ![r] = @ + 1]
  /\ queue' = Append(queue, [request |-> r, event |-> produced'[r]])
  /\ thread' = [thread EXCEPT ![r] = IF produced'[r] = Answer(r) THEN "over"
                                                                 ELSE "running"]
  /\ UNCHANGED <<contexts, wrappers, metrics, refs, script, delivered, batch>>
-----------------------------------------------------------------------------
(* dispatchPending. *)

TakeBatch ==
  /\ batch = <<>>
  /\ queue # <<>>
  /\ batch' = queue
  /\ queue' = <<>>
  /\ UNCHANGED <<contexts, wrappers, requests>>

(* Defect: tasks dispatched meanwhile come first. *)
RunTaskNewestFirst ==
  /\ batch # <<>>
  /\ LET all == batch \o queue
         t == all[Len(all)]
     IN  /\ batch' = SubSeq(all, 1, Len(all) - 1)
         /\ queue' = <<>>
         /\ delivered' = [delivered EXCEPT ![t.request] = @ + 1]
         /\ Release(t.request)
         /\ UNCHANGED <<contexts, script, produced>>

(* Defect: the queue is cleared when the batch is over. *)
RunTaskThenClear ==
  /\ batch # <<>>
  /\ LET r == Head(batch).request
     IN  /\ delivered' = [delivered EXCEPT ![r] = @ + 1]
         /\ Release(r)
  /\ batch' = Tail(batch)
  /\ queue' = IF batch' = <<>> THEN <<>> ELSE queue
  /\ UNCHANGED <<contexts, script, produced>>

(* The task emits, which calls the listener if its wrapper still knows a
   context, and then releases its reference. *)
RunTask ==
  /\ batch # <<>>
  /\ LET r == Head(batch).request
     IN  /\ delivered' = [delivered EXCEPT ![r] = @ + 1]
         /\ Release(r)
  /\ batch' = Tail(batch)
  /\ UNCHANGED <<contexts, script, produced, queue>>
-----------------------------------------------------------------------------
ContextNext ==
  \/ \E a \in Address : CreateContext(a)
  \/ \E c \in Ids : DeleteContext(c) \/ FinalizePrivate(c)

RequestNext ==
  \E r \in Requests :
    \/ \E c \in Ids : MakeRequest(c, r)
    \/ Collect(r)
    \/ CountReference(r)
    \/ ReportMetrics(r)
    \/ Dispatch(r)

LoopNext == TakeBatch \/ RunTask

Next == ContextNext \/ RequestNext \/ LoopNext

(* The main loop keeps dispatching, and what it calls returns; a download
   thread that has begun to report an event reports it. *)
Spec ==
  /\ Init
  /\ [][Next]_vars
  /\ WF_vars(LoopNext)
  /\ \A r \in Requests : WF_vars(ReportMetrics(r) \/ Dispatch(r))
-----------------------------------------------------------------------------
Task == [request : Requests, event : 1 .. MaxEvents]

(* The types of the variables. *)
TypeOK ==
  /\ made \in 0 .. MaxContexts
  /\ live \subseteq 1 .. made
  /\ address \in [Ids -> Address]
  /\ cache \in [Address -> 0 .. MaxContexts]
  /\ finalized \subseteq (1 .. made) \ live
  /\ protected \in [Ids -> SUBSET Requests]
  /\ top \in {0} \cup Ids
  /\ keyListener \in 0 .. made
  /\ listener \in [Requests -> [context : 0 .. MaxContexts, private : 0 .. MaxContexts]]
  /\ metrics \in [Requests -> 0 .. MaxContexts]
  /\ refs \in [Requests -> Nat]
  /\ script \in [Requests -> BOOLEAN]
  /\ produced \in [Requests -> 0 .. MaxEvents]
  /\ thread \in [Requests -> {"none", "running", "measured", "counted", "over"}]
  /\ queue \in Seq(Task)
  /\ batch \in Seq(Task)
  /\ delivered \in [Requests -> 0 .. MaxEvents]

(* The download thread of r holds a reference of its own. *)
Reporting(r) == thread[r] \in {"measured", "counted"}

(* Answers arrive after their application was terminated, and an address may
   belong to another context by then: still a wrapper that knows a context
   knows a live one, so no listener is called in a deleted context. *)
NoCallIntoDeletedContext ==
  \A r \in Requests : listener[r].context # 0 => listener[r].context \in live

(* The private object of a live context is found by the context's address,
   although that of an earlier context at the same address may be finalized
   at any later time. *)
PrivateOfLiveContextFound == \A c \in live : cache[address[c]] = c

(* When its private object is finalized nothing is protected by it any more:
   the assertion of its destructor. *)
NothingProtectedWhenFinalized == \A c \in finalized : protected[c] = {}

(* The tasks that wait, the next one first, and the places of those of a request. *)
Pending == batch \o queue
Waiting(r) == {k \in 1 .. Len(Pending) : Pending[k].request = r}

(* A task that waits holds its request: it is not destroyed before the task
   has emitted, whatever JavaScript has collected. *)
RequestOutlivesTasks ==
  \A r \in Requests :
    refs[r] = (IF script[r] THEN 1 ELSE 0) + (IF Reporting(r) THEN 1 ELSE 0)
              + Cardinality(Waiting(r))

(* Every event is emitted once, in the order the download thread produced
   it, although the queue grows while its tasks run. *)
EventsInOrder ==
  \A r \in Requests :
    LET event(k) == Pending[k].event
    IN  /\ {event(k) : k \in Waiting(r)} = (delivered[r] + 1) .. produced[r]
        /\ \A j, k \in Waiting(r) : j < k => event(j) < event(k)

(* The garbage collector is given a live context or none. *)
CollectsInLiveContext == top # 0 => top \in live

(* An answer that was dispatched reaches the request's listeners. *)
AnswersDelivered ==
  \A r \in Requests : Reporting(r) ~> delivered[r] = produced[r] /\ produced[r] > 0

(* Who may use a context next: the task at the head of the batch through the
   wrapper of its request's listener, the collector, EssosInstance, and a download
   thread that reports metrics. *)
Users(c) ==
  (IF batch # <<>> /\ listener[Head(batch).request].context = c THEN {"task"} ELSE {})
  \cup (IF top = c THEN {"collector"} ELSE {})
  \cup (IF keyListener = c THEN {"keys"} ELSE {})
  \cup (IF \E r \in Requests : thread[r] = "measured" /\ metrics[r] = c
        THEN {"metrics"} ELSE {})

(* What native code keeps of a context through wrappers, private objects and the
   collector's pointer forgets it with its deletion.  Two raw pointers do not: a
   deleted context is still used for keys, and for the metrics of a request it made
   when the environment asks for them, and by nothing else. *)
OnlyRawPointersStray ==
  /\ TypeOK
  /\ NoCallIntoDeletedContext
  /\ NothingProtectedWhenFinalized
  /\ CollectsInLiveContext
  /\ \A c \in (1 .. made) \ live :
       Users(c) \subseteq {"keys"} \cup (IF envValue THEN {"metrics"} ELSE {})

(* Every task of a request finds it alive, and its events come in order. *)
TasksInOrder == RequestOutlivesTasks /\ EventsInOrder
=============================================================================
