-------------------------------- MODULE Renderer --------------------------------
(***************************************************************************)
(* NativeJSRenderer: the request queue between the threads that ask for     *)
(* applications (one thread per URL of the command line, the WebSocket      *)
(* server thread) and the renderer thread, which alone creates, runs and    *)
(* deletes JavaScript contexts.                                             *)
(*                                                                         *)
(* A caller holds mUserMutex for one push_back, so its critical section is  *)
(* one action guarded by the mutex being free.  The renderer holds the      *)
(* mutex while it drains the queue, one action per request: everything that *)
(* does not take the mutex (terminate(), the identifier of the test file)   *)
(* interleaves with the drain.                                              *)
(***************************************************************************)
EXTENDS Naturals, Sequences

CONSTANTS
  MaxCreates,      \* bound: applications the callers create
  MaxRequests,     \* bound: requests the callers queue
  Text,            \* what a request carries: URLs and JavaScript sources
  Empty,           \* the empty string, a member of Text
  JavaScriptCode,  \* the url of an application that only ran code
  TestFile         \* the url in NATIVEJS_TEST_FILE

ASSUME BoundsAssumption == MaxCreates \in Nat /\ MaxRequests \in Nat
ASSUME TextAssumption == Empty \in Text

VARIABLES
  nextId,       \* the static counter of createApplicationIdentifier
  userMutex,    \* who holds mUserMutex: "free" or "renderer"
  pending,      \* gPendingRequests
  contextMap,   \* mContextMap: per identifier its url and context
  running,      \* mRunning
  engineUp,     \* mEngine->terminate() not called yet
  testFile,     \* mTestFileName is not empty
  testId,       \* the identifier taken for the test file, 0 before
  pc,           \* where the renderer thread is in run()
  index,        \* the loop variable of the drain, from 1
  heap,         \* contexts allocated and not deleted
  allocated,    \* how many contexts have been allocated
  accepted,     \* history: every request pushed, in order
  executed      \* history: every request handled, with its effect

caller == <<nextId, pending, accepted>>
apps == <<contextMap, heap, allocated>>
vars == <<nextId, userMutex, pending, contextMap, running, engineUp, testFile,
          testId, pc, index, heap, allocated, accepted, executed>>
-----------------------------------------------------------------------------
(* One identifier more than the callers can take, for the test file. *)
Ids == 1 .. (MaxCreates + 1)

RequestType == {"CREATE", "RUN", "RUNSCRIPT", "TERMINATE"}
Request == [type : RequestType, id : Ids, text : Text]
Effect == {"created", "ran", "notRun", "noApplication", "deleted"}
Url == Text \cup {JavaScriptCode, TestFile}

(* Contexts are numbered in the order they are allocated; 0 is no context. *)
NoEntry == [url |-> Empty, context |-> 0]
Present(id) == contextMap[id].context # 0

Init ==
  /\ nextId = 1
  /\ userMutex = "free"
  /\ pending = <<>>
  /\ contextMap = [id \in Ids |-> NoEntry]
  /\ running = TRUE
  /\ engineUp = TRUE
  /\ testFile \in BOOLEAN
  /\ testId = 0
  /\ pc = "check"
  /\ index = 1
  /\ heap = {}
  /\ allocated = 0
  /\ accepted = <<>>
  /\ executed = <<>>
-----------------------------------------------------------------------------
(* The calling threads. *)

PushRequest(r) ==
  /\ Len(accepted) < MaxRequests
  /\ pending' = Append(pending, r)
  /\ accepted' = Append(accepted, r)
  /\ UNCHANGED <<userMutex, contextMap, running, engineUp, testFile, testId,
                 pc, index, heap, allocated, executed>>

CreateApplication ==
  /\ userMutex = "free"
  /\ nextId <= MaxCreates + (IF testFile /\ testId = 0 THEN 0 ELSE 1)
  /\ nextId' = nextId + 1
  /\ PushRequest([type |-> "CREATE", id |-> nextId, text |-> Empty])

(* Defect: the mutex is not taken for the push. *)
RunApplicationUnlocked(id, url) ==
  /\ PushRequest([type |-> "RUN", id |-> id, text |-> url])
  /\ UNCHANGED nextId

RunApplication(id, url) ==
  /\ userMutex = "free"
  /\ PushRequest([type |-> "RUN", id |-> id, text |-> url])
  /\ UNCHANGED nextId

RunJavaScript(id, code) ==
  /\ userMutex = "free"
  /\ PushRequest([type |-> "RUNSCRIPT", id |-> id, text |-> code])
  /\ UNCHANGED nextId

TerminateApplication(id) ==
  /\ userMutex = "free"
  /\ PushRequest([type |-> "TERMINATE", id |-> id, text |-> Empty])
  /\ UNCHANGED nextId

(* terminate(), from the WebSocket server's stop: it takes no mutex. *)
Terminate ==
  /\ running
  /\ running' = FALSE
  /\ UNCHANGED <<nextId, userMutex, pending, contextMap, engineUp, testFile,
                 testId, pc, index, heap, allocated, accepted, executed>>
-----------------------------------------------------------------------------
(* The renderer thread: run(). *)

CheckRunning ==
  /\ pc = "check"
  /\ \/ running /\ pc' = "lock" /\ UNCHANGED engineUp
     \/ ~running /\ pc' = "done" /\ engineUp' = FALSE
  /\ UNCHANGED <<nextId, userMutex, pending, contextMap, running, testFile,
                 testId, index, heap, allocated, accepted, executed>>

LockQueue ==
  /\ pc = "lock"
  /\ userMutex = "free"
  /\ userMutex' = "renderer"
  /\ pc' = "drain"
  /\ UNCHANGED <<nextId, pending, contextMap, running, engineUp, testFile,
                 testId, index, heap, allocated, accepted, executed>>

(* What each Internal function does to the map and to the contexts. *)
CreateInternal(id) ==
  /\ allocated' = allocated + 1
  /\ heap' = heap \cup {allocated'}
  /\ contextMap' = [contextMap EXCEPT ![id].context = allocated']

SetUrl(id, url) ==
  /\ contextMap' = [contextMap EXCEPT ![id].url = url]
  /\ UNCHANGED <<heap, allocated>>

(* Defect: the context is deleted and its entry stays. *)
TerminateInternalKeepEntry(id) ==
  /\ heap' = heap \ {contextMap[id].context}
  /\ UNCHANGED <<contextMap, allocated>>

TerminateInternal(id) ==
  /\ heap' = heap \ {contextMap[id].context}
  /\ contextMap' = [contextMap EXCEPT ![id] = NoEntry]
  /\ UNCHANGED allocated

(* A step of the drain: request r is handled with the given effect. *)
Handle(r, effect) ==
  /\ index' = index + 1
  /\ executed' = Append(executed, [request |-> r, effect |-> effect])
  /\ UNCHANGED <<nextId, userMutex, pending, running, engineUp, testFile,
                 testId, pc, accepted>>

HandleCreate(r) ==
  /\ r.type = "CREATE"
  /\ CreateInternal(r.id)
  /\ Handle(r, "created")

(* Defect: the url is recorded only when the script runs. *)
HandleRunLateUrl(r) ==
  /\ r.type = "RUN"
  /\ Present(r.id)
  /\ \/ r.text # Empty /\ SetUrl(r.id, r.text) /\ Handle(r, "ran")
     \/ UNCHANGED apps /\ Handle(r, "notRun")

(* The url is recorded first; a failed download or an unreadable file leaves
   it there and runs nothing. *)
HandleRun(r) ==
  /\ r.type = "RUN"
  /\ Present(r.id)
  /\ SetUrl(r.id, r.text)
  /\ \/ r.text # Empty /\ Handle(r, "ran")
     \/ Handle(r, "notRun")

HandleRunScript(r) ==
  /\ r.type = "RUNSCRIPT"
  /\ Present(r.id)
  /\ SetUrl(r.id, IF contextMap[r.id].url = Empty THEN JavaScriptCode
                                                   ELSE contextMap[r.id].url)
  /\ Handle(r, IF r.text # Empty THEN "ran" ELSE "notRun")

HandleTerminate(r) ==
  /\ r.type = "TERMINATE"
  /\ Present(r.id)
  /\ TerminateInternal(r.id)
  /\ Handle(r, "deleted")

(* Defect: the map's operator [] is used to look an absent identifier up. *)
HandleUnknownInserts(r) ==
  /\ r.type # "CREATE"
  /\ ~Present(r.id)
  /\ CreateInternal(r.id)
  /\ Handle(r, "noApplication")

(* The three handlers that look the identifier up return when it is absent. *)
HandleUnknown(r) ==
  /\ r.type # "CREATE"
  /\ ~Present(r.id)
  /\ UNCHANGED apps
  /\ Handle(r, "noApplication")

EndDrain ==
  /\ pc = "drain"
  /\ index > Len(pending)
  /\ pc' = "clear"
  /\ UNCHANGED <<nextId, userMutex, pending, contextMap, running, engineUp,
                 testFile, testId, index, heap, allocated, accepted, executed>>

(* Defect: the loop variable restarts one too low. *)
ClearAndUnlockFromZero ==
  /\ pc = "clear"
  /\ pending' = <<>>
  /\ index' = 0
  /\ userMutex' = "free"
  /\ pc' = IF testFile THEN "testId" ELSE "engine"
  /\ UNCHANGED <<nextId, contextMap, running, engineUp, testFile, testId, heap,
                 allocated, accepted, executed>>

(* Defect: a turn with an empty queue leaves without the unlock. *)
ClearAndUnlockNonEmpty ==
  /\ pc = "clear"
  /\ pending' = <<>>
  /\ index' = 1
  /\ userMutex' = IF pending = <<>> THEN userMutex ELSE "free"
  /\ pc' = IF testFile THEN "testId" ELSE "engine"
  /\ UNCHANGED <<nextId, contextMap, running, engineUp, testFile, testId, heap,
                 allocated, accepted, executed>>

ClearAndUnlock ==
  /\ pc = "clear"
  /\ pending' = <<>>
  /\ index' = 1
  /\ userMutex' = "free"
  /\ pc' = IF testFile THEN "testId" ELSE "engine"
  /\ UNCHANGED <<nextId, contextMap, running, engineUp, testFile, testId, heap,
                 allocated, accepted, executed>>

(* Defect: the identifier is read and not consumed. *)
TakeTestIdShared ==
  /\ pc = "testId"
  /\ testId' = nextId
  /\ pc' = "testRun"
  /\ UNCHANGED <<nextId, userMutex, pending, contextMap, running, engineUp,
                 testFile, index, heap, allocated, accepted, executed>>

(* The test file takes its identifier before it takes the mutex. *)
TakeTestId ==
  /\ pc = "testId"
  /\ testId' = nextId
  /\ nextId' = nextId + 1
  /\ pc' = "testRun"
  /\ UNCHANGED <<userMutex, pending, contextMap, running, engineUp, testFile,
                 index, heap, allocated, accepted, executed>>

RunTestFile ==
  /\ pc = "testRun"
  /\ userMutex = "free"
  /\ allocated' = allocated + 1
  /\ heap' = heap \cup {allocated'}
  /\ contextMap' = [contextMap EXCEPT ![testId] =
                      [url |-> TestFile, context |-> allocated']]
  /\ testFile' = FALSE
  /\ pc' = "engine"
  /\ UNCHANGED <<nextId, userMutex, pending, running, engineUp, testId, index,
                 accepted, executed>>

(* Key events, timers and dispatched callbacks run here; none of them touches
   the queue or the map.  Then the thread sleeps and loops. *)
RunEngine ==
  /\ pc = "engine"
  /\ pc' = "check"
  /\ UNCHANGED <<nextId, userMutex, pending, contextMap, running, engineUp,
                 testFile, testId, index, heap, allocated, accepted, executed>>
-----------------------------------------------------------------------------
HandleNext ==
  /\ pc = "drain"
  /\ index <= Len(pending)
  /\ \/ HandleCreate(pending[index])
     \/ HandleRun(pending[index])
     \/ HandleRunScript(pending[index])
     \/ HandleTerminate(pending[index])
     \/ HandleUnknown(pending[index])

CallerNext ==
  \/ CreateApplication
  \/ \E id \in Ids, t \in Text : RunApplication(id, t) \/ RunJavaScript(id, t)
  \/ \E id \in Ids : TerminateApplication(id)
  \/ Terminate

RendererNext ==
  \/ CheckRunning
  \/ LockQueue
  \/ HandleNext
  \/ EndDrain
  \/ ClearAndUnlock
  \/ TakeTestId
  \/ RunTestFile
  \/ RunEngine

Next == CallerNext \/ RendererNext

(* The renderer thread keeps being scheduled, and what it runs returns. *)
Spec == Init /\ [][Next]_vars /\ WF_vars(RendererNext)
-----------------------------------------------------------------------------
(* The types of the variables. *)
TypeOK ==
  /\ nextId \in 1 .. (MaxCreates + 2)
  /\ userMutex \in {"free", "renderer"}
  /\ pending \in Seq(Request)
  /\ contextMap \in [Ids -> [url : Url, context : Nat]]
  /\ running \in BOOLEAN
  /\ engineUp \in BOOLEAN
  /\ testFile \in BOOLEAN
  /\ testId \in Ids \cup {0}
  /\ pc \in {"check", "lock", "drain", "clear", "testId", "testRun", "engine",
             "done"}
  /\ index \in 1 .. (Len(pending) + 1)
  /\ heap \subseteq Nat
  /\ allocated \in Nat
  /\ accepted \in Seq(Request)
  /\ executed \in Seq([request : Request, effect : Effect])

(* Draining and clearing the queue while callers push to it handles every
   accepted request once, in the order of acceptance: what was handled is a
   prefix of what was accepted, and the rest is still queued. *)
HandledOnceInOrder ==
  /\ \A k \in 1 .. Len(executed) :
       k <= Len(accepted) /\ executed[k].request = accepted[k]
  /\ Len(accepted) - Len(executed) = Len(pending) - (index - 1)

(* Two applications never get the same identifier, although the test file
   takes its own without the mutex that createApplication holds. *)
FreshIdentifiers ==
  \A k \in 1 .. Len(accepted) :
    accepted[k].type = "CREATE" =>
      /\ accepted[k].id # testId
      /\ \A j \in 1 .. (k - 1) :
           accepted[j].type = "CREATE" => accepted[j].id # accepted[k].id

(* Every context that was allocated and not deleted is the context of exactly
   one entry of the map: createApplicationInternal, which stores without
   looking, never overwrites a live context and so never leaks one, and no
   entry keeps a context that was deleted. *)
NoContextLeaked ==
  /\ heap = {contextMap[id].context : id \in {i \in Ids : Present(i)}}
  /\ \A i, j \in Ids :
       Present(i) /\ contextMap[i].context = contextMap[j].context => i = j

(* Once the termination of an application was handled, nothing runs under its
   identifier any more, whatever was queued before or after. *)
NoScriptAfterTerminate ==
  \A k \in 1 .. Len(executed) : \A j \in 1 .. (k - 1) :
    /\ executed[j].effect = "deleted"
    /\ executed[j].request.id = executed[k].request.id
    => executed[k].effect = "noApplication"

(* A request is dropped for want of its application only if no earlier request
   created it, or an earlier one deleted it: a caller that queues CREATE and
   then RUN never loses the RUN. *)
DroppedOnlyWithoutApplication ==
  \A k \in 1 .. Len(executed) : \A j \in 1 .. (k - 1) :
    /\ executed[k].effect = "noApplication"
    /\ executed[j].effect = "created"
    /\ executed[j].request.id = executed[k].request.id
    => \E m \in (j + 1) .. (k - 1) :
         /\ executed[m].effect = "deleted"
         /\ executed[m].request.id = executed[k].request.id

(* Whenever terminate() arrives, no request is handled and no context created
   or deleted once the engine has been terminated. *)
NothingRunsAfterEngineTerminate == [][~engineUp => UNCHANGED <<apps, executed>>]_vars

(* The renderer is a service that handles the accepted requests one by one. *)
Service == INSTANCE AppService
             WITH requests <- accepted,
                  handled <- Len(executed),
                  apps <- [id \in Ids |-> [present |-> Present(id),
                                           url |-> contextMap[id].url]],
                  open <- running

ImplementsService == Service!Spec

(* Every application has an identifier and a context of its own. *)
OneContextPerApplication == FreshIdentifiers /\ NoContextLeaked

(* Creation and termination bound an application's life for its requests: none
   runs after the one, none is dropped between the two. *)
RequestsWithinLife == NoScriptAfterTerminate /\ DroppedOnlyWithoutApplication
=============================================================================
