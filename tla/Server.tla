--------------------------------- MODULE Server ---------------------------------
(***************************************************************************)
(* JSRuntimeServer and the threads of main, as the callers of the renderer. *)
(*                                                                         *)
(* All handlers of the WebSocket endpoint run on the one thread that        *)
(* start() detaches, so a message is handled whole before the next one, and *)
(* connections open and close between messages only.  A handler meets the   *)
(* other threads at every call of the renderer, each of which waits for     *)
(* mUserMutex.  launchApplication makes two such calls; stop() has steps of *)
(* its own because the renderer goes on meanwhile.                          *)
(*                                                                         *)
(* main runs the renderer, then joins the application threads and returns,  *)
(* which ends the process whatever the server's thread is doing.  The       *)
(* endpoint itself (websocketpp) is external: close() throws when the       *)
(* connection is no longer open, which nothing catches in stop().           *)
(***************************************************************************)
EXTENDS Renderer, FiniteSets, FiniteSetsExt

CONSTANTS
  Clients,       \* the connections that peers have begun
  Threads,       \* application threads, one per url of the command line
  ThreadUrl,     \* the url of the command line
  Html,          \* the texts in which ".htm" is found
  MaxMessages    \* bound: messages received

ASSUME ServerAssumption ==
  /\ ThreadUrl \in Text
  /\ Html \subseteq Text
  /\ MaxMessages \in Nat

VARIABLES
  link,         \* the state of each connection
  connections,  \* mConnections
  listening,    \* the endpoint accepts connections
  serverPc,     \* where the server's thread is
  job,          \* the message it handles, with the identifier given so far
  toClose,      \* tmp of stop(): what is left to close
  received,     \* how many messages were received
  threadPc,     \* where each application thread is
  threadId,     \* the identifier each of them was given
  process,      \* "running", "exited" (main returned) or "aborted"
  launched,     \* history: identifier and url of every launch answered
  listed        \* history: the identifiers of the last listing

net == <<link, connections, listening>>
server == <<serverPc, job, toClose, received>>
threads == <<threadPc, threadId>>
answers == <<launched, listed>>
serverVars == <<net, server, threads, process, answers>>
allVars == <<vars, serverVars>>
-----------------------------------------------------------------------------
(* "ping" stands for every message answered without touching the renderer: a
   message that is not understood, or an external application, which is left to
   a handler that main does not provide. *)
Method == {"ping", "launchApplication", "createApplication", "runApplication",
           "runJavaScript", "destroyApplication", "getApplications", "stop"}
Link == {"accepted", "open", "closing", "closed"}
NoJob == [method |-> "ping", id |-> 0, text |-> Empty]

(* What a client may ask: any method, with any identifier.  What runApplication
   and runJavaScript carry is varied in Renderer. *)
Message ==
  [method : {"ping", "createApplication", "getApplications", "stop"},
   id : {0}, text : {Empty}]
  \cup [method : {"launchApplication"}, id : {0}, text : Text]
  \cup [method : {"runApplication", "runJavaScript", "destroyApplication"},
        id : Ids, text : {Empty}]

(* How many requests a message, or an application thread, may still queue. *)
Needs(m) == CASE m.method = "launchApplication" -> 2
              [] m.method \in {"createApplication", "runApplication",
                               "runJavaScript", "destroyApplication"} -> 1
              [] OTHER -> 0
ThreadNeeds(t) == CASE threadPc[t] = "create" -> 2
                    [] threadPc[t] = "run" -> 1
                    [] OTHER -> 0

(* Bound: a message is taken only if all it may queue fits, so that nobody
   who has begun is held up by the bounds. *)
HasRoom(m) ==
  /\ received < MaxMessages
  /\ Len(accepted) + Needs(m) + FoldSet(LAMBDA t, n : n + ThreadNeeds(t), 0, Threads)
       <= MaxRequests
  /\ m.method \in {"launchApplication", "createApplication"} =>
       nextId + Cardinality({t \in Threads : threadPc[t] = "create"}) <= MaxCreates + 1

(* Without NATIVEJS_TEST_FILE, which Renderer checks. *)
ServerInit ==
  /\ Init
  /\ ~testFile
  /\ link = [c \in Clients |-> "accepted"]
  /\ connections = {}
  /\ listening = TRUE
  /\ serverPc = "loop"
  /\ job = NoJob
  /\ toClose = {}
  /\ received = 0
  /\ threadPc = [t \in Threads |-> "create"]
  /\ threadId = [t \in Threads |-> 0]
  /\ process = "running"
  /\ launched = {}
  /\ listed = {}
-----------------------------------------------------------------------------
(* Connections.  The handlers run on the server's thread, between messages. *)

(* The handshake ends, maybe after stop_listening(). *)
OnOpen(c) ==
  /\ serverPc = "loop"
  /\ link[c] = "accepted"
  /\ link' = [link EXCEPT ![c] = "open"]
  /\ connections' = connections \cup {c}
  /\ UNCHANGED <<vars, listening, server, threads, process, answers>>

(* The peer's close frame arrives, or the link breaks: the connection is no
   longer open from here, and onClose is called later. *)
PeerCloses(c) ==
  /\ serverPc = "loop"
  /\ link[c] = "open"
  /\ link' = [link EXCEPT ![c] = "closing"]
  /\ UNCHANGED <<vars, connections, listening, server, threads, process, answers>>

OnClose(c) ==
  /\ serverPc = "loop"
  /\ link[c] = "closing"
  /\ link' = [link EXCEPT ![c] = "closed"]
  /\ connections' = connections \ {c}
  /\ UNCHANGED <<vars, listening, server, threads, process, answers>>
-----------------------------------------------------------------------------
(* onMessage. *)

(* The endpoint hands over the messages of open connections only. *)
OnMessage(c, m) ==
  /\ serverPc = "loop"
  /\ link[c] = "open"
  /\ HasRoom(m)
  /\ received' = received + 1
  /\ job' = m
  /\ serverPc' = "handle"
  /\ UNCHANGED <<vars, net, toClose, threads, process, answers>>

Handling(method) == serverPc = "handle" /\ job.method = method

(* The reply is sent, or fails because the client has gone, and is logged. *)
Reply ==
  /\ serverPc' = "loop"
  /\ job' = NoJob
  /\ UNCHANGED <<net, toClose, received, threads, process>>

ReplyOnly ==
  /\ Handling("ping")
  /\ Reply
  /\ UNCHANGED <<vars, answers>>

LaunchCreate ==
  /\ Handling("launchApplication")
  /\ CreateApplication
  /\ job' = [job EXCEPT !.id = nextId]
  /\ serverPc' = "launch"
  /\ UNCHANGED <<net, toClose, received, threads, process, answers>>

(* Defect: the identifier is read back from the counter. *)
LaunchRunLastId ==
  /\ serverPc = "launch"
  /\ job.text \notin Html
  /\ RunApplication(nextId - 1, job.text)
  /\ launched' = launched \cup {[id |-> job.id, url |-> job.text]}
  /\ Reply
  /\ UNCHANGED listed

LaunchRun ==
  /\ serverPc = "launch"
  /\ job.text \notin Html
  /\ RunApplication(job.id, job.text)
  /\ launched' = launched \cup {[id |-> job.id, url |-> job.text]}
  /\ Reply
  /\ UNCHANGED listed

(* HTML is left to the external handler: for the renderer the application stays
   as it was created, and the client is told its identifier all the same. *)
LaunchHtml ==
  /\ serverPc = "launch"
  /\ job.text \in Html
  /\ launched' = launched \cup {[id |-> job.id, url |-> job.text]}
  /\ Reply
  /\ UNCHANGED <<vars, listed>>

(* The methods that queue one request. *)
QueueRequest ==
  /\ \/ Handling("createApplication") /\ CreateApplication
     \/ Handling("runApplication") /\ RunApplication(job.id, job.text)
     \/ Handling("runJavaScript") /\ RunJavaScript(job.id, job.text)
     \/ Handling("destroyApplication") /\ TerminateApplication(job.id)
  /\ Reply
  /\ UNCHANGED answers

(* getApplications waits for the mutex and so for the end of a drain. *)
GetApplications ==
  /\ Handling("getApplications")
  /\ userMutex = "free"
  /\ listed' = {id \in Ids : Present(id)}
  /\ Reply
  /\ UNCHANGED <<vars, launched>>

(* stop(): no reply.  stop_listening() throws when it was called before. *)
StopListening ==
  /\ Handling("stop")
  /\ listening' = FALSE
  /\ toClose' = connections
  /\ serverPc' = "closing"
  /\ process' = IF listening THEN process ELSE "aborted"
  /\ UNCHANGED <<vars, link, connections, job, received, threads, answers>>

CloseOne(c) ==
  /\ serverPc = "closing"
  /\ c \in toClose
  /\ toClose' = toClose \ {c}
  /\ \/ link[c] = "open" /\ link' = [link EXCEPT ![c] = "closing"] /\ UNCHANGED process
     \/ link[c] # "open" /\ process' = "aborted" /\ UNCHANGED link
  /\ UNCHANGED <<vars, connections, listening, serverPc, job, received, threads,
                 answers>>

(* Defect: the renderer is not told. *)
StopServerOnly ==
  /\ serverPc = "closing"
  /\ toClose = {}
  /\ Reply
  /\ UNCHANGED <<vars, answers>>

StopRenderer ==
  /\ serverPc = "closing"
  /\ toClose = {}
  /\ IF running THEN Terminate ELSE UNCHANGED vars
  /\ Reply
  /\ UNCHANGED answers
-----------------------------------------------------------------------------
(* main and its application threads; in developer builds a thread goes on to
   list and terminate its application, which clients do here. *)

ThreadStep(t, from, to) ==
  /\ threadPc[t] = from
  /\ threadPc' = [threadPc EXCEPT ![t] = to]
  /\ UNCHANGED <<net, server, process, answers>>

ThreadCreate(t) ==
  /\ ThreadStep(t, "create", "run")
  /\ CreateApplication
  /\ threadId' = [threadId EXCEPT ![t] = nextId]

ThreadRun(t) ==
  /\ ThreadStep(t, "run", "done")
  /\ RunApplication(threadId[t], ThreadUrl)
  /\ UNCHANGED threadId

(* main has left run() and joined the application threads. *)
MainReturns ==
  /\ pc = "done"
  /\ \A t \in Threads : threadPc[t] = "done"
  /\ process' = "exited"
  /\ UNCHANGED <<vars, net, server, threads, answers>>
-----------------------------------------------------------------------------
ConnectionNext ==
  \E c \in Clients : OnOpen(c) \/ PeerCloses(c) \/ OnClose(c)

HandleMessage ==
  \/ ReplyOnly
  \/ LaunchCreate
  \/ LaunchRun
  \/ LaunchHtml
  \/ QueueRequest
  \/ GetApplications
  \/ StopListening
  \/ \E c \in Clients : CloseOne(c)
  \/ StopRenderer

ThreadNext == \E t \in Threads : ThreadCreate(t) \/ ThreadRun(t)

Running(A) == process = "running" /\ A
RendererStep == RendererNext /\ UNCHANGED serverVars

ServerNext ==
  Running(\/ ConnectionNext
          \/ \E c \in Clients, m \in Message : OnMessage(c, m)
          \/ HandleMessage
          \/ ThreadNext
          \/ RendererStep
          \/ MainReturns)

(* The threads are scheduled.  Locking mUserMutex is starved by nobody: the
   renderer sleeps 25 ms without it in every turn, hence strong fairness for
   those who wait for it.  Nothing is asked of the clients. *)
ServerSpec ==
  /\ ServerInit
  /\ [][ServerNext]_allVars
  /\ WF_allVars(Running(RendererStep))
  /\ WF_allVars(Running(MainReturns))
  /\ SF_allVars(Running(HandleMessage))
  /\ SF_allVars(Running(ThreadNext))
-----------------------------------------------------------------------------
(* The types of the variables. *)
ServerTypeOK ==
  /\ link \in [Clients -> Link]
  /\ connections = {c \in Clients : link[c] \in {"open", "closing"}}
  /\ listening \in BOOLEAN
  /\ serverPc \in {"loop", "handle", "launch", "closing"}
  /\ job \in [method : Method, id : Ids \cup {0}, text : Text]
  /\ toClose \subseteq Clients
  /\ received \in 0 .. MaxMessages
  /\ threadPc \in [Threads -> {"create", "run", "done"}]
  /\ threadId \in [Threads -> Ids \cup {0}]
  /\ process \in {"running", "exited", "aborted"}
  /\ launched \subseteq [id : Ids, url : Text]
  /\ listed \subseteq Ids

(* launchApplication is two requests, and other threads queue theirs between
   them, while a drain may take the first without the second.  Still the
   application answered to the client is the one that runs its url: the first
   request that names it after its creation is its RUN, and is not dropped. *)
LaunchedRunsItsUrl ==
  \A l \in launched : l.url \notin Html =>
    \E k \in 1 .. Len(accepted) :
      /\ accepted[k] = [type |-> "RUN", id |-> l.id, text |-> l.url]
      /\ \E c \in 1 .. (k - 1) :
           /\ accepted[c].id = l.id /\ accepted[c].type = "CREATE"
           /\ \A i \in (c + 1) .. (k - 1) : accepted[i].id # l.id
      /\ k <= Len(executed) => executed[k].effect \in {"ran", "notRun"}

Outcome(id, effect) ==
  \E k \in 1 .. Len(executed) :
    executed[k].request.id = id /\ executed[k].effect = effect

(* What getApplications shows is what the handled requests say: the
   applications created and not deleted, no others, in the middle of whatever
   clients and threads have queued for identifiers living, dead or unknown. *)
ListingAgreesWithHistory ==
  [][Handling("getApplications") /\ serverPc' = "loop" =>
       listed' = {id \in Ids : Outcome(id, "created") /\ ~Outcome(id, "deleted")}
    ]_allVars

(* stop() closes the connections of a copy of the set.  When it goes on to
   terminate the renderer, no connection that is registered is left open. *)
StopClosesAll ==
  serverPc = "closing" /\ toClose = {} /\ process = "running"
    => \A c \in connections : link[c] # "open"

(* A message is handled to its end although getApplications and the request
   calls wait for drains in which downloads and scripts run, as
   long as the process lives. *)
MessagesHandled ==
  serverPc # "loop" ~>
    serverPc = "loop" \/ process # "running"

(* A stop command ends the process, whatever is queued at that moment and
   whatever the application threads are doing. *)
StopEndsProcess == serverPc = "closing" ~> process # "running"

(* The server's state agrees with the endpoint's, stop leaves no registered
   connection open, and what launchApplication answered runs its url. *)
ServerSafe == ServerTypeOK /\ StopClosesAll /\ LaunchedRunsItsUrl
=============================================================================
