----------------------------- MODULE CommandClient -----------------------------
(***************************************************************************)
(* JSRuntimeClient and its connection to JSRuntimeServer: the main thread   *)
(* sends the commands it reads, one at a time, and waits up to five seconds *)
(* for each response; the connection's own thread stores what arrives and   *)
(* wakes it.                                                               *)
(*                                                                         *)
(* A command is its number, in the order in which it is read, and the       *)
(* server's reply to it carries the same number, which the code's messages  *)
(* do not.  A timeout may strike at any moment of a wait: the server's      *)
(* onMessage blocks on the renderer's mutex for as long as it takes.        *)
(***************************************************************************)
EXTENDS Naturals, Sequences

CONSTANT MaxCommands  \* bound: commands read from the input

ASSUME CommandAssumption == MaxCommands \in Nat \ {0}

VARIABLES
  pc,               \* next step of the main thread
  command,          \* the commands read so far, hence the current one
  response,         \* main's response: the last one returned, 0 for the empty one
  mState,           \* what the open, fail and close handlers recorded
  mLastResponse,    \* the last message received
  mResponseReceived,
  linked,           \* is the connection up
  toServer,         \* messages under way to the server
  toClient,         \* messages under way to the client
  returned          \* history: what sendCommand returned for each command

clientVars == <<pc, command, response, mState, mLastResponse, mResponseReceived,
                linked, toServer, toClient, returned>>
network == <<linked, toServer, toClient>>
received == <<mLastResponse, mResponseReceived>>
-----------------------------------------------------------------------------
Command == 1 .. MaxCommands
Message == [command : Command, stop : BOOLEAN]

ClientInit ==
  /\ pc = "connect"
  /\ command = 0
  /\ response = 0
  /\ mState = "none"
  /\ mLastResponse = 0
  /\ mResponseReceived = FALSE
  /\ linked = FALSE
  /\ toServer = <<>>
  /\ toClient = <<>>
  /\ returned = <<>>
-----------------------------------------------------------------------------
(* The main thread. *)

(* run() waits for a handler to set the state, but not for ever. *)
RunReturns ==
  /\ pc = "connect"
  /\ pc' = IF mState = "open" THEN "loop" ELSE "end"
  /\ UNCHANGED <<command, response, mState, network, received, returned>>

TestState ==
  /\ pc = "loop"
  /\ pc' = IF mState = "open" THEN "read" ELSE "end"
  /\ UNCHANGED <<command, response, mState, network, received, returned>>

(* main breaks out of its loop while it has no response at all to show. *)
Return(result, newResponse) ==
  /\ returned' = Append(returned, [ok |-> result, response |-> newResponse])
  /\ response' = newResponse
  /\ pc' = IF newResponse = 0 THEN "end" ELSE "loop"

(* send() refuses an empty message, and response keeps what it had. *)
ReadEmpty ==
  /\ pc = "read"
  /\ command < MaxCommands
  /\ command' = command + 1
  /\ Return(FALSE, response)
  /\ UNCHANGED <<mState, network, received>>

(* Over a closed connection the endpoint throws; send() logs that and reports
   success all the same. *)
SendMessage(stop) ==
  /\ pc = "read"
  /\ command < MaxCommands
  /\ command' = command + 1
  /\ toServer' = IF linked
                 THEN Append(toServer, [command |-> command', stop |-> stop])
                 ELSE toServer
  /\ pc' = "sent"
  /\ UNCHANGED <<response, mState, linked, toClient, received, returned>>

(* Defect: the flag of an earlier response is not reset. *)
BeginWaitNoReset ==
  /\ pc = "sent"
  /\ pc' = "wait"
  /\ UNCHANGED <<command, response, mState, network, received, returned>>

(* Only now is the mutex taken and the flag reset. *)
BeginWait ==
  /\ pc = "sent"
  /\ mResponseReceived' = FALSE
  /\ pc' = "wait"
  /\ UNCHANGED <<command, response, mState, network, mLastResponse, returned>>

GotResponse ==
  /\ pc = "wait"
  /\ mResponseReceived
  /\ Return(TRUE, mLastResponse)
  /\ UNCHANGED <<command, mState, network, received>>

(* Defect: the wait has a time limit only while the connection is down. *)
WaitLinked ==
  /\ pc = "wait"
  /\ ~mResponseReceived
  /\ ~linked
  /\ Return(FALSE, response)
  /\ UNCHANGED <<command, mState, network, received>>

(* wait_for reports a timeout only if the flag is still down at that moment. *)
WaitTimesOut ==
  /\ pc = "wait"
  /\ ~mResponseReceived
  /\ Return(FALSE, response)
  /\ UNCHANGED <<command, mState, network, received>>
-----------------------------------------------------------------------------
(* The connection's thread. *)

OnOpen ==
  /\ mState = "none"
  /\ linked' = TRUE
  /\ mState' = "open"
  /\ UNCHANGED <<pc, command, response, toServer, toClient, received, returned>>

OnFail ==
  /\ mState = "none"
  /\ mState' = "fail"
  /\ UNCHANGED <<pc, command, response, network, received, returned>>

OnClose ==
  /\ mState = "open"
  /\ ~linked
  /\ mState' = "close"
  /\ UNCHANGED <<pc, command, response, network, received, returned>>

OnMessage ==
  /\ toClient # <<>>
  /\ mLastResponse' = Head(toClient)
  /\ mResponseReceived' = TRUE
  /\ toClient' = Tail(toClient)
  /\ UNCHANGED <<pc, command, response, mState, linked, toServer, returned>>
-----------------------------------------------------------------------------
(* The server and the network. *)

(* The server answers one message at a time, each with one reply; "stop" is the
   one it does not answer: it closes its connections instead. *)
Serve ==
  /\ toServer # <<>>
  /\ toServer' = Tail(toServer)
  /\ IF Head(toServer).stop
     THEN linked' = FALSE /\ UNCHANGED toClient
     ELSE /\ toClient' = IF linked THEN Append(toClient, Head(toServer).command)
                         ELSE toClient
          /\ UNCHANGED linked
  /\ UNCHANGED <<pc, command, response, mState, received, returned>>

(* What is under way is lost with the connection. *)
LinkLost ==
  /\ linked
  /\ linked' = FALSE
  /\ toServer' = <<>>
  /\ toClient' = <<>>
  /\ UNCHANGED <<pc, command, response, mState, received, returned>>
-----------------------------------------------------------------------------
Waiting == BeginWait \/ GotResponse \/ WaitTimesOut

MainNext ==
  \/ RunReturns \/ TestState \/ ReadEmpty
  \/ \E stop \in BOOLEAN : SendMessage(stop)
  \/ Waiting

ClientNext ==
  \/ MainNext
  \/ OnOpen \/ OnFail \/ OnClose \/ OnMessage
  \/ Serve \/ LinkLost

(* The main thread is scheduled and time passes; nothing is asked of the server
   or of the network. *)
ClientSpec == ClientInit /\ [][ClientNext]_clientVars /\ WF_clientVars(Waiting)
-----------------------------------------------------------------------------
(* The types of the variables. *)
ClientTypeOK ==
  /\ pc \in {"connect", "loop", "read", "sent", "wait", "end"}
  /\ command \in 0 .. MaxCommands
  /\ response \in 0 .. command
  /\ mState \in {"none", "open", "fail", "close"}
  /\ mLastResponse \in 0 .. command
  /\ mResponseReceived \in BOOLEAN
  /\ linked \in BOOLEAN
  /\ toServer \in Seq(Message)
  /\ toClient \in Seq(Command)
  /\ returned \in Seq([ok : BOOLEAN, response : 0 .. MaxCommands])

Succeeded == {k \in 1 .. Len(returned) : returned[k].ok}

(* Whatever was late, a reply is returned to one command at most, and replies
   are returned in the order of the commands they answer: never to a command
   that was sent before the one they belong to. *)
RepliesReturnedOnce ==
  /\ \A k \in Succeeded : returned[k].response <= k
  /\ \A j, k \in Succeeded : j < k => returned[j].response < returned[k].response

(* sendCommand comes back, with a reply or without, however slow the server. *)
SendReturns == pc \in {"sent", "wait"} ~> pc \in {"loop", "end"}

(* The client's variables have their types, and no reply is returned twice. *)
RepliesInOrder == ClientTypeOK /\ RepliesReturnedOnce
=============================================================================
