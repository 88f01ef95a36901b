------------------------------- MODULE AppService -------------------------------
(***************************************************************************)
(* What NativeJSRenderer promises the threads that queue requests: requests *)
(* take effect one at a time, in the order they were accepted, each on the  *)
(* applications its predecessors left, and while the service is open every  *)
(* accepted request takes effect.  The mutex, the vector that is drained    *)
(* and cleared, the contexts and the loop of the renderer are not visible.  *)
(***************************************************************************)
EXTENDS Naturals, Sequences

CONSTANTS
  Ids,             \* application identifiers
  Request,         \* the requests callers may queue
  Empty,           \* the empty string
  JavaScriptCode,  \* the url of an application that only ran code
  TestFile         \* the url of the test file

VARIABLES
  requests,  \* every request accepted, in order
  handled,   \* how many of them took effect
  apps,      \* per identifier: does the application exist, and its url
  open       \* has nobody asked the service to stop

vars == <<requests, handled, apps, open>>

NoApp == [present |-> FALSE, url |-> Empty]

Init ==
  /\ requests = <<>>
  /\ handled = 0
  /\ apps = [id \in Ids |-> NoApp]
  /\ open = TRUE

(* The application a request leaves where it found app. *)
After(app, r) ==
  CASE r.type = "CREATE" -> [present |-> TRUE, url |-> app.url]
    [] r.type = "RUN" /\ app.present -> [app EXCEPT !.url = r.text]
    [] r.type = "RUNSCRIPT" /\ app.present ->
         [app EXCEPT !.url = IF @ = Empty THEN JavaScriptCode ELSE @]
    [] OTHER -> NoApp

Accept(r) ==
  /\ requests' = Append(requests, r)
  /\ UNCHANGED <<handled, apps, open>>

Serve ==
  /\ handled < Len(requests)
  /\ handled' = handled + 1
  /\ LET r == requests[handled + 1]
     IN  apps' = [apps EXCEPT ![r.id] = After(@, r)]
  /\ UNCHANGED <<requests, open>>

(* The test file is an application nobody asked for, under its own identifier. *)
LaunchTestFile(id) ==
  /\ ~apps[id].present
  /\ apps' = [apps EXCEPT ![id] = [present |-> TRUE, url |-> TestFile]]
  /\ UNCHANGED <<requests, handled, open>>

Close ==
  /\ open' = FALSE
  /\ UNCHANGED <<requests, handled, apps>>

Next ==
  \/ \E r \in Request : Accept(r)
  \/ Serve
  \/ \E id \in Ids : LaunchTestFile(id)
  \/ Close

(* What the service may do, and what it must do while it is open. *)
Safe == Init /\ [][Next]_vars
Spec == Safe /\ WF_vars(open /\ Serve)
=============================================================================
