------------------------------ MODULE ToolsProofs ------------------------------
(***************************************************************************)
(* Proofs about the two tools a developer uses: Console, for any number of  *)
(* lines the user types, and CommandClient, for any number of commands.     *)
(***************************************************************************)
EXTENDS Console, CommandClient, SequenceTheorems, TLAPS

(* The console. *)

(* The renderer holds isProcessing_cv_m exactly while it evaluates. *)
MutexInv ==
  /\ cvMutex # "console"
  /\ cvMutex = "renderer" <=> rendererPc = "evaluate"

(* From the prompt to the push, the console thread is the only one that has
   anything to do with lines; isProcessing says so to the renderer's side too. *)
PromptInv ==
  consolePc \in {"prompted", "read", "push", "delete", "release", "free"} =>
    /\ isProcessing
    /\ codeToExecute = <<>>
    /\ rendererPc \notin {"lock", "evaluate"}

(* From the swap to the end of the evaluation, the renderer is: the line it took
   is the only one, and the queue stays empty. *)
ProcessInv ==
  /\ rendererPc \in {"lock", "evaluate"} => isProcessing /\ codeToExecute = <<>>
  /\ rendererPc \notin {"lock", "evaluate"} => localQueue = <<>>
  /\ codeToExecute # <<>> => isProcessing

(* The lines are evaluated in the order of their numbers, and the one that is
   under way is the last one typed. *)
LinesInv ==
  /\ \A k \in 1 .. Len(evaluated) : evaluated[k] = k
  /\ localQueue \in {<<>>, <<typed>>}
  /\ codeToExecute \in {<<>>, <<typed>>}
  /\ Len(evaluated) + Len(localQueue) + Len(codeToExecute) + Len(OnItsWay) = typed

(* The context is deleted by the console thread with no line under way, as its
   last step, or by the destructor, once that thread is over. *)
ContextInv ==
  /\ context = "deleted" =>
       /\ consolePc = "done"
       /\ rendererPc = "gone" \/ (codeToExecute = <<>> /\ localQueue = <<>>)
  /\ rendererPc = "gone" => consolePc = "done" /\ context = "deleted"

(* Nothing is left that could be called when the console thread frees the context,
   unless the renderer was inside it at its release or used a raw pointer since. *)
LeftInv ==
  ~raced =>
    /\ rendererPc = "callback" => left
    /\ consolePc = "free" \/ context = "deleted" => ~left

Inv ==
  /\ TypeOK /\ MutexInv /\ PromptInv /\ ProcessInv /\ LinesInv /\ ContextInv
  /\ LeftInv

USE LinesAssumption

LEMMA InitInv == Init => Inv
<1> SUFFICES ASSUME Init PROVE Inv
  OBVIOUS
<1>1. TypeOK
  <2>1. <<>> \in Seq(1 .. MaxLines)
    BY EmptySeq
  <2>2. typed \in 0 .. MaxLines
    BY DEF Init
  <2>3. /\ isProcessing \in BOOLEAN /\ cvMutex \in {"free", "renderer", "console"}
        /\ context \in {"live", "deleted"} /\ consoleLoop \in BOOLEAN
        /\ mShutdownConsole \in BOOLEAN /\ mRunning \in BOOLEAN
        /\ left \in BOOLEAN /\ raced \in BOOLEAN /\ asserting \in BOOLEAN
        /\ consolePc = "top" /\ rendererPc = "check"
    BY DEF Init
  <2>4. /\ evaluated \in Seq(1 .. MaxLines)
        /\ codeToExecute \in Seq(1 .. MaxLines)
        /\ localQueue \in Seq(1 .. MaxLines)
    BY <2>1 DEF Init
  <2> QED BY <2>1, <2>2, <2>3, <2>4 DEF TypeOK
<1>2. MutexInv /\ PromptInv /\ ProcessInv /\ ContextInv /\ LeftInv
  BY DEF Init, MutexInv, PromptInv, ProcessInv, ContextInv, LeftInv
<1>3. LinesInv
  BY DEF Init, LinesInv, OnItsWay
<1> QED BY <1>1, <1>2, <1>3 DEF Inv

(* What the console thread and the user do. *)
LEMMA ConsoleStep ==
  ASSUME Inv,
         \/ ConsoleNext
         \/ \E exit \in BOOLEAN : ReadLine(exit)
         \/ SigInt
  PROVE  Inv'
<1> USE DEF Inv, TypeOK, MutexInv, PromptInv, ProcessInv, LinesInv, ContextInv,
            LeftInv, OnItsWay, lines, held, flags, Aborted
<1>1. CASE LoopTop
  BY <1>1 DEF LoopTop
<1>2. CASE Prompt
  BY <1>2 DEF Prompt
<1>3. CASE CheckShutdown
  BY <1>3 DEF CheckShutdown
<1>4. ASSUME NEW exit \in BOOLEAN, ReadLine(exit)
      PROVE  Inv'
  BY <1>4 DEF ReadLine
<1>5. CASE BeginDelete
  BY <1>5 DEF BeginDelete
<1>6. CASE ReleaseProtected \/ ReleaseAsserts
  BY <1>6 DEF ReleaseProtected, ReleaseAsserts, InsideContext
<1>7. CASE FreeContext
  BY <1>7 DEF FreeContext, InsideContext
<1>8. CASE PushLine
  BY <1>8 DEF PushLine
<1>9. CASE SigInt
  <2>1. /\ consoleLoop' = FALSE
        /\ UNCHANGED <<typed, evaluated, codeToExecute, localQueue, isProcessing,
                       cvMutex, context, left, raced, mRunning, mShutdownConsole,
                       asserting, consolePc, rendererPc>>
    BY <1>9 DEF SigInt
  <2>2. TypeOK'
    <3>1. (/\ typed \in 0 .. MaxLines
           /\ evaluated \in Seq(1 .. MaxLines)
           /\ codeToExecute \in Seq(1 .. MaxLines)
           /\ localQueue \in Seq(1 .. MaxLines))'
      BY <2>1
    <3>2. (/\ isProcessing \in BOOLEAN /\ left \in BOOLEAN /\ raced \in BOOLEAN
           /\ consoleLoop \in BOOLEAN /\ mShutdownConsole \in BOOLEAN
           /\ mRunning \in BOOLEAN /\ asserting \in BOOLEAN)'
      BY <2>1
    <3>3. (/\ cvMutex \in {"free", "renderer", "console"}
           /\ context \in {"live", "deleted"}
           /\ consolePc \in {"top", "wait", "prompted", "read", "push", "delete",
                             "release", "free", "done", "aborted"}
           /\ rendererPc \in {"check", "swap", "lock", "evaluate", "run", "callback",
                              "raw", "ended", "join", "gone"})'
      BY <2>1
    <3> QED BY ONLY <3>1, <3>2, <3>3 DEF TypeOK
  <2>3. (MutexInv /\ PromptInv /\ ProcessInv)'
    BY <2>1
  <2>4. (LinesInv /\ ContextInv /\ LeftInv)'
    BY <2>1
  <2> QED BY <2>2, <2>3, <2>4
<1> QED BY <1>1, <1>2, <1>3, <1>4, <1>5, <1>6, <1>7, <1>8, <1>9 DEF ConsoleNext

(* What the renderer thread does. *)
LEMMA RendererStep ==
  ASSUME Inv, RendererNext \/ Terminate
  PROVE  Inv'
<1> USE DEF Inv, TypeOK, MutexInv, PromptInv, ProcessInv, LinesInv, ContextInv,
            LeftInv, OnItsWay, lines, held, flags, Aborted
<1>1. CASE CheckRunning
  BY <1>1 DEF CheckRunning
<1>2. CASE SwapQueue
  BY <1>2 DEF SwapQueue
<1>3. CASE LockProcessing
  BY <1>3 DEF LockProcessing
<1>4. CASE EvaluateLine
  <2>1. localQueue = <<typed>> /\ typed \in 1 .. MaxLines
    BY <1>4 DEF EvaluateLine
  <2>2. evaluated' = Append(evaluated, typed) /\ localQueue' = <<>>
    BY <1>4, <2>1 DEF EvaluateLine
  <2>3. /\ codeToExecute = <<>> /\ OnItsWay = <<>>
        /\ Len(evaluated) + 1 = typed
    BY <1>4, <2>1 DEF EvaluateLine
  <2>4. TypeOK'
    BY <1>4, <2>1, <2>2 DEF EvaluateLine
  <2>5. LinesInv'
    BY <1>4, <2>2, <2>3 DEF EvaluateLine
  <2>6. (MutexInv /\ PromptInv /\ ProcessInv /\ ContextInv /\ LeftInv)'
    BY <1>4, <2>2 DEF EvaluateLine
  <2> QED BY <2>4, <2>5, <2>6
<1>5. CASE FinishProcessing
  BY <1>5 DEF FinishProcessing
<1>6. CASE BeginDestructor
  BY <1>6 DEF BeginDestructor
<1>7. CASE JoinConsole
  BY <1>7 DEF JoinConsole
<1>8. CASE EnterContext
  BY <1>8 DEF EnterContext
<1>9. CASE ReturnCallback
  BY <1>9 DEF ReturnCallback
<1>10. CASE UseRawPointer
  BY <1>10 DEF UseRawPointer
<1>11. CASE EndTurn
  BY <1>11 DEF EndTurn
<1>12. CASE Terminate
  <2>1. /\ mRunning' = FALSE
        /\ UNCHANGED <<typed, evaluated, codeToExecute, localQueue, isProcessing,
                       cvMutex, context, left, raced, consoleLoop, mShutdownConsole,
                       asserting, consolePc, rendererPc>>
    BY <1>12 DEF Terminate
  <2>2. TypeOK'
    <3>1. (/\ typed \in 0 .. MaxLines
           /\ evaluated \in Seq(1 .. MaxLines)
           /\ codeToExecute \in Seq(1 .. MaxLines)
           /\ localQueue \in Seq(1 .. MaxLines))'
      BY <2>1
    <3>2. (/\ isProcessing \in BOOLEAN /\ left \in BOOLEAN /\ raced \in BOOLEAN
           /\ consoleLoop \in BOOLEAN /\ mShutdownConsole \in BOOLEAN
           /\ mRunning \in BOOLEAN /\ asserting \in BOOLEAN)'
      BY <2>1
    <3>3. (/\ cvMutex \in {"free", "renderer", "console"}
           /\ context \in {"live", "deleted"}
           /\ consolePc \in {"top", "wait", "prompted", "read", "push", "delete",
                             "release", "free", "done", "aborted"}
           /\ rendererPc \in {"check", "swap", "lock", "evaluate", "run", "callback",
                              "raw", "ended", "join", "gone"})'
      BY <2>1
    <3> QED BY ONLY <3>1, <3>2, <3>3 DEF TypeOK
  <2>3. (MutexInv /\ PromptInv /\ ProcessInv)'
    BY <2>1
  <2>4. (LinesInv /\ ContextInv /\ LeftInv)'
    BY <2>1
  <2> QED BY <2>2, <2>3, <2>4
<1> QED BY <1>1, <1>2, <1>3, <1>4, <1>5, <1>6, <1>7, <1>8, <1>9, <1>10, <1>11, <1>12
        DEF RendererNext
-----------------------------------------------------------------------------
LEMMA ConsoleInv == Spec => []Inv
<1>1. Inv /\ [Next]_vars => Inv'
  <2> SUFFICES ASSUME Inv, [Next]_vars PROVE Inv'
    OBVIOUS
  <2>1. CASE UNCHANGED vars
    BY <2>1 DEF vars, Inv, TypeOK, MutexInv, PromptInv, ProcessInv, LinesInv, ContextInv,
                LeftInv, OnItsWay
  <2> QED BY <2>1, ConsoleStep, RendererStep DEF Next
<1> QED BY InitInv, <1>1, PTL DEF Spec

(* A line is evaluated in a context that lives, and so is every callback of the
   console's scripts unless the deletion met the renderer inside the context or a
   raw pointer was used after it began, in a build with assertions or without; one line at most is between the user and its evaluation; after the
   destructor the console thread is over and its context gone. *)
THEOREM ContextProtected == Spec => []ConsoleProtected
<1>1. Inv => ConsoleProtected
  <2> SUFFICES ASSUME Inv PROVE ConsoleProtected
    OBVIOUS
  <2>1. ContextLiveWhenUsed
    BY DEF Inv, TypeOK, ProcessInv, ContextInv, LeftInv, ContextLiveWhenUsed
  <2>2. OneLineInFlight
    <3>1. Len(<<>>) = 0 /\ Len(<<typed>>) = 1
      OBVIOUS
    <3>2. /\ Len(localQueue) \in {0, 1} /\ Len(codeToExecute) \in {0, 1}
          /\ Len(OnItsWay) \in {0, 1}
          /\ Len(localQueue) = 1 => Len(codeToExecute) = 0 /\ Len(OnItsWay) = 0
          /\ Len(codeToExecute) = 1 => Len(OnItsWay) = 0
      BY <3>1 DEF Inv, PromptInv, ProcessInv, LinesInv, OnItsWay
    <3>3. \A i, j, k \in {0, 1} : (i = 1 => j = 0 /\ k = 0) /\ (j = 1 => k = 0)
                                 => i + j + k <= 1
      OBVIOUS
    <3>4. Len(localQueue) + Len(codeToExecute) + Len(OnItsWay) <= 1
      BY <3>2, <3>3
    <3>5. Len(OnItsWay) + Len(codeToExecute) + Len(localQueue)
            = Len(localQueue) + Len(codeToExecute) + Len(OnItsWay)
      BY <3>2
    <3> QED BY <3>4, <3>5 DEF OneLineInFlight
  <2>3. ConsoleGoneBeforeRenderer
    BY DEF Inv, ContextInv, ConsoleGoneBeforeRenderer
  <2> QED BY <2>1, <2>2, <2>3 DEF Inv, ConsoleProtected
<1> QED BY ConsoleInv, <1>1, PTL

(* Every line typed is evaluated once and in the order of typing, or is still on
   its way: no swap of the queues loses, repeats or overtakes one. *)
THEOREM LinesInOrder == Spec => []EvaluatedInOrder
<1>1. Inv => EvaluatedInOrder
  <2> SUFFICES ASSUME Inv PROVE EvaluatedInOrder
    OBVIOUS
  <2> DEFINE all == [k \in 1 .. typed |-> k]
  <2>1. /\ localQueue # <<>> => codeToExecute = <<>> /\ OnItsWay = <<>>
        /\ codeToExecute # <<>> => OnItsWay = <<>>
        /\ localQueue \in {<<>>, <<typed>>} /\ codeToExecute \in {<<>>, <<typed>>}
        /\ OnItsWay \in {<<>>, <<typed>>}
        /\ Len(evaluated) + Len(localQueue) + Len(codeToExecute) + Len(OnItsWay) = typed
    BY DEF Inv, PromptInv, ProcessInv, LinesInv, OnItsWay
  <2>2. evaluated \in Seq(Nat) /\ typed \in Nat /\ all \in Seq(Nat)
    BY DEF Inv, TypeOK
  <2>3. \A k \in 1 .. Len(evaluated) : evaluated[k] = k
    BY DEF Inv, LinesInv
  <2>4. CASE localQueue = <<>> /\ codeToExecute = <<>> /\ OnItsWay = <<>>
    <3>1. evaluated = all
      BY <2>1, <2>2, <2>3, <2>4
    <3> QED BY <2>2, <2>4, <3>1 DEF EvaluatedInOrder
  <2>5. ASSUME evaluated \o localQueue \o codeToExecute \o OnItsWay = evaluated \o <<typed>>,
               Len(evaluated) + 1 = typed
        PROVE  EvaluatedInOrder
    <3>1. evaluated \o <<typed>> = all
      BY <2>2, <2>3, <2>5
    <3> QED BY <2>5, <3>1 DEF EvaluatedInOrder
  <2>6. ASSUME NEW s \in Seq(Nat) PROVE s \o <<>> = s
    OBVIOUS
  <2>7. evaluated \o <<typed>> \in Seq(Nat)
    BY <2>2
  <2>8. CASE localQueue = <<typed>>
    BY <2>1, <2>2, <2>5, <2>6, <2>7, <2>8
  <2>9. CASE codeToExecute = <<typed>>
    BY <2>1, <2>2, <2>5, <2>6, <2>7, <2>9
  <2>10. CASE OnItsWay = <<typed>>
    BY <2>1, <2>2, <2>5, <2>6, <2>7, <2>10
  <2> QED BY <2>1, <2>4, <2>8, <2>9, <2>10
<1> QED BY ConsoleInv, <1>1, PTL
-----------------------------------------------------------------------------
(* The command client. *)

(* sendCommand has returned once for every command but the one under way. *)
CountInv ==
  Len(returned) = IF pc \in {"sent", "wait"} THEN command - 1 ELSE command

(* From the last message received through those under way to the client and to
   the server, the numbers grow; none is beyond the last command read. *)
StreamInv ==
  /\ \A i \in 1 .. Len(toServer) :
       /\ mLastResponse < toServer[i].command
       /\ toServer[i].command <= command
       /\ \A j \in 1 .. (i - 1) : toServer[j].command < toServer[i].command
  /\ \A i \in 1 .. Len(toClient) :
       /\ mLastResponse < toClient[i]
       /\ toClient[i] <= command
       /\ \A j \in 1 .. (i - 1) : toClient[j] < toClient[i]
       /\ \A j \in 1 .. Len(toServer) : toClient[i] < toServer[j].command

(* What was returned is not newer than the last message, and older than that
   one when the flag is up during a wait: then it arrived in this very wait. *)
ReturnedInv ==
  /\ RepliesReturnedOnce
  /\ \A k \in Succeeded : returned[k].response <= mLastResponse
  /\ pc = "wait" /\ mResponseReceived =>
       /\ mLastResponse # 0
       /\ \A k \in Succeeded : returned[k].response < mLastResponse

ClientInv == ClientTypeOK /\ CountInv /\ StreamInv /\ ReturnedInv

USE CommandAssumption

LEMMA ClientInitInv == ClientInit => ClientInv
<1> SUFFICES ASSUME ClientInit PROVE ClientInv
  OBVIOUS
<1>1. ClientTypeOK
  <2>1. /\ toServer \in Seq(Message) /\ toClient \in Seq(Command)
        /\ returned \in Seq([ok : BOOLEAN, response : 0 .. MaxCommands])
    BY EmptySeq DEF ClientInit
  <2>2. /\ command \in 0 .. MaxCommands /\ response \in 0 .. command
        /\ mLastResponse \in 0 .. command
    BY DEF ClientInit
  <2>3. /\ pc = "connect" /\ mState = "none" /\ mResponseReceived = FALSE
        /\ linked = FALSE
    BY DEF ClientInit
  <2> QED BY <2>1, <2>2, <2>3 DEF ClientTypeOK
<1>2. CountInv /\ StreamInv /\ ReturnedInv
  BY DEF ClientInit, CountInv, StreamInv, ReturnedInv, RepliesReturnedOnce,
     Succeeded
<1> QED BY <1>1, <1>2 DEF ClientInv

LEMMA Typed ==
  ASSUME ClientInv
  PROVE  /\ command \in Nat /\ command <= MaxCommands /\ response \in 0 .. command
         /\ mLastResponse \in Nat /\ mLastResponse <= command
         /\ Len(toServer) \in Nat /\ Len(toClient) \in Nat /\ Len(returned) \in Nat
         /\ \A i \in 1 .. Len(toServer) :
              toServer[i] \in Message /\ toServer[i].command \in Command
         /\ \A i \in 1 .. Len(toServer) : toServer[i].command \in Nat
         /\ \A i \in 1 .. Len(toClient) : toClient[i] \in Command /\ toClient[i] \in Nat
         /\ \A k \in 1 .. Len(returned) :
              returned[k].ok \in BOOLEAN /\ returned[k].response \in Nat
         /\ Succeeded \subseteq 1 .. Len(returned)
<1>1. /\ toServer \in Seq(Message) /\ toClient \in Seq(Command)
      /\ returned \in Seq([ok : BOOLEAN, response : 0 .. MaxCommands])
  BY DEF ClientInv, ClientTypeOK
<1>2. /\ command \in Nat /\ command <= MaxCommands /\ response \in 0 .. command
      /\ mLastResponse \in Nat /\ mLastResponse <= command
  BY DEF ClientInv, ClientTypeOK
<1>3. \A m \in Message : m.command \in Command
  BY DEF Message
<1>4. Command \subseteq Nat
  BY DEF Command
<1>5. \A i \in 1 .. Len(toServer) : toServer[i] \in Message
  BY <1>1
<1>6. \A i \in 1 .. Len(toClient) : toClient[i] \in Command
  BY <1>1, ElementOfSeq
<1>7. \A k \in 1 .. Len(returned) :
        returned[k] \in [ok : BOOLEAN, response : 0 .. MaxCommands]
  BY <1>1, ElementOfSeq
<1>8. Succeeded \subseteq 1 .. Len(returned)
  BY DEF Succeeded
<1>9. Len(toServer) \in Nat /\ Len(toClient) \in Nat /\ Len(returned) \in Nat
  BY <1>1, LenProperties
<1>10. /\ \A i \in 1 .. Len(toServer) :
            toServer[i].command \in Command /\ toServer[i].command \in Nat
       /\ \A i \in 1 .. Len(toClient) : toClient[i] \in Nat
  BY <1>3, <1>4, <1>5, <1>6
<1>11. \A k \in 1 .. Len(returned) :
         returned[k].ok \in BOOLEAN /\ returned[k].response \in Nat
  BY <1>7
<1> QED BY <1>2, <1>5, <1>6, <1>8, <1>9, <1>10, <1>11

LEMMA TailFacts ==
  ASSUME NEW S, NEW s \in Seq(S), s # <<>>
  PROVE  /\ Tail(s) \in Seq(S) /\ Len(s) \in Nat /\ Len(Tail(s)) = Len(s) - 1
         /\ 1 \in 1 .. Len(s) /\ Head(s) = s[1]
         /\ \A i \in 1 .. Len(Tail(s)) : i + 1 \in 1 .. Len(s) /\ Tail(s)[i] = s[i + 1]
OBVIOUS

LEMMA AppendFacts ==
  ASSUME NEW S, NEW s \in Seq(S), NEW e \in S
  PROVE  /\ Append(s, e) \in Seq(S) /\ Len(s) \in Nat /\ Len(Append(s, e)) = Len(s) + 1
         /\ \A i \in 1 .. Len(s) : Append(s, e)[i] = s[i]
         /\ Append(s, e)[Len(s) + 1] = e
         /\ \A i \in 1 .. Len(Append(s, e)) : i \in 1 .. Len(s) \/ i = Len(s) + 1
OBVIOUS

(* A result that is no success leaves the successes as they are. *)
LEMMA ReturnTyped ==
  ASSUME ClientInv, NEW ok \in BOOLEAN, NEW r \in 0 .. command, Return(ok, r)
  PROVE  /\ returned' \in Seq([ok : BOOLEAN, response : 0 .. MaxCommands])
         /\ response' = r /\ pc' \in {"loop", "end"}
         /\ Len(returned) \in Nat /\ Len(returned') = Len(returned) + 1
         /\ \A k \in 1 .. Len(returned) : returned'[k] = returned[k]
         /\ returned'[Len(returned) + 1] = [ok |-> ok, response |-> r]
         /\ Succeeded' = IF ok THEN Succeeded \cup {Len(returned) + 1} ELSE Succeeded
<1> DEFINE e == [ok |-> ok, response |-> r]
           R == [ok : BOOLEAN, response : 0 .. MaxCommands]
<1>1. e \in R /\ returned \in Seq(R)
  BY DEF ClientInv, ClientTypeOK
<1>2. returned' = Append(returned, e) /\ response' = r /\ pc' \in {"loop", "end"}
  BY DEF Return
<1> HIDE DEF R, e
<1>3. /\ Append(returned, e) \in Seq(R) /\ Len(returned) \in Nat
      /\ Len(returned') = Len(returned) + 1
      /\ \A k \in 1 .. Len(returned) : returned'[k] = returned[k]
      /\ returned'[Len(returned) + 1] = e
  BY <1>1, <1>2, AppendFacts
<1>4. Succeeded' = IF ok THEN Succeeded \cup {Len(returned) + 1} ELSE Succeeded
  BY <1>3 DEF Succeeded, e
<1> QED BY <1>2, <1>3, <1>4 DEF R, e

LEMMA MainStep ==
  ASSUME ClientInv, MainNext
  PROVE  ClientInv'
<1> USE DEF network, received
<1>1. CASE RunReturns \/ TestState
  BY <1>1 DEF RunReturns, TestState, ClientInv, ClientTypeOK, CountInv, StreamInv,
     ReturnedInv, RepliesReturnedOnce, Succeeded
<1>2. CASE ReadEmpty \/ WaitTimesOut
  <2>1. /\ Return(FALSE, response) /\ response \in 0 .. command
        /\ UNCHANGED <<mState, network, received>>
        /\ command' \in 0 .. MaxCommands /\ command <= command'
        /\ Len(returned) + 1 = command'
    <3>1. /\ Return(FALSE, response) /\ UNCHANGED <<mState, network, received>>
      BY <1>2 DEF ReadEmpty, WaitTimesOut
    <3>2. response \in 0 .. command /\ command \in Nat
      BY Typed
    <3>3. CASE ReadEmpty
      <4>1. pc = "read" /\ command < MaxCommands /\ command' = command + 1
        BY <3>3 DEF ReadEmpty
      <4>2. Len(returned) = command
        BY <4>1 DEF ClientInv, CountInv
      <4>3. /\ command' \in 0 .. MaxCommands /\ command <= command'
            /\ Len(returned) + 1 = command'
        BY <3>2, <4>1, <4>2
      <4> QED BY <3>1, <3>2, <4>3, Zenon
    <3>4. CASE WaitTimesOut
      <4>1. pc = "wait" /\ command' = command
        BY <3>4 DEF WaitTimesOut
      <4>2. Len(returned) = command - 1
        BY <4>1 DEF ClientInv, CountInv
      <4>3. command \in 0 .. MaxCommands
        BY DEF ClientInv, ClientTypeOK
      <4>4. /\ command' \in 0 .. MaxCommands /\ command <= command'
            /\ Len(returned) + 1 = command'
        BY <3>2, <4>1, <4>2, <4>3
      <4> QED BY <3>1, <3>2, <4>4, Zenon
    <3> QED BY <1>2, <3>3, <3>4
  <2>2. /\ returned' \in Seq([ok : BOOLEAN, response : 0 .. MaxCommands])
        /\ response' = response /\ pc' \in {"loop", "end"}
        /\ Len(returned') = Len(returned) + 1
        /\ \A k \in 1 .. Len(returned) : returned'[k] = returned[k]
        /\ Succeeded' = Succeeded
    BY <2>1, ReturnTyped
  <2>3. ClientTypeOK'
    BY <2>1, <2>2 DEF ClientInv, ClientTypeOK
  <2>4. CountInv'
    BY <2>1, <2>2 DEF CountInv
  <2>5. StreamInv'
    BY <2>1, Typed, SMTT(30) DEF ClientInv, StreamInv
  <2>6. ReturnedInv'
    <3>1. \A k \in Succeeded : returned'[k] = returned[k]
      BY <2>2 DEF Succeeded
    <3> QED BY <2>1, <2>2, <3>1 DEF ClientInv, ReturnedInv, RepliesReturnedOnce
  <2> QED BY <2>3, <2>4, <2>5, <2>6 DEF ClientInv
<1>3. ASSUME NEW stop \in BOOLEAN, SendMessage(stop)
      PROVE  ClientInv'
  <2> DEFINE m == [command |-> command + 1, stop |-> stop]
  <2>1. /\ command' = command + 1 /\ command' \in Command /\ m \in Message
        /\ toServer \in Seq(Message) /\ pc' = "sent" /\ pc = "read"
        /\ UNCHANGED <<response, mState, linked, toClient, received, returned>>
    BY <1>3 DEF SendMessage, ClientInv, ClientTypeOK, Command, Message
  <2>2. CASE UNCHANGED toServer
    <3>1. ClientTypeOK'
      BY <2>1, <2>2, Typed DEF ClientInv, ClientTypeOK, Command
    <3>3. CountInv'
      BY <2>1, Typed DEF ClientInv, CountInv
    <3>4. ReturnedInv'
      BY <2>1 DEF ClientInv, ReturnedInv, RepliesReturnedOnce, Succeeded
    <3>2. StreamInv'
      BY <2>1, <2>2, Typed DEF ClientInv, StreamInv
    <3> QED BY <3>1, <3>2, <3>3, <3>4 DEF ClientInv
  <2>3. CASE toServer' = Append(toServer, m)
    <3>1. /\ toServer' \in Seq(Message) /\ Len(toServer) \in Nat
          /\ Len(toServer') = Len(toServer) + 1
          /\ \A i \in 1 .. Len(toServer) : toServer'[i] = toServer[i]
          /\ toServer'[Len(toServer) + 1] = m
      BY <2>1, <2>3, AppendFacts
    <3>2. ClientTypeOK' /\ CountInv' /\ ReturnedInv'
      BY <2>1, <3>1 DEF ClientInv, ClientTypeOK, CountInv, ReturnedInv,
         RepliesReturnedOnce, Succeeded, Command
    <3>3. StreamInv'
      <4>1. /\ \A i \in 1 .. Len(toServer) : toServer[i].command \in Nat
            /\ \A i \in 1 .. Len(toClient) : toClient[i] \in Nat
            /\ mLastResponse \in Nat /\ mLastResponse <= command /\ command \in Nat
        BY Typed
      <4>2. m.command = command + 1
        OBVIOUS
      <4>3. ASSUME NEW i \in 1 .. Len(toServer')
            PROVE  /\ mLastResponse < toServer'[i].command
                   /\ toServer'[i].command <= command'
                   /\ \A j \in 1 .. (i - 1) : toServer'[j].command < toServer'[i].command
        <5>1. CASE i \in 1 .. Len(toServer)
          <6>1. /\ mLastResponse < toServer[i].command /\ toServer[i].command <= command
                /\ \A j \in 1 .. (i - 1) : toServer[j].command < toServer[i].command
            BY <5>1 DEF ClientInv, StreamInv
          <6>2. \A j \in 1 .. (i - 1) : j \in 1 .. Len(toServer)
            BY <3>1, <5>1
          <6>3. /\ toServer'[i] = toServer[i]
                /\ \A j \in 1 .. (i - 1) : toServer'[j] = toServer[j]
            BY <3>1, <5>1, <6>2
          <6>4. toServer[i].command <= command'
            BY <2>1, <4>1, <5>1, <6>1
          <6> QED BY <6>1, <6>3, <6>4
        <5>2. CASE i = Len(toServer) + 1
          BY <2>1, <3>1, <4>1, <4>2, <5>2 DEF ClientInv, StreamInv
        <5> QED BY <3>1, <5>1, <5>2
      <4>4. ASSUME NEW i \in 1 .. Len(toClient)
            PROVE  /\ toClient[i] <= command'
                   /\ \A j \in 1 .. Len(toServer') : toClient[i] < toServer'[j].command
        BY <2>1, <3>1, <4>1, <4>2, SMTT(30) DEF ClientInv, StreamInv
      <4> QED BY <2>1, <4>3, <4>4 DEF ClientInv, StreamInv
    <3> QED BY <3>2, <3>3 DEF ClientInv
  <2> QED BY <1>3, <2>1, <2>2, <2>3 DEF SendMessage
<1>4. CASE BeginWait
  BY <1>4 DEF BeginWait, ClientInv, ClientTypeOK, CountInv, StreamInv, ReturnedInv,
              RepliesReturnedOnce, Succeeded
<1>5. CASE GotResponse
  <2>1. /\ Return(TRUE, mLastResponse) /\ mLastResponse \in 0 .. command
        /\ mLastResponse # 0 /\ command \in Nat
        /\ UNCHANGED <<command, mState, network, received>>
        /\ Len(returned) + 1 = command
    <3>1. /\ Return(TRUE, mLastResponse) /\ UNCHANGED <<command, mState, network,
                                                        received>>
          /\ pc = "wait" /\ mResponseReceived
      BY <1>5 DEF GotResponse
    <3>2. mLastResponse \in 0 .. command /\ command \in Nat
      BY DEF ClientInv, ClientTypeOK
    <3>3. mLastResponse # 0
      BY <3>1 DEF ClientInv, ReturnedInv
    <3>4. Len(returned) = command - 1
      BY <3>1 DEF ClientInv, CountInv
    <3>5. Len(returned) + 1 = command
      BY <3>2, <3>4
    <3>6. UNCHANGED <<command, mState, network, received>>
      BY <3>1
    <3> QED BY <3>1, <3>2, <3>3, <3>5, <3>6, Zenon
  <2> DEFINE n == Len(returned) + 1
  <2>2. /\ returned' \in Seq([ok : BOOLEAN, response : 0 .. MaxCommands])
        /\ response' = mLastResponse /\ pc' \in {"loop", "end"}
        /\ Len(returned) \in Nat /\ Len(returned') = n
        /\ \A k \in 1 .. Len(returned) : returned'[k] = returned[k]
        /\ returned'[n].response = mLastResponse
        /\ Succeeded' = Succeeded \cup {n}
    <3>1. Return(TRUE, mLastResponse) /\ mLastResponse \in 0 .. command
      BY <2>1
    <3>2. /\ returned' \in Seq([ok : BOOLEAN, response : 0 .. MaxCommands])
          /\ response' = mLastResponse /\ pc' \in {"loop", "end"}
          /\ Len(returned) \in Nat /\ Len(returned') = n
          /\ \A k \in 1 .. Len(returned) : returned'[k] = returned[k]
          /\ returned'[n] = [ok |-> TRUE, response |-> mLastResponse]
          /\ Succeeded' = IF TRUE THEN Succeeded \cup {n} ELSE Succeeded
      BY <3>1, ReturnTyped, Zenon
    <3> QED BY <3>2
  <2>3. ClientTypeOK'
    BY <2>1, <2>2 DEF ClientInv, ClientTypeOK
  <2>4. CountInv'
    BY <2>1, <2>2 DEF CountInv
  <2>5. StreamInv'
    BY <2>1 DEF ClientInv, StreamInv
  <2>6. ReturnedInv'
    <3>1. /\ \A k \in Succeeded : k \in 1 .. Len(returned) /\ returned'[k] = returned[k]
          /\ \A k \in Succeeded : returned[k].response < mLastResponse
      BY <1>5, <2>2 DEF Succeeded, GotResponse, ClientInv, ReturnedInv
    <3>2. /\ \A k \in Succeeded' : returned'[k].response <= mLastResponse
          /\ \A k \in Succeeded' : returned'[k].response <= k
      <4>1. \A k \in Succeeded : returned[k].response <= k
        BY DEF ClientInv, ReturnedInv, RepliesReturnedOnce
      <4>2. \A k \in Succeeded : returned[k].response \in Nat
        BY <3>1, Typed
      <4>3. mLastResponse <= n /\ mLastResponse \in Nat
        BY <2>1
      <4>4. returned'[n].response <= mLastResponse /\ returned'[n].response <= n
        BY <2>2, <4>3
      <4>5. \A k \in Succeeded : returned'[k].response <= mLastResponse
                               /\ returned'[k].response <= k
        BY <3>1, <4>1, <4>2, <4>3
      <4> QED BY <2>2, <4>4, <4>5
    <3>3. \A j, k \in Succeeded' : j < k => returned'[j].response < returned'[k].response
      BY <2>2, <3>1, SMTT(30) DEF ClientInv, ReturnedInv, RepliesReturnedOnce
    <3> QED BY <2>1, <2>2, <3>2, <3>3 DEF ReturnedInv, RepliesReturnedOnce
  <2> QED BY <2>3, <2>4, <2>5, <2>6 DEF ClientInv
<1> QED BY <1>1, <1>2, <1>3, <1>4, <1>5 DEF MainNext, Waiting

(* The connection's thread, the server and the network. *)
LEMMA NetworkStep ==
  ASSUME ClientInv, OnOpen \/ OnFail \/ OnClose \/ OnMessage \/ Serve \/ LinkLost
  PROVE  ClientInv'
<1> USE DEF network, received
<1>1. CASE OnOpen \/ OnFail \/ OnClose
  <2>1. /\ UNCHANGED <<pc, command, response, toServer, toClient, received,
                       returned>>
        /\ linked' \in BOOLEAN /\ mState' \in {"open", "fail", "close"}
    BY <1>1 DEF OnOpen, OnFail, OnClose, ClientInv, ClientTypeOK
  <2>2. ClientTypeOK'
    BY <2>1 DEF ClientInv, ClientTypeOK
  <2>3. CountInv' /\ StreamInv' /\ ReturnedInv'
    BY <2>1 DEF ClientInv, CountInv, StreamInv, ReturnedInv, RepliesReturnedOnce,
       Succeeded
  <2> QED BY <2>2, <2>3 DEF ClientInv
<1>2. CASE OnMessage
  <2>1. /\ toClient \in Seq(Command) /\ toClient # <<>> /\ mResponseReceived' = TRUE
        /\ mLastResponse' = Head(toClient) /\ toClient' = Tail(toClient)
        /\ UNCHANGED <<pc, command, response, mState, linked, toServer, returned>>
    BY <1>2 DEF OnMessage, ClientInv, ClientTypeOK
  <2>2. /\ toClient' \in Seq(Command) /\ Len(toClient) \in Nat
        /\ Len(toClient') = Len(toClient) - 1
        /\ 1 \in 1 .. Len(toClient) /\ mLastResponse' = toClient[1]
        /\ \A i \in 1 .. Len(toClient') :
             i + 1 \in 1 .. Len(toClient) /\ toClient'[i] = toClient[i + 1]
    BY <2>1, TailFacts
  <2>3. /\ mLastResponse < mLastResponse' /\ mLastResponse' <= command
        /\ mLastResponse' \in Nat
    BY <2>2, Typed DEF ClientInv, StreamInv
  <2>4. ClientTypeOK'
    BY <2>1, <2>2, <2>3, Typed DEF ClientInv, ClientTypeOK
  <2>5. CountInv'
    BY <2>1 DEF ClientInv, CountInv
  <2>6. StreamInv'
    <3>1. ASSUME NEW i \in 1 .. Len(toServer)
          PROVE  /\ mLastResponse' < toServer[i].command
                 /\ toServer[i].command <= command
                 /\ \A j \in 1 .. (i - 1) : toServer[j].command < toServer[i].command
      BY <2>2 DEF ClientInv, StreamInv
    <3>2. ASSUME NEW i \in 1 .. Len(toClient')
          PROVE  /\ mLastResponse' < toClient'[i]
                 /\ toClient'[i] <= command
                 /\ \A j \in 1 .. (i - 1) : toClient'[j] < toClient'[i]
                 /\ \A j \in 1 .. Len(toServer) : toClient'[i] < toServer[j].command
      <4>1. i + 1 \in 1 .. Len(toClient) /\ toClient'[i] = toClient[i + 1]
        BY <2>2
      <4>2. /\ toClient[i + 1] <= command
            /\ \A j \in 1 .. i : toClient[j] < toClient[i + 1]
            /\ \A j \in 1 .. Len(toServer) : toClient[i + 1] < toServer[j].command
        <5>1. \A k \in 1 .. Len(toClient) :
                /\ toClient[k] <= command
                /\ \A j \in 1 .. (k - 1) : toClient[j] < toClient[k]
                /\ \A j \in 1 .. Len(toServer) : toClient[k] < toServer[j].command
          BY DEF ClientInv, StreamInv
        <5>2. (i + 1) - 1 = i
          BY <2>2
        <5> QED BY <4>1, <5>1, <5>2
      <4>3. 1 \in 1 .. i /\ i \in Nat
        BY <2>2
      <4>4. \A j \in 1 .. (i - 1) :
              j + 1 \in 1 .. i /\ toClient'[j] = toClient[j + 1]
        BY <2>2
      <4> QED BY <2>2, <4>1, <4>2, <4>3, <4>4
    <3> QED BY <2>1, <3>1, <3>2 DEF StreamInv
  <2>7. ReturnedInv'
    <3>1. \A k \in Succeeded : returned[k].response \in Nat
      BY Typed
    <3>2. \A k \in Succeeded : returned[k].response < mLastResponse'
      BY <2>3, <3>1, Typed DEF ClientInv, ReturnedInv
    <3>3. \A k \in Succeeded : returned[k].response <= mLastResponse'
      BY <2>3, <3>1, <3>2
    <3>4. UNCHANGED <<returned, Succeeded>> /\ mLastResponse' # 0
      BY <2>1, <2>3, Typed DEF Succeeded
    <3>5. RepliesReturnedOnce'
      BY <3>4 DEF ClientInv, ReturnedInv, RepliesReturnedOnce
    <3> QED BY <3>2, <3>3, <3>4, <3>5 DEF ReturnedInv
  <2> QED BY <2>4, <2>5, <2>6, <2>7 DEF ClientInv
<1>3. CASE Serve
  <2>1. /\ toServer \in Seq(Message) /\ toServer # <<>> /\ toServer' = Tail(toServer)
        /\ UNCHANGED <<pc, command, response, mState, received, returned>>
    BY <1>3 DEF Serve, ClientInv, ClientTypeOK
  <2>2. /\ toServer' \in Seq(Message) /\ Len(toServer) \in Nat
        /\ Len(toServer') = Len(toServer) - 1
        /\ 1 \in 1 .. Len(toServer) /\ Head(toServer) = toServer[1]
        /\ \A i \in 1 .. Len(toServer') :
             i + 1 \in 1 .. Len(toServer) /\ toServer'[i] = toServer[i + 1]
    BY <2>1, TailFacts
  <2> DEFINE answer == toServer[1].command
  <2>3. /\ answer \in Command /\ answer \in Nat /\ mLastResponse < answer
        /\ answer <= command
        /\ \A i \in 1 .. Len(toServer') : answer < toServer'[i].command
        /\ \A i \in 1 .. Len(toClient) : toClient[i] < answer
    <3>1. \A i \in 1 .. Len(toServer') :
            \A j \in 1 .. i : toServer[j].command < toServer[i + 1].command
      BY <2>2 DEF ClientInv, StreamInv
    <3>2. \A i \in 1 .. Len(toServer') : 1 \in 1 .. i
      BY <2>2
    <3>3. \A i \in 1 .. Len(toServer') : answer < toServer'[i].command
      BY <2>2, <3>1, <3>2
    <3> QED BY <2>2, <3>3, Typed DEF ClientInv, StreamInv
  <2>5. toClient' = toClient \/ toClient' = Append(toClient, answer)
    BY <1>3, <2>2 DEF Serve
  <2>6. /\ toClient' \in Seq(Command) /\ Len(toClient) \in Nat
        /\ \A i \in 1 .. Len(toClient') :
             \/ i \in 1 .. Len(toClient) /\ toClient'[i] = toClient[i]
             \/ i = Len(toClient) + 1 /\ toClient'[i] = answer
    <3>1. toClient \in Seq(Command)
      BY DEF ClientInv, ClientTypeOK
    <3>2. CASE toClient' = toClient
      BY <3>1, <3>2
    <3>3. CASE toClient' = Append(toClient, answer)
      BY <2>3, <3>1, <3>3, AppendFacts
    <3> QED BY <2>5, <3>2, <3>3
  <2>7. ClientTypeOK'
    <3>1. linked' \in BOOLEAN
      BY <1>3 DEF Serve, ClientInv, ClientTypeOK
    <3> QED BY <2>1, <2>2, <2>6, <3>1 DEF ClientInv, ClientTypeOK
  <2>8. CountInv' /\ ReturnedInv'
    BY <2>1 DEF ClientInv, CountInv, ReturnedInv, RepliesReturnedOnce, Succeeded
  <2>9. StreamInv'
    <3>1. ASSUME NEW i \in 1 .. Len(toServer')
          PROVE  /\ mLastResponse < toServer'[i].command
                 /\ toServer'[i].command <= command
                 /\ \A j \in 1 .. (i - 1) : toServer'[j].command < toServer'[i].command
      <4>1. i + 1 \in 1 .. Len(toServer) /\ toServer'[i] = toServer[i + 1]
        BY <2>2
      <4>2. /\ mLastResponse < toServer[i + 1].command
            /\ toServer[i + 1].command <= command
            /\ \A j \in 1 .. i : toServer[j].command < toServer[i + 1].command
        BY <4>1 DEF ClientInv, StreamInv
      <4>3. \A j \in 1 .. (i - 1) :
              j + 1 \in 1 .. i /\ toServer'[j] = toServer[j + 1]
        BY <2>2
      <4> QED BY <4>1, <4>2, <4>3
    <3>2. ASSUME NEW i \in 1 .. Len(toClient')
          PROVE  /\ mLastResponse < toClient'[i]
                 /\ toClient'[i] <= command
                 /\ \A j \in 1 .. (i - 1) : toClient'[j] < toClient'[i]
                 /\ \A j \in 1 .. Len(toServer') : toClient'[i] < toServer'[j].command
      <4>1. \A j \in 1 .. (i - 1) : j \in 1 .. Len(toClient')
        BY <2>2, <2>6
      <4>2. CASE i \in 1 .. Len(toClient) /\ toClient'[i] = toClient[i]
        <5>1. \A j \in 1 .. (i - 1) : j \in 1 .. Len(toClient) /\ toClient'[j] = toClient[j]
          BY <2>6, <4>1, <4>2
        <5> QED BY <2>2, <4>2, <5>1 DEF ClientInv, StreamInv
      <4>3. CASE i = Len(toClient) + 1 /\ toClient'[i] = answer
        <5>1. \A j \in 1 .. (i - 1) : j \in 1 .. Len(toClient) /\ toClient'[j] = toClient[j]
          BY <2>6, <4>1, <4>3
        <5> QED BY <2>3, <4>3, <5>1
      <4> QED BY <2>6, <4>2, <4>3
    <3> QED BY <2>1, <3>1, <3>2 DEF StreamInv
  <2> QED BY <2>7, <2>8, <2>9 DEF ClientInv
<1>4. CASE LinkLost
  <2>1. /\ toServer' = <<>> /\ toClient' = <<>> /\ linked' = FALSE
        /\ UNCHANGED <<pc, command, response, mState, received, returned>>
    BY <1>4 DEF LinkLost
  <2>2. ClientTypeOK'
    <3>1. toServer' \in Seq(Message) /\ toClient' \in Seq(Command)
      BY <2>1, EmptySeq
    <3> QED BY <2>1, <3>1 DEF ClientInv, ClientTypeOK
  <2>3. CountInv' /\ ReturnedInv' /\ StreamInv'
    BY <2>1 DEF ClientInv, CountInv, ReturnedInv, RepliesReturnedOnce, Succeeded,
       StreamInv
  <2> QED BY <2>2, <2>3 DEF ClientInv
<1> QED BY <1>1, <1>2, <1>3, <1>4

(* Replies are returned once and in the order of the commands they answer, however
   late they come: what a wait returns arrived within that wait and is newer than
   all that was returned before. *)
THEOREM RepliesOnce == ClientSpec => []RepliesInOrder
<1>1. ClientInv /\ [ClientNext]_clientVars => ClientInv'
  <2> SUFFICES ASSUME ClientInv, [ClientNext]_clientVars PROVE ClientInv'
    OBVIOUS
  <2>1. CASE UNCHANGED clientVars
    BY <2>1 DEF clientVars, ClientInv, ClientTypeOK, CountInv, StreamInv,
       ReturnedInv, RepliesReturnedOnce, Succeeded
  <2> QED BY <2>1, MainStep, NetworkStep DEF ClientNext
<1>2. ClientInv => RepliesInOrder
  BY DEF ClientInv, ReturnedInv, RepliesInOrder
<1> QED BY ClientInitInv, <1>1, <1>2, PTL DEF ClientSpec
=============================================================================
