-------------------------------- MODULE Console --------------------------------
(***************************************************************************)
(* The developer console: runDeveloperConsole, on a thread of its own,      *)
(* reads lines and queues them; processDevConsoleRequests, called from the  *)
(* renderer loop, evaluates them in the console's context; and the          *)
(* destructor of NativeJSRenderer joins the thread.                         *)
(*                                                                         *)
(* The two threads share the queue under inputMutex, whose critical         *)
(* sections are single steps here, and isProcessing under isProcessing_cv_m, *)
(* which the renderer holds while lines are evaluated.  The context itself  *)
(* has no lock.  The console thread deletes it after "exit" or SIGINT, and   *)
(* the renderer uses it in two places: for the lines, and in the rest of     *)
(* run()'s turn, where callbacks of the console's scripts run, the garbage   *)
(* collector is started and keys are handed to the context.  A line is a    *)
(* number, in the order of typing.  The state starts as                      *)
(* setEnvForConsoleMode leaves it.                                           *)
(***************************************************************************)
EXTENDS Naturals, Sequences

CONSTANT MaxLines  \* bound: lines the user types

ASSUME LinesAssumption == MaxLines \in Nat \ {0}

VARIABLES
  typed,            \* history: the lines typed so far
  evaluated,        \* history: the lines evaluated, in order
  codeToExecute,    \* the shared queue
  localQueue,       \* the lines that the renderer took from it
  isProcessing,     \* a prompt was shown and its line is not evaluated yet
  cvMutex,          \* isProcessing_cv_m: "free" or the thread that holds it
  context,          \* consoleContext: "live" or "deleted"
  left,             \* functions of its scripts are protected or modules cached:
                    \* only the main thread, the renderer's, may release them
  raced,            \* history: the renderer was inside the context when the console
                    \* thread deleted it, or used a raw pointer after that began
  consoleLoop,      \* cleared by SIGINT
  mShutdownConsole, \* set by the destructor
  mRunning,         \* cleared by terminate()
  asserting,        \* how it was built: NDEBUG, which the build file of this engine
                    \* defines, compiles the assertions out
  consolePc,        \* next step of the console thread
  rendererPc        \* next step of the renderer thread

vars == <<typed, evaluated, codeToExecute, localQueue, isProcessing, cvMutex,
          context, left, raced, consoleLoop, mShutdownConsole, mRunning, asserting,
          consolePc, rendererPc>>
lines == <<typed, evaluated, codeToExecute, localQueue>>
held == <<context, left, raced>>
flags == <<consoleLoop, mShutdownConsole, mRunning, asserting>>
-----------------------------------------------------------------------------
Init ==
  /\ typed = 0
  /\ evaluated = <<>>
  /\ codeToExecute = <<>>
  /\ localQueue = <<>>
  /\ isProcessing = FALSE
  /\ cvMutex = "free"
  /\ context = "live"
  /\ left \in BOOLEAN
  /\ raced = FALSE
  /\ consoleLoop = TRUE
  /\ mShutdownConsole = FALSE
  /\ mRunning = TRUE
  /\ asserting \in BOOLEAN
  /\ consolePc = "top"
  /\ rendererPc = "check"
-----------------------------------------------------------------------------
(* The console thread. *)

LoopTop ==
  /\ consolePc = "top"
  /\ consolePc' = IF consoleLoop /\ ~mShutdownConsole THEN "wait" ELSE "done"
  /\ UNCHANGED <<lines, isProcessing, cvMutex, held, flags, rendererPc>>

(* Defect: the prompt does not wait for the previous line. *)
PromptAtOnce ==
  /\ consolePc = "wait"
  /\ cvMutex = "free"
  /\ isProcessing' = TRUE
  /\ consolePc' = "prompted"
  /\ UNCHANGED <<lines, cvMutex, held, flags, rendererPc>>

(* The wait on isProcessing_cv, whose predicate looks at nothing else, and the
   prompt; the lock is taken and released within the step. *)
Prompt ==
  /\ consolePc = "wait"
  /\ cvMutex = "free" /\ ~isProcessing
  /\ isProcessing' = TRUE
  /\ consolePc' = "prompted"
  /\ UNCHANGED <<lines, cvMutex, held, flags, rendererPc>>

CheckShutdown ==
  /\ consolePc = "prompted"
  /\ consolePc' = IF mShutdownConsole THEN "done" ELSE "read"
  /\ UNCHANGED <<lines, isProcessing, cvMutex, held, flags, rendererPc>>

(* getline returns, with "exit" or with another line. *)
ReadLine(exit) ==
  /\ consolePc = "read"
  /\ consolePc' = IF mShutdownConsole THEN "done"
                  ELSE IF exit \/ ~consoleLoop THEN "delete" ELSE "push"
  /\ typed' = IF consolePc' = "push" THEN typed + 1 ELSE typed
  /\ typed' <= MaxLines
  /\ UNCHANGED <<evaluated, codeToExecute, localQueue, isProcessing, cvMutex,
                 held, flags, rendererPc>>

(* An assertion that fails ends the process: no thread takes another step. *)
Aborted == consolePc = "aborted"

(* ~JavaScriptContext starts with a synchronous collection.  It may finalize a
   wrapper of this or of another context, which asserts the main thread. *)
BeginDelete ==
  /\ consolePc = "delete"
  /\ consolePc' \in {"release"} \cup (IF asserting THEN {"aborted"} ELSE {})
  /\ UNCHANGED <<lines, isProcessing, cvMutex, held, flags, rendererPc>>

(* The renderer runs code of the context or is about to, by a raw pointer. *)
InsideContext == rendererPc \in {"callback", "raw"}

(* releaseAllProtected: every release asserts the main thread. *)
ReleaseProtected ==
  /\ consolePc = "release"
  /\ ~(left /\ asserting)
  /\ left' = FALSE
  /\ raced' = (raced \/ InsideContext)
  /\ consolePc' = "free"
  /\ UNCHANGED <<lines, isProcessing, cvMutex, context, flags, rendererPc>>

ReleaseAsserts ==
  /\ consolePc = "release"
  /\ left /\ asserting
  /\ consolePc' = "aborted"
  /\ UNCHANGED <<lines, isProcessing, cvMutex, held, flags, rendererPc>>

FreeContext ==
  /\ consolePc = "free"
  /\ context' = "deleted"
  /\ raced' = (raced \/ InsideContext)
  /\ consolePc' = "done"
  /\ UNCHANGED <<lines, isProcessing, cvMutex, left, flags, rendererPc>>

PushLine ==
  /\ consolePc = "push"
  /\ codeToExecute' = Append(codeToExecute, typed)
  /\ consolePc' = "top"
  /\ UNCHANGED <<typed, evaluated, localQueue, isProcessing, cvMutex, held,
                 flags, rendererPc>>

(* Restored to the default when the console thread ends. *)
SigInt ==
  /\ consolePc # "done" /\ ~Aborted
  /\ consoleLoop' = FALSE
  /\ UNCHANGED <<lines, isProcessing, cvMutex, held, mShutdownConsole, mRunning,
                 asserting, consolePc, rendererPc>>
-----------------------------------------------------------------------------
(* The renderer thread: run()'s turn as far as it touches the console, then the
   destructor. *)

Terminate ==
  /\ ~Aborted
  /\ mRunning' = FALSE
  /\ UNCHANGED <<lines, isProcessing, cvMutex, held, consoleLoop,
                 mShutdownConsole, asserting, consolePc, rendererPc>>

CheckRunning ==
  /\ rendererPc = "check"
  /\ rendererPc' = IF mRunning THEN "swap" ELSE "ended"
  /\ UNCHANGED <<lines, isProcessing, cvMutex, held, flags, consolePc>>

(* Defect: the lines are copied and stay queued. *)
CopyQueue ==
  /\ rendererPc = "swap"
  /\ localQueue' = codeToExecute
  /\ rendererPc' = IF codeToExecute = <<>> THEN "run" ELSE "lock"
  /\ UNCHANGED <<typed, evaluated, codeToExecute, isProcessing, cvMutex, held,
                 flags, consolePc>>

(* Without a line to process the call returns at once. *)
SwapQueue ==
  /\ rendererPc = "swap"
  /\ localQueue' = codeToExecute
  /\ codeToExecute' = <<>>
  /\ rendererPc' = IF codeToExecute = <<>> THEN "run" ELSE "lock"
  /\ UNCHANGED <<typed, evaluated, isProcessing, cvMutex, held, flags, consolePc>>

LockProcessing ==
  /\ rendererPc = "lock"
  /\ cvMutex = "free"
  /\ cvMutex' = "renderer"
  /\ rendererPc' = "evaluate"
  /\ UNCHANGED <<lines, isProcessing, held, flags, consolePc>>

(* A script may protect functions (a timer, a listener) and let them go. *)
EvaluateLine ==
  /\ rendererPc = "evaluate"
  /\ localQueue # <<>>
  /\ evaluated' = Append(evaluated, Head(localQueue))
  /\ localQueue' = Tail(localQueue)
  /\ left' \in BOOLEAN
  /\ UNCHANGED <<typed, codeToExecute, isProcessing, cvMutex, context, raced, flags,
                 consolePc, rendererPc>>

(* Defect: isProcessing stays set. *)
FinishStillProcessing ==
  /\ rendererPc = "evaluate"
  /\ localQueue = <<>>
  /\ cvMutex' = "free"
  /\ rendererPc' = "run"
  /\ UNCHANGED <<lines, isProcessing, held, flags, consolePc>>

(* Notified under the lock: the waiting console thread cannot miss it. *)
FinishProcessing ==
  /\ rendererPc = "evaluate"
  /\ localQueue = <<>>
  /\ isProcessing' = FALSE
  /\ cvMutex' = "free"
  /\ rendererPc' = "run"
  /\ UNCHANGED <<lines, held, flags, consolePc>>

(* The rest of the turn, EssosInstance's update and mEngine->run(), may call a
   protected function of a console script: a listener of a request or a socket.
   It may also read one of the raw pointers to the context: gTopLevelContext, which
   the collector tests and then uses, the listener of the keys, or the context of a
   call that JSFunctionWrapper::Send left to dispatchPending, as timers do. *)
EnterContext ==
  /\ rendererPc = "run"
  /\ rendererPc' \in {"raw"} \cup (IF left THEN {"callback"} ELSE {})
  /\ UNCHANGED <<lines, isProcessing, cvMutex, held, flags, consolePc>>

ReturnCallback ==
  /\ rendererPc = "callback"
  /\ left' \in BOOLEAN
  /\ rendererPc' = "run"
  /\ UNCHANGED <<lines, isProcessing, cvMutex, context, raced, flags, consolePc>>

UseRawPointer ==
  /\ rendererPc = "raw"
  /\ raced' = (raced \/ context = "deleted" \/ consolePc = "free")
  /\ left' \in BOOLEAN
  /\ rendererPc' = "run"
  /\ UNCHANGED <<lines, isProcessing, cvMutex, context, flags, consolePc>>

EndTurn ==
  /\ rendererPc = "run"
  /\ rendererPc' = "check"
  /\ UNCHANGED <<lines, isProcessing, cvMutex, held, flags, consolePc>>

BeginDestructor ==
  /\ rendererPc = "ended"
  /\ mShutdownConsole' = TRUE
  /\ rendererPc' = "join"
  /\ UNCHANGED <<lines, isProcessing, cvMutex, held, consoleLoop, mRunning,
                 asserting, consolePc>>

JoinConsole ==
  /\ rendererPc = "join"
  /\ consolePc = "done"
  /\ context' = "deleted"
  /\ left' = FALSE
  /\ rendererPc' = "gone"
  /\ UNCHANGED <<lines, isProcessing, cvMutex, raced, flags, consolePc>>
-----------------------------------------------------------------------------
ConsoleNext ==
  \/ LoopTop \/ Prompt \/ CheckShutdown \/ PushLine
  \/ BeginDelete \/ ReleaseProtected \/ ReleaseAsserts \/ FreeContext

RendererNext ==
  /\ ~Aborted
  /\ \/ CheckRunning \/ SwapQueue \/ LockProcessing \/ EvaluateLine
     \/ FinishProcessing \/ EnterContext \/ ReturnCallback \/ UseRawPointer
     \/ EndTurn \/ BeginDestructor \/ JoinConsole

Next ==
  \/ ConsoleNext
  \/ RendererNext
  \/ \E exit \in BOOLEAN : ReadLine(exit)
  \/ SigInt
  \/ Terminate

(* Both threads are scheduled, scripts return and every turn of run() ends; the
   user owes no input. *)
Spec ==
  /\ Init /\ [][Next]_vars
  /\ WF_vars(ConsoleNext) /\ WF_vars(RendererNext) /\ SF_vars(~Aborted /\ EndTurn)
-----------------------------------------------------------------------------
(* The types of the variables. *)
TypeOK ==
  /\ typed \in 0 .. MaxLines
  /\ evaluated \in Seq(1 .. MaxLines)
  /\ codeToExecute \in Seq(1 .. MaxLines)
  /\ localQueue \in Seq(1 .. MaxLines)
  /\ isProcessing \in BOOLEAN
  /\ cvMutex \in {"free", "renderer", "console"}
  /\ context \in {"live", "deleted"}
  /\ consoleLoop \in BOOLEAN
  /\ mShutdownConsole \in BOOLEAN
  /\ mRunning \in BOOLEAN
  /\ asserting \in BOOLEAN
  /\ left \in BOOLEAN
  /\ raced \in BOOLEAN
  /\ consolePc \in {"top", "wait", "prompted", "read", "push", "delete", "release",
                    "free", "done", "aborted"}
  /\ rendererPc \in {"check", "swap", "lock", "evaluate", "run", "callback", "raw",
                     "ended", "join", "gone"}

(* The lines typed and not yet queued: the one on its way, if there is one. *)
OnItsWay == IF consolePc = "push" THEN <<typed>> ELSE <<>>

(* The renderer never evaluates a line in a context that the console thread
   deleted after "exit" or SIGINT, although no lock is held for the context: the
   wait for isProcessing orders the two.  It does not order callbacks, which may be
   running when the context is deleted under them.  With assertions the deletion
   ends the process instead, since a function is left.  Without them a callback is
   in a deleted context only if the two met so, or if a raw pointer was used since
   the deletion began (raced): no function is left to start another by, and what
   follows is undefined. *)
ContextLiveWhenUsed ==
  \/ rendererPc = "evaluate" /\ localQueue # <<>>
  \/ rendererPc = "callback" /\ ~raced
  => context = "live"

(* At most one line is between the user and its evaluation. *)
OneLineInFlight ==
  Len(OnItsWay) + Len(codeToExecute) + Len(localQueue) <= 1

(* Every line typed is evaluated once and in order, or is still on its way. *)
EvaluatedInOrder ==
  evaluated \o localQueue \o codeToExecute \o OnItsWay = [k \in 1 .. typed |-> k]

(* When the destructor is through, the console thread has ended, and the context
   was deleted by one of the two. *)
ConsoleGoneBeforeRenderer ==
  rendererPc = "gone" => consolePc = "done" /\ context = "deleted"

(* While the renderer loops, every line typed is evaluated. *)
EveryLineEvaluated ==
  \A k \in 1 .. MaxLines :
    typed >= k ~> Len(evaluated) >= k \/ ~mRunning

(* The destructor waits for the user's line at most, or for ever when the loop
   ended with a line queued: nobody is left to evaluate it and to reset
   isProcessing, and the console's wait does not look at mShutdownConsole.  After
   an assertion failed there is no process that could return, and after the threads
   met in the context nothing is certain. *)
DestructorReturns ==
  mShutdownConsole ~>
    \/ rendererPc = "gone"
    \/ consolePc = "read"
    \/ Aborted \/ raced
    \/ consolePc = "wait" /\ codeToExecute # <<>>

(* The console's lines are used by one thread at a time, its context as far as the
   alternation of prompt and evaluation and the release of its functions go, and
   both are gone before the renderer is. *)
ConsoleProtected ==
  TypeOK /\ ContextLiveWhenUsed /\ OneLineInFlight /\ ConsoleGoneBeforeRenderer

(* Nobody waits for ever but in the one case DestructorReturns names. *)
ConsoleProgress == EveryLineEvaluated /\ DestructorReturns
=============================================================================
