------------------------------ MODULE ServerProofs ------------------------------
(***************************************************************************)
(* Proofs about Renderer, for any number of creations and requests and any  *)
(* set of texts, and about Server on top of it, for any number of clients,  *)
(* application threads and messages.  Every step of the server's threads is *)
(* one of Renderer's or leaves the renderer alone, so what is shown of a    *)
(* step of the renderer alone holds of these too.                           *)
(***************************************************************************)
EXTENDS Server, TLAPS

-----------------------------------------------------------------------------
(* The renderer by itself.                                                  *)

(* Where the renderer thread is decides who holds the mutex, where the loop
   variable stands and what is known of the test file. *)
ControlInv ==
  /\ userMutex = "renderer" <=> pc \in {"drain", "clear"}
  /\ pc \notin {"drain", "clear"} => index = 1
  /\ pc = "clear" => index = Len(pending) + 1
  /\ pc \in {"testId", "testRun"} => testFile
  /\ pc = "testRun" => testId # 0
  /\ testFile /\ pc # "testRun" => testId = 0
  /\ testFile /\ testId = 0 => nextId <= MaxCreates + 1

TypeInv == TypeOK /\ ControlInv

USE BoundsAssumption, TextAssumption

LEMMA RequestTyped ==
  ASSUME TypeOK, index <= Len(pending)
  PROVE  pending[index] \in Request
BY DEF TypeOK

LEMMA HandleTyped ==
  ASSUME TypeInv, HandleNext
  PROVE  TypeInv'
<1> DEFINE r == pending[index]
<1>1. r \in Request /\ pc = "drain" /\ index \in 1 .. Len(pending)
  BY RequestTyped DEF TypeInv, TypeOK, HandleNext
<1>2. \E e \in Effect : Handle(r, e)
  BY DEF HandleNext, HandleCreate, HandleRun, HandleRunScript,
         HandleTerminate, HandleUnknown, Effect
<1>3. /\ contextMap' \in [Ids -> [url : Url, context : Nat]]
      /\ heap' \subseteq Nat
      /\ allocated' \in Nat
  <2>1. r.id \in Ids /\ r.text \in Text
    BY <1>1 DEF Request
  <2>2. CASE HandleCreate(r)
    <3>1. allocated' \in Nat /\ heap' \subseteq Nat
      BY <2>2, SMTT(30) DEF HandleCreate, CreateInternal, TypeInv, TypeOK
    <3>2. contextMap' = [contextMap EXCEPT ![r.id].context = allocated']
      BY <2>2 DEF HandleCreate, CreateInternal
    <3>3. contextMap \in [Ids -> [url : Url, context : Nat]]
      BY DEF TypeInv, TypeOK
    <3> QED BY <2>1, <3>1, <3>2, <3>3
  <2>3. CASE HandleRun(r)
    BY <2>1, <2>3 DEF HandleRun, SetUrl, TypeInv, TypeOK, Url
  <2>4. CASE HandleRunScript(r)
    BY <2>1, <2>4 DEF HandleRunScript, SetUrl, TypeInv, TypeOK, Url
  <2>5. CASE HandleTerminate(r)
    BY <2>1, <2>5 DEF HandleTerminate, TerminateInternal, NoEntry, TypeInv, TypeOK, Url
  <2>6. CASE HandleUnknown(r)
    BY <2>6 DEF HandleUnknown, apps, TypeInv, TypeOK
  <2> QED BY <2>2, <2>3, <2>4, <2>5, <2>6 DEF HandleNext
<1>4. PICK e \in Effect : Handle(r, e)
  BY <1>2
<1>5. executed' \in Seq([request : Request, effect : Effect])
  BY <1>1, <1>4 DEF Handle, TypeInv, TypeOK
<1>6. index' \in 1 .. (Len(pending') + 1)
  BY <1>1, <1>4 DEF Handle, TypeInv, TypeOK
<1>7. TypeOK'
  BY <1>3, <1>4, <1>5, <1>6 DEF Handle, TypeInv, TypeOK
<1>8. ControlInv'
  BY <1>1, <1>4 DEF Handle, TypeInv, ControlInv
<1> QED BY <1>7, <1>8 DEF TypeInv

LEMMA PushTyped ==
  ASSUME TypeInv, NEW r \in Request, PushRequest(r), userMutex = "free",
         nextId' \in 1 .. (MaxCreates + 2),
         testFile /\ testId = 0 => nextId' <= MaxCreates + 1
  PROVE  TypeInv'
<1> USE DEF TypeInv, TypeOK, ControlInv, PushRequest
<1>1. /\ pending' \in Seq(Request) /\ accepted' \in Seq(Request)
      /\ index' \in 1 .. (Len(pending') + 1)
  OBVIOUS
<1>2. TypeOK'
  BY <1>1
<1>3. ControlInv'
  OBVIOUS
<1> QED BY <1>2, <1>3

LEMMA CallerTyped ==
  ASSUME TypeInv, CallerNext
  PROVE  TypeInv'
<1> USE DEF TypeInv, TypeOK
<1>1. CASE CreateApplication
  <2> DEFINE r == [type |-> "CREATE", id |-> nextId, text |-> Empty]
  <2>1. r \in Request /\ PushRequest(r) /\ userMutex = "free"
    BY <1>1 DEF CreateApplication, Request, RequestType, Ids
  <2>2. /\ nextId' \in 1 .. (MaxCreates + 2)
        /\ testFile /\ testId = 0 => nextId' <= MaxCreates + 1
    BY <1>1 DEF CreateApplication
  <2> QED BY <2>1, <2>2, PushTyped
<1>2. ASSUME NEW r \in Request, PushRequest(r), userMutex = "free",
             UNCHANGED nextId
      PROVE  TypeInv'
  BY <1>2, PushTyped DEF ControlInv
<1>3. CASE \E id \in Ids, t \in Text : RunApplication(id, t) \/ RunJavaScript(id, t)
  <2>1. PICK id \in Ids, t \in Text : RunApplication(id, t) \/ RunJavaScript(id, t)
    BY <1>3
  <2>2. /\ [type |-> "RUN", id |-> id, text |-> t] \in Request
        /\ [type |-> "RUNSCRIPT", id |-> id, text |-> t] \in Request
    BY DEF Request, RequestType
  <2> QED BY <1>2, <2>1, <2>2 DEF RunApplication, RunJavaScript
<1>4. CASE \E id \in Ids : TerminateApplication(id)
  <2>1. PICK id \in Ids : TerminateApplication(id)
    BY <1>4
  <2>2. [type |-> "TERMINATE", id |-> id, text |-> Empty] \in Request
    BY DEF Request, RequestType
  <2> QED BY <1>2, <2>1, <2>2 DEF TerminateApplication
<1>5. CASE Terminate
  BY <1>5 DEF Terminate, ControlInv
<1> QED BY <1>1, <1>3, <1>4, <1>5 DEF CallerNext

LEMMA TypeStep ==
  ASSUME TypeInv, [Next]_vars
  PROVE  TypeInv'
<1> USE DEF TypeInv, TypeOK, ControlInv
<1>1. CASE CallerNext
  BY <1>1, CallerTyped
<1>2. CASE CheckRunning
  BY <1>2 DEF CheckRunning
<1>3. CASE LockQueue
  BY <1>3 DEF LockQueue
<1>4. CASE HandleNext
  BY <1>4, HandleTyped
<1>5. CASE EndDrain
  BY <1>5 DEF EndDrain
<1>6. CASE ClearAndUnlock
  BY <1>6 DEF ClearAndUnlock
<1>7. CASE TakeTestId
  BY <1>7 DEF TakeTestId, Ids
<1>8. CASE RunTestFile
  <2>1. contextMap' \in [Ids -> [url : Url, context : Nat]]
    BY <1>8 DEF RunTestFile, Url
  <2> QED BY <1>8, <2>1 DEF RunTestFile
<1>9. CASE RunEngine
  BY <1>9 DEF RunEngine
<1>10. CASE UNCHANGED vars
  BY <1>10 DEF vars
<1> QED BY <1>1, <1>2, <1>3, <1>4, <1>5, <1>6, <1>7, <1>8, <1>9, <1>10
        DEF Next, RendererNext

LEMMA TypeInit == Init => TypeInv
BY DEF Init, TypeInv, TypeOK, ControlInv, NoEntry, Url

(* Type correctness: every variable of the renderer keeps its type, and the
   loop variable of the drain stays within the queue it walks. *)
THEOREM TypeCorrect == Spec => []TypeOK
<1>1. TypeInv => TypeOK
  BY DEF TypeInv
<1> QED BY TypeInit, TypeStep, <1>1, PTL DEF Spec
-----------------------------------------------------------------------------
(* What is left of the queue is what is left of the accepted requests. *)
OrderInv ==
  /\ HandledOnceInOrder
  /\ \A k \in index .. Len(pending) :
       pending[k] = accepted[Len(executed) + k - (index - 1)]

LEMMA OrderArithmetic ==
  ASSUME TypeInv, OrderInv
  PROVE  /\ Len(accepted) \in Nat /\ Len(executed) \in Nat /\ Len(pending) \in Nat
         /\ index \in Nat /\ 1 <= index /\ index <= Len(pending) + 1
         /\ Len(accepted) = Len(executed) + Len(pending) - (index - 1)
BY DEF TypeInv, TypeOK, OrderInv, HandledOnceInOrder

LEMMA PushKeepsOrder ==
  ASSUME TypeInv, OrderInv, NEW r \in Request, PushRequest(r)
  PROVE  OrderInv'
<1>1. /\ Len(accepted') = Len(accepted) + 1
      /\ Len(pending') = Len(pending) + 1
      /\ executed' = executed /\ index' = index
      /\ \A k \in 1 .. Len(accepted) : accepted'[k] = accepted[k]
      /\ \A k \in 1 .. Len(pending) : pending'[k] = pending[k]
      /\ pending'[Len(pending) + 1] = accepted'[Len(accepted) + 1]
  BY DEF TypeInv, TypeOK, PushRequest
<1>2. \A k \in 1 .. Len(executed) :
        k \in 1 .. Len(accepted) /\ executed[k].request = accepted[k]
  BY OrderArithmetic DEF OrderInv, HandledOnceInOrder
<1>3. HandledOnceInOrder'
  BY <1>1, <1>2, OrderArithmetic DEF HandledOnceInOrder
<1>4. ASSUME NEW k \in index .. (Len(pending) + 1)
      PROVE  pending'[k] = accepted'[Len(executed) + k - (index - 1)]
  <2>1. CASE k = Len(pending) + 1
    BY <1>1, <2>1, OrderArithmetic
  <2>2. CASE k \in index .. Len(pending)
    <3>1. /\ Len(executed) + k - (index - 1) \in 1 .. Len(accepted)
          /\ k \in 1 .. Len(pending)
      BY <2>2, OrderArithmetic
    <3>2. pending[k] = accepted[Len(executed) + k - (index - 1)]
      BY <2>2 DEF OrderInv
    <3> QED BY <1>1, <3>1, <3>2
  <2> QED BY <2>1, <2>2, OrderArithmetic
<1> QED BY <1>1, <1>3, <1>4 DEF OrderInv

LEMMA HandleEffect ==
  ASSUME TypeInv, OrderInv, HandleNext
  PROVE  \E e \in Effect :
           /\ Handle(pending[index], e)
           /\ pending[index] = accepted[Len(executed) + 1]
           /\ Len(executed) + 1 \in 1 .. Len(accepted)
           /\ Len(executed') = Len(executed) + 1
           /\ \A k \in 1 .. Len(executed) : executed'[k] = executed[k]
           /\ executed'[Len(executed) + 1] =
                [request |-> pending[index], effect |-> e]
<1>1. PICK e \in Effect : Handle(pending[index], e)
  BY DEF HandleNext, HandleCreate, HandleRun, HandleRunScript,
         HandleTerminate, HandleUnknown, Effect
<1>2. index <= Len(pending) /\ pending[index] \in Request
  BY RequestTyped DEF HandleNext, TypeInv
<1>3. /\ pending[index] = accepted[Len(executed) + index - (index - 1)]
      /\ Len(executed) + index - (index - 1) = Len(executed) + 1
  <2>1. index \in index .. Len(pending)
    BY <1>2, OrderArithmetic
  <2>2. Len(executed) + index - (index - 1) = Len(executed) + 1
    BY OrderArithmetic
  <2> QED BY <2>1, <2>2 DEF OrderInv
<1>4. executed' = Append(executed, [request |-> pending[index], effect |-> e])
  BY <1>1 DEF Handle
<1>5. executed \in Seq([request : Request, effect : Effect])
  BY DEF TypeInv, TypeOK
<1>6. /\ Len(executed') = Len(executed) + 1
      /\ \A k \in 1 .. Len(executed) : executed'[k] = executed[k]
      /\ executed'[Len(executed) + 1] = [request |-> pending[index], effect |-> e]
  BY <1>2, <1>4, <1>5
<1>7. Len(executed) + 1 \in 1 .. Len(accepted)
  BY <1>2, OrderArithmetic
<1>8. pending[index] = accepted[Len(executed) + 1]
  BY <1>3
<1> QED BY <1>1, <1>6, <1>7, <1>8

LEMMA HandleKeepsOrder ==
  ASSUME TypeInv, OrderInv, HandleNext
  PROVE  OrderInv'
<1>1. PICK e \in Effect :
        /\ Handle(pending[index], e)
        /\ pending[index] = accepted[Len(executed) + 1]
        /\ Len(executed) + 1 \in 1 .. Len(accepted)
        /\ Len(executed') = Len(executed) + 1
        /\ \A k \in 1 .. Len(executed) : executed'[k] = executed[k]
        /\ executed'[Len(executed) + 1] =
             [request |-> pending[index], effect |-> e]
  BY HandleEffect
<1>2. /\ index' = index + 1 /\ accepted' = accepted /\ pending' = pending
  BY <1>1 DEF Handle
<1>3. \A k \in 1 .. Len(executed) :
        k <= Len(accepted) /\ executed[k].request = accepted[k]
  BY DEF OrderInv, HandledOnceInOrder
<1>4. \A k \in 1 .. (Len(executed) + 1) :
        k <= Len(accepted) /\ executed'[k].request = accepted[k]
  <2>1. Len(executed) + 1 <= Len(accepted)
    BY <1>1, OrderArithmetic
  <2>2. executed'[Len(executed) + 1].request = accepted[Len(executed) + 1]
    BY <1>1
  <2>3. \A k \in 1 .. (Len(executed) + 1) :
          k \in 1 .. Len(executed) \/ k = Len(executed) + 1
    BY OrderArithmetic
  <2> QED BY <1>1, <1>3, <2>1, <2>2, <2>3
<1>5. HandledOnceInOrder'
  BY <1>1, <1>2, <1>4, OrderArithmetic, SMTT(30) DEF HandledOnceInOrder
<1>6. ASSUME NEW k \in (index + 1) .. Len(pending)
      PROVE  pending[k] = accepted[Len(executed') + k - (index' - 1)]
  <2>0. Len(executed) \in Nat /\ index \in Nat /\ k \in Nat
    BY OrderArithmetic
  <2>1. pending[k] = accepted[Len(executed) + k - (index - 1)]
    BY OrderArithmetic DEF OrderInv
  <2>2. Len(executed') = Len(executed) + 1 /\ index' = index + 1
    BY <1>1, <1>2
  <2>3. Len(executed') + k - (index' - 1) = Len(executed) + k - (index - 1)
    BY <2>0, <2>2
  <2> QED BY <2>1, <2>3
<1> QED BY <1>2, <1>5, <1>6 DEF OrderInv

LEMMA OrderStep ==
  ASSUME TypeInv, OrderInv, [Next]_vars
  PROVE  OrderInv'
<1>1. CASE HandleNext
  BY <1>1, HandleKeepsOrder
<1>2. CASE CallerNext
  <2>1. ASSUME NEW r \in Request, PushRequest(r)
        PROVE  OrderInv'
    BY <2>1, PushKeepsOrder
  <2>2. CASE CreateApplication
    <3>1. [type |-> "CREATE", id |-> nextId, text |-> Empty] \in Request
      BY <2>2 DEF CreateApplication, Request, RequestType, Ids, TypeInv, TypeOK
    <3> QED BY <2>1, <2>2, <3>1 DEF CreateApplication
  <2>3. ASSUME NEW id \in Ids, NEW t \in Text, RunApplication(id, t)
        PROVE  OrderInv'
    BY <2>1, <2>3 DEF RunApplication, Request, RequestType
  <2>4. ASSUME NEW id \in Ids, NEW t \in Text, RunJavaScript(id, t)
        PROVE  OrderInv'
    BY <2>1, <2>4 DEF RunJavaScript, Request, RequestType
  <2>5. ASSUME NEW id \in Ids, TerminateApplication(id)
        PROVE  OrderInv'
    BY <2>1, <2>5 DEF TerminateApplication, Request, RequestType
  <2>6. CASE Terminate
    BY <2>6 DEF Terminate, OrderInv, HandledOnceInOrder
  <2> QED BY <1>2, <2>2, <2>3, <2>4, <2>5, <2>6 DEF CallerNext
<1>3. CASE ClearAndUnlock
  <2>1. /\ index = Len(pending) + 1 /\ pending' = <<>> /\ index' = 1
        /\ UNCHANGED <<accepted, executed>>
    BY <1>3 DEF ClearAndUnlock, TypeInv, ControlInv
  <2> QED BY <2>1 DEF OrderInv, HandledOnceInOrder, TypeInv, TypeOK
<1>4. CASE UNCHANGED <<pending, accepted, executed, index>>
  BY <1>4 DEF OrderInv, HandledOnceInOrder
<1> QED BY <1>1, <1>2, <1>3, <1>4
        DEF Next, RendererNext, CheckRunning, LockQueue, EndDrain, TakeTestId,
            RunTestFile, RunEngine, vars

(* Every accepted request is handled once and in the order of acceptance,
   whatever callers push between the steps of the drain. *)
THEOREM OnceInOrder == Spec => []HandledOnceInOrder
<1>1. Init => OrderInv
  BY DEF Init, OrderInv, HandledOnceInOrder
<1>2. TypeInv /\ OrderInv /\ [Next]_vars => (TypeInv /\ OrderInv)'
  BY TypeStep, OrderStep
<1>3. OrderInv => HandledOnceInOrder
  BY DEF OrderInv
<1> QED BY TypeInit, <1>1, <1>2, <1>3, PTL DEF Spec
-----------------------------------------------------------------------------
(* Every identifier handed out is below the counter. *)
FreshInv ==
  /\ FreshIdentifiers
  /\ testId < nextId
  /\ \A k \in 1 .. Len(accepted) :
       accepted[k].type = "CREATE" => accepted[k].id < nextId

LEMMA AcceptedTyped ==
  ASSUME TypeInv
  PROVE  \A k \in 1 .. Len(accepted) :
           accepted[k] \in Request /\ accepted[k].id \in Ids /\ accepted[k].id \in Nat
<1>1. accepted \in Seq(Request)
  BY DEF TypeInv, TypeOK
<1>2. \A r \in Request : r.id \in Ids /\ r.id \in Nat
  BY DEF Request, Ids
<1> QED BY <1>1, <1>2

LEMMA PushKeepsFresh ==
  ASSUME TypeInv, FreshInv, NEW r \in Request, PushRequest(r),
         \/ r.type # "CREATE" /\ nextId' = nextId
         \/ r.type = "CREATE" /\ r.id = nextId /\ nextId' = nextId + 1
  PROVE  FreshInv'
<1>1. /\ Len(accepted) \in Nat
      /\ Len(accepted') = Len(accepted) + 1
      /\ \A k \in 1 .. Len(accepted) : accepted'[k] = accepted[k]
      /\ accepted'[Len(accepted) + 1] = r
      /\ testId' = testId
  <2>1. accepted \in Seq(Request)
    BY DEF TypeInv, TypeOK
  <2>2. accepted' = Append(accepted, r) /\ testId' = testId
    BY DEF PushRequest
  <2> QED BY <2>1, <2>2
<1>2. /\ nextId \in Nat /\ nextId' \in Nat /\ nextId <= nextId'
      /\ testId \in Nat /\ testId < nextId
  BY DEF TypeInv, TypeOK, Ids, FreshInv
<1>3. \A k \in 1 .. Len(accepted) : accepted[k].id \in Nat
  BY AcceptedTyped
<1>4. \A k \in 1 .. Len(accepted') : k \in 1 .. Len(accepted) \/ k = Len(accepted) + 1
  BY <1>1
<1>5. \A k \in 1 .. Len(accepted') :
        accepted'[k].type = "CREATE" => accepted'[k].id < nextId'
  <2>1. \A k \in 1 .. Len(accepted) :
          accepted[k].type = "CREATE" => accepted[k].id < nextId'
    BY <1>2, <1>3 DEF FreshInv
  <2>2. r.type = "CREATE" => r.id < nextId'
    BY <1>2
  <2> QED BY <1>1, <1>4, <2>1, <2>2
<1>6. FreshIdentifiers'
  <2> SUFFICES ASSUME NEW k \in 1 .. Len(accepted'), accepted'[k].type = "CREATE"
               PROVE  /\ accepted'[k].id # testId
                      /\ \A j \in 1 .. (k - 1) :
                           accepted'[j].type = "CREATE" =>
                             accepted'[j].id # accepted'[k].id
    BY <1>1 DEF FreshIdentifiers
  <2>1. CASE k \in 1 .. Len(accepted)
    <3>1. \A j \in 1 .. (k - 1) : j \in 1 .. Len(accepted)
      BY <1>1, <2>1
    <3> QED BY <1>1, <2>1, <3>1 DEF FreshInv, FreshIdentifiers
  <2>2. CASE k = Len(accepted) + 1
    <3>1. r.type = "CREATE" /\ r.id = nextId
      BY <1>1, <2>2
    <3>2. \A j \in 1 .. Len(accepted) :
            accepted[j].type = "CREATE" => accepted[j].id # nextId
      BY <1>2, <1>3 DEF FreshInv
    <3>3. \A j \in 1 .. (k - 1) : j \in 1 .. Len(accepted)
      BY <1>1, <2>2
    <3> QED BY <1>1, <1>2, <2>2, <3>1, <3>2, <3>3
  <2> QED BY <1>4, <2>1, <2>2
<1> QED BY <1>1, <1>2, <1>5, <1>6 DEF FreshInv

LEMMA FreshStep ==
  ASSUME TypeInv, FreshInv, [Next]_vars
  PROVE  FreshInv'
<1>1. CASE CreateApplication
  <2>1. [type |-> "CREATE", id |-> nextId, text |-> Empty] \in Request
    BY <1>1 DEF CreateApplication, Request, RequestType, Ids, TypeInv, TypeOK
  <2> QED BY <1>1, <2>1, PushKeepsFresh DEF CreateApplication
<1>2. ASSUME NEW r \in Request, PushRequest(r), r.type # "CREATE", UNCHANGED nextId
      PROVE  FreshInv'
  BY <1>2, PushKeepsFresh
<1>3. ASSUME NEW id \in Ids, NEW t \in Text,
             RunApplication(id, t) \/ RunJavaScript(id, t)
      PROVE  FreshInv'
  BY <1>2, <1>3 DEF RunApplication, RunJavaScript, Request, RequestType
<1>4. ASSUME NEW id \in Ids, TerminateApplication(id)
      PROVE  FreshInv'
  BY <1>2, <1>4 DEF TerminateApplication, Request, RequestType
<1>5. CASE TakeTestId
  <2>1. /\ testId' = nextId /\ nextId' = nextId + 1 /\ nextId \in Nat
        /\ accepted' = accepted
    BY <1>5 DEF TakeTestId, TypeInv, TypeOK
  <2>2. \A k \in 1 .. Len(accepted) : accepted[k].id \in Nat
    BY AcceptedTyped
  <2>3. \A k \in 1 .. Len(accepted) :
          accepted[k].type = "CREATE" =>
            accepted[k].id < nextId' /\ accepted[k].id # testId'
    <3>1. \A k \in 1 .. Len(accepted) :
            accepted[k].type = "CREATE" => accepted[k].id < nextId
      BY DEF FreshInv
    <3> QED BY <2>1, <2>2, <3>1
  <2> QED BY <2>1, <2>3 DEF FreshInv, FreshIdentifiers
<1>6. CASE UNCHANGED <<nextId, testId, accepted>>
  BY <1>6 DEF FreshInv, FreshIdentifiers
<1> QED BY <1>1, <1>3, <1>4, <1>5, <1>6
        DEF Next, CallerNext, RendererNext, Terminate, CheckRunning, LockQueue,
            HandleNext, HandleCreate, HandleRun, HandleRunScript, HandleTerminate,
            HandleUnknown, Handle, EndDrain, ClearAndUnlock, RunTestFile,
            RunEngine, vars

(* No two applications ever share an identifier, the test file's included. *)
THEOREM IdentifiersFresh == Spec => []FreshIdentifiers
<1>1. Init => FreshInv
  BY DEF Init, FreshInv, FreshIdentifiers
<1>2. TypeInv /\ FreshInv /\ [Next]_vars => (TypeInv /\ FreshInv)'
  BY TypeStep, FreshStep
<1>3. FreshInv => FreshIdentifiers
  BY DEF FreshInv
<1> QED BY TypeInit, <1>1, <1>2, <1>3, PTL DEF Spec
-----------------------------------------------------------------------------
(* The contexts and the map agree, and no application exists whose creation is
   still queued. *)
LiveInv ==
  /\ NoContextLeaked
  /\ \A id \in Ids : contextMap[id].context <= allocated
  /\ \A id \in Ids : Present(id) => id < nextId
  /\ \A k \in (Len(executed) + 1) .. Len(accepted) :
       accepted[k].type = "CREATE" => ~Present(accepted[k].id)
  /\ pc = "testRun" => ~Present(testId)

(* The map read by its contexts alone. *)
Context(id) == contextMap[id].context

LEMMA ContextTyped ==
  ASSUME TypeInv
  PROVE  allocated \in Nat /\ \A id \in Ids : Context(id) \in Nat
BY DEF TypeInv, TypeOK, Context

LEMMA InstallKeepsHeap ==
  ASSUME TypeInv, LiveInv, NEW id \in Ids, ~Present(id),
         allocated' = allocated + 1, heap' = heap \cup {allocated'},
         \A i \in Ids : Context(i)' = IF i = id THEN allocated' ELSE Context(i)
  PROVE  NoContextLeaked' /\ \A i \in Ids : Context(i)' <= allocated'
<1>1. /\ heap = {Context(i) : i \in {j \in Ids : Context(j) # 0}}
      /\ \A i, j \in Ids : Context(i) # 0 /\ Context(i) = Context(j) => i = j
      /\ \A i \in Ids : Context(i) <= allocated
      /\ Context(id) = 0
  BY DEF LiveInv, NoContextLeaked, Present, Context
<1>2. /\ allocated \in Nat /\ allocated' # 0
      /\ \A i \in Ids : Context(i) \in Nat /\ Context(i) # allocated'
  BY <1>1, ContextTyped
<1>3. heap' = {Context(i)' : i \in {j \in Ids : Context(j)' # 0}}
  BY <1>1, <1>2
<1>4. \A i, j \in Ids : Context(i)' # 0 /\ Context(i)' = Context(j)' => i = j
  BY <1>1, <1>2
<1>5. \A i \in Ids : Context(i)' <= allocated'
  BY <1>1, <1>2
<1> QED BY <1>3, <1>4, <1>5 DEF NoContextLeaked, Present, Context

LEMMA DeleteKeepsHeap ==
  ASSUME TypeInv, LiveInv, NEW id \in Ids, Present(id),
         allocated' = allocated, heap' = heap \ {Context(id)},
         \A i \in Ids : Context(i)' = IF i = id THEN 0 ELSE Context(i)
  PROVE  NoContextLeaked' /\ \A i \in Ids : Context(i)' <= allocated'
<1>1. /\ heap = {Context(i) : i \in {j \in Ids : Context(j) # 0}}
      /\ \A i, j \in Ids : Context(i) # 0 /\ Context(i) = Context(j) => i = j
      /\ \A i \in Ids : Context(i) <= allocated
      /\ Context(id) # 0
  BY DEF LiveInv, NoContextLeaked, Present, Context
<1>2. heap' = {Context(i)' : i \in {j \in Ids : Context(j)' # 0}}
  BY <1>1
<1>3. \A i, j \in Ids : Context(i)' # 0 /\ Context(i)' = Context(j)' => i = j
  BY <1>1
<1>4. \A i \in Ids : Context(i)' <= allocated'
  BY <1>1, ContextTyped
<1> QED BY <1>2, <1>3, <1>4 DEF NoContextLeaked, Present, Context

IInv == TypeInv /\ OrderInv /\ FreshInv /\ LiveInv

LEMMA HandleKeepsLive ==
  ASSUME IInv, HandleNext
  PROVE  LiveInv'
<1> DEFINE r == pending[index]
           n == Len(executed) + 1
<1>1. PICK e \in Effect :
        /\ Handle(r, e) /\ r = accepted[n]
        /\ n \in 1 .. Len(accepted) /\ Len(executed') = n
  BY HandleEffect DEF IInv
<1>2. /\ UNCHANGED <<nextId, testId, pc, accepted>> /\ pc = "drain"
      /\ r \in Request /\ r.id \in Ids
  BY <1>1, AcceptedTyped DEF IInv, Handle, HandleNext
<1>3. \A k \in (n + 1) .. Len(accepted) :
        /\ k \in 1 .. Len(accepted) /\ k \in n .. Len(accepted)
        /\ n \in 1 .. (k - 1)
  BY <1>1, OrderArithmetic DEF IInv
<1> SUFFICES /\ NoContextLeaked'
             /\ \A id \in Ids : Context(id)' <= allocated'
             /\ \A id \in Ids : Context(id)' # 0 => id < nextId
             /\ \A k \in (n + 1) .. Len(accepted) :
                  accepted[k].type = "CREATE" => Context(accepted[k].id)' = 0
  BY <1>1, <1>2 DEF LiveInv, Present, Context
<1>4. /\ NoContextLeaked
      /\ \A id \in Ids : Context(id) <= allocated
      /\ \A id \in Ids : Context(id) # 0 => id < nextId
      /\ \A k \in n .. Len(accepted) :
           accepted[k].type = "CREATE" => Context(accepted[k].id) = 0
  BY DEF IInv, LiveInv, Present, Context
<1>5. contextMap \in [Ids -> [url : Url, context : Nat]]
  BY DEF IInv, TypeInv, TypeOK
<1>6. CASE HandleCreate(r)
  <2>1. /\ r.type = "CREATE" /\ allocated' = allocated + 1
        /\ heap' = heap \cup {allocated'}
        /\ \A i \in Ids : Context(i)' = IF i = r.id THEN allocated' ELSE Context(i)
    BY <1>2, <1>5, <1>6 DEF HandleCreate, CreateInternal, Context
  <2>2. n \in n .. Len(accepted) /\ ~Present(r.id)
    BY <1>1, <1>4, <2>1 DEF Present, Context
  <2>3. NoContextLeaked' /\ \A i \in Ids : Context(i)' <= allocated'
    BY <1>2, <2>1, <2>2, InstallKeepsHeap DEF IInv
  <2>4. r.id < nextId
    BY <1>1, <2>1 DEF IInv, FreshInv
  <2>5. \A k \in (n + 1) .. Len(accepted) :
          accepted[k].type = "CREATE" => accepted[k].id \in Ids /\ accepted[k].id # r.id
    BY <1>1, <1>3, <2>1, AcceptedTyped DEF IInv, FreshInv, FreshIdentifiers
  <2>6. \A id \in Ids : Context(id)' # 0 => id < nextId
    BY <1>4, <2>1, <2>4
  <2>7. \A k \in (n + 1) .. Len(accepted) :
          accepted[k].type = "CREATE" => Context(accepted[k].id)' = 0
    BY <1>2, <1>3, <1>4, <2>1, <2>5
  <2> QED BY <2>3, <2>6, <2>7
<1>7. CASE HandleTerminate(r)
  <2>1. /\ allocated' = allocated /\ heap' = heap \ {Context(r.id)} /\ Present(r.id)
        /\ \A i \in Ids : Context(i)' = IF i = r.id THEN 0 ELSE Context(i)
    BY <1>2, <1>5, <1>7 DEF HandleTerminate, TerminateInternal, NoEntry, Context
  <2>2. NoContextLeaked' /\ \A i \in Ids : Context(i)' <= allocated'
    BY <1>2, <2>1, DeleteKeepsHeap DEF IInv
  <2>3. \A k \in (n + 1) .. Len(accepted) : accepted[k].id \in Ids
    BY <1>3, AcceptedTyped DEF IInv
  <2>4. \A id \in Ids : Context(id)' # 0 => id < nextId
    BY <1>4, <2>1
  <2>5. \A k \in (n + 1) .. Len(accepted) :
          accepted[k].type = "CREATE" => Context(accepted[k].id)' = 0
    BY <1>2, <1>3, <1>4, <2>1, <2>3
  <2>6. \A id \in Ids : Context(id)' <= allocated'
    BY <1>4, <2>1, <2>2
  <2> QED BY <2>2, <2>4, <2>5, <2>6
<1>8. CASE HandleRun(r) \/ HandleRunScript(r) \/ HandleUnknown(r)
  <2>1. UNCHANGED <<heap, allocated>> /\ \A i \in Ids : Context(i)' = Context(i)
    BY <1>2, <1>5, <1>8 DEF HandleRun, HandleRunScript, HandleUnknown, SetUrl, apps,
                            Context
  <2>2. NoContextLeaked'
    BY <1>4, <2>1 DEF NoContextLeaked, Present, Context
  <2>3. \A k \in (n + 1) .. Len(accepted) : accepted[k].id \in Ids
    BY <1>3, AcceptedTyped DEF IInv
  <2>4. \A id \in Ids : Context(id)' # 0 => id < nextId
    BY <1>4, <2>1
  <2>5. \A k \in (n + 1) .. Len(accepted) :
          accepted[k].type = "CREATE" => Context(accepted[k].id)' = 0
    BY <1>2, <1>3, <1>4, <2>1, <2>3
  <2>6. \A id \in Ids : Context(id)' <= allocated'
    BY <1>4, <2>1, <2>2
  <2> QED BY <2>2, <2>4, <2>5, <2>6
<1> QED BY <1>6, <1>7, <1>8 DEF HandleNext

LEMMA PushKeepsLive ==
  ASSUME IInv, NEW r \in Request, PushRequest(r), userMutex = "free",
         \/ r.type # "CREATE" /\ nextId' = nextId
         \/ r.type = "CREATE" /\ r.id = nextId /\ nextId' = nextId + 1
  PROVE  LiveInv'
<1>1. accepted \in Seq(Request) /\ nextId \in Nat
  BY DEF IInv, TypeInv, TypeOK
<1>2. accepted' = Append(accepted, r) /\ UNCHANGED <<apps, testId, pc, executed>>
  BY DEF PushRequest, apps
<1>3. /\ Len(accepted') = Len(accepted) + 1 /\ Len(accepted) \in Nat
      /\ \A k \in 1 .. Len(accepted) : accepted'[k] = accepted[k]
      /\ accepted'[Len(accepted) + 1] = r
  BY <1>1, <1>2
<1>4. ASSUME NEW k \in (Len(executed) + 1) .. (Len(accepted) + 1),
             accepted'[k].type = "CREATE"
      PROVE  ~Present(accepted'[k].id)
  <2>1. CASE k \in (Len(executed) + 1) .. Len(accepted)
    <3>1. k \in 1 .. Len(accepted)
      BY <2>1, OrderArithmetic DEF IInv
    <3> QED BY <1>3, <1>4, <2>1, <3>1 DEF IInv, LiveInv
  <2>2. CASE k = Len(accepted) + 1
    <3>1. r.type = "CREATE" /\ accepted'[k].id = nextId /\ r.id \in Ids
      BY <1>3, <1>4, <2>2 DEF Request
    <3>2. Present(nextId) => nextId < nextId
      BY <3>1 DEF IInv, LiveInv
    <3> QED BY <1>1, <3>1, <3>2
  <2> QED BY <2>1, <2>2, OrderArithmetic DEF IInv
<1>5. \A id \in Ids : Present(id) => id < nextId'
  BY <1>1 DEF IInv, LiveInv, Ids
<1> QED BY <1>2, <1>3, <1>4, <1>5
        DEF IInv, LiveInv, NoContextLeaked, Present, apps

LEMMA LiveStep ==
  ASSUME IInv, [Next]_vars
  PROVE  LiveInv'
<1>1. CASE HandleNext
  BY <1>1, HandleKeepsLive
<1>2. CASE CreateApplication
  <2>1. [type |-> "CREATE", id |-> nextId, text |-> Empty] \in Request
    BY <1>2 DEF CreateApplication, Request, RequestType, Ids, IInv, TypeInv, TypeOK
  <2> QED BY <1>2, <2>1, PushKeepsLive DEF CreateApplication
<1>3. ASSUME NEW r \in Request, PushRequest(r), userMutex = "free",
             r.type # "CREATE", UNCHANGED nextId
      PROVE  LiveInv'
  BY <1>3, PushKeepsLive
<1>4. ASSUME NEW id \in Ids, NEW t \in Text,
             RunApplication(id, t) \/ RunJavaScript(id, t)
      PROVE  LiveInv'
  BY <1>3, <1>4 DEF RunApplication, RunJavaScript, Request, RequestType
<1>5. ASSUME NEW id \in Ids, TerminateApplication(id)
      PROVE  LiveInv'
  BY <1>3, <1>5 DEF TerminateApplication, Request, RequestType
<1>6. CASE TakeTestId
  <2>1. /\ UNCHANGED <<contextMap, heap, allocated, accepted, executed>>
        /\ testId' = nextId /\ nextId' = nextId + 1 /\ nextId \in Nat
        /\ pc = "testId" /\ testFile /\ testId = 0
    BY <1>6 DEF TakeTestId, IInv, TypeInv, TypeOK, ControlInv
  <2>2. nextId \in Ids
    BY <2>1 DEF IInv, TypeInv, TypeOK, ControlInv, Ids
  <2>3. ~Present(nextId)
    BY <2>1, <2>2 DEF IInv, LiveInv
  <2>4. \A id \in Ids : Present(id) => id < nextId'
    BY <2>1 DEF IInv, LiveInv, Ids
  <2> QED BY <2>1, <2>3, <2>4 DEF IInv, LiveInv, NoContextLeaked, Present
<1>7. CASE RunTestFile
  <2>1. /\ UNCHANGED <<nextId, testId, accepted, executed>> /\ pc' = "engine"
        /\ testId \in Ids /\ testId < nextId /\ ~Present(testId)
    BY <1>7 DEF RunTestFile, IInv, TypeInv, TypeOK, ControlInv, FreshInv, LiveInv
  <2>2. contextMap \in [Ids -> [url : Url, context : Nat]]
    BY DEF IInv, TypeInv, TypeOK
  <2>3. /\ allocated' = allocated + 1 /\ heap' = heap \cup {allocated'}
        /\ \A i \in Ids : Context(i)' = IF i = testId THEN allocated' ELSE Context(i)
    BY <1>7, <2>1, <2>2 DEF RunTestFile, Context
  <2>4. NoContextLeaked' /\ \A i \in Ids : Context(i)' <= allocated'
    BY <2>1, <2>3, InstallKeepsHeap DEF IInv
  <2>5. \A k \in (Len(executed) + 1) .. Len(accepted) :
          /\ accepted[k].id \in Ids
          /\ accepted[k].type = "CREATE" =>
               accepted[k].id # testId /\ Context(accepted[k].id) = 0
    <3>1. \A k \in (Len(executed) + 1) .. Len(accepted) : k \in 1 .. Len(accepted)
      BY OrderArithmetic DEF IInv
    <3> QED BY <3>1, AcceptedTyped
            DEF IInv, FreshInv, FreshIdentifiers, LiveInv, Present, Context
  <2>6. \A k \in (Len(executed) + 1) .. Len(accepted) :
          accepted[k].type = "CREATE" => Context(accepted[k].id)' = 0
    BY <2>1, <2>3, <2>5
  <2>7. \A id \in Ids : Context(id)' # 0 => id < nextId
    BY <2>1, <2>3 DEF IInv, LiveInv, Present, Context
  <2> QED BY <2>1, <2>4, <2>6, <2>7 DEF LiveInv, Present, Context
<1>8. CASE /\ UNCHANGED <<contextMap, heap, allocated, nextId, accepted, executed, testId>>
           /\ pc' = "testRun" => pc = "testRun"
  BY <1>8 DEF IInv, LiveInv, NoContextLeaked, Present
<1>9. CASE Terminate \/ CheckRunning \/ LockQueue \/ EndDrain \/ ClearAndUnlock
             \/ RunEngine \/ UNCHANGED vars
  BY <1>8, <1>9 DEF Terminate, CheckRunning, LockQueue, EndDrain, ClearAndUnlock,
                    RunEngine, vars
<1> QED BY <1>1, <1>2, <1>4, <1>5, <1>6, <1>7, <1>9
        DEF Next, CallerNext, RendererNext

LEMMA IInvInductive ==
  /\ Init => IInv
  /\ IInv /\ [Next]_vars => IInv'
<1>1. Init => OrderInv /\ FreshInv
  BY DEF Init, OrderInv, HandledOnceInOrder, FreshInv, FreshIdentifiers
<1>2. Init => LiveInv
  BY DEF Init, LiveInv, NoContextLeaked, Present, NoEntry
<1>3. IInv /\ [Next]_vars => IInv'
  BY TypeStep, OrderStep, FreshStep, LiveStep DEF IInv
<1> QED BY TypeInit, <1>1, <1>2, <1>3 DEF IInv

(* The renderer never leaks a context and never keeps a deleted one: what is
   allocated is what the map holds, each context under one identifier. *)
THEOREM NoLeak == Spec => []NoContextLeaked
<1>1. IInv => NoContextLeaked
  BY DEF IInv, LiveInv
<1> QED BY IInvInductive, <1>1, PTL DEF Spec
-----------------------------------------------------------------------------
(* A terminated identifier is dead: it is not in the map, it is not the test
   file's, and no creation under it is still to be handled. *)
Dead(id) ==
  /\ id < nextId
  /\ ~Present(id)
  /\ testFile => id # testId
  /\ \A k \in (Len(executed) + 1) .. Len(accepted) :
       accepted[k].type = "CREATE" => accepted[k].id # id

TerminateInv ==
  /\ NoScriptAfterTerminate
  /\ \A j \in 1 .. Len(executed) :
       executed[j].effect = "deleted" => Dead(executed[j].request.id)

LEMMA DeadStays ==
  ASSUME IInv, [Next]_vars, NEW id \in Ids, Dead(id)
  PROVE  Dead(id)'
<1>0. IInv'
  BY IInvInductive
<1>1. CASE HandleNext
  <2>1. PICK e \in Effect :
          /\ Handle(pending[index], e) /\ pending[index] = accepted[Len(executed) + 1]
          /\ Len(executed) + 1 \in 1 .. Len(accepted)
          /\ Len(executed') = Len(executed) + 1
    BY <1>1, HandleEffect DEF IInv
  <2>2. /\ UNCHANGED <<nextId, testFile, testId, accepted>>
        /\ pending[index].id \in Ids
        /\ contextMap \in [Ids -> [url : Url, context : Nat]]
    BY <2>1, AcceptedTyped DEF Handle, IInv, TypeInv, TypeOK
  <2>3. /\ Len(executed) + 1 \in (Len(executed) + 1) .. Len(accepted)
        /\ \A k \in (Len(executed') + 1) .. Len(accepted) :
             k \in (Len(executed) + 1) .. Len(accepted)
    BY <2>1, OrderArithmetic DEF IInv
  <2>4. pending[index].type = "CREATE" => pending[index].id # id
    BY <2>1, <2>3 DEF Dead
  <2>5. ~Present(id)'
    <3>1. contextMap[id].context = 0
      BY DEF Dead, Present
    <3>2. contextMap'[id].context = 0
      BY <1>1, <2>2, <2>4, <3>1
         DEF HandleNext, HandleCreate, HandleRun, HandleRunScript, HandleTerminate,
             HandleUnknown, CreateInternal, SetUrl, TerminateInternal, apps, NoEntry
    <3> QED BY <3>2 DEF Present
  <2> QED BY <2>2, <2>3, <2>5 DEF Dead
<1>2. ASSUME NEW r \in Request, PushRequest(r), r.type = "CREATE" => r.id = nextId,
             nextId' \in {nextId, nextId + 1}
      PROVE  Dead(id)'
  <2>1. /\ accepted \in Seq(Request) /\ nextId \in Nat /\ id \in Nat
        /\ accepted' = Append(accepted, r)
        /\ UNCHANGED <<contextMap, testFile, testId, executed>>
    BY <1>2 DEF IInv, TypeInv, TypeOK, PushRequest, Ids
  <2>2. /\ Len(accepted') = Len(accepted) + 1
        /\ \A k \in 1 .. Len(accepted) : accepted'[k] = accepted[k]
        /\ accepted'[Len(accepted) + 1] = r
    BY <2>1
  <2>3. id < nextId' /\ (r.type = "CREATE" => r.id # id)
    BY <1>2, <2>1 DEF Dead
  <2>4. \A k \in (Len(executed) + 1) .. (Len(accepted) + 1) :
          \/ k \in 1 .. Len(accepted) /\ k \in (Len(executed) + 1) .. Len(accepted)
          \/ k = Len(accepted) + 1
    BY OrderArithmetic DEF IInv
  <2> QED BY <2>1, <2>2, <2>3, <2>4 DEF Dead, Present
<1>3. CASE CreateApplication
  <2>1. [type |-> "CREATE", id |-> nextId, text |-> Empty] \in Request
    BY <1>3 DEF CreateApplication, Request, RequestType, Ids, IInv, TypeInv, TypeOK
  <2> QED BY <1>2, <1>3, <2>1 DEF CreateApplication
<1>4. ASSUME NEW i \in Ids, NEW t \in Text,
             RunApplication(i, t) \/ RunJavaScript(i, t) \/ TerminateApplication(i)
      PROVE  Dead(id)'
  BY <1>2, <1>4 DEF RunApplication, RunJavaScript, TerminateApplication, Request,
                    RequestType
<1>5. CASE TakeTestId
  BY <1>5 DEF TakeTestId, Dead, Present, IInv, TypeInv, TypeOK, Ids
<1>6. CASE RunTestFile
  <2>1. /\ UNCHANGED <<nextId, testId, accepted, executed>> /\ ~testFile'
        /\ id # testId /\ contextMap \in [Ids -> [url : Url, context : Nat]]
        /\ contextMap' = [contextMap EXCEPT ![testId] =
                            [url |-> TestFile, context |-> allocated']]
    BY <1>6 DEF RunTestFile, Dead, IInv, TypeInv, TypeOK, ControlInv
  <2>2. contextMap'[id] = contextMap[id]
    BY <2>1
  <2> QED BY <2>1, <2>2 DEF Dead, Present
<1>7. CASE UNCHANGED <<nextId, contextMap, testFile, testId, accepted, executed>>
  BY <1>7 DEF Dead, Present
<1> QED BY <1>1, <1>3, <1>4, <1>5, <1>6, <1>7
        DEF Next, CallerNext, RendererNext, Terminate, CheckRunning, LockQueue,
            EndDrain, ClearAndUnlock, RunEngine, vars

LEMMA ExecutedTyped ==
  ASSUME TypeInv
  PROVE  \A j \in 1 .. Len(executed) :
           /\ executed[j].request \in Request /\ executed[j].request.id \in Ids
           /\ executed[j].effect \in Effect
<1>1. executed \in Seq([request : Request, effect : Effect])
  BY DEF TypeInv, TypeOK
<1>2. ASSUME NEW S, executed \in Seq(S)
      PROVE  \A j \in 1 .. Len(executed) : executed[j] \in S
  BY <1>2
<1>3. \A r \in Request : r.id \in Ids
  BY DEF Request
<1>4. \A j \in 1 .. Len(executed) : executed[j] \in [request : Request, effect : Effect]
  BY <1>1, <1>2
<1> QED BY <1>3, <1>4

(* The effect of a step of the drain on the application it names. *)
LEMMA EffectMeaning ==
  ASSUME TypeInv, OrderInv, HandleNext
  PROVE  LET n == Len(executed) + 1
             id == pending[index].id
         IN  /\ Len(executed') = n
             /\ \A k \in 1 .. Len(executed) : executed'[k] = executed[k]
             /\ executed'[n].request = pending[index]
             /\ executed'[n].effect = "noApplication" <=>
                  ~Present(id) /\ pending[index].type # "CREATE"
             /\ executed'[n].effect = "deleted" <=>
                  Present(id) /\ pending[index].type = "TERMINATE"
             /\ executed'[n].effect = "created" <=> pending[index].type = "CREATE"
<1> DEFINE r == pending[index]
           n == Len(executed) + 1
<1>1. executed \in Seq([request : Request, effect : Effect]) /\ r \in Request
  BY RequestTyped DEF TypeInv, TypeOK, HandleNext
<1>2. ASSUME NEW e \in Effect, Handle(r, e)
      PROVE  /\ Len(executed') = n
             /\ \A k \in 1 .. Len(executed) : executed'[k] = executed[k]
             /\ executed'[n].request = r /\ executed'[n].effect = e
  <2>1. executed' = Append(executed, [request |-> r, effect |-> e])
    BY <1>2 DEF Handle
  <2>2. [request |-> r, effect |-> e] \in [request : Request, effect : Effect]
    BY <1>1
  <2>3. /\ Len(executed') = n
        /\ \A k \in 1 .. Len(executed) : executed'[k] = executed[k]
        /\ executed'[n] = [request |-> r, effect |-> e]
    BY <1>1, <2>1, <2>2
  <2> QED BY <2>3
<1>3. CASE HandleCreate(r)
  BY <1>2, <1>3 DEF HandleCreate, Effect
<1>4. CASE HandleRun(r)
  BY <1>2, <1>4 DEF HandleRun, Effect
<1>5. CASE HandleRunScript(r)
  BY <1>2, <1>5 DEF HandleRunScript, Effect
<1>6. CASE HandleTerminate(r)
  BY <1>2, <1>6 DEF HandleTerminate, Effect
<1>7. CASE HandleUnknown(r)
  BY <1>2, <1>7 DEF HandleUnknown, Effect
<1> QED BY <1>3, <1>4, <1>5, <1>6, <1>7 DEF HandleNext

LEMMA DeletedIsDead ==
  ASSUME IInv, HandleNext, NEW id \in Ids, id = pending[index].id,
         Present(id), pending[index].type = "TERMINATE"
  PROVE  Dead(id)'
<1>1. /\ Len(executed') = Len(executed) + 1 /\ Len(executed) \in Nat
      /\ Len(accepted) \in Nat
  BY EffectMeaning, OrderArithmetic DEF IInv
<1>2. /\ HandleTerminate(pending[index]) /\ pc = "drain"
      /\ UNCHANGED <<nextId, testFile, testId, accepted>>
  BY DEF HandleNext, HandleCreate, HandleRun, HandleRunScript, HandleTerminate,
         HandleUnknown, Handle
<1>3. contextMap \in [Ids -> [url : Url, context : Nat]]
  BY DEF IInv, TypeInv, TypeOK
<1>4. ~Present(id)'
  BY <1>2, <1>3 DEF HandleTerminate, TerminateInternal, NoEntry, Present
<1>5. id < nextId
  BY DEF IInv, LiveInv
<1>6. testFile => id # testId
  BY <1>2 DEF IInv, TypeInv, ControlInv, Ids
<1>7. \A k \in (Len(executed) + 1) .. Len(accepted) :
        accepted[k].type = "CREATE" => accepted[k].id # id
  BY DEF IInv, LiveInv
<1>8. \A k \in (Len(executed') + 1) .. Len(accepted) :
        k \in (Len(executed) + 1) .. Len(accepted)
  BY <1>1
<1> QED BY <1>2, <1>4, <1>5, <1>6, <1>7, <1>8 DEF Dead

LEMMA TerminateStep ==
  ASSUME IInv, TerminateInv, [Next]_vars
  PROVE  TerminateInv'
<1>1. CASE HandleNext
  <2> DEFINE n == Len(executed) + 1
             id == pending[index].id
  <2>1. /\ n \in Nat /\ Len(executed) \in Nat /\ Len(executed') = n
        /\ \A k \in 1 .. Len(executed) : executed'[k] = executed[k]
        /\ executed'[n].request = pending[index]
        /\ executed'[n].effect = "noApplication" <=>
             ~Present(id) /\ pending[index].type # "CREATE"
        /\ executed'[n].effect = "deleted" <=>
             Present(id) /\ pending[index].type = "TERMINATE"
    BY <1>1, EffectMeaning, OrderArithmetic DEF IInv
  <2>2. \A k \in 1 .. n : k \in 1 .. Len(executed) \/ k = n
    BY <2>1
  <2>3. /\ pending[index] = accepted[n] /\ n \in n .. Len(accepted)
        /\ id \in Ids
    <3>1. pending[index] = accepted[n] /\ n \in 1 .. Len(accepted)
      BY <1>1, HandleEffect DEF IInv
    <3> QED BY <2>1, <3>1, AcceptedTyped DEF IInv
  <2>4. \A j \in 1 .. Len(executed) :
          executed[j].effect = "deleted" /\ executed[j].request.id = id
          => executed'[n].effect = "noApplication"
    BY <2>1, <2>3 DEF TerminateInv, Dead
  <2>5. NoScriptAfterTerminate'
    <3> SUFFICES ASSUME NEW k \in 1 .. n, NEW j \in 1 .. (k - 1),
                        executed'[j].effect = "deleted",
                        executed'[j].request.id = executed'[k].request.id
                 PROVE  executed'[k].effect = "noApplication"
      BY <2>1 DEF NoScriptAfterTerminate
    <3>1. CASE k = n
      <4>1. j \in 1 .. Len(executed)
        BY <2>1, <3>1
      <4> QED BY <2>1, <2>4, <3>1, <4>1
    <3>2. CASE k \in 1 .. Len(executed)
      <4>1. j \in 1 .. Len(executed)
        BY <2>1, <3>2
      <4> QED BY <2>1, <3>2, <4>1 DEF TerminateInv, NoScriptAfterTerminate
    <3> QED BY <2>2, <3>1, <3>2
  <2>6. \A j \in 1 .. Len(executed) :
          executed[j].effect = "deleted" => Dead(executed[j].request.id)'
    <3>1. ASSUME NEW j \in 1 .. Len(executed), executed[j].effect = "deleted"
          PROVE  Dead(executed[j].request.id)'
      <4>1. PICK i \in Ids : i = executed[j].request.id
        BY ExecutedTyped DEF IInv
      <4>2. Dead(i)
        BY <3>1, <4>1 DEF TerminateInv
      <4>3. Dead(i)'
        BY <4>2, DeadStays
      <4>4. executed'[j].request.id = i
        BY <2>1, <4>1
      <4> QED BY <4>3, <4>4
    <3> QED BY <3>1
  <2>7. ASSUME NEW j \in 1 .. Len(executed'), executed'[j].effect = "deleted"
        PROVE  Dead(executed[j].request.id)'
    <3>1. CASE j \in 1 .. Len(executed)
      BY <2>1, <2>6, <2>7, <3>1
    <3>2. CASE j = n
      <4>1. PICK i \in Ids : i = id
        BY <2>3
      <4>2. Dead(i)'
        BY <1>1, <2>1, <2>7, <3>2, <4>1, DeletedIsDead
      <4>3. executed'[j].request.id = i
        BY <2>1, <3>2, <4>1
      <4> QED BY <4>2, <4>3
    <3> QED BY <2>1, <2>2, <3>1, <3>2
  <2> QED BY <2>5, <2>7 DEF TerminateInv
<1>2. CASE UNCHANGED executed
  <2>1. \A j \in 1 .. Len(executed) :
          executed[j].effect = "deleted" => Dead(executed[j].request.id)'
    <3>1. ASSUME NEW j \in 1 .. Len(executed), executed[j].effect = "deleted"
          PROVE  Dead(executed[j].request.id)'
      <4>1. PICK i \in Ids : i = executed[j].request.id
        BY ExecutedTyped DEF IInv
      <4>2. Dead(i)'
        BY <3>1, <4>1, DeadStays DEF TerminateInv
      <4> QED BY <1>2, <4>1, <4>2
    <3> QED BY <3>1
  <2> QED BY <1>2, <2>1 DEF TerminateInv, NoScriptAfterTerminate
<1> QED BY <1>1, <1>2
        DEF Next, CallerNext, CreateApplication, RunApplication, RunJavaScript,
            TerminateApplication, PushRequest, Terminate, RendererNext, CheckRunning,
            LockQueue, EndDrain, ClearAndUnlock, TakeTestId, RunTestFile, RunEngine,
            vars

(* Once a termination was handled nothing ever runs under its identifier. *)
THEOREM TerminatedStaysDead == Spec => []NoScriptAfterTerminate
<1>1. Init => TerminateInv
  BY DEF Init, TerminateInv, NoScriptAfterTerminate
<1>2. IInv /\ TerminateInv /\ [Next]_vars => (IInv /\ TerminateInv)'
  BY IInvInductive, TerminateStep
<1>3. TerminateInv => NoScriptAfterTerminate
  BY DEF TerminateInv
<1> QED BY IInvInductive, <1>1, <1>2, <1>3, PTL DEF Spec
-----------------------------------------------------------------------------
(* An application that was created is present or was deleted since. *)
DropInv ==
  /\ DroppedOnlyWithoutApplication
  /\ \A j \in 1 .. Len(executed) :
       executed[j].effect = "created" =>
         \/ Present(executed[j].request.id)
         \/ \E m \in (j + 1) .. Len(executed) :
              /\ executed[m].effect = "deleted"
              /\ executed[m].request.id = executed[j].request.id

(* Only the handling of a termination takes an application from the map. *)
LEMMA PresentStays ==
  ASSUME IInv, [Next]_vars, NEW id \in Ids, Present(id), ~Present(id)'
  PROVE  HandleNext /\ pending[index].id = id /\ pending[index].type = "TERMINATE"
<1>1. /\ contextMap \in [Ids -> [url : Url, context : Nat]] /\ allocated \in Nat
      /\ contextMap[id].context # 0 /\ contextMap'[id].context = 0
  BY DEF IInv, TypeInv, TypeOK, Present
<1>2. CASE HandleNext
  <2> DEFINE r == pending[index]
  <2>1. r.id \in Ids
    BY <1>2, RequestTyped DEF HandleNext, IInv, TypeInv, Request
  <2>2. ~HandleCreate(r)
    BY <1>1, <2>1 DEF HandleCreate, CreateInternal
  <2>3. ~HandleRun(r) /\ ~HandleRunScript(r)
    BY <1>1, <2>1 DEF HandleRun, HandleRunScript, SetUrl
  <2>4. ~HandleUnknown(r)
    BY <1>1 DEF HandleUnknown, apps
  <2>5. HandleTerminate(r)
    BY <1>2, <2>2, <2>3, <2>4 DEF HandleNext
  <2> QED BY <1>1, <1>2, <2>1, <2>5 DEF HandleTerminate, TerminateInternal
<1>3. CASE RunTestFile
  BY <1>1, <1>3 DEF RunTestFile
<1>4. CASE UNCHANGED contextMap
  BY <1>1, <1>4
<1> QED BY <1>2, <1>3, <1>4
        DEF Next, CallerNext, CreateApplication, RunApplication, RunJavaScript,
            TerminateApplication, PushRequest, Terminate, RendererNext, CheckRunning,
            LockQueue, EndDrain, ClearAndUnlock, TakeTestId, RunEngine, vars

LEMMA DropStep ==
  ASSUME IInv, DropInv, [Next]_vars
  PROVE  DropInv'
<1>1. CASE HandleNext
  <2> DEFINE n == Len(executed) + 1
             id == pending[index].id
  <2>1. /\ n \in Nat /\ Len(executed) \in Nat /\ Len(executed') = n
        /\ \A k \in 1 .. Len(executed) : executed'[k] = executed[k]
        /\ executed'[n].request = pending[index]
        /\ executed'[n].effect = "noApplication" <=>
             ~Present(id) /\ pending[index].type # "CREATE"
        /\ executed'[n].effect = "deleted" <=>
             Present(id) /\ pending[index].type = "TERMINATE"
        /\ executed'[n].effect = "created" <=> pending[index].type = "CREATE"
    BY <1>1, EffectMeaning, OrderArithmetic DEF IInv
  <2>2. \A k \in 1 .. n : k \in 1 .. Len(executed) \/ k = n
    BY <2>1
  <2>3. id \in Ids
    BY <1>1, RequestTyped DEF HandleNext, IInv, TypeInv, Request
  <2>4. DroppedOnlyWithoutApplication'
    <3> SUFFICES ASSUME NEW k \in 1 .. n, NEW j \in 1 .. (k - 1),
                        executed'[k].effect = "noApplication",
                        executed'[j].effect = "created",
                        executed'[j].request.id = executed'[k].request.id
                 PROVE  \E m \in (j + 1) .. (k - 1) :
                          /\ executed'[m].effect = "deleted"
                          /\ executed'[m].request.id = executed'[k].request.id
      BY <2>1 DEF DroppedOnlyWithoutApplication
    <3>1. j \in 1 .. Len(executed)
      BY <2>1, <2>2
    <3>2. CASE k = n
      <4>1. executed[j].effect = "created" /\ executed[j].request.id = id /\ ~Present(id)
        BY <2>1, <3>1, <3>2
      <4>2. PICK m \in (j + 1) .. Len(executed) :
              executed[m].effect = "deleted" /\ executed[m].request.id = id
        BY <3>1, <4>1 DEF DropInv
      <4>3. m \in 1 .. Len(executed) /\ m \in (j + 1) .. (k - 1)
        BY <2>1, <3>1, <3>2, <4>2
      <4> QED BY <2>1, <3>2, <4>2, <4>3
    <3>3. CASE k \in 1 .. Len(executed)
      <4>1. PICK m \in (j + 1) .. (k - 1) :
              executed[m].effect = "deleted"
              /\ executed[m].request.id = executed[k].request.id
        BY <2>1, <3>1, <3>3 DEF DropInv, DroppedOnlyWithoutApplication
      <4>2. m \in 1 .. Len(executed)
        BY <2>1, <3>1, <3>3, <4>1
      <4> QED BY <2>1, <3>3, <4>1, <4>2
    <3> QED BY <2>2, <3>2, <3>3
  <2>5. ASSUME NEW j \in 1 .. n, executed'[j].effect = "created"
        PROVE  \/ contextMap'[executed'[j].request.id].context # 0
               \/ \E m \in (j + 1) .. n :
                    /\ executed'[m].effect = "deleted"
                    /\ executed'[m].request.id = executed'[j].request.id
    <3>1. CASE j = n
      <4>1. /\ pending[index].type = "CREATE" /\ executed'[j].request.id = id
            /\ contextMap \in [Ids -> [url : Url, context : Nat]] /\ allocated \in Nat
        BY <2>1, <2>5, <3>1 DEF IInv, TypeInv, TypeOK
      <4>2. HandleCreate(pending[index])
        BY <1>1, <4>1 DEF HandleNext, HandleRun, HandleRunScript, HandleTerminate,
                          HandleUnknown
      <4>3. contextMap'[id].context = allocated + 1
        BY <2>3, <4>1, <4>2 DEF HandleCreate, CreateInternal
      <4> QED BY <4>1, <4>3
    <3>2. CASE j \in 1 .. Len(executed)
      <4>1. PICK i \in Ids : i = executed[j].request.id
        BY <3>2, ExecutedTyped DEF IInv
      <4>2. executed[j].effect = "created" /\ executed'[j].request.id = i
        BY <2>1, <2>5, <3>2, <4>1
      <4>3. CASE Present(i) /\ Present(i)'
        BY <4>2, <4>3 DEF Present
      <4>4. CASE Present(i) /\ ~Present(i)'
        <5>1. id = i /\ pending[index].type = "TERMINATE"
          BY <4>4, PresentStays
        <5>2. executed'[n].effect = "deleted" /\ executed'[n].request.id = i
          BY <2>1, <4>4, <5>1
        <5>3. n \in (j + 1) .. n
          BY <2>1, <3>2
        <5> QED BY <4>2, <5>2, <5>3
      <4>5. CASE ~Present(i)
        <5>1. PICK m \in (j + 1) .. Len(executed) :
                executed[m].effect = "deleted" /\ executed[m].request.id = i
          BY <3>2, <4>1, <4>2, <4>5 DEF DropInv
        <5>2. m \in 1 .. Len(executed) /\ m \in (j + 1) .. n
          BY <2>1, <3>2, <5>1
        <5> QED BY <2>1, <4>2, <5>1, <5>2
      <4> QED BY <4>3, <4>4, <4>5
    <3> QED BY <2>2, <3>1, <3>2
  <2> QED BY <2>1, <2>4, <2>5 DEF DropInv, Present
<1>2. CASE UNCHANGED executed /\ ~HandleNext
  <2>1. ASSUME NEW j \in 1 .. Len(executed), Present(executed[j].request.id)
        PROVE  Present(executed[j].request.id)'
    <3>1. PICK i \in Ids : i = executed[j].request.id
      BY ExecutedTyped DEF IInv
    <3>2. Present(i)'
      BY <1>2, <2>1, <3>1, PresentStays
    <3> QED BY <1>2, <3>1, <3>2
  <2> QED BY <1>2, <2>1 DEF DropInv, DroppedOnlyWithoutApplication
<1>3. CASE UNCHANGED executed /\ HandleNext
  <2>1. Len(executed') = Len(executed) + 1 /\ Len(executed) \in Nat
    BY <1>3, EffectMeaning, OrderArithmetic DEF IInv
  <2> QED BY <1>3, <2>1
<1> QED BY <1>1, <1>2, <1>3
        DEF Next, CallerNext, CreateApplication, RunApplication, RunJavaScript,
            TerminateApplication, PushRequest, Terminate, RendererNext, CheckRunning,
            LockQueue, EndDrain, ClearAndUnlock, TakeTestId, RunTestFile, RunEngine,
            vars

(* Between its creation and its termination an application answers every
   request: none is dropped for want of it. *)
THEOREM LivingIsServed == Spec => []DroppedOnlyWithoutApplication
<1>1. Init => DropInv
  BY DEF Init, DropInv, DroppedOnlyWithoutApplication
<1>2. IInv /\ DropInv /\ [Next]_vars => (IInv /\ DropInv)'
  BY IInvInductive, DropStep
<1>3. DropInv => DroppedOnlyWithoutApplication
  BY DEF DropInv
<1> QED BY IInvInductive, <1>1, <1>2, <1>3, PTL DEF Spec

(* Whatever callers queue, an application's requests take effect from its
   creation to its termination, and none outside. *)
THEOREM ServedWithinLife == Spec => []RequestsWithinLife
<1>1. NoScriptAfterTerminate /\ DroppedOnlyWithoutApplication => RequestsWithinLife
  BY DEF RequestsWithinLife
<1> QED BY TerminatedStaysDead, LivingIsServed, <1>1, PTL

(* Identifiers and contexts correspond one to one: fresh identifiers, and no
   context leaked, shared or used after its deletion. *)
THEOREM OneContextEach == Spec => []OneContextPerApplication
<1>1. FreshIdentifiers /\ NoContextLeaked => OneContextPerApplication
  BY DEF OneContextPerApplication
<1> QED BY IdentifiersFresh, NoLeak, <1>1, PTL
-----------------------------------------------------------------------------
EngineInv == engineUp <=> pc # "done"

(* Nothing is handled, created or deleted once the engine was terminated. *)
THEOREM QuietAfterEngine == Spec => NothingRunsAfterEngineTerminate
<1>1. Init => EngineInv
  BY DEF Init, EngineInv
<1>2. TypeInv /\ EngineInv /\ [Next]_vars => EngineInv'
  <2> SUFFICES ASSUME TypeInv, EngineInv, [Next]_vars
               PROVE  EngineInv'
    OBVIOUS
  <2>1. engineUp \in BOOLEAN
    BY DEF TypeInv, TypeOK
  <2> QED BY <2>1
     DEF EngineInv, Next, CallerNext, CreateApplication,
         RunApplication, RunJavaScript, TerminateApplication, PushRequest, Terminate,
         RendererNext, CheckRunning, LockQueue, HandleNext, HandleCreate, HandleRun,
         HandleRunScript, HandleTerminate, HandleUnknown, Handle, EndDrain,
         ClearAndUnlock, TakeTestId, RunTestFile, RunEngine, vars
<1>3. EngineInv /\ [Next]_vars => [~engineUp => UNCHANGED <<apps, executed>>]_vars
  BY DEF EngineInv, Next, CallerNext, CreateApplication, RunApplication,
         RunJavaScript, TerminateApplication, PushRequest, Terminate, RendererNext,
         CheckRunning, LockQueue, HandleNext, EndDrain, ClearAndUnlock, TakeTestId,
         RunTestFile, RunEngine, apps, vars
<1> QED BY TypeInit, TypeStep, <1>1, <1>2, <1>3, PTL
        DEF Spec, NothingRunsAfterEngineTerminate
-----------------------------------------------------------------------------
(* The application the service sees under an identifier. *)
App(id) == [present |-> Present(id), url |-> contextMap[id].url]

(* An identifier that is not in the map has no url either. *)
AbsentInv == \A id \in Ids : ~Present(id) => contextMap[id] = NoEntry

LEMMA HandleServes ==
  ASSUME IInv, AbsentInv, HandleNext
  PROVE  Service!Serve
<1> DEFINE r == pending[index]
           n == Len(executed) + 1
<1>1. PICK e \in Effect :
        /\ Handle(r, e) /\ r = accepted[n] /\ n \in 1 .. Len(accepted)
        /\ Len(executed') = n
  BY HandleEffect DEF IInv
<1>2. /\ r \in Request /\ r.id \in Ids /\ UNCHANGED <<accepted, running>>
      /\ contextMap \in [Ids -> [url : Url, context : Nat]]
      /\ allocated \in Nat
  BY <1>1, AcceptedTyped DEF IInv, TypeInv, TypeOK, Handle
<1>3. Len(executed) < Len(accepted)
  BY <1>1, OrderArithmetic DEF IInv
<1>4. App(r.id).present = Present(r.id) /\ App(r.id).url = contextMap[r.id].url
  BY DEF App
<1>5. \A id \in Ids :
        [present |-> Present(id), url |-> contextMap[id].url]' =
          IF id = r.id THEN Service!After(App(id), r) ELSE App(id)
  <2> SUFFICES ASSUME NEW id \in Ids
               PROVE  [present |-> Present(id)', url |-> contextMap'[id].url] =
                        IF id = r.id THEN Service!After(App(id), r) ELSE App(id)
    OBVIOUS
  <2>1. r.type \in {"CREATE", "RUN", "RUNSCRIPT", "TERMINATE"}
    BY <1>2 DEF Request, RequestType
  <2>2. CASE HandleCreate(r)
    <3>1. /\ contextMap' = [contextMap EXCEPT ![r.id].context = allocated']
          /\ allocated' = allocated + 1 /\ r.type = "CREATE"
      BY <2>2 DEF HandleCreate, CreateInternal
    <3>2. /\ contextMap'[id].url = contextMap[id].url
          /\ contextMap'[id].context =
               IF id = r.id THEN allocated + 1 ELSE contextMap[id].context
      BY <1>2, <3>1
    <3>3. allocated + 1 # 0
      BY <1>2
    <3>4. Service!After(App(r.id), r) = [present |-> TRUE, url |-> contextMap[r.id].url]
      BY <3>1 DEF Service!After, App
    <3> QED BY <3>2, <3>3, <3>4 DEF App, Present
  <2>3. CASE HandleRun(r)
    BY <1>2, <2>3 DEF HandleRun, SetUrl, App, Present, Service!After
  <2>4. CASE HandleRunScript(r)
    <3> DEFINE u == IF contextMap[r.id].url = Empty THEN JavaScriptCode
                                                    ELSE contextMap[r.id].url
    <3>1. /\ contextMap' = [contextMap EXCEPT ![r.id].url = u]
          /\ Present(r.id) /\ r.type = "RUNSCRIPT"
      BY <2>4 DEF HandleRunScript, SetUrl
    <3>2. Service!After(App(r.id), r) = [present |-> TRUE, url |-> u]
      BY <3>1 DEF Service!After, App
    <3> HIDE DEF u
    <3>3. /\ contextMap'[id].url = IF id = r.id THEN u ELSE contextMap[id].url
          /\ contextMap'[id].context = contextMap[id].context
      BY <1>2, <3>1
    <3> QED BY <3>1, <3>2, <3>3 DEF App, Present
  <2>5. CASE HandleTerminate(r)
    BY <1>2, <2>5
       DEF HandleTerminate, TerminateInternal, App, Present, NoEntry,
           Service!After, Service!NoApp
  <2>6. CASE HandleUnknown(r)
    <3>1. /\ contextMap' = contextMap /\ ~Present(r.id) /\ r.type # "CREATE"
      BY <2>6 DEF HandleUnknown, apps
    <3>2. contextMap[r.id].url = Empty
      BY <1>2, <3>1 DEF AbsentInv, NoEntry
    <3> QED BY <2>1, <3>1, <3>2 DEF App, Present, Service!After, Service!NoApp
  <2> QED BY <2>2, <2>3, <2>4, <2>5, <2>6 DEF HandleNext
<1>6. Service!Serve
  BY <1>1, <1>2, <1>3, <1>5 DEF Service!Serve, App
<1> QED BY <1>6

LEMMA AbsentStep ==
  ASSUME IInv, AbsentInv, [Next]_vars
  PROVE  AbsentInv'
<1>1. contextMap \in [Ids -> [url : Url, context : Nat]] /\ allocated \in Nat
  BY DEF IInv, TypeInv, TypeOK
<1>2. CASE HandleNext
  <2> DEFINE r == pending[index]
  <2>1. r.id \in Ids
    BY <1>2, RequestTyped DEF HandleNext, IInv, TypeInv, Request
  <2>2. CASE HandleCreate(r)
    <3>1. /\ contextMap' = [contextMap EXCEPT ![r.id].context = allocated']
          /\ allocated' = allocated + 1
      BY <2>2 DEF HandleCreate, CreateInternal
    <3>2. /\ contextMap'[r.id].context = allocated + 1
          /\ \A id \in Ids \ {r.id} : contextMap'[id] = contextMap[id]
      BY <1>1, <2>1, <3>1
    <3> QED BY <1>1, <2>1, <3>2 DEF AbsentInv, Present
  <2>3. CASE HandleRun(r) \/ HandleRunScript(r)
    BY <1>1, <2>1, <2>3 DEF HandleRun, HandleRunScript, SetUrl, AbsentInv, Present
  <2>4. CASE HandleTerminate(r)
    BY <1>1, <2>1, <2>4 DEF HandleTerminate, TerminateInternal, AbsentInv, Present
  <2>5. CASE HandleUnknown(r)
    BY <2>5 DEF HandleUnknown, apps, AbsentInv, Present
  <2> QED BY <1>2, <2>2, <2>3, <2>4, <2>5 DEF HandleNext
<1>3. CASE RunTestFile
  <2>1. /\ testId \in Ids /\ allocated' = allocated + 1
        /\ contextMap' = [contextMap EXCEPT ![testId] =
                            [url |-> TestFile, context |-> allocated']]
    BY <1>3 DEF RunTestFile, IInv, TypeInv, TypeOK, ControlInv
  <2>2. /\ contextMap'[testId].context # 0
        /\ \A id \in Ids \ {testId} : contextMap'[id] = contextMap[id]
    BY <1>1, <2>1
  <2> QED BY <2>1, <2>2 DEF AbsentInv, Present
<1>4. CASE UNCHANGED contextMap
  BY <1>4 DEF AbsentInv, Present
<1> QED BY <1>2, <1>3, <1>4
        DEF Next, CallerNext, CreateApplication, RunApplication, RunJavaScript,
            TerminateApplication, PushRequest, Terminate, RendererNext, CheckRunning,
            LockQueue, EndDrain, ClearAndUnlock, TakeTestId, RunEngine, vars

LEMMA ServiceStep ==
  ASSUME IInv, AbsentInv, [Next]_vars
  PROVE  [Service!Next]_(Service!vars)
<1>1. ASSUME NEW r \in Request, PushRequest(r)
      PROVE  Service!Accept(r)
  BY <1>1 DEF PushRequest, Service!Accept, Present
<1>2. CASE CreateApplication
  <2>1. [type |-> "CREATE", id |-> nextId, text |-> Empty] \in Request
    BY <1>2 DEF CreateApplication, Request, RequestType, Ids, IInv, TypeInv, TypeOK
  <2> QED BY <1>1, <1>2, <2>1 DEF CreateApplication, Service!Next
<1>3. ASSUME NEW id \in Ids, NEW t \in Text,
             RunApplication(id, t) \/ RunJavaScript(id, t) \/ TerminateApplication(id)
      PROVE  Service!Next
  <2>1. PICK r \in Request : PushRequest(r)
    BY <1>3 DEF RunApplication, RunJavaScript, TerminateApplication, Request, RequestType
  <2> QED BY <1>1, <2>1 DEF Service!Next
<1>4. CASE Terminate
  BY <1>4 DEF Terminate, Service!Next, Service!Close, Present
<1>5. CASE HandleNext
  BY <1>5, HandleServes DEF Service!Next
<1>6. CASE RunTestFile
  <2>1. /\ testId \in Ids /\ ~Present(testId) /\ allocated' = allocated + 1
        /\ allocated' # 0 /\ UNCHANGED <<accepted, executed, running>>
        /\ contextMap \in [Ids -> [url : Url, context : Nat]]
        /\ contextMap' = [contextMap EXCEPT ![testId] =
                            [url |-> TestFile, context |-> allocated']]
    BY <1>6 DEF RunTestFile, IInv, LiveInv, TypeInv, TypeOK, ControlInv
  <2>2. \A id \in Ids :
          [present |-> Present(id), url |-> contextMap[id].url]' =
            IF id = testId THEN [present |-> TRUE, url |-> TestFile]
            ELSE [present |-> Present(id), url |-> contextMap[id].url]
    BY <2>1 DEF Present
  <2>3. PICK i \in Ids : i = testId
    BY <2>1
  <2>4. Service!LaunchTestFile(i)
    BY <2>1, <2>2, <2>3 DEF Service!LaunchTestFile
  <2> QED BY <2>4 DEF Service!Next
<1>7. CASE UNCHANGED <<accepted, executed, contextMap, running>>
  BY <1>7 DEF Service!vars, Present
<1> QED BY <1>2, <1>3, <1>4, <1>5, <1>6, <1>7
        DEF Next, CallerNext, RendererNext, CheckRunning, LockQueue, EndDrain,
            ClearAndUnlock, TakeTestId, RunEngine, vars

LEMMA ServiceInit == Init => AbsentInv /\ Service!Init
<1> SUFFICES ASSUME Init
             PROVE  AbsentInv /\ Service!Init
  OBVIOUS
<1>1. \A id \in Ids : contextMap[id] = [url |-> Empty, context |-> 0]
  BY DEF Init, NoEntry
<1>2. \A id \in Ids : [present |-> Present(id), url |-> contextMap[id].url]
                        = [present |-> FALSE, url |-> Empty]
  <2>1. \A id \in Ids : contextMap[id].url = Empty /\ contextMap[id].context = 0
    BY <1>1
  <2>2. \A id \in Ids : Present(id) = FALSE
    BY <2>1 DEF Present
  <2> QED BY <2>1, <2>2
<1>3. accepted = <<>> /\ executed = <<>> /\ running = TRUE
  BY DEF Init
<1>4. [id \in Ids |-> [present |-> Present(id), url |-> contextMap[id].url]]
        = [id \in Ids |-> Service!NoApp]
  BY <1>2 DEF Service!NoApp
<1>5. Service!Init
  <2>1. Len(executed) = 0
    BY <1>3
  <2> QED BY <1>3, <1>4, <2>1 DEF Service!Init
<1> QED BY <1>1, <1>5 DEF AbsentInv, NoEntry

(* The renderer implements the safety of the service: its requests take effect
   one at a time and in order. *)
THEOREM RefinesService == Spec => Service!Safe
<1>1. IInv /\ AbsentInv /\ [Next]_vars => (IInv /\ AbsentInv)'
  BY IInvInductive, AbsentStep
<1>2. IInv /\ AbsentInv /\ [Next]_vars => [Service!Next]_(Service!vars)
  BY ServiceStep
<1> QED BY IInvInductive, ServiceInit, <1>1, <1>2, PTL DEF Spec, Service!Safe

-----------------------------------------------------------------------------
(* The server over the renderer.                                            *)

(* What the effect of a handled request says about its type. *)
EffectInv ==
  \A k \in 1 .. Len(executed) :
    /\ executed[k].request.type = "CREATE" => executed[k].effect = "created"
    /\ executed[k].request.type = "RUN" =>
         executed[k].effect \in {"ran", "notRun", "noApplication"}

(* Without a test file applications come from requests alone. *)
SourceInv ==
  /\ ~testFile
  /\ \A id \in Ids : Present(id) => Outcome(id, "created")

RendererInv == IInv /\ TerminateInv /\ DropInv /\ EffectInv /\ SourceInv

(* The message under way is one a client sends, and the identifiers that the
   server and the application threads hold were all given to them. *)
JobInv ==
  /\ serverPc = "handle" => job \in Message
  /\ serverPc = "launch" => job.id \in Ids /\ job.id < nextId
  /\ \A t \in Threads : threadPc[t] = "run" =>
       /\ threadId[t] \in Ids /\ threadId[t] < nextId
       /\ serverPc = "launch" => threadId[t] # job.id

(* The last n requests but for its creation do not name the application. *)
CreatedAlone(id, n) ==
  \E c \in 1 .. n :
    /\ accepted[c].id = id /\ accepted[c].type = "CREATE"
    /\ \A i \in (c + 1) .. n : accepted[i].id # id

(* Every launch answered has its RUN, with nothing but its creation before. *)
LaunchedInv ==
  \A l \in launched : l.url \notin Html =>
    \E k \in 1 .. Len(accepted) :
      /\ accepted[k] = [type |-> "RUN", id |-> l.id, text |-> l.url]
      /\ CreatedAlone(l.id, k - 1)

LaunchInv ==
  /\ serverPc = "launch" => CreatedAlone(job.id, Len(accepted))
  /\ LaunchedInv

(* What stop() has closed, or does not have to. *)
CloseInv ==
  serverPc = "closing" /\ process = "running"
    => \A c \in connections \ toClose : link[c] # "open"

ServerInv == RendererInv /\ ServerTypeOK /\ JobInv /\ LaunchInv /\ CloseInv
-----------------------------------------------------------------------------
USE BoundsAssumption, TextAssumption, ServerAssumption

(* What a message carries. *)
LEMMA MessageTyped ==
  ASSUME NEW m \in Message
  PROVE  /\ m \in [method : Method, id : Ids \cup {0}, text : Text]
         /\ m.method \in {"runApplication", "runJavaScript", "destroyApplication"} =>
              m.id \in Ids
BY DEF Message, Method

LEMMA JobTyped ==
  ASSUME ServerInv
  PROVE  job.id \in Ids \cup {0} /\ job.text \in Text /\ nextId \in Nat
BY DEF ServerInv, ServerTypeOK, RendererInv, IInv, TypeInv, TypeOK

(* Creating an application takes an identifier that is free for callers. *)
LEMMA CreateTyped ==
  ASSUME ServerInv, CreateApplication
  PROVE  /\ nextId \in Ids /\ nextId' = nextId + 1
         /\ [type |-> "CREATE", id |-> nextId, text |-> Empty] \in Request
         /\ accepted' = Append(accepted, [type |-> "CREATE", id |-> nextId, text |-> Empty])
<1>1. nextId \in Ids
  BY DEF CreateApplication, Ids, ServerInv, RendererInv, IInv, TypeInv, TypeOK, SourceInv
<1> QED BY <1>1 DEF CreateApplication, PushRequest, Request, RequestType

(* The server's handlers ask of the renderer what any caller may ask. *)
LEMMA AsCaller ==
  ASSUME ServerInv, [ServerNext]_allVars
  PROVE  [Next]_vars
<1>1. CASE ConnectionNext
  BY <1>1 DEF ConnectionNext, OnOpen, PeerCloses, OnClose
<1>2. CASE \E c \in Clients, m \in Message : OnMessage(c, m)
  BY <1>2 DEF OnMessage
<1>3. CASE ReplyOnly \/ LaunchHtml \/ GetApplications \/ StopListening
           \/ \E c \in Clients : CloseOne(c)
  BY <1>3 DEF ReplyOnly, LaunchHtml, GetApplications, StopListening, CloseOne
<1>4. CASE LaunchCreate
  BY <1>4 DEF LaunchCreate, Next, CallerNext
<1>5. CASE LaunchRun
  <2>1. job.id \in Ids /\ job.text \in Text /\ RunApplication(job.id, job.text)
    BY <1>5, JobTyped DEF LaunchRun, ServerInv, JobInv
  <2> QED BY <2>1 DEF Next, CallerNext
<1>6. CASE QueueRequest
  <2>1. CASE CreateApplication
    BY <2>1 DEF Next, CallerNext
  <2>2. CASE ~CreateApplication
    <3>1. job \in Message /\ job.text \in Text
      BY <1>6, <2>2, JobTyped DEF QueueRequest, Handling, ServerInv, JobInv
    <3>2. job.id \in Ids
      BY <1>6, <2>2, <3>1, MessageTyped DEF QueueRequest, Handling
    <3>3. \/ RunApplication(job.id, job.text) \/ RunJavaScript(job.id, job.text)
          \/ TerminateApplication(job.id)
      BY <1>6, <2>2 DEF QueueRequest
    <3> QED BY <3>1, <3>2, <3>3 DEF Next, CallerNext
  <2> QED BY <2>1, <2>2
<1>7. CASE StopRenderer
  BY <1>7 DEF StopRenderer, Next, CallerNext
<1>8. ASSUME NEW t \in Threads, ThreadCreate(t)
      PROVE  [Next]_vars
  BY <1>8 DEF ThreadCreate, Next, CallerNext
<1>9. ASSUME NEW t \in Threads, ThreadRun(t)
      PROVE  [Next]_vars
  <2>1. threadId[t] \in Ids /\ ThreadUrl \in Text
    BY <1>9 DEF ThreadRun, ThreadStep, ServerInv, JobInv
  <2> QED BY <1>9, <2>1 DEF ThreadRun, Next, CallerNext
<1>10. CASE RendererStep
  BY <1>10 DEF RendererStep, Next
<1>11. CASE MainReturns
  BY <1>11 DEF MainReturns
<1>12. CASE UNCHANGED allVars
  BY <1>12 DEF allVars
<1> QED BY <1>1, <1>2, <1>3, <1>4, <1>5, <1>6, <1>7, <1>8, <1>9, <1>10, <1>11, <1>12
        DEF ServerNext, Running, HandleMessage, ThreadNext
-----------------------------------------------------------------------------
(* The renderer's own invariants. *)

(* Requests are handled in HandleNext and nowhere else. *)
LEMMA ExecutedStays ==
  ASSUME [Next]_vars, ~HandleNext
  PROVE  executed' = executed
BY DEF Next, CallerNext, CreateApplication, RunApplication, RunJavaScript,
   TerminateApplication, PushRequest, Terminate, RendererNext, CheckRunning,
   LockQueue, EndDrain, ClearAndUnlock, TakeTestId, RunTestFile, RunEngine, vars

LEMMA EffectStep ==
  ASSUME IInv, EffectInv, [Next]_vars
  PROVE  EffectInv'
<1>1. CASE ~HandleNext
  BY <1>1, ExecutedStays DEF EffectInv
<1>2. CASE HandleNext
  <2> DEFINE n == Len(executed) + 1
             r == pending[index]
  <2>1. /\ Len(executed') = n /\ Len(executed) \in Nat
        /\ \A k \in 1 .. Len(executed) : executed'[k] = executed[k]
        /\ executed'[n].request = r
        /\ executed'[n].effect = "created" <=> r.type = "CREATE"
    BY <1>2, EffectMeaning, OrderArithmetic DEF IInv
  <2>2. r.type = "RUN" => executed'[n].effect \in {"ran", "notRun", "noApplication"}
    <3>1. PICK e \in Effect : /\ Handle(r, e)
                              /\ executed'[n] = [request |-> r, effect |-> e]
      BY <1>2, HandleEffect DEF IInv
    <3>2. ~(r.type = "RUN" /\ (HandleCreate(r) \/ HandleRunScript(r) \/ HandleTerminate(r)))
      BY DEF HandleCreate, HandleRunScript, HandleTerminate
    <3>3. ASSUME NEW f \in Effect, Handle(r, f)
          PROVE  executed'[n].effect = f
      <4>1. executed \in Seq([request : Request, effect : Effect]) /\ r \in Request
        BY <1>2, RequestTyped DEF IInv, TypeInv, TypeOK, HandleNext
      <4>2. executed' = Append(executed, [request |-> r, effect |-> f])
        BY <3>3 DEF Handle
      <4>3. [request |-> r, effect |-> f] \in [request : Request, effect : Effect]
        BY <4>1
      <4>4. executed'[n] = [request |-> r, effect |-> f]
        BY <4>1, <4>2, <4>3
      <4> QED BY <4>4
    <3>4. CASE HandleRun(r)
      BY <3>3, <3>4 DEF HandleRun, Effect
    <3>5. CASE HandleUnknown(r)
      BY <3>3, <3>5 DEF HandleUnknown, Effect
    <3> QED BY <1>2, <3>2, <3>4, <3>5 DEF HandleNext
  <2>3. \A k \in 1 .. n : k \in 1 .. Len(executed) \/ k = n
    BY <2>1
  <2> QED BY <2>1, <2>2, <2>3 DEF EffectInv
<1> QED BY <1>1, <1>2

LEMMA SourceStep ==
  ASSUME IInv, SourceInv, [Next]_vars
  PROVE  SourceInv'
<1>1. ~testFile' /\ ~RunTestFile
  <2>1. ~RunTestFile
    BY DEF SourceInv, IInv, TypeInv, ControlInv, RunTestFile
  <2>2. HandleNext => testFile' = testFile
    BY DEF HandleNext, HandleCreate, HandleRun, HandleRunScript, HandleTerminate,
           HandleUnknown, Handle
  <2>3. testFile' = testFile
    BY <2>1, <2>2
       DEF Next, CallerNext, CreateApplication, RunApplication,
           RunJavaScript, TerminateApplication, PushRequest, Terminate, RendererNext,
           CheckRunning, LockQueue, EndDrain, ClearAndUnlock, TakeTestId, RunEngine,
           vars
  <2>4. ~testFile
    BY DEF SourceInv
  <2> QED BY <2>1, <2>3, <2>4
<1>2. CASE ~HandleNext
  <2>1. contextMap' = contextMap
    BY <1>1, <1>2
       DEF Next, CallerNext, CreateApplication, RunApplication, RunJavaScript,
           TerminateApplication, PushRequest, Terminate, RendererNext, CheckRunning,
           LockQueue, EndDrain, ClearAndUnlock, TakeTestId, RunEngine, vars
  <2> QED BY <1>1, <1>2, <2>1, ExecutedStays DEF SourceInv, Present, Outcome
<1>3. CASE HandleNext
  <2> DEFINE n == Len(executed) + 1
             r == pending[index]
  <2>1. /\ Len(executed') = n /\ Len(executed) \in Nat /\ n \in 1 .. n
        /\ \A k \in 1 .. Len(executed) : k \in 1 .. n /\ executed'[k] = executed[k]
        /\ executed'[n].request = r
        /\ executed'[n].effect = "created" <=> r.type = "CREATE"
    BY <1>3, EffectMeaning, OrderArithmetic DEF IInv
  <2>2. /\ contextMap \in [Ids -> [url : Url, context : Nat]]
        /\ r \in Request /\ r.id \in Ids
    BY <1>3, RequestTyped DEF IInv, TypeInv, TypeOK, HandleNext, Request
  <2>3. ASSUME NEW id \in Ids, Present(id)'
        PROVE  Outcome(id, "created")'
    <3>1. CASE Present(id)
      <4>1. PICK k \in 1 .. Len(executed) :
              executed[k].request.id = id /\ executed[k].effect = "created"
        BY <3>1 DEF SourceInv, Outcome
      <4> QED BY <2>1, <4>1 DEF Outcome
    <3>2. CASE ~Present(id)
      <4>1. contextMap[id].context = 0 /\ contextMap'[id].context # 0
        BY <2>3, <3>2 DEF Present
      <4>2. r.type = "CREATE" /\ r.id = id
        BY <1>3, <2>2, <4>1
           DEF HandleNext, HandleCreate, HandleRun, HandleRunScript, HandleTerminate,
               HandleUnknown, CreateInternal, SetUrl, TerminateInternal, apps, NoEntry
      <4> QED BY <2>1, <4>2 DEF Outcome
    <3> QED BY <3>1, <3>2
  <2> QED BY <1>1, <2>3 DEF SourceInv
<1> QED BY <1>2, <1>3

LEMMA RendererInvStep ==
  ASSUME RendererInv, [Next]_vars
  PROVE  RendererInv'
BY IInvInductive, TerminateStep, DropStep, EffectStep, SourceStep DEF RendererInv
-----------------------------------------------------------------------------
(* The server's own invariants. *)

LEMMA ServerTypeInit == ServerInit => ServerTypeOK
<1> SUFFICES ASSUME ServerInit PROVE ServerTypeOK
  OBVIOUS
<1>1. /\ link \in [Clients -> Link] /\ connections = {}
      /\ \A c \in Clients : link[c] = "accepted"
  BY DEF ServerInit, Link
<1>2. job \in [method : Method, id : Ids \cup {0}, text : Text]
  BY DEF ServerInit, NoJob, Method
<1>3. received \in 0 .. MaxMessages
  BY DEF ServerInit
<1>4. /\ threadPc \in [Threads -> {"create", "run", "done"}]
      /\ threadId \in [Threads -> Ids \cup {0}]
  BY DEF ServerInit
<1>5. connections = {c \in Clients : link[c] \in {"open", "closing"}}
  BY <1>1
<1> QED BY <1>1, <1>2, <1>3, <1>4, <1>5 DEF ServerTypeOK, ServerInit

LEMMA ServerInvInit == ServerInit => ServerInv
<1> SUFFICES ASSUME ServerInit PROVE ServerInv
  OBVIOUS
<1>1. Init /\ ~testFile /\ executed = <<>> /\ accepted = <<>>
      /\ contextMap = [id \in Ids |-> NoEntry]
  BY DEF ServerInit, Init
<1>2. IInv
  BY <1>1, IInvInductive
<1>3. TerminateInv /\ DropInv /\ EffectInv
  BY <1>1 DEF TerminateInv, NoScriptAfterTerminate, DropInv,
              DroppedOnlyWithoutApplication, EffectInv
<1>4. SourceInv
  BY <1>1 DEF SourceInv, Present, NoEntry
<1>5. JobInv /\ LaunchInv /\ CloseInv
  BY DEF ServerInit, JobInv, LaunchInv, LaunchedInv, CloseInv
<1> QED BY <1>2, <1>3, <1>4, <1>5, ServerTypeInit DEF ServerInv, RendererInv

(* Only the server's thread handles connections and messages. *)
LEMMA LinksTyped ==
  ASSUME ServerTypeOK, [ServerNext]_allVars
  PROVE  /\ link' \in [Clients -> Link]
         /\ connections' = {c \in Clients : link'[c] \in {"open", "closing"}}
<1>1. /\ link \in [Clients -> Link]
      /\ connections = {c \in Clients : link[c] \in {"open", "closing"}}
  BY DEF ServerTypeOK
<1>2. ASSUME NEW c \in Clients, OnOpen(c) \/ PeerCloses(c) \/ OnClose(c)
      PROVE  /\ link' \in [Clients -> Link]
             /\ connections' = {d \in Clients : link'[d] \in {"open", "closing"}}
  BY <1>1, <1>2 DEF OnOpen, PeerCloses, OnClose, Link
<1>3. ASSUME NEW c \in Clients, CloseOne(c)
      PROVE  /\ link' \in [Clients -> Link]
             /\ connections' = {d \in Clients : link'[d] \in {"open", "closing"}}
  BY <1>1, <1>3 DEF CloseOne, Link
<1>4. CASE UNCHANGED <<link, connections>>
  BY <1>1, <1>4
<1> QED BY <1>2, <1>3, <1>4
        DEF ServerNext, Running, HandleMessage, ThreadNext, ConnectionNext, OnMessage,
            ReplyOnly, Reply, LaunchCreate, LaunchRun, LaunchHtml, QueueRequest,
            GetApplications, StopListening, StopRenderer, ThreadCreate, ThreadRun,
            ThreadStep, RendererStep, MainReturns, net, serverVars, allVars

(* The type of the server's thread: everything but the links. *)
ThreadTypeOK ==
  /\ listening \in BOOLEAN
  /\ serverPc \in {"loop", "handle", "launch", "closing"}
  /\ job \in [method : Method, id : Ids \cup {0}, text : Text]
  /\ toClose \subseteq Clients
  /\ received \in 0 .. MaxMessages
  /\ process \in {"running", "exited", "aborted"}
  /\ launched \subseteq [id : Ids, url : Text]
  /\ listed \subseteq Ids

LEMMA NoJobTyped ==
  NoJob \in [method : Method, id : Ids \cup {0}, text : Text]
BY DEF NoJob, Method

(* launchApplication's answer is recorded. *)
LEMMA LaunchTyped ==
  ASSUME ServerInv, LaunchRun \/ LaunchHtml
  PROVE  ThreadTypeOK'
<1>1. /\ serverPc' = "loop" /\ job' = NoJob
      /\ launched' = launched \cup {[id |-> job.id, url |-> job.text]}
      /\ UNCHANGED <<listening, toClose, received, process, listed>>
  BY DEF LaunchRun, LaunchHtml, Reply, net
<1>2. job.id \in Ids /\ job.text \in Text
  BY JobTyped DEF LaunchRun, LaunchHtml, ServerInv, JobInv
<1>3. launched' \subseteq [id : Ids, url : Text]
  BY <1>1, <1>2 DEF ServerInv, ServerTypeOK
<1> QED BY <1>1, <1>3, NoJobTyped DEF ServerInv, ServerTypeOK, ThreadTypeOK

LEMMA ThreadTyped ==
  ASSUME ServerInv, [ServerNext]_allVars
  PROVE  ThreadTypeOK'
<1> USE DEF ThreadTypeOK, ServerInv, ServerTypeOK
<1>1. CASE ConnectionNext
  BY <1>1 DEF ConnectionNext, OnOpen, PeerCloses, OnClose, server, threads, answers
<1>2. ASSUME NEW c \in Clients, NEW m \in Message, OnMessage(c, m)
      PROVE  ThreadTypeOK'
  <2>1. /\ received < MaxMessages /\ received' = received + 1 /\ job' = m
        /\ serverPc' = "handle" /\ UNCHANGED <<listening, toClose, process, answers>>
    BY <1>2 DEF OnMessage, HasRoom, net
  <2>2. received' \in 0 .. MaxMessages
    BY <2>1
  <2>3. job' \in [method : Method, id : Ids \cup {0}, text : Text]
    BY <2>1, MessageTyped
  <2> QED BY <2>1, <2>2, <2>3 DEF answers
<1>3. CASE LaunchRun \/ LaunchHtml
  BY <1>3, LaunchTyped
<1>4. CASE ReplyOnly \/ QueueRequest \/ StopRenderer
  BY <1>4, NoJobTyped DEF ReplyOnly, QueueRequest, StopRenderer, Reply, net, answers
<1>5. CASE GetApplications
  BY <1>5, NoJobTyped DEF GetApplications, Reply, net
<1>6. CASE LaunchCreate
  <2>1. /\ job' = [job EXCEPT !.id = nextId] /\ serverPc' = "launch"
        /\ UNCHANGED <<listening, toClose, received, process, answers>>
    BY <1>6 DEF LaunchCreate, net
  <2>2. nextId \in Ids
    BY <1>6, CreateTyped DEF LaunchCreate
  <2>3. job' \in [method : Method, id : Ids \cup {0}, text : Text]
    BY <2>1, <2>2
  <2> QED BY <2>1, <2>3 DEF answers
<1>7. CASE StopListening
  <2>1. connections \subseteq Clients
    OBVIOUS
  <2> QED BY <1>7, <2>1 DEF StopListening, answers
<1>8. ASSUME NEW c \in Clients, CloseOne(c)
      PROVE  ThreadTypeOK'
  BY <1>8 DEF CloseOne, answers
<1>9. CASE ThreadNext
  BY <1>9 DEF ThreadNext, ThreadCreate, ThreadRun, ThreadStep, net, server, answers
<1>10. CASE RendererStep
  BY <1>10 DEF RendererStep, serverVars, net, server, answers
<1>11. CASE MainReturns
  BY <1>11 DEF MainReturns, net, server, answers
<1>12. CASE UNCHANGED allVars
  BY <1>12 DEF allVars, serverVars, net, server, answers
<1> QED BY <1>1, <1>2, <1>3, <1>4, <1>5, <1>6, <1>7, <1>8, <1>9, <1>10, <1>11, <1>12
        DEF ServerNext, Running, HandleMessage

(* The application threads, and where they stand. *)
LEMMA ThreadsTyped ==
  ASSUME ServerInv, [ServerNext]_allVars
  PROVE  /\ threadPc' \in [Threads -> {"create", "run", "done"}]
         /\ threadId' \in [Threads -> Ids \cup {0}]
<1>1. /\ threadPc \in [Threads -> {"create", "run", "done"}]
      /\ threadId \in [Threads -> Ids \cup {0}]
  BY DEF ServerInv, ServerTypeOK
<1>2. ASSUME NEW t \in Threads, ThreadCreate(t)
      PROVE  /\ threadPc' \in [Threads -> {"create", "run", "done"}]
             /\ threadId' \in [Threads -> Ids \cup {0}]
  BY <1>1, <1>2, CreateTyped DEF ThreadCreate, ThreadStep
<1>3. ASSUME NEW t \in Threads, ThreadRun(t)
      PROVE  /\ threadPc' \in [Threads -> {"create", "run", "done"}]
             /\ threadId' \in [Threads -> Ids \cup {0}]
  BY <1>1, <1>3 DEF ThreadRun, ThreadStep
<1>4. CASE UNCHANGED threads
  BY <1>1, <1>4 DEF threads
<1> QED BY <1>2, <1>3, <1>4
        DEF ServerNext, Running, HandleMessage, ThreadNext, ConnectionNext, OnOpen,
            PeerCloses, OnClose, OnMessage, ReplyOnly, Reply, LaunchCreate, LaunchRun,
            LaunchHtml, QueueRequest, GetApplications, StopListening, CloseOne,
            StopRenderer, RendererStep, MainReturns, serverVars, allVars

LEMMA ServerTypeStep ==
  ASSUME ServerInv, [ServerNext]_allVars
  PROVE  ServerTypeOK'
<1>1. ServerTypeOK
  BY DEF ServerInv
<1> QED BY <1>1, LinksTyped, ThreadTyped, ThreadsTyped DEF ServerTypeOK, ThreadTypeOK

(* stop(): a connection leaves the copy only by being closed. *)
LEMMA CloseStep ==
  ASSUME ServerInv, [ServerNext]_allVars
  PROVE  CloseInv'
<1>1. /\ link \in [Clients -> Link] /\ connections \subseteq Clients
      /\ toClose \subseteq Clients
  BY DEF ServerInv, ServerTypeOK
<1>2. ASSUME NEW c \in Clients, CloseOne(c)
      PROVE  CloseInv'
  <2>1. /\ serverPc = "closing" /\ toClose' = toClose \ {c} /\ connections' = connections
        /\ \/ link[c] = "open" /\ link' = [link EXCEPT ![c] = "closing"]
              /\ process' = process
           \/ link[c] # "open" /\ process' = "aborted" /\ link' = link
    BY <1>2 DEF CloseOne
  <2> QED BY <1>1, <2>1 DEF ServerInv, CloseInv
<1>3. CASE StopListening
  BY <1>3 DEF StopListening, CloseInv
<1>4. CASE serverPc' # "closing"
  BY <1>4 DEF CloseInv
<1>5. CASE UNCHANGED <<link, connections, serverPc, toClose>> /\ process = "running"
  BY <1>5 DEF ServerInv, CloseInv
<1>6. CASE UNCHANGED allVars
  BY <1>6 DEF allVars, serverVars, net, server, ServerInv, CloseInv
<1> QED BY <1>2, <1>3, <1>4, <1>5, <1>6
        DEF ServerNext, Running, HandleMessage, ThreadNext, ConnectionNext, OnOpen,
            PeerCloses, OnClose, OnMessage, ReplyOnly, Reply, LaunchCreate, LaunchRun,
            LaunchHtml, QueueRequest, GetApplications, StopRenderer, ThreadCreate,
            ThreadRun, ThreadStep, RendererStep, MainReturns, net, server, serverVars

(* Identifiers are handed out once: the counter never goes back. *)
LEMMA CounterGrows ==
  ASSUME IInv, [Next]_vars
  PROVE  /\ nextId \in Nat /\ nextId' \in Nat /\ nextId <= nextId'
         /\ \A id \in Ids : id < nextId => id < nextId'
<1>1. nextId \in Nat
  BY DEF IInv, TypeInv, TypeOK
<1>2. nextId' \in {nextId, nextId + 1}
  BY DEF Next, CallerNext, CreateApplication, RunApplication, RunJavaScript,
     TerminateApplication, PushRequest, Terminate, RendererNext, CheckRunning,
     LockQueue, HandleNext, HandleCreate, HandleRun, HandleRunScript, HandleTerminate,
     HandleUnknown, Handle, EndDrain, ClearAndUnlock, TakeTestId, RunTestFile,
     RunEngine, vars
<1> QED BY <1>1, <1>2 DEF Ids

LEMMA JobStep ==
  ASSUME ServerInv, [ServerNext]_allVars
  PROVE  JobInv'
<1>1. /\ nextId \in Nat /\ nextId' \in Nat /\ nextId <= nextId'
      /\ \A id \in Ids : id < nextId => id < nextId'
  BY AsCaller, CounterGrows DEF ServerInv, RendererInv
<1>2. /\ threadPc \in [Threads -> {"create", "run", "done"}]
      /\ threadId \in [Threads -> Ids \cup {0}]
      /\ job \in [method : Method, id : Ids \cup {0}, text : Text]
  BY DEF ServerInv, ServerTypeOK
<1>3. JobInv
  BY DEF ServerInv
<1>4. CASE UNCHANGED <<serverPc, job, threadPc, threadId>>
  BY <1>1, <1>3, <1>4 DEF JobInv
<1>5. CASE serverPc' \in {"loop", "closing"} /\ UNCHANGED <<threadPc, threadId>>
  BY <1>1, <1>3, <1>5 DEF JobInv
<1>6. ASSUME NEW c \in Clients, NEW m \in Message, OnMessage(c, m)
      PROVE  JobInv'
  <2>1. serverPc' = "handle" /\ job' = m /\ UNCHANGED <<threadPc, threadId>>
    BY <1>6 DEF OnMessage, threads
  <2> QED BY <1>1, <1>3, <2>1 DEF JobInv
<1>7. CASE LaunchCreate
  <2>1. serverPc' = "launch" /\ job' = [job EXCEPT !.id = nextId]
        /\ UNCHANGED <<threadPc, threadId>> /\ nextId \in Ids /\ nextId' = nextId + 1
    BY <1>7, CreateTyped DEF LaunchCreate, threads
  <2>2. job'.id = nextId
    BY <1>2, <2>1
  <2>3. job'.id \in Ids /\ job'.id < nextId'
    BY <1>1, <2>1, <2>2
  <2>4. ASSUME NEW t \in Threads, threadPc[t] = "run"
        PROVE  threadId[t] \in Ids /\ threadId[t] < nextId' /\ threadId[t] # job'.id
    <3>1. threadId[t] \in Ids /\ threadId[t] < nextId
      BY <1>3, <2>4 DEF JobInv
    <3> QED BY <1>1, <2>2, <3>1 DEF Ids
  <2> QED BY <2>1, <2>3, <2>4 DEF JobInv
<1>8. ASSUME NEW t \in Threads, ThreadCreate(t)
      PROVE  JobInv'
  <2>1. /\ threadPc' = [threadPc EXCEPT ![t] = "run"]
        /\ threadId' = [threadId EXCEPT ![t] = nextId]
        /\ UNCHANGED <<serverPc, job>> /\ nextId \in Ids /\ nextId' = nextId + 1
    BY <1>8, CreateTyped DEF ThreadCreate, ThreadStep, server
  <2>2. \A u \in Threads : u # t => threadPc'[u] = threadPc[u] /\ threadId'[u] = threadId[u]
    BY <1>2, <2>1
  <2>3. threadId'[t] = nextId
    BY <1>2, <2>1
  <2>4. nextId < nextId' /\ (serverPc = "launch" => nextId # job.id)
    BY <1>1, <1>3, <2>1 DEF JobInv, Ids
  <2>5. ASSUME NEW u \in Threads, threadPc'[u] = "run"
        PROVE  /\ threadId'[u] \in Ids /\ threadId'[u] < nextId'
               /\ serverPc = "launch" => threadId'[u] # job.id
    <3>1. CASE u = t
      BY <2>1, <2>3, <2>4, <3>1
    <3>2. CASE u # t
      BY <1>1, <1>3, <2>2, <2>5, <3>2 DEF JobInv
    <3> QED BY <3>1, <3>2
  <2> QED BY <1>1, <1>3, <2>1, <2>5 DEF JobInv
<1>9. ASSUME NEW t \in Threads, ThreadRun(t)
      PROVE  JobInv'
  <2>1. /\ threadPc' = [threadPc EXCEPT ![t] = "done"]
        /\ UNCHANGED <<serverPc, job, threadId>>
    BY <1>9 DEF ThreadRun, ThreadStep, server
  <2>2. \A u \in Threads : threadPc'[u] = "run" => threadPc[u] = "run"
    BY <1>2, <2>1
  <2> QED BY <1>1, <1>3, <2>1, <2>2 DEF JobInv
<1> QED BY <1>4, <1>5, <1>6, <1>7, <1>8, <1>9
        DEF ServerNext, Running, HandleMessage, ThreadNext, ConnectionNext, OnOpen,
            PeerCloses, OnClose, ReplyOnly, Reply, LaunchRun,
            LaunchHtml, QueueRequest, GetApplications, StopListening, CloseOne,
            StopRenderer, RendererStep, MainReturns, net, server, threads, serverVars,
            allVars
-----------------------------------------------------------------------------
(* launchApplication. *)

(* What was accepted stays where it is when a request follows. *)
LEMMA AppendFacts ==
  ASSUME TypeInv, NEW r \in Request, accepted' = Append(accepted, r)
  PROVE  /\ Len(accepted) \in Nat /\ Len(accepted') = Len(accepted) + 1
         /\ \A k \in 1 .. Len(accepted) : accepted'[k] = accepted[k]
         /\ accepted'[Len(accepted) + 1] = r
BY DEF TypeInv, TypeOK

LEMMA AloneStays ==
  ASSUME TypeInv, NEW r \in Request, accepted' = Append(accepted, r),
         NEW id, NEW n \in Int, n <= Len(accepted), CreatedAlone(id, n)
  PROVE  /\ \E c \in 1 .. n :
              /\ accepted'[c].id = id /\ accepted'[c].type = "CREATE"
              /\ \A i \in (c + 1) .. n : accepted'[i].id # id
         /\ n = Len(accepted) /\ r.id # id =>
              \E c \in 1 .. (n + 1) :
                /\ accepted'[c].id = id /\ accepted'[c].type = "CREATE"
                /\ \A i \in (c + 1) .. (n + 1) : accepted'[i].id # id
<1>1. PICK c \in 1 .. n :
        /\ accepted[c].id = id /\ accepted[c].type = "CREATE"
        /\ \A i \in (c + 1) .. n : accepted[i].id # id
  BY DEF CreatedAlone
<1>2. /\ Len(accepted) \in Nat
      /\ \A k \in 1 .. Len(accepted) : accepted'[k] = accepted[k]
      /\ accepted'[Len(accepted) + 1] = r
  BY AppendFacts
<1>3. c \in 1 .. Len(accepted) /\ accepted'[c] = accepted[c]
      /\ \A i \in (c + 1) .. n : i \in 1 .. Len(accepted) /\ accepted'[i] = accepted[i]
  BY <1>1, <1>2
<1>4. \A i \in (c + 1) .. n : accepted'[i].id # id
  BY <1>1, <1>3
<1>5. ASSUME n = Len(accepted), r.id # id, NEW i \in (c + 1) .. (n + 1)
      PROVE  accepted'[i].id # id
  <2>1. CASE i = n + 1
    BY <1>2, <1>5, <2>1
  <2>2. CASE i # n + 1
    BY <1>4, <1>5, <2>2
  <2> QED BY <2>1, <2>2
<1>6. c \in 1 .. (n + 1)
  OBVIOUS
<1> QED BY <1>1, <1>3, <1>4, <1>5, <1>6

(* The launches answered so far are not disturbed by further requests. *)
LEMMA LaunchedStays ==
  ASSUME TypeInv, LaunchedInv, NEW r \in Request, accepted' = Append(accepted, r),
         launched' = launched
  PROVE  LaunchedInv'
<1> SUFFICES ASSUME NEW l \in launched, l.url \notin Html
             PROVE  \E k \in 1 .. Len(accepted') :
                      /\ accepted'[k] = [type |-> "RUN", id |-> l.id, text |-> l.url]
                      /\ \E c \in 1 .. (k - 1) :
                           /\ accepted'[c].id = l.id /\ accepted'[c].type = "CREATE"
                           /\ \A i \in (c + 1) .. (k - 1) : accepted'[i].id # l.id
  BY DEF LaunchedInv, CreatedAlone
<1>1. PICK k \in 1 .. Len(accepted) :
        /\ accepted[k] = [type |-> "RUN", id |-> l.id, text |-> l.url]
        /\ CreatedAlone(l.id, k - 1)
  BY DEF LaunchedInv
<1>2. /\ Len(accepted) \in Nat /\ Len(accepted') = Len(accepted) + 1
      /\ \A j \in 1 .. Len(accepted) : accepted'[j] = accepted[j]
  BY AppendFacts
<1>3. k - 1 \in Int /\ k - 1 <= Len(accepted) /\ k \in 1 .. Len(accepted')
  BY <1>2
<1>4. \E c \in 1 .. (k - 1) :
        /\ accepted'[c].id = l.id /\ accepted'[c].type = "CREATE"
        /\ \A i \in (c + 1) .. (k - 1) : accepted'[i].id # l.id
  BY <1>1, <1>3, AloneStays
<1> QED BY <1>1, <1>2, <1>3, <1>4

LEMMA LaunchStep ==
  ASSUME ServerInv, [ServerNext]_allVars
  PROVE  LaunchInv'
<1>0. /\ TypeInv /\ JobInv /\ LaunchInv /\ LaunchedInv /\ Len(accepted) \in Int
      /\ accepted \in Seq(Request)
  BY DEF ServerInv, RendererInv, IInv, LaunchInv, TypeInv, TypeOK
<1>1. CASE LaunchCreate
  <2> DEFINE r == [type |-> "CREATE", id |-> nextId, text |-> Empty]
  <2>1. /\ r \in Request /\ accepted' = Append(accepted, r) /\ launched' = launched
        /\ job' = [job EXCEPT !.id = nextId]
    BY <1>1, CreateTyped DEF LaunchCreate, answers
  <2>2. job'.id = nextId
    BY <2>1 DEF ServerInv, ServerTypeOK
  <2>3. LaunchedInv'
    BY <1>0, <2>1, LaunchedStays
  <2>4. /\ Len(accepted) \in Nat /\ Len(accepted') = Len(accepted) + 1
        /\ accepted'[Len(accepted) + 1] = r /\ r.id = nextId /\ r.type = "CREATE"
    BY <1>0, <2>1, AppendFacts
  <2> HIDE DEF r
  <2>5. CreatedAlone(job.id, Len(accepted))'
    BY <2>2, <2>4 DEF CreatedAlone
  <2> QED BY <2>3, <2>5 DEF LaunchInv
<1>2. CASE LaunchRun
  <2> DEFINE r == [type |-> "RUN", id |-> job.id, text |-> job.text]
             l == [id |-> job.id, url |-> job.text]
  <2>1. /\ accepted' = Append(accepted, r) /\ launched' = launched \cup {l}
        /\ serverPc = "launch" /\ serverPc' = "loop" /\ job.id \in Ids /\ job.text \in Text
    BY <1>0, <1>2, JobTyped DEF LaunchRun, RunApplication, PushRequest, Reply, JobInv
  <2>2. r \in Request
    BY <2>1 DEF Request, RequestType
  <2>3. CreatedAlone(job.id, Len(accepted))
    BY <1>0, <2>1 DEF LaunchInv
  <2>4. /\ Len(accepted) \in Nat /\ Len(accepted') = Len(accepted) + 1
        /\ \A k \in 1 .. Len(accepted) : accepted'[k] = accepted[k]
        /\ accepted'[Len(accepted) + 1] = r
    BY <1>0, <2>1, <2>2, AppendFacts
  <2> HIDE DEF r
  <2>5. \E c \in 1 .. Len(accepted) :
          /\ accepted'[c].id = job.id /\ accepted'[c].type = "CREATE"
          /\ \A i \in (c + 1) .. Len(accepted) : accepted'[i].id # job.id
    BY <1>0, <2>1, <2>2, <2>3, <2>4, AloneStays
  <2>6. ASSUME NEW q \in launched', q.url \notin Html
        PROVE  \E k \in 1 .. Len(accepted') :
                 /\ accepted'[k] = [type |-> "RUN", id |-> q.id, text |-> q.url]
                 /\ CreatedAlone(q.id, k - 1)'
    <3>1. CASE q \in launched
      <4>1. PICK k \in 1 .. Len(accepted) :
              /\ accepted[k] = [type |-> "RUN", id |-> q.id, text |-> q.url]
              /\ CreatedAlone(q.id, k - 1)
        BY <1>0, <2>6, <3>1 DEF LaunchedInv
      <4>2. k - 1 \in Int /\ k - 1 <= Len(accepted) /\ k \in 1 .. Len(accepted')
        BY <2>4
      <4>3. \E c \in 1 .. (k - 1) :
              /\ accepted'[c].id = q.id /\ accepted'[c].type = "CREATE"
              /\ \A i \in (c + 1) .. (k - 1) : accepted'[i].id # q.id
        BY <1>0, <2>1, <2>2, <4>1, <4>2, AloneStays
      <4> QED BY <2>4, <4>1, <4>2, <4>3 DEF CreatedAlone
    <3>2. CASE q = l
      <4>1. Len(accepted) + 1 \in 1 .. Len(accepted') /\ Len(accepted) + 1 - 1 = Len(accepted)
        BY <2>4
      <4>2. accepted'[Len(accepted) + 1] = [type |-> "RUN", id |-> q.id, text |-> q.url]
        BY <2>4, <3>2 DEF r
      <4>3. q.id = job.id
        BY <3>2
      <4> QED BY <2>5, <4>1, <4>2, <4>3, SMTT(30) DEF CreatedAlone
    <3> QED BY <2>1, <3>1, <3>2
  <2>7. LaunchedInv'
    BY <2>6 DEF LaunchedInv
  <2> QED BY <2>1, <2>7 DEF LaunchInv
<1>3. CASE LaunchHtml
  <2>1. /\ serverPc' = "loop" /\ job.text \in Html /\ accepted' = accepted
        /\ launched' = launched \cup {[id |-> job.id, url |-> job.text]}
    BY <1>3 DEF LaunchHtml, Reply, vars
  <2> QED BY <1>0, <2>1 DEF LaunchInv, LaunchedInv, CreatedAlone
<1>4. CASE QueueRequest
  <2>1. PICK r \in Request : accepted' = Append(accepted, r)
    <3>1. CASE CreateApplication
      BY <3>1, CreateTyped
    <3>2. CASE ~CreateApplication
      <4>1. job \in Message /\ job.text \in Text
        BY <1>0, <1>4, <3>2, JobTyped DEF QueueRequest, Handling, JobInv
      <4>2. job.id \in Ids
        BY <1>4, <3>2, <4>1, MessageTyped DEF QueueRequest, Handling
      <4>3. \/ RunApplication(job.id, job.text) \/ RunJavaScript(job.id, job.text)
            \/ TerminateApplication(job.id)
        BY <1>4, <3>2 DEF QueueRequest
      <4> QED BY <4>1, <4>2, <4>3 DEF RunApplication, RunJavaScript,
              TerminateApplication, PushRequest, Request, RequestType
    <3> QED BY <3>1, <3>2
  <2>2. launched' = launched /\ serverPc' = "loop"
    BY <1>4 DEF QueueRequest, Reply, answers
  <2>3. LaunchedInv'
    BY <1>0, <2>1, <2>2, LaunchedStays
  <2> QED BY <2>2, <2>3 DEF LaunchInv
<1>5. ASSUME NEW r \in Request, accepted' = Append(accepted, r),
             UNCHANGED <<launched, serverPc, job>>,
             serverPc = "launch" => r.id # job.id
      PROVE  LaunchInv'
  <2>1. LaunchedInv'
    BY <1>0, <1>5, LaunchedStays
  <2>2. Len(accepted') = Len(accepted) + 1
    BY <1>0, <1>5, AppendFacts
  <2>3. ASSUME serverPc = "launch"
        PROVE  CreatedAlone(job.id, Len(accepted))'
    <3>1. CreatedAlone(job.id, Len(accepted)) /\ r.id # job.id
      BY <1>0, <1>5, <2>3 DEF LaunchInv
    <3>2. \E c \in 1 .. (Len(accepted) + 1) :
            /\ accepted'[c].id = job.id /\ accepted'[c].type = "CREATE"
            /\ \A i \in (c + 1) .. (Len(accepted) + 1) : accepted'[i].id # job.id
      BY <1>0, <1>5, <3>1, AloneStays
    <3> QED BY <1>5, <2>2, <3>2 DEF CreatedAlone
  <2> QED BY <1>5, <2>1, <2>3 DEF LaunchInv
<1>6. ASSUME NEW t \in Threads, ThreadCreate(t)
      PROVE  LaunchInv'
  <2> DEFINE r == [type |-> "CREATE", id |-> nextId, text |-> Empty]
  <2>1. /\ r \in Request /\ accepted' = Append(accepted, r) /\ r.id = nextId
        /\ UNCHANGED <<launched, serverPc, job>>
    BY <1>6, CreateTyped DEF ThreadCreate, ThreadStep, server, answers
  <2>2. serverPc = "launch" => nextId # job.id
    BY <1>0 DEF JobInv, Ids
  <2> QED BY <1>5, <2>1, <2>2
<1>7. ASSUME NEW t \in Threads, ThreadRun(t)
      PROVE  LaunchInv'
  <2> DEFINE r == [type |-> "RUN", id |-> threadId[t], text |-> ThreadUrl]
  <2>1. /\ accepted' = Append(accepted, r) /\ r.id = threadId[t] /\ threadPc[t] = "run"
        /\ UNCHANGED <<launched, serverPc, job>>
    BY <1>7 DEF ThreadRun, ThreadStep, RunApplication, PushRequest, server, answers
  <2>2. threadId[t] \in Ids /\ (serverPc = "launch" => threadId[t] # job.id)
    BY <1>0, <2>1 DEF JobInv
  <2>3. r \in Request
    BY <2>2 DEF Request, RequestType
  <2> QED BY <1>5, <2>1, <2>2, <2>3
<1>8. CASE UNCHANGED <<accepted, launched>> /\ serverPc' # "launch"
  BY <1>0, <1>8 DEF LaunchInv, LaunchedInv, CreatedAlone
<1>9. CASE UNCHANGED <<accepted, launched, serverPc, job>>
  BY <1>0, <1>9 DEF LaunchInv, LaunchedInv, CreatedAlone
<1>10. CASE RendererStep
  <2>1. UNCHANGED <<accepted, launched, serverPc, job>>
    BY <1>10 DEF RendererStep, serverVars, server, answers, RendererNext, CheckRunning,
       LockQueue, HandleNext, HandleCreate, HandleRun, HandleRunScript,
       HandleTerminate, HandleUnknown, Handle, EndDrain, ClearAndUnlock, TakeTestId,
       RunTestFile, RunEngine
  <2> QED BY <1>9, <2>1
<1>11. CASE StopRenderer
  <2>1. UNCHANGED <<accepted, launched>> /\ serverPc' = "loop"
    BY <1>11 DEF StopRenderer, Terminate, Reply, answers, vars
  <2> QED BY <1>8, <2>1
<1> QED BY <1>1, <1>2, <1>3, <1>4, <1>6, <1>7, <1>8, <1>9, <1>10, <1>11
        DEF ServerNext, Running, HandleMessage, ThreadNext, ConnectionNext, OnOpen,
            PeerCloses, OnClose, OnMessage, ReplyOnly, Reply, GetApplications,
            StopListening, CloseOne, MainReturns, net, server, answers, serverVars,
            allVars, vars

LEMMA ServerInvHolds == ServerSpec => []ServerInv
<1>1. ServerInv /\ [ServerNext]_allVars => ServerInv'
  BY AsCaller, RendererInvStep, ServerTypeStep, JobStep, LaunchStep, CloseStep
     DEF ServerInv
<1> QED BY ServerInvInit, <1>1, PTL DEF ServerSpec

(* The RUN that follows a creation finds its application. *)
LEMMA LaunchesRun ==
  ASSUME ServerInv
  PROVE  LaunchedRunsItsUrl
<1>0. /\ TypeInv /\ OrderInv /\ EffectInv /\ DroppedOnlyWithoutApplication /\ LaunchedInv
      /\ Len(executed) \in Nat /\ Len(accepted) \in Nat
  BY OrderArithmetic DEF ServerInv, RendererInv, IInv, DropInv, LaunchInv
<1> SUFFICES ASSUME NEW l \in launched, l.url \notin Html
             PROVE  \E k \in 1 .. Len(accepted) :
                      /\ accepted[k] = [type |-> "RUN", id |-> l.id, text |-> l.url]
                      /\ \E c \in 1 .. (k - 1) :
                           /\ accepted[c].id = l.id /\ accepted[c].type = "CREATE"
                           /\ \A i \in (c + 1) .. (k - 1) : accepted[i].id # l.id
                      /\ k <= Len(executed) => executed[k].effect \in {"ran", "notRun"}
  BY DEF LaunchedRunsItsUrl
<1>1. PICK k \in 1 .. Len(accepted) :
        /\ accepted[k] = [type |-> "RUN", id |-> l.id, text |-> l.url]
        /\ CreatedAlone(l.id, k - 1)
  BY <1>0 DEF LaunchedInv
<1>2. PICK c \in 1 .. (k - 1) :
        /\ accepted[c].id = l.id /\ accepted[c].type = "CREATE"
        /\ \A i \in (c + 1) .. (k - 1) : accepted[i].id # l.id
  BY <1>1 DEF CreatedAlone
<1>3. ASSUME k <= Len(executed)
      PROVE  executed[k].effect \in {"ran", "notRun"}
  <2>1. \A j \in 1 .. k : j \in 1 .. Len(executed) /\ executed[j].request = accepted[j]
    BY <1>0, <1>3 DEF OrderInv, HandledOnceInOrder
  <2>2. k \in 1 .. k /\ c \in 1 .. k /\ \A m \in (c + 1) .. (k - 1) : m \in 1 .. k
    OBVIOUS
  <2>3. executed[k].request.type = "RUN" /\ executed[k].request.id = l.id
    BY <1>1, <2>1, <2>2
  <2>4. executed[k].effect \in {"ran", "notRun", "noApplication"}
    BY <1>0, <2>1, <2>2, <2>3 DEF EffectInv
  <2>5. executed[c].effect = "created" /\ executed[c].request.id = l.id
    BY <1>0, <1>2, <2>1, <2>2 DEF EffectInv
  <2>6. executed[k].effect # "noApplication"
    <3> SUFFICES ASSUME executed[k].effect = "noApplication" PROVE FALSE
      OBVIOUS
    <3>1. PICK m \in (c + 1) .. (k - 1) : executed[m].request.id = l.id
      BY <1>0, <2>1, <2>2, <2>3, <2>5 DEF DroppedOnlyWithoutApplication
    <3> QED BY <1>2, <2>1, <2>2, <3>1
  <2> QED BY <2>4, <2>6
<1> QED BY <1>1, <1>2, <1>3

(* The server, for any number of clients, threads and messages: its connections
   agree with the endpoint's, stop leaves none of them open, and the application
   that launchApplication answers with is the one that runs its url, however
   other threads' requests and the drains fall between its two. *)
THEOREM LaunchAndStop == ServerSpec => []ServerSafe
<1>1. ServerInv => StopClosesAll
  BY DEF ServerInv, CloseInv, StopClosesAll
<1>2. ServerInv => ServerSafe
  BY <1>1, LaunchesRun DEF ServerInv, ServerSafe
<1> QED BY ServerInvHolds, <1>2, PTL
-----------------------------------------------------------------------------
(* An application is in the map if it was created and not deleted since. *)
LEMMA PresentMeans ==
  ASSUME ServerInv, NEW id \in Ids
  PROVE  Present(id) <=> Outcome(id, "created") /\ ~Outcome(id, "deleted")
<1>1. TerminateInv /\ DropInv /\ SourceInv /\ Len(executed) \in Nat
  BY OrderArithmetic DEF ServerInv, RendererInv, IInv
<1>2. ASSUME Present(id), Outcome(id, "deleted")
      PROVE  FALSE
  <2>1. PICK k \in 1 .. Len(executed) :
          executed[k].request.id = id /\ executed[k].effect = "deleted"
    BY <1>2 DEF Outcome
  <2> QED BY <1>1, <1>2, <2>1 DEF TerminateInv, Dead
<1>3. ASSUME Outcome(id, "created"), ~Outcome(id, "deleted")
      PROVE  Present(id)
  <2>1. PICK k \in 1 .. Len(executed) :
          executed[k].request.id = id /\ executed[k].effect = "created"
    BY <1>3 DEF Outcome
  <2>2. \A m \in (k + 1) .. Len(executed) : m \in 1 .. Len(executed)
    OBVIOUS
  <2>3. \A m \in 1 .. Len(executed) :
          ~(executed[m].effect = "deleted" /\ executed[m].request.id = id)
    BY <1>3 DEF Outcome
  <2> QED BY <1>1, <2>1, <2>2, <2>3 DEF DropInv
<1> QED BY <1>1, <1>2, <1>3 DEF SourceInv

(* getApplications answers what the requests handled so far say, whatever is
   queued and for whichever identifiers. *)
THEOREM ListingIsHistory == ServerSpec => ListingAgreesWithHistory
<1>1. ServerInv /\ [ServerNext]_allVars =>
        [Handling("getApplications") /\ serverPc' = "loop" =>
           listed' = {id \in Ids : Outcome(id, "created") /\ ~Outcome(id, "deleted")}
        ]_allVars
  <2> SUFFICES ASSUME ServerInv, [ServerNext]_allVars, Handling("getApplications"),
                      serverPc' = "loop"
               PROVE  listed' = {id \in Ids : Outcome(id, "created")
                                             /\ ~Outcome(id, "deleted")}
    OBVIOUS
  <2>1. GetApplications
    BY DEF Handling, ServerNext, Running, HandleMessage, ThreadNext, ConnectionNext,
       OnOpen, PeerCloses, OnClose, OnMessage, ReplyOnly, LaunchCreate, LaunchRun,
       LaunchHtml, QueueRequest, StopListening, CloseOne, StopRenderer, ThreadCreate,
       ThreadRun, ThreadStep, RendererStep, MainReturns, server, serverVars, allVars
  <2>2. listed' = {id \in Ids : Present(id)}
    BY <2>1 DEF GetApplications
  <2> QED BY <2>2, PresentMeans
<1> QED BY ServerInvHolds, <1>1, PTL DEF ServerSpec, ListingAgreesWithHistory
-----------------------------------------------------------------------------
(* The server's clients and the application threads see the renderer as the
   service too: what they queue takes effect one request at a time, in order. *)
THEOREM ServerKeepsService == ServerSpec => Service!Safe
<1>1. ServerInit => AbsentInv /\ Service!Init
  BY ServiceInit DEF ServerInit
<1>2. ServerInv /\ AbsentInv /\ [ServerNext]_allVars => AbsentInv'
  BY AsCaller, AbsentStep DEF ServerInv, RendererInv
<1>3. ServerInv /\ AbsentInv /\ [ServerNext]_allVars => [Service!Next]_(Service!vars)
  BY AsCaller, ServiceStep DEF ServerInv, RendererInv
<1> QED BY ServerInvHolds, <1>1, <1>2, <1>3, PTL DEF ServerSpec, Service!Safe

(* Nor do the server's clients and threads, two of which ask at once, break what
   an application may rely on: its requests take effect within its life, under
   an identifier and with a context that are its own. *)
THEOREM ServerKeepsLives ==
  ServerSpec => [](RequestsWithinLife /\ OneContextPerApplication)
<1>1. ServerInv => RequestsWithinLife /\ OneContextPerApplication
  BY DEF ServerInv, RendererInv, IInv, TerminateInv, DropInv, FreshInv, LiveInv,
         RequestsWithinLife, OneContextPerApplication
<1> QED BY ServerInvHolds, <1>1, PTL
=============================================================================
