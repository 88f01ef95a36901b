------------------------------- MODULE XhrProofs -------------------------------
(***************************************************************************)
(* Proofs about Xhr, for any number of redirections, requests and calls.    *)
(***************************************************************************)
EXTENDS Xhr, SequenceTheorems, TLAPS

InTodo(step) == \E i \in 1 .. Len(todo) : todo[i].step = step
Emits(event) == \E i \in 1 .. Len(todo) : todo[i].step = "emit" /\ todo[i].event = event
Failures == {"error", "timeout", "abort"}

(* What is answered was asked for. *)
ConnInv ==
  /\ \A c \in 1 .. Len(conns) : conns[c].hop <= MaxRedirects
  /\ \A i \in 1 .. Len(pending) : pending[i].conn <= Len(conns)
  /\ \A i \in 1 .. Len(todo) :
       todo[i].step \in Answers \cup {"create"} => todo[i].conn \in 1 .. Len(conns)

(* A task of the main loop lies below all that its listeners call. *)
BaseSteps == Answers \cup {"status", "end", "ended"}
BaseInv ==
  \A i \in 1 .. Len(todo) :
    /\ todo[i].step \in BaseSteps => i = Len(todo)
    /\ todo[i].step \in {"create", "aborted"} /\ ~nested => i = Len(todo)
    /\ todo[i].step = "data" => i = Len(todo) - 1 /\ todo[Len(todo)].step = "end"

LastIs(step) == todo # <<>> /\ todo[Len(todo)].step = step

(* The load of a request comes with the end of an answer, whose last step takes
   sendFlag back; until then no other readyState is under way. *)
LoadInv ==
  /\ LoadsOnce
  /\ Seen("load") /\ xhr.sendFlag => LastIs("ended")
  /\ \A i \in 1 .. Len(todo) : todo[i].step = "emit" /\ todo[i].event = "load" =>
       /\ i = 1 /\ Len(todo) = 3 /\ LastIs("ended") /\ ~Seen("load")
       /\ ~InTodo("setState")
  /\ Seen("load") \/ Emits("load") => xhr.readyState # OPENED
  /\ xhr.readyState = DONE /\ ~xhr.errorFlag =>
       \A i \in 1 .. Len(todo) : todo[i].step = "setState" =>
         i = Len(todo) - 1 /\ LastIs("ended") /\ ~Seen("load")

(* The timeout installed, as long as no listener has called a method. *)
TimerInv ==
  /\ timers \subseteq {xhr.timer}
  /\ xhr.readyState = OPENED /\ ~xhr.sendFlag => timers = {}
  /\ InTodo("create") => timers = {} /\ xhr.sendFlag
  /\ InTodo("ended") => xhr.readyState = DONE

ResponseInv ==
  /\ xhr.readyState >= HEADERS_RECEIVED /\ ~xhr.errorFlag => xhr.response # 0
  /\ InTodo("data") \/ InTodo("end") => xhr.response # 0

(* A failure is remembered until the next open. *)
FailInv ==
  /\ \A i, j \in 1 .. Len(events) : i < j /\ events[i] \in Failures => events[j] # "load"
  /\ \A e \in Failures : Seen(e) \/ Emits(e) => xhr.errorFlag /\ xhr.readyState # OPENED
  /\ InTodo("aborted") => xhr.errorFlag
  /\ Emits("load") => ~xhr.errorFlag

OutcomeInv ==
  /\ \A i, j \in 1 .. Len(events) :
       i < j /\ events[i] \in {"load", "error"} => events[j] # "timeout"
  /\ Seen("error") \/ Emits("error") => timers = {} /\ ~InTodo("create")
  /\ Emits("timeout") =>
       ~Seen("load") /\ ~Seen("error") /\ ~Emits("load") /\ ~Emits("error")

Inv ==
  /\ TypeOK /\ ConnInv /\ BaseInv /\ LoadInv
  /\ ~nested => TimerInv /\ ResponseInv /\ FailInv /\ OutcomeInv
-----------------------------------------------------------------------------
XhrType ==
  [readyState : UNSENT .. DONE, sendFlag : BOOLEAN, errorFlag : BOOLEAN,
   didTimeout : BOOLEAN, request : 0 .. MaxConns, response : 0 .. MaxConns,
   timer : 0 .. MaxConns]
StepType ==
  [step : Steps, conn : 0 .. MaxConns, event : Events \cup {"", "readystatechange"}]

LEMMA StepsTyped ==
  /\ \A e \in Events \cup {"readystatechange"} : Emit(e) \in StepType
  /\ \A s \in Steps : \A c \in 0 .. MaxConns : Step(s, c) \in StepType
<1>1. 0 \in 0 .. MaxConns /\ "emit" \in Steps
  BY XhrAssumption DEF Steps
<1>2. \A e \in Events \cup {"readystatechange"} : Emit(e) \in StepType
  BY <1>1 DEF Emit, StepType
<1>3. \A s \in Steps : \A c \in 0 .. MaxConns : Step(s, c) \in StepType
  BY DEF Step, StepType
<1> QED BY <1>2, <1>3

(* Reading a sequence that was put together of two. *)
LEMMA ConcatFacts ==
  ASSUME NEW S, NEW s \in Seq(S), NEW t \in Seq(S)
  PROVE  /\ s \o t \in Seq(S) /\ Len(s) \in Nat /\ Len(t) \in Nat
         /\ Len(s \o t) = Len(s) + Len(t)
         /\ \A i \in 1 .. Len(s) : (s \o t)[i] = s[i]
         /\ \A j \in 1 .. Len(t) : (s \o t)[Len(s) + j] = t[j]
         /\ \A i \in 1 .. (Len(s) + Len(t)) :
              \/ i \in 1 .. Len(s) /\ (s \o t)[i] = s[i]
              \/ i - Len(s) \in 1 .. Len(t) /\ (s \o t)[i] = t[i - Len(s)]
OBVIOUS

LEMMA RestFacts ==
  ASSUME NEW S, NEW s \in Seq(S), s # <<>>
  PROVE  /\ Tail(s) \in Seq(S) /\ Len(s) \in Nat \ {0}
         /\ Len(Tail(s)) = Len(s) - 1
         /\ \A i \in 1 .. (Len(s) - 1) : Tail(s)[i] = s[i + 1]
         /\ Head(s) = s[1]
OBVIOUS

(* The stack after a step that puts steps on it and takes k off, 0 or 1. *)
Stacked(steps, k) ==
  /\ todo' \in Seq(StepType) /\ Len(steps) \in Nat /\ Len(todo) \in Nat /\ k <= Len(todo)
  /\ Len(todo') = Len(steps) + Len(todo) - k
  /\ \A i \in 1 .. Len(steps) : todo'[i] = steps[i]
  /\ \A j \in (k + 1) .. Len(todo) : todo'[Len(steps) + j - k] = todo[j]
  /\ \A i \in 1 .. Len(todo') :
       \/ i \in 1 .. Len(steps) /\ todo'[i] = steps[i]
       \/ \E j \in (k + 1) .. Len(todo) : i = Len(steps) + j - k /\ todo'[i] = todo[j]

(* A call of the script is put on top of what it interrupts. *)
LEMMA CallStacks ==
  ASSUME todo \in Seq(StepType), NEW steps \in Seq(StepType), Calling(steps)
  PROVE  Stacked(steps, 0)
<1> DEFINE u == steps \o todo
<1>1. /\ u \in Seq(StepType) /\ Len(steps) \in Nat /\ Len(todo) \in Nat
      /\ Len(u) = Len(steps) + Len(todo)
      /\ \A i \in 1 .. Len(steps) : u[i] = steps[i]
      /\ \A j \in 1 .. Len(todo) : u[Len(steps) + j] = todo[j]
      /\ \A i \in 1 .. (Len(steps) + Len(todo)) :
           \/ i \in 1 .. Len(steps) /\ u[i] = steps[i]
           \/ i - Len(steps) \in 1 .. Len(todo) /\ u[i] = todo[i - Len(steps)]
  BY ConcatFacts
<1>2. todo' = u
  BY DEF Calling
<1> HIDE DEF u
<1>3. ASSUME NEW i \in 1 .. Len(u), i \notin 1 .. Len(steps)
      PROVE  \E j \in 1 .. Len(todo) : i = Len(steps) + j - 0 /\ u[i] = todo[j]
  <2> DEFINE j == i - Len(steps)
  <2>1. j \in 1 .. Len(todo) /\ u[i] = todo[j] /\ i = Len(steps) + j - 0
    BY <1>1, <1>3
  <2> QED BY <2>1
<1> QED BY <1>1, <1>2, <1>3, SMTT(30) DEF Stacked

(* What a step that ends one call, or goes on with it, does to the stack. *)
LEMMA ThenStacks ==
  ASSUME todo \in Seq(StepType), todo # <<>>,
         NEW steps \in Seq(StepType), Then(steps)
  PROVE  Stacked(steps, 1)
<1> DEFINE t == Tail(todo)
           u == steps \o t
<1>1. /\ t \in Seq(StepType) /\ Len(todo) \in Nat \ {0} /\ Len(t) = Len(todo) - 1
      /\ \A i \in 1 .. (Len(todo) - 1) : t[i] = todo[i + 1]
  BY RestFacts
<1>2. todo' = u
  BY DEF Then
<1>3. /\ u \in Seq(StepType) /\ Len(steps) \in Nat /\ Len(t) \in Nat
      /\ Len(u) = Len(steps) + Len(t)
      /\ \A i \in 1 .. Len(steps) : u[i] = steps[i]
      /\ \A j \in 1 .. Len(t) : u[Len(steps) + j] = t[j]
      /\ \A i \in 1 .. (Len(steps) + Len(t)) :
           \/ i \in 1 .. Len(steps) /\ u[i] = steps[i]
           \/ i - Len(steps) \in 1 .. Len(t) /\ u[i] = t[i - Len(steps)]
  BY <1>1, ConcatFacts
<1> HIDE DEF t, u
<1>4. ASSUME NEW j \in 2 .. Len(todo)
      PROVE  u[Len(steps) + j - 1] = todo[j]
  <2>1. j - 1 \in 1 .. Len(t) /\ (j - 1) + 1 = j /\ Len(steps) + (j - 1) = Len(steps) + j - 1
    BY <1>1, <1>3
  <2>2. u[Len(steps) + (j - 1)] = t[j - 1] /\ t[j - 1] = todo[(j - 1) + 1]
    BY <1>1, <1>3, <2>1
  <2> QED BY <2>1, <2>2
<1>5. ASSUME NEW i \in 1 .. Len(u), i \notin 1 .. Len(steps)
      PROVE  \E j \in 2 .. Len(todo) : i = Len(steps) + j - 1 /\ u[i] = todo[j]
  <2> DEFINE j == i - Len(steps) + 1
  <2>1. j \in 2 .. Len(todo) /\ i = Len(steps) + j - 1
    BY <1>1, <1>3, <1>5
  <2>2. u[i] = todo[j]
    BY <1>4, <2>1
  <2> QED BY <2>1, <2>2
<1> QED BY <1>1, <1>2, <1>3, <1>4, <1>5 DEF Stacked

(* What is on the stack afterwards is new or was there before. *)
LEMMA Names ==
  ASSUME NEW steps, NEW k \in {0, 1}, Stacked(steps, k)
  PROVE  /\ \A s : InTodo(s)' => \/ \E i \in 1 .. Len(steps) : steps[i].step = s
                                 \/ \E j \in (k + 1) .. Len(todo) : todo[j].step = s
         /\ \A e : Emits(e)' =>
              \/ \E i \in 1 .. Len(steps) : steps[i].step = "emit" /\ steps[i].event = e
              \/ \E j \in (k + 1) .. Len(todo) : todo[j].step = "emit" /\ todo[j].event = e
BY DEF Stacked, InTodo, Emits

(* The order of the stack: what must be at its bottom is. *)
LEMMA BaseKept ==
  ASSUME BaseInv, NEW steps, NEW k \in {0, 1}, Stacked(steps, k), ~nested' => ~nested,
         \A i \in 1 .. Len(steps) :
           /\ steps[i].step \in BaseSteps => i = Len(steps) /\ Len(todo) = k
           /\ steps[i].step \in {"create", "aborted"} /\ ~nested' =>
                i = Len(steps) /\ Len(todo) = k
           /\ steps[i].step = "data" =>
                i = Len(steps) - 1 /\ Len(todo) = k /\ steps[Len(steps)].step = "end"
  PROVE  BaseInv'
<1> SUFFICES ASSUME NEW i \in 1 .. Len(todo')
             PROVE  /\ todo'[i].step \in BaseSteps => i = Len(todo')
                    /\ todo'[i].step \in {"create", "aborted"} /\ ~nested' => i = Len(todo')
                    /\ todo'[i].step = "data" =>
                         i = Len(todo') - 1 /\ todo'[Len(todo')].step = "end"
  BY DEF BaseInv
<1>1. CASE i \in 1 .. Len(steps)
  <2>1. todo'[i] = steps[i] /\ (Len(todo) = k => Len(todo') = Len(steps))
    BY <1>1 DEF Stacked
  <2>2. Len(steps) \in 1 .. Len(steps) /\ todo'[Len(steps)] = steps[Len(steps)]
    BY <1>1 DEF Stacked
  <2> QED BY <1>1, <2>1, <2>2
<1>2. ASSUME NEW j \in (k + 1) .. Len(todo), i = Len(steps) + j - k, todo'[i] = todo[j]
      PROVE  /\ todo'[i].step \in BaseSteps => i = Len(todo')
             /\ todo'[i].step \in {"create", "aborted"} /\ ~nested' => i = Len(todo')
             /\ todo'[i].step = "data" =>
                  i = Len(todo') - 1 /\ todo'[Len(todo')].step = "end"
  <2>1. /\ j \in 1 .. Len(todo) /\ Len(todo) \in (k + 1) .. Len(todo)
        /\ (j = Len(todo) => i = Len(todo')) /\ (j = Len(todo) - 1 => i = Len(todo') - 1)
        /\ Len(todo') = Len(steps) + Len(todo) - k
    BY <1>2 DEF Stacked
  <2>2. todo'[Len(todo')] = todo[Len(todo)]
    BY <2>1 DEF Stacked
  <2> QED BY <1>2, <2>1, <2>2 DEF BaseInv
<1> QED BY <1>1, <1>2 DEF Stacked

(* One load at most, as long as the step announces none. *)
LEMMA LoadKept ==
  ASSUME LoadInv, NEW steps, NEW k \in {0, 1}, Stacked(steps, k),
         ~Emits("load"), LoadsOnce', Seen("load")' => Seen("load"),
         \A i \in 1 .. Len(steps) : ~(steps[i].step = "emit" /\ steps[i].event = "load"),
         Seen("load")' /\ xhr'.sendFlag => LastIs("ended") /\ Len(todo) > k,
         Seen("load")' => xhr'.readyState # OPENED,
         xhr'.readyState = DONE /\ ~xhr'.errorFlag =>
           /\ xhr.readyState = DONE /\ ~xhr.errorFlag
           /\ \A i \in 1 .. Len(steps) : steps[i].step # "setState"
  PROVE  LoadInv'
<1>1. ~Emits("load")'
  <2> SUFFICES ASSUME Emits("load")'
               PROVE  FALSE
    OBVIOUS
  <2>1. PICK j \in (k + 1) .. Len(todo) : todo[j].step = "emit" /\ todo[j].event = "load"
    BY Names
  <2>2. j \in 1 .. Len(todo)
    BY DEF Stacked
  <2> QED BY <2>1, <2>2 DEF Emits
<1>2. LoadsOnce' /\ (Seen("load")' => Seen("load"))
  OBVIOUS
<1>3. ASSUME LastIs("ended"), Len(todo) > k
      PROVE  LastIs("ended")'
  <2>1. /\ Len(todo) \in (k + 1) .. Len(todo) /\ Len(todo') = Len(steps) + Len(todo) - k
        /\ Len(todo') \in Nat \ {0}
    BY <1>3 DEF Stacked
  <2>2. todo'[Len(todo')] = todo[Len(todo)]
    BY <2>1 DEF Stacked
  <2>3. todo' # <<>>
    BY <2>1
  <2> QED BY <1>3, <2>2, <2>3 DEF LastIs
<1>4. ASSUME xhr'.readyState = DONE, ~xhr'.errorFlag,
             NEW i \in 1 .. Len(todo'), todo'[i].step = "setState"
      PROVE  i = Len(todo') - 1 /\ LastIs("ended")' /\ ~Seen("load")'
  <2>1. PICK j \in (k + 1) .. Len(todo) : i = Len(steps) + j - k /\ todo'[i] = todo[j]
    BY <1>4 DEF Stacked
  <2>2. j \in 1 .. Len(todo) /\ todo[j].step = "setState"
    BY <1>4, <2>1 DEF Stacked
  <2>3. j = Len(todo) - 1 /\ LastIs("ended") /\ ~Seen("load")
    BY <1>4, <2>2 DEF LoadInv
  <2>4. i = Len(todo') - 1 /\ Len(todo) > k
    BY <2>1, <2>3 DEF Stacked
  <2> QED BY <1>2, <1>3, <2>3, <2>4
<1> QED BY <1>1, <1>2, <1>3, <1>4 DEF LoadInv, Emits
-----------------------------------------------------------------------------
LEMMA StepParts ==
  ASSUME NEW s, NEW c, NEW top, top = Step(s, c)
  PROVE  top.step = s /\ top.conn = c
BY DEF Step

(* What the steps of the code put on the stack. *)
Marker == Step("setState", 0)
Changed == Emit("readystatechange")

LEMMA MarkerFacts ==
  /\ Marker \in StepType /\ Marker.step = "setState"
  /\ Changed \in StepType /\ Changed.step = "emit" /\ Changed.event = "readystatechange"
<1>1. Marker \in StepType /\ Changed \in StepType
  BY StepsTyped, XhrAssumption DEF Marker, Changed, Steps
<1>2. Marker.step = "setState" /\ Changed.step = "emit" /\ Changed.event = "readystatechange"
  BY DEF Marker, Changed, Step, Emit
<1> QED BY <1>1, <1>2

LEMMA SetStateFacts ==
  ASSUME NEW x, NEW state
  PROVE  /\ SetState(x, state) \in Seq(StepType)
         /\ \A i \in 1 .. Len(SetState(x, state)) :
              \/ SetState(x, state)[i] = Changed
              \/ SetState(x, state)[i] = Marker /\ i = Len(SetState(x, state))
         /\ Len(SetState(x, state)) \in {0, 2}
<1>1. SetState(x, state) \in {<<Changed, Marker>>, <<>>}
  BY DEF SetState, Changed, Marker
<1>2. CASE SetState(x, state) = <<Changed, Marker>>
  <2>1. <<Changed, Marker>> \in Seq(StepType)
    BY MarkerFacts
  <2> QED BY <1>2, <2>1
<1>3. CASE SetState(x, state) = <<>>
  BY <1>3
<1> QED BY <1>1, <1>2, <1>3

(* setState, then one more step of the caller. *)
LEMMA SetStateThenOne ==
  ASSUME NEW x, NEW state, NEW last \in StepType, NEW u, u = SetState(x, state) \o <<last>>
  PROVE  /\ u \in Seq(StepType) /\ Len(u) \in {1, 3} /\ u[Len(u)] = last
         /\ \A i \in 1 .. Len(u) : \/ u[i] = Changed
                                   \/ u[i] = Marker /\ i = Len(u) - 1
                                   \/ u[i] = last /\ i = Len(u)
<1> DEFINE s == SetState(x, state)
           t == <<last>>
<1>1. /\ s \in Seq(StepType) /\ Len(s) \in {0, 2}
      /\ \A i \in 1 .. Len(s) : s[i] = Changed \/ (s[i] = Marker /\ i = Len(s))
  BY SetStateFacts
<1>2. t \in Seq(StepType) /\ Len(t) = 1 /\ t[1] = last
  OBVIOUS
<1>3. u = s \o t
  OBVIOUS
<1> HIDE DEF s, t
<1>4. /\ u \in Seq(StepType) /\ Len(u) = Len(s) + Len(t) /\ Len(s) \in Nat
      /\ \A j \in 1 .. Len(t) : u[Len(s) + j] = t[j]
      /\ \A i \in 1 .. (Len(s) + Len(t)) :
           \/ i \in 1 .. Len(s) /\ u[i] = s[i]
           \/ i - Len(s) \in 1 .. Len(t) /\ u[i] = t[i - Len(s)]
  <2>1. s \in Seq(StepType) /\ t \in Seq(StepType)
    BY <1>1, <1>2
  <2> QED BY ONLY <2>1, <1>3, ConcatFacts
<1>6. Len(u) = Len(s) + 1 /\ u[Len(u)] = last
  BY <1>2, <1>4
<1>5. ASSUME NEW i \in 1 .. Len(u)
      PROVE  \/ u[i] = Changed
             \/ u[i] = Marker /\ i = Len(u) - 1
             \/ u[i] = last /\ i = Len(u)
  <2>1. CASE i \in 1 .. Len(s) /\ u[i] = s[i]
    BY <2>1, <1>1, <1>4, <1>6
  <2>2. CASE i - Len(s) \in 1 .. Len(t) /\ u[i] = t[i - Len(s)]
    <3>1. i - Len(s) = 1
      BY <2>2, <1>2, <1>4
    <3>2. u[i] = last /\ i = Len(u)
      BY <2>2, <3>1, <1>2, <1>4, <1>6
    <3> QED BY <3>2
  <2>3. i \in 1 .. (Len(s) + Len(t))
    BY <1>4
  <2> QED BY <2>1, <2>2, <2>3, <1>4
<1>7. Len(u) \in {1, 3}
  BY <1>1, <1>6
<1> QED BY <1>4, <1>5, <1>6, <1>7

(* setState, then two events. *)
LEMMA SetStateThenTwo ==
  ASSUME NEW x, NEW state, NEW a \in StepType, NEW b \in StepType,
         NEW u, u = SetState(x, state) \o <<a, b>>
  PROVE  /\ u \in Seq(StepType)
         /\ \A i \in 1 .. Len(u) : u[i] \in {Changed, Marker, a, b}
<1> DEFINE s == SetState(x, state)
           t == <<a, b>>
<1>1. /\ s \in Seq(StepType)
      /\ \A i \in 1 .. Len(s) : s[i] = Changed \/ s[i] = Marker
  BY SetStateFacts
<1>2. t \in Seq(StepType) /\ Len(t) = 2 /\ t[1] = a /\ t[2] = b
  OBVIOUS
<1>3. u = s \o t
  OBVIOUS
<1> HIDE DEF s, t
<1>4. /\ u \in Seq(StepType) /\ Len(u) = Len(s) + Len(t) /\ Len(s) \in Nat
      /\ \A i \in 1 .. (Len(s) + Len(t)) :
           \/ i \in 1 .. Len(s) /\ u[i] = s[i]
           \/ i - Len(s) \in 1 .. Len(t) /\ u[i] = t[i - Len(s)]
  <2>1. s \in Seq(StepType) /\ t \in Seq(StepType)
    BY <1>1, <1>2
  <2> QED BY ONLY <2>1, <1>3, ConcatFacts
<1>5. ASSUME NEW i \in 1 .. Len(u)
      PROVE  u[i] \in {Changed, Marker, a, b}
  <2>1. CASE i \in 1 .. Len(s) /\ u[i] = s[i]
    BY <2>1, <1>1
  <2>2. CASE i - Len(s) \in 1 .. Len(t) /\ u[i] = t[i - Len(s)]
    <3>1. i - Len(s) = 1 \/ i - Len(s) = 2
      BY <2>2, <1>2, <1>4
    <3> QED BY <2>2, <3>1, <1>2
  <2>3. i \in 1 .. (Len(s) + Len(t))
    BY <1>4
  <2> QED BY <2>1, <2>2, <2>3, <1>4
<1> QED BY <1>4, <1>5
-----------------------------------------------------------------------------
(* What the invariant says of the top of the stack. *)
LEMMA Stack ==
  ASSUME TypeOK
  PROVE  /\ todo \in Seq(StepType) /\ Len(todo) \in Nat
         /\ todo # <<>> => /\ Len(todo) \in Nat \ {0} /\ 1 \in 1 .. Len(todo)
                           /\ Head(todo) = todo[1] /\ todo[1] \in StepType
         /\ todo = <<>> => Len(todo) = 0
<1>1. todo \in Seq(StepType)
  BY DEF TypeOK, StepType
<1> QED BY <1>1

LEMMA BaseTop ==
  ASSUME TypeOK, BaseInv, todo # <<>>,
         \/ Head(todo).step \in BaseSteps
         \/ Head(todo).step \in {"create", "aborted"} /\ ~nested
  PROVE  Len(todo) = 1
BY Stack DEF BaseInv

LEMMA LoadOnTop ==
  ASSUME TypeOK, LoadInv, todo # <<>> => Head(todo).step # "emit" \/ Head(todo).event # "load"
  PROVE  ~Emits("load")
<1> SUFFICES ASSUME NEW i \in 1 .. Len(todo), todo[i].step = "emit", todo[i].event = "load"
             PROVE  FALSE
  BY DEF Emits
<1>1. i = 1
  BY DEF LoadInv
<1>2. todo # <<>> /\ Head(todo) = todo[1]
  BY <1>1, Stack
<1> QED BY <1>1, <1>2

(* An answer that is still at work when its load has been seen lies below. *)
LEMMA LoadBelow ==
  ASSUME TypeOK, LoadInv, Seen("load"), xhr.sendFlag,
         todo # <<>> => Head(todo).step # "ended"
  PROVE  LastIs("ended") /\ Len(todo) > 1
<1>1. LastIs("ended")
  BY DEF LoadInv
<1>2. todo # <<>> /\ todo[Len(todo)].step = "ended"
  BY <1>1 DEF LastIs
<1>3. Len(todo) # 1
  BY <1>2, Stack
<1> QED BY <1>1, <1>2, <1>3, Stack

LEMMA EmptyStacks ==
  ASSUME todo = <<>>, NEW steps \in Seq(StepType), todo' = steps
  PROVE  Stacked(steps, 0)
<1>1. Len(todo) = 0 /\ Len(steps) \in Nat
  OBVIOUS
<1> QED BY <1>1 DEF Stacked

LEMMA NamesKept ==
  ASSUME NEW steps, NEW k \in {0, 1}, Stacked(steps, k)
  PROVE  /\ \A s : InTodo(s)' => \/ \E i \in 1 .. Len(steps) : steps[i].step = s
                                 \/ InTodo(s)
         /\ \A e : Emits(e)' =>
              \/ \E i \in 1 .. Len(steps) : steps[i].step = "emit" /\ steps[i].event = e
              \/ Emits(e)
<1>1. Len(todo) \in Nat /\ \A j \in (k + 1) .. Len(todo) : j \in 1 .. Len(todo)
  BY DEF Stacked
<1>2. ASSUME NEW s, InTodo(s)'
      PROVE  (\E i \in 1 .. Len(steps) : steps[i].step = s) \/ InTodo(s)
  <2>1. \/ \E i \in 1 .. Len(steps) : steps[i].step = s
        \/ \E j \in (k + 1) .. Len(todo) : todo[j].step = s
    BY <1>2, Names
  <2> QED BY <1>1, <2>1 DEF InTodo
<1>3. ASSUME NEW e, Emits(e)'
      PROVE  \/ \E i \in 1 .. Len(steps) : steps[i].step = "emit" /\ steps[i].event = e
             \/ Emits(e)
  <2>1. \/ \E i \in 1 .. Len(steps) : steps[i].step = "emit" /\ steps[i].event = e
        \/ \E j \in (k + 1) .. Len(todo) : todo[j].step = "emit" /\ todo[j].event = e
    BY <1>3, Names
  <2> QED BY <1>1, <2>1 DEF Emits
<1> QED BY <1>2, <1>3

LEMMA NamesOnly ==
  ASSUME NEW steps, NEW k \in {0, 1}, Stacked(steps, k), Len(todo) = k
  PROVE  /\ \A s : InTodo(s)' => \E i \in 1 .. Len(steps) : steps[i].step = s
         /\ \A e : Emits(e)' =>
              \E i \in 1 .. Len(steps) : steps[i].step = "emit" /\ steps[i].event = e
<1>1. \A j \in (k + 1) .. Len(todo) : FALSE
  BY DEF Stacked
<1>2. ASSUME NEW s, InTodo(s)'
      PROVE  \E i \in 1 .. Len(steps) : steps[i].step = s
  BY <1>1, <1>2, Names
<1>3. ASSUME NEW e, Emits(e)'
      PROVE  \E i \in 1 .. Len(steps) : steps[i].step = "emit" /\ steps[i].event = e
  BY <1>1, <1>3, Names
<1> QED BY <1>2, <1>3
-----------------------------------------------------------------------------
(* What survives a step that does not touch it. *)
LEMMA ConnKept ==
  ASSUME ConnInv, NEW steps, NEW k \in {0, 1}, Stacked(steps, k), pending' = pending,
         Len(conns) \in Nat, Len(conns') \in Nat, Len(conns') >= Len(conns),
         pending \in Seq([step : Answers, conn : ConnId, event : {""}]), MaxConns \in Nat,
         \A c \in 1 .. Len(conns') : conns'[c].hop <= MaxRedirects,
         \A i \in 1 .. Len(steps) : steps[i].step \in Answers \cup {"create"} =>
           steps[i].conn \in 1 .. Len(conns')
  PROVE  ConnInv'
<1>1. Len(conns) \in Nat /\ Len(conns') \in Nat /\ Len(conns') >= Len(conns)
  OBVIOUS
<1>2. \A c \in 1 .. Len(conns) : c \in 1 .. Len(conns')
  BY ONLY <1>1
<1>3. ASSUME NEW i \in 1 .. Len(pending)
      PROVE  pending[i].conn <= Len(conns')
  <2>1. pending[i].conn \in ConnId
    <3>1. pending \in Seq([step : Answers, conn : ConnId, event : {""}])
      OBVIOUS
    <3>2. pending[i] \in [step : Answers, conn : ConnId, event : {""}]
      BY <3>1, ElementOfSeq
    <3> QED BY ONLY <3>2
  <2>2. pending[i].conn \in Nat /\ pending[i].conn <= Len(conns)
    <3>1. pending[i].conn <= Len(conns)
      BY DEF ConnInv
    <3>2. MaxConns \in Nat
      OBVIOUS
    <3> QED BY ONLY <2>1, <3>1, <3>2 DEF ConnId
  <2> QED BY ONLY <1>1, <2>2
<1>4. \A i \in 1 .. Len(pending') : pending'[i].conn <= Len(conns')
  BY <1>3
<1>5. ASSUME NEW i \in 1 .. Len(todo'), todo'[i].step \in Answers \cup {"create"}
      PROVE  todo'[i].conn \in 1 .. Len(conns')
  <2>1. CASE i \in 1 .. Len(steps) /\ todo'[i] = steps[i]
    BY <1>5, <2>1
  <2>2. CASE \E j \in (k + 1) .. Len(todo) : todo'[i] = todo[j]
    <3>1. PICK j \in (k + 1) .. Len(todo) : todo'[i] = todo[j]
      BY <2>2
    <3>2. Len(todo) \in Nat /\ k \in {0, 1}
      BY DEF Stacked
    <3>3. j \in 1 .. Len(todo)
      BY ONLY <3>2, j \in (k + 1) .. Len(todo)
    <3>4. todo[j].conn \in 1 .. Len(conns)
      BY <1>5, <3>1, <3>3 DEF ConnInv
    <3> QED BY ONLY <3>1, <3>4, <1>2
  <2> QED BY <2>1, <2>2 DEF Stacked
<1> QED BY <1>4, <1>5 DEF ConnInv

LEMMA QuietKeeps ==
  ASSUME TimerInv, ResponseInv, FailInv, OutcomeInv,
         xhr' = xhr, timers' \subseteq timers, events' = events,
         \A s \in {"create", "ended", "data", "end", "aborted"} : InTodo(s)' => InTodo(s),
         \A e \in Events : Emits(e)' => Emits(e)
  PROVE  TimerInv' /\ ResponseInv' /\ FailInv' /\ OutcomeInv'
<1>1. \A e : Seen(e)' <=> Seen(e)
  BY DEF Seen
<1>2. Failures \subseteq Events /\ {"load", "error", "timeout"} \subseteq Events
  BY DEF Failures, Events
<1>3. TimerInv'
  BY DEF TimerInv
<1>4. ResponseInv'
  BY DEF ResponseInv
<1>5. FailInv'
  BY <1>1, <1>2 DEF FailInv
<1>6. OutcomeInv'
  BY <1>1, <1>2 DEF OutcomeInv
<1> QED BY <1>3, <1>4, <1>5, <1>6

LEMMA Facts ==
  ASSUME TypeOK
  PROVE  /\ todo \in Seq(StepType) /\ xhr \in XhrType
         /\ Len(conns) \in Nat /\ MaxConns \in Nat
         /\ pending \in Seq([step : Answers, conn : ConnId, event : {""}])
         /\ <<>> \in Seq(StepType)
<1>1. todo \in Seq(StepType)
  BY DEF TypeOK, StepType
<1>2. xhr \in XhrType
  BY DEF TypeOK, XhrType
<1>3. conns \in Seq(Conn)
  BY DEF TypeOK
<1>4. Len(conns) \in Nat
  BY <1>3
<1>5. pending \in Seq([step : Answers, conn : ConnId, event : {""}])
  BY DEF TypeOK
<1>6. <<>> \in Seq(StepType) /\ MaxConns \in Nat
  BY XhrAssumption
<1> QED BY <1>1, <1>2, <1>4, <1>5, <1>6

LEMMA Single ==
  ASSUME NEW a \in StepType
  PROVE  <<a>> \in Seq(StepType) /\ Len(<<a>>) = 1 /\ \A i \in 1 .. Len(<<a>>) : <<a>>[i] = a
OBVIOUS

(* No request is made and nothing is answered. *)
LEMMA ConnSame ==
  ASSUME TypeOK, ConnInv, NEW steps, NEW k \in {0, 1}, Stacked(steps, k),
         \A i \in 1 .. Len(steps) : steps[i].step \notin Answers \cup {"create"},
         pending' = pending, Len(conns') = Len(conns),
         \A c \in 1 .. Len(conns) : conns'[c].hop = conns[c].hop
  PROVE  ConnInv'
<1>1. /\ Len(conns) \in Nat /\ MaxConns \in Nat
      /\ pending \in Seq([step : Answers, conn : ConnId, event : {""}])
  BY Facts
<1>2. Len(conns') = Len(conns)
  OBVIOUS
<1>3. \A n \in Nat : n >= n
  OBVIOUS
<1>4. Len(conns') \in Nat /\ Len(conns') >= Len(conns)
  BY ONLY <1>1, <1>2, <1>3
<1>5. \A c \in 1 .. Len(conns') : conns'[c].hop <= MaxRedirects
  BY <1>2 DEF ConnInv
<1>6. \A i \in 1 .. Len(steps) : steps[i].step \in Answers \cup {"create"} =>
        steps[i].conn \in 1 .. Len(conns')
  OBVIOUS
<1> QED BY <1>1, <1>4, <1>5, <1>6, ConnKept

(* Steps that only report: they ask for no answer and hold no task. *)
Light == {"emit", "listener", "setState"}

LEMMA LightNames ==
  ASSUME NEW steps, NEW k \in {0, 1}, Stacked(steps, k),
         \A i \in 1 .. Len(steps) : steps[i].step \in Light
  PROVE  /\ \A s \in Steps \ Light : InTodo(s)' => InTodo(s)
         /\ \A i \in 1 .. Len(steps) :
              steps[i].step \notin BaseSteps \cup {"create", "aborted", "data"}
<1>1. \A i \in 1 .. Len(steps) :
        steps[i].step \notin BaseSteps \cup {"create", "aborted", "data"}
  BY DEF Light, BaseSteps, Answers
<1> QED BY <1>1, NamesKept

LEMMA LightKeeps ==
  ASSUME Inv, NEW steps, NEW k \in {0, 1}, Stacked(steps, k),
         \A i \in 1 .. Len(steps) : steps[i].step \in Light,
         UNCHANGED <<xhr, timers, conns, pending, called>>, events' \in Seq(Events)
  PROVE  /\ TypeOK' /\ ConnInv' /\ BaseInv'
         /\ \A s \in {"create", "ended", "data", "end", "aborted"} : InTodo(s)' => InTodo(s)
<1>1. \A i \in 1 .. Len(steps) :
        steps[i].step \notin BaseSteps \cup {"create", "aborted", "data"} \cup Answers
  BY LightNames DEF BaseSteps
<1>2. TypeOK'
  <2>1. todo' \in Seq(StepType)
    BY DEF Stacked
  <2> QED BY <2>1 DEF Inv, TypeOK, StepType, called
<1>3. ConnInv'
  <2>1. conns' = conns /\ pending' = pending
    OBVIOUS
  <2>2. Len(conns') = Len(conns) /\ \A c \in 1 .. Len(conns) : conns'[c].hop = conns[c].hop
    BY ONLY <2>1
  <2> QED BY <1>1, <2>1, <2>2, ConnSame DEF Inv
<1>4. BaseInv'
  BY <1>1, BaseKept DEF Inv, called
<1>5. {"create", "ended", "data", "end", "aborted"} \subseteq Steps \ Light
  BY DEF Steps, Answers, Light
<1> QED BY <1>2, <1>3, <1>4, <1>5, LightNames

LEMMA ListenerReturnsKeeps ==
  ASSUME Inv, ListenerReturns
  PROVE  Inv'
<1>1. todo # <<>> /\ Head(todo).step = "listener" /\ Stacked(<<>>, 1)
  <2>1. todo \in Seq(StepType) /\ <<>> \in Seq(StepType)
    BY Facts DEF Inv
  <2>2. todo # <<>> /\ Head(todo).step = "listener" /\ Then(<<>>)
    BY DEF ListenerReturns, Doing
  <2> QED BY <2>1, <2>2, ThenStacks
<1>2. /\ UNCHANGED <<xhr, timers, conns, pending, called>> /\ events' = events
      /\ events' \in Seq(Events)
  BY DEF ListenerReturns, Inv, TypeOK
<1>3. /\ TypeOK' /\ ConnInv' /\ BaseInv'
      /\ \A s \in {"create", "ended", "data", "end", "aborted"} : InTodo(s)' => InTodo(s)
  BY <1>1, <1>2, LightKeeps
<1>4. \A e : Emits(e)' => Emits(e)
  BY <1>1, NamesKept
<1>5. LoadInv'
  <2>1. LoadsOnce' /\ (Seen("load")' <=> Seen("load"))
    BY <1>2 DEF Inv, LoadInv, LoadsOnce, Seen
  <2>2. ~Emits("load")
    BY <1>1, LoadOnTop DEF Inv
  <2>3. Seen("load") /\ xhr.sendFlag => LastIs("ended") /\ Len(todo) > 1
    BY <1>1, LoadBelow DEF Inv
  <2>4. Seen("load") => xhr.readyState # OPENED
    BY DEF Inv, LoadInv
  <2> QED BY <1>1, <1>2, <2>1, <2>2, <2>3, <2>4, LoadKept DEF Inv
<1>6. ~nested' => TimerInv' /\ ResponseInv' /\ FailInv' /\ OutcomeInv'
  BY <1>2, <1>3, <1>4, QuietKeeps DEF Inv, called
<1> QED BY <1>3, <1>5, <1>6 DEF Inv

LEMMA DispatchEventKeeps ==
  ASSUME Inv, DispatchEvent
  PROVE  Inv'
<1> DEFINE e == Head(todo).event
           l == [Head(todo) EXCEPT !.step = "listener"]
           steps == <<l>>
<1>1. /\ todo # <<>> /\ Head(todo).step = "emit" /\ Head(todo) = todo[1]
      /\ todo[1] \in StepType /\ 1 \in 1 .. Len(todo)
  BY Stack DEF DispatchEvent, Doing, Inv
<1>2. e \in Events \cup {"", "readystatechange"} /\ Emits(e)
  BY <1>1 DEF StepType, Emits
<1>3. steps \in Seq(StepType) /\ Len(steps) = 1 /\ steps[1].step = "listener"
  <2>1. l \in StepType /\ l.step = "listener"
    BY <1>1 DEF StepType, Steps
  <2> HIDE DEF l
  <2> QED BY <2>1, Single
<1>4. Stacked(steps, 1)
  <2>1. todo \in Seq(StepType) /\ Then(steps)
    BY Facts DEF Inv, DispatchEvent
  <2> QED BY <1>1, <1>3, <2>1, ThenStacks
<1>5. /\ UNCHANGED <<xhr, timers, conns, pending, called>>
      /\ events' = IF e \in Events THEN Append(events, e) ELSE events
  BY DEF DispatchEvent
<1> HIDE DEF e, l, steps
<1>6. \A i \in 1 .. Len(steps) : steps[i].step = "listener"
  BY <1>3
<1>7. /\ events \in Seq(Events) /\ events' \in Seq(Events)
      /\ \/ events' = events /\ e \notin Events
         \/ /\ e \in Events /\ Len(events') = Len(events) + 1 /\ Len(events) \in Nat
            /\ events'[Len(events) + 1] = e
            /\ \A i \in 1 .. Len(events) : events'[i] = events[i]
  <2>1. events \in Seq(Events)
    BY DEF Inv, TypeOK
  <2>2. CASE e \in Events
    BY <1>5, <2>1, <2>2
  <2>3. CASE e \notin Events
    BY <1>5, <2>1, <2>3
  <2> QED BY <2>1, <2>2, <2>3
<1>14. ASSUME NEW i \in DOMAIN events'
       PROVE  \/ i \in DOMAIN events /\ events'[i] = events[i]
              \/ i = Len(events) + 1 /\ events'[i] = e
  <2>1. CASE events' = events
    BY <2>1
  <2>2. CASE /\ Len(events') = Len(events) + 1 /\ Len(events) \in Nat
             /\ events'[Len(events) + 1] = e
             /\ \A n \in 1 .. Len(events) : events'[n] = events[n]
    <3>1. i \in 1 .. Len(events) \/ i = Len(events) + 1
      BY <1>7, <2>2
    <3>2. DOMAIN events = 1 .. Len(events)
      BY <1>7
    <3> QED BY <2>2, <3>1, <3>2
  <2> QED BY <1>7, <2>1, <2>2
<1>8. /\ \A x : Seen(x)' => Seen(x) \/ (x = e /\ e \in Events)
      /\ \A x : Seen(x) => Seen(x)'
  BY <1>7 DEF Seen
<1>9. /\ TypeOK' /\ ConnInv' /\ BaseInv'
      /\ \A s \in {"create", "ended", "data", "end", "aborted"} : InTodo(s)' => InTodo(s)
  BY <1>4, <1>5, <1>6, <1>7, LightKeeps DEF Light
<1>10. \A x : Emits(x)' => Emits(x)
  BY <1>4, <1>6, NamesKept
<1>11. ASSUME e = "load"
       PROVE  LoadInv'
  <2>1. /\ Len(todo) = 3 /\ LastIs("ended") /\ ~Seen("load") /\ ~InTodo("setState")
        /\ xhr.readyState # OPENED
        /\ \A i \in 1 .. Len(todo) : todo[i].step = "emit" /\ todo[i].event = "load" => i = 1
    BY <1>1, <1>2, <1>11 DEF Inv, LoadInv, e
  <2>2. ~Emits("load")'
    <3>1. \A j \in 2 .. Len(todo) : j \in 1 .. Len(todo) /\ j # 1
      OBVIOUS
    <3> QED BY <1>4, <1>6, <2>1, <3>1, Names
  <2>3. ~InTodo("setState")'
    BY <1>4, <1>6, <2>1, NamesKept
  <2>4. LastIs("ended")'
    <3>1. Len(todo') = 3 /\ todo'[3] = todo[3] /\ todo' \in Seq(StepType)
      BY <1>3, <1>4, <2>1 DEF Stacked
    <3>2. todo[3].step = "ended"
      BY <2>1 DEF LastIs
    <3>3. todo' # <<>>
      BY <3>1
    <3> QED BY <3>1, <3>2, <3>3 DEF LastIs
  <2>5. LoadsOnce'
    <3>1. \A i \in DOMAIN events : events[i] # "load"
      BY <2>1 DEF Seen
    <3>3. \A i \in DOMAIN events' : events'[i] = "load" => i = Len(events) + 1
      BY <1>14, <3>1
    <3> QED BY <3>3 DEF LoadsOnce
  <2>6. xhr' = xhr
    BY <1>5
  <2>7. \A i \in 1 .. Len(todo') : /\ todo'[i].step # "setState"
                                   /\ ~(todo'[i].step = "emit" /\ todo'[i].event = "load")
    BY <2>2, <2>3 DEF InTodo, Emits
  <2>8. xhr'.readyState # OPENED
    BY <2>1, <2>6
  <2> QED BY <2>4, <2>5, <2>7, <2>8 DEF LoadInv
<1>12. ASSUME e # "load"
       PROVE  LoadInv'
  <2>1. ~Emits("load")
    BY <1>1, <1>12, LoadOnTop DEF Inv, e
  <2>2. LoadsOnce' /\ (Seen("load")' => Seen("load"))
    <3>3. \A i \in DOMAIN events' :
            events'[i] = "load" => i \in DOMAIN events /\ events[i] = "load"
      BY <1>12, <1>14
    <3>4. LoadsOnce
      BY DEF Inv, LoadInv
    <3> QED BY <1>8, <1>12, <3>3, <3>4 DEF LoadsOnce
  <2>3. Seen("load") /\ xhr.sendFlag => LastIs("ended") /\ Len(todo) > 1
    BY <1>1, LoadBelow DEF Inv
  <2>4. Seen("load") => xhr.readyState # OPENED
    BY DEF Inv, LoadInv
  <2>5. /\ \A i \in 1 .. Len(steps) : ~(steps[i].step = "emit" /\ steps[i].event = "load")
        /\ \A i \in 1 .. Len(steps) : steps[i].step # "setState"
    BY <1>6
  <2>6. xhr' = xhr
    BY <1>5
  <2>7. Seen("load")' /\ xhr'.sendFlag => LastIs("ended") /\ Len(todo) > 1
    BY <2>2, <2>3, <2>6
  <2>8. Seen("load")' => xhr'.readyState # OPENED
    BY <2>2, <2>4, <2>6
  <2>9. xhr'.readyState = DONE /\ ~xhr'.errorFlag => xhr.readyState = DONE /\ ~xhr.errorFlag
    BY <2>6
  <2>10. LoadInv
    BY DEF Inv
  <2> QED BY <1>4, <2>1, <2>2, <2>5, <2>7, <2>8, <2>9, <2>10, LoadKept
<1>13. ASSUME ~nested'
       PROVE  TimerInv' /\ ResponseInv' /\ FailInv' /\ OutcomeInv'
  <2>1. TimerInv /\ ResponseInv /\ FailInv /\ OutcomeInv /\ xhr' = xhr /\ timers' = timers
    BY <1>5, <1>13 DEF Inv, called
  <2>2. TimerInv'
    BY <1>9, <2>1 DEF TimerInv
  <2>3. ResponseInv'
    BY <1>9, <2>1 DEF ResponseInv
  <2>4. FailInv'
    <3>1. \A x \in Failures : Seen(x)' \/ Emits(x)' => xhr.errorFlag /\ xhr.readyState # OPENED
      BY <1>2, <1>8, <1>10, <2>1 DEF FailInv
    <3>2. ASSUME NEW i \in 1 .. Len(events'), NEW j \in 1 .. Len(events'), i < j,
                 events'[i] \in Failures
          PROVE  events'[j] # "load"
      <4>1. CASE events' = events
        BY <2>1, <3>2, <4>1 DEF FailInv
      <4>2. CASE e = "load" /\ j = Len(events) + 1 /\ Len(events') = Len(events) + 1
        <5>1. i \in 1 .. Len(events) /\ events[i] \in Failures
          BY <1>7, <3>2, <4>2
        <5>2. Seen(events[i])
          BY <1>7, <5>1 DEF Seen
        <5>3. ~xhr.errorFlag
          BY <1>2, <2>1, <4>2 DEF FailInv
        <5> QED BY <2>1, <5>1, <5>2, <5>3 DEF FailInv
      <4>3. CASE /\ j # Len(events) + 1 /\ Len(events') = Len(events) + 1
                 /\ \A n \in 1 .. Len(events) : events'[n] = events[n]
        <5>1. /\ i \in 1 .. Len(events) /\ j \in 1 .. Len(events)
              /\ events'[i] = events[i] /\ events'[j] = events[j]
          BY <1>7, <3>2, <4>3
        <5> QED BY <2>1, <3>2, <5>1 DEF FailInv
      <4>4. CASE e # "load" /\ j = Len(events) + 1 /\ events'[Len(events) + 1] = e
        BY <4>4
      <4> QED BY <1>7, <4>1, <4>2, <4>3, <4>4
    <3>3. InTodo("aborted")' => xhr.errorFlag
      BY <1>9, <2>1 DEF FailInv
    <3>4. Emits("load")' => ~xhr.errorFlag
      BY <1>10, <2>1 DEF FailInv
    <3> QED BY <2>1, <3>1, <3>2, <3>3, <3>4 DEF FailInv
  <2>5. OutcomeInv'
    <3>1. ASSUME NEW i \in 1 .. Len(events'), NEW j \in 1 .. Len(events'), i < j,
                 events'[i] \in {"load", "error"}
          PROVE  events'[j] # "timeout"
      <4>1. CASE events' = events
        BY <2>1, <3>1, <4>1 DEF OutcomeInv
      <4>2. CASE e = "timeout" /\ j = Len(events) + 1 /\ Len(events') = Len(events) + 1
        <5>1. i \in 1 .. Len(events) /\ events[i] \in {"load", "error"}
          BY <1>7, <3>1, <4>2
        <5>2. Seen(events[i])
          BY <1>7, <5>1 DEF Seen
        <5> QED BY <1>2, <2>1, <4>2, <5>1, <5>2 DEF OutcomeInv
      <4>3. CASE /\ j # Len(events) + 1 /\ Len(events') = Len(events) + 1
                 /\ \A n \in 1 .. Len(events) : events'[n] = events[n]
        <5>1. /\ i \in 1 .. Len(events) /\ j \in 1 .. Len(events)
              /\ events'[i] = events[i] /\ events'[j] = events[j]
          BY <1>7, <3>1, <4>3
        <5> QED BY <2>1, <3>1, <5>1 DEF OutcomeInv
      <4>4. CASE e # "timeout" /\ j = Len(events) + 1 /\ events'[Len(events) + 1] = e
        BY <4>4
      <4> QED BY <1>7, <4>1, <4>2, <4>3, <4>4
    <3>2. Seen("error")' \/ Emits("error")' => timers = {} /\ ~InTodo("create")'
      BY <1>2, <1>8, <1>9, <1>10, <2>1 DEF OutcomeInv
    <3>3. Emits("timeout")' =>
            ~Seen("load")' /\ ~Seen("error")' /\ ~Emits("load")' /\ ~Emits("error")'
      BY <1>2, <1>8, <1>10, <2>1 DEF OutcomeInv
    <3> QED BY <2>1, <3>1, <3>2, <3>3 DEF OutcomeInv
  <2> QED BY <2>2, <2>3, <2>4, <2>5
<1> QED BY <1>9, <1>11, <1>12, <1>13 DEF Inv

LEMMA Pair ==
  ASSUME NEW a \in StepType, NEW b \in StepType
  PROVE  /\ <<a, b>> \in Seq(StepType) /\ Len(<<a, b>>) = 2
         /\ <<a, b>>[1] = a /\ <<a, b>>[2] = b
         /\ \A i \in 1 .. Len(<<a, b>>) : \/ i = 1 /\ <<a, b>>[i] = a
                                          \/ i = 2 /\ <<a, b>>[i] = b
<1> DEFINE u == <<a, b>>
<1>1. u \in Seq(StepType) /\ Len(u) = 2 /\ u[1] = a /\ u[2] = b
  OBVIOUS
<1> HIDE DEF u
<1>2. \A i \in 1 .. Len(u) : \/ i = 1 /\ u[i] = a
                             \/ i = 2 /\ u[i] = b
  <2>1. \A i \in 1 .. Len(u) : i = 1 \/ i = 2
    BY <1>1
  <2> QED BY <1>1, <2>1
<1>3. /\ u \in Seq(StepType) /\ Len(u) = 2 /\ u[1] = a /\ u[2] = b
      /\ \A i \in 1 .. Len(u) : \/ i = 1 /\ u[i] = a
                                \/ i = 2 /\ u[i] = b
  BY <1>1, <1>2
<1> QED BY <1>3 DEF u

(* The events of the code, as steps. *)
LEMMA EmitFacts ==
  ASSUME NEW e \in Events
  PROVE  Emit(e) \in StepType /\ Emit(e).step = "emit" /\ Emit(e).event = e
BY StepsTyped DEF Emit

LEMMA SetStateDoneKeeps ==
  ASSUME Inv, SetStateDone
  PROVE  Inv'
<1> DEFINE loads == xhr.readyState = DONE /\ ~xhr.errorFlag
           two == <<Emit("load"), Emit("loadend")>>
           steps == IF loads THEN two ELSE <<>>
<1>1. /\ todo # <<>> /\ Head(todo).step = "setState" /\ Head(todo) = todo[1]
      /\ todo[1] \in StepType /\ 1 \in 1 .. Len(todo) /\ Len(todo) \in Nat
      /\ todo \in Seq(StepType) /\ <<>> \in Seq(StepType)
  BY Stack, Facts DEF SetStateDone, Doing, Inv
<1>2. /\ two \in Seq(StepType) /\ Len(two) = 2
      /\ \A i \in 1 .. Len(two) : \/ i = 1 /\ two[i] = Emit("load")
                                  \/ i = 2 /\ two[i] = Emit("loadend")
  <2>1. Emit("load") \in StepType /\ Emit("loadend") \in StepType
    BY EmitFacts DEF Events
  <2> QED BY <2>1, Pair
<1>3. /\ Emit("load").step = "emit" /\ Emit("load").event = "load"
      /\ Emit("loadend").step = "emit" /\ Emit("loadend").event = "loadend"
  BY EmitFacts DEF Events
<1>4. /\ UNCHANGED <<xhr, timers, conns, pending, called>> /\ events' = events
      /\ events' \in Seq(Events) /\ Then(steps)
  BY DEF SetStateDone, Inv, TypeOK
<1> HIDE DEF two
<1>5. Stacked(steps, 1)
  <2>1. steps \in Seq(StepType)
    BY <1>1, <1>2
  <2> QED BY <1>1, <1>4, <2>1, ThenStacks
<1>6. \A i \in 1 .. Len(steps) : steps[i].step = "emit"
  <2>1. \A i \in 1 .. Len(two) : two[i].step = "emit"
    BY <1>2, <1>3
  <2>2. \A i \in 1 .. Len(<<>>) : FALSE
    OBVIOUS
  <2>3. CASE loads
    BY <2>1, <2>3
  <2>4. CASE ~loads
    BY <2>2, <2>4
  <2> QED BY <2>3, <2>4
<1>7. /\ TypeOK' /\ ConnInv' /\ BaseInv'
      /\ \A s \in {"create", "ended", "data", "end", "aborted"} : InTodo(s)' => InTodo(s)
  BY <1>4, <1>5, <1>6, LightKeeps DEF Light
<1>8. LoadsOnce' /\ (Seen("load")' <=> Seen("load")) /\ xhr' = xhr
  BY <1>4 DEF Inv, LoadInv, LoadsOnce, Seen
<1>9. ~Emits("load")
  BY <1>1, LoadOnTop DEF Inv
<1>10. loads => Len(todo) = 2 /\ LastIs("ended") /\ ~Seen("load")
  <2>1. loads => 1 = Len(todo) - 1 /\ LastIs("ended") /\ ~Seen("load")
    BY <1>1 DEF Inv, LoadInv
  <2> QED BY <1>1, <2>1
<1>11. ASSUME loads
       PROVE  /\ Len(todo') = 3 /\ LastIs("ended")'
              /\ \A i \in 1 .. Len(todo') :
                   /\ todo'[i].step # "setState"
                   /\ todo'[i].step = "emit" => todo'[i].event # "timeout"
                   /\ todo'[i].step = "emit" => todo'[i].event \in {"load", "loadend"}
                   /\ todo'[i].step = "emit" /\ todo'[i].event = "load" => i = 1
  <2>1. Stacked(two, 1)
    BY <1>5, <1>11
  <2>2. Len(todo') = 3 /\ todo' \in Seq(StepType)
    BY <1>2, <1>10, <1>11, <2>1 DEF Stacked
  <2>3. todo'[1] = Emit("load") /\ todo'[2] = Emit("loadend")
    BY <1>2, <2>1 DEF Stacked
  <2>4. todo'[3] = todo[2] /\ todo[2].step = "ended"
    <3>1. 2 \in (1 + 1) .. Len(todo) /\ Len(two) = 2
      BY <1>2, <1>10, <1>11
    <3>2. todo'[2 + 2 - 1] = todo[2]
      BY <2>1, <3>1 DEF Stacked
    <3> QED BY <1>10, <1>11, <3>2 DEF LastIs
  <2>5. todo' # <<>>
    BY <2>2
  <2>6. \A i \in 1 .. Len(todo') : i = 1 \/ i = 2 \/ i = 3
    BY <2>2
  <2> QED BY <1>3, <2>2, <2>3, <2>4, <2>5, <2>6 DEF LastIs
<1>12. ASSUME ~loads
       PROVE  \A e : Emits(e)' => Emits(e)
  BY <1>5, <1>12, NamesKept
<1>13. LoadInv'
  <2>1. Seen("load") => xhr.readyState # OPENED
    BY DEF Inv, LoadInv
  <2>2. ASSUME loads
        PROVE  LoadInv'
    <3>1. xhr'.readyState # OPENED
      BY <1>8, <2>2 DEF DONE, OPENED
    <3>2. ~InTodo("setState")'
      BY <1>11, <2>2 DEF InTodo
    <3> QED BY <1>8, <1>10, <1>11, <2>2, <3>1, <3>2 DEF LoadInv
  <2>3. ASSUME ~loads
        PROVE  LoadInv'
    <3>1. Len(steps) = 0 /\ steps = <<>>
      BY <2>3
    <3>2. Seen("load")' /\ xhr'.sendFlag => LastIs("ended") /\ Len(todo) > 1
      BY <1>1, <1>8, LoadBelow DEF Inv
    <3>3. Seen("load")' => xhr'.readyState # OPENED
      BY <1>8, <2>1
    <3>4. LoadInv
      BY DEF Inv
    <3> QED BY <1>5, <1>8, <1>9, <2>3, <3>1, <3>2, <3>3, <3>4, LoadKept
  <2> QED BY <2>2, <2>3
<1>14. ASSUME ~nested'
       PROVE  TimerInv' /\ ResponseInv' /\ FailInv' /\ OutcomeInv'
  <2>1. /\ TimerInv /\ ResponseInv /\ FailInv /\ OutcomeInv
        /\ xhr' = xhr /\ timers' = timers /\ events' = events
    BY <1>4, <1>14 DEF Inv, called
  <2>2. CASE ~loads
    BY <1>7, <1>12, <2>1, <2>2, QuietKeeps
  <2>3. CASE loads
    <3>1. \A e : Seen(e)' <=> Seen(e)
      BY <2>1 DEF Seen
    <3>2. \A e : Emits(e)' => e \in {"load", "loadend"}
      BY <1>11, <2>3 DEF Emits
    <3>3. TimerInv'
      BY <1>7, <2>1 DEF TimerInv
    <3>4. ResponseInv'
      BY <1>7, <2>1 DEF ResponseInv
    <3>5. FailInv'
      BY <1>7, <2>1, <2>3, <3>1, <3>2 DEF FailInv, Failures
    <3>6. OutcomeInv'
      BY <1>7, <2>1, <3>1, <3>2 DEF OutcomeInv
    <3> QED BY <3>3, <3>4, <3>5, <3>6
  <2> QED BY <2>2, <2>3
<1> QED BY <1>7, <1>13, <1>14 DEF Inv
-----------------------------------------------------------------------------
(* handleError, whoever calls it. *)
FailSteps == {Changed, Marker, Emit("error"), Emit("loadend")}

LEMMA FailStepFacts ==
  \A s \in FailSteps :
    /\ s \in StepType /\ s.step \in Light
    /\ s.step = "emit" => s.event \in {"readystatechange", "error", "loadend"}
<1>1. "error" \in Events /\ "loadend" \in Events
  BY DEF Events
<1>2. Emit("error") \in StepType /\ Emit("loadend") \in StepType
  BY <1>1, EmitFacts
<1>3. /\ Emit("error").step = "emit" /\ Emit("error").event = "error"
      /\ Emit("loadend").step = "emit" /\ Emit("loadend").event = "loadend"
  BY <1>1, EmitFacts
<1> QED BY <1>2, <1>3, MarkerFacts DEF FailSteps, Light

LEMMA HandleErrorFacts ==
  ASSUME NEW x
  PROVE  /\ HandleError(x) \in Seq(StepType)
         /\ \A i \in 1 .. Len(HandleError(x)) : HandleError(x)[i] \in FailSteps
<1>1. Emit("error") \in StepType /\ Emit("loadend") \in StepType
  BY EmitFacts DEF Events
<1>2. HandleError(x) = SetState(x, DONE) \o <<Emit("error"), Emit("loadend")>>
  BY DEF HandleError
<1>3. /\ HandleError(x) \in Seq(StepType)
      /\ \A i \in 1 .. Len(HandleError(x)) :
           HandleError(x)[i] \in {Changed, Marker, Emit("error"), Emit("loadend")}
  <2> DEFINE u == HandleError(x)
             a == Emit("error")
             b == Emit("loadend")
  <2>1. a \in StepType /\ b \in StepType /\ u = SetState(x, DONE) \o <<a, b>>
    BY <1>1, <1>2
  <2> HIDE DEF u, a, b
  <2>2. u \in Seq(StepType) /\ \A i \in 1 .. Len(u) : u[i] \in {Changed, Marker, a, b}
    BY <2>1, SetStateThenTwo
  <2> QED BY <2>2 DEF u, a, b
<1> QED BY <1>3 DEF FailSteps

LEMMA FailKeeps ==
  ASSUME Inv, NEW steps, NEW k \in {0, 1}, Stacked(steps, k),
         \A i \in 1 .. Len(steps) : steps[i] \in FailSteps,
         xhr'.readyState = DONE, xhr'.errorFlag = TRUE, xhr'.sendFlag = xhr.sendFlag,
         timers' = timers \ {xhr.timer}, events' = events,
         ~nested' => ~nested /\ Len(todo) = k,
         ~Emits("load"), Seen("load") /\ xhr.sendFlag => LastIs("ended") /\ Len(todo) > k
  PROVE  /\ BaseInv' /\ LoadInv'
         /\ ~nested' => TimerInv' /\ ResponseInv' /\ FailInv' /\ OutcomeInv'
<1>1. \A i \in 1 .. Len(steps) :
        /\ steps[i].step \in Light
        /\ steps[i].step = "emit" => steps[i].event \in {"readystatechange", "error", "loadend"}
  BY FailStepFacts
<1>2. BaseInv'
  <2>1. \A i \in 1 .. Len(steps) :
          steps[i].step \notin BaseSteps \cup {"create", "aborted", "data"}
    BY <1>1, LightNames
  <2> QED BY <2>1, BaseKept DEF Inv
<1>3. \A e : Seen(e)' <=> Seen(e)
  BY DEF Seen
<1>4. LoadInv'
  <2>1. LoadsOnce'
    BY DEF Inv, LoadInv, LoadsOnce
  <2>2. \A i \in 1 .. Len(steps) : ~(steps[i].step = "emit" /\ steps[i].event = "load")
    BY <1>1
  <2>3. Seen("load")' /\ xhr'.sendFlag => LastIs("ended") /\ Len(todo) > k
    BY <1>3
  <2>4. Seen("load")' => xhr'.readyState # OPENED
    BY DEF OPENED, DONE
  <2>5. LoadInv /\ (Seen("load")' => Seen("load"))
    BY <1>3 DEF Inv
  <2> QED BY <2>1, <2>2, <2>3, <2>4, <2>5, LoadKept
<1>5. ASSUME ~nested'
      PROVE  TimerInv' /\ ResponseInv' /\ FailInv' /\ OutcomeInv'
  <2>1. TimerInv /\ ResponseInv /\ FailInv /\ OutcomeInv /\ Len(todo) = k
    BY <1>5 DEF Inv
  <2>2. timers' = {}
    BY <2>1 DEF TimerInv
  <2>3. \A s \in {"create", "ended", "data", "end", "aborted"} : ~InTodo(s)'
    BY <1>1, <2>1, NamesOnly DEF Light
  <2>4. \A e : Emits(e)' => e \in {"readystatechange", "error", "loadend"}
    BY <1>1, <2>1, NamesOnly
  <2>5. TimerInv'
    BY <2>2, <2>3 DEF TimerInv, DONE, OPENED
  <2>6. ResponseInv'
    BY <2>3 DEF ResponseInv
  <2>7. FailInv'
    <3>1. xhr'.readyState # OPENED /\ xhr'.errorFlag
      BY DEF DONE, OPENED
    <3>2. ~Emits("load")'
      BY <2>4
    <3> QED BY <1>3, <2>1, <3>1, <3>2 DEF FailInv
  <2>8. OutcomeInv'
    BY <1>3, <2>1, <2>2, <2>3, <2>4 DEF OutcomeInv
  <2> QED BY <2>5, <2>6, <2>7, <2>8
<1> QED BY <1>2, <1>4, <1>5

(* A step that is not a load and not the end of an answer. *)
LEMMA OtherTop ==
  ASSUME Inv, todo # <<>> => Head(todo).step \notin {"emit", "ended"}
  PROVE  /\ ~Emits("load")
         /\ Seen("load") /\ xhr.sendFlag => LastIs("ended") /\ Len(todo) > 1
         /\ Seen("load") => xhr.readyState # OPENED
<1>1. ~Emits("load")
  BY LoadOnTop DEF Inv
<1>2. Seen("load") /\ xhr.sendFlag => LastIs("ended") /\ Len(todo) > 1
  BY LoadBelow DEF Inv
<1>3. Seen("load") => xhr.readyState # OPENED
  BY DEF Inv, LoadInv
<1> QED BY <1>1, <1>2, <1>3

LEMMA FailedFacts ==
  ASSUME TypeOK
  PROVE  /\ Failed(xhr) \in XhrType
         /\ Failed(xhr).readyState = DONE /\ Failed(xhr).errorFlag = TRUE
         /\ Failed(xhr).sendFlag = xhr.sendFlag
<1>1. xhr \in XhrType
  BY Facts
<1>2. DONE \in UNSENT .. DONE /\ 0 \in 0 .. MaxConns
  BY XhrAssumption DEF UNSENT, DONE
<1> QED BY <1>1, <1>2 DEF Failed, XhrType

(* An entry of conns that only changes its phase. *)
LEMMA PhaseFacts ==
  ASSUME TypeOK, NEW c, NEW p \in {"new", "open", "over", "lost"},
         conns' = [conns EXCEPT ![c].phase = p]
  PROVE  /\ conns' \in Seq(Conn) /\ Len(conns') = Len(conns)
         /\ \A d \in 1 .. Len(conns) : conns'[d].hop = conns[d].hop
<1>1. conns \in Seq(Conn)
  BY DEF TypeOK
<1>2. Len(conns) \in Nat /\ DOMAIN conns = 1 .. Len(conns)
  BY <1>1
<1>3. CASE c \in 1 .. Len(conns)
  <2> DEFINE e == [conns[c] EXCEPT !.phase = p]
  <2>1. conns[c] \in Conn
    BY <1>1, <1>3, ElementOfSeq
  <2>2. e \in Conn /\ e.hop = conns[c].hop
    BY <2>1 DEF Conn
  <2>3. conns' = [conns EXCEPT ![c] = e]
    BY <1>2, <1>3
  <2> HIDE DEF e
  <2>4. /\ conns' \in Seq(Conn) /\ Len(conns') = Len(conns)
        /\ \A d \in 1 .. Len(conns) : conns'[d] = IF c = d THEN e ELSE conns[d]
    BY <1>1, <1>3, <2>2, <2>3, ExceptSeq
  <2> QED BY <2>2, <2>4
<1>4. CASE c \notin 1 .. Len(conns)
  <2>1. conns' = conns
    BY <1>1, <1>2, <1>4
  <2> QED BY <1>1, <2>1
<1> QED BY <1>3, <1>4

LEMMA CreateFailsKeeps ==
  ASSUME Inv, NEW c \in ConnId, CreateFails(c)
  PROVE  Inv'
<1> DEFINE steps == HandleError(xhr)
<1>1. /\ todo # <<>> /\ Head(todo) = Step("create", c) /\ Then(steps)
      /\ xhr' = Failed(xhr) /\ timers' = timers \ {xhr.timer}
      /\ conns' = [conns EXCEPT ![c].phase = "over"]
      /\ pending' = pending /\ events' = events /\ UNCHANGED called
  BY DEF CreateFails, AtStep
<1>2. Head(todo).step = "create"
  BY <1>1, StepParts
<1>3. steps \in Seq(StepType) /\ \A i \in 1 .. Len(steps) : steps[i] \in FailSteps
  BY HandleErrorFacts
<1> HIDE DEF steps
<1>4. Stacked(steps, 1)
  BY <1>1, <1>3, Facts, ThenStacks DEF Inv
<1>5. /\ conns' \in Seq(Conn) /\ Len(conns') = Len(conns)
      /\ \A d \in 1 .. Len(conns) : conns'[d].hop = conns[d].hop
  BY <1>1, PhaseFacts DEF Inv
<1>6. TypeOK'
  <2>1. todo' \in Seq(StepType) /\ xhr' \in XhrType
    BY <1>1, <1>4, FailedFacts DEF Stacked, Inv
  <2> QED BY <1>1, <1>5, <2>1 DEF Inv, TypeOK, StepType, XhrType, called
<1>7. ConnInv'
  <2>1. \A i \in 1 .. Len(steps) : steps[i].step \notin Answers \cup {"create"}
    BY <1>3, FailStepFacts DEF Light, Answers
  <2> QED BY <1>1, <1>4, <1>5, <2>1, ConnSame DEF Inv
<1>8. ~nested' => ~nested /\ Len(todo) = 1
  BY <1>1, <1>2, BaseTop DEF Inv, called
<1>9. /\ ~Emits("load")
      /\ Seen("load") /\ xhr.sendFlag => LastIs("ended") /\ Len(todo) > 1
  BY <1>2, OtherTop
<1>10. /\ xhr'.readyState = DONE /\ xhr'.errorFlag = TRUE
       /\ xhr'.sendFlag = xhr.sendFlag
  BY <1>1, FailedFacts DEF Inv
<1> QED BY <1>1, <1>3, <1>4, <1>6, <1>7, <1>8, <1>9, <1>10, FailKeeps DEF Inv

LEMMA ErrorKeeps ==
  ASSUME Inv, NEW c \in ConnId, Error(c)
  PROVE  Inv'
<1> DEFINE steps == HandleError(xhr)
<1>1. /\ todo # <<>> /\ Head(todo) \in {Step("error", c), Step("abort", c)} /\ Then(steps)
      /\ xhr' = Failed(xhr) /\ timers' = timers \ {xhr.timer}
      /\ conns' = conns /\ pending' = pending /\ events' = events /\ UNCHANGED called
  BY DEF Error, AtStep
<1>2. Head(todo).step \in {"error", "abort"}
  BY <1>1, StepParts
<1>3. steps \in Seq(StepType) /\ \A i \in 1 .. Len(steps) : steps[i] \in FailSteps
  BY HandleErrorFacts
<1> HIDE DEF steps
<1>4. Stacked(steps, 1)
  BY <1>1, <1>3, Facts, ThenStacks DEF Inv
<1>5. Len(conns') = Len(conns) /\ \A d \in 1 .. Len(conns) : conns'[d].hop = conns[d].hop
  BY <1>1
<1>6. TypeOK'
  <2>1. todo' \in Seq(StepType) /\ xhr' \in XhrType
    BY <1>1, <1>4, FailedFacts DEF Stacked, Inv
  <2> QED BY <1>1, <2>1 DEF Inv, TypeOK, StepType, XhrType, called
<1>7. ConnInv'
  <2>1. \A i \in 1 .. Len(steps) : steps[i].step \notin Answers \cup {"create"}
    BY <1>3, FailStepFacts DEF Light, Answers
  <2> QED BY <1>1, <1>4, <1>5, <2>1, ConnSame DEF Inv
<1>8. ~nested' => ~nested /\ Len(todo) = 1
  BY <1>1, <1>2, BaseTop DEF Inv, called, BaseSteps, Answers
<1>9. /\ ~Emits("load")
      /\ Seen("load") /\ xhr.sendFlag => LastIs("ended") /\ Len(todo) > 1
  BY <1>2, OtherTop
<1>10. /\ xhr'.readyState = DONE /\ xhr'.errorFlag = TRUE
       /\ xhr'.sendFlag = xhr.sendFlag
  BY <1>1, FailedFacts DEF Inv
<1> QED BY <1>1, <1>3, <1>4, <1>6, <1>7, <1>8, <1>9, <1>10, FailKeeps DEF Inv

(* What a call of the script finds. *)
LEMMA ScriptFacts ==
  ASSUME Inv, ScriptRuns, Called
  PROVE  /\ todo \in Seq(StepType) /\ calls' \in 0 .. MaxCalls /\ nested' \in BOOLEAN
         /\ ~nested' => ~nested /\ todo = <<>> /\ Len(todo) = 0
         /\ ~Emits("load") /\ (Seen("load") => xhr.readyState # OPENED)
         /\ Seen("load") /\ xhr.sendFlag => LastIs("ended") /\ Len(todo) > 0
<1>1. todo # <<>> => Head(todo).step = "listener"
  BY DEF ScriptRuns, Doing
<1>2. todo \in Seq(StepType)
  BY Facts DEF Inv
<1>3. calls' \in 0 .. MaxCalls
  <2>1. calls \in 0 .. MaxCalls /\ calls < MaxCalls /\ calls' = calls + 1 /\ MaxCalls \in Nat
    BY XhrAssumption DEF Inv, TypeOK, ScriptRuns, Called
  <2> QED BY ONLY <2>1
<1>4. nested' \in BOOLEAN
  BY DEF Inv, TypeOK, Called
<1>5. ~nested' => ~nested /\ todo = <<>> /\ Len(todo) = 0
  BY DEF Called
<1>6. /\ ~Emits("load") /\ (Seen("load") => xhr.readyState # OPENED)
      /\ Seen("load") /\ xhr.sendFlag => LastIs("ended") /\ Len(todo) > 1
  BY <1>1, OtherTop
<1>7. LastIs("ended") => Len(todo) > 0
  BY <1>2 DEF LastIs
<1> QED BY <1>2, <1>3, <1>4, <1>5, <1>6, <1>7

LEMMA SendBadUrlKeeps ==
  ASSUME Inv, SendBadUrl
  PROVE  Inv'
<1> DEFINE steps == HandleError(xhr)
<1>1. /\ ScriptRuns /\ Called /\ Calling(steps)
      /\ xhr' = Failed(xhr) /\ timers' = timers \ {xhr.timer}
      /\ conns' = conns /\ pending' = pending /\ events' = events
  BY DEF SendBadUrl, CanSend
<1>2. steps \in Seq(StepType) /\ \A i \in 1 .. Len(steps) : steps[i] \in FailSteps
  BY HandleErrorFacts
<1> HIDE DEF steps
<1>3. Stacked(steps, 0)
  BY <1>1, <1>2, Facts, CallStacks DEF Inv
<1>4. Len(conns') = Len(conns) /\ \A d \in 1 .. Len(conns) : conns'[d].hop = conns[d].hop
  BY <1>1
<1>5. /\ calls' \in 0 .. MaxCalls /\ nested' \in BOOLEAN
      /\ ~nested' => ~nested /\ Len(todo) = 0
      /\ ~Emits("load")
      /\ Seen("load") /\ xhr.sendFlag => LastIs("ended") /\ Len(todo) > 0
  BY <1>1, ScriptFacts
<1>6. TypeOK'
  <2>1. todo' \in Seq(StepType) /\ xhr' \in XhrType
    BY <1>1, <1>3, FailedFacts DEF Stacked, Inv
  <2> QED BY <1>1, <1>5, <2>1 DEF Inv, TypeOK, StepType, XhrType
<1>7. ConnInv'
  <2>1. \A i \in 1 .. Len(steps) : steps[i].step \notin Answers \cup {"create"}
    BY <1>2, FailStepFacts DEF Light, Answers
  <2> QED BY <1>1, <1>3, <1>4, <2>1, ConnSame DEF Inv
<1>8. /\ xhr'.readyState = DONE /\ xhr'.errorFlag = TRUE
      /\ xhr'.sendFlag = xhr.sendFlag
  BY <1>1, FailedFacts DEF Inv
<1> QED BY <1>1, <1>2, <1>3, <1>5, <1>6, <1>7, <1>8, FailKeeps DEF Inv

(* A request for a redirection, one hop further than the one answered. *)
LEMMA HopFacts ==
  ASSUME TypeOK, ConnInv, NEW c \in 1 .. Len(conns), NEW n,
         n = [conns[c] EXCEPT !.phase = "open", !.hop = @ + 1],
         conns[c].hop < MaxRedirects, Len(conns) < MaxConns, conns' = Append(conns, n)
  PROVE  /\ conns' \in Seq(Conn) /\ Len(conns') = Len(conns) + 1 /\ Len(conns') <= MaxConns
         /\ \A d \in 1 .. Len(conns') : conns'[d].hop <= MaxRedirects
<1>1. conns \in Seq(Conn) /\ MaxRedirects \in Nat /\ MaxConns \in Nat
  BY XhrAssumption DEF TypeOK
<1>2. conns[c] \in Conn
  BY <1>1, ElementOfSeq
<1>3. n \in Conn /\ n.hop = conns[c].hop + 1 /\ conns[c].hop \in Nat
  <2>1. conns[c].hop \in Nat /\ conns[c].aborted \in BOOLEAN
    BY <1>2 DEF Conn
  <2>2. n = [phase |-> "open", hop |-> conns[c].hop + 1, aborted |-> conns[c].aborted]
    BY <1>2 DEF Conn
  <2>3. conns[c].hop + 1 \in Nat
    BY <2>1
  <2> QED BY ONLY <2>1, <2>2, <2>3 DEF Conn
<1>4. n.hop <= MaxRedirects
  BY <1>1, <1>3
<1>5. /\ conns' \in Seq(Conn) /\ Len(conns') = Len(conns) + 1 /\ Len(conns) \in Nat
      /\ conns'[Len(conns) + 1] = n
      /\ \A d \in 1 .. Len(conns) : conns'[d] = conns[d]
  BY <1>1, <1>3
<1>6. Len(conns') <= MaxConns
  BY <1>1, <1>5
<1>7. ASSUME NEW d \in 1 .. Len(conns')
      PROVE  conns'[d].hop <= MaxRedirects
  <2>1. CASE d \in 1 .. Len(conns)
    BY <1>5, <2>1 DEF ConnInv
  <2>2. CASE d \notin 1 .. Len(conns)
    <3>1. d = Len(conns) + 1
      BY <1>5, <2>2
    <3> QED BY <1>4, <1>5, <3>1
  <2> QED BY <2>1, <2>2
<1> QED BY <1>5, <1>6, <1>7
-----------------------------------------------------------------------------
(* The tasks of the main loop. *)
LEMMA TaskFacts ==
  ASSUME Inv, NEW s \in BaseSteps \cup {"data"}, NEW c, todo # <<>>, Head(todo) = Step(s, c)
  PROVE  /\ todo[1].step = s /\ todo[1].conn = c /\ 1 \in 1 .. Len(todo)
         /\ todo \in Seq(StepType) /\ <<>> \in Seq(StepType)
         /\ s \in BaseSteps => Len(todo) = 1
         /\ s \in Answers => c \in 1 .. Len(conns)
         /\ InTodo(s) /\ ~Emits("load") /\ (Seen("load") => xhr.readyState # OPENED)
         /\ s # "ended" /\ Seen("load") /\ xhr.sendFlag =>
              LastIs("ended") /\ Len(todo) > 1
<1>1. /\ todo[1].step = s /\ todo[1].conn = c /\ 1 \in 1 .. Len(todo)
      /\ todo \in Seq(StepType) /\ <<>> \in Seq(StepType) /\ Head(todo).step = s
  <2>1. Head(todo).step = s /\ Head(todo).conn = c
    BY StepParts
  <2>2. todo \in Seq(StepType) /\ <<>> \in Seq(StepType)
    BY Facts DEF Inv
  <2>3. 1 \in 1 .. Len(todo) /\ Head(todo) = todo[1]
    BY Stack DEF Inv
  <2> QED BY <2>1, <2>2, <2>3
<1>2. s # "emit"
  BY DEF BaseSteps, Answers
<1>3. s \in BaseSteps => Len(todo) = 1
  BY <1>1, BaseTop DEF Inv
<1>4. s \in Answers => c \in 1 .. Len(conns)
  BY <1>1 DEF Inv, ConnInv
<1>5. ~Emits("load")
  BY <1>1, <1>2, LoadOnTop DEF Inv
<1>6. Seen("load") => xhr.readyState # OPENED
  BY DEF Inv, LoadInv
<1>7. s # "ended" /\ Seen("load") /\ xhr.sendFlag => LastIs("ended") /\ Len(todo) > 1
  BY <1>1, LoadBelow DEF Inv
<1>8. InTodo(s)
  BY <1>1 DEF InTodo
<1> QED BY <1>1, <1>3, <1>4, <1>5, <1>6, <1>7, <1>8

LEMMA CalmKeeps ==
  ASSUME FailInv, OutcomeInv, events' = events, timers' \subseteq timers,
         \A e \in Events : ~Emits(e)', ~InTodo("create")', ~InTodo("aborted")',
         xhr.errorFlag => xhr'.errorFlag,
         xhr.readyState # OPENED => xhr'.readyState # OPENED
  PROVE  FailInv' /\ OutcomeInv'
<1>1. \A e : Seen(e)' <=> Seen(e)
  BY DEF Seen
<1>2. Failures \subseteq Events /\ {"load", "error", "timeout"} \subseteq Events
  BY DEF Failures, Events
<1>3. FailInv'
  BY <1>1, <1>2 DEF FailInv
<1>4. OutcomeInv'
  BY <1>1, <1>2 DEF OutcomeInv
<1> QED BY <1>3, <1>4

LEMMA RedirectFollows ==
  ASSUME Inv, NEW c \in ConnId, AtStep("redirect", c), Then(<<>>),
         conns[c].hop < MaxRedirects, Len(conns) < MaxConns,
         xhr' = [xhr EXCEPT !.timer = 0, !.response = c, !.request = Len(conns) + 1],
         conns' = Append(conns, [conns[c] EXCEPT !.phase = "open", !.hop = @ + 1]),
         timers' = timers \ {xhr.timer}, UNCHANGED <<pending, events, called>>
  PROVE  Inv'
<1>1. todo # <<>> /\ Head(todo) = Step("redirect", c) /\ "redirect" \in BaseSteps \cup {"data"}
  BY DEF AtStep, BaseSteps, Answers
<1>2. /\ todo \in Seq(StepType) /\ <<>> \in Seq(StepType) /\ Len(todo) = 1
      /\ c \in 1 .. Len(conns) /\ ~Emits("load")
      /\ Seen("load") => xhr.readyState # OPENED
      /\ Seen("load") /\ xhr.sendFlag => LastIs("ended") /\ Len(todo) > 1
  BY <1>1, TaskFacts DEF BaseSteps, Answers
<1>3. Stacked(<<>>, 1) /\ todo' = <<>>
  <2>1. Stacked(<<>>, 1)
    BY <1>1, <1>2, ThenStacks
  <2>2. todo' \in Seq(StepType) /\ Len(todo') = 0
    BY <1>2, <2>1 DEF Stacked
  <2> QED BY <2>1, <2>2
<1>4. /\ conns' \in Seq(Conn) /\ Len(conns') = Len(conns) + 1 /\ Len(conns') <= MaxConns
      /\ \A d \in 1 .. Len(conns') : conns'[d].hop <= MaxRedirects
  BY <1>2, HopFacts DEF Inv
<1>5. /\ xhr' \in XhrType /\ xhr'.readyState = xhr.readyState
      /\ xhr'.sendFlag = xhr.sendFlag /\ xhr'.errorFlag = xhr.errorFlag
      /\ xhr'.response = c
  <2>1. xhr \in XhrType /\ Len(conns) \in Nat /\ MaxConns \in Nat
    BY Facts DEF Inv
  <2>2. c \in 0 .. MaxConns /\ 0 \in 0 .. MaxConns /\ Len(conns) + 1 \in 0 .. MaxConns
    BY <2>1 DEF ConnId
  <2> QED BY <2>1, <2>2 DEF XhrType
<1>6. TypeOK'
  <2>1. todo' \in Seq(StepType)
    BY <1>2, <1>3
  <2> QED BY <1>4, <1>5, <2>1 DEF Inv, TypeOK, StepType, XhrType, called
<1>7. ConnInv'
  <2>1. /\ Len(conns) \in Nat /\ MaxConns \in Nat
        /\ pending \in Seq([step : Answers, conn : ConnId, event : {""}])
    BY Facts DEF Inv
  <2>4. \A n \in Nat : n + 1 \in Nat /\ n + 1 >= n
    OBVIOUS
  <2>2. Len(conns') \in Nat /\ Len(conns') >= Len(conns)
    BY ONLY <1>4, <2>1, <2>4
  <2>3. \A i \in 1 .. Len(<<>>) : FALSE
    OBVIOUS
  <2> QED BY <1>3, <1>4, <2>1, <2>2, <2>3, ConnKept DEF Inv
<1>8. BaseInv'
  BY <1>3 DEF BaseInv
<1>9. LoadInv'
  <2>1. LoadsOnce' /\ (Seen("load")' <=> Seen("load")) /\ LoadInv
    BY DEF Inv, LoadInv, LoadsOnce, Seen
  <2> QED BY <1>2, <1>3, <1>5, <2>1, LoadKept
<1>10. ASSUME ~nested'
       PROVE  TimerInv' /\ ResponseInv' /\ FailInv' /\ OutcomeInv'
  <2>1. TimerInv /\ ResponseInv /\ FailInv /\ OutcomeInv
    BY <1>10 DEF Inv, called
  <2>2. timers' = {}
    BY <2>1 DEF TimerInv
  <2>3. (\A s : ~InTodo(s)') /\ (\A e : ~Emits(e)')
    BY <1>3 DEF InTodo, Emits
  <2>4. TimerInv'
    BY <2>2, <2>3 DEF TimerInv
  <2>5. ResponseInv'
    <3>1. c # 0
      BY DEF ConnId
    <3> QED BY <1>5, <2>3, <3>1 DEF ResponseInv
  <2>6. FailInv' /\ OutcomeInv'
    BY <1>5, <2>1, <2>2, <2>3, CalmKeeps
  <2> QED BY <2>4, <2>5, <2>6
<1> QED BY <1>6, <1>7, <1>8, <1>9, <1>10 DEF Inv

LEMMA RedirectFails ==
  ASSUME Inv, NEW c \in ConnId, AtStep("redirect", c), Then(HandleError(xhr)),
         xhr' = [Failed(xhr) EXCEPT !.response = c],
         timers' = timers \ {xhr.timer}, UNCHANGED <<conns, pending, events, called>>
  PROVE  Inv'
<1> DEFINE steps == HandleError(xhr)
<1>1. todo # <<>> /\ Head(todo) = Step("redirect", c) /\ "redirect" \in BaseSteps \cup {"data"}
  BY DEF AtStep, BaseSteps, Answers
<1>2. todo \in Seq(StepType) /\ Len(todo) = 1 /\ Head(todo).step = "redirect"
  BY <1>1, TaskFacts, StepParts DEF BaseSteps, Answers
<1>3. /\ steps \in Seq(StepType) /\ \A i \in 1 .. Len(steps) : steps[i] \in FailSteps
  BY HandleErrorFacts
<1>4. Then(steps)
  OBVIOUS
<1> HIDE DEF steps
<1>5. Stacked(steps, 1)
  BY <1>1, <1>2, <1>3, <1>4, ThenStacks
<1>6. /\ xhr' \in XhrType /\ xhr'.readyState = DONE /\ xhr'.errorFlag = TRUE
      /\ xhr'.sendFlag = xhr.sendFlag
  <2>1. c \in 0 .. MaxConns
    BY XhrAssumption DEF ConnId
  <2>2. /\ Failed(xhr) \in XhrType /\ Failed(xhr).readyState = DONE
        /\ Failed(xhr).errorFlag = TRUE /\ Failed(xhr).sendFlag = xhr.sendFlag
    BY FailedFacts DEF Inv
  <2> QED BY <2>1, <2>2 DEF XhrType
<1>7. TypeOK'
  <2>1. todo' \in Seq(StepType)
    BY <1>5 DEF Stacked
  <2> QED BY <1>6, <2>1 DEF Inv, TypeOK, StepType, XhrType, called
<1>8. ConnInv'
  <2>1. \A i \in 1 .. Len(steps) : steps[i].step \notin Answers \cup {"create"}
    BY <1>3, FailStepFacts DEF Light, Answers
  <2>2. Len(conns') = Len(conns) /\ \A d \in 1 .. Len(conns) : conns'[d].hop = conns[d].hop
    OBVIOUS
  <2> QED BY <1>5, <2>1, <2>2, ConnSame DEF Inv
<1>9. /\ ~Emits("load")
      /\ Seen("load") /\ xhr.sendFlag => LastIs("ended") /\ Len(todo) > 1
  BY <1>2, OtherTop
<1>10. ~nested' => ~nested /\ Len(todo) = 1
  BY <1>2 DEF called
<1> QED BY <1>3, <1>5, <1>6, <1>7, <1>8, <1>9, <1>10, FailKeeps DEF Inv

LEMMA RedirectKeeps ==
  ASSUME Inv, NEW c \in ConnId, Redirect(c)
  PROVE  Inv'
BY RedirectFollows, RedirectFails DEF Redirect

(* The invariant of conns, when they stay as they are. *)
LEMMA ConnUnchanged ==
  ASSUME Inv, NEW steps, NEW k \in {0, 1}, Stacked(steps, k),
         \A i \in 1 .. Len(steps) : steps[i].step \notin Answers \cup {"create"},
         UNCHANGED <<conns, pending>>
  PROVE  ConnInv'
<1>1. Len(conns') = Len(conns) /\ \A d \in 1 .. Len(conns) : conns'[d].hop = conns[d].hop
  OBVIOUS
<1> QED BY <1>1, ConnSame DEF Inv

LEMMA ResponseKeeps ==
  ASSUME Inv, NEW c \in ConnId, Response(c)
  PROVE  Inv'
<1> DEFINE last == Step("status", c)
           steps == SetState(xhr, HEADERS_RECEIVED) \o <<last>>
<1>1. /\ todo # <<>> /\ Head(todo) = Step("response", c) /\ Then(steps)
      /\ xhr' = [xhr EXCEPT !.timer = 0, !.response = c, !.readyState = HEADERS_RECEIVED]
      /\ timers' = timers \ {xhr.timer} /\ UNCHANGED <<conns, pending, events, called>>
  BY DEF Response, AtStep
<1>2. /\ todo \in Seq(StepType) /\ Len(todo) = 1 /\ ~Emits("load")
      /\ Seen("load") => xhr.readyState # OPENED
      /\ Seen("load") /\ xhr.sendFlag => LastIs("ended") /\ Len(todo) > 1
  BY <1>1, TaskFacts DEF BaseSteps, Answers
<1>3. last \in StepType /\ last.step = "status"
  <2>1. c \in 0 .. MaxConns /\ "status" \in Steps
    BY XhrAssumption DEF ConnId, Steps
  <2> QED BY <2>1, StepsTyped, StepParts
<1> HIDE DEF last
<1>4. /\ steps \in Seq(StepType) /\ Len(steps) \in {1, 3} /\ steps[Len(steps)] = last
      /\ \A i \in 1 .. Len(steps) : \/ steps[i] = Changed
                                    \/ steps[i] = Marker /\ i = Len(steps) - 1
                                    \/ steps[i] = last /\ i = Len(steps)
  <2>1. steps = SetState(xhr, HEADERS_RECEIVED) \o <<last>>
    OBVIOUS
  <2> HIDE DEF steps
  <2>2. steps \in Seq(StepType)
    BY ONLY <1>3, <2>1, SetStateThenOne
  <2>3. Len(steps) \in {1, 3}
    BY ONLY <1>3, <2>1, SetStateThenOne
  <2>4. steps[Len(steps)] = last
    BY ONLY <1>3, <2>1, SetStateThenOne
  <2> QED BY <1>3, <2>1, <2>2, <2>3, <2>4, SetStateThenOne
<1> HIDE DEF steps
<1>5. Stacked(steps, 1)
  BY <1>1, <1>2, <1>4, ThenStacks
<1>6. \A i \in 1 .. Len(steps) :
        /\ steps[i].step \in {"emit", "setState", "status"}
        /\ steps[i].step = "status" => i = Len(steps)
        /\ steps[i].step = "emit" => steps[i].event = "readystatechange"
  BY <1>3, <1>4, MarkerFacts
<1>7. /\ xhr' \in XhrType /\ xhr'.readyState = HEADERS_RECEIVED /\ xhr'.response = c
      /\ xhr'.sendFlag = xhr.sendFlag /\ xhr'.errorFlag = xhr.errorFlag
  <2>1. xhr \in XhrType
    BY Facts DEF Inv
  <2>2. c \in 0 .. MaxConns /\ 0 \in 0 .. MaxConns /\ HEADERS_RECEIVED \in UNSENT .. DONE
    BY XhrAssumption DEF ConnId, HEADERS_RECEIVED, UNSENT, DONE
  <2> QED BY <1>1, <2>1, <2>2 DEF XhrType
<1>8. TypeOK'
  <2>1. todo' \in Seq(StepType)
    BY <1>5 DEF Stacked
  <2> QED BY <1>1, <1>7, <2>1 DEF Inv, TypeOK, StepType, XhrType, called
<1>9. ConnInv'
  <2>1. \A i \in 1 .. Len(steps) : steps[i].step \notin Answers \cup {"create"}
    BY <1>6 DEF Answers
  <2> QED BY <1>1, <1>5, <2>1, ConnUnchanged
<1>10. BaseInv'
  BY <1>1, <1>2, <1>5, <1>6, BaseKept DEF Inv, BaseSteps, Answers, called
<1>11. LoadInv'
  <2>1. LoadsOnce' /\ (Seen("load")' <=> Seen("load")) /\ LoadInv
    BY <1>1 DEF Inv, LoadInv, LoadsOnce, Seen
  <2>2. \A i \in 1 .. Len(steps) : ~(steps[i].step = "emit" /\ steps[i].event = "load")
    BY <1>6
  <2>3. xhr'.readyState # OPENED /\ xhr'.readyState # DONE
    BY <1>7 DEF HEADERS_RECEIVED, OPENED, DONE
  <2>4. Seen("load")' /\ xhr'.sendFlag => LastIs("ended") /\ Len(todo) > 1
    BY <1>2, <1>7, <2>1
  <2> QED BY <1>2, <1>5, <2>1, <2>2, <2>3, <2>4, LoadKept
<1>12. ASSUME ~nested'
       PROVE  TimerInv' /\ ResponseInv' /\ FailInv' /\ OutcomeInv'
  <2>1. TimerInv /\ ResponseInv /\ FailInv /\ OutcomeInv
    BY <1>1, <1>12 DEF Inv, called
  <2>2. timers' = {}
    BY <1>1, <2>1 DEF TimerInv
  <2>3. /\ \A s \in {"create", "ended", "data", "end", "aborted"} : ~InTodo(s)'
        /\ \A e : Emits(e)' => e = "readystatechange"
    BY <1>2, <1>5, <1>6, NamesOnly
  <2>4. \A e \in Events : ~Emits(e)'
    BY <2>3 DEF Events
  <2>5. TimerInv'
    BY <2>2, <2>3 DEF TimerInv
  <2>6. ResponseInv'
    <3>1. c # 0
      BY DEF ConnId
    <3> QED BY <1>7, <2>3, <3>1 DEF ResponseInv
  <2>7. FailInv' /\ OutcomeInv'
    <3>1. xhr'.readyState # OPENED
      BY <1>7 DEF HEADERS_RECEIVED, OPENED
    <3>2. events' = events /\ timers' \subseteq timers
      BY <1>1
    <3> QED BY <1>7, <2>1, <2>3, <2>4, <3>1, <3>2, CalmKeeps
  <2> QED BY <2>5, <2>6, <2>7
<1> QED BY <1>8, <1>9, <1>10, <1>11, <1>12 DEF Inv

LEMMA EndKeeps ==
  ASSUME Inv, NEW c \in ConnId, End(c)
  PROVE  Inv'
<1> DEFINE last == Step("ended", c)
           ends == SetState(xhr, DONE) \o <<last>>
           steps == IF xhr.sendFlag THEN ends ELSE <<>>
<1>1. /\ todo # <<>> /\ Head(todo) = Step("end", c) /\ Then(steps)
      /\ xhr' = [xhr EXCEPT !.timer = 0, !.readyState = IF xhr.sendFlag THEN DONE ELSE @]
      /\ timers' = timers \ {xhr.timer} /\ UNCHANGED <<conns, pending, events, called>>
  BY DEF End, AtStep
<1>2. /\ todo \in Seq(StepType) /\ <<>> \in Seq(StepType) /\ Len(todo) = 1
      /\ ~Emits("load") /\ InTodo("end")
      /\ Seen("load") => xhr.readyState # OPENED
      /\ Seen("load") /\ xhr.sendFlag => LastIs("ended") /\ Len(todo) > 1
  BY <1>1, TaskFacts DEF BaseSteps
<1>3. last \in StepType /\ last.step = "ended"
  <2>1. c \in 0 .. MaxConns /\ "ended" \in Steps
    BY XhrAssumption DEF ConnId, Steps
  <2> QED BY <2>1, StepsTyped, StepParts
<1> HIDE DEF last
<1>4. /\ ends \in Seq(StepType) /\ Len(ends) \in {1, 3} /\ ends[Len(ends)] = last
      /\ \A i \in 1 .. Len(ends) : \/ ends[i] = Changed
                                   \/ ends[i] = Marker /\ i = Len(ends) - 1
                                   \/ ends[i] = last /\ i = Len(ends)
  <2>1. ends = SetState(xhr, DONE) \o <<last>>
    OBVIOUS
  <2> HIDE DEF ends
  <2>2. ends \in Seq(StepType)
    BY ONLY <1>3, <2>1, SetStateThenOne
  <2>3. Len(ends) \in {1, 3}
    BY ONLY <1>3, <2>1, SetStateThenOne
  <2>4. ends[Len(ends)] = last
    BY ONLY <1>3, <2>1, SetStateThenOne
  <2> QED BY <1>3, <2>1, <2>2, <2>3, <2>4, SetStateThenOne
<1> HIDE DEF ends
<1>5. steps \in Seq(StepType) /\ Stacked(steps, 1)
  <2>1. steps \in Seq(StepType)
    BY <1>2, <1>4
  <2> QED BY <1>1, <1>2, <2>1, ThenStacks
<1>6. \A i \in 1 .. Len(steps) :
        /\ steps[i].step \in {"emit", "setState", "ended"}
        /\ steps[i].step = "ended" => i = Len(steps) /\ xhr.sendFlag
        /\ steps[i].step = "emit" => steps[i].event = "readystatechange"
        /\ steps[i].step = "setState" => /\ i = Len(steps) - 1 /\ xhr.sendFlag
                                         /\ steps[Len(steps)].step = "ended"
  <2>1. \A i \in 1 .. Len(ends) :
          /\ ends[i].step \in {"emit", "setState", "ended"}
          /\ ends[i].step = "ended" => i = Len(ends)
          /\ ends[i].step = "emit" => ends[i].event = "readystatechange"
          /\ ends[i].step = "setState" => i = Len(ends) - 1 /\ ends[Len(ends)].step = "ended"
    BY <1>3, <1>4, MarkerFacts
  <2>2. \A i \in 1 .. Len(<<>>) : FALSE
    OBVIOUS
  <2>3. CASE xhr.sendFlag
    BY <2>1, <2>3
  <2>4. CASE ~xhr.sendFlag
    BY <2>2, <2>4
  <2> QED BY <2>3, <2>4
<1> HIDE DEF steps
<1>7. /\ xhr' \in XhrType /\ xhr'.response = xhr.response
      /\ xhr'.sendFlag = xhr.sendFlag /\ xhr'.errorFlag = xhr.errorFlag
      /\ xhr'.readyState = IF xhr.sendFlag THEN DONE ELSE xhr.readyState
  <2>1. xhr \in XhrType
    BY Facts DEF Inv
  <2>2. 0 \in 0 .. MaxConns /\ DONE \in UNSENT .. DONE
    BY XhrAssumption DEF UNSENT, DONE
  <2>3. CASE xhr.sendFlag
    <3>1. xhr' = [xhr EXCEPT !.timer = 0, !.readyState = DONE]
      BY <1>1, <2>3
    <3> QED BY <2>1, <2>2, <2>3, <3>1 DEF XhrType
  <2>4. CASE ~xhr.sendFlag
    <3>1. xhr' = [xhr EXCEPT !.timer = 0]
      BY <1>1, <2>1, <2>4 DEF XhrType
    <3> QED BY <2>1, <2>2, <2>4, <3>1 DEF XhrType
  <2> QED BY <2>3, <2>4
<1>8. TypeOK'
  <2>1. todo' \in Seq(StepType)
    BY <1>5 DEF Stacked
  <2> QED BY <1>1, <1>7, <2>1 DEF Inv, TypeOK, StepType, XhrType, called
<1>9. ConnInv'
  <2>1. \A i \in 1 .. Len(steps) : steps[i].step \notin Answers \cup {"create"}
    BY <1>6 DEF Answers
  <2> QED BY <1>1, <1>5, <2>1, ConnUnchanged
<1>10. BaseInv'
  BY <1>1, <1>2, <1>5, <1>6, BaseKept DEF Inv, BaseSteps, Answers, called
<1>11. /\ Len(todo') = Len(steps) /\ \A i \in 1 .. Len(todo') : todo'[i] = steps[i]
       /\ todo' \in Seq(StepType)
  BY <1>2, <1>5 DEF Stacked
<1>12. LoadInv'
  <2>1. LoadsOnce' /\ (Seen("load")' <=> Seen("load"))
    BY <1>1 DEF Inv, LoadInv, LoadsOnce, Seen
  <2>2. Seen("load")' => ~xhr'.sendFlag /\ xhr'.readyState # OPENED
    BY <1>2, <1>7, <2>1 DEF DONE, OPENED
  <2>3. ~Emits("load")'
    BY <1>6, <1>11 DEF Emits
  <2>4. ASSUME NEW i \in 1 .. Len(todo'), todo'[i].step = "setState"
        PROVE  i = Len(todo') - 1 /\ LastIs("ended")' /\ ~Seen("load")'
    <3>1. i = Len(steps) - 1 /\ xhr.sendFlag /\ steps[Len(steps)].step = "ended"
      BY <1>6, <1>11, <2>4
    <3>2. Len(todo') \in 1 .. Len(todo') /\ todo' # <<>>
      BY <1>11, <2>4
    <3> QED BY <1>7, <1>11, <2>2, <3>1, <3>2 DEF LastIs
  <2> QED BY <2>1, <2>2, <2>3, <2>4 DEF LoadInv, Emits
<1>13. ASSUME ~nested'
       PROVE  TimerInv' /\ ResponseInv' /\ FailInv' /\ OutcomeInv'
  <2>1. TimerInv /\ ResponseInv /\ FailInv /\ OutcomeInv
    BY <1>1, <1>13 DEF Inv, called
  <2>2. timers' = {}
    BY <1>1, <2>1 DEF TimerInv
  <2>3. /\ \A s \in {"create", "data", "end", "aborted"} : ~InTodo(s)'
        /\ InTodo("ended")' => xhr.sendFlag
        /\ \A e : Emits(e)' => e = "readystatechange"
    BY <1>2, <1>5, <1>6, NamesOnly
  <2>4. \A e \in Events : ~Emits(e)'
    BY <2>3 DEF Events
  <2>5. TimerInv'
    BY <1>7, <2>2, <2>3 DEF TimerInv
  <2>6. ResponseInv'
    <3>1. xhr'.response # 0
      BY <1>2, <1>7, <2>1 DEF ResponseInv
    <3> QED BY <3>1 DEF ResponseInv
  <2>7. FailInv' /\ OutcomeInv'
    <3>1. xhr.readyState # OPENED => xhr'.readyState # OPENED
      BY <1>7 DEF DONE, OPENED
    <3>2. events' = events /\ timers' \subseteq timers
      BY <1>1
    <3> QED BY <1>7, <2>1, <2>3, <2>4, <3>1, <3>2, CalmKeeps
  <2> QED BY <2>5, <2>6, <2>7
<1> QED BY <1>8, <1>9, <1>10, <1>12, <1>13 DEF Inv

LEMMA EndDoneKeeps ==
  ASSUME Inv, NEW c \in ConnId, EndDone(c)
  PROVE  Inv'
<1>1. /\ todo # <<>> /\ Head(todo) = Step("ended", c) /\ Then(<<>>)
      /\ xhr' = [xhr EXCEPT !.sendFlag = FALSE]
      /\ UNCHANGED <<timers, conns, pending, events, called>>
  BY DEF EndDone, AtStep
<1>2. /\ todo \in Seq(StepType) /\ <<>> \in Seq(StepType) /\ Len(todo) = 1
      /\ InTodo("ended") /\ (Seen("load") => xhr.readyState # OPENED)
  BY <1>1, TaskFacts DEF BaseSteps
<1>3. Stacked(<<>>, 1) /\ Len(todo') = 0 /\ todo' \in Seq(StepType)
  <2>1. Stacked(<<>>, 1)
    BY <1>1, <1>2, ThenStacks
  <2> QED BY <1>2, <2>1 DEF Stacked
<1>4. /\ xhr' \in XhrType /\ xhr'.response = xhr.response /\ xhr'.timer = xhr.timer
      /\ xhr'.sendFlag = FALSE /\ xhr'.errorFlag = xhr.errorFlag
      /\ xhr'.readyState = xhr.readyState
  <2>1. xhr \in XhrType
    BY Facts DEF Inv
  <2> QED BY <1>1, <2>1 DEF XhrType
<1>5. TypeOK'
  BY <1>1, <1>3, <1>4 DEF Inv, TypeOK, StepType, XhrType, called
<1>6. (\A s : ~InTodo(s)') /\ (\A e : ~Emits(e)')
  BY <1>3 DEF InTodo, Emits
<1>7. ConnInv'
  <2>1. \A i \in 1 .. Len(<<>>) : FALSE
    OBVIOUS
  <2> QED BY <1>1, <1>3, <2>1, ConnUnchanged
<1>8. BaseInv'
  BY <1>3 DEF BaseInv
<1>9. LoadInv'
  <2>1. LoadsOnce' /\ (Seen("load")' <=> Seen("load"))
    BY <1>1 DEF Inv, LoadInv, LoadsOnce, Seen
  <2>2. Seen("load")' => ~xhr'.sendFlag /\ xhr'.readyState # OPENED
    BY <1>2, <1>4, <2>1
  <2>3. \A i \in 1 .. Len(todo') : FALSE
    BY <1>3
  <2> QED BY <1>6, <2>1, <2>2, <2>3 DEF LoadInv
<1>10. ASSUME ~nested'
       PROVE  TimerInv' /\ ResponseInv' /\ FailInv' /\ OutcomeInv'
  <2>1. TimerInv /\ ResponseInv /\ FailInv /\ OutcomeInv
    BY <1>1, <1>10 DEF Inv, called
  <2>2. xhr'.readyState # OPENED
    BY <1>2, <1>4, <2>1 DEF TimerInv, DONE, OPENED
  <2>3. TimerInv'
    BY <1>1, <1>4, <1>6, <2>1, <2>2 DEF TimerInv
  <2>4. ResponseInv'
    BY <1>4, <1>6, <2>1 DEF ResponseInv
  <2>5. FailInv' /\ OutcomeInv'
    <3>1. events' = events /\ timers' \subseteq timers
      BY <1>1
    <3> QED BY <1>4, <1>6, <2>1, <2>2, <3>1, CalmKeeps
  <2> QED BY <2>3, <2>4, <2>5
<1> QED BY <1>5, <1>7, <1>8, <1>9, <1>10 DEF Inv

LEMMA AbortUnheardKeeps ==
  ASSUME Inv, NEW c \in ConnId, AbortUnheard(c)
  PROVE  Inv'
<1>1. /\ todo # <<>> /\ Head(todo) = Step("abort", c) /\ Then(<<>>)
      /\ conns' = [conns EXCEPT ![c].phase = "lost"]
      /\ UNCHANGED <<xhr, timers, pending, events, called>>
  BY DEF AbortUnheard, AtStep
<1>2. /\ todo \in Seq(StepType) /\ <<>> \in Seq(StepType) /\ Len(todo) = 1
      /\ (Seen("load") => xhr.readyState # OPENED)
      /\ Seen("load") /\ xhr.sendFlag => LastIs("ended") /\ Len(todo) > 1
  BY <1>1, TaskFacts DEF BaseSteps, Answers
<1>3. Stacked(<<>>, 1) /\ Len(todo') = 0 /\ todo' \in Seq(StepType)
  <2>1. Stacked(<<>>, 1)
    BY <1>1, <1>2, ThenStacks
  <2> QED BY <1>2, <2>1 DEF Stacked
<1>4. /\ conns' \in Seq(Conn) /\ Len(conns') = Len(conns)
      /\ \A d \in 1 .. Len(conns) : conns'[d].hop = conns[d].hop
  BY <1>1, PhaseFacts DEF Inv
<1>5. TypeOK'
  BY <1>1, <1>3, <1>4 DEF Inv, TypeOK, StepType, called
<1>6. (\A s : ~InTodo(s)') /\ (\A e : ~Emits(e)')
  BY <1>3 DEF InTodo, Emits
<1>7. ConnInv'
  <2>1. \A i \in 1 .. Len(<<>>) : FALSE
    OBVIOUS
  <2> QED BY <1>1, <1>3, <1>4, <2>1, ConnSame DEF Inv
<1>8. BaseInv'
  BY <1>3 DEF BaseInv
<1>9. LoadInv'
  <2>1. LoadsOnce' /\ (Seen("load")' <=> Seen("load")) /\ xhr' = xhr
    BY <1>1 DEF Inv, LoadInv, LoadsOnce, Seen
  <2>2. Seen("load")' => ~xhr'.sendFlag /\ xhr'.readyState # OPENED
    BY <1>2, <2>1
  <2>3. \A i \in 1 .. Len(todo') : FALSE
    BY <1>3
  <2> QED BY <1>6, <2>1, <2>2, <2>3 DEF LoadInv
<1>10. ASSUME ~nested'
       PROVE  TimerInv' /\ ResponseInv' /\ FailInv' /\ OutcomeInv'
  <2>1. TimerInv /\ ResponseInv /\ FailInv /\ OutcomeInv
    BY <1>1, <1>10 DEF Inv, called
  <2>2. xhr' = xhr /\ timers' \subseteq timers /\ events' = events
    BY <1>1
  <2> QED BY <1>6, <2>1, <2>2, QuietKeeps
<1> QED BY <1>5, <1>7, <1>8, <1>9, <1>10 DEF Inv

LEMMA StatusKeeps ==
  ASSUME Inv, NEW c \in ConnId, Status(c)
  PROVE  Inv'
<1> DEFINE a == Step("data", c)
           b == Step("end", c)
           steps == IF xhr.response = 0 THEN <<>> ELSE <<a, b>>
<1>1. /\ todo # <<>> /\ Head(todo) = Step("status", c) /\ Then(steps)
      /\ UNCHANGED <<xhr, timers, conns, pending, events, called>>
  BY DEF Status, AtStep
<1>2. /\ todo \in Seq(StepType) /\ <<>> \in Seq(StepType) /\ Len(todo) = 1
      /\ ~Emits("load") /\ (Seen("load") => xhr.readyState # OPENED)
      /\ Seen("load") /\ xhr.sendFlag => LastIs("ended") /\ Len(todo) > 1
  BY <1>1, TaskFacts DEF BaseSteps, Answers
<1>3. /\ a \in StepType /\ a.step = "data"
      /\ b \in StepType /\ b.step = "end"
  <2>1. c \in 0 .. MaxConns /\ "data" \in Steps /\ "end" \in Steps
    BY XhrAssumption DEF ConnId, Steps
  <2> QED BY <2>1, StepsTyped, StepParts
<1> HIDE DEF a, b
<1>4. /\ steps \in Seq(StepType)
      /\ \A i \in 1 .. Len(steps) :
           /\ xhr.response # 0
           /\ steps[i].step \in {"data", "end"}
           /\ steps[i].step = "end" => i = Len(steps)
           /\ steps[i].step = "data" => i = Len(steps) - 1 /\ steps[Len(steps)].step = "end"
  <2>1. CASE xhr.response = 0
    <3>1. \A i \in 1 .. Len(<<>>) : FALSE
      OBVIOUS
    <3> QED BY <1>2, <2>1, <3>1
  <2>2. CASE xhr.response # 0
    <3>1. steps = <<a, b>>
      BY <2>2
    <3> HIDE DEF steps
    <3>2. /\ steps \in Seq(StepType) /\ Len(steps) = 2 /\ steps[1] = a /\ steps[2] = b
          /\ \A i \in 1 .. Len(steps) : i = 1 \/ i = 2
      BY <1>3, <3>1, Pair
    <3> QED BY <1>3, <2>2, <3>2
  <2> QED BY <2>1, <2>2
<1> HIDE DEF steps
<1>5. Stacked(steps, 1)
  BY <1>1, <1>2, <1>4, ThenStacks
<1>6. TypeOK'
  <2>1. todo' \in Seq(StepType)
    BY <1>5 DEF Stacked
  <2> QED BY <1>1, <2>1 DEF Inv, TypeOK, StepType, called
<1>7. ConnInv'
  <2>1. \A i \in 1 .. Len(steps) : steps[i].step \notin Answers \cup {"create"}
    BY <1>4 DEF Answers
  <2> QED BY <1>1, <1>5, <2>1, ConnUnchanged
<1>8. BaseInv'
  BY <1>1, <1>2, <1>4, <1>5, BaseKept DEF Inv, BaseSteps, Answers, called
<1>9. LoadInv'
  <2>1. LoadsOnce' /\ (Seen("load")' <=> Seen("load")) /\ LoadInv /\ xhr' = xhr
    BY <1>1 DEF Inv, LoadInv, LoadsOnce, Seen
  <2>2. /\ \A i \in 1 .. Len(steps) : ~(steps[i].step = "emit" /\ steps[i].event = "load")
        /\ \A i \in 1 .. Len(steps) : steps[i].step # "setState"
    BY <1>4
  <2>3. Seen("load")' /\ xhr'.sendFlag => LastIs("ended") /\ Len(todo) > 1
    BY <1>2, <2>1
  <2>4. Seen("load")' => xhr'.readyState # OPENED
    BY <1>2, <2>1
  <2> QED BY <1>2, <1>5, <2>1, <2>2, <2>3, <2>4, LoadKept
<1>10. ASSUME ~nested'
       PROVE  TimerInv' /\ ResponseInv' /\ FailInv' /\ OutcomeInv'
  <2>1. /\ TimerInv /\ ResponseInv /\ FailInv /\ OutcomeInv
        /\ xhr' = xhr /\ timers' = timers /\ events' = events
    BY <1>1, <1>10 DEF Inv, called
  <2>2. /\ \A s : InTodo(s)' => s \in {"data", "end"} /\ xhr.response # 0
        /\ \A e : ~Emits(e)'
    BY <1>2, <1>4, <1>5, NamesOnly
  <2>3. ~InTodo("create")' /\ ~InTodo("ended")' /\ ~InTodo("aborted")'
    BY <2>2
  <2>4. TimerInv'
    BY <2>1, <2>3 DEF TimerInv
  <2>5. ResponseInv'
    BY <2>1, <2>2 DEF ResponseInv
  <2>6. FailInv' /\ OutcomeInv'
    <3>1. timers' \subseteq timers
      BY <2>1
    <3> QED BY <2>1, <2>2, <2>3, <3>1, CalmKeeps
  <2> QED BY <2>4, <2>5, <2>6
<1> QED BY <1>6, <1>7, <1>8, <1>9, <1>10 DEF Inv

LEMMA DataKeeps ==
  ASSUME Inv, NEW c \in ConnId, Data(c)
  PROVE  Inv'
<1> DEFINE new == SetState(xhr, LOADING)
           steps == IF xhr.sendFlag THEN new ELSE <<>>
<1>1. /\ todo # <<>> /\ Head(todo) = Step("data", c) /\ Then(steps)
      /\ xhr' = IF xhr.sendFlag THEN [xhr EXCEPT !.readyState = LOADING] ELSE xhr
      /\ UNCHANGED <<timers, conns, pending, events, called>>
  BY DEF Data, AtStep
<1>2. /\ todo \in Seq(StepType) /\ <<>> \in Seq(StepType) /\ 1 \in 1 .. Len(todo)
      /\ todo[1].step = "data" /\ InTodo("data")
      /\ ~Emits("load") /\ (Seen("load") => xhr.readyState # OPENED)
      /\ Seen("load") /\ xhr.sendFlag => LastIs("ended") /\ Len(todo) > 1
  BY <1>1, TaskFacts
<1>3. Len(todo) = 2 /\ \A i \in 1 .. Len(todo) : todo[i].step \in {"data", "end"}
  <2>1. 1 = Len(todo) - 1 /\ todo[Len(todo)].step = "end"
    BY <1>2 DEF Inv, BaseInv
  <2>2. Len(todo) = 2 /\ todo[2].step = "end"
    <3>1. Len(todo) = 2
      BY <1>2, <2>1
    <3> QED BY <2>1, <3>1
  <2>3. \A i \in 1 .. Len(todo) : i = 1 \/ i = 2
    BY <2>2
  <2> QED BY <1>2, <2>2, <2>3
<1>4. /\ new \in Seq(StepType)
      /\ \A i \in 1 .. Len(new) : new[i] = Changed \/ new[i] = Marker
  BY SetStateFacts
<1> HIDE DEF new
<1>5. /\ steps \in Seq(StepType)
      /\ \A i \in 1 .. Len(steps) :
           /\ steps[i].step \in Light /\ steps[i].step \in {"emit", "setState"}
           /\ steps[i].step = "emit" => steps[i].event = "readystatechange"
           /\ xhr.sendFlag
  <2>1. CASE xhr.sendFlag
    BY <1>4, <2>1, MarkerFacts DEF Light
  <2>2. CASE ~xhr.sendFlag
    <3>1. \A i \in 1 .. Len(<<>>) : FALSE
      OBVIOUS
    <3> QED BY <1>2, <2>2, <3>1
  <2> QED BY <2>1, <2>2
<1> HIDE DEF steps
<1>6. Stacked(steps, 1)
  BY <1>1, <1>2, <1>5, ThenStacks
<1>7. /\ xhr' \in XhrType /\ xhr'.response = xhr.response /\ xhr'.timer = xhr.timer
      /\ xhr'.sendFlag = xhr.sendFlag /\ xhr'.errorFlag = xhr.errorFlag
      /\ xhr'.readyState = IF xhr.sendFlag THEN LOADING ELSE xhr.readyState
  <2>4. LOADING \in UNSENT .. DONE
    BY DEF UNSENT, LOADING, DONE
  <2>1. xhr \in XhrType /\ LOADING \in UNSENT .. DONE
    BY <2>4, Facts DEF Inv
  <2>2. CASE xhr.sendFlag
    <3>1. xhr' = [xhr EXCEPT !.readyState = LOADING]
      BY <1>1, <2>2
    <3> QED BY <2>1, <2>2, <3>1 DEF XhrType
  <2>3. CASE ~xhr.sendFlag
    BY <1>1, <2>1, <2>3
  <2> QED BY <2>2, <2>3
<1>8. TypeOK'
  <2>1. todo' \in Seq(StepType)
    BY <1>6 DEF Stacked
  <2> QED BY <1>1, <1>7, <2>1 DEF Inv, TypeOK, StepType, XhrType, called
<1>9. ConnInv'
  <2>1. \A i \in 1 .. Len(steps) : steps[i].step \notin Answers \cup {"create"}
    BY <1>5 DEF Answers
  <2> QED BY <1>1, <1>6, <2>1, ConnUnchanged
<1>10. BaseInv'
  <2>1. \A i \in 1 .. Len(steps) :
          steps[i].step \notin BaseSteps \cup {"create", "aborted", "data"}
    BY <1>5, <1>6, LightNames
  <2> QED BY <1>1, <1>6, <2>1, BaseKept DEF Inv, called
<1>11. LoadInv'
  <2>1. LoadsOnce' /\ (Seen("load")' <=> Seen("load")) /\ LoadInv
    BY <1>1 DEF Inv, LoadInv, LoadsOnce, Seen
  <2>2. \A i \in 1 .. Len(steps) : ~(steps[i].step = "emit" /\ steps[i].event = "load")
    BY <1>5
  <2>3. Seen("load")' /\ xhr'.sendFlag => LastIs("ended") /\ Len(todo) > 1
    BY <1>2, <1>7, <2>1
  <2>4. Seen("load")' => xhr'.readyState # OPENED
    BY <1>2, <1>7, <2>1 DEF LOADING, OPENED
  <2>5. xhr'.readyState = DONE /\ ~xhr'.errorFlag =>
          /\ xhr.readyState = DONE /\ ~xhr.errorFlag
          /\ \A i \in 1 .. Len(steps) : steps[i].step # "setState"
    BY <1>5, <1>7 DEF LOADING, DONE
  <2> QED BY <1>2, <1>6, <2>1, <2>2, <2>3, <2>4, <2>5, LoadKept
<1>12. ASSUME ~nested'
       PROVE  TimerInv' /\ ResponseInv' /\ FailInv' /\ OutcomeInv'
  <2>1. /\ TimerInv /\ ResponseInv /\ FailInv /\ OutcomeInv
        /\ timers' = timers /\ events' = events
    BY <1>1, <1>12 DEF Inv, called
  <2>2. ~InTodo("create") /\ ~InTodo("ended") /\ ~InTodo("aborted") /\ \A e : ~Emits(e)
    BY <1>3 DEF InTodo, Emits
  <2>3. /\ ~InTodo("create")' /\ ~InTodo("ended")' /\ ~InTodo("aborted")'
        /\ \A e : Emits(e)' => e = "readystatechange"
    BY <1>5, <1>6, <2>2, NamesKept
  <2>4. \A e \in Events : ~Emits(e)'
    BY <2>3 DEF Events
  <2>5. xhr'.readyState = OPENED => xhr.readyState = OPENED
    BY <1>7 DEF LOADING, OPENED
  <2>6. TimerInv'
    BY <1>7, <2>1, <2>3, <2>5 DEF TimerInv
  <2>7. ResponseInv'
    <3>1. xhr'.response # 0
      BY <1>2, <1>7, <2>1 DEF ResponseInv
    <3> QED BY <3>1 DEF ResponseInv
  <2>8. FailInv' /\ OutcomeInv'
    <3>1. timers' \subseteq timers
      BY <2>1
    <3> QED BY <1>7, <2>1, <2>3, <2>4, <2>5, <3>1, CalmKeeps
  <2> QED BY <2>6, <2>7, <2>8
<1> QED BY <1>8, <1>9, <1>10, <1>11, <1>12 DEF Inv

LEMMA AbortDoneKeeps ==
  ASSUME Inv, AbortDone
  PROVE  Inv'
<1> DEFINE one == <<Emit("abort")>>
           steps == IF Head(todo).conn = 1 THEN one ELSE <<>>
<1>1. /\ todo # <<>> /\ Head(todo).step = "aborted" /\ Then(steps)
      /\ xhr' = [xhr EXCEPT !.readyState = UNSENT]
      /\ UNCHANGED <<timers, conns, pending, events, called>>
  BY DEF AbortDone, Doing
<1>2. todo \in Seq(StepType) /\ <<>> \in Seq(StepType)
  BY Facts DEF Inv
<1>3. /\ ~Emits("load") /\ (Seen("load") => xhr.readyState # OPENED)
      /\ Seen("load") /\ xhr.sendFlag => LastIs("ended") /\ Len(todo) > 1
  BY <1>1, OtherTop
<1>4. /\ one \in Seq(StepType)
      /\ \A i \in 1 .. Len(one) : one[i].step = "emit" /\ one[i].event = "abort"
  <2>1. /\ Emit("abort") \in StepType
        /\ Emit("abort").step = "emit" /\ Emit("abort").event = "abort"
    BY EmitFacts DEF Events
  <2> QED BY <2>1, Single
<1> HIDE DEF one
<1>5. /\ steps \in Seq(StepType)
      /\ \A i \in 1 .. Len(steps) : steps[i].step = "emit" /\ steps[i].event = "abort"
  <2>1. \A i \in 1 .. Len(<<>>) : FALSE
    OBVIOUS
  <2> QED BY <1>2, <1>4, <2>1
<1> HIDE DEF steps
<1>6. Stacked(steps, 1)
  BY <1>1, <1>2, <1>5, ThenStacks
<1>7. /\ xhr' \in XhrType /\ xhr'.timer = xhr.timer /\ xhr'.readyState = UNSENT
      /\ xhr'.sendFlag = xhr.sendFlag /\ xhr'.errorFlag = xhr.errorFlag
  <2>4. UNSENT \in UNSENT .. DONE
    BY DEF UNSENT, DONE
  <2>1. xhr \in XhrType /\ UNSENT \in UNSENT .. DONE
    BY <2>4, Facts DEF Inv
  <2> QED BY <1>1, <2>1 DEF XhrType
<1>8. TypeOK'
  <2>1. todo' \in Seq(StepType)
    BY <1>6 DEF Stacked
  <2> QED BY <1>1, <1>7, <2>1 DEF Inv, TypeOK, StepType, XhrType, called
<1>9. ConnInv'
  <2>1. \A i \in 1 .. Len(steps) : steps[i].step \notin Answers \cup {"create"}
    BY <1>5 DEF Answers
  <2> QED BY <1>1, <1>6, <2>1, ConnUnchanged
<1>10. BaseInv'
  <2>1. \A i \in 1 .. Len(steps) :
          steps[i].step \notin BaseSteps \cup {"create", "aborted", "data"}
    BY <1>5 DEF BaseSteps, Answers
  <2> QED BY <1>1, <1>6, <2>1, BaseKept DEF Inv, called
<1>11. LoadInv'
  <2>1. LoadsOnce' /\ (Seen("load")' <=> Seen("load")) /\ LoadInv
    BY <1>1 DEF Inv, LoadInv, LoadsOnce, Seen
  <2>2. /\ \A i \in 1 .. Len(steps) : ~(steps[i].step = "emit" /\ steps[i].event = "load")
        /\ \A i \in 1 .. Len(steps) : steps[i].step # "setState"
    BY <1>5
  <2>3. Seen("load")' /\ xhr'.sendFlag => LastIs("ended") /\ Len(todo) > 1
    BY <1>3, <1>7, <2>1
  <2>4. xhr'.readyState # OPENED /\ xhr'.readyState # DONE
    BY <1>7 DEF UNSENT, OPENED, DONE
  <2> QED BY <1>3, <1>6, <2>1, <2>2, <2>3, <2>4, LoadKept
<1>12. ASSUME ~nested'
       PROVE  TimerInv' /\ ResponseInv' /\ FailInv' /\ OutcomeInv'
  <2>1. /\ TimerInv /\ ResponseInv /\ FailInv /\ OutcomeInv
        /\ timers' = timers /\ events' = events /\ Len(todo) = 1
    BY <1>1, <1>12, BaseTop DEF Inv, called
  <2>2. /\ \A s : InTodo(s)' => s = "emit"
        /\ \A e : Emits(e)' => e = "abort"
    BY <1>5, <1>6, <2>1, NamesOnly
  <2>3. /\ ~InTodo("create")' /\ ~InTodo("ended")' /\ ~InTodo("aborted")'
        /\ ~InTodo("data")' /\ ~InTodo("end")'
    BY <2>2
  <2>4. ~Emits("load")' /\ ~Emits("error")' /\ ~Emits("timeout")'
    BY <2>2
  <2>5. \A e : Seen(e)' <=> Seen(e)
    BY <2>1 DEF Seen
  <2>6. xhr'.readyState # OPENED /\ ~(xhr'.readyState >= HEADERS_RECEIVED)
    BY <1>7 DEF UNSENT, OPENED, HEADERS_RECEIVED
  <2>7. xhr.errorFlag
    <3>1. InTodo("aborted")
      BY <1>1, <1>2, Stack DEF InTodo, Inv
    <3> QED BY <2>1, <3>1 DEF FailInv
  <2>8. TimerInv'
    BY <1>7, <2>1, <2>3, <2>6 DEF TimerInv
  <2>9. ResponseInv'
    BY <2>3, <2>6 DEF ResponseInv
  <2>10. FailInv'
    BY <1>7, <2>1, <2>4, <2>5, <2>6, <2>7 DEF FailInv
  <2>11. OutcomeInv'
    BY <2>1, <2>3, <2>4, <2>5 DEF OutcomeInv
  <2> QED BY <2>8, <2>9, <2>10, <2>11
<1> QED BY <1>8, <1>9, <1>10, <1>11, <1>12 DEF Inv

LEMMA CreateKeeps ==
  ASSUME Inv, NEW c \in ConnId, NEW timeout \in BOOLEAN, Create(c, timeout)
  PROVE  Inv'
<1> DEFINE steps == <<Emit("loadstart")>>
<1>1. /\ todo # <<>> /\ Head(todo) = Step("create", c) /\ Then(steps)
      /\ xhr' = [xhr EXCEPT !.request = c, !.timer = IF timeout THEN c ELSE @]
      /\ timers' = (IF timeout THEN timers \cup {c} ELSE timers)
      /\ conns' = [conns EXCEPT ![c].phase = "open"]
      /\ UNCHANGED <<pending, events, called>>
  BY DEF Create, AtStep
<1>2. todo \in Seq(StepType) /\ Head(todo).step = "create"
  BY <1>1, Facts, StepParts DEF Inv
<1>3. /\ ~Emits("load") /\ (Seen("load") => xhr.readyState # OPENED)
      /\ Seen("load") /\ xhr.sendFlag => LastIs("ended") /\ Len(todo) > 1
  BY <1>2, OtherTop
<1>4. /\ steps \in Seq(StepType)
      /\ \A i \in 1 .. Len(steps) : steps[i].step = "emit" /\ steps[i].event = "loadstart"
  <2>1. /\ Emit("loadstart") \in StepType
        /\ Emit("loadstart").step = "emit" /\ Emit("loadstart").event = "loadstart"
    BY EmitFacts DEF Events
  <2> QED BY <2>1, Single
<1> HIDE DEF steps
<1>5. Stacked(steps, 1)
  BY <1>1, <1>2, <1>4, ThenStacks
<1>6. /\ xhr' \in XhrType /\ xhr'.readyState = xhr.readyState
      /\ xhr'.sendFlag = xhr.sendFlag /\ xhr'.errorFlag = xhr.errorFlag
      /\ xhr'.response = xhr.response
      /\ xhr'.timer = IF timeout THEN c ELSE xhr.timer
  <2>4. c \in 0 .. MaxConns
    BY XhrAssumption DEF ConnId
  <2>1. xhr \in XhrType /\ c \in 0 .. MaxConns
    BY <2>4, Facts DEF Inv
  <2>2. CASE timeout
    <3>1. xhr' = [xhr EXCEPT !.request = c, !.timer = c]
      BY <1>1, <2>2
    <3> QED BY <2>1, <2>2, <3>1 DEF XhrType
  <2>3. CASE ~timeout
    <3>1. xhr' = [xhr EXCEPT !.request = c]
      BY <1>1, <2>1, <2>3 DEF XhrType
    <3> QED BY <2>1, <2>3, <3>1 DEF XhrType
  <2> QED BY <2>2, <2>3
<1>7. /\ conns' \in Seq(Conn) /\ Len(conns') = Len(conns)
      /\ \A d \in 1 .. Len(conns) : conns'[d].hop = conns[d].hop
  BY <1>1, PhaseFacts DEF Inv
<1>8. TypeOK'
  <2>1. todo' \in Seq(StepType)
    BY <1>5 DEF Stacked
  <2>2. timers' \subseteq ConnId
    BY <1>1 DEF Inv, TypeOK
  <2> QED BY <1>1, <1>6, <1>7, <2>1, <2>2 DEF Inv, TypeOK, StepType, XhrType, called
<1>9. ConnInv'
  <2>1. \A i \in 1 .. Len(steps) : steps[i].step \notin Answers \cup {"create"}
    BY <1>4 DEF Answers
  <2> QED BY <1>1, <1>5, <1>7, <2>1, ConnSame DEF Inv
<1>10. BaseInv'
  <2>1. \A i \in 1 .. Len(steps) :
          steps[i].step \notin BaseSteps \cup {"create", "aborted", "data"}
    BY <1>4 DEF BaseSteps, Answers
  <2> QED BY <1>1, <1>5, <2>1, BaseKept DEF Inv, called
<1>11. LoadInv'
  <2>1. LoadsOnce' /\ (Seen("load")' <=> Seen("load")) /\ LoadInv
    BY <1>1 DEF Inv, LoadInv, LoadsOnce, Seen
  <2>2. /\ \A i \in 1 .. Len(steps) : ~(steps[i].step = "emit" /\ steps[i].event = "load")
        /\ \A i \in 1 .. Len(steps) : steps[i].step # "setState"
    BY <1>4
  <2>3. Seen("load")' /\ xhr'.sendFlag => LastIs("ended") /\ Len(todo) > 1
    BY <1>3, <1>6, <2>1
  <2>4. Seen("load")' => xhr'.readyState # OPENED
    BY <1>3, <1>6, <2>1
  <2> QED BY <1>3, <1>5, <1>6, <2>1, <2>2, <2>3, <2>4, LoadKept
<1>12. ASSUME ~nested'
       PROVE  TimerInv' /\ ResponseInv' /\ FailInv' /\ OutcomeInv'
  <2>1. /\ TimerInv /\ ResponseInv /\ FailInv /\ OutcomeInv
        /\ events' = events /\ Len(todo) = 1
    BY <1>1, <1>2, <1>12, BaseTop DEF Inv, called
  <2>2. InTodo("create")
    BY <1>1, <1>2, Stack DEF InTodo, Inv
  <2>3. timers = {} /\ xhr.sendFlag /\ ~Seen("error")
    BY <2>1, <2>2 DEF TimerInv, OutcomeInv
  <2>4. /\ \A s : InTodo(s)' => s = "emit"
        /\ \A e : Emits(e)' => e = "loadstart"
    BY <1>4, <1>5, <2>1, NamesOnly
  <2>5. /\ ~InTodo("create")' /\ ~InTodo("ended")' /\ ~InTodo("aborted")'
        /\ ~InTodo("data")' /\ ~InTodo("end")'
    BY <2>4
  <2>6. \A e \in {"load", "error", "timeout", "abort"} : ~Emits(e)'
    BY <2>4
  <2>7. \A e : Seen(e)' <=> Seen(e)
    BY <2>1 DEF Seen
  <2>8. TimerInv'
    <3>1. timers' \subseteq {xhr'.timer}
      BY <1>1, <1>6, <2>3
    <3> QED BY <1>6, <2>3, <2>5, <3>1 DEF TimerInv
  <2>9. ResponseInv'
    BY <1>6, <2>1, <2>5 DEF ResponseInv
  <2>10. FailInv'
    BY <1>6, <2>1, <2>5, <2>6, <2>7 DEF FailInv, Failures
  <2>11. OutcomeInv'
    BY <2>1, <2>3, <2>6, <2>7 DEF OutcomeInv
  <2> QED BY <2>8, <2>9, <2>10, <2>11
<1> QED BY <1>8, <1>9, <1>10, <1>11, <1>12 DEF Inv
-----------------------------------------------------------------------------
(* The calls of the script. *)
LEMMA AbandonedFacts ==
  ASSUME TypeOK, conns' = Abandoned
  PROVE  /\ conns' \in Seq(Conn) /\ Len(conns') = Len(conns)
         /\ \A d \in 1 .. Len(conns) : conns'[d].hop = conns[d].hop
<1>1. conns \in Seq(Conn)
  BY DEF TypeOK
<1>2. Len(conns) \in Nat /\ DOMAIN conns = 1 .. Len(conns)
  BY <1>1
<1>3. ASSUME NEW d \in 1 .. Len(conns)
      PROVE  [conns[d] EXCEPT !.aborted = TRUE] \in Conn
             /\ [conns[d] EXCEPT !.aborted = TRUE].hop = conns[d].hop
  <2>1. conns[d] \in Conn
    BY <1>1, ElementOfSeq
  <2> QED BY <2>1 DEF Conn
<1>4. conns' = [d \in 1 .. Len(conns) |-> [conns[d] EXCEPT !.aborted = TRUE]]
  BY <1>2 DEF Abandoned
<1>5. conns' \in [1 .. Len(conns) -> Conn]
  BY <1>3, <1>4
<1>6. conns' \in Seq(Conn) /\ Len(conns') = Len(conns)
  BY <1>2, <1>5
<1> QED BY <1>3, <1>4, <1>6

LEMMA OpenKeeps ==
  ASSUME Inv, NEW allowed \in BOOLEAN, Open(allowed)
  PROVE  Inv'
<1> DEFINE reset == [xhr EXCEPT !.readyState = UNSENT, !.sendFlag = FALSE,
                       !.errorFlag = FALSE, !.didTimeout = FALSE, !.request = 0,
                       !.response = 0, !.timer = 0]
           new == SetState(reset, OPENED)
           steps == IF allowed THEN new ELSE <<>>
<1>1. /\ ScriptRuns /\ Called
      /\ allowed => xhr' = [reset EXCEPT !.readyState = OPENED] /\ Calling(new)
      /\ ~allowed => xhr' = reset /\ todo' = todo
      /\ timers' = timers \ {xhr.timer} /\ conns' = Abandoned
      /\ events' = <<>> /\ pending' = pending
  BY DEF Open
<1>2. /\ todo \in Seq(StepType) /\ calls' \in 0 .. MaxCalls /\ nested' \in BOOLEAN
      /\ ~nested' => ~nested /\ Len(todo) = 0
      /\ ~Emits("load")
  BY <1>1, ScriptFacts
<1>3. xhr \in XhrType /\ <<>> \in Seq(StepType)
  BY Facts DEF Inv
<1>4. /\ xhr' \in XhrType /\ xhr'.readyState \in {UNSENT, OPENED}
      /\ xhr'.errorFlag = FALSE /\ xhr'.sendFlag = FALSE
  <2>1. 0 \in 0 .. MaxConns /\ UNSENT \in UNSENT .. DONE /\ OPENED \in UNSENT .. DONE
    BY XhrAssumption DEF UNSENT, OPENED, DONE
  <2>2. /\ reset \in XhrType /\ reset.readyState = UNSENT
        /\ reset.errorFlag = FALSE /\ reset.sendFlag = FALSE
    BY <1>3, <2>1 DEF XhrType
  <2> HIDE DEF reset
  <2>3. CASE allowed
    BY <1>1, <2>1, <2>2, <2>3 DEF XhrType
  <2>4. CASE ~allowed
    BY <1>1, <2>2, <2>4
  <2> QED BY <2>3, <2>4
<1>5. /\ new \in Seq(StepType)
      /\ \A i \in 1 .. Len(new) : new[i] = Changed \/ new[i] = Marker
  BY SetStateFacts
<1> HIDE DEF new
<1>6. /\ steps \in Seq(StepType)
      /\ \A i \in 1 .. Len(steps) :
           /\ steps[i].step \in Light
           /\ steps[i].step = "emit" => steps[i].event = "readystatechange"
  <2>1. \A i \in 1 .. Len(<<>>) : FALSE
    OBVIOUS
  <2>2. CASE allowed
    BY <1>5, <2>2, MarkerFacts DEF Light
  <2>3. CASE ~allowed
    BY <1>3, <2>1, <2>3
  <2> QED BY <2>2, <2>3
<1>7. Stacked(steps, 0)
  <2>1. CASE allowed
    BY <1>1, <1>2, <1>5, <2>1, CallStacks
  <2>2. CASE ~allowed
    <3>1. todo' = todo /\ Len(<<>>) = 0 /\ Len(todo) \in Nat
      BY <1>1, <1>2, <2>2
    <3>2. Stacked(<<>>, 0)
      BY <1>2, <3>1 DEF Stacked
    <3> QED BY <2>2, <3>2
  <2> QED BY <2>1, <2>2
<1> HIDE DEF steps, reset
<1>8. /\ conns' \in Seq(Conn) /\ Len(conns') = Len(conns)
      /\ \A d \in 1 .. Len(conns) : conns'[d].hop = conns[d].hop
  BY <1>1, AbandonedFacts DEF Inv
<1>9. TypeOK'
  <2>1. todo' \in Seq(StepType) /\ events' \in Seq(Events)
    BY <1>1, <1>7 DEF Stacked
  <2> QED BY <1>1, <1>2, <1>4, <1>8, <2>1 DEF Inv, TypeOK, StepType, XhrType
<1>10. ConnInv'
  <2>1. \A i \in 1 .. Len(steps) : steps[i].step \notin Answers \cup {"create"}
    BY <1>6 DEF Light, Answers
  <2> QED BY <1>1, <1>7, <1>8, <2>1, ConnSame DEF Inv
<1>11. BaseInv'
  <2>1. \A i \in 1 .. Len(steps) :
          steps[i].step \notin BaseSteps \cup {"create", "aborted", "data"}
    BY <1>6, <1>7, LightNames
  <2> QED BY <1>2, <1>7, <2>1, BaseKept DEF Inv
<1>12. \A e : ~Seen(e)'
  BY <1>1 DEF Seen
<1>13. LoadInv'
  <2>1. LoadsOnce'
    BY <1>1 DEF LoadsOnce
  <2>2. \A i \in 1 .. Len(steps) : ~(steps[i].step = "emit" /\ steps[i].event = "load")
    BY <1>6
  <2>3. xhr'.readyState # DONE /\ ~Seen("load")' /\ LoadInv
    BY <1>4, <1>12 DEF Inv, UNSENT, OPENED, DONE
  <2> QED BY <1>2, <1>7, <2>1, <2>2, <2>3, LoadKept
<1>14. ASSUME ~nested'
       PROVE  TimerInv' /\ ResponseInv' /\ FailInv' /\ OutcomeInv'
  <2>1. TimerInv /\ Len(todo) = 0
    BY <1>2, <1>14 DEF Inv
  <2>2. timers' = {}
    BY <1>1, <2>1 DEF TimerInv
  <2>3. /\ \A s : InTodo(s)' => s \in Light
        /\ \A e : Emits(e)' => e = "readystatechange"
    BY <1>6, <1>7, <2>1, NamesOnly
  <2>4. /\ ~InTodo("create")' /\ ~InTodo("ended")' /\ ~InTodo("aborted")'
        /\ ~InTodo("data")' /\ ~InTodo("end")'
    BY <2>3 DEF Light
  <2>5. \A e \in {"load", "error", "timeout", "abort"} : ~Emits(e)'
    BY <2>3
  <2>6. Len(events') = 0
    BY <1>1
  <2>7. TimerInv'
    BY <2>2, <2>4 DEF TimerInv
  <2>8. ResponseInv'
    <3>1. ~(xhr'.readyState >= HEADERS_RECEIVED)
      BY <1>4 DEF UNSENT, OPENED, HEADERS_RECEIVED
    <3> QED BY <2>4, <3>1 DEF ResponseInv
  <2>9. FailInv'
    BY <1>12, <2>4, <2>5, <2>6 DEF FailInv, Failures
  <2>10. OutcomeInv'
    BY <1>12, <2>5, <2>6 DEF OutcomeInv
  <2> QED BY <2>7, <2>8, <2>9, <2>10
<1> QED BY <1>9, <1>10, <1>11, <1>13, <1>14 DEF Inv

LEMMA SendKeeps ==
  ASSUME Inv, Send
  PROVE  Inv'
<1> DEFINE n == Len(conns) + 1
           a == Emit("readystatechange")
           b == Step("create", n)
           steps == <<a, b>>
           conn == [phase |-> "new", hop |-> 0, aborted |-> FALSE]
<1>1. /\ ScriptRuns /\ Called /\ xhr.readyState = OPENED /\ ~xhr.sendFlag
      /\ Len(conns) < MaxConns
      /\ xhr' = [xhr EXCEPT !.errorFlag = FALSE, !.sendFlag = TRUE]
      /\ conns' = Append(conns, conn) /\ Calling(steps)
      /\ UNCHANGED <<timers, pending, events>>
  BY DEF Send, CanSend
<1>2. /\ todo \in Seq(StepType) /\ calls' \in 0 .. MaxCalls /\ nested' \in BOOLEAN
      /\ ~nested' => ~nested /\ Len(todo) = 0
      /\ ~Emits("load") /\ ~Seen("load")
  BY <1>1, ScriptFacts
<1>3. xhr \in XhrType /\ conns \in Seq(Conn) /\ Len(conns) \in Nat /\ MaxConns \in Nat
  BY Facts DEF Inv, TypeOK
<1>4. n \in 0 .. MaxConns /\ n \in 1 .. n /\ n <= MaxConns /\ n >= Len(conns) /\ n \in Nat
  BY <1>1, <1>3
<1>5. /\ a \in StepType /\ a.step = "emit" /\ a.event = "readystatechange"
      /\ b \in StepType /\ b.step = "create" /\ b.conn = n
  <2>1. a \in StepType /\ a.step = "emit" /\ a.event = "readystatechange"
    BY MarkerFacts DEF Changed
  <2>2. "create" \in Steps
    BY DEF Steps
  <2>3. b \in StepType
    BY <1>4, <2>2, StepsTyped
  <2> QED BY <2>1, <2>3, StepParts
<1> HIDE DEF a, b
<1>6. /\ steps \in Seq(StepType) /\ Len(steps) = 2 /\ steps[1] = a /\ steps[2] = b
      /\ \A i \in 1 .. Len(steps) : i = 1 \/ i = 2
  BY <1>5, Pair
<1> HIDE DEF steps
<1>7. Stacked(steps, 0)
  BY <1>1, <1>2, <1>6, CallStacks
<1>8. \A i \in 1 .. Len(steps) :
        /\ steps[i].step \in {"emit", "create"}
        /\ steps[i].step = "create" => i = Len(steps) /\ steps[i].conn = n
        /\ steps[i].step = "emit" => steps[i].event = "readystatechange"
  BY <1>5, <1>6
<1>9. /\ xhr' \in XhrType /\ xhr'.readyState = OPENED /\ xhr'.sendFlag = TRUE
      /\ xhr'.timer = xhr.timer
  BY <1>1, <1>3 DEF XhrType
<1>10. /\ conns' \in Seq(Conn) /\ Len(conns') = n
       /\ \A d \in 1 .. Len(conns') : conns'[d].hop <= MaxRedirects
  <2>1. conn \in Conn /\ conn.hop = 0
    BY DEF Conn
  <2> HIDE DEF conn
  <2>2. /\ conns' \in Seq(Conn) /\ Len(conns') = n
        /\ conns'[n] = conn
        /\ \A d \in 1 .. Len(conns) : conns'[d] = conns[d]
    BY <1>1, <1>3, <2>1
  <2>3. ASSUME NEW d \in 1 .. Len(conns')
        PROVE  conns'[d].hop <= MaxRedirects
    <3>1. CASE d \in 1 .. Len(conns)
      BY <2>2, <3>1 DEF Inv, ConnInv
    <3>2. CASE d = n
      BY <2>1, <2>2, <3>2, XhrAssumption
    <3> QED BY <1>3, <2>2, <3>1, <3>2
  <2> QED BY <2>2, <2>3
<1> HIDE DEF n, conn
<1>11. TypeOK'
  <2>1. todo' \in Seq(StepType)
    BY <1>7 DEF Stacked
  <2>2. Len(conns') <= MaxConns
    BY <1>4, <1>10
  <2> QED BY <1>1, <1>2, <1>9, <1>10, <2>1, <2>2 DEF Inv, TypeOK, StepType, XhrType
<1>12. ConnInv'
  <2>1. pending \in Seq([step : Answers, conn : ConnId, event : {""}])
    BY Facts DEF Inv
  <2>2. Len(conns') \in Nat /\ Len(conns') >= Len(conns)
    BY ONLY <1>4, <1>10
  <2>3. \A i \in 1 .. Len(steps) : steps[i].step \in Answers \cup {"create"} =>
          steps[i].conn \in 1 .. Len(conns')
    BY <1>4, <1>8, <1>10 DEF Answers
  <2> QED BY <1>1, <1>3, <1>7, <1>10, <2>1, <2>2, <2>3, ConnKept DEF Inv
<1>13. BaseInv'
  <2>1. \A i \in 1 .. Len(steps) :
          /\ steps[i].step \notin BaseSteps \cup {"data", "aborted"}
          /\ steps[i].step = "create" => i = Len(steps)
    BY <1>8 DEF BaseSteps, Answers
  <2> QED BY <1>2, <1>7, <2>1, BaseKept DEF Inv
<1>14. LoadInv'
  <2>1. LoadsOnce' /\ ~Seen("load")' /\ LoadInv
    BY <1>1, <1>2 DEF Inv, LoadInv, LoadsOnce, Seen
  <2>2. /\ \A i \in 1 .. Len(steps) : ~(steps[i].step = "emit" /\ steps[i].event = "load")
        /\ \A i \in 1 .. Len(steps) : steps[i].step # "setState"
    BY <1>8
  <2>3. xhr'.readyState # DONE
    BY <1>9 DEF OPENED, DONE
  <2> QED BY <1>2, <1>7, <2>1, <2>2, <2>3, LoadKept
<1>15. ASSUME ~nested'
       PROVE  TimerInv' /\ ResponseInv' /\ FailInv' /\ OutcomeInv'
  <2>1. /\ TimerInv /\ ResponseInv /\ FailInv /\ OutcomeInv /\ Len(todo) = 0
        /\ timers' = timers /\ events' = events
    BY <1>1, <1>2, <1>15 DEF Inv
  <2>2. timers = {} /\ \A e \in Failures : ~Seen(e)
    BY <1>1, <2>1 DEF TimerInv, FailInv
  <2>3. /\ \A s : InTodo(s)' => s \in {"emit", "create"}
        /\ \A e : Emits(e)' => e = "readystatechange"
    BY <1>8, <1>7, <2>1, NamesOnly
  <2>4. /\ ~InTodo("ended")' /\ ~InTodo("aborted")' /\ ~InTodo("data")' /\ ~InTodo("end")'
    BY <2>3
  <2>5. \A e \in {"load", "error", "timeout", "abort"} : ~Emits(e)'
    BY <2>3
  <2>6. \A e : Seen(e)' <=> Seen(e)
    BY <2>1 DEF Seen
  <2>7. TimerInv'
    BY <1>9, <2>1, <2>2, <2>4 DEF TimerInv
  <2>8. ResponseInv'
    <3>1. ~(xhr'.readyState >= HEADERS_RECEIVED)
      BY <1>9 DEF OPENED, HEADERS_RECEIVED
    <3> QED BY <2>4, <3>1 DEF ResponseInv
  <2>9. FailInv'
    BY <2>1, <2>2, <2>4, <2>5, <2>6 DEF FailInv, Failures
  <2>10. OutcomeInv'
    <3>1. ~Seen("error")'
      BY <2>2, <2>6 DEF Failures
    <3> QED BY <2>1, <2>5, <3>1 DEF OutcomeInv
  <2> QED BY <2>7, <2>8, <2>9, <2>10
<1> QED BY <1>11, <1>12, <1>13, <1>14, <1>15 DEF Inv

LEMMA AbortKeeps ==
  ASSUME Inv, Abort
  PROVE  Inv'
<1> DEFINE active == xhr.request # 0 \/ xhr.sendFlag \/ xhr.readyState \notin {UNSENT, DONE}
           emits == \/ xhr.readyState \in {HEADERS_RECEIVED, LOADING}
                    \/ xhr.readyState = OPENED /\ xhr.sendFlag
           last == Step("aborted", IF active THEN 1 ELSE 0)
           shown == SetState(xhr, DONE) \o <<last>>
           steps == (IF emits THEN SetState(xhr, DONE) ELSE <<>>) \o <<last>>
<1>1. /\ ScriptRuns /\ Called
      /\ xhr' = [xhr EXCEPT !.request = 0, !.timer = 0, !.didTimeout = FALSE,
                   !.errorFlag = TRUE,
                   !.sendFlag = IF emits THEN FALSE ELSE @,
                   !.readyState = IF emits THEN DONE ELSE @]
      /\ Calling(steps)
      /\ timers' = timers \ {xhr.timer} /\ conns' = Abandoned
      /\ pending' = pending /\ events' = events
  BY DEF Abort
<1>2. /\ todo \in Seq(StepType) /\ calls' \in 0 .. MaxCalls /\ nested' \in BOOLEAN
      /\ ~nested' => ~nested /\ Len(todo) = 0
      /\ ~Emits("load") /\ (Seen("load") => xhr.readyState # OPENED)
      /\ Seen("load") /\ xhr.sendFlag => LastIs("ended") /\ Len(todo) > 0
  BY <1>1, ScriptFacts
<1>3. xhr \in XhrType
  BY Facts DEF Inv
<1>4. last \in StepType /\ last.step = "aborted"
  <2>1. 0 \in 0 .. MaxConns /\ 1 \in 0 .. MaxConns /\ "aborted" \in Steps
    BY XhrAssumption DEF Steps
  <2>2. (IF active THEN 1 ELSE 0) \in 0 .. MaxConns
    BY <2>1
  <2> HIDE DEF active
  <2>3. last \in StepType
    BY <2>1, <2>2, StepsTyped
  <2> QED BY <2>3, StepParts
<1> HIDE DEF active
<1>5. /\ xhr' \in XhrType /\ xhr'.errorFlag = TRUE
      /\ xhr'.sendFlag => xhr.sendFlag
      /\ xhr'.readyState = DONE \/ xhr'.readyState = xhr.readyState
  <2>1. 0 \in 0 .. MaxConns /\ DONE \in UNSENT .. DONE
    BY XhrAssumption DEF UNSENT, DONE
  <2>2. CASE emits
    <3>1. xhr' = [xhr EXCEPT !.request = 0, !.timer = 0, !.didTimeout = FALSE,
                    !.errorFlag = TRUE, !.sendFlag = FALSE, !.readyState = DONE]
      BY <1>1, <2>2
    <3> QED BY <1>3, <2>1, <3>1 DEF XhrType
  <2>3. CASE ~emits
    <3>1. xhr' = [xhr EXCEPT !.request = 0, !.timer = 0, !.didTimeout = FALSE,
                    !.errorFlag = TRUE]
      BY <1>1, <1>3, <2>3 DEF XhrType
    <3> QED BY <1>3, <2>1, <3>1 DEF XhrType
  <2> QED BY <2>2, <2>3
<1> HIDE DEF last
<1>6. /\ shown \in Seq(StepType) /\ Len(shown) \in {1, 3} /\ shown[Len(shown)] = last
      /\ \A i \in 1 .. Len(shown) : \/ shown[i] = Changed
                                    \/ shown[i] = Marker /\ i = Len(shown) - 1
                                    \/ shown[i] = last /\ i = Len(shown)
  <2>1. shown = SetState(xhr, DONE) \o <<last>>
    OBVIOUS
  <2> HIDE DEF shown
  <2>2. shown \in Seq(StepType)
    BY ONLY <1>4, <2>1, SetStateThenOne
  <2>3. Len(shown) \in {1, 3}
    BY ONLY <1>4, <2>1, SetStateThenOne
  <2>4. shown[Len(shown)] = last
    BY ONLY <1>4, <2>1, SetStateThenOne
  <2>5. last \in StepType
    BY <1>4
  <2>6. \A i \in 1 .. Len(shown) : \/ shown[i] = Changed
                                   \/ shown[i] = Marker /\ i = Len(shown) - 1
                                   \/ shown[i] = last /\ i = Len(shown)
    BY ONLY <2>1, <2>5, SetStateThenOne
  <2> QED BY ONLY <2>2, <2>3, <2>4, <2>6
<1>7. steps = shown \/ steps = <<last>>
  <2>1. CASE emits
    BY <2>1
  <2>2. CASE ~emits
    <3>1. \A t \in Seq(StepType) : <<>> \o t = t
      OBVIOUS
    <3>2. <<last>> \in Seq(StepType)
      BY <1>4
    <3> QED BY <2>2, <3>1, <3>2
  <2> QED BY <2>1, <2>2
<1> HIDE DEF shown
<1>8. /\ steps \in Seq(StepType)
      /\ \A i \in 1 .. Len(steps) :
           /\ steps[i].step \in {"emit", "setState", "aborted"}
           /\ steps[i].step = "aborted" => i = Len(steps)
           /\ steps[i].step = "emit" => steps[i].event = "readystatechange"
  <2> HIDE DEF steps
  <2>1. CASE steps = shown
    <3>1. \A i \in 1 .. Len(shown) :
            /\ shown[i].step \in {"emit", "setState", "aborted"}
            /\ shown[i].step = "aborted" => i = Len(shown)
            /\ shown[i].step = "emit" => shown[i].event = "readystatechange"
      BY <1>4, <1>6, MarkerFacts
    <3> QED BY <1>6, <2>1, <3>1
  <2>2. CASE steps = <<last>>
    <3>1. /\ <<last>> \in Seq(StepType)
          /\ \A i \in 1 .. Len(<<last>>) : <<last>>[i] = last /\ i = Len(<<last>>)
      BY <1>4, Single
    <3> QED BY <1>4, <2>2, <3>1
  <2> QED BY <1>7, <2>1, <2>2
<1> HIDE DEF steps, emits
<1>9. Stacked(steps, 0)
  BY <1>1, <1>2, <1>8, CallStacks
<1>10. /\ conns' \in Seq(Conn) /\ Len(conns') = Len(conns)
       /\ \A d \in 1 .. Len(conns) : conns'[d].hop = conns[d].hop
  BY <1>1, AbandonedFacts DEF Inv
<1>11. TypeOK'
  <2>1. todo' \in Seq(StepType)
    BY <1>9 DEF Stacked
  <2> QED BY <1>1, <1>2, <1>5, <1>10, <2>1 DEF Inv, TypeOK, StepType, XhrType
<1>12. ConnInv'
  <2>1. \A i \in 1 .. Len(steps) : steps[i].step \notin Answers \cup {"create"}
    BY <1>8 DEF Answers
  <2> QED BY <1>1, <1>9, <1>10, <2>1, ConnSame DEF Inv
<1>13. BaseInv'
  <2>1. \A i \in 1 .. Len(steps) :
          /\ steps[i].step \notin BaseSteps \cup {"data", "create"}
          /\ steps[i].step = "aborted" => i = Len(steps)
    BY <1>8 DEF BaseSteps, Answers
  <2> QED BY <1>2, <1>9, <2>1, BaseKept DEF Inv
<1>14. LoadInv'
  <2>1. LoadsOnce' /\ (Seen("load")' <=> Seen("load")) /\ LoadInv
    BY <1>1 DEF Inv, LoadInv, LoadsOnce, Seen
  <2>2. \A i \in 1 .. Len(steps) : ~(steps[i].step = "emit" /\ steps[i].event = "load")
    BY <1>8
  <2>3. Seen("load")' /\ xhr'.sendFlag => LastIs("ended") /\ Len(todo) > 0
    BY <1>2, <1>5, <2>1
  <2>4. Seen("load")' => xhr'.readyState # OPENED
    BY <1>2, <1>5, <2>1 DEF DONE, OPENED
  <2> QED BY <1>2, <1>5, <1>9, <2>1, <2>2, <2>3, <2>4, LoadKept
<1>15. ASSUME ~nested'
       PROVE  TimerInv' /\ ResponseInv' /\ FailInv' /\ OutcomeInv'
  <2>1. TimerInv /\ ResponseInv /\ FailInv /\ OutcomeInv /\ Len(todo) = 0
    BY <1>2, <1>15 DEF Inv
  <2>2. timers' = {}
    BY <1>1, <2>1 DEF TimerInv
  <2>3. /\ \A s : InTodo(s)' => s \in {"emit", "setState", "aborted"}
        /\ \A e : Emits(e)' => e = "readystatechange"
    BY <1>8, <1>9, <2>1, NamesOnly
  <2>4. ~InTodo("create")' /\ ~InTodo("ended")' /\ ~InTodo("data")' /\ ~InTodo("end")'
    BY <2>3
  <2>5. \A e \in {"load", "error", "timeout", "abort"} : ~Emits(e)'
    BY <2>3
  <2>6. \A e : Seen(e)' <=> Seen(e)
    BY <1>1 DEF Seen
  <2>7. xhr.readyState # OPENED => xhr'.readyState # OPENED
    BY <1>5 DEF DONE, OPENED
  <2>8. TimerInv'
    BY <2>2, <2>4 DEF TimerInv
  <2>9. ResponseInv'
    BY <1>5, <2>4 DEF ResponseInv
  <2>10. FailInv'
    BY <1>1, <1>5, <2>1, <2>5, <2>6, <2>7 DEF FailInv, Failures
  <2>11. OutcomeInv'
    BY <1>1, <2>1, <2>2, <2>4, <2>5, <2>6 DEF OutcomeInv
  <2> QED BY <2>8, <2>9, <2>10, <2>11
<1> QED BY <1>11, <1>12, <1>13, <1>14, <1>15 DEF Inv
-----------------------------------------------------------------------------
(* The transport, the main loop and the timeout. *)
LEMMA AnswerKeeps ==
  ASSUME Inv, NEW c \in ConnId, Answer(c)
  PROVE  Inv'
<1>1. PICK kind \in Answers : pending' = Append(pending, Step(kind, c))
  BY DEF Answer
<1>2. /\ c \in DOMAIN conns /\ conns' = [conns EXCEPT ![c].phase = "over"]
      /\ UNCHANGED <<xhr, timers, todo, events, called>>
  BY DEF Answer
<1>3. /\ conns' \in Seq(Conn) /\ Len(conns') = Len(conns)
      /\ \A d \in 1 .. Len(conns) : conns'[d].hop = conns[d].hop
  BY <1>2, PhaseFacts DEF Inv
<1> DEFINE S == [step : Answers, conn : ConnId, event : {""}]
           a == Step(kind, c)
<1>4. a \in S /\ a.conn = c
  BY DEF Step
<1>5. pending \in Seq(S) /\ c \in 1 .. Len(conns)
  <2>1. conns \in Seq(Conn)
    BY DEF Inv, TypeOK
  <2>2. c \in 1 .. Len(conns)
    BY ONLY <1>2, <2>1
  <2>3. pending \in Seq(S)
    BY Facts DEF Inv
  <2> QED BY <2>2, <2>3
<1>6. pending' = Append(pending, a)
  BY <1>1
<1> HIDE DEF a, S
<1>7. /\ pending' \in Seq(S) /\ Len(pending') = Len(pending) + 1 /\ Len(pending) \in Nat
      /\ pending'[Len(pending) + 1] = a
      /\ \A i \in 1 .. Len(pending) : pending'[i] = pending[i]
  BY <1>4, <1>5, <1>6
<1>8. TypeOK'
  BY <1>2, <1>3, <1>7 DEF Inv, TypeOK, called, S
<1>9. ConnInv'
  <2>1. \A d \in 1 .. Len(conns') : conns'[d].hop <= MaxRedirects
    BY <1>3 DEF Inv, ConnInv
  <2>2. ASSUME NEW i \in 1 .. Len(pending')
        PROVE  pending'[i].conn <= Len(conns')
    <3>1. CASE i \in 1 .. Len(pending)
      BY <1>3, <1>7, <3>1 DEF Inv, ConnInv
    <3>2. CASE i = Len(pending) + 1
      BY <1>3, <1>4, <1>5, <1>7, <3>2
    <3> QED BY <1>7, <3>1, <3>2
  <2>3. \A i \in 1 .. Len(todo') : todo'[i].step \in Answers \cup {"create"} =>
          todo'[i].conn \in 1 .. Len(conns')
    BY <1>2, <1>3 DEF Inv, ConnInv
  <2> QED BY <2>1, <2>2, <2>3 DEF ConnInv
<1>10. BaseInv' /\ LoadInv'
  <2>1. BaseInv'
    BY <1>2 DEF Inv, BaseInv, called
  <2>2. LoadInv'
    BY <1>2 DEF Inv, LoadInv, LoadsOnce, Seen, LastIs, InTodo, Emits
  <2> QED BY <2>1, <2>2
<1>11. ASSUME ~nested'
       PROVE  TimerInv' /\ ResponseInv' /\ FailInv' /\ OutcomeInv'
  <2>1. /\ TimerInv /\ ResponseInv /\ FailInv /\ OutcomeInv
        /\ xhr' = xhr /\ timers' \subseteq timers /\ events' = events
    BY <1>2, <1>11 DEF Inv, called
  <2>2. (\A s : InTodo(s)' => InTodo(s)) /\ \A e : Emits(e)' => Emits(e)
    BY <1>2 DEF InTodo, Emits
  <2> QED BY <2>1, <2>2, QuietKeeps
<1> QED BY <1>8, <1>9, <1>10, <1>11 DEF Inv

LEMMA DeliverKeeps ==
  ASSUME Inv, Deliver
  PROVE  Inv'
<1> DEFINE S == [step : Answers, conn : ConnId, event : {""}]
           a == Head(pending)
           steps == <<a>>
<1>1. /\ todo = <<>> /\ pending # <<>> /\ todo' = steps /\ pending' = Tail(pending)
      /\ UNCHANGED <<xhr, timers, conns, events, called>>
  BY DEF Deliver
<1>2. pending \in Seq(S)
  BY Facts DEF Inv
<1> HIDE DEF S
<1>3. /\ pending' \in Seq(S) /\ Len(pending) \in Nat \ {0}
      /\ Len(pending') = Len(pending) - 1
      /\ \A i \in 1 .. (Len(pending) - 1) : pending'[i] = pending[i + 1]
      /\ a = pending[1] /\ 1 \in 1 .. Len(pending)
  BY <1>1, <1>2, RestFacts
<1>4. a \in S
  BY <1>2, <1>3, ElementOfSeq
<1>5. a \in StepType /\ a.step \in Answers /\ a.conn \in 1 .. Len(conns)
  <2>1. a.step \in Answers /\ a.conn \in ConnId /\ a.event = ""
    BY <1>4 DEF S
  <2>2. a.conn <= Len(conns)
    BY <1>3 DEF Inv, ConnInv
  <2>3. Len(conns) \in Nat
    BY Facts DEF Inv
  <2>4. a.conn \in 1 .. Len(conns)
    <3>1. \A n \in ConnId : n \in Nat /\ n >= 1
      BY XhrAssumption DEF ConnId
    <3>2. a.conn \in Nat /\ a.conn >= 1
      BY <2>1, <3>1
    <3> QED BY ONLY <2>2, <2>3, <3>2
  <2>5. a \in StepType
    <3>1. ConnId \subseteq 0 .. MaxConns /\ Answers \subseteq Steps
      BY XhrAssumption DEF ConnId, Steps
    <3> QED BY <1>4, <3>1 DEF S, StepType
  <2> QED BY <2>1, <2>4, <2>5
<1> HIDE DEF a
<1>6. /\ steps \in Seq(StepType) /\ Len(steps) = 1
      /\ \A i \in 1 .. Len(steps) : steps[i] = a
  BY <1>5, Single
<1> HIDE DEF steps
<1>7. Stacked(steps, 0) /\ Len(todo) = 0
  BY <1>1, <1>6, EmptyStacks
<1>8. \A i \in 1 .. Len(steps) :
        /\ steps[i].step \in Answers /\ steps[i].conn \in 1 .. Len(conns)
        /\ i = Len(steps)
  BY <1>5, <1>6
<1>9. TypeOK'
  <2>1. todo' \in Seq(StepType)
    BY <1>7 DEF Stacked
  <2> QED BY <1>1, <1>3, <2>1 DEF Inv, TypeOK, StepType, S, called
<1>10. ConnInv'
  <2>1. \A d \in 1 .. Len(conns') : conns'[d].hop <= MaxRedirects
    BY <1>1 DEF Inv, ConnInv
  <2>2. ASSUME NEW i \in 1 .. Len(pending')
        PROVE  pending'[i].conn <= Len(conns')
    <3>1. i + 1 \in 1 .. Len(pending) /\ pending'[i] = pending[i + 1]
      BY <1>3
    <3> QED BY <1>1, <3>1 DEF Inv, ConnInv
  <2>3. ASSUME NEW i \in 1 .. Len(todo')
        PROVE  todo'[i].conn \in 1 .. Len(conns')
    BY <1>1, <1>8
  <2> QED BY <2>1, <2>2, <2>3 DEF ConnInv
<1>11. BaseInv'
  <2>1. \A i \in 1 .. Len(steps) :
          i = Len(steps) /\ steps[i].step \notin {"create", "aborted", "data"}
    BY <1>8 DEF Answers
  <2> QED BY <1>1, <1>7, <2>1, BaseKept DEF Inv, called
<1>12. LoadInv'
  <2>1. LoadsOnce' /\ (Seen("load")' <=> Seen("load")) /\ LoadInv /\ xhr' = xhr
    BY <1>1 DEF Inv, LoadInv, LoadsOnce, Seen
  <2>2. /\ ~Emits("load") /\ (Seen("load") => xhr.readyState # OPENED)
        /\ Seen("load") /\ xhr.sendFlag => LastIs("ended") /\ Len(todo) > 1
    BY <1>1, OtherTop
  <2>3. /\ \A i \in 1 .. Len(steps) : ~(steps[i].step = "emit" /\ steps[i].event = "load")
        /\ \A i \in 1 .. Len(steps) : steps[i].step # "setState"
    BY <1>8 DEF Answers
  <2>4. Seen("load")' /\ xhr'.sendFlag => LastIs("ended") /\ Len(todo) > 0
    BY <1>7, <2>1, <2>2
  <2>5. Seen("load")' => xhr'.readyState # OPENED
    BY <2>1, <2>2
  <2> QED BY <1>7, <2>1, <2>2, <2>3, <2>4, <2>5, LoadKept
<1>13. ASSUME ~nested'
       PROVE  TimerInv' /\ ResponseInv' /\ FailInv' /\ OutcomeInv'
  <2>1. /\ TimerInv /\ ResponseInv /\ FailInv /\ OutcomeInv
        /\ xhr' = xhr /\ timers' \subseteq timers /\ events' = events
    BY <1>1, <1>13 DEF Inv, called
  <2>2. (\A s : InTodo(s)' => s \in Answers) /\ \A e : ~Emits(e)'
    <3>1. \A i \in 1 .. Len(steps) : steps[i].step \in Answers /\ steps[i].step # "emit"
      BY <1>8 DEF Answers
    <3> QED BY <1>7, <3>1, NamesOnly
  <2>3. \A s \in {"create", "ended", "data", "end", "aborted"} : ~InTodo(s)'
    BY <2>2 DEF Answers
  <2> QED BY <2>1, <2>2, <2>3, QuietKeeps
<1> QED BY <1>9, <1>10, <1>11, <1>12, <1>13 DEF Inv

(* A request that was sent and has not loaded times out; another stays as it is. *)
LEMMA TimeoutKeeps ==
  ASSUME Inv, NEW t \in timers, Timeout(t)
  PROVE  Inv'
<1>1. /\ todo = <<>> /\ timers' = timers \ {t} /\ UNCHANGED <<pending, events, called>>
      /\ nested' = nested
  BY DEF Timeout, called
<1>2. /\ ~Emits("load") /\ (Seen("load") => xhr.readyState # OPENED)
      /\ Seen("load") /\ xhr.sendFlag => LastIs("ended") /\ Len(todo) > 1
  BY <1>1, OtherTop
<1>3. CASE ~xhr.sendFlag
  <2>1. conns' = conns /\ xhr' = xhr /\ todo' = todo
    BY <1>3 DEF Timeout
  <2>2. TypeOK'
    BY <1>1, <2>1 DEF Inv, TypeOK, called
  <2>3. ConnInv'
    BY <1>1, <2>1 DEF Inv, ConnInv
  <2>4. BaseInv'
    BY <1>1, <2>1 DEF Inv, BaseInv
  <2>5. LoadInv'
    BY <1>1, <2>1 DEF Inv, LoadInv, LoadsOnce, Seen, LastIs, InTodo, Emits
  <2>6. ASSUME ~nested'
        PROVE  TimerInv' /\ ResponseInv' /\ FailInv' /\ OutcomeInv'
    <3>1. /\ TimerInv /\ ResponseInv /\ FailInv /\ OutcomeInv
          /\ xhr' = xhr /\ timers' \subseteq timers /\ events' = events
      BY <1>1, <2>1, <2>6 DEF Inv
    <3>2. (\A s : InTodo(s)' => InTodo(s)) /\ \A e : Emits(e)' => Emits(e)
      BY <2>1 DEF InTodo, Emits
    <3> QED BY <3>1, <3>2, QuietKeeps
  <2> QED BY <2>2, <2>3, <2>4, <2>5, <2>6 DEF Inv
<1>4. CASE xhr.sendFlag
  <2> DEFINE a == Emit("timeout")
             b == Emit("loadend")
             steps == SetState(xhr, DONE) \o <<a, b>>
  <2>1. /\ conns' = Abandoned /\ todo' = steps
        /\ xhr' = [xhr EXCEPT !.didTimeout = TRUE, !.request = 0, !.errorFlag = TRUE,
                     !.sendFlag = FALSE, !.readyState = DONE]
    BY <1>4 DEF Timeout
  <2>2. /\ a \in StepType /\ a.step = "emit" /\ a.event = "timeout"
        /\ b \in StepType /\ b.step = "emit" /\ b.event = "loadend"
    <3>1. a \in StepType /\ b \in StepType
      BY StepsTyped DEF Events
    <3> QED BY <3>1 DEF Emit
  <2> HIDE DEF a, b
  <2>3. /\ steps \in Seq(StepType)
        /\ \A i \in 1 .. Len(steps) : steps[i] \in {Changed, Marker, a, b}
    <3>1. steps = SetState(xhr, DONE) \o <<a, b>>
      OBVIOUS
    <3> HIDE DEF steps
    <3>2. a \in StepType /\ b \in StepType
      BY <2>2
    <3> QED BY ONLY <3>1, <3>2, SetStateThenTwo
  <2> HIDE DEF steps
  <2>4. Stacked(steps, 0) /\ Len(todo) = 0
    BY <1>1, <2>1, <2>3, EmptyStacks
  <2>5. \A i \in 1 .. Len(steps) :
          /\ steps[i].step \in {"emit", "setState"}
          /\ steps[i].step = "emit" =>
               steps[i].event \in {"readystatechange", "timeout", "loadend"}
    BY <2>2, <2>3, MarkerFacts
  <2>6. /\ xhr' \in XhrType /\ xhr'.readyState = DONE /\ xhr'.errorFlag = TRUE
        /\ xhr'.sendFlag = FALSE /\ xhr'.timer = xhr.timer
    <3>1. xhr \in XhrType
      BY Facts DEF Inv
    <3>2. 0 \in 0 .. MaxConns /\ DONE \in UNSENT .. DONE
      BY XhrAssumption DEF UNSENT, DONE
    <3> QED BY <2>1, <3>1, <3>2 DEF XhrType
  <2>7. /\ conns' \in Seq(Conn) /\ Len(conns') = Len(conns)
        /\ \A d \in 1 .. Len(conns) : conns'[d].hop = conns[d].hop
    BY <2>1, AbandonedFacts DEF Inv
  <2>8. TypeOK'
    <3>1. todo' \in Seq(StepType)
      BY <2>4 DEF Stacked
    <3> QED BY <1>1, <2>6, <2>7, <3>1 DEF Inv, TypeOK, StepType, XhrType, called
  <2>9. ConnInv'
    <3>1. \A i \in 1 .. Len(steps) : steps[i].step \notin Answers \cup {"create"}
      BY <2>5 DEF Answers
    <3> QED BY <1>1, <2>4, <2>7, <3>1, ConnSame DEF Inv
  <2>10. BaseInv'
    <3>1. \A i \in 1 .. Len(steps) :
            steps[i].step \notin BaseSteps \cup {"data", "create", "aborted"}
      BY <2>5 DEF BaseSteps, Answers
    <3> QED BY <1>1, <2>4, <3>1, BaseKept DEF Inv
  <2>11. LoadInv'
    <3>1. LoadsOnce' /\ (Seen("load")' <=> Seen("load")) /\ LoadInv
      BY <1>1 DEF Inv, LoadInv, LoadsOnce, Seen
    <3>2. \A i \in 1 .. Len(steps) : ~(steps[i].step = "emit" /\ steps[i].event = "load")
      BY <2>5
    <3>3. xhr'.readyState # OPENED
      BY <2>6 DEF OPENED, DONE
    <3> QED BY <1>2, <2>4, <2>6, <3>1, <3>2, <3>3, LoadKept
  <2>12. ASSUME ~nested'
         PROVE  TimerInv' /\ ResponseInv' /\ FailInv' /\ OutcomeInv'
    <3>1. TimerInv /\ ResponseInv /\ FailInv /\ OutcomeInv /\ events' = events
      BY <1>1, <2>12 DEF Inv
    <3>2. timers' = {}
      BY <1>1, <3>1 DEF TimerInv
    <3>3. /\ \A s : InTodo(s)' => s \in {"emit", "setState"}
          /\ \A e : Emits(e)' => e \in {"readystatechange", "timeout", "loadend"}
      BY <2>4, <2>5, NamesOnly
    <3>4. \A s \in {"create", "ended", "data", "end", "aborted"} : ~InTodo(s)'
      BY <3>3
    <3>5. \A e \in {"load", "error", "abort"} : ~Emits(e)'
      BY <3>3
    <3>6. \A e : Seen(e)' <=> Seen(e)
      BY <1>1 DEF Seen
    <3>7. ~Seen("load") /\ ~Seen("error")
      <4>1. ~Seen("load")
        BY <1>2, <1>4, <2>4
      <4>2. ~Seen("error")
        BY <3>1 DEF OutcomeInv
      <4> QED BY <4>1, <4>2
    <3>8. TimerInv'
      BY <3>2, <3>4 DEF TimerInv
    <3>9. ResponseInv'
      BY <2>6, <3>4 DEF ResponseInv
    <3>10. FailInv'
      <4>1. xhr'.readyState # OPENED
        BY <2>6 DEF OPENED, DONE
      <4> QED BY <2>6, <3>1, <3>4, <3>5, <4>1 DEF FailInv
    <3>11. OutcomeInv'
      BY <3>1, <3>2, <3>4, <3>5, <3>6, <3>7 DEF OutcomeInv
    <3> QED BY <3>8, <3>9, <3>10, <3>11
  <2> QED BY <2>8, <2>9, <2>10, <2>11, <2>12 DEF Inv
<1> QED BY <1>3, <1>4

LEMMA StutterKeeps ==
  ASSUME Inv, UNCHANGED vars
  PROVE  Inv'
<1>1. /\ UNCHANGED <<xhr, timers, conns, pending, todo, events, calls, nested>>
      /\ timers' \subseteq timers
  BY DEF vars
<1>2. TypeOK'
  BY <1>1 DEF Inv, TypeOK
<1>3. ConnInv'
  BY <1>1 DEF Inv, ConnInv
<1>4. BaseInv'
  BY <1>1 DEF Inv, BaseInv
<1>5. LoadInv'
  BY <1>1 DEF Inv, LoadInv, LoadsOnce, Seen, LastIs, InTodo, Emits
<1>6. (\A s : InTodo(s)' => InTodo(s)) /\ \A e : Emits(e)' => Emits(e)
  BY <1>1 DEF InTodo, Emits
<1>7. ~nested' => TimerInv' /\ ResponseInv' /\ FailInv' /\ OutcomeInv'
  BY <1>1, <1>6, QuietKeeps DEF Inv
<1> QED BY <1>2, <1>3, <1>4, <1>5, <1>7 DEF Inv
-----------------------------------------------------------------------------
LEMMA InitInv == Init => Inv
<1> SUFFICES ASSUME Init
             PROVE  Inv
  OBVIOUS
<1>1. /\ xhr = [readyState |-> UNSENT, sendFlag |-> FALSE, errorFlag |-> FALSE,
                didTimeout |-> FALSE, request |-> 0, response |-> 0, timer |-> 0]
      /\ timers = {} /\ conns = <<>> /\ pending = <<>> /\ todo = <<>> /\ events = <<>>
      /\ calls = 0 /\ nested = FALSE
  BY DEF Init
<1>2. 0 \in 0 .. MaxConns /\ 0 <= MaxConns /\ 0 \in 0 .. MaxCalls /\ UNSENT \in UNSENT .. DONE
  BY XhrAssumption DEF UNSENT, DONE
<1>3. xhr \in XhrType /\ xhr.readyState = UNSENT
  BY <1>1, <1>2 DEF XhrType
<1>4. Len(conns) = 0 /\ Len(pending) = 0 /\ Len(todo) = 0 /\ Len(events) = 0
  BY <1>1
<1>5. TypeOK
  <2>1. /\ conns \in Seq(Conn) /\ events \in Seq(Events) /\ todo \in Seq(StepType)
        /\ pending \in Seq([step : Answers, conn : ConnId, event : {""}])
    BY <1>1
  <2> QED BY <1>1, <1>2, <1>3, <1>4, <2>1 DEF TypeOK, XhrType, StepType
<1>6. (\A e : ~Seen(e)) /\ (\A e : ~Emits(e)) /\ (\A s : ~InTodo(s)) /\ LoadsOnce
  BY <1>1, <1>4 DEF Seen, Emits, InTodo, LoadsOnce
<1>7. ConnInv /\ BaseInv
  BY <1>4 DEF ConnInv, BaseInv
<1>8. LoadInv
  BY <1>3, <1>4, <1>6 DEF LoadInv, UNSENT, OPENED, DONE
<1>9. TimerInv /\ ResponseInv
  BY <1>1, <1>3, <1>6 DEF TimerInv, ResponseInv, UNSENT, OPENED, HEADERS_RECEIVED
<1>10. FailInv /\ OutcomeInv
  BY <1>1, <1>4, <1>6 DEF FailInv, OutcomeInv
<1> QED BY <1>5, <1>7, <1>8, <1>9, <1>10 DEF Inv

LEMMA NextKeeps == Inv /\ [Next]_vars => Inv'
<1> SUFFICES ASSUME Inv, [Next]_vars
             PROVE  Inv'
  OBVIOUS
<1>1. CASE Script
  BY <1>1, OpenKeeps, SendBadUrlKeeps, SendKeeps, AbortKeeps DEF Script
<1>2. CASE Runs
  <2>1. CASE DispatchEvent
    BY <2>1, DispatchEventKeeps
  <2>2. CASE ListenerReturns
    BY <2>2, ListenerReturnsKeeps
  <2>3. CASE SetStateDone
    BY <2>3, SetStateDoneKeeps
  <2>4. CASE AbortDone
    BY <2>4, AbortDoneKeeps
  <2>5. ASSUME NEW c \in ConnId,
               \/ CreateFails(c) \/ (\E timeout \in BOOLEAN : Create(c, timeout))
               \/ Response(c) \/ Status(c) \/ Data(c) \/ End(c) \/ EndDone(c)
               \/ Redirect(c) \/ Error(c) \/ AbortUnheard(c)
        PROVE  Inv'
    BY <2>5, CreateFailsKeeps, CreateKeeps, ResponseKeeps, StatusKeeps, DataKeeps, EndKeeps,
       EndDoneKeeps, RedirectKeeps, ErrorKeeps, AbortUnheardKeeps
  <2> QED BY <1>2, <2>1, <2>2, <2>3, <2>4, <2>5 DEF Runs
<1>3. CASE Deliver
  BY <1>3, DeliverKeeps
<1>4. CASE TimersFire
  BY <1>4, TimeoutKeeps DEF TimersFire
<1>5. CASE \E c \in ConnId : Answer(c)
  BY <1>5, AnswerKeeps
<1>6. CASE UNCHANGED vars
  BY <1>6, StutterKeeps
<1> QED BY <1>1, <1>2, <1>3, <1>4, <1>5, <1>6 DEF Next

LEMMA Invariant == Spec => []Inv
<1>1. Init => Inv
  BY InitInv
<1>2. Inv /\ [Next]_vars => Inv'
  BY NextKeeps
<1> QED BY <1>1, <1>2, PTL DEF Spec

(* Between two calls the object can rely on its own record of the request: a
   response to read headers from past OPENED, the one timeout installed named by
   requestTimeoutId, and a bounded chain of redirections, whatever answers come late.
   (The first two until a listener calls a method: nested.) *)
THEOREM RequestKept == Spec => []RequestTracked
<1>1. Inv => RequestTracked
  <2> SUFFICES ASSUME Inv
               PROVE  RequestTracked
    OBVIOUS
  <2>1. HeadersReadable /\ TimeoutTracked
    BY DEF Inv, ResponseInv, TimerInv, HeadersReadable, TimeoutTracked
  <2>2. RedirectsBounded
    <3>1. conns \in Seq(Conn)
      BY DEF Inv, TypeOK
    <3>2. DOMAIN conns = 1 .. Len(conns)
      BY <3>1
    <3> QED BY <3>2 DEF Inv, ConnInv, RedirectsBounded
  <2> QED BY <2>1, <2>2 DEF Inv, RequestTracked
<1> QED BY <1>1, Invariant, PTL

(* A request ends in one way: a load comes once per open, even with listeners that
   call methods in the middle of others, and until one does so no load follows a
   failure, nor a timeout a load or an error. *)
THEOREM EndsOneWay == Spec => []OneOutcome
<1>1. Inv => OneOutcome
  <2> SUFFICES ASSUME Inv
               PROVE  OneOutcome
    OBVIOUS
  <2>1. DOMAIN events = 1 .. Len(events)
    <3>1. events \in Seq(Events)
      BY DEF Inv, TypeOK
    <3> QED BY <3>1
  <2>2. LoadsOnce
    BY DEF Inv, LoadInv
  <2>3. ~nested => FailInv /\ OutcomeInv
    BY DEF Inv
  <2>4. FailureIsFinal
    BY <2>1, <2>3 DEF FailInv, Failures, FailureIsFinal
  <2>5. TimeoutBeforeOutcome
    BY <2>1, <2>3 DEF OutcomeInv, TimeoutBeforeOutcome
  <2> QED BY <2>2, <2>4, <2>5 DEF OneOutcome
<1> QED BY <1>1, Invariant, PTL
=============================================================================
