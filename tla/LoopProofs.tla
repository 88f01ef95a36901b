------------------------------ MODULE LoopProofs -------------------------------
(***************************************************************************)
(* Proofs about what the main loop dispatches: Timers, for any number of    *)
(* timers, any length of time and any delays, and Contexts, for any         *)
(* addresses, any set of requests and any number of contexts and events.    *)
(***************************************************************************)
EXTENDS Timers, Contexts, FiniteSetTheorems, FunctionTheorems, SequenceTheorems,
        TLAPS

(* The timers. *)

(* Only allocated timers are anywhere, and a callback is one of a timer. *)
AllocatedInv ==
  /\ objects \subseteq 1 .. installed /\ cleared \subseteq 1 .. installed
  /\ fired \subseteq 1 .. installed
  /\ pc = "callback" <=> current # 0

(* A cleared timer is marked, and a marked one sorts before every other, which
   is why the walk of the queue never stops in front of one. *)
CanceledInv ==
  /\ heapOk
  /\ \A t \in cleared : info[t].canceled
  /\ \A t \in Timer : info[t].canceled => info[t].fireTime = Minimum

(* What ran in this pass is out of the queue, and what waits again repeats. *)
PassInv ==
  /\ inPass \subseteq fired
  /\ timeoutQueue \cap inPass = {}
  /\ pc = "idle" => repeats = {} /\ inPass = {}
  /\ \A t \in fired \cap (timeoutQueue \cup repeats) : info[t].repeat

TimerInv ==
  /\ TimerTypeOK /\ OneOwner /\ ReachableByTag
  /\ AllocatedInv /\ CanceledInv /\ PassInv
-----------------------------------------------------------------------------
LEMMA InvInit == TimerInit => TimerInv
<1> SUFFICES ASSUME TimerInit PROVE TimerInv
  OBVIOUS
<1>1. TimerTypeOK
  <2>1. info \in [Timer -> TimeoutInfo]
    BY DEF TimerInit, Timer, TimeoutInfo, Minimum
  <2>2. /\ installed \in 0 .. MaxTimers /\ current \in 0 .. MaxTimers
        /\ passTime \in Nat /\ now \in Nat
    BY TimerAssumption DEF TimerInit
  <2> QED BY <2>1, <2>2 DEF TimerTypeOK, TimerInit
<1>2. OneOwner /\ ReachableByTag
  BY DEF TimerInit, OneOwner, ReachableByTag
<1>3. AllocatedInv /\ PassInv
  BY DEF TimerInit, AllocatedInv, PassInv
<1>4. CanceledInv
  BY DEF TimerInit, CanceledInv, Timer
<1> QED BY <1>1, <1>2, <1>3, <1>4 DEF TimerInv

(* What the timers hold. *)
LEMMA TimerFacts ==
  ASSUME TimerTypeOK, NEW t \in Timer
  PROVE  /\ t \in Nat \ {0} /\ t \in Int
         /\ info[t].fireTime \in Nat /\ info[t].interval \in Nat
         /\ info[t].repeat \in BOOLEAN /\ info[t].canceled \in BOOLEAN
BY TimerAssumption DEF TimerTypeOK, Timer, TimeoutInfo

(* installTimeout: the tag is one that nothing refers to. *)
LEMMA InstallStep ==
  ASSUME TimerInv, NEW i \in Intervals, NEW r \in BOOLEAN, InstallTimeout(i, r)
  PROVE  TimerInv'
<1> DEFINE n == installed + 1
<1>1. /\ n \in Timer /\ installed' = n /\ n \in 1 .. MaxTimers /\ n # 0
      /\ n \notin 1 .. installed /\ 1 .. n = (1 .. installed) \cup {n}
      /\ installed \in Nat
  BY TimerAssumption DEF TimerInv, TimerTypeOK, InstallTimeout, Timer
<1>2. now + Delay(i) \in Nat /\ Delay(i) \in Nat
  BY TimerAssumption DEF TimerInv, TimerTypeOK, Delay
<1>3. /\ info' = [info EXCEPT ![n] =
                     [fireTime |-> now + Delay(i), interval |-> Delay(i),
                      repeat |-> r, canceled |-> FALSE]]
      /\ objects' = objects \cup {n} /\ timeoutMap' = timeoutMap \cup {n}
      /\ timeoutQueue' = timeoutQueue \cup {n}
      /\ UNCHANGED <<heapOk, repeats, current, passTime, now, pc, cleared, fired,
                     inPass>>
  BY <1>1 DEF InstallTimeout, history
<1> HIDE DEF n
<1>4. info' \in [Timer -> TimeoutInfo]
  BY <1>1, <1>2, <1>3 DEF TimerInv, TimerTypeOK, TimeoutInfo
<1>5. /\ ~info'[n].canceled
      /\ \A t \in Timer : t # n => info'[t] = info[t]
  BY <1>1, <1>2, <1>3 DEF TimerInv, TimerTypeOK
<1>6. /\ n \notin objects /\ n \notin cleared /\ n \notin fired /\ n \notin inPass
      /\ n \notin timeoutQueue /\ n \notin repeats /\ n # current
  BY <1>1 DEF TimerInv, AllocatedInv, PassInv, OneOwner
<1>7. TimerTypeOK'
  <2>1. installed' \in 0 .. MaxTimers
    BY <1>1
  <2> QED BY <2>1, <1>1, <1>3, <1>4 DEF TimerInv, TimerTypeOK
<1>8. OneOwner'
  BY <1>1, <1>3, <1>6 DEF TimerInv, OneOwner
<1>9. ReachableByTag'
  BY <1>1, <1>3, <1>5, <1>6 DEF TimerInv, TimerTypeOK, ReachableByTag
<1>10. AllocatedInv'
  BY <1>1, <1>3 DEF TimerInv, AllocatedInv
<1>11. CanceledInv'
  BY <1>3, <1>5, <1>6 DEF TimerInv, TimerTypeOK, CanceledInv
<1>12. PassInv'
  <2>1. (timeoutQueue \cap inPass = {})' /\ (inPass \subseteq fired)'
    BY <1>3, <1>6 DEF TimerInv, PassInv
  <2>2. (\A t \in fired \cap (timeoutQueue \cup repeats) : info[t].repeat)'
    BY <1>3, <1>5, <1>6 DEF TimerInv, TimerTypeOK, PassInv
  <2> QED BY <2>1, <2>2, <1>3 DEF TimerInv, PassInv, InstallTimeout
<1> QED BY <1>7, <1>8, <1>9, <1>10, <1>11, <1>12 DEF TimerInv

(* clearTimeout: the object keeps its place, and its tag is gone. *)
LEMMA ClearStep ==
  ASSUME TimerInv, NEW tag \in Timer, ClearTimeout(tag)
  PROVE  TimerInv'
<1>1. /\ info' = [info EXCEPT ![tag].fireTime = 0, ![tag].canceled = TRUE]
      /\ timeoutMap' = timeoutMap \ {tag} /\ cleared' = cleared \cup {tag}
      /\ UNCHANGED <<installed, objects, timeoutQueue, repeats, current, passTime,
                     now, pc, fired, inPass>>
      /\ heapOk' = TRUE
  BY DEF ClearTimeout, Minimum, TimerInv, CanceledInv
<1>2. tag \in objects
  BY DEF ClearTimeout, TimerInv, ReachableByTag
<1>3. info' \in [Timer -> TimeoutInfo]
  BY <1>1 DEF TimerInv, TimerTypeOK, TimeoutInfo
<1>4. /\ info'[tag].canceled = TRUE /\ info'[tag].fireTime = 0
      /\ info'[tag].repeat = info[tag].repeat
      /\ \A t \in Timer : t # tag => info'[t] = info[t]
  BY <1>1 DEF TimerInv, TimerTypeOK, TimeoutInfo
<1>5. TimerTypeOK'
  BY <1>1, <1>3 DEF TimerInv, TimerTypeOK
<1>6. OneOwner'
  BY <1>1 DEF TimerInv, OneOwner
<1>7. ReachableByTag'
  BY <1>1, <1>4 DEF TimerInv, TimerTypeOK, ReachableByTag
<1>8. AllocatedInv'
  BY <1>1, <1>2 DEF TimerInv, AllocatedInv
<1>9. CanceledInv'
  BY <1>1, <1>4 DEF TimerInv, TimerTypeOK, CanceledInv, Minimum
<1>10. PassInv'
  BY <1>1, <1>4 DEF TimerInv, TimerTypeOK, PassInv
<1> QED BY <1>5, <1>6, <1>7, <1>8, <1>9, <1>10 DEF TimerInv

(* A cancelled timer leaves the queue and is deleted. *)
LEMMA DropStep ==
  ASSUME TimerInv, NEW t \in timeoutQueue, DropCanceled(t)
  PROVE  TimerInv'
<1>1. /\ info[t].canceled /\ pc = "pass"
      /\ timeoutQueue' = timeoutQueue \ {t} /\ objects' = objects \ {t}
      /\ UNCHANGED <<installed, info, timeoutMap, heapOk, repeats, current,
                     passTime, now, pc, cleared, fired, inPass>>
  BY DEF DropCanceled, history
<1>2. TimerTypeOK'
  BY <1>1 DEF TimerInv, TimerTypeOK
<1>3. OneOwner'
  BY <1>1 DEF TimerInv, OneOwner
<1>4. ReachableByTag'
  BY <1>1 DEF TimerInv, ReachableByTag
<1>5. AllocatedInv' /\ PassInv'
  BY <1>1 DEF TimerInv, AllocatedInv, PassInv
<1>6. CanceledInv'
  BY <1>1 DEF TimerInv, CanceledInv
<1> QED BY <1>2, <1>3, <1>4, <1>5, <1>6 DEF TimerInv

(* A due timer passes from the queue to its callback. *)
LEMMA FireStep ==
  ASSUME TimerInv, NEW t \in timeoutQueue, Fire(t)
  PROVE  TimerInv'
<1>1. /\ ~info[t].canceled /\ pc = "pass" /\ pc' = "callback"
      /\ timeoutQueue' = timeoutQueue \ {t} /\ current' = t
      /\ fired' = fired \cup {t} /\ inPass' = inPass \cup {t}
      /\ UNCHANGED <<installed, info, objects, timeoutMap, heapOk, repeats,
                     passTime, now, cleared>>
  BY DEF Fire
<1>2. t \in Timer /\ t # 0 /\ t \in 0 .. MaxTimers /\ t \in objects /\ current = 0
      /\ t \notin repeats
  <2>1. t \in Timer /\ t # 0 /\ t \in 0 .. MaxTimers
    BY DEF TimerInv, TimerTypeOK, Timer
  <2> QED BY <2>1, <1>1 DEF TimerInv, OneOwner, AllocatedInv
<1>3. TimerTypeOK'
  BY <1>1, <1>2 DEF TimerInv, TimerTypeOK
<1>4. OneOwner'
  BY <1>1, <1>2 DEF TimerInv, OneOwner
<1>5. ReachableByTag'
  BY <1>1 DEF TimerInv, ReachableByTag
<1>6. AllocatedInv'
  BY <1>1, <1>2 DEF TimerInv, AllocatedInv
<1>7. CanceledInv'
  BY <1>1 DEF TimerInv, CanceledInv
<1>8. PassInv'
  BY <1>1, <1>2 DEF TimerInv, PassInv
<1> QED BY <1>3, <1>4, <1>5, <1>6, <1>7, <1>8 DEF TimerInv

(* The timer whose callback runs. *)
LEMMA RunningFacts ==
  ASSUME TimerInv, pc = "callback"
  PROVE  /\ current \in Timer /\ current # 0 /\ current \in objects
         /\ current \notin timeoutQueue /\ current \notin repeats
         /\ 0 \in 0 .. MaxTimers /\ 0 \notin timeoutQueue \cup repeats
<1>1. current \in Timer /\ current # 0 /\ 0 \in 0 .. MaxTimers /\ 0 \notin Timer
  BY TimerAssumption DEF TimerInv, TimerTypeOK, AllocatedInv, Timer
<1> QED BY <1>1 DEF TimerInv, TimerTypeOK, OneOwner

(* A timer that is over is deleted, its tag with it. *)
LEMMA DeleteStep ==
  ASSUME TimerInv, NEW rc \in {0, 1}, DeleteAfterCallback(rc)
  PROVE  TimerInv'
<1>1. /\ pc = "callback" /\ pc' = "pass" /\ current' = 0
      /\ timeoutMap' = IF info[current].canceled THEN timeoutMap
                       ELSE timeoutMap \ {current}
      /\ objects' = objects \ {current}
      /\ UNCHANGED <<installed, info, timeoutQueue, heapOk, repeats, passTime, now,
                     cleared, fired, inPass>>
  BY DEF DeleteAfterCallback, history
<1>2. /\ current \in Timer /\ current # 0 /\ current \in objects
      /\ current \notin timeoutQueue /\ current \notin repeats
      /\ 0 \in 0 .. MaxTimers /\ 0 \notin timeoutQueue \cup repeats
  BY <1>1, RunningFacts
<1>3. TimerTypeOK'
  BY <1>1, <1>2 DEF TimerInv, TimerTypeOK
<1>4. OneOwner'
  BY <1>1, <1>2 DEF TimerInv, OneOwner
<1>5. ReachableByTag'
  BY <1>1, <1>2 DEF TimerInv, ReachableByTag
<1>6. AllocatedInv' /\ PassInv'
  BY <1>1 DEF TimerInv, AllocatedInv, PassInv
<1>7. CanceledInv'
  BY <1>1 DEF TimerInv, CanceledInv
<1> QED BY <1>3, <1>4, <1>5, <1>6, <1>7 DEF TimerInv

(* An interval is set aside with its next deadline. *)
LEMMA RepeatStep ==
  ASSUME TimerInv, NEW rc \in {0, 1}, RepeatAfterCallback(rc)
  PROVE  TimerInv'
<1> DEFINE due == passTime + info[current].interval
<1>1. /\ pc = "callback" /\ pc' = "pass" /\ current' = 0
      /\ info[current].repeat /\ ~info[current].canceled
      /\ info' = [info EXCEPT ![current].fireTime = due]
      /\ repeats' = repeats \cup {current}
      /\ UNCHANGED <<installed, objects, timeoutQueue, heapOk, timeoutMap, passTime,
                     now, cleared, fired, inPass>>
  BY DEF RepeatAfterCallback, history, Finished
<1>2. /\ current \in Timer /\ current # 0 /\ current \in objects
      /\ current \notin timeoutQueue /\ current \notin repeats
      /\ 0 \in 0 .. MaxTimers /\ 0 \notin timeoutQueue \cup repeats
  BY <1>1, RunningFacts
<1>3. due \in Nat
  BY <1>2, TimerFacts DEF TimerInv, TimerTypeOK
<1> HIDE DEF due
<1>4. info' \in [Timer -> TimeoutInfo]
  BY <1>1, <1>2, <1>3 DEF TimerInv, TimerTypeOK, TimeoutInfo
<1>5. /\ info'[current].repeat /\ ~info'[current].canceled
      /\ \A t \in Timer : t # current => info'[t] = info[t]
      /\ \A t \in Timer : /\ info'[t].canceled = info[t].canceled
                          /\ info'[t].repeat = info[t].repeat
  BY <1>1, <1>2, <1>3 DEF TimerInv, TimerTypeOK, TimeoutInfo
<1>6. TimerTypeOK'
  BY <1>1, <1>2, <1>4 DEF TimerInv, TimerTypeOK
<1>7. OneOwner'
  BY <1>1, <1>2 DEF TimerInv, OneOwner
<1>8. ReachableByTag'
  BY <1>1, <1>5 DEF TimerInv, TimerTypeOK, ReachableByTag
<1>9. AllocatedInv'
  BY <1>1 DEF TimerInv, AllocatedInv
<1>10. CanceledInv'
  <2>1. (heapOk /\ \A t \in cleared : info[t].canceled)'
    BY <1>1, <1>5 DEF TimerInv, TimerTypeOK, CanceledInv
  <2>2. (\A t \in Timer : info[t].canceled => info[t].fireTime = Minimum)'
    BY <1>5 DEF TimerInv, CanceledInv
  <2> QED BY <2>1, <2>2 DEF CanceledInv
<1>11. PassInv'
  BY <1>1, <1>5 DEF TimerInv, TimerTypeOK, PassInv
<1> QED BY <1>6, <1>7, <1>8, <1>9, <1>10, <1>11 DEF TimerInv

(* pushTimeouts: the intervals are back in the queue. *)
LEMMA EndStep ==
  ASSUME TimerInv, EndPass
  PROVE  TimerInv'
<1>1. /\ pc = "pass" /\ pc' = "idle" /\ heapOk' = TRUE
      /\ timeoutQueue' = timeoutQueue \cup repeats
      /\ repeats' = {} /\ passTime' = 0 /\ inPass' = {}
      /\ UNCHANGED <<installed, info, objects, timeoutMap, current, now, cleared,
                     fired>>
  BY DEF EndPass, TimerInv, CanceledInv
<1>2. TimerTypeOK'
  BY <1>1 DEF TimerInv, TimerTypeOK
<1>3. OneOwner'
  BY <1>1 DEF TimerInv, OneOwner
<1>4. ReachableByTag'
  BY <1>1 DEF TimerInv, ReachableByTag
<1>5. AllocatedInv' /\ PassInv'
  BY <1>1 DEF TimerInv, AllocatedInv, PassInv
<1>6. CanceledInv'
  BY <1>1 DEF TimerInv, CanceledInv
<1> QED BY <1>2, <1>3, <1>4, <1>5, <1>6 DEF TimerInv

LEMMA InvStep == TimerInv /\ [TimerNext]_timerVars => TimerInv'
<1> SUFFICES ASSUME TimerInv, [TimerNext]_timerVars PROVE TimerInv'
  OBVIOUS
<1>1. CASE Tick
  <2>1. now' \in Nat
    BY <1>1 DEF Tick, TimerInv, TimerTypeOK
  <2> QED BY <2>1, <1>1 DEF Tick, history, TimerInv, TimerTypeOK, OneOwner,
     ReachableByTag, AllocatedInv, CanceledInv, PassInv
<1>2. CASE BeginPass
  BY <1>2 DEF BeginPass, history, TimerInv, TimerTypeOK, OneOwner, ReachableByTag,
     AllocatedInv, CanceledInv, PassInv
<1>3. CASE UNCHANGED timerVars
  BY <1>3 DEF timerVars, TimerInv, TimerTypeOK, OneOwner, ReachableByTag,
     AllocatedInv, CanceledInv, PassInv
<1> QED
  BY <1>1, <1>2, <1>3, InstallStep, ClearStep, DropStep, FireStep, DeleteStep,
     RepeatStep, EndStep DEF TimerNext, Script, DispatchTimeouts

LEMMA InvHolds == TimerSpec => []TimerInv
BY InvInit, InvStep, PTL DEF TimerSpec

(* The objects behind the tags, for any number of timers: each is in one place
   for as long as it lives, and gTimeoutMap leads to those that are neither
   cleared nor deleted. *)
THEOREM ObjectsOwned == TimerSpec => []TimersOwned
<1>1. TimerInv => TimersOwned
  BY DEF TimerInv, TimersOwned
<1> QED BY InvHolds, <1>1, PTL
-----------------------------------------------------------------------------
(* A timer starts to run in Fire and nowhere else. *)
LEMMA OnlyFireStarts ==
  ASSUME TimerInv, [TimerNext]_timerVars
  PROVE  \/ current' \in {0, current}
         \/ \E t \in timeoutQueue : Fire(t)
BY DEF TimerNext, Tick, Script, DispatchTimeouts, InstallTimeout, ClearTimeout,
   BeginPass, DropCanceled, DeleteAfterCallback, RepeatAfterCallback, EndPass,
   timerVars

(* clearTimeout and the walk of the queue: whatever clearTimeout found does not
   run afterwards, the timer whose callback is running included. *)
THEOREM ClearedStayQuiet == TimerSpec => ClearedNeverFires
<1>1. TimerInv /\ [TimerNext]_timerVars =>
        [current' # current => current' \notin cleared]_timerVars
  <2> SUFFICES ASSUME TimerInv, [TimerNext]_timerVars, current' # current
               PROVE  current' \notin cleared
    OBVIOUS
  <2>1. 0 \notin cleared
    BY DEF TimerInv, TimerTypeOK, Timer
  <2>2. CASE current' \in {0, current}
    BY <2>1, <2>2
  <2>3. CASE \E t \in timeoutQueue : Fire(t)
    BY <2>3 DEF Fire, TimerInv, CanceledInv
  <2> QED BY <2>2, <2>3, OnlyFireStarts
<1> QED BY InvHolds, <1>1, PTL DEF TimerSpec, ClearedNeverFires

(* The top of the queue comes before everything else in it. *)
LEMMA FirstIsEarliest ==
  ASSUME TimerInv, NEW t \in timeoutQueue, Top(t), NEW s \in timeoutQueue \ {t}
  PROVE  Before(t, s) /\ info[t].fireTime <= info[s].fireTime
<1>1. Before(t, s)
  BY DEF Top, TimerInv, CanceledInv
<1>2. info[t].fireTime \in Nat /\ info[s].fireTime \in Nat
  BY TimerFacts DEF TimerInv, TimerTypeOK
<1> QED BY <1>1, <1>2 DEF Before

(* One pass of dispatchTimeouts, whatever the callbacks install and clear: no
   timer runs twice in it, none that is due is left behind, and those that run
   do so in the order of their deadlines. *)
THEOREM PassesServe == TimerSpec => PassServesDue
<1>1. TimerInv /\ [TimerNext]_timerVars =>
        [current' \notin {0, current} =>
           /\ current' \notin inPass
           /\ current' \in fired => info[current'].repeat]_timerVars
  <2> SUFFICES ASSUME TimerInv, [TimerNext]_timerVars, current' \notin {0, current}
               PROVE  /\ current' \notin inPass
                      /\ current' \in fired => info[current'].repeat
    OBVIOUS
  <2>1. PICK t \in timeoutQueue : Fire(t)
    BY OnlyFireStarts
  <2> QED BY <2>1 DEF Fire, TimerInv, PassInv
<1>2. TimerInv /\ [TimerNext]_timerVars =>
        [pc = "pass" /\ pc' = "idle" =>
           \A t \in timeoutQueue :
             ~info[t].canceled /\ info[t].fireTime > passTime]_timerVars
  <2> SUFFICES ASSUME TimerInv, [TimerNext]_timerVars, pc = "pass", pc' = "idle",
                      NEW s \in timeoutQueue
               PROVE  ~info[s].canceled /\ info[s].fireTime > passTime
    OBVIOUS
  <2>1. NothingDue
    BY DEF TimerNext, Tick, Script, DispatchTimeouts, InstallTimeout, ClearTimeout,
       BeginPass, DropCanceled, Fire, DeleteAfterCallback, RepeatAfterCallback,
       EndPass, timerVars
  <2>2. PICK t \in timeoutQueue : Top(t) /\ ~info[t].canceled /\ info[t].fireTime > passTime
    BY <2>1 DEF NothingDue
  <2>3. CASE s = t
    BY <2>2, <2>3
  <2>4. CASE s # t
    <3>1. info[t].fireTime <= info[s].fireTime
      BY <2>2, <2>4, FirstIsEarliest
    <3>2. /\ info[t].fireTime \in Nat /\ info[s].fireTime \in Nat /\ passTime \in Nat
          /\ s \in Timer
      BY TimerFacts DEF TimerInv, TimerTypeOK
    <3>3. info[s].fireTime > passTime /\ info[s].fireTime # 0
      BY <2>2, <3>1, <3>2
    <3> QED BY <3>2, <3>3 DEF TimerInv, CanceledInv, Minimum
  <2> QED BY <2>3, <2>4
<1>3. TimerInv /\ [TimerNext]_timerVars =>
        [current' \notin {0, current} =>
           \A s \in timeoutQueue \ {current'} :
             ~info[s].canceled => Before(current', s)]_timerVars
  <2> SUFFICES ASSUME TimerInv, [TimerNext]_timerVars, current' \notin {0, current},
                      NEW s \in timeoutQueue \ {current'}
               PROVE  Before(current', s)
    OBVIOUS
  <2>1. PICK t \in timeoutQueue : Fire(t)
    BY OnlyFireStarts
  <2>2. current' = t /\ Top(t)
    BY <2>1 DEF Fire
  <2>3. Before(t, s)
    BY <2>2, FirstIsEarliest
  <2> QED BY <2>2, <2>3
<1> QED BY InvHolds, <1>1, <1>2, <1>3, PTL
        DEF TimerSpec, PassServesDue, FiresOnce, PassLeavesNothingDue, FiresInOrder
-----------------------------------------------------------------------------
(* The contexts and the tasks of the main loop. *)

(* A wrapper was given the private object of the very context it belongs to, is
   known to that object, and both are of a live context or forgotten. *)
WrapperInv ==
  /\ \A r \in Requests :
       /\ listener[r].private = listener[r].context
       /\ listener[r].context # 0 => listener[r].context \in live
  /\ \A c \in Ids : protected[c] = {r \in Requests : listener[r].private = c}

(* What is kept of contexts is kept of live ones. *)
ContextInv == PrivateOfLiveContextFound /\ CollectsInLiveContext /\ WrapperInv

(* Before it is made a request has no reference and no listener, and a thread
   that counted a reference has an event to report; metrics are reported only when
   the environment asks for them. *)
ThreadInv ==
  \A r \in Requests :
    /\ thread[r] = "none" =>
         refs[r] = 0 /\ ~script[r] /\ listener[r] = NoWrapper
    /\ Reporting(r) => produced[r] < MaxEvents
    /\ thread[r] = "measured" => envValue

(* The references of a request, with its waiting tasks counted by their events. *)
References(r) ==
  (IF script[r] THEN 1 ELSE 0) + (IF Reporting(r) THEN 1 ELSE 0)
  + (produced[r] - delivered[r])

CountInv ==
  \A r \in Requests : delivered[r] <= produced[r] /\ refs[r] = References(r)

Inv == TypeOK /\ ContextInv /\ ThreadInv /\ CountInv /\ EventsInOrder

USE ContextsAssumption DEF Reporting
-----------------------------------------------------------------------------
(* The waiting tasks as one sequence: what dispatching, taking the batch and
   running a task do to it. *)
LEMMA PendingTyped ==
  ASSUME TypeOK
  PROVE  Pending \in Seq(Task) /\ Len(Pending) \in Nat
BY DEF TypeOK, Pending

LEMMA PendingAppended ==
  ASSUME TypeOK, NEW t \in Task, queue' = Append(queue, t), UNCHANGED batch
  PROVE  Pending' = Append(Pending, t)
<1>1. batch \in Seq(Task) /\ queue \in Seq(Task) /\ <<t>> \in Seq(Task)
  BY DEF TypeOK
<1>2. Append(queue, t) = queue \o <<t>>
  BY <1>1, AppendIsConcat
<1>3. Pending' = batch \o (queue \o <<t>>)
  BY <1>2 DEF Pending
<1>4. (batch \o queue) \o <<t>> = batch \o (queue \o <<t>>)
  BY <1>1, ConcatAssociative
<1>5. Append(batch \o queue, t) = (batch \o queue) \o <<t>>
  BY <1>1, PendingTyped, AppendIsConcat DEF Pending
<1> QED BY <1>3, <1>4, <1>5 DEF Pending

LEMMA PendingShifted ==
  ASSUME TypeOK, batch # <<>>, batch' = Tail(batch), UNCHANGED queue
  PROVE  /\ Len(Pending) # 0 /\ Head(batch) = Pending[1]
         /\ Len(Pending') = Len(Pending) - 1
         /\ \A k \in 1 .. Len(Pending') : Pending'[k] = Pending[k + 1]
<1>1. batch \in Seq(Task) /\ queue \in Seq(Task)
  BY DEF TypeOK
<1>2. /\ Len(batch) \in Nat /\ Len(queue) \in Nat /\ Len(batch) >= 1
      /\ Tail(batch) \in Seq(Task) /\ Len(Tail(batch)) = Len(batch) - 1
      /\ Head(batch) = batch[1]
      /\ \A k \in 1 .. (Len(batch) - 1) : Tail(batch)[k] = batch[k + 1]
  BY <1>1
<1>3. /\ Len(Pending) = Len(batch) + Len(queue)
      /\ \A k \in 1 .. Len(Pending) :
           Pending[k] = IF k <= Len(batch) THEN batch[k] ELSE queue[k - Len(batch)]
  BY <1>1, ConcatProperties DEF Pending
<1>4. /\ Len(Pending') = Len(batch) - 1 + Len(queue)
      /\ \A k \in 1 .. Len(Pending') :
           Pending'[k] = IF k <= Len(batch) - 1 THEN Tail(batch)[k]
                                                ELSE queue[k - (Len(batch) - 1)]
  BY <1>1, <1>2, ConcatProperties DEF Pending
<1>5. ASSUME NEW k \in 1 .. Len(Pending') PROVE Pending'[k] = Pending[k + 1]
  <2>1. k \in Nat /\ k >= 1 /\ k + 1 \in 1 .. Len(Pending)
    BY <1>2, <1>3, <1>4
  <2>2. CASE k <= Len(batch) - 1
    <3>1. Pending'[k] = Tail(batch)[k] /\ Tail(batch)[k] = batch[k + 1]
      BY <1>2, <1>4, <2>1, <2>2
    <3>2. Pending[k + 1] = batch[k + 1]
      BY <1>2, <1>3, <2>1, <2>2
    <3> QED BY <3>1, <3>2
  <2>3. CASE ~(k <= Len(batch) - 1)
    <3>1. Pending'[k] = queue[k - (Len(batch) - 1)]
      BY <1>2, <1>4, <2>1, <2>3
    <3>2. ~(k + 1 <= Len(batch)) /\ (k + 1) - Len(batch) = k - (Len(batch) - 1)
      BY <1>2, <2>1, <2>3
    <3>3. Pending[k + 1] = queue[(k + 1) - Len(batch)]
      BY <1>3, <2>1, <3>2
    <3> QED BY <3>1, <3>2, <3>3
  <2> QED BY <2>2, <2>3
<1>6. Head(batch) = Pending[1]
  BY <1>2, <1>3
<1> QED BY <1>2, <1>3, <1>4, <1>5, <1>6

LEMMA PendingTaken ==
  ASSUME TypeOK, batch = <<>>, batch' = queue, queue' = <<>>
  PROVE  Pending' = Pending
<1>1. queue \in Seq(Task)
  BY DEF TypeOK
<1> QED BY <1>1, ConcatEmptySeq DEF Pending

(* Distinct events in order: the waiting tasks of a request are as many as its
   events produced and not delivered. *)
LEMMA WaitingCounted ==
  ASSUME TypeOK, CountInv, EventsInOrder, NEW r \in Requests
  PROVE  Cardinality(Waiting(r)) = produced[r] - delivered[r]
<1> DEFINE E == (delivered[r] + 1) .. produced[r]
           W == Waiting(r)
           f == [k \in W |-> Pending[k].event]
<1>1. W \in SUBSET (1 .. Len(Pending)) /\ Len(Pending) \in Nat
  BY PendingTyped DEF Waiting
<1>2. IsFiniteSet(W)
  <2>1. IsFiniteSet(1 .. Len(Pending))
    BY <1>1, FS_Interval
  <2> QED BY <1>1, <2>1, FS_Subset
<1>3. /\ delivered[r] \in Nat /\ produced[r] \in Nat /\ delivered[r] <= produced[r]
  BY DEF TypeOK, CountInv
<1>4. {Pending[k].event : k \in W} = E
  BY DEF EventsInOrder
<1>5. \A j, k \in W : j < k => Pending[j].event < Pending[k].event
  BY DEF EventsInOrder
<1> HIDE DEF W
<1>6. \A k \in W : Pending[k].event \in Nat
  <2>1. \A k \in W : Pending[k].event \in E
    BY <1>4
  <2> QED BY <1>3, <2>1
<1>7. f \in [W -> E]
  BY <1>4
<1>8. \A j, k \in W : f[j] = f[k] => j = k
  <2> SUFFICES ASSUME NEW j \in W, NEW k \in W, f[j] = f[k] PROVE j = k
    OBVIOUS
  <2>1. j \in Nat /\ k \in Nat
    BY <1>1
  <2>2. Pending[j].event = Pending[k].event
    OBVIOUS
  <2> QED BY <1>5, <1>6, <2>1, <2>2
<1>9. \A e \in E : \E k \in W : f[k] = e
  BY <1>4
<1>10. f \in Bijection(W, E)
  <2> HIDE DEF f, E
  <2> QED BY <1>7, <1>8, <1>9, Fun_IsBij
<1>11. ExistsBijection(W, E)
  BY <1>10 DEF ExistsBijection
<1>12. Cardinality(E) = Cardinality(W)
  <2> HIDE DEF E
  <2> QED BY <1>2, <1>11, FS_Bijection
<1>13. Cardinality(E) = produced[r] - delivered[r]
  <2>1. Cardinality(E) = IF delivered[r] + 1 > produced[r] THEN 0
                         ELSE produced[r] - (delivered[r] + 1) + 1
    <3>1. delivered[r] + 1 \in Int /\ produced[r] \in Int
      BY <1>3
    <3> QED BY <3>1, FS_Interval
  <2> QED BY <1>3, <2>1
<1> QED BY <1>12, <1>13 DEF W
-----------------------------------------------------------------------------
LEMMA InitInv == Init => Inv
<1> SUFFICES ASSUME Init PROVE Inv
  OBVIOUS
<1>1. TypeOK
  <2>1. address \in [Ids -> Address]
    BY DEF Init
  <2>2. queue \in Seq(Task) /\ batch \in Seq(Task)
    BY EmptySeq DEF Init
  <2>3. /\ made \in 0 .. MaxContexts /\ live \subseteq 1 .. made
        /\ finalized \subseteq (1 .. made) \ live
        /\ top \in {0} \cup Ids /\ keyListener \in 0 .. made
    BY DEF Init
  <2>4. /\ cache \in [Address -> 0 .. MaxContexts]
        /\ protected \in [Ids -> SUBSET Requests]
        /\ listener \in [Requests -> [context : 0 .. MaxContexts,
                                      private : 0 .. MaxContexts]]
    BY DEF Init, NoWrapper
  <2>5. /\ metrics \in [Requests -> 0 .. MaxContexts]
        /\ refs \in [Requests -> Nat] /\ produced \in [Requests -> 0 .. MaxEvents]
        /\ delivered \in [Requests -> 0 .. MaxEvents]
    BY DEF Init
  <2>6. /\ script \in [Requests -> BOOLEAN]
        /\ thread \in [Requests -> {"none", "running", "measured", "counted", "over"}]
    BY DEF Init
  <2> QED BY <2>1, <2>2, <2>3, <2>4, <2>5, <2>6 DEF TypeOK
<1>2. ContextInv
  BY DEF Init, ContextInv, PrivateOfLiveContextFound, CollectsInLiveContext, WrapperInv,
         NoWrapper, Ids
<1>3. ThreadInv /\ CountInv
  BY DEF Init, ThreadInv, CountInv, References
<1>4. EventsInOrder
  <2>1. Pending = <<>> /\ \A r \in Requests : Waiting(r) = {}
    BY DEF Init, Pending, Waiting
  <2>2. \A r \in Requests : (delivered[r] + 1) .. produced[r] = {}
    BY DEF Init
  <2> QED BY <2>1, <2>2 DEF EventsInOrder
<1> QED BY <1>1, <1>2, <1>3, <1>4 DEF Inv

(* Contexts come and go without touching requests and tasks. *)
LEMMA ContextStep ==
  ASSUME Inv, ContextNext
  PROVE  Inv'
<1> USE DEF contexts, wrappers, requests, tasks
<1>1. TypeOK /\ ContextInv
  BY DEF Inv
<1>2. ASSUME UNCHANGED <<requests, tasks>>, \A r \in Requests : listener'[r] \in {listener[r], NoWrapper},
             TypeOK', ContextInv'
      PROVE  Inv'
  <2>1. ThreadInv' /\ CountInv'
    BY <1>2 DEF Inv, ThreadInv, CountInv, References
  <2>2. EventsInOrder'
    BY <1>2 DEF Inv, EventsInOrder, Waiting, Pending
  <2> QED BY <1>2, <2>1, <2>2 DEF Inv
<1>3. ASSUME NEW a \in Address, CreateContext(a)
      PROVE  Inv'
  <2>1. /\ made' = made + 1 /\ made' \in Ids /\ made \in Nat
        /\ live' = live \cup {made'} /\ made' \notin live
        /\ address' = [address EXCEPT ![made'] = a]
        /\ cache' = [cache EXCEPT ![a] = made']
        /\ \A c \in live : address[c] # a /\ c \in Ids
        /\ top' = IF top = 0 THEN made' ELSE top
        /\ keyListener' = made'
        /\ UNCHANGED <<finalized, wrappers, requests, tasks>>
    BY <1>1, <1>3 DEF CreateContext, TypeOK, Ids
  <2>2. TypeOK'
    BY <1>1, <2>1 DEF TypeOK, Ids
  <2>3. PrivateOfLiveContextFound'
    BY <1>1, <2>1 DEF TypeOK, ContextInv, PrivateOfLiveContextFound
  <2>4. CollectsInLiveContext' /\ WrapperInv'
    BY <1>1, <2>1 DEF ContextInv, CollectsInLiveContext, WrapperInv
  <2> QED BY <1>2, <2>1, <2>2, <2>3, <2>4 DEF ContextInv
<1>4. ASSUME NEW c \in Ids, DeleteContext(c)
      PROVE  Inv'
  <2>1. /\ c \in live /\ live' = live \ {c}
        /\ top' = IF top = c THEN 0 ELSE top
        /\ listener' = [r \in Requests |-> IF r \in protected[c] THEN NoWrapper
                                                               ELSE listener[r]]
        /\ protected' = [protected EXCEPT ![c] = {}]
        /\ UNCHANGED <<made, address, cache, finalized, keyListener, requests, tasks>>
    BY <1>4 DEF DeleteContext, ReleaseProtected
  <2>2. TypeOK'
    BY <1>1, <2>1, SMTT(30) DEF TypeOK, NoWrapper
  <2>3. PrivateOfLiveContextFound' /\ CollectsInLiveContext'
    BY <1>1, <2>1 DEF ContextInv, PrivateOfLiveContextFound, CollectsInLiveContext
  <2>4. WrapperInv'
    <3>1. protected \in [Ids -> SUBSET Requests] /\ 0 \notin Ids
      BY <1>1 DEF TypeOK, Ids
    <3>2. protected[c] = {r \in Requests : listener[r].private = c}
      BY <1>1 DEF ContextInv, WrapperInv
    <3>3. \A r \in Requests :
            listener'[r] = IF listener[r].private = c THEN NoWrapper ELSE listener[r]
      BY <2>1, <3>2
    <3>4. ASSUME NEW r \in Requests
          PROVE  /\ listener'[r].private = listener'[r].context
                 /\ listener'[r].context # 0 => listener'[r].context \in live'
      BY <1>1, <2>1, <3>3 DEF ContextInv, WrapperInv, NoWrapper
    <3>5. ASSUME NEW d \in Ids
          PROVE  protected'[d] = {r \in Requests : listener'[r].private = d}
      <4>1. CASE d = c
        BY <2>1, <3>1, <3>3, <4>1 DEF NoWrapper
      <4>2. CASE d # c
        <5>1. protected'[d] = {r \in Requests : listener[r].private = d}
          BY <1>1, <2>1, <3>1, <4>2 DEF ContextInv, WrapperInv
        <5>2. \A r \in Requests : listener'[r].private = d <=> listener[r].private = d
          BY <3>1, <3>3, <4>2 DEF NoWrapper
        <5> QED BY <5>1, <5>2
      <4> QED BY <4>1, <4>2
    <3> QED BY <3>4, <3>5 DEF WrapperInv
  <2> QED BY <1>2, <2>1, <2>2, <2>3, <2>4 DEF ContextInv
<1>5. ASSUME NEW c \in Ids, FinalizePrivate(c)
      PROVE  Inv'
  <2>1. /\ c \in (1 .. made) \ (live \cup finalized)
        /\ finalized' = finalized \cup {c}
        /\ cache' = [a \in Address |-> IF cache[a] = c THEN 0 ELSE cache[a]]
        /\ UNCHANGED <<made, live, address, top, keyListener, wrappers, requests, tasks>>
    BY <1>5 DEF FinalizePrivate
  <2>2. TypeOK'
    BY <1>1, <2>1 DEF TypeOK
  <2>3. PrivateOfLiveContextFound'
    <3>1. \A d \in live : address[d] \in Address
      BY <1>1 DEF TypeOK, Ids
    <3> QED BY <1>1, <2>1, <3>1 DEF ContextInv, PrivateOfLiveContextFound
  <2>4. CollectsInLiveContext' /\ WrapperInv'
    BY <1>1, <2>1 DEF ContextInv, CollectsInLiveContext, WrapperInv
  <2> QED BY <1>2, <2>1, <2>2, <2>3, <2>4 DEF ContextInv
<1> QED BY <1>3, <1>4, <1>5 DEF ContextNext
-----------------------------------------------------------------------------
(* Releasing a reference: the last one ends the request and clears its listener,
   in the wrapper and in the private object alike. *)
LEMMA ReleaseEffect ==
  ASSUME Inv, NEW r \in Requests, Release(r), UNCHANGED contexts, refs[r] # 0
  PROVE  /\ refs' = [refs EXCEPT ![r] = @ - 1] /\ refs' \in [Requests -> Nat]
         /\ protected' \in [Ids -> SUBSET Requests]
         /\ listener' \in [Requests -> [context : 0 .. MaxContexts,
                                       private : 0 .. MaxContexts]]
         /\ metrics' \in [Requests -> 0 .. MaxContexts]
         /\ thread' \in [Requests -> {"none", "running", "measured", "counted", "over"}]
         /\ thread' = IF refs[r] = 1 THEN [thread EXCEPT ![r] = "over"] ELSE thread
         /\ \A q \in Requests : listener'[q] \in {listener[q], NoWrapper}
         /\ ContextInv'
<1>1. /\ refs \in [Requests -> Nat] /\ protected \in [Ids -> SUBSET Requests]
      /\ listener \in [Requests -> [context : 0 .. MaxContexts, private : 0 .. MaxContexts]]
      /\ metrics \in [Requests -> 0 .. MaxContexts]
      /\ thread \in [Requests -> {"none", "running", "measured", "counted", "over"}]
  BY DEF Inv, TypeOK
<1>2. refs' = [refs EXCEPT ![r] = @ - 1] /\ refs' \in [Requests -> Nat]
  <2>1. refs' = [refs EXCEPT ![r] = @ - 1]
    BY DEF Release
  <2>2. refs[r] - 1 \in Nat
    BY <1>1
  <2> QED BY <1>1, <2>1, <2>2
<1>3. /\ PrivateOfLiveContextFound' /\ CollectsInLiveContext'
      /\ UNCHANGED <<made, live>> /\ WrapperInv
  BY DEF contexts, Inv, ContextInv, PrivateOfLiveContextFound, CollectsInLiveContext
<1>4. CASE refs[r] # 1
  <2>1. UNCHANGED <<protected, listener, metrics, thread>>
    BY <1>4 DEF Release
  <2> QED BY <1>1, <1>2, <1>3, <1>4, <2>1 DEF ContextInv, WrapperInv
<1>5. CASE refs[r] = 1
  <2>1. /\ protected' = [c \in Ids |-> IF listener[r].private = c
                                       THEN protected[c] \ {r} ELSE protected[c]]
        /\ listener' = [listener EXCEPT ![r] = NoWrapper]
        /\ metrics' = [metrics EXCEPT ![r] = 0]
        /\ thread' = [thread EXCEPT ![r] = "over"]
    BY <1>5 DEF Release
  <2>2. /\ protected' \in [Ids -> SUBSET Requests]
        /\ listener' \in [Requests -> [context : 0 .. MaxContexts,
                                      private : 0 .. MaxContexts]]
        /\ metrics' \in [Requests -> 0 .. MaxContexts]
        /\ thread' \in [Requests -> {"none", "running", "measured", "counted", "over"}]
    BY <1>1, <2>1 DEF NoWrapper
  <2>3. WrapperInv'
    <3>1. ASSUME NEW q \in Requests
          PROVE  /\ listener'[q].private = listener'[q].context
                 /\ listener'[q].context # 0 => listener'[q].context \in live'
      BY <1>1, <1>3, <2>1 DEF WrapperInv, NoWrapper
    <3>2. ASSUME NEW c \in Ids
          PROVE  protected'[c] = {q \in Requests : listener'[q].private = c}
      <4>1. c # 0 /\ protected[c] = {q \in Requests : listener[q].private = c}
        BY <1>3 DEF WrapperInv, Ids
      <4>2. \A q \in Requests :
              listener'[q].private = c <=> listener[q].private = c /\ q # r
        BY <1>1, <2>1, <4>1 DEF NoWrapper
      <4>3. protected'[c] = protected[c] \ {r}
        BY <2>1, <4>1
      <4> QED BY <4>1, <4>2, <4>3
    <3> QED BY <3>1, <3>2 DEF WrapperInv
  <2>4. \A q \in Requests : listener'[q] \in {listener[q], NoWrapper}
    BY <1>1, <2>1
  <2> QED BY <1>2, <1>3, <1>5, <2>1, <2>2, <2>3, <2>4 DEF ContextInv
<1> QED BY <1>4, <1>5

LEMMA MakeRequestKeeps ==
  ASSUME Inv, NEW c \in Ids, NEW r \in Requests, MakeRequest(c, r)
  PROVE  Inv'
<1> USE DEF contexts, wrappers, requests, tasks
<1>1. /\ TypeOK /\ ContextInv /\ ThreadInv
      /\ c \in live /\ thread[r] = "none" /\ refs[r] = 0 /\ listener[r] = NoWrapper
      /\ ~script[r] /\ c # 0
  BY DEF Inv, MakeRequest, ThreadInv, Ids
<1>2. /\ cache[address[c]] = c
      /\ listener' = [listener EXCEPT ![r] = [context |-> c, private |-> c]]
      /\ protected' = [protected EXCEPT ![c] = @ \cup {r}]
      /\ metrics' = [metrics EXCEPT ![r] = c]
      /\ refs' = [refs EXCEPT ![r] = 1]
      /\ script' = [script EXCEPT ![r] = TRUE]
      /\ thread' = [thread EXCEPT ![r] = "running"]
      /\ UNCHANGED <<contexts, produced, delivered, tasks>>
  BY <1>1 DEF MakeRequest, ContextInv, PrivateOfLiveContextFound
<1>3. TypeOK'
  BY <1>1, <1>2, SMTT(30) DEF TypeOK, Ids
<1>4. ContextInv'
  <2>1. PrivateOfLiveContextFound' /\ CollectsInLiveContext'
    BY <1>1, <1>2 DEF ContextInv, PrivateOfLiveContextFound, CollectsInLiveContext
  <2>2. ASSUME NEW q \in Requests
        PROVE  /\ listener'[q].private = listener'[q].context
               /\ listener'[q].context # 0 => listener'[q].context \in live'
    BY <1>1, <1>2 DEF ContextInv, WrapperInv, TypeOK
  <2>3. ASSUME NEW d \in Ids
        PROVE  protected'[d] = {q \in Requests : listener'[q].private = d}
    <3>1. d # 0 /\ protected[d] = {q \in Requests : listener[q].private = d}
      BY <1>1 DEF ContextInv, WrapperInv, Ids
    <3>2. \A q \in Requests :
            listener'[q].private = d <=> listener[q].private = d \/ (q = r /\ d = c)
      BY <1>1, <1>2, <3>1, SMTT(30) DEF TypeOK, NoWrapper
    <3>3. protected'[d] = IF d = c THEN protected[d] \cup {r} ELSE protected[d]
      BY <1>1, <1>2 DEF TypeOK
    <3> QED BY <3>1, <3>2, <3>3
  <2> QED BY <2>1, <2>2, <2>3 DEF ContextInv, WrapperInv
<1>5. ThreadInv'
  BY <1>1, <1>2 DEF ThreadInv, TypeOK
<1>6. CountInv'
  <2> SUFFICES ASSUME NEW q \in Requests
               PROVE  delivered'[q] <= produced'[q] /\ refs'[q] = References(q)'
    BY DEF CountInv
  <2>1. /\ delivered[q] <= produced[q] /\ refs[q] = References(q)
        /\ produced[q] - delivered[q] \in Nat
    BY DEF Inv, CountInv, TypeOK
  <2>2. CASE q # r
    BY <1>1, <1>2, <2>1, <2>2 DEF TypeOK, References
  <2>3. CASE q = r
    <3>1. References(q) = 0 + 0 + (produced[q] - delivered[q])
      BY <1>1, <2>3 DEF References
    <3>2. produced[q] - delivered[q] = 0
      BY <1>1, <2>1, <2>3, <3>1
    <3>3. refs'[q] = 1 /\ script'[q] /\ thread'[q] = "running"
      BY <1>1, <1>2, <2>3 DEF TypeOK
    <3> QED BY <1>2, <2>1, <3>2, <3>3 DEF References
  <2> QED BY <2>2, <2>3
<1>7. EventsInOrder'
  BY <1>2 DEF Inv, EventsInOrder, Waiting, Pending
<1> QED BY <1>3, <1>4, <1>5, <1>6, <1>7 DEF Inv

LEMMA CollectKeeps ==
  ASSUME Inv, NEW r \in Requests, Collect(r)
  PROVE  Inv'
<1> USE DEF contexts, tasks
<1>1. /\ script[r] /\ script' = [script EXCEPT ![r] = FALSE] /\ Release(r)
      /\ UNCHANGED <<contexts, produced, delivered, tasks>>
  BY DEF Collect
<1>2. /\ produced[r] - delivered[r] \in Nat /\ refs[r] = References(r) /\ refs[r] # 0
  BY <1>1 DEF Inv, TypeOK, CountInv, References
<1>3. /\ refs' = [refs EXCEPT ![r] = @ - 1] /\ refs' \in [Requests -> Nat]
      /\ protected' \in [Ids -> SUBSET Requests]
      /\ listener' \in [Requests -> [context : 0 .. MaxContexts, private : 0 .. MaxContexts]]
      /\ metrics' \in [Requests -> 0 .. MaxContexts]
      /\ thread' \in [Requests -> {"none", "running", "measured", "counted", "over"}]
      /\ thread' = IF refs[r] = 1 THEN [thread EXCEPT ![r] = "over"] ELSE thread
      /\ \A q \in Requests : listener'[q] \in {listener[q], NoWrapper}
      /\ ContextInv'
  BY <1>1, <1>2, ReleaseEffect
<1>4. TypeOK'
  BY <1>1, <1>3 DEF Inv, TypeOK
<1>5. refs[r] = 1 => ~Reporting(r)
  BY <1>1, <1>2 DEF References
<1>6. ThreadInv'
  <2> SUFFICES ASSUME NEW q \in Requests
               PROVE  /\ thread'[q] = "none" => refs'[q] = 0 /\ ~script'[q]
                                               /\ listener'[q] = NoWrapper
                      /\ Reporting(q)' => produced'[q] < MaxEvents
                      /\ thread'[q] = "measured" => envValue
    BY DEF ThreadInv
  <2>1. thread[r] # "none"
    BY <1>1 DEF Inv, ThreadInv
  <2>2. thread'[q] \in {thread[q], "over"} /\ thread'[r] # "none"
    BY <1>3, <2>1 DEF Inv, TypeOK
  <2> QED BY <1>1, <1>3, <2>2 DEF Inv, ThreadInv, TypeOK
<1>7. CountInv'
  <2> SUFFICES ASSUME NEW q \in Requests
               PROVE  delivered'[q] <= produced'[q] /\ refs'[q] = References(q)'
    BY DEF CountInv
  <2>1. /\ delivered[q] <= produced[q] /\ refs[q] = References(q)
        /\ produced[q] - delivered[q] \in Nat
    BY DEF Inv, CountInv, TypeOK
  <2>2. CASE q # r
    BY <1>1, <1>3, <2>1, <2>2 DEF Inv, TypeOK, References
  <2>3. CASE q = r
    <3>1. Reporting(q)' <=> Reporting(q)
      BY <1>3, <1>5, <2>3 DEF Inv, TypeOK
    <3>2. refs'[q] = refs[q] - 1 /\ ~script'[q] /\ script[q]
      BY <1>1, <1>3, <2>3 DEF Inv, TypeOK
    <3> QED BY <1>1, <2>1, <3>1, <3>2 DEF References
  <2> QED BY <2>2, <2>3
<1>8. EventsInOrder'
  BY <1>1 DEF Inv, EventsInOrder, Waiting, Pending
<1> QED BY <1>3, <1>4, <1>6, <1>7, <1>8 DEF Inv

LEMMA CountReferenceKeeps ==
  ASSUME Inv, NEW r \in Requests, CountReference(r)
  PROVE  Inv'
<1> USE DEF contexts, wrappers, tasks
<1> DEFINE next == thread'[r]
<1>1. /\ thread[r] = "running" /\ produced[r] < MaxEvents
      /\ refs' = [refs EXCEPT ![r] = @ + 1]
      /\ next \in {"measured", "counted"} /\ (next = "measured" => envValue)
      /\ thread' = [thread EXCEPT ![r] = next]
      /\ UNCHANGED <<contexts, wrappers, metrics, script, produced, delivered, tasks>>
  <2>1. Answer(r) \in Nat /\ Answer(r) <= MaxEvents /\ produced[r] \in Nat
    BY DEF Inv, TypeOK, Answer
  <2>2. PICK n \in {"measured", "counted"} :
          (n = "measured" => envValue) /\ thread' = [thread EXCEPT ![r] = n]
    BY DEF CountReference
  <2>3. next = n
    BY <2>2 DEF Inv, TypeOK
  <2>4. /\ thread[r] = "running" /\ produced[r] < Answer(r)
        /\ refs' = [refs EXCEPT ![r] = @ + 1]
        /\ UNCHANGED <<contexts, wrappers, metrics, script, produced, delivered, tasks>>
    BY DEF CountReference
  <2>5. produced[r] < MaxEvents
    BY <2>1, <2>4
  <2> HIDE DEF next
  <2> QED BY <2>2, <2>3, <2>4, <2>5
<1> HIDE DEF next
<1>2. TypeOK'
  <2>1. refs' \in [Requests -> Nat]
    BY <1>1 DEF Inv, TypeOK
  <2>2. thread' \in [Requests -> {"none", "running", "measured", "counted", "over"}]
    BY <1>1 DEF Inv, TypeOK
  <2> QED BY <1>1, <2>1, <2>2 DEF Inv, TypeOK
<1>3. ContextInv'
  BY <1>1 DEF Inv, ContextInv, PrivateOfLiveContextFound, CollectsInLiveContext, WrapperInv
<1>4. ThreadInv'
  BY <1>1 DEF Inv, ThreadInv, TypeOK
<1>5. CountInv'
  <2> SUFFICES ASSUME NEW q \in Requests
               PROVE  delivered'[q] <= produced'[q] /\ refs'[q] = References(q)'
    BY DEF CountInv
  <2>1. /\ delivered[q] <= produced[q] /\ refs[q] = References(q)
        /\ produced[q] - delivered[q] \in Nat
    BY DEF Inv, CountInv, TypeOK
  <2>2. CASE q # r
    BY <1>1, <2>1, <2>2 DEF Inv, TypeOK, References
  <2>3. CASE q = r
    <3>1. refs'[q] = refs[q] + 1 /\ Reporting(q)' /\ thread[q] = "running"
      BY <1>1, <2>3 DEF Inv, TypeOK
    <3> QED BY <1>1, <2>1, <3>1 DEF References
  <2> QED BY <2>2, <2>3
<1>6. EventsInOrder'
  BY <1>1 DEF Inv, EventsInOrder, Waiting, Pending
<1> QED BY <1>2, <1>3, <1>4, <1>5, <1>6 DEF Inv

LEMMA ReportMetricsKeeps ==
  ASSUME Inv, NEW r \in Requests, ReportMetrics(r)
  PROVE  Inv'
<1> USE DEF contexts, wrappers, tasks
<1>1. /\ thread[r] = "measured" /\ thread' = [thread EXCEPT ![r] = "counted"]
      /\ UNCHANGED <<contexts, wrappers, metrics, refs, script, produced, delivered, tasks>>
  BY DEF ReportMetrics
<1>2. TypeOK'
  BY <1>1 DEF Inv, TypeOK
<1>3. \A q \in Requests : (Reporting(q)' <=> Reporting(q))
                          /\ (thread'[q] = "none" <=> thread[q] = "none")
  BY <1>1 DEF Inv, TypeOK
<1>4. ContextInv'
  BY <1>1 DEF Inv, ContextInv, PrivateOfLiveContextFound, CollectsInLiveContext, WrapperInv
<1>5. ThreadInv' /\ CountInv'
  BY <1>1, <1>3 DEF Inv, ThreadInv, CountInv, References
<1>6. EventsInOrder'
  BY <1>1 DEF Inv, EventsInOrder, Waiting, Pending
<1> QED BY <1>2, <1>4, <1>5, <1>6 DEF Inv

LEMMA DispatchKeeps ==
  ASSUME Inv, NEW r \in Requests, Dispatch(r)
  PROVE  Inv'
<1> USE DEF contexts, wrappers
<1> DEFINE e == produced[r] + 1
           t == [request |-> r, event |-> e]
<1>1. /\ thread[r] = "counted" /\ produced' = [produced EXCEPT ![r] = e]
      /\ produced[r] < MaxEvents /\ produced[r] \in Nat /\ produced'[r] = e
      /\ thread'[r] \in {"over", "running"}
      /\ thread' = [thread EXCEPT ![r] = thread'[r]]
      /\ queue' = Append(queue, t)
      /\ UNCHANGED <<contexts, wrappers, metrics, refs, script, delivered, batch>>
  BY DEF Dispatch, Inv, ThreadInv, TypeOK
<1>2. t \in Task /\ e \in 1 .. MaxEvents
  BY <1>1 DEF Task
<1>3. TypeOK'
  <2>1. queue' \in Seq(Task) /\ batch' \in Seq(Task)
    <3>1. queue \in Seq(Task) /\ batch \in Seq(Task)
      BY DEF Inv, TypeOK
    <3> HIDE DEF t
    <3> QED BY <1>1, <1>2, <3>1
  <2>2. produced' \in [Requests -> 0 .. MaxEvents]
    BY <1>1 DEF Inv, TypeOK
  <2>3. thread' \in [Requests -> {"none", "running", "measured", "counted", "over"}]
    BY <1>1 DEF Inv, TypeOK
  <2> QED BY <1>1, <2>1, <2>2, <2>3 DEF Inv, TypeOK
<1>4. ContextInv'
  BY <1>1 DEF Inv, ContextInv, PrivateOfLiveContextFound, CollectsInLiveContext, WrapperInv
<1>5. ThreadInv'
  BY <1>1 DEF Inv, ThreadInv, TypeOK
<1>6. CountInv'
  <2> SUFFICES ASSUME NEW q \in Requests
               PROVE  delivered'[q] <= produced'[q] /\ refs'[q] = References(q)'
    BY DEF CountInv
  <2>1. /\ delivered[q] <= produced[q] /\ refs[q] = References(q)
        /\ delivered[q] \in Nat /\ produced[q] \in Nat
    BY DEF Inv, CountInv, TypeOK
  <2>2. CASE q # r
    BY <1>1, <2>1, <2>2 DEF Inv, TypeOK, References
  <2>3. CASE q = r
    <3>1. ~Reporting(q)' /\ thread[q] = "counted" /\ produced'[q] = produced[q] + 1
      BY <1>1, <2>3
    <3> QED BY <1>1, <2>1, <3>1 DEF References
  <2> QED BY <2>2, <2>3
<1>7. EventsInOrder'
  <2> DEFINE n == Len(Pending)
  <2>1. Pending' = Append(Pending, t) /\ Pending \in Seq(Task) /\ n \in Nat
    BY <1>1, <1>2, PendingAppended, PendingTyped DEF Inv
  <2>2. /\ Len(Pending') = n + 1 /\ Pending'[n + 1] = t
        /\ \A k \in 1 .. n : Pending'[k] = Pending[k]
    <3> HIDE DEF t
    <3> QED BY <1>2, <2>1
  <2>3. \A q \in Requests :
          Waiting(q)' = IF q = r THEN Waiting(q) \cup {n + 1} ELSE Waiting(q)
    <3> HIDE DEF e
    <3> QED BY <2>1, <2>2 DEF Waiting
  <2>4. \A q \in Requests : \A k \in Waiting(q) :
          k \in 1 .. n /\ k < n + 1 /\ Pending'[k] = Pending[k]
    BY <2>1, <2>2 DEF Waiting
  <2> SUFFICES ASSUME NEW q \in Requests
               PROVE  /\ {Pending'[k].event : k \in Waiting(q)'}
                           = (delivered'[q] + 1) .. produced'[q]
                      /\ \A j, k \in Waiting(q)' :
                           j < k => Pending'[j].event < Pending'[k].event
    BY DEF EventsInOrder
  <2>5. /\ {Pending[k].event : k \in Waiting(q)} = (delivered[q] + 1) .. produced[q]
        /\ \A j, k \in Waiting(q) : j < k => Pending[j].event < Pending[k].event
    BY DEF Inv, EventsInOrder
  <2>6. \A k \in Waiting(q) : Pending[k].event \in (delivered[q] + 1) .. produced[q]
    BY <2>5
  <2>7. /\ delivered[q] \in Nat /\ produced[q] \in Nat /\ delivered[q] <= produced[q]
        /\ delivered' = delivered
    BY <1>1 DEF Inv, TypeOK, CountInv
  <2>8. CASE q # r
    <3>1. produced'[q] = produced[q] /\ Waiting(q)' = Waiting(q)
      BY <1>1, <2>3, <2>8 DEF Inv, TypeOK
    <3> QED BY <2>4, <2>5, <2>7, <3>1
  <2>9. CASE q = r
    <3>1. produced'[q] = e /\ Waiting(q)' = Waiting(q) \cup {n + 1} /\ t.event = e
      BY <1>1, <2>3, <2>9
    <3>2. {Pending'[k].event : k \in Waiting(q)'} = ((delivered[q] + 1) .. produced[q]) \cup {e}
      <4>1. {Pending'[k].event : k \in Waiting(q)'}
              = {Pending[k].event : k \in Waiting(q)} \cup {t.event}
        <5> HIDE DEF t
        <5> QED BY <2>2, <2>4, <3>1
      <4> QED BY <2>5, <3>1, <4>1
    <3>3. ((delivered[q] + 1) .. produced[q]) \cup {e} = (delivered[q] + 1) .. e
      BY <2>7, <2>9
    <3>4. ASSUME NEW j \in Waiting(q)', NEW k \in Waiting(q)', j < k
          PROVE  Pending'[j].event < Pending'[k].event
      <4>1. j \in Waiting(q)
        BY <2>1, <2>4, <3>1, <3>4
      <4>2. CASE k \in Waiting(q)
        BY <2>4, <2>5, <3>4, <4>1, <4>2
      <4>3. CASE k = n + 1
        <5>1. Pending'[k].event = e
          BY <2>2, <4>3
        <5>2. Pending'[j].event = Pending[j].event
          BY <2>4, <4>1
        <5>3. Pending[j].event \in (delivered[q] + 1) .. produced[q]
          BY <2>6, <4>1
        <5> QED BY <2>7, <2>9, <5>1, <5>2, <5>3
      <4> QED BY <3>1, <4>2, <4>3
    <3> QED BY <2>7, <3>1, <3>2, <3>3, <3>4
  <2> QED BY <2>8, <2>9
<1> QED BY <1>3, <1>4, <1>5, <1>6, <1>7 DEF Inv

LEMMA TakeBatchKeeps ==
  ASSUME Inv, TakeBatch
  PROVE  Inv'
<1> USE DEF contexts, wrappers, requests
<1>1. /\ batch = <<>> /\ batch' = queue /\ queue' = <<>>
      /\ UNCHANGED <<contexts, wrappers, requests>>
  BY DEF TakeBatch
<1>2. TypeOK'
  <2>1. queue' \in Seq(Task)
    BY <1>1, EmptySeq
  <2> QED BY <1>1, <2>1 DEF Inv, TypeOK
<1>3. ContextInv' /\ ThreadInv' /\ CountInv'
  BY <1>1 DEF Inv, ContextInv, PrivateOfLiveContextFound, CollectsInLiveContext,
              WrapperInv, ThreadInv, CountInv, References
<1>4. EventsInOrder'
  <2>1. Pending' = Pending
    BY <1>1, PendingTaken DEF Inv
  <2> QED BY <1>1, <2>1 DEF Inv, EventsInOrder, Waiting
<1> QED BY <1>2, <1>3, <1>4 DEF Inv

(* The task at the head carries the first event that is not delivered. *)
LEMMA RunTaskKeeps ==
  ASSUME Inv, RunTask
  PROVE  Inv'
<1> USE DEF contexts
<1> DEFINE r == Head(batch).request
           n == Len(Pending)
<1>1. /\ batch # <<>> /\ batch' = Tail(batch) /\ Release(r)
      /\ delivered' = [delivered EXCEPT ![r] = @ + 1]
      /\ UNCHANGED <<contexts, script, produced, queue>>
  BY DEF RunTask
<1>2. /\ n \in Nat /\ 1 \in 1 .. n /\ Head(batch) = Pending[1] /\ Pending \in Seq(Task)
      /\ Len(Pending') = n - 1
      /\ \A k \in 1 .. (n - 1) : Pending'[k] = Pending[k + 1]
  <2>1. TypeOK
    BY DEF Inv
  <2>2. n \in Nat /\ Pending \in Seq(Task)
    BY <2>1, PendingTyped
  <2>3. /\ n # 0 /\ Head(batch) = Pending[1] /\ Len(Pending') = n - 1
        /\ \A k \in 1 .. Len(Pending') : Pending'[k] = Pending[k + 1]
    BY <1>1, <2>1, PendingShifted
  <2> QED BY <2>2, <2>3
<1>3. Pending[1] \in Task /\ r = Pending[1].request /\ r \in Requests
  <2>1. Pending[1] \in Task
    BY <1>2, ElementOfSeq
  <2>2. \A t \in Task : t.request \in Requests
    BY DEF Task
  <2> QED BY <1>2, <2>1, <2>2
<1> HIDE DEF r
<1>4. /\ 1 \in Waiting(r)
      /\ {Pending[k].event : k \in Waiting(r)} = (delivered[r] + 1) .. produced[r]
      /\ \A j, k \in Waiting(r) : j < k => Pending[j].event < Pending[k].event
      /\ delivered[r] \in Nat /\ produced[r] \in Nat /\ produced[r] <= MaxEvents
  <2>1. 1 \in Waiting(r)
    BY <1>2, <1>3 DEF Waiting
  <2>2. delivered[r] \in Nat /\ produced[r] \in Nat /\ produced[r] <= MaxEvents
    BY <1>3 DEF Inv, TypeOK
  <2>3. EventsInOrder
    BY DEF Inv
  <2> QED BY <1>3, <2>1, <2>2, <2>3 DEF EventsInOrder
<1>5. \A k \in Waiting(r) : k \in Nat /\ (k = 1 \/ 1 < k)
  BY <1>2 DEF Waiting
<1>6. Pending[1].event = delivered[r] + 1 /\ delivered[r] + 1 <= produced[r]
  <2>1. \A k \in Waiting(r) : Pending[k].event \in (delivered[r] + 1) .. produced[r]
    BY <1>4
  <2>2. delivered[r] + 1 <= produced[r]
    BY <1>4, <2>1
  <2>3. PICK k \in Waiting(r) : Pending[k].event = delivered[r] + 1
    <3>1. delivered[r] + 1 \in (delivered[r] + 1) .. produced[r]
      BY <1>4, <2>2
    <3> QED BY <1>4, <3>1
  <2>4. k = 1
    <3>1. Pending[1].event >= delivered[r] + 1 /\ Pending[1].event \in Nat
      BY <1>4, <2>1
    <3> QED BY <1>4, <1>5, <2>3, <3>1
  <2> QED BY <2>2, <2>3, <2>4
<1>7. refs[r] = References(r) /\ refs[r] # 0 /\ (refs[r] = 1 => ~Reporting(r))
  <2>1. refs[r] = References(r)
    BY <1>3 DEF Inv, CountInv
  <2>2. produced[r] - delivered[r] \in Nat /\ produced[r] - delivered[r] >= 1
    BY <1>4, <1>6
  <2> QED BY <2>1, <2>2 DEF References
<1>8. /\ refs' = [refs EXCEPT ![r] = @ - 1] /\ refs' \in [Requests -> Nat]
      /\ protected' \in [Ids -> SUBSET Requests]
      /\ listener' \in [Requests -> [context : 0 .. MaxContexts, private : 0 .. MaxContexts]]
      /\ metrics' \in [Requests -> 0 .. MaxContexts]
      /\ thread' \in [Requests -> {"none", "running", "measured", "counted", "over"}]
      /\ thread' = IF refs[r] = 1 THEN [thread EXCEPT ![r] = "over"] ELSE thread
      /\ \A q \in Requests : listener'[q] \in {listener[q], NoWrapper}
      /\ ContextInv'
  BY <1>1, <1>3, <1>7, ReleaseEffect
<1>9. TypeOK'
  <2>1. batch' \in Seq(Task) /\ queue' \in Seq(Task)
    BY <1>1 DEF Inv, TypeOK
  <2>2. delivered' \in [Requests -> 0 .. MaxEvents]
    <3>1. delivered \in [Requests -> 0 .. MaxEvents] /\ delivered[r] + 1 \in 0 .. MaxEvents
      BY <1>4, <1>6 DEF Inv, TypeOK
    <3> QED BY <1>1, <3>1
  <2> QED BY <1>1, <1>8, <2>1, <2>2 DEF Inv, TypeOK
<1>10. ThreadInv'
  <2> SUFFICES ASSUME NEW q \in Requests
               PROVE  /\ thread'[q] = "none" => refs'[q] = 0 /\ ~script'[q]
                                               /\ listener'[q] = NoWrapper
                      /\ Reporting(q)' => produced'[q] < MaxEvents
                      /\ thread'[q] = "measured" => envValue
    BY DEF ThreadInv
  <2>1. thread[r] # "none"
    BY <1>3, <1>7 DEF Inv, ThreadInv
  <2>2. thread'[q] \in {thread[q], "over"} /\ thread'[r] # "none"
    BY <1>3, <1>8, <2>1 DEF Inv, TypeOK
  <2> QED BY <1>1, <1>3, <1>8, <2>2 DEF Inv, ThreadInv, TypeOK
<1>11. CountInv'
  <2> SUFFICES ASSUME NEW q \in Requests
               PROVE  delivered'[q] <= produced'[q] /\ refs'[q] = References(q)'
    BY DEF CountInv
  <2>1. /\ delivered[q] <= produced[q] /\ refs[q] = References(q)
        /\ delivered[q] \in Nat /\ produced[q] \in Nat
    BY DEF Inv, CountInv, TypeOK
  <2>2. CASE q # r
    BY <1>1, <1>8, <2>1, <2>2 DEF Inv, TypeOK, References
  <2>3. CASE q = r
    <3>1. Reporting(q)' <=> Reporting(q)
      BY <1>3, <1>7, <1>8, <2>3 DEF Inv, TypeOK
    <3>2. refs'[q] = refs[q] - 1 /\ delivered'[q] = delivered[q] + 1
      BY <1>1, <1>3, <1>8, <2>3 DEF Inv, TypeOK
    <3> QED BY <1>1, <1>6, <2>1, <2>3, <3>1, <3>2 DEF References
  <2> QED BY <2>2, <2>3
<1>12. EventsInOrder'
  <2>1. ASSUME NEW q \in Requests
        PROVE  \A k \in 1 .. (n - 1) : k \in Waiting(q)' <=> k + 1 \in Waiting(q)
    BY <1>2 DEF Waiting
  <2>2. \A q \in Requests : Waiting(q)' \subseteq 1 .. (n - 1)
    BY <1>2 DEF Waiting
  <2> SUFFICES ASSUME NEW q \in Requests
               PROVE  /\ {Pending'[k].event : k \in Waiting(q)'}
                           = (delivered'[q] + 1) .. produced'[q]
                      /\ \A j, k \in Waiting(q)' :
                           j < k => Pending'[j].event < Pending'[k].event
    BY DEF EventsInOrder
  <2>3. /\ {Pending[k].event : k \in Waiting(q)} = (delivered[q] + 1) .. produced[q]
        /\ \A j, k \in Waiting(q) : j < k => Pending[j].event < Pending[k].event
        /\ delivered[q] \in Nat /\ produced[q] \in Nat
    BY DEF Inv, EventsInOrder, TypeOK
  <2>4. \A k \in Waiting(q)' : k \in 1 .. (n - 1) /\ k \in Nat /\ k + 1 \in Waiting(q)
                              /\ Pending'[k] = Pending[k + 1]
    BY <1>2, <2>1, <2>2
  <2>5. \A j, k \in Waiting(q)' : j < k => Pending'[j].event < Pending'[k].event
    BY <2>3, <2>4
  <2>6. \A k \in Waiting(q) : k \in 1 .. n /\ (k # 1 => k - 1 \in Waiting(q)')
    <3>1. Waiting(q) \subseteq 1 .. n
      BY DEF Waiting
    <3>2. ASSUME NEW k \in Waiting(q), k # 1 PROVE k - 1 \in Waiting(q)'
      <4>1. k - 1 \in 1 .. (n - 1) /\ (k - 1) + 1 = k
        BY <1>2, <3>1, <3>2
      <4> QED BY <2>1, <4>1
    <3> QED BY <3>1, <3>2
  <2>7. {Pending'[k].event : k \in Waiting(q)'} = {Pending[k].event : k \in Waiting(q) \ {1}}
    <3>1. ASSUME NEW k \in Waiting(q)'
          PROVE  \E i \in Waiting(q) \ {1} : Pending[i].event = Pending'[k].event
      <4>1. k + 1 \in Waiting(q) \ {1} /\ Pending'[k] = Pending[k + 1]
        BY <2>4
      <4> QED BY <4>1
    <3>2. ASSUME NEW i \in Waiting(q) \ {1}
          PROVE  \E k \in Waiting(q)' : Pending'[k].event = Pending[i].event
      <4>1. i - 1 \in Waiting(q)' /\ (i - 1) + 1 = i
        BY <1>2, <2>6
      <4>2. Pending'[i - 1] = Pending[i]
        BY <2>4, <4>1
      <4> QED BY <4>1, <4>2
    <3> QED BY <3>1, <3>2
  <2>8. CASE q # r
    <3>1. 1 \notin Waiting(q) /\ delivered'[q] = delivered[q] /\ produced' = produced
      BY <1>1, <1>3, <2>8 DEF Waiting, Inv, TypeOK
    <3>2. Waiting(q) \ {1} = Waiting(q)
      BY <3>1
    <3> QED BY <2>3, <2>5, <2>7, <3>1, <3>2
  <2>9. CASE q = r
    <3>1. /\ delivered'[q] = delivered[q] + 1 /\ produced' = produced
          /\ Pending[1].event = delivered[q] + 1 /\ 1 \in Waiting(q)
      BY <1>1, <1>3, <1>4, <1>6, <2>9 DEF Inv, TypeOK
    <3>2. {Pending[k].event : k \in Waiting(q) \ {1}}
            = ((delivered[q] + 1) .. produced[q]) \ {delivered[q] + 1}
      <4>1. \A k \in Waiting(q) \ {1} : Pending[k].event # Pending[1].event
        <5>1. \A k \in Waiting(q) \ {1} : 1 < k
          BY <1>5, <2>9
        <5>2. \A k \in Waiting(q) \ {1} : Pending[1].event < Pending[k].event
          BY <2>3, <3>1, <5>1
        <5>3. \A k \in Waiting(q) : Pending[k].event \in Nat
          <6>1. \A k \in Waiting(q) : Pending[k].event \in (delivered[q] + 1) .. produced[q]
            BY <2>3
          <6> QED BY <2>3, <6>1
        <5> QED BY <3>1, <5>2, <5>3
      <4> QED BY <2>3, <3>1, <4>1
    <3>3. ((delivered[q] + 1) .. produced[q]) \ {delivered[q] + 1}
            = (delivered'[q] + 1) .. produced'[q]
      BY <2>3, <3>1
    <3> QED BY <2>5, <2>7, <3>2, <3>3
  <2> QED BY <2>8, <2>9
<1> QED BY <1>8, <1>9, <1>10, <1>11, <1>12 DEF Inv
-----------------------------------------------------------------------------
LEMMA ContextsInv == Spec => []Inv
<1>1. Inv /\ [Next]_vars => Inv'
  <2> SUFFICES ASSUME Inv, [Next]_vars PROVE Inv'
    OBVIOUS
  <2>1. CASE RequestNext
    BY <2>1, MakeRequestKeeps, CollectKeeps, CountReferenceKeeps,
       ReportMetricsKeeps, DispatchKeeps DEF RequestNext
  <2>2. CASE LoopNext
    BY <2>2, TakeBatchKeeps, RunTaskKeeps DEF LoopNext
  <2>3. CASE UNCHANGED vars
    <3> USE <2>3 DEF vars, contexts, wrappers, requests, tasks
    <3>1. TypeOK'
      BY DEF Inv, TypeOK
    <3>2. ContextInv'
      BY DEF Inv, ContextInv, PrivateOfLiveContextFound, CollectsInLiveContext, WrapperInv
    <3>3. ThreadInv' /\ CountInv'
      BY DEF Inv, ThreadInv, CountInv, References
    <3>4. EventsInOrder'
      BY DEF Inv, EventsInOrder, Waiting, Pending
    <3> QED BY <3>1, <3>2, <3>3, <3>4 DEF Inv
  <2> QED BY <2>1, <2>2, <2>3, ContextStep DEF Next
<1> QED BY InitInv, <1>1, PTL DEF Spec

(* A deleted context is used through the two raw pointers that are not taken back,
   the listeners of the keys and of a request's metrics, and in no other way: no
   wrapper knows it, its private object is finalized with nothing protected, and the
   collector is given a live context or none. *)
THEOREM OthersForget == Spec => []OnlyRawPointersStray
<1>1. Inv => OnlyRawPointersStray
  <2> SUFFICES ASSUME Inv PROVE OnlyRawPointersStray
    OBVIOUS
  <2>1. NoCallIntoDeletedContext
    BY DEF Inv, ContextInv, WrapperInv, NoCallIntoDeletedContext
  <2>2. NothingProtectedWhenFinalized
    <3>1. \A c \in finalized : c \in Ids /\ c \notin live /\ c # 0
      BY DEF Inv, TypeOK, Ids
    <3>2. \A r \in Requests : listener[r].private # 0 => listener[r].private \in live
      BY DEF Inv, ContextInv, WrapperInv
    <3> QED BY <3>1, <3>2 DEF Inv, ContextInv, WrapperInv, NothingProtectedWhenFinalized
  <2>3. ASSUME NEW c \in (1 .. made) \ live
        PROVE  Users(c) \subseteq {"keys"} \cup (IF envValue THEN {"metrics"} ELSE {})
    <3>1. top # c
      BY DEF Inv, ContextInv, CollectsInLiveContext, TypeOK
    <3>2. batch # <<>> => listener[Head(batch).request].context # c
      <4> SUFFICES ASSUME batch # <<>>
                   PROVE  listener[Head(batch).request].context # c
        OBVIOUS
      <4>1. Head(batch) \in Task
        BY DEF Inv, TypeOK
      <4>2. Head(batch).request \in Requests
        BY <4>1 DEF Task
      <4>3. c # 0 /\ c \notin live
        BY DEF Inv, TypeOK
      <4> QED BY <2>1, <4>2, <4>3 DEF NoCallIntoDeletedContext
    <3>3. (\E r \in Requests : thread[r] = "measured" /\ metrics[r] = c) => envValue
      BY DEF Inv, ThreadInv
    <3> QED BY <3>1, <3>2, <3>3 DEF Users
  <2> QED BY <2>1, <2>2, <2>3 DEF Inv, ContextInv, OnlyRawPointersStray
<1> QED BY ContextsInv, <1>1, PTL

(* The private object of a live context is found by its address, although
   addresses are used again and old private objects finalized late. *)
THEOREM PrivateFound == Spec => []PrivateOfLiveContextFound
<1>1. Inv => PrivateOfLiveContextFound
  BY DEF Inv, ContextInv
<1> QED BY ContextsInv, <1>1, PTL

(* A request has one reference per waiting task, so no task finds it destroyed,
   and its events are emitted once and in order. *)
THEOREM TasksServed == Spec => []TasksInOrder
<1>1. Inv => TasksInOrder
  <2> SUFFICES ASSUME Inv PROVE TasksInOrder
    OBVIOUS
  <2>1. \A r \in Requests : Cardinality(Waiting(r)) = produced[r] - delivered[r]
    BY WaitingCounted DEF Inv
  <2>2. RequestOutlivesTasks
    BY <2>1 DEF Inv, CountInv, References, RequestOutlivesTasks
  <2> QED BY <2>2 DEF Inv, TasksInOrder
<1> QED BY ContextsInv, <1>1, PTL
=============================================================================
