--------------------------------- MODULE Timers ---------------------------------
(***************************************************************************)
(* The timers behind setTimeout, setInterval and the engine's garbage       *)
(* collection: installTimeout, clearTimeout and dispatchTimeouts.           *)
(*                                                                         *)
(* All of it runs on the main thread, but not one call after the other:     *)
(* dispatchTimeouts runs JavaScript in the middle of its loop, and that     *)
(* JavaScript installs and clears timers, the running one, those of the     *)
(* queue and those set aside for the end of the pass included.  Timers are  *)
(* numbered as allocated, which is also its tag: gTimeoutIdx counts up, and  *)
(* its wrap after 2^32 timers is out of the model.                           *)
(***************************************************************************)
EXTENDS Integers

CONSTANTS
  MaxTimers,  \* bound: timers installed
  MaxTime,    \* bound: the last instant of the clock
  Intervals   \* the delays scripts ask for, negative ones included

ASSUME TimerAssumption ==
  /\ MaxTimers \in Nat /\ MaxTime \in Nat \ {0}
  /\ Intervals \subseteq Int

VARIABLES
  installed,  \* gTimeoutIdx: timers allocated so far
  info,       \* what each allocated TimeoutInfo holds
  objects,    \* the TimeoutInfo allocated and not deleted
  timeoutMap, \* gTimeoutMap: the tags it has an entry for
  timeoutQueue, \* gTimeoutQueue
  heapOk,     \* is the priority queue's vector a heap
  repeats,    \* timeoutsToRepeat of the pass under way
  current,    \* the timer whose callback runs, 0 for none
  passTime,   \* currentTime of the pass under way
  now,        \* the steady clock
  pc,         \* "idle", "pass" (between timers) or "callback"
  cleared,    \* history: timers that a clearTimeout found
  fired,      \* history: the timers whose callback ran
  inPass      \* history: the timers that ran in the pass under way

timerVars == <<installed, info, objects, timeoutMap, timeoutQueue, heapOk, repeats,
               current, passTime, now, pc, cleared, fired, inPass>>
history == <<cleared, fired, inPass>>
-----------------------------------------------------------------------------
Timer == 1 .. MaxTimers

(* steady_clock's minimum lies before every instant. *)
Minimum == 0
TimeoutInfo == [fireTime : Nat, interval : Nat, repeat : BOOLEAN, canceled : BOOLEAN]

(* TimeoutInfoComparator: the earliest first, then the smallest tag. *)
Before(s, t) ==
  \/ info[s].fireTime < info[t].fireTime
  \/ info[s].fireTime = info[t].fireTime /\ s < t

(* top() is the least element of a heap, and any element of a vector whose
   keys changed since it was one. *)
Top(t) ==
  /\ t \in timeoutQueue
  /\ heapOk => \A s \in timeoutQueue \ {t} : Before(t, s)

TimerInit ==
  /\ installed = 0
  /\ info = [t \in Timer |-> [fireTime |-> Minimum, interval |-> 0,
                              repeat |-> FALSE, canceled |-> FALSE]]
  /\ objects = {}
  /\ timeoutMap = {}
  /\ timeoutQueue = {}
  /\ heapOk = TRUE
  /\ repeats = {}
  /\ current = 0
  /\ passTime = 0
  /\ now = 1
  /\ pc = "idle"
  /\ cleared = {}
  /\ fired = {}
  /\ inPass = {}
-----------------------------------------------------------------------------
Tick ==
  /\ now < MaxTime
  /\ now' = now + 1
  /\ UNCHANGED <<installed, info, objects, timeoutMap, timeoutQueue, heapOk,
                 repeats, current, passTime, pc, history>>

(* Scripts run between passes and inside callbacks. *)
ScriptRuns == pc \in {"idle", "callback"}

(* A negative delay counts as zero. *)
Delay(intervalMs) == IF intervalMs < 0 THEN 0 ELSE intervalMs

InstallTimeout(intervalMs, repeat) ==
  /\ ScriptRuns
  /\ installed < MaxTimers
  /\ installed' = installed + 1
  /\ info' = [info EXCEPT ![installed'] =
                [fireTime |-> now + Delay(intervalMs), interval |-> Delay(intervalMs),
                 repeat |-> repeat, canceled |-> FALSE]]
  /\ objects' = objects \cup {installed'}
  /\ timeoutMap' = timeoutMap \cup {installed'}
  /\ timeoutQueue' = timeoutQueue \cup {installed'}
  /\ UNCHANGED <<heapOk, repeats, current, passTime, now, pc, history>>

(* Defect: the timer is only taken out of the map and moved to the front. *)
ClearTimeoutNoFlag(tag) ==
  /\ ScriptRuns
  /\ tag \in timeoutMap
  /\ info' = [info EXCEPT ![tag].fireTime = Minimum]
  /\ heapOk' = (heapOk \/ tag \in timeoutQueue)
  /\ timeoutMap' = timeoutMap \ {tag}
  /\ cleared' = cleared \cup {tag}
  /\ UNCHANGED <<installed, objects, timeoutQueue, repeats, current, passTime, now,
                 pc, fired, inPass>>

(* Defect: a timer that is not in the queue is deleted at once. *)
ClearTimeoutDeletes(tag) ==
  /\ ScriptRuns
  /\ tag \in timeoutMap
  /\ info' = [info EXCEPT ![tag].fireTime = Minimum, ![tag].canceled = TRUE]
  /\ heapOk' = (heapOk \/ tag \in timeoutQueue)
  /\ timeoutMap' = timeoutMap \ {tag}
  /\ objects' = IF tag \in timeoutQueue THEN objects ELSE objects \ {tag}
  /\ cleared' = cleared \cup {tag}
  /\ UNCHANGED <<installed, timeoutQueue, repeats, current, passTime, now, pc,
                 fired, inPass>>

(* The object stays allocated for dispatchTimeouts to delete.  updateForInfo
   makes the vector a heap again, if the timer is in it. *)
ClearTimeout(tag) ==
  /\ ScriptRuns
  /\ tag \in timeoutMap
  /\ info' = [info EXCEPT ![tag].fireTime = Minimum, ![tag].canceled = TRUE]
  /\ heapOk' = (heapOk \/ tag \in timeoutQueue)
  /\ timeoutMap' = timeoutMap \ {tag}
  /\ cleared' = cleared \cup {tag}
  /\ UNCHANGED <<installed, objects, timeoutQueue, repeats, current, passTime, now,
                 pc, fired, inPass>>
-----------------------------------------------------------------------------
(* dispatchTimeouts *)

BeginPass ==
  /\ pc = "idle"
  /\ pc' = "pass"
  /\ passTime' = now
  /\ UNCHANGED <<installed, info, objects, timeoutMap, timeoutQueue, heapOk,
                 repeats, current, now, history>>

DropCanceled(t) ==
  /\ pc = "pass"
  /\ Top(t)
  /\ info[t].canceled
  /\ timeoutQueue' = timeoutQueue \ {t}
  /\ objects' = objects \ {t}
  /\ UNCHANGED <<installed, info, timeoutMap, heapOk, repeats, current, passTime,
                 now, pc, history>>

Fire(t) ==
  /\ pc = "pass"
  /\ Top(t)
  /\ ~info[t].canceled
  /\ info[t].fireTime <= passTime
  /\ timeoutQueue' = timeoutQueue \ {t}
  /\ current' = t
  /\ pc' = "callback"
  /\ fired' = fired \cup {t}
  /\ inPass' = inPass \cup {t}
  /\ UNCHANGED <<installed, info, objects, timeoutMap, heapOk, repeats, passTime,
                 now, cleared>>

(* The callback returned rc: nonzero when the call into JavaScript failed. *)
Finished(rc) == rc # 0 \/ ~info[current].repeat \/ info[current].canceled

DeleteAfterCallback(rc) ==
  /\ pc = "callback"
  /\ Finished(rc)
  /\ timeoutMap' = IF info[current].canceled THEN timeoutMap
                   ELSE timeoutMap \ {current}
  /\ objects' = objects \ {current}
  /\ current' = 0
  /\ pc' = "pass"
  /\ UNCHANGED <<installed, info, timeoutQueue, heapOk, repeats, passTime, now,
                 history>>

(* A repeating timer is set aside until the loop is over. *)
RepeatAfterCallback(rc) ==
  /\ pc = "callback"
  /\ ~Finished(rc)
  /\ info' = [info EXCEPT ![current].fireTime = passTime + info[current].interval]
  /\ repeats' = repeats \cup {current}
  /\ current' = 0
  /\ pc' = "pass"
  /\ UNCHANGED <<installed, objects, timeoutMap, timeoutQueue, heapOk, passTime,
                 now, history>>

(* Defect: a timer due at this very instant is taken for one of the future. *)
NothingDueEarly ==
  \/ timeoutQueue = {}
  \/ \E t \in timeoutQueue : Top(t) /\ ~info[t].canceled /\ info[t].fireTime >= passTime

(* The loop ends with the queue empty or its top in the future; then
   pushTimeouts puts the repeating timers back. *)
NothingDue ==
  \/ timeoutQueue = {}
  \/ \E t \in timeoutQueue : Top(t) /\ ~info[t].canceled /\ info[t].fireTime > passTime

(* Defect: the timers are appended without rebuilding the heap. *)
EndPassNoHeapify ==
  /\ pc = "pass"
  /\ NothingDue
  /\ timeoutQueue' = timeoutQueue \cup repeats
  /\ heapOk' = (heapOk /\ repeats = {})
  /\ repeats' = {}
  /\ passTime' = 0
  /\ inPass' = {}
  /\ pc' = "idle"
  /\ UNCHANGED <<installed, info, objects, timeoutMap, current, now, cleared,
                 fired>>

EndPass ==
  /\ pc = "pass"
  /\ NothingDue
  /\ timeoutQueue' = timeoutQueue \cup repeats
  /\ heapOk' = (heapOk \/ repeats # {})
  /\ repeats' = {}
  /\ passTime' = 0
  /\ inPass' = {}
  /\ pc' = "idle"
  /\ UNCHANGED <<installed, info, objects, timeoutMap, current, now, cleared,
                 fired>>
-----------------------------------------------------------------------------
Script ==
  \/ \E i \in Intervals, r \in BOOLEAN : InstallTimeout(i, r)
  \/ \E t \in Timer : ClearTimeout(t)

DispatchTimeouts ==
  \/ BeginPass
  \/ \E t \in timeoutQueue : DropCanceled(t) \/ Fire(t)
  \/ \E rc \in {0, 1} : DeleteAfterCallback(rc) \/ RepeatAfterCallback(rc)
  \/ EndPass

TimerNext == Tick \/ Script \/ DispatchTimeouts

(* Time passes, and the main loop keeps calling dispatchTimeouts. *)
TimerSpec ==
  /\ TimerInit /\ [][TimerNext]_timerVars
  /\ WF_timerVars(Tick) /\ WF_timerVars(DispatchTimeouts)
-----------------------------------------------------------------------------
(* The types of the variables. *)
TimerTypeOK ==
  /\ installed \in 0 .. MaxTimers
  /\ info \in [Timer -> TimeoutInfo]
  /\ objects \subseteq Timer
  /\ timeoutMap \subseteq Timer
  /\ timeoutQueue \subseteq Timer
  /\ heapOk \in BOOLEAN
  /\ repeats \subseteq Timer
  /\ current \in 0 .. MaxTimers
  /\ passTime \in Nat
  /\ now \in Nat
  /\ pc \in {"idle", "pass", "callback"}
  /\ cleared \subseteq Timer
  /\ fired \subseteq Timer
  /\ inPass \subseteq Timer

(* A timer object is in exactly one place for as long as it is allocated: the
   queue, the timers set aside, or the callback under way.  Nothing is deleted
   twice, used after its deletion, or lost without one. *)
OneOwner ==
  /\ objects = timeoutQueue \cup repeats \cup ({current} \ {0})
  /\ timeoutQueue \cap repeats = {}
  /\ current \notin timeoutQueue \cup repeats

(* A timer can be reached by its tag exactly until it is cleared or over: while
   its own callback runs and while it is set aside included.  gTimeoutMap never
   leads clearTimeout to an object that was deleted. *)
ReachableByTag ==
  timeoutMap = {t \in objects : ~info[t].canceled}

(* A timer that clearTimeout found never runs again, wherever it was: in the
   queue, set aside for the next pass, or running. *)
ClearedNeverFires ==
  [][current' # current => current' \notin cleared]_timerVars

(* A timeout runs once at most, and an interval once per pass, one of delay
   zero included: a pass of dispatchTimeouts does not chase what it reschedules. *)
FiresOnce ==
  [][current' \notin {0, current} =>
       /\ current' \notin inPass
       /\ current' \in fired => info[current'].repeat]_timerVars

(* When a pass is over no due timer was left behind, although callbacks
   installed and cleared timers while the queue was being walked. *)
PassLeavesNothingDue ==
  [][pc = "pass" /\ pc' = "idle" =>
       \A t \in timeoutQueue :
         ~info[t].canceled /\ info[t].fireTime > passTime]_timerVars

(* Timers run in the order of their deadlines and, within a deadline, in the
   order in which they were installed. *)
FiresInOrder ==
  [][current' \notin {0, current} =>
       \A s \in timeoutQueue \ {current'} :
         ~info[s].canceled => Before(current', s)]_timerVars

(* A timer that waits in the queue runs or is cleared, an interval each time it
   is put back there. *)
EventuallyFires ==
  \A t \in Timer :
    t \in timeoutQueue /\ info[t].fireTime <= MaxTime ~> current = t \/ t \in cleared

(* The objects behind the tags: none is lost, deleted twice or reached by its
   tag after its deletion, whatever callbacks install and clear. *)
TimersOwned == TimerTypeOK /\ OneOwner /\ ReachableByTag

(* A pass runs what is due, all of it, in order, and nothing twice. *)
PassServesDue == FiresOnce /\ PassLeavesNothingDue /\ FiresInOrder
=============================================================================
