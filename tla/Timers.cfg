SPECIFICATION TimerSpec
CONSTANTS
  MaxTimers = 3
  MaxTime = 3
  Intervals <- ShortDelays
INVARIANTS
  TimersOwned
PROPERTIES
  ClearedNeverFires
  PassServesDue
  EventuallyFires
