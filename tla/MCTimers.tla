-------------------------------- MODULE MCTimers --------------------------------
(* Timers with the delays of its run, a negative one among them. *)
EXTENDS Timers

ShortDelays == {-1, 0, 1}
=============================================================================
