---------------------------- MODULE MCScheduler ----------------------------
(* The plans of the timers: a repeated one with a delay, a one-shot, one for *)
(* every frame and one that runs for ever.                                   *)
EXTENDS Scheduler, TLC

Plan(interval, repeat, forever, delay) ==
  [interval |-> interval, repeat |-> repeat, forever |-> forever,
   delay |-> delay]
OneShot == Plan(1, 0, FALSE, 0)
EveryFrame == Plan(0, 0, TRUE, 0)
Delayed == Plan(1, 1, FALSE, 1)

Mixed == {Delayed, EveryFrame}
OneShots == {OneShot, Plan(1, 0, FALSE, 1)}
Frames == {EveryFrame}

Symmetric == Permutations(Targets) \cup Permutations(Keys) \cup Permutations(Timers)
=============================================================================
