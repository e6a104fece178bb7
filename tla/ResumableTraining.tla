-------------------------- MODULE ResumableTraining ---------------------------
(***************************************************************************)
(* What checkpointing promises a training run (the "exact resume" of       *)
(* RayPPOTrainer._stage1b_state_dict, verl/trainer/ppo/ray_trainer.py),    *)
(* without files, ranks or the order of writes: there is one saved state;  *)
(* it changes only by becoming the live one; and a run that comes back     *)
(* after a crash goes on from exactly the saved state.                     *)
(***************************************************************************)
CONSTANTS Down,     \* the live state of a process that does not run
          Fresh     \* the state of a run that starts from scratch

VARIABLES live,     \* step, weights, sampler and data position of the driver
          saved     \* the state a resume will restore

vars == <<live, saved>>

Init == live = Fresh /\ saved = Fresh

\* The run works: nothing that was saved changes.
Advance ==
    /\ live # Down
    /\ live' # Down
    /\ saved' = saved

\* One step makes the whole live state the saved one.
Commit ==
    /\ live # Down
    /\ live' = live
    /\ saved' = live

Crash ==
    /\ live # Down
    /\ live' = Down
    /\ saved' = saved

Resume ==
    /\ live = Down
    /\ live' = saved
    /\ saved' = saved

Next == Advance \/ Commit \/ Crash \/ Resume

Spec == Init /\ [][Next]_vars
=============================================================================
