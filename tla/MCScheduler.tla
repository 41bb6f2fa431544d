---------------------------- MODULE MCScheduler ----------------------------
(* Model-checking instance of Scheduler: two users, two controllers and   *)
(* two worker threads; the strategy is fixed by the .cfg.                  *)
EXTENDS Scheduler, TLC

CONSTANTS u1, u2, c1, c2

MCUsers == {u1, u2}
MCControllers == {c1, c2}
=============================================================================
