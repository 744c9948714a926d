----------------------------- MODULE MCBackground ----------------------------
(* A small instance of Background.  Of the schedule: the queue of the crank,  *)
(* and the last, whose job is scheduled in a way of its own.                  *)
EXTENDS Background
=============================================================================
