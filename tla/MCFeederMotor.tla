---------------------------- MODULE MCFeederMotor ----------------------------
(* FeederMotor for TLC: two tasks asking for feeds of any legal size, with  *)
(* two microsteps to a slot, so that a request of every size ends on and   *)
(* crosses the wheel's origin.                                             *)
EXTENDS FeederMotor

CONSTANTS lvgl, sched

MCCallers == {lvgl, sched}
=============================================================================
