------------------------------ MODULE MCFeeding ------------------------------
(* Feeding for TLC: the LVGL task, the scheduler and, where a run says so,   *)
(* the MQTT task; one microstep to a slot and one level of the slider, which *)
(* their own modules vary.                                                   *)
EXTENDS Feeding

CONSTANTS lvgl, sched, mqtt

NoCloud  == {}
Cloud    == {mqtt}
TwoTasks   == {lvgl, sched}
ThreeTasks == {lvgl, sched, mqtt}
NoSchedule == {}
MCLevels   == {100}
OneSlot    == {1}
TwoSlots   == {2}
AnySlots   == {0, 2}
=============================================================================
