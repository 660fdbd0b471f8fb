----------------------------- MODULE MCBacklight -----------------------------
(* Backlight for TLC: two levels of the slider, with or without the MQTT task. *)
EXTENDS Backlight

CONSTANTS lvgl, sched, mqtt

MCLevels == {30, 100}
NoCloud  == {}
Cloud    == {mqtt}
=============================================================================
