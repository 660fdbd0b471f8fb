------------------------------ MODULE Backlight ------------------------------
(***************************************************************************)
(* Automatic dimming of the screen: restore_backlight_lvgl and the first   *)
(* half of feeding_popup_timer_cb in main.c, the brightness slider of      *)
(* setting_page.c, the PWM level kept by st7789.c.                         *)
(*                                                                         *)
(* The LVGL task owns this state by design, but the MQTT task reaches      *)
(* restore_backlight_lvgl too (a cloud feed is a manual_feeding_start) and *)
(* the scheduler leaves a request in s_backlight_restore_pending.  bl[t]   *)
(* is the place of task t in these functions; one step is one access to    *)
(* shared state, or several that no other task can tell apart.             *)
(***************************************************************************)
EXTENDS Integers

CONSTANTS UiTask,      \* the LVGL task
          SchedTask,   \* the feeding scheduler's task
          CloudTasks,  \* the MQTT task, or no task at all
          Levels       \* the levels of the slider (30..100 percent)

ASSUME BacklightAssumption ==
  /\ Levels # {} /\ Levels \subseteq 1..100
  /\ UiTask # SchedTask
  /\ UiTask \notin CloudTasks /\ SchedTask \notin CloudTasks

VARIABLES
  dimmed,       \* s_backlight_dimmed
  saved,        \* s_backlight_restore_brightness
  wakePending,  \* s_backlight_restore_pending
  level,        \* s_current_brightness of st7789.c, 0 when dark
  chosen,       \* pending_brightness of setting_page.c: the user's last choice
  inactive,     \* lv_disp_get_inactive_time: < 2 s, in between, > 5 min
  seen,         \* a tick has sampled inactive since it last changed
  sample,       \* the tick's local inactive_ms
  bl            \* the place of each task in the code

backlightVars == <<dimmed, saved, wakePending, level, chosen, inactive, seen,
                   sample, bl>>

Tasks    == {UiTask, SchedTask} \cup CloudTasks
Restorers == {UiTask} \cup CloudTasks
IdleTime == {"recent", "quiet", "long"}
BlPlaces == {"idle", "restore", "consume", "consumeRestore", "decide",
             "decideRestore", "off", "polled", "flag"}

\* The boot code sets the stored brightness and remembers it for restoring.
BacklightInit ==
  /\ dimmed = FALSE
  /\ level \in Levels
  /\ saved = level
  /\ chosen = level
  /\ wakePending = FALSE
  /\ inactive = "recent"
  /\ seen = FALSE
  /\ sample = "recent"
  /\ bl = [t \in Tasks |-> "idle"]

Goto(t, place) == bl' = [bl EXCEPT ![t] = place]
-----------------------------------------------------------------------------
\* LVGL sees a touch; nothing else happens until the next tick.
Touch ==
  /\ bl[UiTask] = "idle"
  /\ inactive' = "recent"
  /\ seen' = FALSE
  /\ UNCHANGED <<dimmed, saved, wakePending, level, chosen, sample, bl>>

\* brightness_slider_cb: a touch that moves the slider to b.
SliderMoved(b) ==
  /\ bl[UiTask] = "idle"
  /\ level' = b
  /\ chosen' = b
  /\ inactive' = "recent"
  /\ seen' = FALSE
  /\ UNCHANGED <<dimmed, saved, wakePending, sample, bl>>

\* Seconds pass without a touch.  LVGL's clock is advanced by the LVGL task
\* itself (lv_tick_inc in lvgl_event_task), so ticks have run meanwhile, and no
\* task stays for seconds between two statements of these functions.
Elapse ==
  /\ \A t \in Tasks : bl[t] = "idle"
  /\ seen
  /\ inactive' = IF inactive = "recent" THEN "quiet" ELSE "long"
  /\ seen' = FALSE
  /\ UNCHANGED <<dimmed, saved, wakePending, level, chosen, sample, bl>>
-----------------------------------------------------------------------------
\* restore_backlight_lvgl: test and clear s_backlight_dimmed; when it was set
\* go on at busy, otherwise at rest.
RestoreTest(t, busy, rest) ==
  /\ dimmed' = FALSE
  /\ Goto(t, IF dimmed THEN busy ELSE rest)
  /\ UNCHANGED <<saved, wakePending, level, chosen, inactive, seen, sample>>

\* Its second half: the level is written and lv_disp_trig_activity called.
RestoreWrite(t, place, next) ==
  /\ bl[t] = place
  /\ level' = IF saved = 0 THEN 100 ELSE saved
  /\ inactive' = "recent"
  /\ seen' = FALSE
  /\ Goto(t, next)
  /\ UNCHANGED <<dimmed, saved, wakePending, chosen, sample>>

\* A manual feed, from the screen or from the cloud, or the bind popup.
RestoreBegin(t) ==
  /\ bl[t] = "idle"
  /\ RestoreTest(t, "restore", "idle")

RestoreEnd(t) == RestoreWrite(t, "restore", "idle")

\* on_feeding_triggered, in the scheduler's task: read s_backlight_dimmed, and
\* leave a request when it is set.
WakeTest ==
  /\ bl[SchedTask] = "idle"
  /\ Goto(SchedTask, IF dimmed THEN "flag" ELSE "idle")
  /\ UNCHANGED <<dimmed, saved, wakePending, level, chosen, inactive, seen, sample>>

WakeFlag ==
  /\ bl[SchedTask] = "flag"
  /\ wakePending' = TRUE
  /\ Goto(SchedTask, "idle")
  /\ UNCHANGED <<dimmed, saved, level, chosen, inactive, seen, sample>>
-----------------------------------------------------------------------------
\* feeding_popup_timer_cb, every 200 ms: the idle time is sampled once ...
TickBegin ==
  /\ bl[UiTask] = "idle"
  /\ sample' = inactive
  /\ seen' = TRUE
  /\ Goto(UiTask, "consume")
  /\ UNCHANGED <<dimmed, saved, wakePending, level, chosen, inactive>>

\* Mutant: the request is cleared and nothing is restored.
TickConsumeDropped ==
  /\ bl[UiTask] = "consume"
  /\ wakePending' = FALSE
  /\ Goto(UiTask, "decide")
  /\ UNCHANGED <<dimmed, saved, level, chosen, inactive, seen, sample>>

\* ... then a request of the scheduler is consumed ...
TickConsume ==
  /\ bl[UiTask] = "consume"
  /\ wakePending' = FALSE
  /\ dimmed' = (dimmed /\ ~wakePending)
  /\ Goto(UiTask, IF wakePending /\ dimmed THEN "consumeRestore" ELSE "decide")
  /\ UNCHANGED <<saved, level, chosen, inactive, seen, sample>>

TickConsumeRestore == RestoreWrite(UiTask, "consumeRestore", "decide")

\* Mutant: the level is not remembered.
TickDimForgets ==
  /\ bl[UiTask] = "decide"
  /\ sample = "long" /\ ~dimmed
  /\ dimmed' = TRUE
  /\ Goto(UiTask, "off")
  /\ UNCHANGED <<saved, wakePending, level, chosen, inactive, seen, sample>>

\* ... and the sample, which may be older than that request, decides: dim,
\* remembering the level that is shown, ...
TickDim ==
  /\ bl[UiTask] = "decide"
  /\ sample = "long" /\ ~dimmed
  /\ dimmed' = TRUE
  /\ saved' = IF level > 0 THEN level ELSE saved
  /\ Goto(UiTask, "off")
  /\ UNCHANGED <<wakePending, level, chosen, inactive, seen, sample>>

TickOff ==
  /\ bl[UiTask] = "off"
  /\ level' = 0
  /\ Goto(UiTask, "polled")
  /\ UNCHANGED <<dimmed, saved, wakePending, chosen, inactive, seen, sample>>

\* Mutant: a touch does not wake.
TickKeepDark ==
  /\ bl[UiTask] = "decide"
  /\ ~(sample = "long" /\ ~dimmed)
  /\ Goto(UiTask, "polled")
  /\ UNCHANGED <<dimmed, saved, wakePending, level, chosen, inactive, seen, sample>>

\* ... wake after a touch, or leave the backlight as it is.
TickKeep ==
  /\ bl[UiTask] = "decide"
  /\ ~(sample = "long" /\ ~dimmed)
  /\ IF sample = "recent" THEN RestoreTest(UiTask, "decideRestore", "polled")
     ELSE /\ Goto(UiTask, "polled")
          /\ UNCHANGED <<dimmed, saved, wakePending, level, chosen, inactive,
                         seen, sample>>

TickRestore == RestoreWrite(UiTask, "decideRestore", "polled")

\* The callback returns (the feeding half of it is in module Feeding).
TickEnd ==
  /\ bl[UiTask] = "polled"
  /\ Goto(UiTask, "idle")
  /\ UNCHANGED <<dimmed, saved, wakePending, level, chosen, inactive, seen, sample>>

TickStep == \/ TickConsume \/ TickConsumeRestore \/ TickDim \/ TickOff
            \/ TickKeep \/ TickRestore

BacklightNext ==
  \/ Touch \/ Elapse \/ \E b \in Levels : SliderMoved(b)
  \/ \E t \in Restorers : RestoreBegin(t) \/ RestoreEnd(t)
  \/ WakeTest \/ WakeFlag
  \/ TickBegin \/ TickStep \/ TickEnd

\* The LVGL task runs its timers for ever, and a task inside one of these
\* functions comes out of it.  Nobody has to touch the screen or to feed.
BacklightFairness ==
  /\ WF_backlightVars(TickBegin \/ TickStep \/ TickEnd)
  /\ \A t \in Restorers : WF_backlightVars(RestoreEnd(t))
  /\ WF_backlightVars(WakeFlag)

BacklightSpec ==
  BacklightInit /\ [][BacklightNext]_backlightVars /\ BacklightFairness
-----------------------------------------------------------------------------
\* Types of the backlight's state.
BacklightTypeOK ==
  /\ dimmed \in BOOLEAN
  /\ saved \in Levels /\ chosen \in Levels
  /\ level \in Levels \cup {0}
  /\ wakePending \in BOOLEAN
  /\ inactive \in IdleTime /\ sample \in IdleTime
  /\ seen \in BOOLEAN
  /\ bl \in [Tasks -> BlPlaces]

\* "... or an active feed wakes it again" (README.md:407): a request of the
\* scheduler is honoured, although the tick that consumes it decides with an
\* idle time sampled before and dims the screen once more.
FeedWakes == wakePending ~> level # 0 /\ bl[UiTask] = "idle"

\* "touch activity ... wakes it again" (README.md:407): when a tick has taken
\* note of a recent touch and nobody is waking the screen, it is lit.
TouchLights ==
  (\A t \in Tasks : bl[t] = "idle") /\ seen /\ inactive = "recent" => level # 0

\* "The brightness selected before dimming is ... kept separately from the
\* temporary 0% PWM output" (CHANGELOG.md:91): the level to go back to is the
\* one that was shown when the screen went dark, for as long as it is dark.
SelectedLevelRemembered ==
  [][level' = 0 => saved' = IF level = 0 THEN saved ELSE level]_backlightVars
=============================================================================
