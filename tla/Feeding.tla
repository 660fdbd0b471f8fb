------------------------------- MODULE Feeding -------------------------------
(***************************************************************************)
(* A feed from the request to the report, main.c lines 165 to 300: the     *)
(* session flags s_feeding_active, s_feeding_done and s_feeding_amount     *)
(* shared by three tasks without a lock, on two cores.                     *)
(*                                                                         *)
(*   - the LVGL task: the confirm button calls manual_feeding_start, and   *)
(*     feeding_popup_timer_cb polls the motor every 200 ms, shows and      *)
(*     removes the popup and reports the end of the feed;                  *)
(*   - the MQTT task: the cloud's feed command is manual_feeding_start;    *)
(*   - the scheduler's task: on_feeding_triggered.                         *)
(*                                                                         *)
(* The motor is module FeederMotor, with these tasks as its callers; the   *)
(* backlight part of the same functions is module Backlight.  at[t] is the *)
(* place of task t in the rest of them.                                    *)
(***************************************************************************)
EXTENDS FeederMotor, Backlight, Sequences

CONSTANTS CloudAmounts,      \* slots of a cloud feed command: any uint8_t
          ScheduleAmounts,   \* slots of a schedule entry: 1 to 6
          MaxRequests,       \* bound: how many feeds are asked for
          RunOutlastsTick    \* TRUE: a run of the motor (2.4 s per slot) is
                             \* longer than a tick period of 200 ms

ASSUME FeedingAssumption ==
  /\ CloudAmounts \subseteq 0..255
  /\ ScheduleAmounts \subseteq 1..MaxSlots
  /\ MaxSlots \in 1..255   \* a uint8_t
  /\ MaxRequests \in Nat
  /\ RunOutlastsTick \in BOOLEAN
  /\ Callers = Tasks

VARIABLES
  active,    \* s_feeding_active
  done,      \* s_feeding_done
  amount,    \* s_feeding_amount
  popup,     \* s_feeding_popup # NULL
  at,        \* the place of each task
  req,       \* the argument of the task's request
  tickOwed,  \* whether a full tick has run since the motor was started
  asked,     \* how many requests were made, for the bound
  fed,       \* history: the amounts of the feeds that were accepted
  told       \* history: each call of mqtt_client_publish_feed_done, with
             \* its amount and whether anything was sent

history     == <<tickOwed, asked, fed, told>>
sessionVars == <<active, done, amount, popup, at, req, history>>
feedingVars == <<motorVars, backlightVars, sessionVars>>

Starting == {"wake", "dispense", "claiming", "amount", "active", "done"}
Polling  == {"mark", "show", "check", "clearActive", "clearDone", "publish"}
Places   == {"idle"} \cup Starting \cup Polling

\* What task t asks for: the confirm button of app_page.c always one slot.
Amounts(t) == CASE t = UiTask -> {1}
                [] t = SchedTask -> ScheduleAmounts
                [] OTHER -> CloudAmounts

FeedingInit ==
  /\ MotorInit
  /\ BacklightInit
  /\ active = FALSE
  /\ done = FALSE
  /\ amount = 0
  /\ popup = FALSE
  /\ at = [t \in Tasks |-> "idle"]
  /\ req = [t \in Tasks |-> 0]
  /\ tickOwed = "no"
  /\ asked = 0
  /\ fed = <<>>
  /\ told = <<>>

Go(t, place) == at' = [at EXCEPT ![t] = place]

\* A task not inside any of these functions.
Resting(t) == at[t] = "idle" /\ bl[t] = "idle"

\* Bound: requests that get as far as calling the motor are counted.
Ask == asked < MaxRequests /\ asked' = asked + 1
-----------------------------------------------------------------------------
\* manual_feeding_start: refused while s_feeding_active.
ManualStart(t, n) ==
  /\ Resting(t) /\ Ask
  /\ ~active
  /\ req' = [req EXCEPT ![t] = n]
  /\ Go(t, "wake")
  /\ UNCHANGED <<motorVars, backlightVars, active, done, amount, popup,
                 tickOwed, fed, told>>

\* Its call of restore_backlight_lvgl; RestoreEnd is the rest of it.
ManualWake(t) ==
  /\ at[t] = "wake"
  /\ RestoreBegin(t)
  /\ Go(t, "dispense")
  /\ UNCHANGED <<motorVars, active, done, amount, popup, req, history>>

\* on_feeding_triggered: a request to wake the screen when it is dimmed.  It is
\* not refused while s_feeding_active.
ScheduledStart(n) ==
  /\ Resting(SchedTask) /\ Ask
  /\ req' = [req EXCEPT ![SchedTask] = n]
  /\ WakeTest
  /\ Go(SchedTask, "dispense")
  /\ UNCHANGED <<motorVars, active, done, amount, popup, tickOwed, fed, told>>

\* feeder_motor_dispense, by either function: the claim, ...
DispenseClaim(t) ==
  /\ at[t] = "dispense" /\ bl[t] = "idle"
  /\ Claim(t, req[t])
  /\ Go(t, "claiming")
  /\ UNCHANGED <<backlightVars, active, done, amount, popup, req, history>>

\* Mutant: the result of feeder_motor_dispense is not looked at.
RefusalIgnored(t) ==
  /\ at[t] = "dispense" /\ bl[t] = "idle"
  /\ Refused(t, req[t])
  /\ Go(t, "amount")
  /\ UNCHANGED <<backlightVars, active, done, amount, popup, req, history>>

\* ... refused, the request is dropped; ...
DispenseRefused(t) ==
  /\ at[t] = "dispense" /\ bl[t] = "idle"
  /\ Refused(t, req[t])
  /\ Go(t, "idle")
  /\ UNCHANGED <<backlightVars, active, done, amount, popup, req, history>>

\* ... the task is created, the motor will run; ...
DispenseOk(t) ==
  /\ at[t] = "claiming"
  /\ CreateTask(t)
  /\ fed' = Append(fed, req[t])
  /\ tickOwed' = "begin"
  /\ Go(t, "amount")
  /\ UNCHANGED <<backlightVars, active, done, amount, popup, req, asked, told>>

\* ... or it is not, and the request is dropped.
DispenseFails(t) ==
  /\ at[t] = "claiming"
  /\ CreateFails(t)
  /\ Go(t, "idle")
  /\ UNCHANGED <<backlightVars, active, done, amount, popup, req, history>>

\* The three assignments that open the session, in the order of the code.
WriteAmount(t) ==
  /\ at[t] = "amount"
  /\ amount' = req[t]
  /\ Go(t, "active")
  /\ UNCHANGED <<motorVars, backlightVars, active, done, popup, req, history>>

WriteActive(t) ==
  /\ at[t] = "active"
  /\ active' = TRUE
  /\ Go(t, "done")
  /\ UNCHANGED <<motorVars, backlightVars, done, amount, popup, req, history>>

WriteDone(t) ==
  /\ at[t] = "done"
  /\ done' = FALSE
  /\ Go(t, "idle")
  /\ UNCHANGED <<motorVars, backlightVars, active, amount, popup, req, history>>
-----------------------------------------------------------------------------
\* feeding_popup_timer_cb begins with the backlight.  A tick that begins when
\* nobody is opening a session pays the one that is owed.
PollBegin ==
  /\ Resting(UiTask)
  /\ TickBegin
  /\ tickOwed' = IF tickOwed = "begin" /\ \A t \in Tasks : at[t] = "idle"
                 THEN "end" ELSE tickOwed
  /\ UNCHANGED <<motorVars, active, done, amount, popup, at, req, asked, fed, told>>

\* Then the motor is polled: a session whose motor is idle will be marked.
PollMotor ==
  /\ at[UiTask] = "idle" /\ bl[UiTask] = "polled"
  /\ Go(UiTask, IF active /\ ~done /\ ~running THEN "mark" ELSE "show")
  /\ UNCHANGED <<motorVars, backlightVars, active, done, amount, popup, req,
                 history>>

PollMark ==
  /\ at[UiTask] = "mark"
  /\ done' = TRUE
  /\ Go(UiTask, "show")
  /\ UNCHANGED <<motorVars, backlightVars, active, amount, popup, req, history>>

\* Mutant: the popup does not wait for a session.
PollShowAlways ==
  /\ at[UiTask] = "show"
  /\ popup' = (popup \/ ~done)
  /\ Go(UiTask, "check")
  /\ UNCHANGED <<motorVars, backlightVars, active, done, amount, req, history>>

\* The popup of a session that is not done.
PollShow ==
  /\ at[UiTask] = "show"
  /\ popup' = (popup \/ (active /\ ~done))
  /\ Go(UiTask, "check")
  /\ UNCHANGED <<motorVars, backlightVars, active, done, amount, req, history>>

\* The callback returns when there is no popup of a finished session, ...
PollReturn ==
  /\ at[UiTask] = "check"
  /\ ~(done /\ popup)
  /\ TickEnd
  /\ Go(UiTask, "idle")
  /\ tickOwed' = IF tickOwed = "end" THEN "no" ELSE tickOwed
  /\ UNCHANGED <<motorVars, active, done, amount, popup, req, asked, fed, told>>

\* ... otherwise it deletes the popup, closes the session and reports it.
PollClose ==
  /\ at[UiTask] = "check"
  /\ done /\ popup
  /\ popup' = FALSE
  /\ Go(UiTask, "clearActive")
  /\ UNCHANGED <<motorVars, backlightVars, active, done, amount, req, history>>

\* Mutant: s_feeding_active is left set.
ClearActiveMissed ==
  /\ at[UiTask] = "clearActive"
  /\ Go(UiTask, "clearDone")
  /\ UNCHANGED <<motorVars, backlightVars, active, done, amount, popup, req, history>>

ClearActive ==
  /\ at[UiTask] = "clearActive"
  /\ active' = FALSE
  /\ Go(UiTask, "clearDone")
  /\ UNCHANGED <<motorVars, backlightVars, done, amount, popup, req, history>>

ClearDone ==
  /\ at[UiTask] = "clearDone"
  /\ done' = FALSE
  /\ Go(UiTask, "publish")
  /\ UNCHANGED <<motorVars, backlightVars, active, amount, popup, req, history>>

Report(sent) == [amount |-> amount, sent |-> sent]

\* Mutant: the report asks for the session, which has just been closed.
PublishIfActive ==
  /\ at[UiTask] = "publish"
  /\ told' = IF active THEN Append(told, Report(TRUE)) ELSE told
  /\ TickEnd
  /\ Go(UiTask, "idle")
  /\ tickOwed' = IF tickOwed = "end" THEN "no" ELSE tickOwed
  /\ UNCHANGED <<motorVars, active, done, amount, popup, req, asked, fed>>

\* The report is sent, or it is not: MQTT is not connected, or there is no
\* memory for the message.  Nobody looks at the result.
PublishFeedDone ==
  /\ at[UiTask] = "publish"
  /\ \E sent \in BOOLEAN : told' = Append(told, Report(sent))
  /\ TickEnd
  /\ Go(UiTask, "idle")
  /\ tickOwed' = IF tickOwed = "end" THEN "no" ELSE tickOwed
  /\ UNCHANGED <<motorVars, active, done, amount, popup, req, asked, fed>>
-----------------------------------------------------------------------------
\* The dispense task.  With RunOutlastsTick it is through only after a tick
\* that found the session open, and after every function that was under way.
MotorStep(t) ==
  /\ RunStep(t)
  /\ RunOutlastsTick /\ run[t].phase = "disabled" =>
       tickOwed = "no" /\ \A u \in Tasks : at[u] \notin Starting
  /\ UNCHANGED <<backlightVars, sessionVars>>

\* The rest of the backlight: its steps, and touches and time.
BacklightStep(t) ==
  /\ \/ t = UiTask /\ TickStep
     \/ t \in Restorers /\ RestoreEnd(t)
     \/ t = SchedTask /\ WakeFlag
  /\ UNCHANGED <<motorVars, sessionVars>>

Environment ==
  /\ \/ Touch
     \/ Elapse
     \/ \E b \in Levels : SliderMoved(b)
     \/ RestoreBegin(UiTask)   \* the bind popup wakes the screen
  /\ at[UiTask] = "idle"
  /\ UNCHANGED <<motorVars, sessionVars>>

StartStep(t) ==
  \/ ManualWake(t) \/ DispenseClaim(t) \/ DispenseRefused(t)
  \/ DispenseOk(t) \/ DispenseFails(t)
  \/ WriteAmount(t) \/ WriteActive(t) \/ WriteDone(t)

PollStep ==
  \/ PollMotor \/ PollMark \/ PollShow \/ PollReturn
  \/ PollClose \/ ClearActive \/ ClearDone \/ PublishFeedDone

\* A step task t takes by itself once it is inside these functions.
TaskStep(t) == StartStep(t) \/ BacklightStep(t) \/ (t = UiTask /\ PollStep)

FeedingNext ==
  \/ \E t \in Restorers : \E n \in Amounts(t) : ManualStart(t, n)
  \/ \E n \in Amounts(SchedTask) : ScheduledStart(n)
  \/ \E t \in Tasks : TaskStep(t) \/ MotorStep(t)
  \/ PollBegin
  \/ Environment

\* Every task that is inside a function gets out of it, the dispense task runs
\* and the LVGL task keeps running its timer.  Nobody has to ask for a feed.
FeedingFairness ==
  /\ \A t \in Tasks : WF_feedingVars(TaskStep(t)) /\ WF_feedingVars(MotorStep(t))
  /\ WF_feedingVars(PollBegin)

FeedingSpec == FeedingInit /\ [][FeedingNext]_feedingVars /\ FeedingFairness
-----------------------------------------------------------------------------
\* Types of the session's state, over those of its two parts.
FeedingTypeOK ==
  /\ MotorTypeOK
  /\ BacklightTypeOK
  /\ active \in BOOLEAN /\ done \in BOOLEAN /\ popup \in BOOLEAN
  /\ amount \in 0..MaxSlots
  /\ at \in [Tasks -> Places]
  /\ req \in [Tasks -> 0..255]
  /\ tickOwed \in {"no", "begin", "end"}
  /\ asked \in 0..MaxRequests
  /\ fed \in Seq(1..MaxSlots)
  /\ told \in Seq([amount : 0..MaxSlots, sent : BOOLEAN])

\* The tasks use the motor only through its own operations: their programs,
\* interleaved, are one behaviour of the motor's specification.
UsesTheMotor == MotorInit /\ [][MotorNext]_motorVars

\* The popup is never left over: while it is shown there is a session that the
\* next ticks can close, whatever the other tasks write meanwhile.
PopupHasSession == popup => active

\* A feed is reported at most once, only after it was accepted, and with an
\* amount that was fed, although opening and closing a session are unlocked
\* writes of several tasks.
NoPhantomReport ==
  /\ Len(told) <= Len(fed)
  /\ \A i \in 1..Len(told) : \E j \in 1..Len(fed) : told[i].amount = fed[j]

\* "Feeding complete, close the popup" (main.c:288): the popup always closes.
PopupCloses == popup ~> ~popup

\* A session always ends, so that manual feeding becomes possible again:
\* manual_feeding_start refuses with "Feeding already in progress"
\* (main.c:181) for as long as s_feeding_active is set.
SessionEnds == active ~> ~active

\* "Report the end of the feed to the cloud" (main.c:297): the callback reports
\* as many feeds as were accepted, also when they follow each other closely.
\* What is promised is the call: a report that cannot be sent is dropped, and
\* mqtt_client_publish_feed_done is called once for every feed all the same.
EveryFeedReported == Len(fed) > Len(told) ~> Len(fed) = Len(told)
=============================================================================
