---------------------------- MODULE FeedingProofs ----------------------------
(***************************************************************************)
(* Proofs about feeding as a whole, for every set of tasks, every amount   *)
(* they ask for and every number of requests: what module FeederMotor      *)
(* proves of the motor holds of it in the firmware, and the popup.         *)
(***************************************************************************)
EXTENDS Feeding, FeederMotorProofs, FiniteSetTheorems

\* The part of the types that the proofs need: a request is a number.
RequestsTyped == req \in [Tasks -> Nat]

LEMMA AmountsAreNumbers ==
  ASSUME NEW t \in Tasks, NEW n \in Amounts(t)
  PROVE  n \in Nat
  <1>1. CloudAmounts \subseteq Nat /\ ScheduleAmounts \subseteq Nat
    BY FeedingAssumption, MotorAssumption
  <1>. QED BY <1>1 DEF Amounts

\* Every step of a task is a step of the motor or leaves the motor alone.
LEMMA FeedingStepsTheMotor ==
  ASSUME RequestsTyped, [FeedingNext]_feedingVars
  PROVE  RequestsTyped' /\ [MotorNext]_motorVars
  <1>0. Callers = Tasks
    BY FeedingAssumption
  <1>1. ASSUME NEW t \in Tasks, NEW n \in Amounts(t), ManualStart(t, n)
        PROVE  RequestsTyped' /\ [MotorNext]_motorVars
    BY <1>1, AmountsAreNumbers DEF RequestsTyped, ManualStart
  <1>2. ASSUME NEW n \in Amounts(SchedTask), ScheduledStart(n)
        PROVE  RequestsTyped' /\ [MotorNext]_motorVars
    BY <1>2, AmountsAreNumbers DEF RequestsTyped, ScheduledStart, Tasks
  <1>3. ASSUME NEW t \in Tasks, StartStep(t)
        PROVE  RequestsTyped' /\ [MotorNext]_motorVars
    <2>1. CASE DispenseClaim(t)
      <3>1. req[t] \in 1..MaxSlots
        BY <2>1, MotorAssumption DEF RequestsTyped, DispenseClaim, Claim, ValidSlots
      <3>. QED BY <2>1, <3>1, <1>0 DEF RequestsTyped, DispenseClaim, MotorNext
    <2>2. CASE DispenseRefused(t)
      BY <2>2 DEF RequestsTyped, DispenseRefused, Refused
    <2>3. CASE DispenseOk(t) \/ DispenseFails(t)
      BY <2>3, <1>0 DEF RequestsTyped, DispenseOk, DispenseFails, MotorNext, Return
    <2>4. CASE ManualWake(t) \/ WriteAmount(t) \/ WriteActive(t) \/ WriteDone(t)
      BY <2>4 DEF RequestsTyped, ManualWake, WriteAmount, WriteActive, WriteDone
    <2>. QED BY <1>3, <2>1, <2>2, <2>3, <2>4 DEF StartStep
  <1>4. ASSUME PollStep \/ PollBegin
        PROVE  RequestsTyped' /\ [MotorNext]_motorVars
    BY <1>4 DEF RequestsTyped, PollStep, PollBegin, PollMotor, PollMark, PollShow,
                PollReturn, PollClose, ClearActive, ClearDone, PublishFeedDone
  <1>5. ASSUME NEW t \in Tasks, MotorStep(t)
        PROVE  RequestsTyped' /\ [MotorNext]_motorVars
    BY <1>5, <1>0 DEF RequestsTyped, MotorStep, MotorNext, sessionVars
  <1>6. ASSUME NEW t \in Tasks, BacklightStep(t) \/ Environment
        PROVE  RequestsTyped' /\ [MotorNext]_motorVars
    BY <1>6 DEF RequestsTyped, BacklightStep, Environment, sessionVars
  <1>7. CASE UNCHANGED feedingVars
    BY <1>7 DEF RequestsTyped, feedingVars, sessionVars
  <1>8. UiTask \in Tasks /\ Restorers \subseteq Tasks
    BY DEF Tasks, Restorers
  <1>. QED BY <1>1, <1>2, <1>3, <1>4, <1>5, <1>6, <1>7, <1>8 DEF FeedingNext, TaskStep

\* The tasks use the motor only through its own operations: whatever they do,
\* interleaved, is one behaviour of the motor's next-state relation.
THEOREM FeedingUsesTheMotor == FeedingSpec => UsesTheMotor
  <1>1. FeedingInit => MotorInit /\ RequestsTyped
    BY DEF FeedingInit, RequestsTyped
  <1>. QED BY <1>1, FeedingStepsTheMotor, PTL DEF FeedingSpec, UsesTheMotor

\* So everything proved of the motor holds in the firmware: one run at a time,
\* and an idle motor is off, with a compartment over the outlet, however the
\* screen, the cloud and the schedule compete for it.
THEOREM FeedingKeepsTheMotorInvariant == FeedingSpec => []MotorInv
  <1>. QED BY FeedingUsesTheMotor, MotorInitInv, MotorNextInv, PTL DEF UsesTheMotor

-----------------------------------------------------------------------------
\* The popup has a session because only the LVGL task ever closes one, and it
\* removes the popup first.
PopupInv ==
  /\ at \in [Tasks -> Places]
  /\ popup => active
  /\ at[UiTask] = "clearActive" => ~popup

LEMMA PopupInvInductive ==
  ASSUME PopupInv, [FeedingNext]_feedingVars
  PROVE  PopupInv'
  <1>. USE DEF PopupInv
  <1>0. UiTask \in Tasks /\ SchedTask \in Tasks /\ Restorers \subseteq Tasks
    BY DEF Tasks, Restorers
  <1>1. ASSUME NEW t \in Tasks, NEW n, ManualStart(t, n)
        PROVE  PopupInv'
    BY <1>0, <1>1 DEF ManualStart, Go, Places, Starting, Polling
  <1>2. ASSUME NEW n, ScheduledStart(n)
        PROVE  PopupInv'
    BY <1>0, <1>2 DEF ScheduledStart, Go, Places, Starting, Polling
  <1>3. ASSUME NEW t \in Tasks, StartStep(t)
        PROVE  PopupInv'
    <2>1. CASE ManualWake(t) \/ DispenseClaim(t) \/ DispenseRefused(t)
      BY <1>0, <2>1
         DEF ManualWake, DispenseClaim, DispenseRefused, Go, Places, Starting, Polling
    <2>2. CASE DispenseOk(t)
      BY <1>0, <2>2 DEF DispenseOk, Go, Places, Starting, Polling
    <2>3. CASE DispenseFails(t) \/ WriteAmount(t)
      BY <1>0, <2>3 DEF DispenseFails, WriteAmount, Go, Places, Starting, Polling
    <2>4. CASE WriteActive(t) \/ WriteDone(t)
      BY <1>0, <2>4 DEF WriteActive, WriteDone, Go, Places, Starting, Polling
    <2>. QED BY <1>3, <2>1, <2>2, <2>3, <2>4 DEF StartStep
  <1>4. ASSUME PollStep
        PROVE  PopupInv'
    <2>1. CASE PollMotor \/ PollMark \/ PollReturn
      BY <1>0, <2>1 DEF PollMotor, PollMark, PollReturn, Go, Places, Starting, Polling
    <2>3. CASE PollShow
      <3>1. popup' => popup \/ active
        BY <2>3, Zenon DEF PollShow
      <3>2. UNCHANGED active /\ at' = [at EXCEPT ![UiTask] = "check"]
        BY <2>3 DEF PollShow, Go
      <3>. QED BY <1>0, <3>1, <3>2 DEF Places, Starting, Polling
    <2>2. CASE PollClose \/ ClearActive \/ ClearDone \/ PublishFeedDone
      BY <1>0, <2>2
         DEF PollClose, ClearActive, ClearDone, PublishFeedDone, Go, Places,
             Starting, Polling
    <2>. QED BY <1>4, <2>1, <2>2, <2>3 DEF PollStep
  <1>5. ASSUME NEW t \in Tasks, PollBegin \/ MotorStep(t) \/ BacklightStep(t) \/ Environment
        PROVE  PopupInv'
    BY <1>5 DEF PollBegin, MotorStep, BacklightStep, Environment, sessionVars
  <1>6. CASE UNCHANGED feedingVars
    BY <1>6 DEF feedingVars, sessionVars
  <1>. QED BY <1>0, <1>1, <1>2, <1>3, <1>4, <1>5, <1>6 DEF FeedingNext, TaskStep

LEMMA PopupInvariant == FeedingSpec => []PopupInv
  <1>1. FeedingInit => PopupInv
    BY DEF FeedingInit, PopupInv, Places
  <1>. QED BY <1>1, PopupInvInductive, PTL DEF FeedingSpec

\* While the popup is on the screen there is a session, so the popup timer will
\* come to remove it; no interleaving of the unlocked writes leaves it behind.
THEOREM PopupAlwaysHasSession == FeedingSpec => []PopupHasSession
  <1>1. PopupInv => PopupHasSession
    BY DEF PopupInv, PopupHasSession
  <1>. QED BY <1>1, PopupInvariant, PTL

-----------------------------------------------------------------------------
(***************************************************************************)
(* The backlight.  Its types hold with any tasks; so does what is said of  *)
(* the level that goes dark, for which the LVGL task must remember, from   *)
(* the moment it decides, a level that nobody else can change but to it.   *)
(***************************************************************************)
RemembersLevel == bl[UiTask] = "off" => level = 0 \/ saved = level

BacklightInv == BacklightTypeOK /\ RemembersLevel

LEMMA LevelsAreLit == 0 \notin Levels /\ \A b \in Levels : b \in Nat /\ b > 0
  BY BacklightAssumption

LEMMA BacklightInitInv == BacklightInit => BacklightInv
  BY DEF BacklightInit, BacklightInv, BacklightTypeOK, RemembersLevel, IdleTime, BlPlaces, Tasks

\* Writing the level back, by whichever task.
LEMMA RestoreWriteInv ==
  ASSUME BacklightInv, NEW t \in Tasks, NEW place \in BlPlaces, NEW next \in BlPlaces \ {"off"},
         RestoreWrite(t, place, next)
  PROVE  BacklightInv' /\ level' = saved
  <1>. USE DEF BacklightInv, BacklightTypeOK
  <1>1. level' = saved
    BY LevelsAreLit DEF RestoreWrite
  <1>2. bl' \in [Tasks -> BlPlaces] /\ (bl'[UiTask] = "off" => bl[UiTask] = "off")
    BY DEF RestoreWrite, Goto, Tasks
  <1>. QED BY <1>1, <1>2 DEF RestoreWrite, RemembersLevel, IdleTime

LEMMA RestoreTestInv ==
  ASSUME BacklightInv, NEW t \in Tasks, NEW busy \in BlPlaces \ {"off"},
         NEW rest \in BlPlaces \ {"off"}, RestoreTest(t, busy, rest)
  PROVE  BacklightInv' /\ UNCHANGED <<level, saved>>
  <1>. USE DEF BacklightInv, BacklightTypeOK
  <1>1. bl' \in [Tasks -> BlPlaces] /\ (bl'[UiTask] = "off" => bl[UiTask] = "off")
    BY DEF RestoreTest, Goto, Tasks
  <1>. QED BY <1>1 DEF RestoreTest, RemembersLevel

\* A tick of the LVGL task.
LEMMA TickInv ==
  ASSUME BacklightInv, TickBegin \/ TickStep \/ TickEnd
  PROVE  BacklightInv' /\ (level' = 0 => saved' = IF level = 0 THEN saved ELSE level)
  <1>. USE DEF BacklightInv, BacklightTypeOK
  <1>0. UiTask \in Tasks
    BY DEF Tasks
  <1>1. CASE TickBegin \/ TickEnd
    <2>1. bl' \in [Tasks -> BlPlaces] /\ bl'[UiTask] # "off"
      BY <1>0, <1>1 DEF TickBegin, TickEnd, Goto, BlPlaces
    <2>. QED BY <1>1, <2>1 DEF TickBegin, TickEnd, RemembersLevel
  <1>2. CASE TickConsume
    <2>1. bl' \in [Tasks -> BlPlaces] /\ bl'[UiTask] # "off"
      BY <1>0, <1>2 DEF TickConsume, Goto, BlPlaces
    <2>2. dimmed' \in BOOLEAN
      BY <1>2, Zenon DEF TickConsume
    <2>. QED BY <1>2, <2>1, <2>2 DEF TickConsume, RemembersLevel
  <1>3. CASE TickConsumeRestore \/ TickRestore
    <2>1. BacklightInv' /\ level' = saved
      BY <1>0, <1>3, RestoreWriteInv DEF TickConsumeRestore, TickRestore, BlPlaces
    <2>. QED BY <2>1, LevelsAreLit
  <1>4. CASE TickDim
    <2>1. bl' \in [Tasks -> BlPlaces]
      BY <1>4 DEF TickDim, Goto, BlPlaces
    <2>2. saved' = IF level = 0 THEN saved ELSE level
      BY <1>4, LevelsAreLit DEF TickDim
    <2>. QED BY <1>4, <2>1, <2>2 DEF TickDim, RemembersLevel
  <1>5. CASE TickOff
    <2>1. bl' \in [Tasks -> BlPlaces] /\ bl'[UiTask] # "off"
      BY <1>0, <1>5 DEF TickOff, Goto, BlPlaces
    <2>. QED BY <1>5, <2>1 DEF TickOff, RemembersLevel
  <1>6. CASE TickKeep
    <2>1. CASE RestoreTest(UiTask, "decideRestore", "polled")
      BY <1>0, <2>1, RestoreTestInv DEF BlPlaces
    <2>2. CASE /\ Goto(UiTask, "polled")
               /\ UNCHANGED <<dimmed, saved, wakePending, level, chosen, inactive, seen, sample>>
      <3>1. bl' \in [Tasks -> BlPlaces] /\ bl'[UiTask] # "off"
        BY <1>0, <2>2 DEF Goto, BlPlaces
      <3>. QED BY <2>2, <3>1 DEF RemembersLevel
    <2>. QED BY <1>6, <2>1, <2>2 DEF TickKeep
  <1>. QED BY <1>1, <1>2, <1>3, <1>4, <1>5, <1>6 DEF TickStep

\* What the environment and the other tasks do to the backlight.
LEMMA OthersInv ==
  ASSUME BacklightInv,
         \/ Touch \/ Elapse \/ \E b \in Levels : SliderMoved(b)
         \/ \E t \in Restorers : RestoreBegin(t) \/ RestoreEnd(t)
         \/ WakeTest \/ WakeFlag
  PROVE  BacklightInv' /\ (level' = 0 => saved' = IF level = 0 THEN saved ELSE level)
  <1>. USE DEF BacklightInv, BacklightTypeOK
  <1>0. Restorers \subseteq Tasks /\ SchedTask \in Tasks /\ SchedTask # UiTask
    BY BacklightAssumption DEF Restorers, Tasks
  <1>1. CASE Touch \/ Elapse
    BY <1>1 DEF Touch, Elapse, RemembersLevel, IdleTime
  <1>2. CASE \E b \in Levels : SliderMoved(b)
    BY <1>2, LevelsAreLit DEF SliderMoved, RemembersLevel, IdleTime
  <1>3. ASSUME NEW t \in Restorers, RestoreBegin(t)
        PROVE  BacklightInv' /\ UNCHANGED <<level, saved>>
    BY <1>0, <1>3, RestoreTestInv DEF RestoreBegin, BlPlaces
  <1>4. ASSUME NEW t \in Restorers, RestoreEnd(t)
        PROVE  BacklightInv' /\ level' # 0
    BY <1>0, <1>4, RestoreWriteInv, LevelsAreLit DEF RestoreEnd, BlPlaces
  <1>5. CASE WakeTest \/ WakeFlag
    <2>0. PICK place \in BlPlaces : bl' = [bl EXCEPT ![SchedTask] = place]
      BY <1>5 DEF WakeTest, WakeFlag, Goto, BlPlaces
    <2>1. bl' \in [Tasks -> BlPlaces] /\ bl'[UiTask] = bl[UiTask]
      BY <1>0, <2>0 DEF Tasks
    <2>. QED BY <1>5, <2>1 DEF WakeTest, WakeFlag, RemembersLevel
  <1>. QED BY <1>1, <1>2, <1>3, <1>4, <1>5

LEMMA BacklightNextInv ==
  ASSUME BacklightInv, [BacklightNext]_backlightVars
  PROVE  /\ BacklightInv'
         /\ [level' = 0 => saved' = IF level = 0 THEN saved ELSE level]_backlightVars
  <1>1. CASE UNCHANGED backlightVars
    BY <1>1 DEF BacklightInv, BacklightTypeOK, RemembersLevel, backlightVars
  <1>. QED BY <1>1, TickInv, OthersInv DEF BacklightNext

\* The types of the backlight's state.
THEOREM BacklightTypes == BacklightSpec => []BacklightTypeOK
  <1>1. BacklightInv => BacklightTypeOK
    BY DEF BacklightInv
  <1>. QED BY <1>1, BacklightInitInv, BacklightNextInv, PTL DEF BacklightSpec

\* The level to go back to is the one that was shown when the screen went dark,
\* whichever tasks restore and dim it at the same time.
THEOREM ShownLevelIsRemembered == BacklightSpec => SelectedLevelRemembered
  <1>1. BacklightInv /\ [BacklightNext]_backlightVars =>
          BacklightInv' /\ [level' = 0 => saved' = IF level = 0 THEN saved ELSE level]_backlightVars
    BY BacklightNextInv
  <1>. QED BY <1>1, BacklightInitInv, PTL DEF BacklightSpec, SelectedLevelRemembered

(***************************************************************************)
(* Without the MQTT task every restore is the LVGL task's own, and a tick  *)
(* decides with an idle time that is still true when it is through.        *)
(***************************************************************************)
Ui == bl[UiTask]
Restoring == {"restore", "consumeRestore", "decideRestore"}

LitInv ==
  /\ level = 0 => dimmed \/ Ui \in Restoring
  /\ seen /\ Ui \notin {"idle", "restore", "polled"} => sample = inactive
  /\ Ui = "off" => sample = "long" /\ dimmed
  /\ seen /\ inactive = "recent" /\ Ui \in {"idle", "polled"} => level # 0

LEMMA LitInit == BacklightInit => LitInv
  BY LevelsAreLit DEF BacklightInit, LitInv, Ui, Tasks

\* The LVGL task has written the level back, or nothing has to be.
LEMMA RestoreWriteLit ==
  ASSUME BacklightInv, NEW place, NEW next \in {"idle", "decide", "polled"},
         RestoreWrite(UiTask, place, next)
  PROVE  LitInv'
  <1>1. UiTask \in Tasks /\ DOMAIN bl = Tasks
    BY DEF Tasks, BacklightInv, BacklightTypeOK
  <1>2. bl'[UiTask] = next /\ ~seen' /\ level' # 0
    BY <1>1, LevelsAreLit DEF RestoreWrite, Goto, BacklightInv, BacklightTypeOK
  <1>. QED BY <1>2 DEF LitInv, Ui

LEMMA RestoreTestLit ==
  ASSUME BacklightInv, LitInv, NEW busy \in Restoring, NEW rest \in {"idle", "polled"},
         RestoreTest(UiTask, busy, rest), Ui \in {"idle", "decide"},
         busy = "restore" \/ Ui = "decide"
  PROVE  LitInv'
  <1>1. UiTask \in Tasks /\ DOMAIN bl = Tasks
    BY DEF Tasks, BacklightInv, BacklightTypeOK
  <1>2. /\ Ui' = IF dimmed THEN busy ELSE rest
        /\ UNCHANGED <<level, inactive, seen, sample>>
    BY <1>1 DEF RestoreTest, Goto, Ui
  <1>3. level = 0 => dimmed
    BY DEF LitInv, Restoring
  <1>. QED BY <1>2, <1>3 DEF LitInv, Restoring

LEMMA LitNext ==
  ASSUME CloudTasks = {}, BacklightInv, LitInv, [BacklightNext]_backlightVars
  PROVE  LitInv'
  <1>1. UiTask \in Tasks /\ DOMAIN bl = Tasks /\ SchedTask # UiTask /\ Restorers = {UiTask}
    BY BacklightAssumption DEF Tasks, BacklightInv, BacklightTypeOK, Restorers
  <1>2. CASE Touch \/ Elapse \/ \E b \in Levels : SliderMoved(b)
    <2>1. ~seen' /\ UNCHANGED <<dimmed, bl, sample>> /\ Ui = "idle"
      BY <1>1, <1>2 DEF Touch, Elapse, SliderMoved, Ui
    <2>2. UNCHANGED level \/ level' # 0
      BY <1>2, LevelsAreLit DEF Touch, Elapse, SliderMoved
    <2>. QED BY <2>1, <2>2 DEF LitInv, Ui
  <1>3. CASE RestoreBegin(UiTask)
    BY <1>3, RestoreTestLit DEF RestoreBegin, Ui, Restoring
  <1>4. CASE RestoreEnd(UiTask) \/ TickConsumeRestore \/ TickRestore
    BY <1>4, RestoreWriteLit DEF RestoreEnd, TickConsumeRestore, TickRestore
  <1>5. CASE WakeTest \/ WakeFlag
    <2>1. PICK place : bl' = [bl EXCEPT ![SchedTask] = place]
      BY <1>5 DEF WakeTest, WakeFlag, Goto
    <2>2. Ui' = Ui
      BY <1>1, <2>1 DEF Ui
    <2>. QED BY <1>5, <2>2 DEF WakeTest, WakeFlag, LitInv
  <1>6. CASE TickBegin
    <2>1. Ui = "idle" /\ Ui' = "consume"
      BY <1>1, <1>6 DEF TickBegin, Goto, Ui
    <2>. QED BY <1>6, <2>1 DEF TickBegin, LitInv, Restoring
  <1>7. CASE TickConsume
    <2>1. Ui = "consume" /\ Ui' = IF wakePending /\ dimmed THEN "consumeRestore" ELSE "decide"
      BY <1>1, <1>7 DEF TickConsume, Goto, Ui
    <2>2. dimmed' <=> dimmed /\ ~wakePending
      BY <1>7 DEF TickConsume
    <2>3. UNCHANGED <<level, inactive, seen, sample>>
      BY <1>7 DEF TickConsume
    <2>. QED BY <2>1, <2>2, <2>3 DEF LitInv, Restoring
  <1>8. CASE TickDim
    <2>1. Ui = "decide" /\ Ui' = "off"
      BY <1>1, <1>8 DEF TickDim, Goto, Ui
    <2>. QED BY <1>8, <2>1 DEF TickDim, LitInv
  <1>9. CASE TickOff
    <2>1. Ui = "off" /\ Ui' = "polled"
      BY <1>1, <1>9 DEF TickOff, Goto, Ui
    <2>. QED BY <1>9, <2>1 DEF TickOff, LitInv
  <1>10. CASE TickKeep
    <2>1. CASE RestoreTest(UiTask, "decideRestore", "polled")
      BY <1>10, <2>1, RestoreTestLit DEF TickKeep, Ui, Restoring
    <2>2. CASE /\ sample # "recent" /\ Goto(UiTask, "polled")
               /\ UNCHANGED <<dimmed, saved, wakePending, level, chosen, inactive, seen, sample>>
      <3>1. Ui = "decide" /\ Ui' = "polled"
        BY <1>1, <1>10, <2>2 DEF TickKeep, Goto, Ui
      <3>. QED BY <2>2, <3>1 DEF LitInv, Restoring
    <2>. QED BY <1>10, <2>1, <2>2 DEF TickKeep
  <1>11. CASE TickEnd
    <2>1. Ui = "polled" /\ Ui' = "idle"
      BY <1>1, <1>11 DEF TickEnd, Goto, Ui
    <2>. QED BY <1>11, <2>1 DEF TickEnd, LitInv, Restoring
  <1>12. CASE UNCHANGED backlightVars
    BY <1>12 DEF backlightVars, LitInv, Ui
  <1>. QED BY <1>1, <1>2, <1>3, <1>4, <1>5, <1>6, <1>7, <1>8, <1>9, <1>10, <1>11, <1>12
           DEF BacklightNext, TickStep

(***************************************************************************)
(* A touch lights the screen: once a tick has taken note of it the screen  *)
(* is on, as long as only the LVGL task restores the backlight.  With the  *)
(* MQTT task as a second one it is not so.                                 *)
(***************************************************************************)
THEOREM TouchIsSeen ==
  ASSUME CloudTasks = {}
  PROVE  BacklightSpec => []TouchLights
  <1>1. BacklightInv /\ LitInv /\ [BacklightNext]_backlightVars => BacklightInv' /\ LitInv'
    BY BacklightNextInv, LitNext
  <1>2. LitInv => TouchLights
    BY DEF LitInv, TouchLights, Ui, Tasks
  <1>. QED BY <1>1, <1>2, BacklightInitInv, LitInit, PTL DEF BacklightSpec

-----------------------------------------------------------------------------
(***************************************************************************)
(* The types of a session.  A request that feeder_motor_dispense has let   *)
(* through is for 1 to MaxSlots slots; only the screen and the cloud are   *)
(* ever about to restore the backlight in manual_feeding_start.            *)
(***************************************************************************)
SessionTyped ==
  /\ active \in BOOLEAN /\ done \in BOOLEAN /\ popup \in BOOLEAN
  /\ amount \in 0..MaxSlots
  /\ at \in [Tasks -> Places]
  /\ req \in [Tasks -> 0..255]
  /\ tickOwed \in {"no", "begin", "end"}
  /\ asked \in 0..MaxRequests
  /\ fed \in Seq(1..MaxSlots)
  /\ told \in Seq([amount : 0..MaxSlots, sent : BOOLEAN])
  /\ \A t \in Tasks : at[t] = "wake" => t \in Restorers
  /\ \A t \in Tasks : at[t] \in {"claiming", "amount"} => req[t] \in 1..MaxSlots

LEMMA TaskNames ==
  /\ UiTask \in Tasks /\ SchedTask \in Tasks /\ Restorers \subseteq Tasks
  /\ SchedTask \notin Restorers
  BY BacklightAssumption DEF Tasks, Restorers

LEMMA AmountsAreBytes ==
  ASSUME NEW t \in Tasks, NEW n \in Amounts(t)
  PROVE  n \in 0..255
  <1>1. ScheduleAmounts \subseteq 1..MaxSlots /\ CloudAmounts \subseteq 0..255
    BY FeedingAssumption, Zenon
  <1>2. MaxSlots \in 1..255
    BY FeedingAssumption, Zenon
  <1>3. \A k \in 1..MaxSlots : k \in 0..255
    BY <1>2
  <1>4. 1..255 \subseteq 0..255
    OBVIOUS
  <1>. QED BY <1>1, <1>2, <1>3, <1>4 DEF Amounts

LEMMA ValidIsBetween ==
  ASSUME NEW n \in 0..255, ValidSlots(n)
  PROVE  n \in 1..MaxSlots
  <1>1. MaxSlots \in 1..255
    BY FeedingAssumption
  <1>. QED BY <1>1 DEF ValidSlots

LEMMA AppendTyped ==
  ASSUME NEW S, NEW s \in Seq(S), NEW e \in S
  PROVE  Append(s, e) \in Seq(S)
  OBVIOUS

LEMMA SessionInit == FeedingInit => SessionTyped
  <1>1. 0 \in 0..MaxSlots /\ 0 \in 0..MaxRequests
    BY FeedingAssumption
  <1>2. <<>> \in Seq(1..MaxSlots) /\ <<>> \in Seq([amount : 0..MaxSlots, sent : BOOLEAN])
    OBVIOUS
  <1>3. at \in [Tasks -> Places] /\ req \in [Tasks -> 0..255] => SessionTyped \/ ~FeedingInit
    BY <1>1, <1>2 DEF FeedingInit, SessionTyped
  <1>4. FeedingInit => at \in [Tasks -> Places] /\ req \in [Tasks -> 0..255]
    BY DEF FeedingInit, Places
  <1>. QED BY <1>3, <1>4

\* A request is made.
LEMMA AskTyped ==
  ASSUME SessionTyped, NEW t \in Tasks, NEW n \in Amounts(t), NEW place \in {"wake", "dispense"},
         place = "wake" => t \in Restorers, Ask,
         req' = [req EXCEPT ![t] = n], Go(t, place),
         UNCHANGED <<active, done, amount, popup, tickOwed, fed, told>>
  PROVE  SessionTyped'
  <1>. USE DEF SessionTyped
  <1>1. n \in 0..255
    BY AmountsAreBytes
  <1>2. asked' \in 0..MaxRequests
    BY FeedingAssumption DEF Ask
  <1>3. at' \in [Tasks -> Places] /\ req' \in [Tasks -> 0..255] /\ at'[t] = place
    BY <1>1 DEF Go, Places, Starting
  <1>4. \A u \in Tasks : u # t => at'[u] = at[u] /\ req'[u] = req[u]
    BY DEF Go
  <1>. QED BY <1>2, <1>3, <1>4

\* A task goes on with its request.
LEMMA StartTyped ==
  ASSUME SessionTyped, NEW t \in Tasks, StartStep(t)
  PROVE  SessionTyped'
  <1>. USE DEF SessionTyped
  <1>1. CASE ManualWake(t) \/ DispenseRefused(t) \/ DispenseFails(t)
    <2>1. PICK place \in {"dispense", "idle"} : Go(t, place)
      BY <1>1 DEF ManualWake, DispenseRefused, DispenseFails
    <2>2. UNCHANGED <<active, done, amount, popup, req, history>>
      BY <1>1 DEF ManualWake, DispenseRefused, DispenseFails
    <2>. QED BY <2>1, <2>2 DEF Go, Places, Starting, history
  <1>2. CASE DispenseClaim(t)
    <2>0. req[t] \in 0..255 /\ ValidSlots(req[t])
      BY <1>2 DEF DispenseClaim, Claim
    <2>1. req[t] \in 1..MaxSlots
      BY <2>0, ValidIsBetween
    <2>2. Go(t, "claiming") /\ UNCHANGED <<active, done, amount, popup, req, history>>
      BY <1>2 DEF DispenseClaim
    <2>. QED BY <2>1, <2>2 DEF Go, Places, Starting, history
  <1>3. CASE DispenseOk(t)
    <2>1. req[t] \in 1..MaxSlots /\ fed' = Append(fed, req[t])
      BY <1>3 DEF DispenseOk
    <2>2. fed' \in Seq(1..MaxSlots)
      BY <2>1
    <2>3. /\ Go(t, "amount") /\ tickOwed' = "begin"
          /\ UNCHANGED <<active, done, amount, popup, req, asked, told>>
      BY <1>3 DEF DispenseOk
    <2>. QED BY <2>1, <2>2, <2>3 DEF Go, Places, Starting
  <1>4. CASE WriteAmount(t)
    <2>1. amount' \in 0..MaxSlots
      BY <1>4, FeedingAssumption DEF WriteAmount
    <2>2. Go(t, "active") /\ UNCHANGED <<active, done, popup, req, history>>
      BY <1>4 DEF WriteAmount
    <2>. QED BY <2>1, <2>2 DEF Go, Places, Starting, history
  <1>5. CASE WriteActive(t) \/ WriteDone(t)
    <2>1. PICK place \in {"done", "idle"} : Go(t, place)
      BY <1>5 DEF WriteActive, WriteDone
    <2>2. active' \in BOOLEAN /\ done' \in BOOLEAN /\ UNCHANGED <<amount, popup, req, history>>
      BY <1>5 DEF WriteActive, WriteDone
    <2>. QED BY <2>1, <2>2 DEF Go, Places, Starting, history
  <1>. QED BY <1>1, <1>2, <1>3, <1>4, <1>5 DEF StartStep

\* The popup's timer.
LEMMA PollTyped ==
  ASSUME SessionTyped, PollStep \/ PollBegin
  PROVE  SessionTyped'
  <1>. USE DEF SessionTyped
  <1>1. UNCHANGED <<amount, req, asked, fed>>
    BY DEF PollStep, PollBegin, PollMotor, PollMark, PollShow, PollReturn, PollClose, ClearActive,
           ClearDone, PublishFeedDone, history
  <1>2. told' \in Seq([amount : 0..MaxSlots, sent : BOOLEAN])
    <2>1. UNCHANGED told \/ \E sent \in BOOLEAN : told' = Append(told, Report(sent))
      BY DEF PollStep, PollBegin, PollMotor, PollMark, PollShow, PollReturn, PollClose,
             ClearActive, ClearDone, PublishFeedDone, history
    <2>2. \A sent \in BOOLEAN : Report(sent) \in [amount : 0..MaxSlots, sent : BOOLEAN]
      BY DEF Report
    <2>3. ASSUME NEW sent \in BOOLEAN, told' = Append(told, Report(sent))
          PROVE  told' \in Seq([amount : 0..MaxSlots, sent : BOOLEAN])
      <3>1. Report(sent) \in [amount : 0..MaxSlots, sent : BOOLEAN]
        BY <2>2
      <3>. QED BY <2>3, <3>1, AppendTyped
    <2>. QED BY <2>1, <2>3
  <1>8. tickOwed' \in {"no", "begin", "end"}
    BY DEF PollStep, PollBegin, PollMotor, PollMark, PollShow, PollReturn, PollClose, ClearActive,
           ClearDone, PublishFeedDone, history
  <1>3. active' \in BOOLEAN /\ done' \in BOOLEAN
    BY DEF PollStep, PollBegin, PollMotor, PollMark, PollShow, PollReturn, PollClose, ClearActive,
           ClearDone, PublishFeedDone
  <1>4. popup' \in BOOLEAN
    <2>1. CASE PollShow
      BY <2>1, Zenon DEF PollShow
    <2>. QED BY <2>1 DEF PollStep, PollBegin, PollMotor, PollMark, PollReturn, PollClose,
                         ClearActive, ClearDone, PublishFeedDone
  <1>5. UNCHANGED at \/ \E place \in {"idle"} \cup Polling : Go(UiTask, place)
    BY DEF PollStep, PollBegin, PollMotor, PollMark, PollShow, PollReturn, PollClose, ClearActive,
           ClearDone, PublishFeedDone, Polling
  <1>6. at' \in [Tasks -> Places]
    BY <1>5, TaskNames DEF Go, Places
  <1>7. \A t \in Tasks : at'[t] = at[t] \/ at'[t] \in {"idle"} \cup Polling
    BY <1>5, TaskNames DEF Go
  <1>. QED BY <1>1, <1>2, <1>3, <1>4, <1>6, <1>7, <1>8 DEF Polling

LEMMA SessionNext ==
  ASSUME SessionTyped, [FeedingNext]_feedingVars
  PROVE  SessionTyped'
  <1>1. ASSUME NEW t \in Restorers, NEW n \in Amounts(t), ManualStart(t, n)
        PROVE  SessionTyped'
    BY <1>1, TaskNames, AskTyped DEF ManualStart
  <1>2. ASSUME NEW n \in Amounts(SchedTask), ScheduledStart(n)
        PROVE  SessionTyped'
    BY <1>2, TaskNames, AskTyped DEF ScheduledStart
  <1>3. CASE (\E t \in Tasks : MotorStep(t) \/ BacklightStep(t)) \/ Environment
             \/ UNCHANGED feedingVars
    <2>1. UNCHANGED sessionVars
      BY <1>3 DEF MotorStep, BacklightStep, Environment, feedingVars
    <2>. QED BY <2>1 DEF SessionTyped, sessionVars, history
  <1>. QED BY <1>1, <1>2, <1>3, StartTyped, PollTyped DEF FeedingNext, TaskStep

\* The session's tasks use the backlight only through its own operations, so
\* what is proved of module Backlight with any tasks holds in the firmware.
LEMMA FeedingStepsTheBacklight ==
  ASSUME SessionTyped, [FeedingNext]_feedingVars
  PROVE  [BacklightNext]_backlightVars
  <1>1. ASSUME NEW t \in Tasks, StartStep(t)
        PROVE  [BacklightNext]_backlightVars
    <2>1. CASE ManualWake(t)
      BY <2>1 DEF ManualWake, SessionTyped, BacklightNext
    <2>. QED BY <1>1, <2>1 DEF StartStep, DispenseClaim, DispenseRefused, DispenseOk, DispenseFails,
                               WriteAmount, WriteActive, WriteDone
  <1>2. CASE PollStep \/ PollBegin
    BY <1>2 DEF PollStep, PollBegin, PollMotor, PollMark, PollShow, PollReturn, PollClose,
                ClearActive, ClearDone, PublishFeedDone, BacklightNext
  <1>3. CASE (\E t \in Tasks : BacklightStep(t)) \/ Environment
    BY <1>3 DEF BacklightStep, Environment, BacklightNext, Restorers
  <1>4. CASE (\E t \in Restorers : \E n \in Amounts(t) : ManualStart(t, n))
             \/ (\E t \in Tasks : MotorStep(t)) \/ UNCHANGED feedingVars
    BY <1>4 DEF ManualStart, MotorStep, feedingVars
  <1>5. CASE \E n \in Amounts(SchedTask) : ScheduledStart(n)
    BY <1>5 DEF ScheduledStart, BacklightNext
  <1>. QED BY <1>1, <1>2, <1>3, <1>4, <1>5 DEF FeedingNext, TaskStep

\* The tasks of main.c do with the backlight what Backlight lets tasks do.
THEOREM FeedingUsesTheBacklight == FeedingSpec => BacklightInit /\ [][BacklightNext]_backlightVars
  <1>1. FeedingInit => BacklightInit /\ SessionTyped
    BY SessionInit DEF FeedingInit
  <1>. QED BY <1>1, SessionNext, FeedingStepsTheBacklight, PTL DEF FeedingSpec

\* So in the whole device too the level to go back to is the one that was shown
\* when the screen went dark.
THEOREM FeedingKeepsTheLevel == FeedingSpec => SelectedLevelRemembered
  <1>1. BacklightInv /\ [BacklightNext]_backlightVars =>
          BacklightInv' /\ [level' = 0 => saved' = IF level = 0 THEN saved ELSE level]_backlightVars
    BY BacklightNextInv
  <1>. QED BY <1>1, BacklightInitInv, FeedingUsesTheBacklight, PTL DEF SelectedLevelRemembered

\* And a touch lights the screen, feeds or no feeds, as long as no cloud task
\* restores the backlight.
THEOREM FeedingSeesTouches ==
  ASSUME CloudTasks = {}
  PROVE  FeedingSpec => []TouchLights
  <1>1. BacklightInv /\ LitInv /\ [BacklightNext]_backlightVars => BacklightInv' /\ LitInv'
    BY BacklightNextInv, LitNext
  <1>2. LitInv => TouchLights
    BY DEF LitInv, TouchLights, Ui, Tasks
  <1>. QED BY <1>1, <1>2, BacklightInitInv, LitInit, FeedingUsesTheBacklight, PTL

\* The types of the session's, the motor's and the backlight's state.
THEOREM FeedingTypes == FeedingSpec => []FeedingTypeOK
  <1>1. MotorInv /\ BacklightInv /\ SessionTyped => FeedingTypeOK
    BY DEF MotorInv, BacklightInv, SessionTyped, FeedingTypeOK
  <1>. QED BY <1>1, SessionInit, SessionNext, BacklightInitInv, BacklightNextInv,
              FeedingUsesTheBacklight, FeedingKeepsTheMotorInvariant, PTL DEF FeedingSpec

-----------------------------------------------------------------------------
(***************************************************************************)
(* Reports.  Every accepted feed is worth one report; the worth is with    *)
(* the task until it has set s_feeding_active, then with the flag, then    *)
(* with the LVGL task that has cleared it.  Feeds that overlap share the   *)
(* flag: worth is lost there, but never made.                              *)
(***************************************************************************)
Opening == {t \in Tasks : at[t] \in {"amount", "active"}}
OpenSession == IF active THEN 1 ELSE 0
Closing == IF at[UiTask] \in {"clearDone", "publish"} THEN 1 ELSE 0

ReportsCovered ==
  /\ IsFiniteSet(Opening)
  /\ Len(told) + Cardinality(Opening) + OpenSession + Closing <= Len(fed)
  /\ at[UiTask] = "clearActive" => active

InFed(n) == \E j \in 1..Len(fed) : fed[j] = n

AmountInUse ==
  \/ active \/ \E t \in Tasks : at[t] = "active"
  \/ at[UiTask] \in {"clearActive", "clearDone", "publish"}

AmountsFed ==
  /\ \A i \in 1..Len(told) : InFed(told[i].amount)
  /\ \A t \in Tasks : at[t] = "amount" => InFed(req[t])
  /\ AmountInUse => InFed(amount)

Worth(place) == IF place \in {"amount", "active"} THEN 1 ELSE 0

\* How many tasks hold a report when one of them goes on.
LEMMA OpeningMoves ==
  ASSUME SessionTyped, IsFiniteSet(Opening), NEW t \in Tasks, NEW place, Go(t, place)
  PROVE  /\ IsFiniteSet(Opening') /\ Cardinality(Opening) \in Nat
         /\ Cardinality(Opening') = Cardinality(Opening) + Worth(place) - Worth(at[t])
  <1>0. Cardinality(Opening) \in Nat
    BY FS_CardinalityType
  <1>1. at'[t] = place /\ \A u \in Tasks : u # t => at'[u] = at[u]
    BY DEF Go, SessionTyped
  <1>2. CASE Worth(place) = Worth(at[t])
    <2>1. Opening' = Opening
      BY <1>1, <1>2 DEF Opening, Worth
    <2>2. Worth(place) \in Nat
      BY DEF Worth
    <2>. QED BY <1>0, <1>2, <2>1, <2>2
  <1>3. CASE Worth(place) = 1 /\ Worth(at[t]) = 0
    <2>1. Opening' = Opening \cup {t} /\ t \notin Opening
      BY <1>1, <1>3 DEF Opening, Worth
    <2>. QED BY <1>0, <1>3, <2>1, FS_AddElement
  <1>4. CASE Worth(place) = 0 /\ Worth(at[t]) = 1
    <2>1. Opening' = Opening \ {t} /\ t \in Opening
      BY <1>1, <1>4 DEF Opening, Worth
    <2>. QED BY <1>0, <1>4, <2>1, FS_RemoveElement
  <1>. QED BY <1>2, <1>3, <1>4 DEF Worth

LEMMA Balance ==
  ASSUME NEW t0 \in Nat, NEW t1 \in Nat, NEW f0 \in Nat, NEW f1 \in Nat, NEW o0 \in Nat,
         NEW o1 \in Nat, NEW c0 \in Nat, NEW c1 \in Nat, NEW w0 \in Nat, NEW w1 \in Nat,
         NEW n \in Nat, t0 + n + o0 + c0 <= f0,
         t1 + w1 + o1 + c1 - f1 <= t0 + w0 + o0 + c0 - f0
  PROVE  t1 + (n + w1 - w0) + o1 + c1 <= f1
  OBVIOUS

\* A task goes on and the balance is kept.
LEMMA BalanceMoves ==
  ASSUME SessionTyped, ReportsCovered, NEW t \in Tasks, NEW place, Go(t, place),
         SessionTyped',
         Len(told') + Worth(place) + OpenSession' + Closing' - Len(fed')
           <= Len(told) + Worth(at[t]) + OpenSession + Closing - Len(fed),
         at'[UiTask] = "clearActive" => active'
  PROVE  ReportsCovered'
  <1>1. /\ IsFiniteSet(Opening') /\ Cardinality(Opening) \in Nat
        /\ Cardinality(Opening') = Cardinality(Opening) + Worth(place) - Worth(at[t])
    BY OpeningMoves DEF ReportsCovered
  <1>2. /\ {Len(told), Len(told'), Len(fed), Len(fed')} \subseteq Nat
        /\ {OpenSession, OpenSession', Closing, Closing', Worth(place), Worth(at[t])} \subseteq Nat
    BY DEF SessionTyped, OpenSession, Closing, Worth
  <1>3. Len(told) + Cardinality(Opening) + OpenSession + Closing <= Len(fed)
    BY DEF ReportsCovered
  <1>4. Len(told') + (Cardinality(Opening) + Worth(place) - Worth(at[t])) + OpenSession' + Closing'
          <= Len(fed')
    BY <1>1, <1>2, <1>3, Balance
  <1>. QED BY <1>1, <1>4 DEF ReportsCovered

LEMMA ReportsInit == FeedingInit => ReportsCovered /\ AmountsFed
  <1>. SUFFICES ASSUME FeedingInit PROVE ReportsCovered /\ AmountsFed
    OBVIOUS
  <1>1. Opening = {}
    BY DEF FeedingInit, Opening
  <1>2. OpenSession = 0 /\ Closing = 0 /\ Len(told) = 0 /\ Len(fed) = 0 /\ at[UiTask] = "idle"
    BY TaskNames DEF FeedingInit, OpenSession, Closing
  <1>3. ReportsCovered
    BY <1>1, <1>2, FS_EmptySet DEF ReportsCovered
  <1>4. AmountsFed
    BY <1>2 DEF FeedingInit, AmountsFed, AmountInUse
  <1>. QED BY <1>3, <1>4

LEMMA StartCovered ==
  ASSUME SessionTyped, SessionTyped', ReportsCovered, NEW t \in Tasks, StartStep(t)
  PROVE  ReportsCovered'
  <1>0. \A place : Go(t, place) => at'[t] = place /\ \A u \in Tasks : u # t => at'[u] = at[u]
    BY DEF Go, SessionTyped
  <1>1. {Len(told), Len(fed)} \subseteq Nat
    BY DEF SessionTyped
  <1>2. CASE ManualWake(t) \/ DispenseClaim(t) \/ DispenseRefused(t) \/ DispenseFails(t)
             \/ WriteDone(t)
    <2>1. PICK place \in {"dispense", "claiming", "idle"} : Go(t, place)
      BY <1>2 DEF ManualWake, DispenseClaim, DispenseRefused, DispenseFails, WriteDone
    <2>2. /\ UNCHANGED <<active, told, fed>>
          /\ at[t] \in {"wake", "dispense", "claiming", "done"}
      BY <1>2 DEF ManualWake, DispenseClaim, DispenseRefused, DispenseFails, WriteDone, history
    <2>3. Closing' = Closing /\ (at'[UiTask] = "clearActive" => active')
      BY <1>0, <2>1, <2>2, TaskNames DEF Closing, ReportsCovered
    <2>4. Worth(place) = 0 /\ Worth(at[t]) = 0 /\ OpenSession' = OpenSession
      BY <2>1, <2>2 DEF Worth, OpenSession
    <2>5. OpenSession \in Nat /\ Closing \in Nat
      BY DEF OpenSession, Closing
    <2>. QED BY <1>1, <2>1, <2>2, <2>3, <2>4, <2>5, BalanceMoves
  <1>3. CASE DispenseOk(t)
    <2>1. /\ Go(t, "amount") /\ at[t] = "claiming" /\ UNCHANGED <<active, told>>
          /\ Len(fed') = Len(fed) + 1
      BY <1>3 DEF DispenseOk, SessionTyped
    <2>2. Closing' = Closing /\ (at'[UiTask] = "clearActive" => active')
      BY <1>0, <2>1, TaskNames DEF Closing, ReportsCovered
    <2>3. Worth("amount") = 1 /\ Worth(at[t]) = 0 /\ OpenSession' = OpenSession
      BY <2>1 DEF Worth, OpenSession
    <2>4. OpenSession \in Nat /\ Closing \in Nat
      BY DEF OpenSession, Closing
    <2>. QED BY <1>1, <2>1, <2>2, <2>3, <2>4, BalanceMoves
  <1>4. CASE WriteAmount(t)
    <2>1. Go(t, "active") /\ at[t] = "amount" /\ UNCHANGED <<active, told, fed>>
      BY <1>4 DEF WriteAmount, history
    <2>2. Closing' = Closing /\ (at'[UiTask] = "clearActive" => active')
      BY <1>0, <2>1, TaskNames DEF Closing, ReportsCovered
    <2>3. Worth("active") = 1 /\ Worth(at[t]) = 1 /\ OpenSession' = OpenSession
      BY <2>1 DEF Worth, OpenSession
    <2>4. OpenSession \in Nat /\ Closing \in Nat
      BY DEF OpenSession, Closing
    <2>. QED BY <1>1, <2>1, <2>2, <2>3, <2>4, BalanceMoves
  <1>5. CASE WriteActive(t)
    <2>1. Go(t, "done") /\ at[t] = "active" /\ active' /\ UNCHANGED <<told, fed>>
      BY <1>5 DEF WriteActive, history
    <2>2. Closing' = Closing
      BY <1>0, <2>1, TaskNames DEF Closing
    <2>3. Worth("done") = 0 /\ Worth(at[t]) = 1 /\ OpenSession' = 1
      BY <2>1 DEF Worth, OpenSession
    <2>4. OpenSession \in Nat /\ Closing \in Nat
      BY DEF OpenSession, Closing
    <2>. QED BY <1>1, <2>1, <2>2, <2>3, <2>4, BalanceMoves
  <1>. QED BY <1>2, <1>3, <1>4, <1>5 DEF StartStep

LEMMA PollCovered ==
  ASSUME SessionTyped, SessionTyped', PopupInv, ReportsCovered, PollStep
  PROVE  ReportsCovered'
  <1>0. \A place : Go(UiTask, place) => at'[UiTask] = place
    BY TaskNames DEF Go, SessionTyped
  <1>1. {Len(told), Len(fed), OpenSession, Closing} \subseteq Nat
    BY DEF SessionTyped, OpenSession, Closing
  <1>2. CASE PollMotor \/ PollMark \/ PollShow \/ PollReturn \/ PollClose
    <2>1. PICK place \in {"mark", "show", "check", "idle", "clearActive"} :
            Go(UiTask, place) /\ (place = "clearActive" => active)
      BY <1>2 DEF PollMotor, PollMark, PollShow, PollReturn, PollClose, PopupInv
    <2>2. UNCHANGED <<active, told, fed>> /\ at[UiTask] \in {"idle", "mark", "show", "check"}
      BY <1>2 DEF PollMotor, PollMark, PollShow, PollReturn, PollClose, history
    <2>3. /\ Closing' = Closing /\ OpenSession' = OpenSession /\ Worth(place) = 0
          /\ Worth(at[UiTask]) = 0 /\ (at'[UiTask] = "clearActive" => active')
      BY <1>0, <2>1, <2>2 DEF Closing, OpenSession, Worth
    <2>. QED BY <1>1, <2>1, <2>2, <2>3, TaskNames, BalanceMoves
  <1>3. CASE ClearActive
    <2>1. /\ Go(UiTask, "clearDone") /\ at[UiTask] = "clearActive" /\ active /\ ~active'
          /\ UNCHANGED <<told, fed>>
      BY <1>3 DEF ClearActive, ReportsCovered, history
    <2>2. /\ Closing' = 1 /\ Closing = 0 /\ OpenSession' = 0 /\ OpenSession = 1
          /\ Worth("clearDone") = 0 /\ Worth(at[UiTask]) = 0 /\ at'[UiTask] # "clearActive"
      BY <1>0, <2>1 DEF Closing, OpenSession, Worth
    <2>. QED BY <1>1, <2>1, <2>2, TaskNames, BalanceMoves
  <1>4. CASE ClearDone
    <2>1. /\ Go(UiTask, "publish") /\ at[UiTask] = "clearDone" /\ UNCHANGED <<active, told, fed>>
      BY <1>4 DEF ClearDone, history
    <2>2. /\ Closing' = 1 /\ Closing = 1 /\ OpenSession' = OpenSession
          /\ Worth("publish") = 0 /\ Worth(at[UiTask]) = 0 /\ at'[UiTask] # "clearActive"
      BY <1>0, <2>1 DEF Closing, OpenSession, Worth
    <2>. QED BY <1>1, <2>1, <2>2, TaskNames, BalanceMoves
  <1>5. CASE PublishFeedDone
    <2>1. /\ Go(UiTask, "idle") /\ at[UiTask] = "publish" /\ UNCHANGED <<active, fed>>
          /\ Len(told') = Len(told) + 1
      BY <1>5 DEF PublishFeedDone, SessionTyped
    <2>2. /\ Closing' = 0 /\ Closing = 1 /\ OpenSession' = OpenSession
          /\ Worth("idle") = 0 /\ Worth(at[UiTask]) = 0 /\ at'[UiTask] # "clearActive"
      BY <1>0, <2>1 DEF Closing, OpenSession, Worth
    <2>. QED BY <1>1, <2>1, <2>2, TaskNames, BalanceMoves
  <1>. QED BY <1>2, <1>3, <1>4, <1>5 DEF PollStep

LEMMA AskCovered ==
  ASSUME SessionTyped, SessionTyped', ReportsCovered, NEW t \in Tasks,
         NEW place \in {"wake", "dispense"}, Go(t, place), at[t] = "idle",
         UNCHANGED <<active, told, fed>>
  PROVE  ReportsCovered'
  <1>0. at'[t] = place /\ \A u \in Tasks : u # t => at'[u] = at[u]
    BY DEF Go, SessionTyped
  <1>1. {Len(told), Len(fed), OpenSession, Closing} \subseteq Nat
    BY DEF SessionTyped, OpenSession, Closing
  <1>2. /\ Closing' = Closing /\ OpenSession' = OpenSession /\ Worth(place) = 0
        /\ Worth(at[t]) = 0 /\ (at'[UiTask] = "clearActive" => active')
    BY <1>0, TaskNames DEF Closing, OpenSession, Worth, ReportsCovered
  <1>. QED BY <1>1, <1>2, BalanceMoves

\* Steps that leave the session alone.
LEMMA ReportsStay ==
  ASSUME ReportsCovered, AmountsFed, UNCHANGED <<active, amount, at, req, fed, told>>
  PROVE  ReportsCovered' /\ AmountsFed'
  <1>1. Opening' = Opening /\ OpenSession' = OpenSession /\ Closing' = Closing
    BY DEF Opening, OpenSession, Closing
  <1>2. \A n : InFed(n)' <=> InFed(n)
    BY DEF InFed
  <1>3. AmountInUse' <=> AmountInUse
    BY DEF AmountInUse
  <1>. QED BY <1>1, <1>2, <1>3 DEF ReportsCovered, AmountsFed

\* An amount that was fed stays one.
LEMMA FedStays ==
  ASSUME fed \in Seq(1..MaxSlots), NEW n, InFed(n),
         UNCHANGED fed \/ \E m : fed' = Append(fed, m)
  PROVE  \E j \in 1..Len(fed') : fed'[j] = n
  <1>1. PICK j \in 1..Len(fed) : fed[j] = n
    BY DEF InFed
  <1>2. j \in 1..Len(fed') /\ fed'[j] = fed[j]
    BY <1>1
  <1>. QED BY <1>1, <1>2

LEMMA StartAmounts ==
  ASSUME SessionTyped, AmountsFed, NEW t \in Tasks, StartStep(t)
  PROVE  AmountsFed'
  <1>0. \A place : Go(t, place) => at'[t] = place /\ \A u \in Tasks : u # t => at'[u] = at[u]
    BY DEF Go, SessionTyped
  <1>1. CASE ManualWake(t) \/ DispenseClaim(t) \/ DispenseRefused(t) \/ DispenseFails(t)
             \/ WriteActive(t) \/ WriteDone(t)
    <2>1. /\ UNCHANGED <<amount, req, told, fed>>
          /\ \E place \in {"dispense", "claiming", "idle", "done"} : Go(t, place)
          /\ active' => active \/ at[t] = "active"
      BY <1>1 DEF ManualWake, DispenseClaim, DispenseRefused, DispenseFails, WriteActive, WriteDone,
                  history
    <2>2. \A n : InFed(n)' <=> InFed(n)
      BY <2>1 DEF InFed
    <2>3. AmountInUse' => AmountInUse
      BY <1>0, <2>1, TaskNames DEF AmountInUse
    <2>4. \A u \in Tasks : at'[u] = "amount" => at[u] = "amount"
      BY <1>0, <2>1
    <2>. QED BY <2>1, <2>2, <2>3, <2>4 DEF AmountsFed
  <1>2. CASE DispenseOk(t)
    <2>1. /\ UNCHANGED <<active, amount, req, told>> /\ Go(t, "amount")
          /\ fed' = Append(fed, req[t])
      BY <1>2 DEF DispenseOk
    <2>2. \A n : InFed(n) => InFed(n)'
      <3>. SUFFICES ASSUME NEW n, InFed(n) PROVE InFed(n)'
        OBVIOUS
      <3>1. \E j \in 1..Len(fed') : fed'[j] = n
        BY <2>1, FedStays DEF SessionTyped
      <3>. QED BY <3>1 DEF InFed
    <2>3. \E j \in 1..Len(fed') : fed'[j] = req[t]
      <3>1. Len(fed') = Len(fed) + 1 /\ Len(fed) \in Nat /\ fed'[Len(fed) + 1] = req[t]
        BY <2>1 DEF SessionTyped
      <3>. QED BY <3>1
    <2>4. AmountInUse' => AmountInUse
      BY <1>0, <2>1, TaskNames DEF AmountInUse
    <2>5. \A u \in Tasks : at'[u] = "amount" => u = t \/ at[u] = "amount"
      BY <1>0, <2>1
    <2>6. \A u \in Tasks : at'[u] = "amount" => \E j \in 1..Len(fed') : fed'[j] = req[u]
      BY <2>2, <2>3, <2>5 DEF AmountsFed, InFed
    <2>. QED BY <2>1, <2>2, <2>4, <2>6 DEF AmountsFed, InFed
  <1>3. CASE WriteAmount(t)
    <2>1. /\ UNCHANGED <<active, req, told, fed>> /\ amount' = req[t] /\ Go(t, "active")
          /\ at[t] = "amount"
      BY <1>3 DEF WriteAmount, history
    <2>2. InFed(amount)'
      BY <2>1 DEF AmountsFed, InFed
    <2>3. \A u \in Tasks : at'[u] = "amount" => at[u] = "amount"
      BY <1>0, <2>1
    <2>. QED BY <2>1, <2>2, <2>3 DEF AmountsFed, InFed
  <1>. QED BY <1>1, <1>2, <1>3 DEF StartStep

LEMMA PollAmounts ==
  ASSUME SessionTyped, AmountsFed, PopupInv, PollStep
  PROVE  AmountsFed'
  <1>0. \A place : Go(UiTask, place) =>
          at'[UiTask] = place /\ \A u \in Tasks : u # UiTask => at'[u] = at[u]
    BY TaskNames DEF Go, SessionTyped
  <1>1. /\ UNCHANGED <<amount, req, fed>> /\ (active' => active)
        /\ \E place \in {"idle"} \cup Polling :
              Go(UiTask, place) /\ (place \in {"clearActive", "clearDone", "publish"} => AmountInUse)
    BY DEF PollStep, PollMotor, PollMark, PollShow, PollReturn, PollClose, ClearActive, ClearDone,
           PublishFeedDone, Polling, AmountInUse, PopupInv, history
  <1>2. \A n : InFed(n)' <=> InFed(n)
    BY <1>1 DEF InFed
  <1>3. AmountInUse' => AmountInUse
    BY <1>0, <1>1 DEF AmountInUse, Polling
  <1>4. \A u \in Tasks : at'[u] = "amount" => at[u] = "amount"
    BY <1>0, <1>1 DEF Polling
  <1>5. \A i \in 1..Len(told') : InFed(told'[i].amount)
    <2>1. CASE PublishFeedDone
      <3>1. PICK sent \in BOOLEAN : told' = Append(told, Report(sent))
        BY <2>1 DEF PublishFeedDone
      <3>3. InFed(amount) /\ Report(sent).amount = amount
        BY <2>1 DEF PublishFeedDone, AmountsFed, AmountInUse, Report
      <3>2. \A i \in 1..Len(told') :
              (i \in 1..Len(told) /\ told'[i] = told[i]) \/ told'[i] = Report(sent)
        BY <3>1 DEF SessionTyped
      <3>. QED BY <3>2, <3>3 DEF AmountsFed
    <2>2. CASE ~PublishFeedDone
      <3>1. UNCHANGED told
        BY <2>2 DEF PollStep, PollMotor, PollMark, PollShow, PollReturn, PollClose, ClearActive,
                    ClearDone, history
      <3>. QED BY <3>1 DEF AmountsFed
    <2>. QED BY <2>1, <2>2
  <1>. QED BY <1>1, <1>2, <1>3, <1>4, <1>5 DEF AmountsFed, InFed

LEMMA AskAmounts ==
  ASSUME SessionTyped, AmountsFed, NEW t \in Tasks, NEW place \in {"wake", "dispense"}, NEW n,
         Go(t, place), at[t] = "idle", req' = [req EXCEPT ![t] = n],
         UNCHANGED <<active, amount, told, fed>>
  PROVE  AmountsFed'
  <1>0. at'[t] = place /\ \A u \in Tasks : u # t => at'[u] = at[u] /\ req'[u] = req[u]
    BY DEF Go, SessionTyped
  <1>1. AmountInUse' => AmountInUse
    BY <1>0, TaskNames DEF AmountInUse
  <1>2. \A u \in Tasks : at'[u] = "amount" => at[u] = "amount" /\ req'[u] = req[u]
    BY <1>0
  <1>. QED BY <1>1, <1>2 DEF AmountsFed, InFed

LEMMA ReportsNext ==
  ASSUME SessionTyped, PopupInv, ReportsCovered, AmountsFed, [FeedingNext]_feedingVars
  PROVE  ReportsCovered' /\ AmountsFed'
  <1>0. SessionTyped'
    BY SessionNext
  <1>1. ASSUME NEW t \in Restorers, NEW n \in Amounts(t), ManualStart(t, n)
        PROVE  ReportsCovered' /\ AmountsFed'
    BY <1>0, <1>1, TaskNames, AskCovered, AskAmounts DEF ManualStart, Resting
  <1>2. ASSUME NEW n \in Amounts(SchedTask), ScheduledStart(n)
        PROVE  ReportsCovered' /\ AmountsFed'
    BY <1>0, <1>2, TaskNames, AskCovered, AskAmounts DEF ScheduledStart, Resting
  <1>3. CASE (\E t \in Tasks : MotorStep(t) \/ BacklightStep(t)) \/ Environment \/ PollBegin
             \/ UNCHANGED feedingVars
    <2>1. UNCHANGED <<active, amount, at, req, fed, told>>
      BY <1>3 DEF MotorStep, BacklightStep, Environment, PollBegin, feedingVars, sessionVars, history
    <2>. QED BY <2>1, ReportsStay
  <1>4. ASSUME NEW t \in Tasks, StartStep(t)
        PROVE  ReportsCovered' /\ AmountsFed'
    BY <1>0, <1>4, StartCovered, StartAmounts
  <1>5. CASE PollStep
    BY <1>0, <1>5, PollCovered, PollAmounts
  <1>. QED BY <1>1, <1>2, <1>3, <1>4, <1>5 DEF FeedingNext, TaskStep

(***************************************************************************)
(* A feed is reported at most once, only after it was accepted, and with   *)
(* an amount that was fed, for every number of tasks and of requests and   *)
(* however short a run of the motor is.                                    *)
(***************************************************************************)
THEOREM NothingIsReportedTwice == FeedingSpec => []NoPhantomReport
  <1>1. SessionTyped /\ ReportsCovered /\ AmountsFed => NoPhantomReport
    <2>. SUFFICES ASSUME SessionTyped, ReportsCovered, AmountsFed PROVE NoPhantomReport
      OBVIOUS
    <2>1. /\ Cardinality(Opening) \in Nat /\ OpenSession \in Nat /\ Closing \in Nat
          /\ Len(told) \in Nat /\ Len(fed) \in Nat
      BY FS_CardinalityType DEF ReportsCovered, OpenSession, Closing, SessionTyped
    <2>2. Len(told) <= Len(fed)
      BY <2>1 DEF ReportsCovered
    <2>3. \A i \in 1..Len(told) : \E j \in 1..Len(fed) : told[i].amount = fed[j]
      BY DEF AmountsFed, InFed
    <2>. QED BY <2>2, <2>3 DEF NoPhantomReport
  <1>2. FeedingInit => SessionTyped /\ ReportsCovered /\ AmountsFed
    BY SessionInit, ReportsInit
  <1>. QED BY <1>1, <1>2, SessionNext, ReportsNext, PopupInvariant, PTL DEF FeedingSpec
=============================================================================
