SPECIFICATION FeedingSpec
CONSTANTS
  lvgl = lvgl
  sched = sched
  mqtt = mqtt
  UiTask = lvgl
  SchedTask = sched
  CloudTasks <- Cloud
  Callers <- ThreeTasks
  CloudAmounts <- AnySlots
  ScheduleAmounts <- TwoSlots
  MaxRequests = 2
  RunOutlastsTick = FALSE
  Levels <- MCLevels
  MaxSlots = 2
  Bins = 3
  StepsPerSlot = 1
INVARIANTS
  FeedingTypeOK
  PopupHasSession
  NoPhantomReport
PROPERTIES
  PopupCloses
