SPECIFICATION FeedingSpec
CONSTANTS
  lvgl = lvgl
  sched = sched
  mqtt = mqtt
  UiTask = lvgl
  SchedTask = sched
  CloudTasks <- Cloud
  Callers <- ThreeTasks
  CloudAmounts <- AnySlots
  ScheduleAmounts <- NoSchedule
  MaxRequests = 3
  RunOutlastsTick = TRUE
  Levels <- MCLevels
  MaxSlots = 2
  Bins = 3
  StepsPerSlot = 1
PROPERTIES
  SessionEnds
  EveryFeedReported
