SPECIFICATION BacklightSpec
CONSTANTS
  lvgl = lvgl
  sched = sched
  mqtt = mqtt
  UiTask = lvgl
  SchedTask = sched
  CloudTasks <- Cloud
  Levels <- MCLevels
INVARIANT TouchLights
