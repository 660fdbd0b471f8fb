SPECIFICATION BacklightSpec
CONSTANTS
  lvgl = lvgl
  sched = sched
  mqtt = mqtt
  UiTask = lvgl
  SchedTask = sched
  CloudTasks <- NoCloud
  Levels <- MCLevels
INVARIANTS
  TouchLights
PROPERTIES
  FeedWakes
  SelectedLevelRemembered
