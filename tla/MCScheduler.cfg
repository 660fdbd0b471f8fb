SPECIFICATION SchedulerSpec
CONSTANTS
  lvgl = lvgl
  mqtt = mqtt
  nobody = nobody
  a = a
  b = b
  Nobody = nobody
  Editors <- MCEditors
  Plans <- MCPlans
  Inputs <- MCInputs
  Lists <- MCLists
  FirstLists <- MCFirst
  MaxItems = 2
  MaxAmount = 6
  MaxEvery = 7
  MinutesPerDay = 2
  Minute = 3
  Days = 2
  MaxEdits = 2
  MaxSets = 2
  MaxReboots = 1
INVARIANTS
  NoFeedMissed
  CooldownFollowsPlan
PROPERTY
  FedOnceUnlessForgotten
SYMMETRY EditorSymmetry
VIEW MCView
