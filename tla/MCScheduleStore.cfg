SPECIFICATION StoreSpec
CONSTANTS
  lvgl = lvgl
  mqtt = mqtt
  main = main
  nobody = nobody
  absent = absent
  a = a
  b = b
  c = c
  UiTask = lvgl
  CloudTask = mqtt
  MainTask = main
  Nobody = nobody
  Absent = absent
  Plans <- MCPlans
  Inputs <- MCInputs
  Lists <- MCLists
  FirstFlash <- MCFlash
  MaxItems = 3
  MaxAmount = 6
  MaxEvery = 7
  MinutesPerDay = 2
  MaxEdits = 2
  MaxFailures = 1
  MaxCrashes = 2
INVARIANTS
  StoreTypeOK
  SavedListSurvives
  UntouchedSurvives
  MigrationKeepsPlans
