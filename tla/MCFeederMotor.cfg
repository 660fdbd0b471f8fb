SPECIFICATION MotorSpec
CONSTANTS
  lvgl = lvgl
  sched = sched
  Callers <- MCCallers
  MaxSlots = 6
  Bins = 6
  StepsPerSlot = 2
INVARIANTS
  MotorExclusive
  AlignedAtRest
PROPERTIES
  PulsesTurnTheWheel
  MotorComesToRest
  ImplementsDispenser
