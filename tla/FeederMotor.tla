----------------------------- MODULE FeederMotor -----------------------------
(***************************************************************************)
(* The A4988 stepper driver, driver/src/feeder_motor.c.  Any task may ask   *)
(* for a feed; claim_motor and release_motor guard the motor with one flag *)
(* under a spinlock, and a task created for the request sends the pulses.  *)
(*                                                                         *)
(* A request is a procedure call of its caller: the claim is one step, the *)
(* xTaskCreate that follows another.  The task created for caller c is     *)
(* run[c]; it needs no state between release_motor and vTaskDelete.        *)
(***************************************************************************)
EXTENDS Integers

CONSTANTS Callers,       \* the tasks that may ask for a feed
          MaxSlots,      \* 6: the largest number of slots of one request
          Bins,          \* 6: compartments of the hopper
          StepsPerSlot   \* STEPS_PER_SLOT, 2400 microsteps

ASSUME MotorAssumption == /\ MaxSlots \in Nat \ {0}
                          /\ Bins \in Nat \ {0}
                          /\ StepsPerSlot \in Nat \ {0}

VARIABLES
  running,    \* s_running
  en,         \* the A4988 is enabled (the EN pin is low)
  dir,        \* the DIR pin
  call,       \* call[c]: how far c is in a feeder_motor_dispense call
  run,        \* run[c]: the pulse sequence made on behalf of c
  position    \* the wheel, in microsteps from the compartment it booted at

motorVars == <<running, en, dir, call, run, position>>

Turn      == Bins * StepsPerSlot
NoCall    == [pc |-> "idle", slots |-> 0]
NoRun     == [phase |-> "none", slots |-> 0, left |-> 0]
Phases    == {"none", "created", "enabled", "stepping", "disabled"}
CallPCs   == {"idle", "claimed", "sync"}

\* Mutant: the test for zero slots is dropped.
ValidSlotsOrNone(n) == n <= MaxSlots

ValidSlots(n) == n # 0 /\ n <= MaxSlots

\* c has claimed the motor and not given it up.
Holds(c) == call[c].pc # "idle" \/ run[c].phase # "none"

MotorInit ==
  /\ running = FALSE
  /\ en = FALSE
  /\ dir = 0
  /\ call = [c \in Callers |-> NoCall]
  /\ run = [c \in Callers |-> NoRun]
  /\ position = 0
-----------------------------------------------------------------------------
\* Mutant: claim_motor does not look at the flag.
ClaimUnseen(c, n) ==
  /\ call[c].pc = "idle"
  /\ ValidSlots(n)
  /\ running' = TRUE
  /\ call' = [call EXCEPT ![c] = [pc |-> "claimed", slots |-> n]]
  /\ UNCHANGED <<en, dir, run, position>>

\* feeder_motor_dispense, first half: the argument is checked, then claim_motor.
Claim(c, n) ==
  /\ call[c].pc = "idle"
  /\ ValidSlots(n)
  /\ ~running
  /\ running' = TRUE
  /\ call' = [call EXCEPT ![c] = [pc |-> "claimed", slots |-> n]]
  /\ UNCHANGED <<en, dir, run, position>>

\* feeder_motor_dispense refuses: ESP_ERR_INVALID_ARG or ESP_ERR_INVALID_STATE.
Refused(c, n) ==
  /\ call[c].pc = "idle"
  /\ ~ValidSlots(n) \/ running
  /\ UNCHANGED motorVars

\* Mutant: the pulses are counted from one.
CreateTaskShort(c) ==
  /\ call[c].pc = "claimed"
  /\ run' = [run EXCEPT ![c] = [phase |-> "created", slots |-> call[c].slots,
                                left  |-> call[c].slots * StepsPerSlot - 1]]
  /\ call' = [call EXCEPT ![c] = NoCall]
  /\ UNCHANGED <<running, en, dir, position>>

\* feeder_motor_dispense, second half: xTaskCreate succeeds.
CreateTask(c) ==
  /\ call[c].pc = "claimed"
  /\ run' = [run EXCEPT ![c] = [phase |-> "created", slots |-> call[c].slots,
                                left  |-> call[c].slots * StepsPerSlot]]
  /\ call' = [call EXCEPT ![c] = NoCall]
  /\ UNCHANGED <<running, en, dir, position>>

\* Mutant: the error path keeps the claim.
CreateFailsLeaks(c) ==
  /\ call[c].pc = "claimed"
  /\ call' = [call EXCEPT ![c] = NoCall]
  /\ UNCHANGED <<running, en, dir, run, position>>

\* ... or fails, and the claim is given back: ESP_ERR_NO_MEM.
CreateFails(c) ==
  /\ call[c].pc = "claimed"
  /\ running' = FALSE
  /\ call' = [call EXCEPT ![c] = NoCall]
  /\ UNCHANGED <<en, dir, run, position>>

\* feeder_motor_dispense_sync: the caller itself sends the pulses.
ClaimSync(c, n) ==
  /\ call[c].pc = "idle"
  /\ ValidSlots(n)
  /\ ~running
  /\ running' = TRUE
  /\ call' = [call EXCEPT ![c] = [pc |-> "sync", slots |-> n]]
  /\ run' = [run EXCEPT ![c] = [phase |-> "created", slots |-> n,
                                left  |-> n * StepsPerSlot]]
  /\ UNCHANGED <<en, dir, position>>
-----------------------------------------------------------------------------
\* Mutant: the EN pin is not set.
EnableMissed(c) ==
  /\ run[c].phase = "created"
  /\ run' = [run EXCEPT ![c].phase = "enabled"]
  /\ UNCHANGED <<running, en, dir, call, position>>

\* dispense_task: EN low, then DIR high, then the pulses, then EN high.
Enable(c) ==
  /\ run[c].phase = "created"
  /\ en' = TRUE
  /\ run' = [run EXCEPT ![c].phase = "enabled"]
  /\ UNCHANGED <<running, dir, call, position>>

SetDirection(c) ==
  /\ run[c].phase = "enabled"
  /\ dir' = 1
  /\ run' = [run EXCEPT ![c].phase = "stepping"]
  /\ UNCHANGED <<running, en, call, position>>

\* One pulse of send_step_pulses; the driver chip turns the wheel only when it
\* is enabled, forwards when DIR is high.
Pulse(c) ==
  /\ run[c].phase = "stepping"
  /\ run[c].left > 0
  /\ run' = [run EXCEPT ![c].left = @ - 1]
  /\ position' = IF en THEN (IF dir = 1 THEN position + 1 ELSE position - 1) % Turn
                       ELSE position
  /\ UNCHANGED <<running, en, dir, call>>

\* Mutant: the pulses are not waited for.
DisableEarly(c) ==
  /\ run[c].phase = "stepping"
  /\ en' = FALSE
  /\ run' = [run EXCEPT ![c].phase = "disabled"]
  /\ UNCHANGED <<running, dir, call, position>>

Disable(c) ==
  /\ run[c].phase = "stepping"
  /\ run[c].left = 0
  /\ en' = FALSE
  /\ run' = [run EXCEPT ![c].phase = "disabled"]
  /\ UNCHANGED <<running, dir, call, position>>

\* release_motor, and the end of the task (or of the synchronous call).
Release(c) ==
  /\ run[c].phase = "disabled"
  /\ running' = FALSE
  /\ run' = [run EXCEPT ![c] = NoRun]
  /\ call' = [call EXCEPT ![c] = IF @.pc = "sync" THEN NoCall ELSE @]
  /\ UNCHANGED <<en, dir, position>>

\* The steps of a task that is dispensing.
RunStep(c) == Enable(c) \/ SetDirection(c) \/ Pulse(c) \/ Disable(c) \/ Release(c)

\* A call that is under way returns.
Return(c) == CreateTask(c) \/ CreateFails(c)

MotorNext ==
  \E c \in Callers :
    \/ \E n \in 1..MaxSlots : Claim(c, n) \/ ClaimSync(c, n)
    \/ Return(c)
    \/ RunStep(c)

\* A created task runs, and xTaskCreate returns: FreeRTOS schedules every ready
\* task of priority 5.  Nobody has to ask for a feed.
MotorFairness == \A c \in Callers : WF_motorVars(RunStep(c)) /\ WF_motorVars(Return(c))

MotorSpec == MotorInit /\ [][MotorNext]_motorVars /\ MotorFairness
-----------------------------------------------------------------------------
\* Types of the motor's state.
MotorTypeOK ==
  /\ running \in BOOLEAN
  /\ en \in BOOLEAN
  /\ dir \in {0, 1}
  /\ call \in [Callers -> [pc : CallPCs, slots : 0..MaxSlots]]
  /\ run \in [Callers -> [phase : Phases, slots : 0..MaxSlots,
                          left : 0..(MaxSlots * StepsPerSlot)]]
  /\ position \in 0..(Turn - 1)

\* The flag s_running is exactly "somebody holds the motor", and never two do:
\* two interleaved pulse trains would turn the wheel by neither request.
MotorExclusive ==
  /\ running <=> \E c \in Callers : Holds(c)
  /\ \A c, d \in Callers : Holds(c) /\ Holds(d) => c = d

\* "EN is active-low and the motor is disabled at initialization and after
\* each feed" (README.md:285): a motor that feeder_motor_is_idle reports as
\* idle is not energised, whichever path gave the claim back.
DisabledAtRest == ~running => ~en

\* The hopper has no position sensor: when the motor is idle a compartment
\* stands over the outlet, whatever sequence of requests led there.
AlignedAtRest ==
  ~running => \E k \in 0..(Bins - 1) : position = k * StepsPerSlot

\* A pulse is sent only to an enabled driver with the direction already set:
\* each one that is counted off turns the wheel by one microstep forwards.
PulsesTurnTheWheel ==
  [][\A c \in Callers :
       run'[c].left = run[c].left - 1 => position' = (position + 1) % Turn]_motorVars

\* A claim is always given back, by the task, by the synchronous caller or by
\* the xTaskCreate error path, so one feed cannot block all later ones.
MotorComesToRest == running ~> ~running

\* Why it is so.  The holder of the motor is in one place of the procedure, and
\* it is its place alone that the two pins follow ...
MotorOnePlace ==
  \A c \in Callers :
    /\ call[c].pc = "claimed" => run[c].phase = "none"
    /\ run[c].phase \in {"enabled", "stepping"} => en
    /\ run[c].phase = "stepping" => dir = 1
    /\ run[c].phase \in {"none", "disabled"} => run[c].left = 0

EnabledByARun == en => \E c \in Callers : run[c].phase \in {"enabled", "stepping"}

\* ... and the pulses still to come end at a compartment.
WillBeAligned ==
  \A c \in Callers : run[c].phase # "none" =>
    \E k \in 0..(Bins + MaxSlots) : position + run[c].left = k * StepsPerSlot

AlignedUnlessRunning ==
  (\A c \in Callers : run[c].phase = "none") =>
    \E k \in 0..(Bins + MaxSlots) : position = k * StepsPerSlot

\* The inductive invariant of the motor.
MotorInv ==
  /\ MotorTypeOK
  /\ MotorExclusive
  /\ MotorOnePlace
  /\ EnabledByARun
  /\ WillBeAligned
  /\ AlignedUnlessRunning
-----------------------------------------------------------------------------
\* The run in progress, and the compartment its pulses started from.
Dispensing == {c \in Callers : run[c].phase # "none"}

ServingNow ==
  IF Dispensing = {} THEN 0 ELSE run[CHOOSE c \in Dispensing : TRUE].slots

PulsesMade ==
  IF Dispensing = {} THEN 0
  ELSE LET r == run[CHOOSE c \in Dispensing : TRUE]
       IN r.slots * StepsPerSlot - r.left

SlotNow == ((position - PulsesMade) % Turn) \div StepsPerSlot

Abstract == INSTANCE Dispenser WITH serving <- ServingNow, slot <- SlotNow

\* The motor implements the one-at-a-time dispenser: a request is accepted
\* when its task exists, and delivered, in full, when the motor is released.
ImplementsDispenser == Abstract!Spec
=============================================================================
