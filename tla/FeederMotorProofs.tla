-------------------------- MODULE FeederMotorProofs --------------------------
(***************************************************************************)
(* Proofs about the motor, for every set of calling tasks, every limit on  *)
(* the slots of a request, every hopper and every number of microsteps.    *)
(***************************************************************************)
EXTENDS FeederMotor, TLAPS

(***************************************************************************)
(* Arithmetic of the wheel, stated apart because it is not linear.         *)
(***************************************************************************)
LEMMA SlotsBounded ==
  ASSUME NEW S \in Nat, NEW m \in Nat, NEW n \in 0..m
  PROVE  n * S \in 0..(m * S)
  <1>1. PICK d \in Nat : m = n + d
    <2>1. m - n \in Nat /\ m = n + (m - n)
      OBVIOUS
    <2>. QED BY <2>1
  <1>2. m * S = n * S + d * S
    BY <1>1
  <1>3. n * S \in Nat /\ d * S \in Nat
    OBVIOUS
  <1>. QED BY <1>2, <1>3

LEMMA SlotsOrdered ==
  ASSUME NEW S \in Nat \ {0}, NEW k \in Nat, NEW b \in Nat, k * S < b * S
  PROVE  k < b
  <1>. SUFFICES ASSUME b <= k PROVE FALSE
    OBVIOUS
  <1>1. b \in 0..k
    OBVIOUS
  <1>2. b * S \in 0..(k * S)
    BY <1>1, SlotsBounded
  <1>3. k * S \in Nat
    OBVIOUS
  <1>. QED BY <1>2, <1>3

LEMMA WheelTurns ==
  ASSUME NEW t \in Nat \ {0}, NEW p \in 0..(t - 1)
  PROVE  (p + 1) % t = IF p + 1 = t THEN 0 ELSE p + 1
  OBVIOUS

LEMMA TurnPositive == Turn \in Nat \ {0}
  <1>1. Bins \in Nat \ {0} /\ StepsPerSlot \in Nat \ {0}
    BY MotorAssumption
  <1>2. Bins * StepsPerSlot \in Nat \ {0}
    BY <1>1
  <1>. QED BY <1>2 DEF Turn

\* The records of an idle caller and of no run have the types of the others.
LEMMA RestTyped ==
  /\ NoCall \in [pc : CallPCs, slots : 0..MaxSlots]
  /\ NoRun \in [phase : Phases, slots : 0..MaxSlots, left : 0..(MaxSlots * StepsPerSlot)]
  <1>1. 0 \in 0..MaxSlots
    BY MotorAssumption
  <1>2. 0 \in 0..(MaxSlots * StepsPerSlot)
    <2>1. MaxSlots * StepsPerSlot \in Nat
      BY MotorAssumption
    <2>. QED BY <2>1
  <1>. QED BY <1>1, <1>2 DEF NoCall, NoRun, CallPCs, Phases

-----------------------------------------------------------------------------
(***************************************************************************)
(* MotorInv is inductive: one lemma per step of the program.               *)
(***************************************************************************)
LEMMA MotorInitInv == MotorInit => MotorInv
  <1>. SUFFICES ASSUME MotorInit PROVE MotorInv
    OBVIOUS
  <1>1. MotorTypeOK
    <2>1. 0 \in 0..(Turn - 1)
      BY TurnPositive
    <2>. QED BY <2>1, RestTyped DEF MotorInit, MotorTypeOK
  <1>2. MotorExclusive
    BY DEF MotorInit, MotorExclusive, Holds, NoCall, NoRun
  <1>3. MotorOnePlace /\ EnabledByARun
    BY DEF MotorInit, MotorOnePlace, EnabledByARun, NoCall, NoRun
  <1>4. WillBeAligned
    BY DEF MotorInit, WillBeAligned, NoRun
  <1>5. AlignedUnlessRunning
    <2>1. 0 \in 0..(Bins + MaxSlots) /\ 0 = 0 * StepsPerSlot
      BY MotorAssumption
    <2>. QED BY <2>1 DEF MotorInit, AlignedUnlessRunning
  <1>. QED BY <1>1, <1>2, <1>3, <1>4, <1>5 DEF MotorInv

\* Only the flag and the caller's place change.
LEMMA ClaimInv ==
  ASSUME MotorInv, NEW c \in Callers, NEW n \in Nat, Claim(c, n)
  PROVE  MotorInv'
  <1>. USE DEF MotorInv
  <1>1. MotorTypeOK'
    BY MotorAssumption DEF MotorTypeOK, Claim, ValidSlots, CallPCs
  <1>2. MotorExclusive'
    BY DEF MotorTypeOK, MotorExclusive, Holds, Claim
  <1>3. MotorOnePlace' /\ EnabledByARun'
    BY DEF MotorTypeOK, MotorExclusive, Holds, MotorOnePlace, EnabledByARun, Claim
  <1>4. WillBeAligned' /\ AlignedUnlessRunning'
    BY DEF WillBeAligned, AlignedUnlessRunning, Claim
  <1>. QED BY <1>1, <1>2, <1>3, <1>4

\* A run of n slots that starts at a compartment will end at one.
LEMMA NewRunAligned ==
  ASSUME MotorInv, NEW c \in Callers, NEW n \in 0..MaxSlots,
         \A d \in Callers : run[d].phase = "none",
         position' = position,
         run' = [run EXCEPT ![c] = [phase |-> "created", slots |-> n,
                                    left |-> n * StepsPerSlot]]
  PROVE  /\ n * StepsPerSlot \in 0..(MaxSlots * StepsPerSlot)
         /\ WillBeAligned'
         /\ AlignedUnlessRunning'
  <1>1. n * StepsPerSlot \in 0..(MaxSlots * StepsPerSlot)
    BY SlotsBounded, MotorAssumption
  <1>2. PICK k \in 0..(Bins + MaxSlots) : position = k * StepsPerSlot
    BY DEF MotorInv, AlignedUnlessRunning
  <1>3. k < Bins
    <2>1. k * StepsPerSlot < Bins * StepsPerSlot
      BY <1>2, TurnPositive DEF MotorInv, MotorTypeOK, Turn
    <2>. QED BY <2>1, <1>2, SlotsOrdered, MotorAssumption
  <1>4. position + n * StepsPerSlot = (k + n) * StepsPerSlot
    BY <1>2, MotorAssumption
  <1>5. k + n \in 0..(Bins + MaxSlots)
    BY <1>2, <1>3, MotorAssumption
  <1>6. run'[c].left = n * StepsPerSlot /\ run'[c].phase = "created"
    BY DEF MotorInv, MotorTypeOK
  <1>7. \A d \in Callers : d # c => run'[d].phase = "none"
    BY DEF MotorInv, MotorTypeOK
  <1>8. WillBeAligned'
    BY <1>4, <1>5, <1>6, <1>7 DEF WillBeAligned
  <1>9. AlignedUnlessRunning'
    BY <1>6 DEF AlignedUnlessRunning
  <1>. QED BY <1>1, <1>8, <1>9

LEMMA CreateTaskInv ==
  ASSUME MotorInv, NEW c \in Callers, CreateTask(c)
  PROVE  MotorInv'
  <1>. USE DEF MotorInv
  <1>0. /\ call[c].slots \in 0..MaxSlots
        /\ \A d \in Callers : run[d].phase = "none"
    BY DEF MotorTypeOK, MotorExclusive, MotorOnePlace, Holds, CreateTask
  <1>1. /\ call[c].slots * StepsPerSlot \in 0..(MaxSlots * StepsPerSlot)
        /\ WillBeAligned'
        /\ AlignedUnlessRunning'
    BY <1>0, NewRunAligned DEF CreateTask
  <1>2. MotorTypeOK'
    BY <1>0, <1>1, RestTyped DEF MotorTypeOK, CreateTask, Phases
  <1>3. MotorExclusive'
    BY DEF MotorTypeOK, MotorExclusive, Holds, CreateTask, NoCall
  <1>4. MotorOnePlace' /\ EnabledByARun'
    BY <1>0 DEF MotorTypeOK, MotorOnePlace, EnabledByARun, CreateTask, NoCall
  <1>. QED BY <1>1, <1>2, <1>3, <1>4

LEMMA CreateFailsInv ==
  ASSUME MotorInv, NEW c \in Callers, CreateFails(c)
  PROVE  MotorInv'
  <1>. USE DEF MotorInv
  <1>1. MotorTypeOK'
    BY RestTyped DEF MotorTypeOK, CreateFails
  <1>2. MotorExclusive'
    BY DEF MotorTypeOK, MotorExclusive, MotorOnePlace, Holds, CreateFails, NoCall
  <1>3. MotorOnePlace' /\ EnabledByARun'
    BY DEF MotorTypeOK, MotorOnePlace, EnabledByARun, CreateFails, NoCall
  <1>4. WillBeAligned' /\ AlignedUnlessRunning'
    BY DEF WillBeAligned, AlignedUnlessRunning, CreateFails
  <1>. QED BY <1>1, <1>2, <1>3, <1>4

LEMMA ClaimSyncInv ==
  ASSUME MotorInv, NEW c \in Callers, NEW n \in Nat, ClaimSync(c, n)
  PROVE  MotorInv'
  <1>. USE DEF MotorInv
  <1>0. n \in 0..MaxSlots /\ \A d \in Callers : run[d].phase = "none"
    BY MotorAssumption DEF MotorExclusive, Holds, ClaimSync, ValidSlots
  <1>1. /\ n * StepsPerSlot \in 0..(MaxSlots * StepsPerSlot)
        /\ WillBeAligned'
        /\ AlignedUnlessRunning'
    BY <1>0, NewRunAligned DEF ClaimSync
  <1>2. MotorTypeOK'
    BY <1>0, <1>1, MotorAssumption DEF MotorTypeOK, ClaimSync, CallPCs, Phases
  <1>3. MotorExclusive'
    BY DEF MotorTypeOK, MotorExclusive, Holds, ClaimSync
  <1>4. MotorOnePlace' /\ EnabledByARun'
    BY <1>0 DEF MotorTypeOK, MotorExclusive, MotorOnePlace, EnabledByARun, Holds, ClaimSync
  <1>. QED BY <1>1, <1>2, <1>3, <1>4

\* Only the place in dispense_task and a pin change.
LEMMA EnableInv ==
  ASSUME MotorInv, NEW c \in Callers, Enable(c)
  PROVE  MotorInv'
  <1>. USE DEF MotorInv
  <1>1. MotorTypeOK'
    BY DEF MotorTypeOK, Enable, Phases
  <1>2. MotorExclusive'
    BY DEF MotorTypeOK, MotorExclusive, Holds, Enable
  <1>3. MotorOnePlace' /\ EnabledByARun'
    BY DEF MotorTypeOK, MotorExclusive, Holds, MotorOnePlace, EnabledByARun, Enable
  <1>4. WillBeAligned' /\ AlignedUnlessRunning'
    BY DEF MotorTypeOK, WillBeAligned, AlignedUnlessRunning, Enable
  <1>. QED BY <1>1, <1>2, <1>3, <1>4

LEMMA SetDirectionInv ==
  ASSUME MotorInv, NEW c \in Callers, SetDirection(c)
  PROVE  MotorInv'
  <1>. USE DEF MotorInv
  <1>1. MotorTypeOK'
    BY DEF MotorTypeOK, SetDirection, Phases
  <1>2. MotorExclusive'
    BY DEF MotorTypeOK, MotorExclusive, Holds, SetDirection
  <1>3. MotorOnePlace' /\ EnabledByARun'
    BY DEF MotorTypeOK, MotorExclusive, Holds, MotorOnePlace, EnabledByARun, SetDirection
  <1>4. WillBeAligned' /\ AlignedUnlessRunning'
    BY DEF MotorTypeOK, WillBeAligned, AlignedUnlessRunning, SetDirection
  <1>. QED BY <1>1, <1>2, <1>3, <1>4

\* A pulse is sent to an enabled driver: one microstep fewer to come, one more
\* made.
LEMMA PulseTurns ==
  ASSUME MotorInv, NEW c \in Callers, Pulse(c)
  PROVE  /\ position' = IF position + 1 = Turn THEN 0 ELSE position + 1
         /\ position' = (position + 1) % Turn
         /\ run'[c] = [run[c] EXCEPT !.left = @ - 1]
         /\ \A d \in Callers : d # c => run[d].phase = "none" /\ run'[d] = run[d]
  <1>1. en /\ dir = 1
    BY DEF MotorInv, MotorOnePlace, Pulse
  <1>2. position' = (position + 1) % Turn
    BY <1>1 DEF Pulse
  <1>3. position' = IF position + 1 = Turn THEN 0 ELSE position + 1
    <2>1. position \in 0..(Turn - 1)
      BY DEF MotorInv, MotorTypeOK
    <2>. QED BY <2>1, <1>2, WheelTurns, TurnPositive
  <1>4. run'[c] = [run[c] EXCEPT !.left = @ - 1]
    BY DEF MotorInv, MotorTypeOK, Pulse
  <1>5. \A d \in Callers : d # c => run[d].phase = "none" /\ run'[d] = run[d]
    BY DEF MotorInv, MotorTypeOK, MotorExclusive, Holds, Pulse
  <1>. QED BY <1>2, <1>3, <1>4, <1>5

LEMMA PulseInv ==
  ASSUME MotorInv, NEW c \in Callers, Pulse(c)
  PROVE  MotorInv'
  <1>. USE DEF MotorInv
  <1>1. MotorTypeOK'
    <2>1. position' \in 0..(Turn - 1)
      <3>1. position \in 0..(Turn - 1)
        BY DEF MotorTypeOK
      <3>2. position' = IF position + 1 = Turn THEN 0 ELSE position + 1
        BY PulseTurns
      <3>. QED BY <3>1, <3>2, TurnPositive
    <2>2. run[c].left - 1 \in 0..(MaxSlots * StepsPerSlot)
      <3>1. MaxSlots * StepsPerSlot \in Nat
        BY MotorAssumption
      <3>2. run[c].left \in 0..(MaxSlots * StepsPerSlot) /\ run[c].left > 0
        BY DEF MotorTypeOK, Pulse
      <3>. QED BY <3>1, <3>2
    <2>. QED BY <2>1, <2>2 DEF MotorTypeOK, Pulse
  <1>2. MotorExclusive'
    BY DEF MotorTypeOK, MotorExclusive, Holds, Pulse
  <1>3. MotorOnePlace' /\ EnabledByARun'
    BY DEF MotorTypeOK, MotorOnePlace, EnabledByARun, Pulse
  <1>4. WillBeAligned'
    <2>1. PICK k \in 0..(Bins + MaxSlots) : position + run[c].left = k * StepsPerSlot
      BY DEF WillBeAligned, Pulse
    <2>2. /\ run'[c].left = run[c].left - 1
          /\ position \in 0..(Turn - 1)
          /\ run[c].left \in Nat \ {0}
      BY PulseTurns, MotorAssumption DEF MotorTypeOK, Pulse
    <2>3. CASE position + 1 = Turn
      <3>1. position' + run'[c].left = k * StepsPerSlot - Bins * StepsPerSlot
        <4>1. position' = 0
          BY <2>3, PulseTurns
        <4>2. k * StepsPerSlot = Turn + run[c].left - 1
          BY <2>1, <2>2, <2>3, TurnPositive
        <4>. QED BY <4>1, <4>2, <2>2, TurnPositive DEF Turn
      <3>2. k >= Bins
        <4>. SUFFICES ASSUME k < Bins PROVE FALSE
          BY MotorAssumption
        <4>1. (k + 1) \in 0..Bins
          BY MotorAssumption
        <4>2. (k + 1) * StepsPerSlot \in 0..(Bins * StepsPerSlot)
          BY <4>1, SlotsBounded, MotorAssumption
        <4>3. (k + 1) * StepsPerSlot = k * StepsPerSlot + StepsPerSlot
          BY MotorAssumption
        <4>4. k * StepsPerSlot >= Turn
          BY <2>1, <2>2, <2>3, TurnPositive
        <4>. QED BY <4>2, <4>3, <4>4, MotorAssumption, TurnPositive DEF Turn
      <3>3. k - Bins \in 0..(Bins + MaxSlots)
        BY <3>2, MotorAssumption
      <3>4. (k - Bins) * StepsPerSlot = k * StepsPerSlot - Bins * StepsPerSlot
        BY <3>2, MotorAssumption
      <3>. QED BY <3>1, <3>3, <3>4, PulseTurns DEF WillBeAligned
    <2>4. CASE position + 1 # Turn
      <3>1. position' + run'[c].left = k * StepsPerSlot
        <4>1. position' = position + 1
          BY <2>4, PulseTurns
        <4>. QED BY <4>1, <2>1, <2>2, TurnPositive
      <3>. QED BY <3>1, PulseTurns DEF WillBeAligned
    <2>. QED BY <2>3, <2>4
  <1>5. AlignedUnlessRunning'
    BY PulseTurns DEF AlignedUnlessRunning, Pulse
  <1>. QED BY <1>1, <1>2, <1>3, <1>4, <1>5

LEMMA DisableInv ==
  ASSUME MotorInv, NEW c \in Callers, Disable(c)
  PROVE  MotorInv'
  <1>. USE DEF MotorInv
  <1>1. MotorTypeOK'
    BY DEF MotorTypeOK, Disable, Phases
  <1>2. MotorExclusive'
    BY DEF MotorTypeOK, MotorExclusive, Holds, Disable
  <1>3. MotorOnePlace' /\ EnabledByARun'
    BY DEF MotorTypeOK, MotorExclusive, Holds, MotorOnePlace, EnabledByARun, Disable
  <1>4. WillBeAligned' /\ AlignedUnlessRunning'
    BY DEF MotorTypeOK, WillBeAligned, AlignedUnlessRunning, Disable
  <1>. QED BY <1>1, <1>2, <1>3, <1>4

\* No pulse is left when the motor is released: the wheel stands at the
\* compartment the run was to end at.
LEMMA ReleaseInv ==
  ASSUME MotorInv, NEW c \in Callers, Release(c)
  PROVE  MotorInv'
  <1>. USE DEF MotorInv
  <1>1. MotorTypeOK'
    BY RestTyped DEF MotorTypeOK, Release
  <1>2. \A d \in Callers : ~Holds(d)'
    BY DEF MotorTypeOK, MotorExclusive, MotorOnePlace, Holds, Release, NoCall, NoRun, CallPCs
  <1>3. MotorExclusive'
    BY <1>2 DEF MotorExclusive, Release
  <1>4. MotorOnePlace' /\ EnabledByARun'
    BY DEF MotorTypeOK, MotorExclusive, Holds, MotorOnePlace, EnabledByARun, Release,
           NoCall, NoRun
  <1>5. WillBeAligned'
    BY DEF MotorTypeOK, WillBeAligned, Release, NoRun
  <1>6. AlignedUnlessRunning'
    <2>1. run[c].left = 0
      BY DEF MotorOnePlace, Release
    <2>2. PICK k \in 0..(Bins + MaxSlots) : position + run[c].left = k * StepsPerSlot
      BY DEF WillBeAligned, Release
    <2>3. position = k * StepsPerSlot
      BY <2>1, <2>2 DEF MotorTypeOK
    <2>. QED BY <2>3 DEF AlignedUnlessRunning, Release
  <1>. QED BY <1>1, <1>3, <1>4, <1>5, <1>6

\* A step that changes nothing of the motor.
LEMMA MotorStutterInv ==
  ASSUME MotorInv, UNCHANGED motorVars
  PROVE  MotorInv'
  BY DEF MotorInv, MotorTypeOK, MotorExclusive, Holds, MotorOnePlace, EnabledByARun,
         WillBeAligned, AlignedUnlessRunning, motorVars

LEMMA MotorNextInv == MotorInv /\ [MotorNext]_motorVars => MotorInv'
  <1>. SUFFICES ASSUME MotorInv, [MotorNext]_motorVars
                PROVE  MotorInv'
    OBVIOUS
  <1>1. ASSUME NEW c \in Callers, NEW n \in 1..MaxSlots, Claim(c, n)
        PROVE  MotorInv'
    BY <1>1, ClaimInv
  <1>2. ASSUME NEW c \in Callers, NEW n \in 1..MaxSlots, ClaimSync(c, n)
        PROVE  MotorInv'
    BY <1>2, ClaimSyncInv
  <1>3. ASSUME NEW c \in Callers, Return(c)
        PROVE  MotorInv'
    BY <1>3, CreateTaskInv, CreateFailsInv DEF Return
  <1>4. ASSUME NEW c \in Callers, RunStep(c)
        PROVE  MotorInv'
    BY <1>4, EnableInv, SetDirectionInv, PulseInv, DisableInv, ReleaseInv DEF RunStep
  <1>5. CASE UNCHANGED motorVars
    BY <1>5, MotorStutterInv
  <1>. QED BY <1>1, <1>2, <1>3, <1>4, <1>5 DEF MotorNext

-----------------------------------------------------------------------------
\* MotorInv holds of every behaviour of the motor: who holds the motor, what
\* the pins are and where the wheel will stop all follow from the claim.
THEOREM MotorInvariant == MotorSpec => []MotorInv
  <1>. QED BY MotorInitInv, MotorNextInv, PTL DEF MotorSpec

\* The types of the driver's state.
THEOREM MotorTypes == MotorSpec => []MotorTypeOK
  <1>1. MotorInv => MotorTypeOK
    BY DEF MotorInv
  <1>. QED BY <1>1, MotorInvariant, PTL

\* One holder of the motor at a time, for any number of calling tasks: the
\* claim under the spinlock keeps pulse sequences from interleaving.
THEOREM OneRunAtATime == MotorSpec => []MotorExclusive
  <1>1. MotorInv => MotorExclusive
    BY DEF MotorInv
  <1>. QED BY <1>1, MotorInvariant, PTL

\* An idle motor is not energised, whichever path gave the claim back.
THEOREM IdleMotorIsDisabled == MotorSpec => []DisabledAtRest
  <1>1. MotorInv => DisabledAtRest
    BY DEF MotorInv, MotorExclusive, EnabledByARun, Holds, DisabledAtRest
  <1>. QED BY <1>1, MotorInvariant, PTL

\* An idle motor has a compartment over the outlet, for every sequence of
\* requests, every hopper and every number of microsteps per slot.
THEOREM IdleMotorIsAligned == MotorSpec => []AlignedAtRest
  <1>1. MotorInv => AlignedAtRest
    <2>. SUFFICES ASSUME MotorInv, ~running
                  PROVE  \E k \in 0..(Bins - 1) : position = k * StepsPerSlot
      BY DEF AlignedAtRest
    <2>1. \A c \in Callers : run[c].phase = "none"
      BY DEF MotorInv, MotorExclusive, Holds
    <2>2. PICK k \in 0..(Bins + MaxSlots) : position = k * StepsPerSlot
      BY <2>1 DEF MotorInv, AlignedUnlessRunning
    <2>3. k * StepsPerSlot < Bins * StepsPerSlot
      BY <2>2, TurnPositive DEF MotorInv, MotorTypeOK, Turn
    <2>4. k < Bins
      BY <2>2, <2>3, SlotsOrdered, MotorAssumption
    <2>. QED BY <2>2, <2>4, MotorAssumption
  <1>. QED BY <1>1, MotorInvariant, PTL

\* A pulse that dispense_task counts off is one microstep of the wheel: none is
\* sent to a disabled driver or in the wrong direction.
THEOREM EveryPulseTurnsTheWheel == MotorSpec => PulsesTurnTheWheel
  <1>1. MotorInv /\ [MotorNext]_motorVars =>
          [\A c \in Callers : run'[c].left = run[c].left - 1 =>
                                position' = (position + 1) % Turn]_motorVars
    <2>. SUFFICES ASSUME MotorInv, MotorNext, NEW c \in Callers,
                         run'[c].left = run[c].left - 1
                  PROVE  position' = (position + 1) % Turn
      OBVIOUS
    <2>1. ASSUME NEW d \in Callers, Pulse(d)
          PROVE  position' = (position + 1) % Turn
      BY <2>1, PulseTurns
    <2>2. ASSUME NEW d \in Callers, Enable(d) \/ SetDirection(d) \/ Disable(d)
          PROVE  FALSE
      BY <2>2 DEF MotorInv, MotorTypeOK, Enable, SetDirection, Disable
    <2>3. ASSUME NEW d \in Callers, Release(d)
          PROVE  FALSE
      BY <2>3 DEF MotorInv, MotorTypeOK, MotorOnePlace, Release, NoRun
    <2>4. ASSUME NEW d \in Callers, NEW n \in 1..MaxSlots, Claim(d, n)
          PROVE  FALSE
      BY <2>4 DEF MotorInv, MotorTypeOK, Claim
    <2>5. ASSUME NEW d \in Callers, NEW n \in 0..MaxSlots, run[d].phase = "none",
                 run' = [run EXCEPT ![d] = [phase |-> "created", slots |-> n,
                                            left |-> n * StepsPerSlot]]
          PROVE  FALSE
      <3>1. n * StepsPerSlot \in Nat
        BY MotorAssumption
      <3>2. run[d].left = 0 /\ (c = d => run'[c].left = n * StepsPerSlot)
        BY <2>5 DEF MotorInv, MotorTypeOK, MotorOnePlace
      <3>. QED BY <3>1, <3>2, <2>5 DEF MotorInv, MotorTypeOK
    <2>6. ASSUME NEW d \in Callers, NEW n \in 1..MaxSlots, ClaimSync(d, n)
          PROVE  FALSE
      <3>1. run[d].phase = "none" /\ n \in 0..MaxSlots
        BY <2>6, MotorAssumption DEF MotorInv, MotorExclusive, Holds, ClaimSync
      <3>. QED BY <3>1, <2>5, <2>6 DEF ClaimSync
    <2>7. ASSUME NEW d \in Callers, Return(d)
          PROVE  FALSE
      <3>1. CASE CreateTask(d)
        <4>1. run[d].phase = "none" /\ call[d].slots \in 0..MaxSlots
          BY <3>1 DEF MotorInv, MotorTypeOK, MotorOnePlace, CreateTask
        <4>. QED BY <4>1, <2>5, <3>1 DEF CreateTask
      <3>2. CASE CreateFails(d)
        BY <3>2 DEF MotorInv, MotorTypeOK, CreateFails
      <3>. QED BY <2>7, <3>1, <3>2 DEF Return
    <2>. QED BY <2>1, <2>2, <2>3, <2>4, <2>6, <2>7 DEF MotorNext, RunStep
  <1>. QED BY <1>1, MotorInvariant, PTL DEF MotorSpec, PulsesTurnTheWheel

-----------------------------------------------------------------------------
(***************************************************************************)
(* The motor implements the dispenser, as far as safety goes.  Arithmetic  *)
(* of the wheel first.                                                     *)
(***************************************************************************)
LEMMA WheelSplits ==
  ASSUME NEW t \in Nat \ {0}, NEW a \in Int
  PROVE  a % t \in 0..(t - 1) /\ a = (t * (a \div t)) + (a % t) /\ a \div t \in Int
  OBVIOUS

LEMMA WheelRest ==
  ASSUME NEW t \in Nat \ {0}, NEW q \in Int, NEW r \in 0..(t - 1)
  PROVE  ((q * t) + r) % t = r
  OBVIOUS

\* A turn back does not show.
LEMMA WheelRound ==
  ASSUME NEW t \in Nat \ {0}, NEW a \in Int
  PROVE  (a - t) % t = a % t
  <1>. DEFINE q == a \div t
  <1>. DEFINE r == a % t
  <1>1. r \in 0..(t - 1) /\ a = (t * q) + r /\ q \in Int
    BY WheelSplits
  <1>. HIDE DEF q, r
  <1>2. a - t = ((q - 1) * t) + r
    BY <1>1
  <1>3. (((q - 1) * t) + r) % t = r
    BY <1>1, WheelRest
  <1>. QED BY <1>2, <1>3 DEF r

\* Compartments instead of microsteps.
LEMMA WheelScales ==
  ASSUME NEW b \in Nat \ {0}, NEW s \in Nat \ {0}, NEW a \in Int
  PROVE  ((a * s) % (b * s)) \div s = a % b
  <1>1. (a * s) % (b * s) = (a % b) * s
    OBVIOUS
  <1>2. a % b \in Nat
    BY WheelSplits
  <1>3. \A k \in Nat : (k * s) \div s = k
    OBVIOUS
  <1>. QED BY <1>1, <1>2, <1>3

LEMMA WheelReturns ==
  ASSUME NEW b \in Nat \ {0}, NEW k \in 0..(b - 1), NEW n \in Nat
  PROVE  (((k - n) % b) + n) % b = k
  OBVIOUS

\* A request that is being served is for at least one slot.
ServesSlots ==
  \A c \in Callers :
    /\ call[c].pc = "claimed" => call[c].slots # 0
    /\ run[c].phase # "none" => run[c].slots # 0

LEMMA ServesInit == MotorInit => ServesSlots
  <1>1. NoCall.pc = "idle" /\ NoRun.phase = "none"
    BY DEF NoCall, NoRun
  <1>. QED BY <1>1 DEF MotorInit, ServesSlots

LEMMA ServesNext ==
  ASSUME MotorTypeOK, ServesSlots, [MotorNext]_motorVars
  PROVE  ServesSlots'
  <1>. USE DEF ServesSlots, MotorTypeOK
  <1>1. ASSUME NEW c \in Callers, NEW n \in 1..MaxSlots, Claim(c, n)
        PROVE  ServesSlots'
    BY <1>1 DEF Claim, ValidSlots
  <1>5. ASSUME NEW c \in Callers, NEW n \in 1..MaxSlots, ClaimSync(c, n)
        PROVE  ServesSlots'
    BY <1>5 DEF ClaimSync, ValidSlots
  <1>2. ASSUME NEW c \in Callers, Return(c)
        PROVE  ServesSlots'
    <2>1. CASE CreateTask(c)
      BY <2>1 DEF CreateTask, NoCall
    <2>2. CASE CreateFails(c)
      BY <2>2 DEF CreateFails, NoCall
    <2>. QED BY <1>2, <2>1, <2>2 DEF Return
  <1>3. ASSUME NEW c \in Callers, RunStep(c)
        PROVE  ServesSlots'
    <2>1. CASE Enable(c) \/ SetDirection(c) \/ Pulse(c) \/ Disable(c)
      BY <1>3, <2>1 DEF Enable, SetDirection, Pulse, Disable
    <2>2. CASE Release(c)
      BY <1>3, <2>2 DEF Release, NoRun, NoCall
    <2>. QED BY <1>3, <2>1, <2>2 DEF RunStep
  <1>4. CASE UNCHANGED motorVars
    BY <1>4 DEF motorVars
  <1>. QED BY <1>1, <1>2, <1>3, <1>4, <1>5 DEF MotorNext

\* The dispenser's variables, when nobody and when c dispenses.
LEMMA AtRest ==
  ASSUME \A c \in Callers : run[c].phase = "none"
  PROVE  ServingNow = 0 /\ PulsesMade = 0
  BY DEF Dispensing, ServingNow, PulsesMade

LEMMA Dispenses ==
  ASSUME NEW c \in Callers, run[c].phase # "none",
         \A d \in Callers : d # c => run[d].phase = "none"
  PROVE  /\ ServingNow = run[c].slots
         /\ PulsesMade = run[c].slots * StepsPerSlot - run[c].left
  <1>1. Dispensing = {c}
    BY DEF Dispensing
  <1>2. (CHOOSE d \in Dispensing : TRUE) = c
    BY <1>1
  <1>. QED BY <1>1, <1>2 DEF ServingNow, PulsesMade

LEMMA AtRestThen ==
  ASSUME \A c \in Callers : run'[c].phase = "none"
  PROVE  ServingNow' = 0 /\ PulsesMade' = 0
  BY DEF Dispensing, ServingNow, PulsesMade

LEMMA DispensesThen ==
  ASSUME NEW c \in Callers, run'[c].phase # "none",
         \A d \in Callers : d # c => run'[d].phase = "none"
  PROVE  /\ ServingNow' = run'[c].slots
         /\ PulsesMade' = run'[c].slots * StepsPerSlot - run'[c].left
  <1>1. Dispensing' = {c}
    BY DEF Dispensing
  <1>2. (CHOOSE d \in Dispensing' : TRUE) = c
    BY <1>1
  <1>. QED BY <1>1, <1>2 DEF ServingNow, PulsesMade

\* A task for a request, or a synchronous call, accepts it.
LEMMA NewRunAccepts ==
  ASSUME MotorInv, NEW c \in Callers, NEW n \in 1..MaxSlots,
         \A d \in Callers : run[d].phase = "none",
         UNCHANGED position,
         run' = [run EXCEPT ![c] = [phase |-> "created", slots |-> n,
                                    left |-> n * StepsPerSlot]]
  PROVE  Abstract!Next
  <1>1. /\ run'[c] = [phase |-> "created", slots |-> n, left |-> n * StepsPerSlot]
        /\ \A d \in Callers : d # c => run'[d] = run[d]
    BY DEF MotorInv, MotorTypeOK
  <1>2. ServingNow = 0 /\ PulsesMade = 0
    BY AtRest
  <1>3. ServingNow' = n /\ PulsesMade' = n * StepsPerSlot - n * StepsPerSlot
    BY <1>1, DispensesThen
  <1>4. n * StepsPerSlot - n * StepsPerSlot = 0
    BY MotorAssumption
  <1>5. SlotNow' = SlotNow
    BY <1>2, <1>3, <1>4 DEF SlotNow
  <1>. QED BY <1>2, <1>3, <1>5 DEF Abstract!Next, Abstract!Accept

\* The last step of a run delivers it.
LEMMA ReleaseDelivers ==
  ASSUME MotorInv, ServesSlots, NEW c \in Callers, Release(c)
  PROVE  Abstract!Next
  <1>1. /\ run[c].phase = "disabled" /\ run[c].left = 0
        /\ run[c].slots \in 0..MaxSlots /\ run[c].slots # 0
        /\ position \in 0..(Turn - 1)
    BY DEF MotorInv, MotorTypeOK, MotorOnePlace, ServesSlots, Release
  <1>2. \A d \in Callers : d # c => run[d].phase = "none"
    BY <1>1 DEF MotorInv, MotorExclusive, Holds
  <1>3. \A d \in Callers : run'[d].phase = "none"
    BY <1>2 DEF Release, MotorInv, MotorTypeOK, NoRun
  <1>4. UNCHANGED position
    BY DEF Release
  <1>5. PICK n \in Nat : n = run[c].slots
    BY <1>1, MotorAssumption
  <1>6. ServingNow = n /\ PulsesMade = n * StepsPerSlot
    <2>1. ServingNow = run[c].slots /\ PulsesMade = run[c].slots * StepsPerSlot - run[c].left
      BY <1>1, <1>2, Dispenses
    <2>2. n * StepsPerSlot \in Int
      BY <1>5, MotorAssumption
    <2>. QED BY <1>1, <1>5, <2>1, <2>2
  <1>7. ServingNow' = 0 /\ PulsesMade' = 0
    BY <1>3, AtRestThen
  <1>8. PICK k \in 0..(Bins + MaxSlots) : position = k * StepsPerSlot
    <2>1. PICK k \in 0..(Bins + MaxSlots) : position + run[c].left = k * StepsPerSlot
      BY <1>1 DEF MotorInv, WillBeAligned
    <2>. QED BY <1>1, <2>1, TurnPositive
  <1>9. k \in 0..(Bins - 1)
    <2>1. k * StepsPerSlot < Bins * StepsPerSlot
      BY <1>1, <1>8, TurnPositive DEF Turn
    <2>2. k < Bins
      BY <1>8, <2>1, SlotsOrdered, MotorAssumption
    <2>. QED BY <1>8, <2>2, MotorAssumption
  <1>10. SlotNow = (k - n) % Bins
    <2>1. position - n * StepsPerSlot = (k - n) * StepsPerSlot
      BY <1>5, <1>8, MotorAssumption
    <2>0. k - n \in Int /\ Bins \in Nat \ {0} /\ StepsPerSlot \in Nat \ {0}
      BY <1>5, <1>8, MotorAssumption
    <2>2. (((k - n) * StepsPerSlot) % (Bins * StepsPerSlot)) \div StepsPerSlot = (k - n) % Bins
      BY <2>0, WheelScales
    <2>. QED BY <1>6, <2>1, <2>2 DEF SlotNow, Turn
  <1>11. SlotNow' = k
    <2>0. k \in Int /\ Bins \in Nat \ {0} /\ StepsPerSlot \in Nat \ {0}
      BY <1>8, MotorAssumption
    <2>1. ((k * StepsPerSlot) % (Bins * StepsPerSlot)) \div StepsPerSlot = k % Bins
      BY <2>0, WheelScales
    <2>2. k % Bins = k
      BY <1>9, MotorAssumption
    <2>3. position' - PulsesMade' = k * StepsPerSlot
      BY <1>4, <1>7, <1>8, MotorAssumption
    <2>4. SlotNow' = ((position' - PulsesMade') % Turn) \div StepsPerSlot
      BY DEF SlotNow, Turn
    <2>. QED BY <2>1, <2>2, <2>3, <2>4 DEF Turn
  <1>12. SlotNow' = (SlotNow + ServingNow) % Bins
    BY <1>5, <1>6, <1>9, <1>10, <1>11, WheelReturns, MotorAssumption
  <1>. QED BY <1>1, <1>5, <1>6, <1>7, <1>12 DEF Abstract!Next, Abstract!Deliver

\* One more microstep of the wheel and one more pulse made: the dispenser does
\* not see it.
LEMMA PulseUnseen ==
  ASSUME MotorInv, NEW c \in Callers, Pulse(c)
  PROVE  UNCHANGED <<ServingNow, SlotNow>>
  <1>1. /\ run[c].phase = "stepping" /\ run[c].left \in Int /\ run[c].slots \in Int
        /\ position \in Int
    BY MotorAssumption DEF MotorInv, MotorTypeOK, Pulse
  <1>2. /\ run'[c] = [run[c] EXCEPT !.left = @ - 1]
        /\ \A d \in Callers : d # c => run[d].phase = "none" /\ run'[d] = run[d]
        /\ position' = IF position + 1 = Turn THEN 0 ELSE position + 1
    BY PulseTurns
  <1>3. run'[c].phase = run[c].phase /\ run'[c].slots = run[c].slots /\ run'[c].left = run[c].left - 1
    BY <1>2 DEF MotorInv, MotorTypeOK
  <1>4. /\ ServingNow = run[c].slots
        /\ PulsesMade = run[c].slots * StepsPerSlot - run[c].left
    BY <1>1, <1>2, Dispenses
  <1>5. /\ ServingNow' = run'[c].slots
        /\ PulsesMade' = run'[c].slots * StepsPerSlot - run'[c].left
    BY <1>1, <1>2, <1>3, DispensesThen
  <1>6. run[c].slots * StepsPerSlot \in Int
    BY <1>1, MotorAssumption
  <1>7. PulsesMade' = PulsesMade + 1 /\ PulsesMade \in Int
    BY <1>1, <1>3, <1>4, <1>5, <1>6
  <1>8. \/ position' - PulsesMade' = position - PulsesMade
        \/ position' - PulsesMade' = (position - PulsesMade) - Turn
    BY <1>1, <1>2, <1>7, TurnPositive
  <1>9. (position' - PulsesMade') % Turn = (position - PulsesMade) % Turn
    <2>1. position - PulsesMade \in Int
      BY <1>1, <1>7
    <2>. QED BY <1>8, <2>1, WheelRound, TurnPositive
  <1>10. SlotNow' = ((position' - PulsesMade') % Turn) \div StepsPerSlot
    BY DEF SlotNow, Turn
  <1>. QED BY <1>3, <1>4, <1>5, <1>9, <1>10 DEF SlotNow

\* The steps that send no pulse leave the pulses and the slots of every run.
LEMMA PlaceUnseen ==
  ASSUME MotorInv, NEW c \in Callers, Enable(c) \/ SetDirection(c) \/ Disable(c)
  PROVE  UNCHANGED <<ServingNow, SlotNow>>
  <1>1. PICK phase \in {"enabled", "stepping", "disabled"} : run' = [run EXCEPT ![c].phase = phase]
    BY DEF Enable, SetDirection, Disable
  <1>2. /\ run[c].phase # "none" /\ UNCHANGED position
        /\ \A d \in Callers : d # c => run[d].phase = "none"
    BY DEF MotorInv, MotorExclusive, Holds, Enable, SetDirection, Disable
  <1>3. /\ run'[c].phase # "none" /\ run'[c].slots = run[c].slots /\ run'[c].left = run[c].left
        /\ \A d \in Callers : d # c => run'[d] = run[d]
    BY <1>1 DEF MotorInv, MotorTypeOK
  <1>4. ServingNow' = ServingNow /\ PulsesMade' = PulsesMade
    BY <1>2, <1>3, Dispenses, DispensesThen
  <1>. QED BY <1>2, <1>4 DEF SlotNow, Turn

LEMMA MotorInitDispenses == MotorInit => Abstract!Init
  <1>. SUFFICES ASSUME MotorInit PROVE Abstract!Init
    OBVIOUS
  <1>1. ServingNow = 0 /\ PulsesMade = 0 /\ position = 0
    BY AtRest DEF MotorInit, NoRun
  <1>2. 0 % Turn = 0 /\ 0 \div StepsPerSlot = 0
    BY TurnPositive, MotorAssumption
  <1>3. position - PulsesMade = 0
    BY <1>1
  <1>4. SlotNow = 0
    BY <1>2, <1>3 DEF SlotNow
  <1>. QED BY <1>1, <1>4 DEF Abstract!Init

LEMMA MotorStepsDispense ==
  ASSUME MotorInv, ServesSlots, [MotorNext]_motorVars
  PROVE  [Abstract!Next]_(Abstract!vars)
  <1>1. CASE UNCHANGED <<ServingNow, SlotNow>>
    BY <1>1 DEF Abstract!vars
  <1>2. CASE UNCHANGED <<run, position>>
    <2>1. UNCHANGED <<ServingNow, SlotNow>>
      BY <1>2 DEF ServingNow, SlotNow, PulsesMade, Dispensing
    <2>. QED BY <1>1, <2>1
  <1>3. ASSUME NEW c \in Callers, NEW n \in 1..MaxSlots, ClaimSync(c, n)
        PROVE  Abstract!Next
    <2>1. \A d \in Callers : run[d].phase = "none"
      BY <1>3 DEF ClaimSync, MotorInv, MotorExclusive, Holds
    <2>. QED BY <1>3, <2>1, NewRunAccepts DEF ClaimSync
  <1>4. ASSUME NEW c \in Callers, CreateTask(c)
        PROVE  Abstract!Next
    <2>1. call[c].slots \in 1..MaxSlots
      BY <1>4, MotorAssumption DEF CreateTask, MotorInv, MotorTypeOK, ServesSlots
    <2>2. \A d \in Callers : run[d].phase = "none"
      BY <1>4 DEF CreateTask, MotorInv, MotorExclusive, MotorOnePlace, Holds
    <2>. QED BY <1>4, <2>1, <2>2, NewRunAccepts DEF CreateTask
  <1>5. ASSUME NEW c \in Callers, RunStep(c)
        PROVE  UNCHANGED <<ServingNow, SlotNow>> \/ Abstract!Next
    BY <1>5, PulseUnseen, PlaceUnseen, ReleaseDelivers DEF RunStep
  <1>6. ASSUME NEW c \in Callers, NEW n \in 1..MaxSlots, Claim(c, n)
        PROVE  UNCHANGED <<run, position>>
    BY <1>6 DEF Claim
  <1>7. CASE UNCHANGED motorVars
    BY <1>2, <1>7 DEF motorVars
  <1>8. ASSUME NEW c \in Callers, CreateFails(c)
        PROVE  UNCHANGED <<run, position>>
    BY <1>8 DEF CreateFails
  <1>. QED BY <1>1, <1>2, <1>3, <1>4, <1>5, <1>6, <1>7, <1>8 DEF MotorNext, Return

(***************************************************************************)
(* The motor implements the one-at-a-time dispenser: a request is accepted *)
(* when its pulses are prepared and delivered, in full and exactly, when   *)
(* the motor is released.  What is left of the refinement is that a run    *)
(* that was started is finished, which is liveness.                        *)
(***************************************************************************)
THEOREM MotorDispenses == MotorSpec => Abstract!Init /\ [][Abstract!Next]_(Abstract!vars)
  <1>1. ServesSlots /\ MotorInv /\ [MotorNext]_motorVars => ServesSlots'
    BY ServesNext DEF MotorInv
  <1>2. ServesSlots /\ MotorInv /\ [MotorNext]_motorVars => [Abstract!Next]_(Abstract!vars)
    BY MotorStepsDispense
  <1>. QED BY <1>1, <1>2, MotorInvariant, MotorInitDispenses, ServesInit, PTL DEF MotorSpec
=============================================================================
