-------------------------- MODULE CameraUsersProofs --------------------------
(***************************************************************************)
(* The stream tasks and the capture task keep to the protocol of the       *)
(* camera, so that what is proved of the camera is true of the system they *)
(* make; and both give back what they took, on every path.                 *)
(***************************************************************************)
EXTENDS CameraUsers, CameraProofs

Stages == {"none", "start", "headers", "loop", "copying", "cleanup", "free", "ending"}
Holding == {"headers", "loop", "copying", "cleanup"}

\* Every step of a task moves it by one of these, and leaves the camera alone
\* or does one step of the camera's protocol.
CameraMoves(t) == TaskStep(t) \/ UNCHANGED cameraVars

LEMMA CopyRunsIsTaskStep ==
  ASSUME NEW t \in Tasks, CopyRuns(t)
  PROVE  TaskStep(t)
  BY DEF CopyRuns, TaskStep

LEMMA StreamIsTaskStep ==
  ASSUME NEW t \in Streams, StreamStep(t)
  PROVE  CameraMoves(t)
  <1>1. t \in Tasks
    BY UsersAssumption
  <1>2. CASE StreamAcquires(t)
    BY <1>2 DEF StreamAcquires, Acquire, TaskStep, CameraMoves
  <1>3. CASE CopyRuns(t)
    BY <1>1, <1>3, CopyRunsIsTaskStep DEF CameraMoves
  <1>4. CASE StreamCopies(t) \/ StreamReleases(t)
    BY <1>4 DEF StreamCopies, StreamReleases, CopyCalled, TaskStep, CameraMoves
  <1>5. CASE Grow(t) \/ StreamSkips(t) \/ StreamSends(t) \/ StreamGivesUp(t)
    BY <1>5 DEF Grow, StreamSkips, StreamSends, StreamGivesUp, TaskStep, CameraMoves
  <1>6. CASE NoSocket(t) \/ Headers(t) \/ FreeSlot(t)
    BY <1>6 DEF NoSocket, Headers, FreeSlot, CameraMoves
  <1>. QED BY <1>2, <1>3, <1>4, <1>5, <1>6 DEF StreamStep

LEMMA CaptureIsTaskStep ==
  ASSUME CaptureStep
  PROVE  CameraMoves(Capture)
  <1>1. Capture \in Tasks
    BY UsersAssumption
  <1>2. CASE CaptureAborts \/ CaptureAcquires
    BY <1>2 DEF CaptureAborts, CaptureAcquires, TaskStep, CameraMoves
  <1>3. CASE CopyRuns(Capture)
    BY <1>1, <1>3, CopyRunsIsTaskStep DEF CameraMoves
  <1>4. CASE CaptureCopies \/ CaptureReleases
    BY <1>4 DEF CaptureCopies, CaptureReleases, CopyCalled, TaskStep, CameraMoves
  <1>5. CASE Grow(Capture) \/ CaptureRetries \/ CapturePublishes
    BY <1>5 DEF Grow, CaptureRetries, CapturePublishes, TaskStep, CameraMoves
  <1>6. CASE CaptureEnds
    BY <1>6 DEF CaptureEnds, CameraMoves
  <1>. QED BY <1>2, <1>3, <1>4, <1>5, <1>6 DEF CaptureStep

(***************************************************************************)
(* A step of the system is a step of the camera or leaves it alone.        *)
(***************************************************************************)
LEMMA StepKeepsProtocol ==
  ASSUME [UsersNext]_vars
  PROVE  [CameraNext]_cameraVars
  <1>1. CASE FrameArrives
    BY <1>1 DEF FrameArrives, Interrupt, CameraNext
  <1>2. CASE Slider
    BY <1>2 DEF Slider, CameraNext
  <1>3. CASE HandlerStep
    BY <1>3 DEF HandlerStep, Claim, HandlerFails, CreateStream
  <1>4. CASE UploadStart \/ UploadStop
    BY <1>4 DEF UploadStart, UploadStop
  <1>5. ASSUME NEW t \in Streams, StreamStep(t) PROVE [CameraNext]_cameraVars
    BY <1>5, StreamIsTaskStep, UsersAssumption DEF CameraMoves, CameraNext
  <1>6. CASE CaptureStep
    BY <1>6, CaptureIsTaskStep, UsersAssumption DEF CameraMoves, CameraNext
  <1>7. CASE UNCHANGED vars
    BY <1>7 DEF vars
  <1>. QED BY <1>1, <1>2, <1>3, <1>4, <1>5, <1>6, <1>7 DEF UsersNext

(***************************************************************************)
(* The two kinds of tasks implement what the camera asks of its users,     *)
(* whatever error path they take: acquire before copy, one release for     *)
(* each acquire that succeeded.                                            *)
(***************************************************************************)
THEOREM UsersKeepProtocol == UsersSpec => KeepsCameraProtocol
  <1>1. UsersInit => CameraInit
    BY DEF UsersInit
  <1>. QED BY <1>1, StepKeepsProtocol, PTL DEF UsersSpec, CameraSpec, KeepsCameraProtocol

\* The properties of the camera in the system of its users.
COROLLARY UsersCameraSafe ==
  UsersSpec => [](NoTornFrame /\ PowerFollowsUsers /\ BuffersWhenUsed)
  BY UsersKeepProtocol, CopiesAreWhole, CountIsRight, BuffersOutliveCopies, PTL
     DEF KeepsCameraProtocol

-----------------------------------------------------------------------------
(***************************************************************************)
(* Holding the camera and where a task is.                                 *)
(***************************************************************************)
HoldInv ==
    /\ stage \in [Tasks -> Stages]
    /\ holds \in [Tasks -> BOOLEAN]
    /\ HoldsByStage

LEMMA HoldInitInv == UsersInit => HoldInv
  BY DEF UsersInit, CameraInit, HoldInv, HoldsByStage, Stages

\* One task moves and the camera's holders stay.
LEMMA MoveKeepsHold ==
  ASSUME HoldInv, NEW t \in Tasks, NEW s \in Stages, Go(t, s), UNCHANGED holds,
         stage[t] \in Holding <=> s \in Holding
  PROVE  HoldInv'
  BY DEF HoldInv, HoldsByStage, Go, Holding

\* One task takes the camera, or gives it back.
LEMMA MoveChangesHold ==
  ASSUME HoldInv, NEW t \in Tasks, NEW s \in Stages, Go(t, s),
         NEW b \in BOOLEAN, holds' = [holds EXCEPT ![t] = b],
         b <=> s \in Holding
  PROVE  HoldInv'
  BY DEF HoldInv, HoldsByStage, Go, Holding

LEMMA CopyKeepsHold ==
  ASSUME NEW t \in Tasks, CopyStep(t)
  PROVE  UNCHANGED holds
  BY DEF CopyStep, Snapshot, Read, Check, Outcome

LEMMA CopyRunsHold ==
  ASSUME HoldInv, NEW t \in Tasks, CopyRuns(t)
  PROVE  HoldInv'
  BY CopyKeepsHold DEF CopyRuns, usersVars, HoldInv, HoldsByStage

LEMMA CopyCalledHold ==
  ASSUME HoldInv, NEW t \in Tasks, At(t, "loop"), CopyCalled(t)
  PROVE  HoldInv'
  <1>1. UNCHANGED holds /\ Go(t, "copying")
    BY DEF CopyCalled, CopyBegins, Moves
  <1>. QED BY <1>1, MoveKeepsHold DEF At, Stages, Holding

LEMMA CopyEndedHold ==
  ASSUME HoldInv, NEW t \in Tasks, At(t, "copying"), CopyEnds(t),
         NEW s \in {"loop", "cleanup"}, Moves(t, s)
  PROVE  HoldInv'
  <1>1. UNCHANGED holds /\ Go(t, s)
    BY DEF CopyEnds, Moves
  <1>. QED BY <1>1, MoveKeepsHold DEF At, Stages, Holding

LEMMA AcquiredHold ==
  ASSUME HoldInv, NEW t \in Tasks, Acquire(t), NEW s \in {"headers", "loop"}, Go(t, s)
  PROVE  HoldInv'
  <1>1. holds' = [holds EXCEPT ![t] = TRUE]
    BY DEF Acquire, AcquireShared, AcquireStarts
  <1>2. s \in Stages /\ s \in Holding
    BY DEF Stages, Holding
  <1>. QED BY <1>1, <1>2, MoveChangesHold

LEMMA ReleasedHold ==
  ASSUME HoldInv, NEW t \in Tasks, Release(t), NEW s \in {"free", "ending"}, Go(t, s)
  PROVE  HoldInv'
  <1>1. holds' = [holds EXCEPT ![t] = FALSE]
    BY DEF Release, ReleaseShared, ReleaseStops
  <1>2. s \in Stages /\ s \notin Holding
    BY DEF Stages, Holding
  <1>. QED BY <1>1, <1>2, MoveChangesHold

\* What a task does that is on neither side of the camera's calls.
LEMMA AsideHold ==
  ASSUME HoldInv, NEW t \in Tasks, NEW s \in Stages \ Holding, Go(t, s),
         stage[t] \notin Holding, NoCamera(t) \/ UNCHANGED cameraVars
  PROVE  HoldInv'
  <1>1. UNCHANGED holds
    BY DEF NoCamera, AcquireRefused, AcquireFails, cameraVars
  <1>. QED BY <1>1, MoveKeepsHold

LEMMA StreamStepHold ==
  ASSUME HoldInv, NEW t \in Streams, StreamStep(t)
  PROVE  HoldInv'
  <1>0. t \in Tasks
    BY UsersAssumption
  <1>1. CASE NoSocket(t)
    <2>1. Go(t, "free") /\ stage[t] = "start" /\ UNCHANGED cameraVars
      BY <1>1 DEF NoSocket, Moves, At
    <2>. QED BY <1>0, <2>1, AsideHold DEF Stages, Holding
  <1>2. CASE StreamAcquires(t)
    <2>1. CASE Acquire(t) /\ Go(t, "headers")
      BY <1>0, <2>1, AcquiredHold
    <2>2. CASE NoCamera(t) /\ Go(t, "free")
      <3>1. stage[t] = "start"
        BY <1>2 DEF StreamAcquires, At
      <3>. QED BY <1>0, <2>2, <3>1, AsideHold DEF Stages, Holding
    <2>. QED BY <1>2, <2>1, <2>2 DEF StreamAcquires, Acquire, Moves
  <1>3. CASE Headers(t)
    <2>1. PICK s \in {"loop", "cleanup"} : Go(t, s)
      BY <1>3 DEF Headers, Moves
    <2>2. stage[t] = "headers" /\ UNCHANGED holds
      BY <1>3 DEF Headers, At, cameraVars
    <2>. QED BY <1>0, <2>1, <2>2, MoveKeepsHold DEF Stages, Holding
  <1>4. CASE StreamCopies(t)
    BY <1>0, <1>4, CopyCalledHold DEF StreamCopies
  <1>5. CASE CopyRuns(t)
    BY <1>0, <1>5, CopyRunsHold
  <1>6. CASE Grow(t) \/ StreamSkips(t) \/ StreamSends(t) \/ StreamGivesUp(t)
    BY <1>0, <1>6, CopyEndedHold DEF Grow, StreamSkips, StreamSends, StreamGivesUp
  <1>7. CASE StreamReleases(t)
    BY <1>0, <1>7, ReleasedHold DEF StreamReleases, Moves
  <1>8. CASE FreeSlot(t)
    <2>1. Go(t, "none") /\ stage[t] = "free" /\ UNCHANGED cameraVars
      BY <1>8 DEF FreeSlot, At
    <2>. QED BY <1>0, <2>1, AsideHold DEF Stages, Holding
  <1>. QED BY <1>1, <1>2, <1>3, <1>4, <1>5, <1>6, <1>7, <1>8 DEF StreamStep

LEMMA CaptureStepHold ==
  ASSUME HoldInv, CaptureStep
  PROVE  HoldInv'
  <1>0. Capture \in Tasks
    BY UsersAssumption
  <1>1. CASE CaptureAborts
    <2>1. /\ Go(Capture, "none") /\ stage[Capture] = "start"
          /\ NoCamera(Capture) \/ UNCHANGED cameraVars
      BY <1>1 DEF CaptureAborts, At
    <2>. QED BY <1>0, <2>1, AsideHold DEF Stages, Holding
  <1>2. CASE CaptureAcquires
    BY <1>0, <1>2, AcquiredHold DEF CaptureAcquires
  <1>3. CASE CaptureCopies
    BY <1>0, <1>3, CopyCalledHold DEF CaptureCopies
  <1>4. CASE CopyRuns(Capture)
    BY <1>0, <1>4, CopyRunsHold
  <1>5. CASE Grow(Capture) \/ CaptureRetries \/ CapturePublishes
    BY <1>0, <1>5, CopyEndedHold DEF Grow, CaptureRetries, CapturePublishes
  <1>6. CASE CaptureReleases
    BY <1>0, <1>6, ReleasedHold DEF CaptureReleases, Moves
  <1>7. CASE CaptureEnds
    <2>1. Go(Capture, "none") /\ stage[Capture] = "ending" /\ UNCHANGED cameraVars
      BY <1>7 DEF CaptureEnds, Moves, At
    <2>. QED BY <1>0, <2>1, AsideHold DEF Stages, Holding
  <1>. QED BY <1>1, <1>2, <1>3, <1>4, <1>5, <1>6, <1>7 DEF CaptureStep

LEMMA UsersNextHold ==
  ASSUME HoldInv, [UsersNext]_vars
  PROVE  HoldInv'
  <1>1. CASE FrameArrives
    <2>1. UNCHANGED <<holds, stage>>
      BY <1>1 DEF FrameArrives, GetNewTrans, TransFinished, TransForgotten, usersVars
    <2>. QED BY <2>1 DEF HoldInv, HoldsByStage
  <1>2. CASE Slider
    <2>1. UNCHANGED <<holds, stage>>
      BY <1>2 DEF Slider, Duty, DutyTest, DutyApply, usersVars
    <2>. QED BY <2>1 DEF HoldInv, HoldsByStage
  <1>3. CASE HandlerStep
    <2>1. CASE Claim \/ HandlerFails
      <3>1. UNCHANGED <<holds, stage>>
        BY <2>1 DEF Claim, HandlerFails, cameraVars
      <3>. QED BY <3>1 DEF HoldInv, HoldsByStage
    <2>2. ASSUME NEW t \in Streams, CreateStream(t) PROVE HoldInv'
      <3>1. Go(t, "start") /\ stage[t] = "none" /\ UNCHANGED cameraVars /\ t \in Tasks
        BY <2>2, UsersAssumption DEF CreateStream, At
      <3>. QED BY <3>1, AsideHold DEF Stages, Holding
    <2>. QED BY <1>3, <2>1, <2>2 DEF HandlerStep
  <1>4. CASE UploadStart
    <2>1. /\ Go(Capture, "start") /\ stage[Capture] = "none" /\ UNCHANGED cameraVars
          /\ Capture \in Tasks
      BY <1>4, UsersAssumption DEF UploadStart, At
    <2>. QED BY <2>1, AsideHold DEF Stages, Holding
  <1>5. CASE UploadStop \/ UNCHANGED vars
    <2>1. UNCHANGED <<holds, stage>>
      BY <1>5 DEF UploadStop, vars, cameraVars, usersVars
    <2>. QED BY <2>1 DEF HoldInv, HoldsByStage
  <1>6. CASE (\E t \in Streams : StreamStep(t)) \/ CaptureStep
    BY <1>6, StreamStepHold, CaptureStepHold
  <1>. QED BY <1>1, <1>2, <1>3, <1>4, <1>5, <1>6 DEF UsersNext

(***************************************************************************)
(* A task holds the camera exactly between acquire and release: none that  *)
(* has ended, by whichever path of stream_task or capture_task, keeps it.  *)
(***************************************************************************)
THEOREM EndedTasksHoldNothing == UsersSpec => []HoldsByStage
  <1>1. HoldInv => HoldsByStage
    BY DEF HoldInv
  <1>. QED BY <1>1, HoldInitInv, UsersNextHold, PTL DEF UsersSpec

-----------------------------------------------------------------------------
(***************************************************************************)
(* The slot of the one stream client.                                      *)
(***************************************************************************)
SlotInv ==
    /\ stage \in [Tasks -> Stages]
    /\ handler \in {"idle", "create"}
    /\ ~slot => handler = "idle" /\ Owners = {}
    /\ slot /\ handler = "create" => Owners = {}
    /\ slot /\ handler = "idle" => \E t \in Streams : Owners = {t}

LEMMA SlotInitInv == UsersInit => SlotInv
  <1>. SUFFICES ASSUME UsersInit PROVE SlotInv
    OBVIOUS
  <1>1. stage \in [Tasks -> Stages] /\ Owners = {}
    BY UsersAssumption DEF UsersInit, Owners, At, Stages
  <1>2. ~slot /\ handler = "idle"
    BY DEF UsersInit
  <1>. QED BY <1>1, <1>2 DEF SlotInv

\* The tasks may move, but none comes to life or ends.
LEMMA SameOwners ==
  ASSUME SlotInv, Owners' = Owners, UNCHANGED <<slot, handler>>, stage' \in [Tasks -> Stages]
  PROVE  SlotInv'
  BY DEF SlotInv

LEMMA StreamMoves ==
  ASSUME SlotInv, NEW t \in Streams, NEW s \in Stages \ {"none"}, Moves(t, s),
         stage[t] # "none"
  PROVE  SlotInv'
  <1>1. t \in Tasks
    BY UsersAssumption
  <1>2. Owners' = Owners
    BY <1>1 DEF SlotInv, Owners, Moves, Go, At
  <1>3. stage' \in [Tasks -> Stages] /\ UNCHANGED <<slot, handler>>
    BY <1>1 DEF SlotInv, Moves, Go
  <1>. QED BY <1>2, <1>3, SameOwners

LEMMA StreamStepSlot ==
  ASSUME SlotInv, NEW t \in Streams, StreamStep(t)
  PROVE  SlotInv'
  <1>1. CASE CopyRuns(t)
    <2>1. UNCHANGED <<slot, handler, stage>>
      BY <1>1 DEF CopyRuns, usersVars
    <2>. QED BY <2>1, SameOwners DEF SlotInv, Owners, At
  <1>2. CASE FreeSlot(t)
    <2>1. t \in Tasks
      BY UsersAssumption
    <2>2. t \in Owners
      BY <1>2 DEF FreeSlot, Owners, At
    <2>3. slot /\ handler = "idle" /\ Owners = {t}
      BY <2>2 DEF SlotInv
    <2>4. Owners' = {}
      BY <1>2, <2>1, <2>3 DEF SlotInv, FreeSlot, Owners, At, Go
    <2>5. ~slot' /\ handler' = "idle" /\ stage' \in [Tasks -> Stages]
      BY <1>2, <2>1, <2>3 DEF SlotInv, FreeSlot, Go, Stages
    <2>. QED BY <2>4, <2>5 DEF SlotInv
  <1>3. CASE ~CopyRuns(t) /\ ~FreeSlot(t)
    <2>1. stage[t] # "none" /\ \E s \in Stages \ {"none"} : Moves(t, s)
      BY <1>3 DEF StreamStep, NoSocket, StreamAcquires, Headers, StreamCopies, CopyCalled,
                  Grow, StreamSkips, StreamSends, StreamGivesUp, StreamReleases, At, Stages
    <2>. QED BY <2>1, StreamMoves
  <1>. QED BY <1>1, <1>2, <1>3

\* What the cloud and the capture task do is none of the slot's business.
LEMMA CaptureSlot ==
  ASSUME SlotInv, CaptureStep \/ UploadStart \/ UploadStop
  PROVE  SlotInv'
  <1>0. Capture \notin Streams /\ Capture \in Tasks
    BY UsersAssumption
  <1>1. /\ UNCHANGED <<slot, handler>>
        /\ UNCHANGED stage \/ \E s \in Stages : Go(Capture, s)
    BY DEF UploadStart, UploadStop, CaptureStep, CaptureAborts, CaptureAcquires,
           CaptureCopies, CopyCalled, CopyRuns, usersVars, Grow, CaptureRetries,
           CapturePublishes, CaptureReleases, CaptureEnds, Moves, Stages
  <1>2. stage' \in [Tasks -> Stages] /\ \A t \in Streams : stage'[t] = stage[t]
    <2>1. CASE UNCHANGED stage
      BY <2>1 DEF SlotInv
    <2>2. ASSUME NEW s \in Stages, Go(Capture, s)
          PROVE  stage' \in [Tasks -> Stages] /\ \A t \in Streams : stage'[t] = stage[t]
      BY <1>0, <2>2, UsersAssumption DEF SlotInv, Go
    <2>. QED BY <1>1, <2>1, <2>2
  <1>3. Owners' = Owners
    BY <1>2 DEF Owners, At
  <1>. QED BY <1>1, <1>2, <1>3, SameOwners

LEMMA HandlerSlot ==
  ASSUME SlotInv, HandlerStep
  PROVE  SlotInv'
  <1>1. CASE Claim \/ HandlerFails
    <2>1. Owners' = Owners /\ stage' = stage
      BY <1>1 DEF Claim, HandlerFails, Owners, At
    <2>2. Owners = {} /\ handler' \in {"idle", "create"}
      BY <1>1 DEF SlotInv, Claim, HandlerFails
    <2>3. (handler' = "create" /\ slot') \/ (handler' = "idle" /\ ~slot')
      BY <1>1 DEF Claim, HandlerFails
    <2>. QED BY <2>1, <2>2, <2>3 DEF SlotInv
  <1>2. ASSUME NEW t \in Streams, CreateStream(t) PROVE SlotInv'
    <2>1. t \in Tasks
      BY UsersAssumption
    <2>2. slot /\ Owners = {} /\ slot' = slot /\ handler' = "idle"
      BY <1>2 DEF SlotInv, CreateStream
    <2>3. stage' \in [Tasks -> Stages] /\ stage' = [stage EXCEPT ![t] = "start"]
      BY <1>2, <2>1 DEF SlotInv, CreateStream, Go, Stages
    <2>4. Owners' = {t}
      BY <2>1, <2>2, <2>3 DEF SlotInv, Owners, At
    <2>. QED BY <2>2, <2>3, <2>4 DEF SlotInv
  <1>. QED BY <1>1, <1>2 DEF HandlerStep

LEMMA UsersNextSlot ==
  ASSUME SlotInv, [UsersNext]_vars
  PROVE  SlotInv'
  <1>1. CASE FrameArrives \/ Slider \/ UNCHANGED vars
    <2>1. UNCHANGED <<slot, handler, stage>>
      BY <1>1 DEF FrameArrives, Slider, vars, usersVars
    <2>. QED BY <2>1, SameOwners DEF SlotInv, Owners, At
  <1>. QED BY <1>1, HandlerSlot, CaptureSlot, StreamStepSlot DEF UsersNext

(***************************************************************************)
(* s_stream_client_active is right on every error path of stream_handler   *)
(* and stream_task: one client while it is set, none while it is not.      *)
(***************************************************************************)
THEOREM OneStreamClient == UsersSpec => []SlotHasOneOwner
  <1>1. SlotInv => SlotHasOneOwner
    <2>. SUFFICES ASSUME SlotInv PROVE SlotHasOneOwner
      OBVIOUS
    <2>1. CASE Owners = {}
      <3>1. Cardinality(Owners) = 0
        BY <2>1, FS_EmptySet
      <3>2. slot <=> handler # "idle"
        BY <2>1 DEF SlotInv
      <3>. QED BY <3>1, <3>2 DEF SlotHasOneOwner
    <2>2. CASE Owners # {}
      <3>1. slot /\ handler = "idle" /\ \E t \in Streams : Owners = {t}
        BY <2>2 DEF SlotInv
      <3>2. Cardinality(Owners) = 1
        BY <3>1, FS_Singleton
      <3>. QED BY <3>1, <3>2 DEF SlotHasOneOwner
    <2>. QED BY <2>1, <2>2
  <1>. QED BY <1>1, SlotInitInv, UsersNextSlot, PTL DEF UsersSpec
=============================================================================
