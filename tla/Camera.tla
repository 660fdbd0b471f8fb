------------------------------- MODULE Camera -------------------------------
(***************************************************************************)
(* The shared camera of ov2640.c with the infrared light of ir_light.c.    *)
(* Tasks take the camera with acquire, copy frames while they hold it and  *)
(* give it back with release; the first acquire starts sensor, controller  *)
(* and light, the last release stops them.  acquire and release run under  *)
(* s_camera_mutex from end to end and are one step each.  A copy runs      *)
(* beside the camera interrupts, which fill two buffers in turn: it takes  *)
(* a snapshot of the frame state, scans and copies the buffer outside the  *)
(* critical section and looks again whether the state is still the same.   *)
(* s_frame_state_version only grows, so its value matters only in one      *)
(* respect, which `fresh' keeps: is it still the one of the snapshot?      *)
(* Any call of a driver may fail.  stop and the rollback of a failed start *)
(* go on after it, as if the sensor, the controller or the light had been  *)
(* switched off: `failedOff' has what stayed as it was.                    *)
(***************************************************************************)
EXTENDS Integers, FiniteSets

CONSTANT Tasks

ASSUME TasksAssumption == IsFiniteSet(Tasks)

VARIABLES
    ready,        \* s_ready: ov2640_camera_init came to its end
    users,        \* s_camera_users
    running,      \* s_running
    buffers,      \* the two frame buffers are allocated
    on,           \* what is switched on: the sensor's stream, the DVP
                  \* controller, the light (s_on of ir_light.c)
    failedOff,    \* history: of those, what the last call to switch it off
                  \* left as it was
    lit,          \* the duty of the light's PWM channel is above 0
    slider,       \* ir_light_set_duty_percent: "idle", or "apply" past its test
    nextIdx,      \* s_next_idx
    writeIdx,     \* s_write_idx
    latestIdx,    \* s_latest_idx
    latestEmpty,  \* s_latest_size = 0
    filling,      \* the buffer the DMA fills (driver)
    ended,        \* a filled buffer whose callback is still to come (driver)
    holds,        \* a task's acquire succeeded and its release is to come
    pc,           \* where a task is in ov2640_camera_copy_jpeg_frame
    attempt,      \* its attempt
    src,          \* its latest_idx
    fresh,        \* version_before = s_frame_state_version
    torn          \* history: the source was written or freed under the copy

powerVars == <<ready, users, running, buffers, on, failedOff, lit, slider>>
frameVars == <<nextIdx, writeIdx, latestIdx, latestEmpty, filling, ended>>
callVars  == <<pc, attempt, src, fresh, torn>>
cameraVars == <<powerVars, frameVars, callVars, holds>>

None == -1
Buffer == {0, 1}
Parts == {"sensor", "controller", "light"}

Outcomes == {"ok", "not_found", "too_small", "not_running"}
InCall == {"snapshot", "read", "check"}
Reading == {"read", "check"}

Holders == {t \in Tasks : holds[t]}

-----------------------------------------------------------------------------
\* Frames come while the sensor streams into the started controller.
Streaming == {"sensor", "controller"} \subseteq on

\* Switching parts off, of which the stuck ones stay as they were.
SwitchOff(before, parts, stuck) ==
    /\ on' = before \ (parts \ stuck)
    /\ failedOff' = (failedOff \ parts) \cup stuck

\* The reset of the frame state in start and in cam_free_frame_buffers; both
\* bump the version.
ResetFrames ==
    /\ nextIdx' = 0
    /\ writeIdx' = None
    /\ latestIdx' = None
    /\ latestEmpty' = TRUE
    /\ fresh' = [t \in Tasks |-> FALSE]

\* The controller starts afresh, or is stopped: no buffer is with the driver.
NoTransaction == filling' = None /\ ended' = None

\* A task that reads buffer b while the DMA writes it or the heap takes it back.
TornBy(b) == [t \in Tasks |-> torn[t] \/ (pc[t] \in Reading /\ src[t] \in b)]

CameraInit ==
    /\ ready \in BOOLEAN
    /\ users = 0 /\ running = FALSE /\ buffers = FALSE
    /\ on = {} /\ failedOff = {} /\ lit = FALSE /\ slider = "idle"
    /\ nextIdx = 0 /\ writeIdx = None /\ latestIdx = None
    /\ latestEmpty = TRUE /\ filling = None /\ ended = None
    /\ holds = [t \in Tasks |-> FALSE]
    /\ pc = [t \in Tasks |-> "out"]
    /\ attempt = [t \in Tasks |-> 0]
    /\ src = [t \in Tasks |-> None]
    /\ fresh = [t \in Tasks |-> FALSE]
    /\ torn = [t \in Tasks |-> FALSE]

-----------------------------------------------------------------------------
(* ov2640_camera_acquire *)

\* Mutant: the further user is not counted.
AcquireUncounted(t) ==
    /\ ~holds[t] /\ users > 0
    /\ holds' = [holds EXCEPT ![t] = TRUE]
    /\ UNCHANGED <<ready, users, running, buffers, on, failedOff, lit, slider,
                   frameVars, callVars>>

\* Somebody uses the camera already: one more user, nothing to start.
AcquireShared(t) ==
    /\ ~holds[t] /\ users > 0
    /\ users' = users + 1
    /\ holds' = [holds EXCEPT ![t] = TRUE]
    /\ UNCHANGED <<ready, running, buffers, on, failedOff, lit, slider,
                   frameVars, callVars>>

\* ov2640_camera_start: buffers, light, sensor, controller.
AcquireStarts(t) ==
    /\ ~holds[t] /\ users = 0 /\ ready
    /\ buffers' = TRUE
    /\ on' = Parts /\ failedOff' = {} /\ lit' = TRUE
    /\ running' = TRUE
    /\ ResetFrames /\ NoTransaction
    /\ users' = 1
    /\ holds' = [holds EXCEPT ![t] = TRUE]
    /\ UNCHANGED <<ready, slider, pc, attempt, src, torn>>

\* No camera, or no memory for the buffers: nothing has been touched.
AcquireRefused(t) ==
    /\ ~holds[t] /\ users = 0
    /\ \/ ~ready
       \/ ~buffers
    /\ UNCHANGED cameraVars

\* A later step of start fails, and start_failed takes back the steps done, the
\* light last and in any case; it does not look at the results.  The buffers
\* stay, and so does a controller that an earlier stop could not stop.
AcquireFails(t) ==
    /\ ~holds[t] /\ users = 0 /\ ready
    /\ buffers' = TRUE
    /\ \E started \in {{}, {"light"}, {"light", "sensor"}} :
         \E stuck \in SUBSET (started \cup {"light"}) :
           /\ SwitchOff(on \cup started, started \cup {"light"}, stuck)
           /\ lit' = ("light" \in stuck /\ (lit \/ "light" \in started))
    /\ ResetFrames
    /\ UNCHANGED <<ready, users, running, slider, filling, ended, pc, attempt,
                   src, torn, holds>>

(* ov2640_camera_release *)

\* Mutant: a release frees the buffers although others still copy.
ReleaseFreesShared(t) ==
    /\ holds[t] /\ pc[t] = "out" /\ users > 1
    /\ users' = users - 1
    /\ buffers' = FALSE
    /\ holds' = [holds EXCEPT ![t] = FALSE]
    /\ UNCHANGED <<ready, running, on, failedOff, lit, slider, frameVars, callVars>>

ReleaseShared(t) ==
    /\ holds[t] /\ pc[t] = "out" /\ users > 1
    /\ users' = users - 1
    /\ holds' = [holds EXCEPT ![t] = FALSE]
    /\ UNCHANGED <<ready, running, buffers, on, failedOff, lit, slider,
                   frameVars, callVars>>

\* ov2640_camera_stop: controller and sensor, the light, then the buffers.  A
\* step that fails is recorded in the result, which no caller looks at, and the
\* next ones are taken all the same.
ReleaseStops(t) ==
    /\ holds[t] /\ pc[t] = "out" /\ users = 1
    /\ users' = 0
    /\ \E stuck \in SUBSET Parts :
         /\ SwitchOff(on, Parts, stuck)
         /\ lit' = (lit /\ "light" \in stuck)
         /\ IF "controller" \in stuck THEN UNCHANGED <<filling, ended>> ELSE NoTransaction
    /\ running' = FALSE
    /\ buffers' = FALSE
    /\ ResetFrames
    /\ torn' = TornBy(Buffer)
    /\ holds' = [holds EXCEPT ![t] = FALSE]
    /\ UNCHANGED <<ready, slider, pc, attempt, src>>

Acquire(t) == AcquireShared(t) \/ AcquireStarts(t)
NoCamera(t) == AcquireRefused(t) \/ AcquireFails(t)
Release(t) == ReleaseShared(t) \/ ReleaseStops(t)

-----------------------------------------------------------------------------
(* The interrupt callbacks.  At the end of a frame the driver asks for the   *)
(* next buffer and reports the filled one, in either order.                  *)

\* cam_get_new_trans: the DMA starts to write the buffer it is given.
GetNewTrans ==
    /\ Streaming /\ ended = None
    /\ nextIdx' = 1 - nextIdx
    /\ writeIdx' = nextIdx
    /\ filling' = nextIdx
    /\ ended' = filling
    /\ fresh' = [t \in Tasks |-> FALSE]
    /\ torn' = TornBy({nextIdx})
    /\ UNCHANGED <<powerVars, latestIdx, latestEmpty, pc, attempt, src, holds>>

\* cam_trans_finished: the buffer is the latest frame from now on.
TransFinished(empty) ==
    /\ Streaming /\ buffers
    /\ \/ ended # None /\ latestIdx' = ended /\ ended' = None /\ UNCHANGED filling
       \/ ended = None /\ filling # None /\ latestIdx' = filling /\ filling' = None
          /\ UNCHANGED ended
    /\ latestEmpty' = empty
    /\ fresh' = [t \in Tasks |-> FALSE]
    /\ UNCHANGED <<powerVars, nextIdx, writeIdx, pc, attempt, src, torn, holds>>

\* The same when the buffer was freed under a controller that did not stop: it
\* is none of s_buf, and nothing is noted.
TransForgotten ==
    /\ Streaming /\ "controller" \in failedOff
    /\ \/ ended # None /\ ended' = None /\ UNCHANGED filling
       \/ ended = None /\ filling # None /\ filling' = None /\ UNCHANGED ended
    /\ UNCHANGED <<powerVars, nextIdx, writeIdx, latestIdx, latestEmpty, callVars,
                   holds>>

-----------------------------------------------------------------------------
(* ov2640_camera_copy_jpeg_frame *)

Outcome(t, o) ==
    /\ pc' = [pc EXCEPT ![t] = o]
    /\ UNCHANGED <<powerVars, frameVars, holds, attempt, src, fresh, torn>>

\* The call; the caller holds the camera.
CopyBegins(t) ==
    /\ holds[t] /\ pc[t] = "out"
    /\ pc' = [pc EXCEPT ![t] = IF running THEN "snapshot" ELSE "not_running"]
    /\ attempt' = [attempt EXCEPT ![t] = 0]
    /\ UNCHANGED <<powerVars, frameVars, holds, src, fresh, torn>>

\* The first critical section, and the return without a usable frame.
Snapshot(t) ==
    /\ pc[t] = "snapshot"
    /\ IF latestIdx = None \/ latestEmpty \/ latestIdx = writeIdx
       THEN Outcome(t, "not_found")
       ELSE /\ pc' = [pc EXCEPT ![t] = "read"]
            /\ src' = [src EXCEPT ![t] = latestIdx]
            /\ fresh' = [fresh EXCEPT ![t] = TRUE]
            /\ torn' = [torn EXCEPT ![t] = FALSE]
            /\ UNCHANGED <<powerVars, frameVars, holds, attempt>>

\* cam_find_jpeg_size, the destination's capacity and memcpy: the bytes hold no
\* JPEG, one too large for the caller, or one that is copied.
Read(t) ==
    /\ pc[t] = "read"
    /\ \E o \in {"not_found", "too_small", "check"} : Outcome(t, o)

\* Mutant: the version is not compared, only the buffer indices.
UnchangedByIndex(t) == latestIdx = src[t] /\ writeIdx # src[t]

\* The test after the copy; latest_size cannot change under an equal version.
Unchanged(t) ==
    /\ fresh[t]
    /\ latestIdx = src[t]
    /\ writeIdx # src[t]

\* The second critical section: the frame is good, or another attempt.
Check(t) ==
    /\ pc[t] = "check"
    /\ IF Unchanged(t) THEN Outcome(t, "ok")
       ELSE IF attempt[t] = 2 THEN Outcome(t, "not_found")
       ELSE /\ pc' = [pc EXCEPT ![t] = "snapshot"]
            /\ attempt' = [attempt EXCEPT ![t] = @ + 1]
            /\ UNCHANGED <<powerVars, frameVars, holds, src, fresh, torn>>

\* The caller has the result; the call's locals are gone.
CopyEnds(t) ==
    /\ pc[t] \in Outcomes
    /\ pc' = [pc EXCEPT ![t] = "out"]
    /\ attempt' = [attempt EXCEPT ![t] = 0]
    /\ src' = [src EXCEPT ![t] = None]
    /\ fresh' = [fresh EXCEPT ![t] = FALSE]
    /\ torn' = [torn EXCEPT ![t] = FALSE]
    /\ UNCHANGED <<powerVars, frameVars, holds>>

CopyStep(t) == Snapshot(t) \/ Read(t) \/ Check(t)

-----------------------------------------------------------------------------
(* ir_light_set_duty_percent, called by the slider of the settings page: the *)
(* test of s_on and the write of the duty are two steps.                     *)

DutyTest ==
    /\ slider = "idle" /\ ready /\ "light" \in on
    /\ slider' = "apply"
    /\ UNCHANGED <<ready, users, running, buffers, on, failedOff, lit,
                   frameVars, callVars, holds>>

DutyApply ==
    /\ slider = "apply"
    /\ lit' \in {lit, TRUE}
    /\ slider' = "idle"
    /\ UNCHANGED <<ready, users, running, buffers, on, failedOff,
                   frameVars, callVars, holds>>

Interrupt ==
    GetNewTrans \/ TransForgotten \/ \E empty \in BOOLEAN : TransFinished(empty)

Duty == DutyTest \/ DutyApply

TaskStep(t) ==
    \/ Acquire(t) \/ NoCamera(t) \/ Release(t)
    \/ CopyBegins(t) \/ CopyStep(t) \/ CopyEnds(t)

CameraNext == Interrupt \/ Duty \/ \E t \in Tasks : TaskStep(t)

CameraSpec == CameraInit /\ [][CameraNext]_cameraVars

-----------------------------------------------------------------------------
(* Properties *)

CameraTypeOK ==
    /\ ready \in BOOLEAN /\ users \in Nat /\ running \in BOOLEAN
    /\ buffers \in BOOLEAN /\ on \subseteq Parts /\ failedOff \subseteq Parts
    /\ lit \in BOOLEAN /\ slider \in {"idle", "apply"}
    /\ nextIdx \in Buffer /\ writeIdx \in Buffer \cup {None}
    /\ latestIdx \in Buffer \cup {None} /\ latestEmpty \in BOOLEAN
    /\ filling \in Buffer \cup {None} /\ ended \in Buffer \cup {None}
    /\ holds \in [Tasks -> BOOLEAN]
    /\ pc \in [Tasks -> {"out"} \cup InCall \cup Outcomes]
    /\ attempt \in [Tasks -> 0 .. 2]
    /\ src \in [Tasks -> Buffer \cup {None}]
    /\ fresh \in [Tasks -> BOOLEAN] /\ torn \in [Tasks -> BOOLEAN]

\* A copy that reports ESP_OK was not written over while it was made, although
\* the interrupts may have gone round both buffers between its two looks.
NoTornFrame == \A t \in Tasks : pc[t] = "ok" => ~torn[t]

\* The count is the number of tasks between acquire and release.  With a user
\* sensor, controller and light are on: nobody's camera is stopped by somebody
\* else's release.  With none they are off, but for what the last call to switch
\* it off, in a stop or in the rollback of a failed start, left as it was.
PowerFollowsUsers ==
    /\ users = Cardinality(Holders)
    /\ running <=> users > 0
    /\ running => buffers /\ on = Parts
    /\ ~running => on \subseteq failedOff

\* No task is inside a copy on buffers that were freed, and no DMA runs on them
\* unless esp_cam_ctlr_stop failed before they were freed.
BuffersWhenUsed ==
    /\ \A t \in Tasks : pc[t] \in InCall => buffers /\ holds[t]
    /\ filling # None => buffers \/ "controller" \in failedOff
=============================================================================
