----------------------------- MODULE CameraUsers -----------------------------
(***************************************************************************)
(* The two kinds of tasks that share the camera: the stream tasks that     *)
(* video_stream.c creates for one HTTP client at a time, and the one       *)
(* capture task of cloud_upload.c, started and stopped by cloud commands.  *)
(* The HTTP server's task serves one request after the other; the cloud's  *)
(* commands are handled by the MQTT task alone.                            *)
(***************************************************************************)
EXTENDS Camera

CONSTANTS
    Streams,     \* the stream tasks that may exist at one time
    Capture      \* the capture task

ASSUME UsersAssumption == Capture \notin Streams /\ Tasks = Streams \cup {Capture}

VARIABLES
    slot,        \* s_stream_client_active
    handler,     \* the server task in stream_handler: "idle", "create"
    stage,       \* where each task is
    wanted       \* s_running of cloud_upload.c

usersVars == <<slot, handler, stage, wanted>>
vars == <<cameraVars, usersVars>>

At(t, s) == stage[t] = s
Go(t, s) == stage' = [stage EXCEPT ![t] = s]

UsersInit ==
    /\ CameraInit
    /\ slot = FALSE /\ handler = "idle"
    /\ stage = [t \in Tasks |-> "none"]
    /\ wanted = FALSE

-----------------------------------------------------------------------------
(* stream_handler, in the server's task *)

\* stream_client_claim under s_client_mutex; a second client gets a 503.
Claim ==
    /\ handler = "idle" /\ ~slot
    /\ slot' = TRUE /\ handler' = "create"
    /\ UNCHANGED <<cameraVars, stage, wanted>>

\* Mutant: the slot stays taken when the task cannot be created.
HandlerFailsLeaks ==
    /\ handler = "create"
    /\ handler' = "idle"
    /\ UNCHANGED <<cameraVars, slot, stage, wanted>>

\* httpd_req_async_handler_begin or xTaskCreate fails.
HandlerFails ==
    /\ handler = "create"
    /\ slot' = FALSE /\ handler' = "idle"
    /\ UNCHANGED <<cameraVars, stage, wanted>>

CreateStream(t) ==
    /\ handler = "create" /\ t \in Streams /\ At(t, "none")
    /\ handler' = "idle"
    /\ Go(t, "start")
    /\ UNCHANGED <<cameraVars, slot, wanted>>

-----------------------------------------------------------------------------
(* What both tasks do with the camera *)

Moves(t, s) == Go(t, s) /\ UNCHANGED <<slot, handler, wanted>>

\* The copy call itself, with the task's own buffer as destination.
CopyRuns(t) == At(t, "copying") /\ CopyStep(t) /\ UNCHANGED usersVars

CopyCalled(t) == CopyBegins(t) /\ Moves(t, "copying")

\* ESP_ERR_INVALID_SIZE: a new buffer for the size that was reported.
Grow(t) == At(t, "copying") /\ pc[t] = "too_small" /\ CopyEnds(t) /\ Moves(t, "loop")

-----------------------------------------------------------------------------
(* stream_task *)

\* httpd_req_to_sockfd fails: nothing to release but the slot.
NoSocket(t) == At(t, "start") /\ Moves(t, "free") /\ UNCHANGED cameraVars

StreamAcquires(t) ==
    /\ At(t, "start")
    /\ \/ AcquireShared(t) /\ Moves(t, "headers")
       \/ AcquireStarts(t) /\ Moves(t, "headers")
       \/ NoCamera(t) /\ Moves(t, "free")

\* httpd_resp_set_type
Headers(t) ==
    /\ At(t, "headers")
    /\ Moves(t, "loop") \/ Moves(t, "cleanup")
    /\ UNCHANGED cameraVars

StreamCopies(t) == At(t, "loop") /\ CopyCalled(t)

\* No frame, or the one sent last (frame_id = last_frame_id): 5 ms later again.
StreamSkips(t) ==
    /\ At(t, "copying") /\ pc[t] \in {"not_found", "ok"}
    /\ CopyEnds(t) /\ Moves(t, "loop")

\* A new frame goes to the client in three chunks; one of them may fail.
StreamSends(t) ==
    /\ At(t, "copying") /\ pc[t] = "ok"
    /\ CopyEnds(t)
    /\ Moves(t, "loop") \/ Moves(t, "cleanup")

\* Mutant: the error path jumps past the release of the camera.
GivesUpLeaks(t) ==
    /\ At(t, "copying") /\ pc[t] \in {"too_small", "not_running"}
    /\ CopyEnds(t) /\ Moves(t, "free")

\* No memory for a larger copy, or the camera is not running.
StreamGivesUp(t) ==
    /\ At(t, "copying") /\ pc[t] \in {"too_small", "not_running"}
    /\ CopyEnds(t) /\ Moves(t, "cleanup")

\* cleanup: the copy buffer and the camera, then the slot; what is left to do,
\* closing the session and completing the request, touches nothing shared.
StreamReleases(t) ==
    /\ At(t, "cleanup") /\ Release(t)
    /\ Moves(t, "free")

FreeSlot(t) ==
    /\ At(t, "free")
    /\ slot' = FALSE
    /\ Go(t, "none")
    /\ UNCHANGED <<cameraVars, handler, wanted>>

-----------------------------------------------------------------------------
(* cloud_upload_start and cloud_upload_stop, in the MQTT task.  A start that *)
(* finds s_capture_task set, even of a task on its way out, does nothing.    *)

UploadStart ==
    /\ At(Capture, "none")
    /\ wanted' = TRUE
    /\ Go(Capture, "start")
    /\ UNCHANGED <<cameraVars, slot, handler>>

UploadStop ==
    /\ ~At(Capture, "none")
    /\ wanted' = FALSE
    /\ UNCHANGED <<cameraVars, slot, handler, stage>>

-----------------------------------------------------------------------------
(* capture_task *)

\* The device is not bound, or there is no camera: the task gives up.
CaptureAborts ==
    /\ At(Capture, "start")
    /\ UNCHANGED cameraVars \/ NoCamera(Capture)
    /\ wanted' = FALSE
    /\ Go(Capture, "none")
    /\ UNCHANGED <<slot, handler>>

\* The camera; a first buffer that cannot be had is made up for by Grow.
CaptureAcquires ==
    /\ At(Capture, "start")
    /\ Acquire(Capture)
    /\ Go(Capture, "loop")
    /\ UNCHANGED <<slot, handler, wanted>>

\* Mutant: the loop does not look at s_running.
CaptureCopiesOn == At(Capture, "loop") /\ CopyCalled(Capture)

CaptureCopies == At(Capture, "loop") /\ wanted /\ CopyCalled(Capture)

\* Nothing to send, no memory or not running: a delay and again.
CaptureRetries ==
    /\ At(Capture, "copying") /\ pc[Capture] \in {"not_found", "too_small", "not_running"}
    /\ CopyEnds(Capture) /\ Moves(Capture, "loop")

\* Encrypted and published, then five seconds in slices that watch s_running.
CapturePublishes ==
    /\ At(Capture, "copying") /\ pc[Capture] = "ok"
    /\ CopyEnds(Capture) /\ Moves(Capture, "loop")

\* The loop ends: the retained image is cleared and the camera given back.
CaptureReleases ==
    /\ At(Capture, "loop") /\ ~wanted
    /\ Release(Capture) /\ Moves(Capture, "ending")

CaptureEnds == At(Capture, "ending") /\ Moves(Capture, "none") /\ UNCHANGED cameraVars

-----------------------------------------------------------------------------
FrameArrives ==
    \/ GetNewTrans /\ UNCHANGED usersVars
    \/ TransForgotten /\ UNCHANGED usersVars
    \/ (\E empty \in BOOLEAN : TransFinished(empty)) /\ UNCHANGED usersVars

Slider == Duty /\ UNCHANGED usersVars

StreamStep(t) ==
    \/ NoSocket(t) \/ StreamAcquires(t) \/ Headers(t)
    \/ StreamCopies(t) \/ CopyRuns(t) \/ Grow(t) \/ StreamSkips(t)
    \/ StreamSends(t) \/ StreamGivesUp(t) \/ StreamReleases(t)
    \/ FreeSlot(t)

CaptureStep ==
    \/ CaptureAborts \/ CaptureAcquires \/ CaptureCopies \/ CopyRuns(Capture)
    \/ Grow(Capture) \/ CaptureRetries \/ CapturePublishes
    \/ CaptureReleases \/ CaptureEnds

HandlerStep ==
    \/ Claim \/ HandlerFails
    \/ \E t \in Streams : CreateStream(t)

UsersNext ==
    \/ FrameArrives \/ Slider \/ HandlerStep
    \/ UploadStart \/ UploadStop
    \/ \E t \in Streams : StreamStep(t)
    \/ CaptureStep

\* The scheduler runs a task that can run; nothing is assumed of the camera's
\* frames, of the clients or of the cloud.
UsersSpec == UsersInit /\ [][UsersNext]_vars /\ WF_vars(CaptureStep)

-----------------------------------------------------------------------------
(* Properties *)

Owners == {t \in Streams : ~At(t, "none")}

\* video_stream.c admits one client: while the slot is taken exactly one task
\* or the handler on the way to creating it owes its release, and nobody does
\* while it is free, on whichever error path a client left.
SlotHasOneOwner ==
    Cardinality(Owners) + (IF handler = "idle" THEN 0 ELSE 1) = IF slot THEN 1 ELSE 0

\* A task that has come to its end has given the camera back, on whichever
\* path it left, and a running one that copies frames holds it.
HoldsByStage ==
    \A t \in Tasks :
        holds[t] <=> stage[t] \in {"headers", "loop", "copying", "cleanup"}

\* The two tasks keep to the protocol that Camera asks of its users.
KeepsCameraProtocol == CameraSpec

\* cloud_upload_stop is obeyed: the capture task leaves the camera, even when
\* no frame is usable, no memory is left or a start comes in between.
StopEndsCapture == (~wanted /\ ~At(Capture, "none")) ~> At(Capture, "none")
=============================================================================
