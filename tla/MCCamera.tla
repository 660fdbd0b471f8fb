------------------------------ MODULE MCCamera ------------------------------
(* Two stream tasks and the capture task at one camera.                    *)
EXTENDS CameraUsers

CONSTANTS s1, s2, c

MCStreams == {s1, s2}
MCTasks == {s1, s2, c}
=============================================================================
