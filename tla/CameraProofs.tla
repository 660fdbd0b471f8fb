----------------------------- MODULE CameraProofs -----------------------------
(***************************************************************************)
(* Proofs about the shared camera, for every finite set of tasks that keep *)
(* to acquire, copy and release.                                           *)
(***************************************************************************)
EXTENDS Camera, FiniteSetTheorems, TLAPS

\* While a task reads, an unchanged version means an untouched source; and a
\* task whose call goes on holds the camera.
FreshIsWhole ==
    \A t \in Tasks : pc[t] \in Reading /\ fresh[t] => ~torn[t]

CameraInv ==
    /\ CameraTypeOK
    /\ NoTornFrame
    /\ FreshIsWhole
    /\ PowerFollowsUsers
    /\ BuffersWhenUsed

(***************************************************************************)
(* Counting the holders.                                                   *)
(***************************************************************************)
LEMMA HoldersFinite == IsFiniteSet(Holders) /\ Cardinality(Holders) \in Nat
  <1>1. Holders \in SUBSET Tasks
    BY DEF Holders
  <1>2. IsFiniteSet(Holders)
    BY <1>1, TasksAssumption, FS_Subset
  <1>. QED BY <1>2, FS_CardinalityType

LEMMA HolderAdded ==
  ASSUME CameraTypeOK, NEW t \in Tasks, ~holds[t],
         holds' = [holds EXCEPT ![t] = TRUE]
  PROVE  Cardinality(Holders') = Cardinality(Holders) + 1
  <1>1. Holders' = Holders \cup {t}
    BY DEF CameraTypeOK, Holders
  <1>2. t \notin Holders
    BY DEF Holders
  <1>3. Cardinality(Holders \cup {t}) = Cardinality(Holders) + 1
    BY <1>2, HoldersFinite, FS_AddElement
  <1>. QED BY <1>1, <1>3

LEMMA HolderRemoved ==
  ASSUME CameraTypeOK, NEW t \in Tasks, holds[t],
         holds' = [holds EXCEPT ![t] = FALSE]
  PROVE  Cardinality(Holders') = Cardinality(Holders) - 1
  <1>1. Holders' = Holders \ {t}
    BY DEF CameraTypeOK, Holders
  <1>2. t \in Holders
    BY DEF Holders
  <1>3. Cardinality(Holders \ {t}) = Cardinality(Holders) - 1
    BY <1>2, HoldersFinite, FS_RemoveElement
  <1>. QED BY <1>1, <1>3

\* Nobody copies when there is no user, and only t may with t as the one user.
LEMMA OneUser ==
  ASSUME CameraInv, NEW t \in Tasks, holds[t], users = 1
  PROVE  \A s \in Tasks \ {t} : ~holds[s]
  <1>1. Cardinality(Holders) = 1
    BY DEF CameraInv, PowerFollowsUsers
  <1>2. PICK x : Holders = {x}
    BY <1>1, HoldersFinite, FS_Singleton
  <1>. QED BY <1>2 DEF Holders

LEMMA NoUser ==
  ASSUME CameraInv, users = 0
  PROVE  \A s \in Tasks : ~holds[s] /\ pc[s] \notin InCall
  <1>1. Cardinality(Holders) = 0
    BY DEF CameraInv, PowerFollowsUsers
  <1>2. Holders = {}
    BY <1>1, HoldersFinite, FS_EmptySet
  <1>3. \A s \in Tasks : ~holds[s]
    BY <1>2 DEF Holders
  <1>. QED BY <1>3 DEF CameraInv, BuffersWhenUsed

-----------------------------------------------------------------------------
(***************************************************************************)
(* CameraInv is inductive: one lemma per step.                             *)
(***************************************************************************)
LEMMA CameraInitInv == CameraInit => CameraInv
  <1>. SUFFICES ASSUME CameraInit PROVE CameraInv
    OBVIOUS
  <1>1. CameraTypeOK
    <2>1. /\ users \in Nat /\ nextIdx \in Buffer
          /\ {writeIdx, latestIdx, filling, ended} \subseteq Buffer \cup {None}
          /\ attempt \in [Tasks -> 0 .. 2]
          /\ src \in [Tasks -> Buffer \cup {None}]
      BY DEF CameraInit, Buffer, None
    <2>2. /\ {ready, running, buffers, lit, latestEmpty} \subseteq BOOLEAN
          /\ on \subseteq Parts /\ failedOff \subseteq Parts
          /\ slider \in {"idle", "apply"}
          /\ pc \in [Tasks -> {"out"} \cup InCall \cup Outcomes]
          /\ {holds, fresh, torn} \subseteq [Tasks -> BOOLEAN]
      BY Zenon DEF CameraInit
    <2>. QED BY <2>1, <2>2 DEF CameraTypeOK
  <1>2. NoTornFrame /\ FreshIsWhole
    BY DEF CameraInit, NoTornFrame, FreshIsWhole
  <1>3. PowerFollowsUsers
    <2>1. Holders = {}
      BY DEF CameraInit, Holders
    <2>2. Cardinality(Holders) = 0
      BY <2>1, FS_EmptySet
    <2>. QED BY <2>2 DEF CameraInit, PowerFollowsUsers
  <1>4. BuffersWhenUsed
    BY DEF CameraInit, BuffersWhenUsed, InCall
  <1>. QED BY <1>1, <1>2, <1>3, <1>4 DEF CameraInv

LEMMA AcquireSharedInv ==
  ASSUME CameraInv, NEW t \in Tasks, AcquireShared(t)
  PROVE  CameraInv'
  <1>. USE DEF CameraInv, AcquireShared
  <1>1. CameraTypeOK'
    BY DEF CameraTypeOK, frameVars, callVars
  <1>2. NoTornFrame' /\ FreshIsWhole'
    BY DEF NoTornFrame, FreshIsWhole, callVars
  <1>3. PowerFollowsUsers'
    <2>1. Cardinality(Holders') = Cardinality(Holders) + 1
      BY HolderAdded
    <2>. QED BY <2>1 DEF PowerFollowsUsers, CameraTypeOK
  <1>4. BuffersWhenUsed'
    BY DEF BuffersWhenUsed, CameraTypeOK, frameVars, callVars
  <1>. QED BY <1>1, <1>2, <1>3, <1>4

LEMMA AcquireStartsInv ==
  ASSUME CameraInv, NEW t \in Tasks, AcquireStarts(t)
  PROVE  CameraInv'
  <1>. USE DEF CameraInv, AcquireStarts
  <1>1. CameraTypeOK'
    BY DEF CameraTypeOK, ResetFrames, NoTransaction, Parts, Buffer, None
  <1>2. NoTornFrame' /\ FreshIsWhole'
    BY DEF NoTornFrame, FreshIsWhole, ResetFrames
  <1>3. PowerFollowsUsers'
    <2>1. Cardinality(Holders') = Cardinality(Holders) + 1
      BY HolderAdded
    <2>2. Cardinality(Holders) = 0 /\ users' = 1
      BY DEF PowerFollowsUsers
    <2>3. running' /\ buffers' /\ on' = Parts
      OBVIOUS
    <2>. QED BY <2>1, <2>2, <2>3 DEF PowerFollowsUsers
  <1>4. BuffersWhenUsed'
    BY NoUser DEF BuffersWhenUsed, NoTransaction
  <1>. QED BY <1>1, <1>2, <1>3, <1>4

LEMMA AcquireFailsInv ==
  ASSUME CameraInv, NEW t \in Tasks, AcquireFails(t)
  PROVE  CameraInv'
  <1>. USE DEF CameraInv, AcquireFails
  <1>1. CameraTypeOK'
    <2>1. on' \subseteq Parts /\ failedOff' \subseteq Parts
      BY DEF CameraTypeOK, SwitchOff, Parts
    <2>2. lit' \in BOOLEAN
      OBVIOUS
    <2>. QED BY <2>1, <2>2 DEF CameraTypeOK, ResetFrames, Buffer, None
  <1>2. NoTornFrame' /\ FreshIsWhole'
    BY DEF NoTornFrame, FreshIsWhole, ResetFrames
  <1>3. PowerFollowsUsers'
    <2>1. Holders' = Holders
      BY DEF Holders
    <2>2. Cardinality(Holders) = 0 /\ users = 0 /\ users' = 0
      BY DEF PowerFollowsUsers
    <2>3. ~running' /\ on' \subseteq failedOff'
      <3>1. ~running /\ on \subseteq failedOff
        BY <2>2 DEF PowerFollowsUsers
      <3>2. UNCHANGED running
        OBVIOUS
      <3>3. on' \subseteq failedOff'
        BY <3>1 DEF SwitchOff
      <3>. QED BY <3>1, <3>2, <3>3
    <2>. QED BY <2>1, <2>2, <2>3 DEF PowerFollowsUsers
  <1>4. BuffersWhenUsed'
    <2>1. \A s \in Tasks : pc[s] \notin InCall
      BY NoUser
    <2>. QED BY <2>1 DEF BuffersWhenUsed
  <1>. QED BY <1>1, <1>2, <1>3, <1>4

LEMMA ReleaseSharedInv ==
  ASSUME CameraInv, NEW t \in Tasks, ReleaseShared(t)
  PROVE  CameraInv'
  <1>. USE DEF CameraInv, ReleaseShared
  <1>1. CameraTypeOK'
    BY DEF CameraTypeOK, frameVars, callVars
  <1>2. NoTornFrame' /\ FreshIsWhole'
    BY DEF NoTornFrame, FreshIsWhole, callVars
  <1>3. PowerFollowsUsers'
    <2>1. Cardinality(Holders') = Cardinality(Holders) - 1
      BY HolderRemoved
    <2>. QED BY <2>1 DEF PowerFollowsUsers, CameraTypeOK
  <1>4. BuffersWhenUsed'
    BY DEF BuffersWhenUsed, CameraTypeOK, InCall, frameVars, callVars
  <1>. QED BY <1>1, <1>2, <1>3, <1>4

LEMMA ReleaseStopsInv ==
  ASSUME CameraInv, NEW t \in Tasks, ReleaseStops(t)
  PROVE  CameraInv'
  <1>. USE DEF CameraInv, ReleaseStops
  <1>1. CameraTypeOK'
    <2>1. on' \subseteq Parts /\ failedOff' \subseteq Parts
      BY DEF CameraTypeOK, SwitchOff
    <2>2. lit' \in BOOLEAN
      OBVIOUS
    <2>3. filling' \in Buffer \cup {None} /\ ended' \in Buffer \cup {None}
      BY DEF CameraTypeOK, NoTransaction
    <2>. QED BY <2>1, <2>2, <2>3 DEF CameraTypeOK, ResetFrames, TornBy, Buffer, None
  <1>2. NoTornFrame' /\ FreshIsWhole'
    BY DEF NoTornFrame, FreshIsWhole, ResetFrames, TornBy, Reading
  <1>3. PowerFollowsUsers'
    <2>1. Cardinality(Holders') = Cardinality(Holders) - 1
      BY HolderRemoved
    <2>2. Cardinality(Holders) = 1 /\ users' = 0
      BY DEF PowerFollowsUsers
    <2>3. ~running' /\ on' \subseteq failedOff'
      BY DEF SwitchOff, CameraTypeOK
    <2>. QED BY <2>1, <2>2, <2>3 DEF PowerFollowsUsers
  <1>4. BuffersWhenUsed'
    <2>1. \A s \in Tasks : pc[s] \notin InCall
      BY OneUser DEF BuffersWhenUsed, InCall
    <2>2. filling' # None => "controller" \in failedOff'
      BY DEF NoTransaction, SwitchOff
    <2>. QED BY <2>1, <2>2 DEF BuffersWhenUsed
  <1>. QED BY <1>1, <1>2, <1>3, <1>4

\* Only the frame state changes: the holders and the power stay.
LEMMA FramesOnly ==
  ASSUME CameraInv, UNCHANGED <<powerVars, holds>>
  PROVE  PowerFollowsUsers'
  <1>1. Holders' = Holders
    BY DEF Holders
  <1>. QED BY <1>1 DEF CameraInv, PowerFollowsUsers, powerVars

LEMMA GetNewTransInv ==
  ASSUME CameraInv, GetNewTrans
  PROVE  CameraInv'
  <1>. USE DEF CameraInv, GetNewTrans
  <1>1. CameraTypeOK'
    BY DEF CameraTypeOK, powerVars, TornBy, Buffer, None
  <1>2. NoTornFrame' /\ FreshIsWhole'
    BY DEF NoTornFrame, FreshIsWhole, TornBy, Reading
  <1>3. PowerFollowsUsers'
    BY FramesOnly
  <1>4. BuffersWhenUsed'
    <2>1. buffers \/ "controller" \in failedOff
      BY DEF Streaming, PowerFollowsUsers
    <2>. QED BY <2>1 DEF BuffersWhenUsed, powerVars
  <1>. QED BY <1>1, <1>2, <1>3, <1>4

LEMMA TransFinishedInv ==
  ASSUME CameraInv, NEW empty \in BOOLEAN, TransFinished(empty)
  PROVE  CameraInv'
  <1>. USE DEF CameraInv, TransFinished
  <1>1. CameraTypeOK'
    BY DEF CameraTypeOK, powerVars, Buffer, None
  <1>2. NoTornFrame' /\ FreshIsWhole'
    BY DEF NoTornFrame, FreshIsWhole
  <1>3. PowerFollowsUsers'
    BY FramesOnly
  <1>4. BuffersWhenUsed'
    BY DEF BuffersWhenUsed, powerVars
  <1>. QED BY <1>1, <1>2, <1>3, <1>4

LEMMA TransForgottenInv ==
  ASSUME CameraInv, TransForgotten
  PROVE  CameraInv'
  <1>. USE DEF CameraInv, TransForgotten
  <1>1. CameraTypeOK'
    BY DEF CameraTypeOK, powerVars, callVars, Buffer, None
  <1>2. NoTornFrame' /\ FreshIsWhole'
    BY DEF NoTornFrame, FreshIsWhole, callVars
  <1>3. PowerFollowsUsers'
    BY FramesOnly
  <1>4. BuffersWhenUsed'
    BY DEF BuffersWhenUsed, powerVars, callVars
  <1>. QED BY <1>1, <1>2, <1>3, <1>4

LEMMA CopyBeginsInv ==
  ASSUME CameraInv, NEW t \in Tasks, CopyBegins(t)
  PROVE  CameraInv'
  <1>. USE DEF CameraInv, CopyBegins
  <1>1. CameraTypeOK'
    BY DEF CameraTypeOK, powerVars, frameVars, InCall, Outcomes
  <1>2. NoTornFrame' /\ FreshIsWhole'
    BY DEF CameraTypeOK, NoTornFrame, FreshIsWhole, Reading
  <1>3. PowerFollowsUsers'
    BY FramesOnly
  <1>4. BuffersWhenUsed'
    BY DEF CameraTypeOK, BuffersWhenUsed, PowerFollowsUsers, InCall, powerVars, frameVars
  <1>. QED BY <1>1, <1>2, <1>3, <1>4

\* A call that goes on or returns, with the snapshot it took before.
LEMMA OutcomeInv ==
  ASSUME CameraInv, NEW t \in Tasks, pc[t] \in InCall, NEW o, Outcome(t, o),
         o \in {"snapshot", "check"} \cup Outcomes,
         o = "ok" => ~torn[t],
         o = "check" => pc[t] = "read"
  PROVE  CameraInv'
  <1>. USE DEF CameraInv, Outcome
  <1>1. CameraTypeOK'
    BY DEF CameraTypeOK, powerVars, frameVars, InCall, Outcomes
  <1>2. NoTornFrame' /\ FreshIsWhole'
    BY DEF CameraTypeOK, NoTornFrame, FreshIsWhole, Reading, Outcomes
  <1>3. PowerFollowsUsers'
    BY FramesOnly
  <1>4. BuffersWhenUsed'
    BY DEF CameraTypeOK, BuffersWhenUsed, InCall, powerVars, frameVars
  <1>. QED BY <1>1, <1>2, <1>3, <1>4

LEMMA SnapshotInv ==
  ASSUME CameraInv, NEW t \in Tasks, Snapshot(t)
  PROVE  CameraInv'
  <1>1. CASE latestIdx = None \/ latestEmpty \/ latestIdx = writeIdx
    <2>1. pc[t] \in InCall /\ Outcome(t, "not_found")
      BY <1>1 DEF Snapshot, InCall
    <2>. QED BY <2>1, OutcomeInv DEF Outcomes
  <1>2. CASE ~(latestIdx = None \/ latestEmpty \/ latestIdx = writeIdx)
    <2>. USE <1>2 DEF CameraInv, Snapshot
    <2>1. CameraTypeOK'
      BY DEF CameraTypeOK, powerVars, frameVars, InCall
    <2>2. NoTornFrame' /\ FreshIsWhole'
      BY DEF CameraTypeOK, NoTornFrame, FreshIsWhole, Reading
    <2>3. PowerFollowsUsers'
      BY FramesOnly
    <2>4. BuffersWhenUsed'
      BY DEF CameraTypeOK, BuffersWhenUsed, InCall, powerVars, frameVars
    <2>. QED BY <2>1, <2>2, <2>3, <2>4
  <1>. QED BY <1>1, <1>2

LEMMA ReadInv ==
  ASSUME CameraInv, NEW t \in Tasks, Read(t)
  PROVE  CameraInv'
  <1>1. PICK o \in {"not_found", "too_small", "check"} : Outcome(t, o)
    BY DEF Read
  <1>2. pc[t] = "read" /\ pc[t] \in InCall
    BY DEF Read, InCall
  <1>. QED BY <1>1, <1>2, OutcomeInv DEF Outcomes

LEMMA CheckInv ==
  ASSUME CameraInv, NEW t \in Tasks, Check(t)
  PROVE  CameraInv'
  <1>0. pc[t] \in InCall /\ pc[t] \in Reading
    BY DEF Check, InCall, Reading
  <1>1. CASE Unchanged(t)
    <2>1. Outcome(t, "ok")
      BY <1>1 DEF Check
    <2>2. ~torn[t]
      BY <1>0, <1>1 DEF CameraInv, FreshIsWhole, Unchanged
    <2>. QED BY <1>0, <2>1, <2>2, OutcomeInv DEF Outcomes
  <1>2. CASE ~Unchanged(t) /\ attempt[t] = 2
    <2>1. Outcome(t, "not_found")
      BY <1>2 DEF Check
    <2>. QED BY <1>0, <2>1, OutcomeInv DEF Outcomes
  <1>3. CASE ~Unchanged(t) /\ attempt[t] # 2
    <2>. USE <1>3 DEF CameraInv, Check
    <2>1. CameraTypeOK'
      BY DEF CameraTypeOK, powerVars, frameVars, InCall
    <2>2. NoTornFrame' /\ FreshIsWhole'
      BY DEF CameraTypeOK, NoTornFrame, FreshIsWhole, Reading
    <2>3. PowerFollowsUsers'
      BY FramesOnly
    <2>4. BuffersWhenUsed'
      BY <1>0 DEF CameraTypeOK, BuffersWhenUsed, InCall, powerVars, frameVars
    <2>. QED BY <2>1, <2>2, <2>3, <2>4
  <1>. QED BY <1>1, <1>2, <1>3

LEMMA CopyEndsInv ==
  ASSUME CameraInv, NEW t \in Tasks, CopyEnds(t)
  PROVE  CameraInv'
  <1>. USE DEF CameraInv, CopyEnds
  <1>1. CameraTypeOK'
    BY DEF CameraTypeOK, powerVars, frameVars, None
  <1>2. NoTornFrame' /\ FreshIsWhole'
    BY DEF CameraTypeOK, NoTornFrame, FreshIsWhole, Reading
  <1>3. PowerFollowsUsers'
    BY FramesOnly
  <1>4. BuffersWhenUsed'
    BY DEF CameraTypeOK, BuffersWhenUsed, InCall, powerVars, frameVars
  <1>. QED BY <1>1, <1>2, <1>3, <1>4

\* The slider touches the light's duty and its own place only.
LEMMA DutyInv ==
  ASSUME CameraInv, Duty
  PROVE  CameraInv'
  <1>0. /\ UNCHANGED <<ready, users, running, buffers, on, failedOff>>
        /\ UNCHANGED <<frameVars, callVars, holds>>
        /\ lit' \in BOOLEAN /\ slider' \in {"idle", "apply"}
    BY DEF CameraInv, CameraTypeOK, Duty, DutyTest, DutyApply
  <1>. USE <1>0 DEF CameraInv, frameVars, callVars
  <1>1. CameraTypeOK'
    BY DEF CameraTypeOK
  <1>2. NoTornFrame' /\ FreshIsWhole'
    BY DEF NoTornFrame, FreshIsWhole
  <1>3. PowerFollowsUsers'
    <2>1. Holders' = Holders
      BY DEF Holders
    <2>. QED BY <2>1 DEF PowerFollowsUsers
  <1>4. BuffersWhenUsed'
    BY DEF BuffersWhenUsed
  <1>. QED BY <1>1, <1>2, <1>3, <1>4

LEMMA CameraUnchangedInv ==
  ASSUME CameraInv, UNCHANGED cameraVars
  PROVE  CameraInv'
  <1>. USE DEF CameraInv, cameraVars, powerVars, frameVars, callVars
  <1>1. CameraTypeOK'
    BY DEF CameraTypeOK
  <1>2. NoTornFrame' /\ FreshIsWhole' /\ BuffersWhenUsed'
    BY DEF NoTornFrame, FreshIsWhole, BuffersWhenUsed
  <1>3. PowerFollowsUsers'
    BY FramesOnly
  <1>. QED BY <1>1, <1>2, <1>3

LEMMA CameraNextInv ==
  ASSUME CameraInv, [CameraNext]_cameraVars
  PROVE  CameraInv'
  <1>1. CASE Interrupt
    BY <1>1, GetNewTransInv, TransFinishedInv, TransForgottenInv DEF Interrupt
  <1>2. CASE Duty
    BY <1>2, DutyInv
  <1>3. ASSUME NEW t \in Tasks, TaskStep(t) PROVE CameraInv'
    <2>1. CASE Acquire(t)
      BY <2>1, AcquireSharedInv, AcquireStartsInv DEF Acquire
    <2>2. CASE NoCamera(t)
      <3>1. CASE AcquireRefused(t)
        BY <3>1, CameraUnchangedInv DEF AcquireRefused
      <3>. QED BY <2>2, <3>1, AcquireFailsInv DEF NoCamera
    <2>3. CASE Release(t)
      BY <2>3, ReleaseSharedInv, ReleaseStopsInv DEF Release
    <2>4. CASE CopyBegins(t)
      BY <2>4, CopyBeginsInv
    <2>5. CASE CopyStep(t)
      BY <2>5, SnapshotInv, ReadInv, CheckInv DEF CopyStep
    <2>6. CASE CopyEnds(t)
      BY <2>6, CopyEndsInv
    <2>. QED BY <1>3, <2>1, <2>2, <2>3, <2>4, <2>5, <2>6 DEF TaskStep
  <1>4. CASE UNCHANGED cameraVars
    BY <1>4, CameraUnchangedInv
  <1>. QED BY <1>1, <1>2, <1>3, <1>4 DEF CameraNext

-----------------------------------------------------------------------------
LEMMA CameraInvariant == CameraSpec => []CameraInv
  BY CameraInitInv, CameraNextInv, PTL DEF CameraSpec

(***************************************************************************)
(* Every variable of the camera keeps its type, the attempts of a copy     *)
(* their limit and the buffer indices their two values.                    *)
(***************************************************************************)
THEOREM CameraTyped == CameraSpec => []CameraTypeOK
  <1>1. CameraInv => CameraTypeOK
    BY DEF CameraInv
  <1>. QED BY <1>1, CameraInvariant, PTL

(***************************************************************************)
(* The version of ov2640_camera_copy_jpeg_frame does its work: however     *)
(* many tasks copy and however the interrupts and the stops fall between,  *)
(* a copy that reports ESP_OK was not written over while it was made.      *)
(***************************************************************************)
THEOREM CopiesAreWhole == CameraSpec => []NoTornFrame
  <1>1. CameraInv => NoTornFrame
    BY DEF CameraInv
  <1>. QED BY <1>1, CameraInvariant, PTL

(***************************************************************************)
(* s_camera_users counts the tasks between acquire and release; sensor,    *)
(* controller and light are on while there is one and off while there is   *)
(* none, whichever starts fail, but for what a driver failed to stop.      *)
(***************************************************************************)
THEOREM CountIsRight == CameraSpec => []PowerFollowsUsers
  <1>1. CameraInv => PowerFollowsUsers
    BY DEF CameraInv
  <1>. QED BY <1>1, CameraInvariant, PTL

(***************************************************************************)
(* ov2640_camera_stop never takes the buffers away under a copy, nor under  *)
(* the DMA, unless the controller itself could not be stopped.              *)
(***************************************************************************)
THEOREM BuffersOutliveCopies == CameraSpec => []BuffersWhenUsed
  <1>1. CameraInv => BuffersWhenUsed
    BY DEF CameraInv
  <1>. QED BY <1>1, CameraInvariant, PTL
=============================================================================
