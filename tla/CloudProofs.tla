----------------------------- MODULE CloudProofs -----------------------------
(***************************************************************************)
(* Proofs about the binding of owners, for every set of accounts and       *)
(* messages, every size of the replay cache, with power cuts and saves     *)
(* that fail.                                                              *)
(***************************************************************************)
EXTENDS Cloud, SequenceTheorems, TLAPS

(***************************************************************************)
(* What needs no assumption on the cloud.                                  *)
(***************************************************************************)
\* An unbind on its way can still draw its token; a request that is being
\* bound was tapped, or another in its place.
Prepared ==
    /\ mqtt \in {"clear", "rotate"} => token < MaxToken
    /\ ui.at = "bind" => ui.req \in Messages /\ ui.req.user \in allowed \cup unasked

BaseInv ==
    /\ CloudTypeOK
    /\ Prepared
    /\ OwnersWereAllowed
    /\ QuestionIsVisible

LEMMA CacheTurns == \A n \in 0 .. Cache - 1 : (n + 1) % Cache \in 0 .. Cache - 1
  BY CloudAssumption

LEMMA MessageTyped == \A m \in Messages : m # None /\ m.user \in Users /\ m.token \in 0 .. MaxToken
  BY CloudAssumption

LEMMA BaseInit == CloudInit => BaseInv
  <1>. SUFFICES ASSUME CloudInit PROVE BaseInv
    OBVIOUS
  <1>1. CloudTypeOK
    <2>1. [user |-> user, bound |-> bound, token |-> token] \in Identities
      <3>1. token \in 0 .. MaxToken
        BY CloudAssumption DEF CloudInit
      <3>2. user \in Users \cup {None} /\ bound \in BOOLEAN
        BY Zenon DEF CloudInit
      <3>. QED BY <3>1, <3>2 DEF Identities
    <2>2. nvs \in Identities
      BY <2>1 DEF CloudInit
    <2>3. next \in 0 .. Cache - 1
      BY CloudAssumption DEF CloudInit
    <2>4. /\ saving \in [Tasks -> {"no", "user", "token", "bound"}]
          /\ cache \in [0 .. Cache - 1 -> {m.nonce : m \in Messages} \cup {None}]
          /\ {pending, popup} \subseteq Messages \cup {None} /\ missed \subseteq Tasks
          /\ {old, online, qr, closing} \subseteq BOOLEAN
          /\ mqtt \in {"idle", "clear", "rotate", "ends"}
      BY Zenon DEF CloudInit
    <2>5. ui \in [at : {"idle", "expired", "bind", "saved", "failed"}, req : Messages \cup {None}]
      BY DEF CloudInit, Idle
    <2>. QED BY <2>1, <2>2, <2>3, <2>4, <2>5 DEF CloudTypeOK
  <1>2. Prepared
    BY DEF CloudInit, Prepared, Idle
  <1>3. OwnersWereAllowed
    BY DEF CloudInit, OwnersWereAllowed
  <1>4. QuestionIsVisible
    BY DEF CloudInit, QuestionIsVisible
  <1>. QED BY <1>1, <1>2, <1>3, <1>4 DEF BaseInv

\* A key goes to flash.
LEMMA SaveKeyBase ==
  ASSUME BaseInv, NEW t \in Tasks, SaveKey(t)
  PROVE  BaseInv'
  <1>. USE DEF BaseInv, SaveKey, SaveEnds, SaveStays, Identities, deviceVars, netVars,
               requestVars, screenVars
  <1>1. CloudTypeOK'
    BY DEF CloudTypeOK
  <1>2. Prepared' /\ OwnersWereAllowed'
    BY DEF CloudTypeOK, Prepared, OwnersWereAllowed
  <1>3. QuestionIsVisible'
    BY DEF QuestionIsVisible
  <1>. QED BY <1>1, <1>2, <1>3

\* A key does not go to flash, and the save goes on.
LEMMA KeyFailsBase ==
  ASSUME BaseInv, NEW t \in Tasks, KeyFails(t)
  PROVE  BaseInv'
  <1>. USE DEF BaseInv, KeyFails, SaveStays, Identities, KeyAfter, deviceVars, netVars,
               requestVars, screenVars
  <1>1. CloudTypeOK'
    BY DEF CloudTypeOK
  <1>2. Prepared' /\ OwnersWereAllowed'
    BY DEF CloudTypeOK, Prepared, OwnersWereAllowed
  <1>3. QuestionIsVisible'
    BY DEF QuestionIsVisible
  <1>. QED BY <1>1, <1>2, <1>3

\* A save fails before its first key.
LEMMA SaveFailsBase ==
  ASSUME BaseInv, NEW t \in Tasks, SaveFails(t)
  PROVE  BaseInv'
  <1>. USE DEF BaseInv, SaveFails, SaveStays, deviceVars, netVars, requestVars, screenVars
  <1>1. CloudTypeOK'
    BY DEF CloudTypeOK
  <1>2. Prepared' /\ OwnersWereAllowed'
    BY DEF CloudTypeOK, Prepared, OwnersWereAllowed
  <1>3. QuestionIsVisible'
    BY DEF QuestionIsVisible
  <1>. QED BY <1>1, <1>2, <1>3

\* RAM is what flash holds.
LEMMA PowerCutBase ==
  ASSUME BaseInv, PowerCut
  PROVE  BaseInv'
  <1>. USE DEF BaseInv, PowerCut, Idle, Identities, history
  <1>1. CloudTypeOK'
    <2>1. [user |-> user', bound |-> bound', token |-> token'] \in Identities
      BY DEF CloudTypeOK
    <2>2. next' \in 0 .. Cache - 1
      BY CloudAssumption
    <2>3. /\ saving' \in [Tasks -> {"no", "user", "token", "bound"}]
          /\ cache' \in [0 .. Cache - 1 -> {m.nonce : m \in Messages} \cup {None}]
          /\ {pending', popup'} \subseteq Messages \cup {None} /\ missed' \subseteq Tasks
          /\ {old', online', qr', closing'} \subseteq BOOLEAN
          /\ mqtt' \in {"idle", "clear", "rotate", "ends"}
      BY Zenon
    <2>4. ui' \in [at : {"idle", "expired", "bind", "saved", "failed"}, req : Messages \cup {None}]
      OBVIOUS
    <2>. QED BY <2>1, <2>2, <2>3, <2>4 DEF CloudTypeOK
  <1>2. Prepared' /\ OwnersWereAllowed'
    BY DEF CloudTypeOK, Prepared, OwnersWereAllowed
  <1>3. QuestionIsVisible'
    BY DEF QuestionIsVisible
  <1>. QED BY <1>1, <1>2, <1>3

\* A request waits.
LEMMA ReceiveBindBase ==
  ASSUME BaseInv, NEW m \in Messages, ReceiveBind(m)
  PROVE  BaseInv'
  <1>. USE DEF BaseInv, ReceiveBind, Receives, Accepts, MqttStays, deviceVars, screenVars,
               history, saveVars
  <1>1. CloudTypeOK'
    BY CacheTurns, MessageTyped DEF CloudTypeOK
  <1>2. Prepared' /\ OwnersWereAllowed'
    BY CacheTurns, MessageTyped DEF CloudTypeOK, Prepared, OwnersWereAllowed
  <1>3. QuestionIsVisible'
    BY DEF QuestionIsVisible
  <1>. QED BY <1>1, <1>2, <1>3

\* A command, which may begin to unbind the device.
LEMMA ReceiveCommandBase ==
  ASSUME BaseInv, NEW m \in Messages, ReceiveCommand(m)
  PROVE  BaseInv'
  <1>. USE DEF BaseInv, ReceiveCommand, Receives, Accepts, MqttStays, deviceVars,
               requestVars, screenVars, history, saveVars
  <1>1. CloudTypeOK'
    BY CacheTurns, MessageTyped DEF CloudTypeOK
  <1>2. Prepared' /\ OwnersWereAllowed'
    BY CacheTurns, MessageTyped DEF CloudTypeOK, Prepared, OwnersWereAllowed
  <1>3. QuestionIsVisible'
    BY DEF QuestionIsVisible
  <1>. QED BY <1>1, <1>2, <1>3

\* The owner is forgotten.
LEMMA ClearBindingBase ==
  ASSUME BaseInv, ClearBinding
  PROVE  BaseInv'
  <1>. USE DEF BaseInv, ClearBinding, Saves, UnbindStays, Identities, netVars, requestVars,
               screenVars
  <1>1. CloudTypeOK'
    BY DEF CloudTypeOK
  <1>2. Prepared' /\ OwnersWereAllowed'
    BY DEF CloudTypeOK, Prepared, OwnersWereAllowed
  <1>3. QuestionIsVisible'
    BY DEF QuestionIsVisible
  <1>. QED BY <1>1, <1>2, <1>3

\* A new token.
LEMMA RegenerateTokenBase ==
  ASSUME BaseInv, RegenerateToken
  PROVE  BaseInv'
  <1>. USE DEF BaseInv, RegenerateToken, Saves, UnbindStays, Identities, netVars,
               requestVars, screenVars
  <1>1. CloudTypeOK'
    <2>1. token' \in 0 .. MaxToken
      BY CloudAssumption DEF CloudTypeOK, Prepared
    <2>2. [user |-> user', bound |-> bound', token |-> token'] \in Identities
      BY <2>1 DEF CloudTypeOK
    <2>. QED BY <2>2 DEF CloudTypeOK
  <1>2. Prepared' /\ OwnersWereAllowed'
    BY DEF CloudTypeOK, Prepared, OwnersWereAllowed
  <1>3. QuestionIsVisible'
    BY DEF QuestionIsVisible
  <1>. QED BY <1>1, <1>2, <1>3

\* The unbind is over.
LEMMA UnbindEndsBase ==
  ASSUME BaseInv, UnbindEnds
  PROVE  BaseInv'
  <1>. USE DEF BaseInv, UnbindEnds, MqttStays, deviceVars, netVars, requestVars, screenVars,
               history, saveVars
  <1>1. CloudTypeOK'
    BY DEF CloudTypeOK
  <1>2. Prepared' /\ OwnersWereAllowed'
    BY DEF CloudTypeOK, Prepared, OwnersWereAllowed
  <1>3. QuestionIsVisible'
    BY DEF QuestionIsVisible
  <1>. QED BY <1>1, <1>2, <1>3

\* The tap on Allow.
LEMMA AllowBase ==
  ASSUME BaseInv, Allow
  PROVE  BaseInv'
  <1>. USE DEF BaseInv, Allow, BindTaps, UiStays, deviceVars, netVars, screenVars, saveVars
  <1>1. CloudTypeOK'
    BY MessageTyped DEF CloudTypeOK
  <1>2. Prepared' /\ OwnersWereAllowed'
    BY MessageTyped DEF CloudTypeOK, Prepared, OwnersWereAllowed
  <1>3. QuestionIsVisible'
    BY DEF QuestionIsVisible
  <1>. QED BY <1>1, <1>2, <1>3

\* The binding in RAM.
LEMMA SetBoundUserBase ==
  ASSUME BaseInv, SetBoundUser
  PROVE  BaseInv'
  <1>. USE DEF BaseInv, SetBoundUser, Saves, UiStays, Identities, netVars, requestVars,
               screenVars
  <1>1. CloudTypeOK'
    <2>1. user' \in Users
      BY MessageTyped DEF Prepared
    <2>2. [user |-> user', bound |-> bound', token |-> token'] \in Identities
      BY <2>1 DEF CloudTypeOK
    <2>. QED BY <2>2 DEF CloudTypeOK
  <1>2. Prepared' /\ OwnersWereAllowed'
    BY MessageTyped DEF CloudTypeOK, Prepared, OwnersWereAllowed
  <1>3. QuestionIsVisible'
    BY DEF QuestionIsVisible
  <1>. QED BY <1>1, <1>2, <1>3

\* The binding is on flash, and the cloud is told.
LEMMA ConfirmBase ==
  ASSUME BaseInv, Confirm
  PROVE  BaseInv'
  <1>. USE DEF BaseInv, Confirm, Idle, UiStays, deviceVars, netVars, requestVars, saveVars
  <1>1. CloudTypeOK'
    BY DEF CloudTypeOK
  <1>2. Prepared' /\ OwnersWereAllowed'
    BY DEF CloudTypeOK, Prepared, OwnersWereAllowed
  <1>3. QuestionIsVisible'
    BY DEF QuestionIsVisible
  <1>. QED BY <1>1, <1>2, <1>3

\* Popups come and go.
LEMMA ScreenBase ==
  ASSUME BaseInv, TickShows \/ QrShow \/ QrTap \/ QrTimeout
  PROVE  BaseInv'
  <1>. USE DEF BaseInv, TickShows, QrShow, QrTap, QrTimeout, QrStays, UiStays, deviceVars,
               netVars, requestVars, history, saveVars
  <1>1. CloudTypeOK'
    BY DEF CloudTypeOK
  <1>2. Prepared' /\ OwnersWereAllowed'
    BY DEF CloudTypeOK, Prepared, OwnersWereAllowed
  <1>3. QuestionIsVisible'
    BY DEF QuestionIsVisible
  <1>. QED BY <1>1, <1>2, <1>3

\* A request has run out.
LEMMA TickExpiresBase ==
  ASSUME BaseInv, TickExpires
  PROVE  BaseInv'
  <1>. USE DEF BaseInv, TickExpires, UiStays, deviceVars, netVars, requestVars, screenVars,
               history, saveVars
  <1>1. CloudTypeOK'
    BY DEF CloudTypeOK
  <1>2. Prepared' /\ OwnersWereAllowed'
    BY DEF CloudTypeOK, Prepared, OwnersWereAllowed
  <1>3. QuestionIsVisible'
    BY DEF QuestionIsVisible
  <1>. QED BY <1>1, <1>2, <1>3

\* It is refused, or the one that took its place.
LEMMA TickDeniesBase ==
  ASSUME BaseInv, TickDenies
  PROVE  BaseInv'
  <1>. USE DEF BaseInv, TickDenies, Refuses, Idle, UiStays, deviceVars, netVars,
               requestVars, history, saveVars
  <1>1. CloudTypeOK'
    BY DEF CloudTypeOK
  <1>2. Prepared' /\ OwnersWereAllowed'
    BY DEF CloudTypeOK, Prepared, OwnersWereAllowed
  <1>3. QuestionIsVisible'
    BY DEF QuestionIsVisible
  <1>. QED BY <1>1, <1>2, <1>3

\* The tap on Deny.
LEMMA DenyBase ==
  ASSUME BaseInv, Deny
  PROVE  BaseInv'
  <1>. USE DEF BaseInv, Deny, Refuses, UiStays, deviceVars, netVars, history, saveVars
  <1>1. CloudTypeOK'
    BY DEF CloudTypeOK
  <1>2. Prepared' /\ OwnersWereAllowed'
    BY DEF CloudTypeOK, Prepared, OwnersWereAllowed
  <1>3. QuestionIsVisible'
    BY DEF QuestionIsVisible
  <1>. QED BY <1>1, <1>2, <1>3

\* The binding could not be saved.
LEMMA ConfirmFailsBase ==
  ASSUME BaseInv, ConfirmFails
  PROVE  BaseInv'
  <1>. USE DEF BaseInv, ConfirmFails, Idle, UiStays, deviceVars, netVars, requestVars,
               history, saveVars
  <1>1. CloudTypeOK'
    BY DEF CloudTypeOK
  <1>2. Prepared' /\ OwnersWereAllowed'
    BY DEF CloudTypeOK, Prepared, OwnersWereAllowed
  <1>3. QuestionIsVisible'
    BY DEF QuestionIsVisible
  <1>. QED BY <1>1, <1>2, <1>3

\* The connection and the clock.
LEMMA OutsideBase ==
  ASSUME BaseInv, Connection \/ Waits
  PROVE  BaseInv'
  <1>. USE DEF BaseInv, Connection, MqttStays, Waits, deviceVars, netVars, requestVars,
               screenVars, history, saveVars
  <1>1. CloudTypeOK'
    BY DEF CloudTypeOK
  <1>2. Prepared' /\ OwnersWereAllowed'
    BY DEF CloudTypeOK, Prepared, OwnersWereAllowed
  <1>3. QuestionIsVisible'
    BY DEF QuestionIsVisible
  <1>. QED BY <1>1, <1>2, <1>3

LEMMA BaseNext ==
  ASSUME BaseInv, [CloudNext]_vars
  PROVE  BaseInv'
  <1>1. CASE MqttStep
    BY <1>1, OutsideBase, ReceiveBindBase, ReceiveCommandBase, ClearBindingBase,
       RegenerateTokenBase, UnbindEndsBase, SaveKeyBase, KeyFailsBase,
       SaveFailsBase
       DEF MqttStep, SaveStep, Tasks
  <1>2. CASE UiStep
    BY <1>2, TickExpiresBase, TickDeniesBase, ScreenBase, SetBoundUserBase, ConfirmBase,
       ConfirmFailsBase, SaveKeyBase, KeyFailsBase,
       SaveFailsBase
       DEF UiStep, SaveStep, Tasks
  <1>3. CASE Allow \/ Deny \/ QrShow \/ QrTap \/ QrTimeout \/ Waits \/ PowerCut
    BY <1>3, AllowBase, DenyBase, ScreenBase, OutsideBase, PowerCutBase
  <1>4. CASE UNCHANGED vars
    BY <1>4 DEF vars, deviceVars, netVars, requestVars, saveVars, screenVars, history,
       BaseInv, CloudTypeOK,
       Prepared, OwnersWereAllowed, QuestionIsVisible
  <1>. QED BY <1>1, <1>2, <1>3, <1>4 DEF CloudNext

LEMMA BaseInvariant == CloudSpec => []BaseInv
  BY BaseInit, BaseNext, PTL DEF CloudSpec

(***************************************************************************)
(* Every variable keeps its type; among them the place of the replay cache *)
(* that the next nonce takes and, drawn only by unbinds, the token.        *)
(***************************************************************************)
THEOREM CloudTyped == CloudSpec => []CloudTypeOK
  <1>1. BaseInv => CloudTypeOK
    BY DEF BaseInv
  <1>. QED BY <1>1, BaseInvariant, PTL

(***************************************************************************)
(* No timeout and no cut or failed save of mqtt_client.c makes an owner of *)
(* somebody for whom nobody tapped Allow.  The tap was on the popup of his *)
(* own request, or, for "unasked", on that of the one his has replaced     *)
(* (bind_popup_show does not draw a popup again).                          *)
(***************************************************************************)
THEOREM OnlyTheAllowedOwn == CloudSpec => []OwnersWereAllowed
  <1>1. BaseInv => OwnersWereAllowed
    BY DEF BaseInv
  <1>. QED BY <1>1, BaseInvariant, PTL

(***************************************************************************)
(* bind_popup_timer_cb and qr_popup.c never leave the QR code over the     *)
(* question, nor its timer behind.                                         *)
(***************************************************************************)
THEOREM QuestionStaysVisible == CloudSpec => []QuestionIsVisible
  <1>1. BaseInv => QuestionIsVisible
    BY DEF BaseInv
  <1>. QED BY <1>1, BaseInvariant, PTL

-----------------------------------------------------------------------------
(***************************************************************************)
(* The two tasks and the cloud that waits with its unbinds: while the MQTT *)
(* task unbinds the device nothing else goes on, so the saves of the two   *)
(* tasks never mix.                                                        *)
(***************************************************************************)
Turns ==
    /\ mqtt # "idle" => pending = None /\ ui.at = "idle"
    /\ pending # None => pending.token = token

\* Who saves, and what for.
Saving ==
    /\ saving["ui"] # "no" => ui.at = "saved"
    /\ saving["mqtt"] # "no" => mqtt \in {"rotate", "ends"}
    /\ mqtt \in {"rotate", "ends"} => user = None /\ told = None
    /\ ui.at = "saved" => bound /\ told = None /\ ui.req \in Messages /\ user = ui.req.user
    /\ ui.at = "failed" => unsaved
    /\ \A t \in missed : unsaved /\ saving[t] \in {"token", "bound"}

\* The keys that the save of t has already written.
Written(t) ==
    /\ saving[t] \in {"token", "bound", "no"} => nvs.user = user
    /\ saving[t] \in {"bound", "no"} => nvs.token = token
    /\ saving[t] = "no" => nvs.bound = bound

\* No key of the save under way was missed, nor of the one that is over.
Whole(t) == IF saving[t] = "no" THEN ~unsaved ELSE t \notin missed

Progress ==
    /\ ui.at = "saved" /\ Whole("ui") => Written("ui")
    /\ mqtt \in {"rotate", "ends"} /\ Whole("mqtt") => Written("mqtt")
    /\ mqtt = "idle" /\ ui.at \in {"idle", "expired", "bind"} /\ ~unsaved =>
           nvs = [user |-> user, bound |-> bound, token |-> token]

\* Whose cloud knows which token, on flash at any step of a save.
Known ==
    /\ known \in [Users -> 0 .. MaxToken]
    /\ ui.at = "bind" => ui.req.token = token
    /\ ui.at = "saved" => known[user] = token /\ (~unsaved => nvs.token = token)
    /\ nvs.bound /\ nvs.user # None /\ ~unsaved => nvs.token = known[nvs.user]

SafeInv ==
    /\ BaseInv
    /\ Turns
    /\ Saving
    /\ Progress
    /\ Known
    /\ ToldIsKept

LEMMA SafeInit == CloudInit => SafeInv
  <1>. SUFFICES ASSUME CloudInit PROVE SafeInv
    OBVIOUS
  <1>1. Turns /\ Saving /\ ToldIsKept
    BY DEF CloudInit, Idle, Turns, Saving, ToldIsKept, Tasks
  <1>2. Progress
    BY DEF CloudInit, Idle, Progress
  <1>3. Known
    BY CloudAssumption DEF CloudInit, Idle, Known
  <1>. QED BY BaseInit, <1>1, <1>2, <1>3 DEF SafeInv

\* A key goes to flash.
LEMMA SaveKeySafe ==
  ASSUME SafeInv, NEW t \in Tasks, SaveKey(t)
  PROVE  SafeInv'
  <1>. USE DEF SafeInv, SaveKey, SaveEnds, SaveStays, deviceVars, netVars, requestVars,
               screenVars
  <1>1. Turns' /\ Saving'
    BY MessageTyped DEF BaseInv, CloudTypeOK, Tasks, Prepared, Turns, Saving
  <1>2. Progress'
    BY DEF BaseInv, CloudTypeOK, Identities, Tasks, Turns, Saving, Written, Whole, Progress
  <1>3. Known'
    BY MessageTyped DEF BaseInv, CloudTypeOK, Identities, Tasks, Prepared, Turns, Saving,
                        Written, Whole, Progress, Known
  <1>4. ToldIsKept'
    BY DEF BaseInv, CloudTypeOK, Identities, Tasks, Saving, Written, Whole, Progress, ToldIsKept
  <1>. QED BY SaveKeyBase, <1>1, <1>2, <1>3, <1>4

\* A key does not go to flash, and the save goes on.
LEMMA KeyFailsSafe ==
  ASSUME SafeInv, NEW t \in Tasks, KeyFails(t)
  PROVE  SafeInv'
  <1>. USE DEF SafeInv, KeyFails, SaveStays, KeyAfter, deviceVars, netVars, requestVars,
               screenVars
  <1>1. Turns' /\ Saving'
    BY MessageTyped DEF BaseInv, CloudTypeOK, Tasks, Prepared, Turns, Saving
  <1>2. Progress'
    BY DEF BaseInv, CloudTypeOK, Identities, Tasks, Turns, Saving, Written, Whole, Progress
  <1>3. Known'
    BY MessageTyped DEF BaseInv, CloudTypeOK, Identities, Tasks, Prepared, Turns, Saving,
                        Written, Whole, Progress, Known
  <1>4. ToldIsKept'
    BY DEF BaseInv, CloudTypeOK, Identities, Tasks, Saving, Written, Whole, Progress, ToldIsKept
  <1>. QED BY KeyFailsBase, <1>1, <1>2, <1>3, <1>4

\* A save fails before its first key.
LEMMA SaveFailsSafe ==
  ASSUME SafeInv, NEW t \in Tasks, SaveFails(t)
  PROVE  SafeInv'
  <1>. USE DEF SafeInv, SaveFails, SaveStays, deviceVars, netVars, requestVars, screenVars
  <1>1. Turns' /\ Saving'
    BY MessageTyped DEF BaseInv, CloudTypeOK, Tasks, Prepared, Turns, Saving
  <1>2. Progress'
    BY DEF BaseInv, CloudTypeOK, Identities, Tasks, Turns, Saving, Written, Whole, Progress
  <1>3. Known'
    BY MessageTyped DEF BaseInv, CloudTypeOK, Identities, Tasks, Prepared, Turns, Saving,
                        Written, Whole, Progress, Known
  <1>4. ToldIsKept'
    BY DEF BaseInv, CloudTypeOK, Identities, Tasks, Saving, Written, Whole, Progress, ToldIsKept
  <1>. QED BY SaveFailsBase, <1>1, <1>2, <1>3, <1>4

\* RAM is what flash holds.
LEMMA PowerCutSafe ==
  ASSUME SafeInv, PowerCut
  PROVE  SafeInv'
  <1>. USE DEF SafeInv, PowerCut, Idle, history
  <1>1. Turns' /\ Saving'
    BY MessageTyped DEF BaseInv, CloudTypeOK, Tasks, Prepared, Turns, Saving
  <1>2. Progress'
    BY DEF BaseInv, CloudTypeOK, Identities, Tasks, Turns, Saving, Written, Whole, Progress
  <1>3. Known'
    BY MessageTyped DEF BaseInv, CloudTypeOK, Identities, Tasks, Prepared, Turns, Saving,
                        Written, Whole, Progress, Known
  <1>4. ToldIsKept'
    BY DEF BaseInv, CloudTypeOK, Identities, Tasks, Saving, Written, Whole, Progress, ToldIsKept
  <1>. QED BY PowerCutBase, <1>1, <1>2, <1>3, <1>4

\* A request waits.
LEMMA ReceiveBindSafe ==
  ASSUME SafeInv, NEW m \in Messages, ReceiveBind(m)
  PROVE  SafeInv'
  <1>. USE DEF SafeInv, ReceiveBind, Receives, Accepts, MqttStays, deviceVars, screenVars,
               history, saveVars
  <1>1. Turns' /\ Saving'
    BY MessageTyped DEF BaseInv, CloudTypeOK, Tasks, Prepared, Turns, Saving
  <1>2. Progress'
    BY DEF BaseInv, CloudTypeOK, Identities, Tasks, Turns, Saving, Written, Whole, Progress
  <1>3. Known'
    BY MessageTyped DEF BaseInv, CloudTypeOK, Identities, Tasks, Prepared, Turns, Saving,
                        Written, Whole, Progress, Known
  <1>4. ToldIsKept'
    BY DEF BaseInv, CloudTypeOK, Identities, Tasks, Saving, Written, Whole, Progress, ToldIsKept
  <1>. QED BY ReceiveBindBase, <1>1, <1>2, <1>3, <1>4

\* A command, which may begin to unbind the device.
LEMMA ReceiveCommandSafe ==
  ASSUME SafeInv, ~UnbindsEarly, NEW m \in Messages, ReceiveCommand(m)
  PROVE  SafeInv'
  <1>. USE DEF SafeInv, ReceiveCommand, Receives, Accepts, MqttStays, deviceVars,
               requestVars, screenVars, history, saveVars
  <1>1. Turns' /\ Saving'
    BY MessageTyped DEF BaseInv, CloudTypeOK, Tasks, Prepared, Turns, Saving
  <1>2. Progress'
    BY DEF BaseInv, CloudTypeOK, Identities, Tasks, Turns, Saving, Written, Whole, Progress
  <1>3. Known'
    BY MessageTyped DEF BaseInv, CloudTypeOK, Identities, Tasks, Prepared, Turns, Saving,
                        Written, Whole, Progress, Known
  <1>4. ToldIsKept'
    BY DEF BaseInv, CloudTypeOK, Identities, Tasks, Saving, Written, Whole, Progress, ToldIsKept
  <1>. QED BY ReceiveCommandBase, <1>1, <1>2, <1>3, <1>4

\* The owner is forgotten.
LEMMA ClearBindingSafe ==
  ASSUME SafeInv, ClearBinding
  PROVE  SafeInv'
  <1>. USE DEF SafeInv, ClearBinding, Saves, UnbindStays, netVars, requestVars, screenVars
  <1>1. Turns' /\ Saving'
    BY MessageTyped DEF BaseInv, CloudTypeOK, Tasks, Prepared, Turns, Saving
  <1>2. Progress'
    BY DEF BaseInv, CloudTypeOK, Identities, Tasks, Turns, Saving, Written, Whole, Progress
  <1>3. Known'
    BY MessageTyped DEF BaseInv, CloudTypeOK, Identities, Tasks, Prepared, Turns, Saving,
                        Written, Whole, Progress, Known
  <1>4. ToldIsKept'
    BY DEF BaseInv, CloudTypeOK, Identities, Tasks, Saving, Written, Whole, Progress, ToldIsKept
  <1>. QED BY ClearBindingBase, <1>1, <1>2, <1>3, <1>4

\* A new token.
LEMMA RegenerateTokenSafe ==
  ASSUME SafeInv, RegenerateToken
  PROVE  SafeInv'
  <1>. USE DEF SafeInv, RegenerateToken, Saves, UnbindStays, netVars, requestVars,
               screenVars
  <1>1. Turns' /\ Saving'
    BY MessageTyped DEF BaseInv, CloudTypeOK, Tasks, Prepared, Turns, Saving
  <1>2. Progress'
    BY DEF BaseInv, CloudTypeOK, Identities, Tasks, Turns, Saving, Written, Whole, Progress
  <1>3. Known'
    BY MessageTyped DEF BaseInv, CloudTypeOK, Identities, Tasks, Prepared, Turns, Saving,
                        Written, Whole, Progress, Known
  <1>4. ToldIsKept'
    BY DEF BaseInv, CloudTypeOK, Identities, Tasks, Saving, Written, Whole, Progress, ToldIsKept
  <1>. QED BY RegenerateTokenBase, <1>1, <1>2, <1>3, <1>4

\* The unbind is over.
LEMMA UnbindEndsSafe ==
  ASSUME SafeInv, UnbindEnds
  PROVE  SafeInv'
  <1>. USE DEF SafeInv, UnbindEnds, MqttStays, deviceVars, netVars, requestVars, screenVars,
               history, saveVars
  <1>1. Turns' /\ Saving'
    BY MessageTyped DEF BaseInv, CloudTypeOK, Tasks, Prepared, Turns, Saving
  <1>2. Progress'
    BY DEF BaseInv, CloudTypeOK, Identities, Tasks, Turns, Saving, Written, Whole, Progress
  <1>3. Known'
    BY MessageTyped DEF BaseInv, CloudTypeOK, Identities, Tasks, Prepared, Turns, Saving,
                        Written, Whole, Progress, Known
  <1>4. ToldIsKept'
    BY DEF BaseInv, CloudTypeOK, Identities, Tasks, Saving, Written, Whole, Progress, ToldIsKept
  <1>. QED BY UnbindEndsBase, <1>1, <1>2, <1>3, <1>4

\* The tap on Allow.
LEMMA AllowSafe ==
  ASSUME SafeInv, Allow
  PROVE  SafeInv'
  <1>. USE DEF SafeInv, Allow, BindTaps, UiStays, deviceVars, netVars, screenVars, saveVars
  <1>1. Turns' /\ Saving'
    BY MessageTyped DEF BaseInv, CloudTypeOK, Tasks, Prepared, Turns, Saving
  <1>2. Progress'
    BY DEF BaseInv, CloudTypeOK, Identities, Tasks, Turns, Saving, Written, Whole, Progress
  <1>3. Known'
    BY MessageTyped DEF BaseInv, CloudTypeOK, Identities, Tasks, Prepared, Turns, Saving,
                        Written, Whole, Progress, Known
  <1>4. ToldIsKept'
    BY DEF BaseInv, CloudTypeOK, Identities, Tasks, Saving, Written, Whole, Progress, ToldIsKept
  <1>. QED BY AllowBase, <1>1, <1>2, <1>3, <1>4

\* The binding in RAM.
LEMMA SetBoundUserSafe ==
  ASSUME SafeInv, SetBoundUser
  PROVE  SafeInv'
  <1>. USE DEF SafeInv, SetBoundUser, Saves, UiStays, netVars, requestVars, screenVars
  <1>1. Turns' /\ Saving'
    BY MessageTyped DEF BaseInv, CloudTypeOK, Tasks, Prepared, Turns, Saving
  <1>2. Progress'
    BY DEF BaseInv, CloudTypeOK, Identities, Tasks, Turns, Saving, Written, Whole, Progress
  <1>3. Known'
    BY MessageTyped DEF BaseInv, CloudTypeOK, Identities, Tasks, Prepared, Turns, Saving,
                        Written, Whole, Progress, Known
  <1>4. ToldIsKept'
    BY DEF BaseInv, CloudTypeOK, Identities, Tasks, Saving, Written, Whole, Progress, ToldIsKept
  <1>. QED BY SetBoundUserBase, <1>1, <1>2, <1>3, <1>4

\* The binding is on flash, and the cloud is told.
LEMMA ConfirmSafe ==
  ASSUME SafeInv, Confirm
  PROVE  SafeInv'
  <1>. USE DEF SafeInv, Confirm, Idle, UiStays, deviceVars, netVars, requestVars, saveVars
  <1>1. Turns' /\ Saving'
    BY MessageTyped DEF BaseInv, CloudTypeOK, Tasks, Prepared, Turns, Saving
  <1>2. Progress'
    BY DEF BaseInv, CloudTypeOK, Identities, Tasks, Turns, Saving, Written, Whole, Progress
  <1>3. Known'
    BY MessageTyped DEF BaseInv, CloudTypeOK, Identities, Tasks, Prepared, Turns, Saving,
                        Written, Whole, Progress, Known
  <1>4. ToldIsKept'
    BY DEF BaseInv, CloudTypeOK, Identities, Tasks, Saving, Written, Whole, Progress, ToldIsKept
  <1>. QED BY ConfirmBase, <1>1, <1>2, <1>3, <1>4

\* Popups come and go.
LEMMA ScreenSafe ==
  ASSUME SafeInv, TickShows \/ QrShow \/ QrTap \/ QrTimeout
  PROVE  SafeInv'
  <1>. USE DEF SafeInv, TickShows, QrShow, QrTap, QrTimeout, QrStays, UiStays, deviceVars,
               netVars, requestVars, history, saveVars
  <1>1. Turns' /\ Saving'
    BY MessageTyped DEF BaseInv, CloudTypeOK, Tasks, Prepared, Turns, Saving
  <1>2. Progress'
    BY DEF BaseInv, CloudTypeOK, Identities, Tasks, Turns, Saving, Written, Whole, Progress
  <1>3. Known'
    BY MessageTyped DEF BaseInv, CloudTypeOK, Identities, Tasks, Prepared, Turns, Saving,
                        Written, Whole, Progress, Known
  <1>4. ToldIsKept'
    BY DEF BaseInv, CloudTypeOK, Identities, Tasks, Saving, Written, Whole, Progress, ToldIsKept
  <1>. QED BY ScreenBase, <1>1, <1>2, <1>3, <1>4

\* A request has run out.
LEMMA TickExpiresSafe ==
  ASSUME SafeInv, TickExpires
  PROVE  SafeInv'
  <1>. USE DEF SafeInv, TickExpires, UiStays, deviceVars, netVars, requestVars, screenVars,
               history, saveVars
  <1>1. Turns' /\ Saving'
    BY MessageTyped DEF BaseInv, CloudTypeOK, Tasks, Prepared, Turns, Saving
  <1>2. Progress'
    BY DEF BaseInv, CloudTypeOK, Identities, Tasks, Turns, Saving, Written, Whole, Progress
  <1>3. Known'
    BY MessageTyped DEF BaseInv, CloudTypeOK, Identities, Tasks, Prepared, Turns, Saving,
                        Written, Whole, Progress, Known
  <1>4. ToldIsKept'
    BY DEF BaseInv, CloudTypeOK, Identities, Tasks, Saving, Written, Whole, Progress, ToldIsKept
  <1>. QED BY TickExpiresBase, <1>1, <1>2, <1>3, <1>4

\* It is refused, or the one that took its place.
LEMMA TickDeniesSafe ==
  ASSUME SafeInv, TickDenies
  PROVE  SafeInv'
  <1>. USE DEF SafeInv, TickDenies, Refuses, Idle, UiStays, deviceVars, netVars,
               requestVars, history, saveVars
  <1>1. Turns' /\ Saving'
    BY MessageTyped DEF BaseInv, CloudTypeOK, Tasks, Prepared, Turns, Saving
  <1>2. Progress'
    BY DEF BaseInv, CloudTypeOK, Identities, Tasks, Turns, Saving, Written, Whole, Progress
  <1>3. Known'
    BY MessageTyped DEF BaseInv, CloudTypeOK, Identities, Tasks, Prepared, Turns, Saving,
                        Written, Whole, Progress, Known
  <1>4. ToldIsKept'
    BY DEF BaseInv, CloudTypeOK, Identities, Tasks, Saving, Written, Whole, Progress, ToldIsKept
  <1>. QED BY TickDeniesBase, <1>1, <1>2, <1>3, <1>4

\* The tap on Deny.
LEMMA DenySafe ==
  ASSUME SafeInv, Deny
  PROVE  SafeInv'
  <1>. USE DEF SafeInv, Deny, Refuses, UiStays, deviceVars, netVars, history, saveVars
  <1>1. Turns' /\ Saving'
    BY MessageTyped DEF BaseInv, CloudTypeOK, Tasks, Prepared, Turns, Saving
  <1>2. Progress'
    BY DEF BaseInv, CloudTypeOK, Identities, Tasks, Turns, Saving, Written, Whole, Progress
  <1>3. Known'
    BY MessageTyped DEF BaseInv, CloudTypeOK, Identities, Tasks, Prepared, Turns, Saving,
                        Written, Whole, Progress, Known
  <1>4. ToldIsKept'
    BY DEF BaseInv, CloudTypeOK, Identities, Tasks, Saving, Written, Whole, Progress, ToldIsKept
  <1>. QED BY DenyBase, <1>1, <1>2, <1>3, <1>4

\* The binding could not be saved.
LEMMA ConfirmFailsSafe ==
  ASSUME SafeInv, ConfirmFails
  PROVE  SafeInv'
  <1>. USE DEF SafeInv, ConfirmFails, Idle, UiStays, deviceVars, netVars, requestVars,
               history, saveVars
  <1>1. Turns' /\ Saving'
    BY MessageTyped DEF BaseInv, CloudTypeOK, Tasks, Prepared, Turns, Saving
  <1>2. Progress'
    BY DEF BaseInv, CloudTypeOK, Identities, Tasks, Turns, Saving, Written, Whole, Progress
  <1>3. Known'
    BY MessageTyped DEF BaseInv, CloudTypeOK, Identities, Tasks, Prepared, Turns, Saving,
                        Written, Whole, Progress, Known
  <1>4. ToldIsKept'
    BY DEF BaseInv, CloudTypeOK, Identities, Tasks, Saving, Written, Whole, Progress, ToldIsKept
  <1>. QED BY ConfirmFailsBase, <1>1, <1>2, <1>3, <1>4

\* The connection and the clock.
LEMMA OutsideSafe ==
  ASSUME SafeInv, Connection \/ Waits
  PROVE  SafeInv'
  <1>. USE DEF SafeInv, Connection, MqttStays, Waits, deviceVars, netVars, requestVars,
               screenVars, history, saveVars
  <1>1. Turns' /\ Saving'
    BY MessageTyped DEF BaseInv, CloudTypeOK, Tasks, Prepared, Turns, Saving
  <1>2. Progress'
    BY DEF BaseInv, CloudTypeOK, Identities, Tasks, Turns, Saving, Written, Whole, Progress
  <1>3. Known'
    BY MessageTyped DEF BaseInv, CloudTypeOK, Identities, Tasks, Prepared, Turns, Saving,
                        Written, Whole, Progress, Known
  <1>4. ToldIsKept'
    BY DEF BaseInv, CloudTypeOK, Identities, Tasks, Saving, Written, Whole, Progress, ToldIsKept
  <1>. QED BY OutsideBase, <1>1, <1>2, <1>3, <1>4

LEMMA SafeNext ==
  ASSUME SafeInv, ~UnbindsEarly, [CloudNext]_vars
  PROVE  SafeInv'
  <1>1. CASE MqttStep
    BY <1>1, OutsideSafe, ReceiveBindSafe, ReceiveCommandSafe, ClearBindingSafe,
       RegenerateTokenSafe, UnbindEndsSafe, SaveKeySafe, KeyFailsSafe,
       SaveFailsSafe
       DEF MqttStep, SaveStep, Tasks
  <1>2. CASE UiStep
    BY <1>2, TickExpiresSafe, TickDeniesSafe, ScreenSafe, SetBoundUserSafe, ConfirmSafe,
       ConfirmFailsSafe, SaveKeySafe, KeyFailsSafe,
       SaveFailsSafe
       DEF UiStep, SaveStep, Tasks
  <1>3. CASE Allow \/ Deny \/ QrShow \/ QrTap \/ QrTimeout \/ Waits \/ PowerCut
    BY <1>3, AllowSafe, DenySafe, ScreenSafe, OutsideSafe, PowerCutSafe
  <1>4. CASE UNCHANGED vars
    BY <1>4, BaseNext DEF vars, deviceVars, netVars, requestVars, saveVars, screenVars,
       history, SafeInv,
       Turns, Saving, Written, Whole, Progress, Known, ToldIsKept
  <1>. QED BY <1>1, <1>2, <1>3, <1>4 DEF CloudNext

LEMMA SafeInvariant ==
  ASSUME ~UnbindsEarly
  PROVE  CloudSpec => []SafeInv
  <1>1. SafeInv /\ [CloudNext]_vars => SafeInv'
    BY SafeNext
  <1>. QED BY <1>1, SafeInit, PTL DEF CloudSpec

(***************************************************************************)
(* Who was told by a bind_ack that he owns the device owns it after any    *)
(* power cut: set_bound_user has the binding on flash before the answer,   *)
(* unless a write of the last save failed, which nobody looks at.          *)
(***************************************************************************)
THEOREM ToldOwnersStay ==
  ASSUME ~UnbindsEarly
  PROVE  CloudSpec => []ToldIsKept
  <1>1. SafeInv => ToldIsKept
    BY DEF SafeInv
  <1>. QED BY <1>1, SafeInvariant, PTL

(***************************************************************************)
(* When neither task is at the identity, flash and RAM agree, unless the   *)
(* last save could not open NVS or write one of its keys.                  *)
(***************************************************************************)
THEOREM FlashFollowsRam ==
  ASSUME ~UnbindsEarly
  PROVE  CloudSpec => []StoredIsCurrent
  <1>1. SafeInv => StoredIsCurrent
    BY DEF SafeInv, Progress, StoredIsCurrent, Quiet
  <1>. QED BY <1>1, SafeInvariant, PTL

(***************************************************************************)
(* The owner's cloud knows the device's token, also after a power cut in   *)
(* any save, as long as no unbind draws a token under a waiting request    *)
(* and no save has failed since the last complete one.                     *)
(***************************************************************************)
THEOREM OwnersReachTheDevice ==
  ASSUME ~UnbindsEarly
  PROVE  CloudSpec => []OwnerKnowsToken
  <1>1. SafeInv => OwnerKnowsToken
    BY DEF SafeInv, Progress, Known, OwnerKnowsToken, Quiet
  <1>. QED BY <1>1, SafeInvariant, PTL
-----------------------------------------------------------------------------
(***************************************************************************)
(* The replay cache.  It is a ring: the nonce accepted age messages ago is *)
(* at the place age + 1 before next, until Cache others have been accepted. *)
(***************************************************************************)
Nonces == {m.nonce : m \in Messages}

Place(n, age) == IF age < n THEN n - 1 - age ELSE n - 1 - age + Cache

CacheIsRecent ==
    \A i \in 1 .. Len(recent) :
        Len(recent) - i < Cache => cache[Place(next, Len(recent) - i)] = recent[i]

RingTyped ==
    /\ cache \in [0 .. Cache - 1 -> Nonces \cup {None}] /\ next \in 0 .. Cache - 1
    /\ recent \in Seq(Nonces) /\ Len(recent) <= Cache + 1

ReplayInv == RingTyped /\ CacheIsRecent /\ NoReplay

\* What Last keeps of a sequence that has just grown by one.
LEMMA Lasting ==
  ASSUME RingTyped, NEW e \in Nonces, recent' = Last(Append(recent, e)),
         NEW d, d = IF Len(recent) = Cache + 1 THEN 1 ELSE 0
  PROVE  /\ recent' \in Seq(Nonces)
         /\ Len(recent') = Len(recent) + 1 - d /\ Len(recent') <= Cache + 1
         /\ \A i \in 1 .. Len(recent) - d :
              recent'[i] = recent[i + d] /\ i + d \in 1 .. Len(recent)
         /\ recent'[Len(recent')] = e
  <1>. DEFINE a == Append(recent, e)
  <1>0. Cache \in Nat \ {0} /\ Len(recent) \in Nat /\ d \in {0, 1} /\ (d = 1 => Len(recent) > 0)
        /\ recent \in Seq(Nonces) /\ Len(recent) <= Cache + 1
    BY CloudAssumption DEF RingTyped
  <1>1. /\ a \in Seq(Nonces) /\ Len(a) = Len(recent) + 1
        /\ \A i \in 1 .. Len(recent) : a[i] = recent[i]
        /\ a[Len(recent) + 1] = e
    BY <1>0
  <1>. HIDE DEF a
  <1>2. recent' = SubSeq(a, 1 + d, Len(recent) + 1)
    BY <1>0, <1>1 DEF Last, a
  <1>3. \A i \in (1 + d) .. (Len(recent) + 1) : a[i] \in Nonces
    BY <1>0, <1>1, ElementOfSeq
  <1>4. /\ recent' \in Seq(Nonces) /\ Len(recent') = Len(recent) + 1 - d
        /\ \A i \in 1 .. Len(recent) + 1 - d : recent'[i] = a[i + d]
    <2>1. 1 + d \in Int /\ Len(recent) + 1 \in Int /\ 1 + d <= Len(recent) + 1
      BY <1>0
    <2>2. /\ recent' \in Seq(Nonces)
          /\ Len(recent') = IF 1 + d <= Len(recent) + 1 THEN (Len(recent) + 1) - (1 + d) + 1 ELSE 0
          /\ \A i \in 1 .. (Len(recent) + 1) - (1 + d) + 1 : recent'[i] = a[(1 + d) + i - 1]
      BY <1>2, <1>3, <2>1, SubSeqProperties
    <2>3. (Len(recent) + 1) - (1 + d) + 1 = Len(recent) + 1 - d
      BY <1>0
    <2>4. Len(recent') = Len(recent) + 1 - d
      BY <2>1, <2>2, <2>3
    <2>5. ASSUME NEW i \in 1 .. Len(recent) + 1 - d
          PROVE  recent'[i] = a[i + d]
      <3>1. (1 + d) + i - 1 = i + d
        BY <1>0
      <3>. QED BY <2>2, <2>3, <3>1
    <2>. QED BY <2>2, <2>4, <2>5
  <1>5. ASSUME NEW i \in 1 .. Len(recent) - d
        PROVE  recent'[i] = recent[i + d] /\ i + d \in 1 .. Len(recent)
    <2>1. i + d \in 1 .. Len(recent) /\ i \in 1 .. Len(recent) + 1 - d
      BY <1>0
    <2>. QED BY <1>1, <1>4, <2>1
  <1>6. Len(recent') <= Cache + 1 /\ recent'[Len(recent')] = e
    <2>1. Len(recent') \in 1 .. Len(recent) + 1 - d /\ Len(recent') + d = Len(recent) + 1
      BY <1>0, <1>4
    <2>. QED BY <1>0, <1>1, <1>4, <2>1
  <1>. QED BY <1>4, <1>5, <1>6

\* A message that is accepted differs from all that are in the ring, and takes
\* the place of the oldest.
LEMMA AcceptsReplay ==
  ASSUME ReplayInv, NEW m \in Messages, Accepts(m)
  PROVE  ReplayInv'
  <1>. DEFINE d == IF Len(recent) = Cache + 1 THEN 1 ELSE 0
              n == m.nonce
  <1>0. /\ Cache \in Nat \ {0} /\ next \in 0 .. Cache - 1 /\ d \in {0, 1}
        /\ Len(recent) \in 0 .. Cache + 1 /\ n \in Nonces
    BY CloudAssumption DEF ReplayInv, RingTyped, Nonces
  <1>1. /\ recent' \in Seq(Nonces) /\ Len(recent') = Len(recent) + 1 - d
        /\ Len(recent') <= Cache + 1
        /\ \A i \in 1 .. Len(recent) - d :
              recent'[i] = recent[i + d] /\ i + d \in 1 .. Len(recent)
        /\ recent'[Len(recent')] = n
    <2>1. RingTyped /\ recent' = Last(Append(recent, n))
      BY DEF ReplayInv, Accepts
    <2>2. d = IF Len(recent) = Cache + 1 THEN 1 ELSE 0
      OBVIOUS
    <2>. HIDE DEF n, d
    <2>. QED BY <1>0, <2>1, <2>2, Lasting
  <1>2. /\ cache' \in [0 .. Cache - 1 -> Nonces \cup {None}]
        /\ cache'[next] = n
        /\ \A p \in 0 .. Cache - 1 : cache[p] # n /\ (p # next => cache'[p] = cache[p])
    BY <1>0 DEF ReplayInv, RingTyped, Accepts
  <1>3. next' = IF next + 1 = Cache THEN 0 ELSE next + 1
    BY <1>0 DEF Accepts
  <1>. HIDE DEF d, n
  <1>4. ASSUME NEW age \in 0 .. Cache - 1
        PROVE  /\ Place(next, age) \in 0 .. Cache - 1
               /\ age + 1 < Cache =>
                    Place(next, age) # next /\ Place(next', age + 1) = Place(next, age)
               /\ Place(next', 0) = next
    BY <1>0, <1>3 DEF Place
  <1>5. ASSUME NEW i \in 1 .. Len(recent) - d
        PROVE  /\ Len(recent) - (i + d) \in 0 .. Cache - 1
               /\ recent'[i] = cache[Place(next, Len(recent) - (i + d))]
               /\ Len(recent') - i = (Len(recent) - (i + d)) + 1
    <2>1. Len(recent) - (i + d) \in 0 .. Cache - 1
      BY <1>0 DEF d
    <2>2. i + d \in 1 .. Len(recent) /\ recent'[i] = recent[i + d]
      BY <1>1
    <2>3. recent[i + d] = cache[Place(next, Len(recent) - (i + d))]
      BY <1>0, <2>1, <2>2 DEF ReplayInv, CacheIsRecent
    <2>4. Len(recent') - i = (Len(recent) - (i + d)) + 1
      BY <1>0, <1>1
    <2>. QED BY <2>1, <2>2, <2>3, <2>4
  <1>6. \A i \in 1 .. Len(recent') : i = Len(recent') \/ i \in 1 .. Len(recent) - d
    BY <1>0, <1>1
  <1>7. RingTyped'
    BY <1>0, <1>1, <1>2, <1>3 DEF RingTyped
  <1>8. CacheIsRecent'
    <2>. SUFFICES ASSUME NEW i \in 1 .. Len(recent'), Len(recent') - i < Cache
                  PROVE  cache'[Place(next', Len(recent') - i)] = recent'[i]
      BY DEF CacheIsRecent
    <2>1. CASE i = Len(recent')
      <3>1. Len(recent') - i = 0 /\ 0 \in 0 .. Cache - 1
        BY <1>0, <1>1, <2>1
      <3>. QED BY <1>1, <1>2, <1>4, <2>1, <3>1
    <2>2. CASE i \in 1 .. Len(recent) - d
      <3>. DEFINE age == Len(recent) - (i + d)
      <3>1. age \in 0 .. Cache - 1 /\ Len(recent') - i = age + 1 /\ age + 1 < Cache
        BY <1>5, <2>2
      <3>2. /\ Place(next', age + 1) = Place(next, age)
            /\ Place(next, age) # next /\ Place(next, age) \in 0 .. Cache - 1
        BY <1>4, <3>1
      <3>3. recent'[i] = cache[Place(next, age)]
        BY <1>5, <2>2
      <3>. HIDE DEF age
      <3>. QED BY <1>2, <3>1, <3>2, <3>3
    <2>. QED BY <1>6, <2>1, <2>2
  <1>9. NoReplay'
    <2>1. \A i \in 1 .. Len(recent) - d : recent'[i] # n
      BY <1>2, <1>4, <1>5
    <2>2. ASSUME NEW i \in 1 .. Len(recent) - d, NEW j \in 1 .. Len(recent) - d,
                 recent'[i] = recent'[j]
          PROVE  i = j
      <3>1. i + d = j + d
        BY <1>1, <2>2 DEF ReplayInv, NoReplay
      <3>. QED BY <1>0, <3>1
    <2>. QED BY <1>1, <1>6, <2>1, <2>2 DEF NoReplay
  <1>. QED BY <1>7, <1>8, <1>9 DEF ReplayInv

LEMMA ReplayEmpty ==
  /\ CloudInit => ReplayInv
  /\ PowerCut => ReplayInv'
  <1>1. 0 \in 0 .. Cache - 1 /\ 0 <= Cache + 1
    BY CloudAssumption
  <1>2. CloudInit => ReplayInv
    BY <1>1 DEF CloudInit, ReplayInv, RingTyped, CacheIsRecent, NoReplay
  <1>3. PowerCut => ReplayInv'
    BY <1>1 DEF PowerCut, ReplayInv, RingTyped, CacheIsRecent, NoReplay
  <1>. QED BY <1>2, <1>3

LEMMA ReplayStays ==
  ASSUME ReplayInv, UNCHANGED <<cache, next, recent>>
  PROVE  ReplayInv'
  BY DEF ReplayInv, RingTyped, CacheIsRecent, NoReplay

\* Nothing but a message that is accepted, and the power, touches the ring.
LEMMA ReplayNext ==
  ASSUME ReplayInv, [CloudNext]_vars
  PROVE  ReplayInv'
  <1>. USE DEF netVars
  <1>1. CASE \E m \in Messages : ReceiveBind(m) \/ ReceiveCommand(m)
    BY <1>1, AcceptsReplay DEF ReceiveBind, ReceiveCommand, Receives
  <1>2. CASE Connection \/ ClearBinding \/ RegenerateToken \/ UnbindEnds
    BY <1>2, ReplayStays
       DEF Connection, ClearBinding, RegenerateToken, UnbindEnds, UnbindStays
  <1>3. CASE \E t \in Tasks : SaveStep(t)
    BY <1>3, ReplayStays DEF SaveStep, SaveKey, KeyFails, SaveFails, SaveStays
  <1>4. CASE \/ TickExpires \/ TickDenies \/ TickShows
             \/ SetBoundUser \/ Confirm \/ ConfirmFails
    BY <1>4, ReplayStays
       DEF TickExpires, TickDenies, TickShows, SetBoundUser, Confirm, ConfirmFails, UiStays
  <1>5. CASE Allow \/ Deny \/ QrShow \/ QrTap \/ QrTimeout \/ Waits
    BY <1>5, ReplayStays DEF Allow, Deny, QrShow, QrTap, QrTimeout, Waits, UiStays
  <1>6. CASE PowerCut
    BY <1>6, ReplayEmpty
  <1>7. CASE UNCHANGED vars
    BY <1>7, ReplayStays DEF vars
  <1>. QED BY <1>1, <1>2, <1>3, <1>4, <1>5, <1>6, <1>7
       DEF CloudNext, MqttStep, UiStep, Tasks

(***************************************************************************)
(* secure_msg_accept_message_window with a ring of REPLAY_CACHE_SIZE       *)
(* nonces: whatever is accepted, in whatever order the copies arrive, none *)
(* of the last Cache + 1 messages is a copy of another.                    *)
(***************************************************************************)
THEOREM NothingIsReplayed == CloudSpec => []NoReplay
  <1>1. CloudInit => ReplayInv
    BY ReplayEmpty
  <1>2. ReplayInv /\ [CloudNext]_vars => ReplayInv'
    BY ReplayNext
  <1>3. ReplayInv => NoReplay
    BY DEF ReplayInv
  <1>. QED BY <1>1, <1>2, <1>3, PTL DEF CloudSpec
=============================================================================
