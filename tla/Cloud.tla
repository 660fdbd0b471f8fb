-------------------------------- MODULE Cloud --------------------------------
(***************************************************************************)
(* How an owner is bound to the device and commands it: the identity in    *)
(* RAM and NVS (mqtt_client.c), the messages of the broker and the request *)
(* that waits for a tap (cloud_api.c), the replay cache (secure_msg.c) and *)
(* the popups (bind_popup.c, qr_popup.c, bind_popup_timer_cb of main.c).   *)
(* The MQTT task and the LVGL task share all of it; power may fail at any  *)
(* step.  A message that verifies was made with the device's token and, if *)
(* a command, for its owner; one outside the time window is dropped, which *)
(* the model does not tell from one never delivered.                       *)
(***************************************************************************)
EXTENDS Naturals, Sequences

CONSTANTS
    Users,       \* the accounts
    None,        \* no account, no request
    Messages,    \* the messages the cloud may send: nonce, kind, user, token
    Cache,       \* REPLAY_CACHE_SIZE
    MaxToken,    \* bound on the number of token changes
    Faults,      \* may power fail, may NVS not open, may a write of it fail?
    UnbindsEarly \* may an unbind arrive while a request waits for the tap?

Kinds == {"bind", "unbind", "other"}

ASSUME CloudAssumption ==
    /\ None \notin Users /\ None \notin Messages
    /\ Cache \in Nat \ {0} /\ MaxToken \in Nat /\ {Faults, UnbindsEarly} \subseteq BOOLEAN
    /\ \A m \in Messages : m.kind \in Kinds /\ m.user \in Users /\ m.token \in 0 .. MaxToken

Tasks == {"mqtt", "ui"}

VARIABLES
    user, bound, token,   \* s_device_info; tokens are numbered as they are drawn
    nvs,         \* the same three on flash
    saving,      \* the key each task's save_device_info writes next, or "no"
    missed,      \* the tasks whose save under way failed to write a key
    online,      \* s_state = MQTT_STATE_CONNECTED
    cache, next, \* s_replay, s_replay_next
    pending,     \* s_bind_pending with the request
    old,         \* the request has waited for BIND_CONFIRM_TIMEOUT_MS
    mqtt,        \* where the MQTT task is
    ui,          \* where the LVGL task is, and the request it resolves
    popup,       \* s_bind_popup: the request it was shown for, or None
    qr,          \* s_qr_popup
    closing,     \* s_close_timer of the QR popup
    ack,         \* the retained bind_ack: a request with its answer, or None
    known,       \* history: the token each account was last confirmed with
    allowed,     \* history: accounts on whose popup Allow was tapped
    unasked,     \* history: accounts that a tap on another's popup bound
    told,        \* history: the account told that it is bound, None if undone
    unsaved,     \* history: a save or a key of it failed, and none was complete since
    recent       \* history: the last Cache + 1 nonces accepted since boot

deviceVars == <<user, bound, token>>
netVars == <<online, cache, next, recent>>
requestVars == <<pending, old>>
screenVars == <<popup, qr, closing>>
saveVars == <<saving, missed>>
history == <<known, allowed, unasked, told, unsaved>>
vars == <<deviceVars, nvs, saveVars, netVars, requestVars, mqtt, ui, screenVars, ack, history>>

Idle == [at |-> "idle", req |-> None]

\* load_device_info of a device that was set up before, with or without owner.
CloudInit ==
    /\ user \in Users \cup {None} /\ bound = (user # None) /\ token = 0
    /\ nvs = [user |-> user, bound |-> bound, token |-> token]
    /\ saving = [t \in Tasks |-> "no"] /\ missed = {}
    /\ online = FALSE
    /\ cache = [i \in 0 .. Cache - 1 |-> None] /\ next = 0
    /\ pending = None /\ old = FALSE
    /\ mqtt = "idle" /\ ui = Idle
    /\ popup = None /\ qr = FALSE /\ closing = FALSE
    /\ ack = None /\ known = [u \in Users |-> 0]
    /\ allowed = {user} \ {None} /\ unasked = {} /\ told = None /\ unsaved = FALSE
    /\ recent = <<>>

-----------------------------------------------------------------------------
(* save_device_info, in either task: key after key *)

\* What the keys of a save amount to when the last one has had its turn.
SaveEnds(t) ==
    /\ unsaved' = (unsaved /\ (saving'[t] # "no" \/ t \in missed))
    /\ missed' = IF saving'[t] = "no" THEN missed \ {t} ELSE missed

SaveStays == UNCHANGED <<deviceVars, netVars, requestVars, mqtt, screenVars, ack,
                         known, allowed, unasked, told>>

\* Mutant: the last key is forgotten.
SaveKeyShort(t) ==
    /\ saving[t] # "no"
    /\ \/ saving[t] = "user" /\ nvs' = [nvs EXCEPT !.user = user]
          /\ saving' = [saving EXCEPT ![t] = "token"]
       \/ saving[t] = "token" /\ nvs' = [nvs EXCEPT !.token = token]
          /\ saving' = [saving EXCEPT ![t] = "no"]
    /\ SaveEnds(t)
    /\ UNCHANGED ui
    /\ SaveStays

SaveKey(t) ==
    /\ saving[t] # "no"
    /\ \/ saving[t] = "user" /\ nvs' = [nvs EXCEPT !.user = user]
          /\ saving' = [saving EXCEPT ![t] = "token"]
       \/ saving[t] = "token" /\ nvs' = [nvs EXCEPT !.token = token]
          /\ saving' = [saving EXCEPT ![t] = "bound"]
       \/ saving[t] = "bound" /\ nvs' = [nvs EXCEPT !.bound = bound]
          /\ saving' = [saving EXCEPT ![t] = "no"]
    /\ SaveEnds(t)
    /\ UNCHANGED ui
    /\ SaveStays

KeyAfter == [user |-> "token", token |-> "bound", bound |-> "no"]

\* nvs_set_str or nvs_set_u8 fails: the error is ignored, the other keys are
\* written, and the save returns ESP_OK.
KeyFails(t) ==
    /\ Faults
    /\ saving[t] # "no"
    /\ saving' = [saving EXCEPT ![t] = KeyAfter[saving[t]]]
    /\ unsaved' = TRUE
    /\ missed' = IF saving'[t] = "no" THEN missed \ {t} ELSE missed \cup {t}
    /\ UNCHANGED <<nvs, ui>>
    /\ SaveStays

Saves(t) == saving' = [saving EXCEPT ![t] = "user"]

\* nvs_open fails.  Only set_bound_user looks at the error.
SaveFails(t) ==
    /\ Faults
    /\ saving[t] = "user"
    /\ saving' = [saving EXCEPT ![t] = "no"]
    /\ unsaved' = TRUE
    /\ ui' = IF t = "ui" THEN [ui EXCEPT !.at = "failed"] ELSE ui
    /\ UNCHANGED <<nvs, missed>>
    /\ SaveStays

\* Power fails and comes back: RAM is what load_device_info finds.
PowerCut ==
    /\ Faults
    /\ user' = nvs.user /\ bound' = nvs.bound /\ token' = nvs.token
    /\ saving' = [t \in Tasks |-> "no"] /\ missed' = {}
    /\ online' = FALSE
    /\ cache' = [i \in 0 .. Cache - 1 |-> None] /\ next' = 0 /\ recent' = <<>>
    /\ pending' = None /\ old' = FALSE
    /\ mqtt' = "idle" /\ ui' = Idle
    /\ popup' = None /\ qr' = FALSE /\ closing' = FALSE
    /\ UNCHANGED <<nvs, ack, history>>

-----------------------------------------------------------------------------
(* mqtt_event_handler and the handling of messages, in the MQTT task *)

MqttStays == UNCHANGED <<deviceVars, nvs, saveVars, screenVars, ui, ack, history>>

\* MQTT_EVENT_CONNECTED, and MQTT_EVENT_DISCONNECTED or MQTT_EVENT_ERROR.
Connection ==
    /\ mqtt = "idle"
    /\ online' = ~online
    /\ UNCHANGED <<cache, next, recent, requestVars, mqtt>>
    /\ MqttStays

Last(s) == SubSeq(s, IF Len(s) > Cache + 1 THEN 2 ELSE 1, Len(s))

\* Mutant: an accepted nonce does not move the cache on.
AcceptsInPlace(m) ==
    /\ \A i \in DOMAIN cache : cache[i] # m.nonce
    /\ cache' = [cache EXCEPT ![next] = m.nonce]
    /\ UNCHANGED next
    /\ recent' = Last(Append(recent, m.nonce))

\* secure_msg_accept_message_window
Accepts(m) ==
    /\ \A i \in DOMAIN cache : cache[i] # m.nonce
    /\ cache' = [cache EXCEPT ![next] = m.nonce]
    /\ next' = (next + 1) % Cache
    /\ recent' = Last(Append(recent, m.nonce))

\* Mutant: the signature is not checked.
ReceivesUnsigned(m) == mqtt = "idle" /\ online /\ Accepts(m) /\ UNCHANGED online

\* A message is taken if it verifies with the token of now.
Receives(m) == mqtt = "idle" /\ online /\ m.token = token /\ Accepts(m) /\ UNCHANGED online

\* cloud_api_handle_bind: the request replaces the one that waits.
ReceiveBind(m) ==
    /\ m.kind = "bind" /\ Receives(m)
    /\ pending' = m /\ old' = FALSE
    /\ UNCHANGED mqtt
    /\ MqttStays

\* cloud_api_handle_command and on_cloud_command; what other commands do is
\* the business of the modules they reach.
ReceiveCommand(m) ==
    /\ m.kind \in {"unbind", "other"}
    /\ bound /\ user = m.user /\ Receives(m)
    /\ m.kind = "unbind" =>
           token < MaxToken /\ (UnbindsEarly \/ (pending = None /\ ui.at = "idle"))
    /\ mqtt' = IF m.kind = "unbind" THEN "clear" ELSE "idle"
    /\ UNCHANGED requestVars
    /\ MqttStays

UnbindStays == UNCHANGED <<nvs, missed, netVars, requestVars, screenVars, ui, ack,
                           known, allowed, unasked, unsaved>>

\* mqtt_client_clear_binding
ClearBinding ==
    /\ mqtt = "clear"
    /\ user' = None /\ bound' = FALSE /\ told' = None
    /\ Saves("mqtt") /\ mqtt' = "rotate"
    /\ UNCHANGED token
    /\ UnbindStays

\* mqtt_client_regenerate_token
RegenerateToken ==
    /\ mqtt = "rotate" /\ saving["mqtt"] = "no"
    /\ token' = token + 1
    /\ Saves("mqtt") /\ mqtt' = "ends"
    /\ UNCHANGED <<user, bound, told>>
    /\ UnbindStays

UnbindEnds ==
    /\ mqtt = "ends" /\ saving["mqtt"] = "no"
    /\ mqtt' = "idle"
    /\ UNCHANGED <<netVars, requestVars>>
    /\ MqttStays

-----------------------------------------------------------------------------
(* cloud_api_resolve_bind, in the LVGL task *)

UiStays == UNCHANGED <<nvs, netVars, mqtt>>

\* cloud_api_publish_bind_ack: retained, lost while offline.
Publishes(req, answer) ==
    ack' = IF online THEN [req |-> req, answer |-> answer] ELSE ack

\* Takes the request that waits now, and refuses it.
Refuses ==
    /\ pending # None
    /\ pending' = None /\ old' = FALSE
    /\ Publishes(pending, FALSE)

BindTaps(at) == [at |-> at, req |-> pending]

\* Mutant: the timeout confirms.
TickDeniesWrong ==
    /\ ui.at = "expired" /\ pending # None
    /\ pending' = None /\ old' = FALSE
    /\ ui' = BindTaps("bind")
    /\ UNCHANGED <<deviceVars, saveVars, screenVars, ack, history>>
    /\ UiStays

\* bind_popup_timer_cb: the request it found too old is refused by a second
\* call, whichever one waits by then, and the question goes.
TickDenies ==
    /\ ui.at = "expired"
    /\ Refuses \/ (pending = None /\ UNCHANGED <<requestVars, ack>>)
    /\ ui' = Idle /\ popup' = None
    /\ UNCHANGED <<deviceVars, saveVars, qr, closing, history>>
    /\ UiStays

\* Mutant: only a question that is shown runs out.
TickExpiresShown ==
    /\ ui.at = "idle" /\ popup # None /\ pending # None /\ old
    /\ ui' = [at |-> "expired", req |-> None]
    /\ UNCHANGED <<deviceVars, saveVars, requestVars, screenVars, ack, history>>
    /\ UiStays

TickExpires ==
    /\ ui.at = "idle" /\ pending # None /\ old
    /\ ui' = [at |-> "expired", req |-> None]
    /\ UNCHANGED <<deviceVars, saveVars, requestVars, screenVars, ack, history>>
    /\ UiStays

TickShows ==
    /\ ui.at = "idle" /\ pending # None /\ ~old /\ popup = None
    /\ popup' = pending /\ qr' = FALSE /\ closing' = FALSE
    /\ UNCHANGED <<deviceVars, saveVars, requestVars, ui, ack, history>>
    /\ UiStays

\* bind_deny_cb
Deny ==
    /\ ui.at = "idle" /\ popup # None
    /\ Refuses
    /\ popup' = None
    /\ UNCHANGED <<deviceVars, saveVars, ui, qr, closing, history>>
    /\ UiStays

\* bind_allow_cb takes the request that waits now.  The popup on the screen is
\* not drawn again for a request that has taken the place of its own.
Allow ==
    /\ ui.at = "idle" /\ popup # None /\ pending # None
    /\ pending' = None /\ old' = FALSE
    /\ ui' = BindTaps("bind")
    /\ allowed' = allowed \cup {popup.user}
    /\ unasked' = unasked \cup ({pending.user} \ {popup.user})
    /\ UNCHANGED <<deviceVars, saveVars, screenVars, ack, known, told, unsaved>>
    /\ UiStays

\* mqtt_client_set_bound_user
SetBoundUser ==
    /\ ui.at = "bind"
    /\ user' = ui.req.user /\ bound' = TRUE
    /\ known' = [known EXCEPT ![ui.req.user] = ui.req.token] /\ told' = None
    /\ Saves("ui") /\ ui' = [ui EXCEPT !.at = "saved"]
    /\ UNCHANGED <<token, requestVars, screenVars, missed, ack, allowed,
                   unasked, unsaved>>
    /\ UiStays

\* Mutant: the cloud is told before the binding is on flash.
ConfirmEarly ==
    /\ ui.at = "saved" /\ ui.req # None
    /\ Publishes(ui.req, TRUE)
    /\ told' = IF online THEN ui.req.user ELSE told
    /\ ui' = [ui EXCEPT !.req = None] /\ popup' = None
    /\ UNCHANGED <<deviceVars, saveVars, requestVars, qr, closing, known, allowed, unasked, unsaved>>
    /\ UiStays

\* The binding is on flash: the cloud is told, the popup goes.
Confirm ==
    /\ ui.at = "saved" /\ saving["ui"] = "no"
    /\ Publishes(ui.req, TRUE)
    /\ told' = IF online THEN ui.req.user ELSE told
    /\ ui' = Idle /\ popup' = None
    /\ UNCHANGED <<deviceVars, saveVars, requestVars, qr, closing, known, allowed, unasked, unsaved>>
    /\ UiStays

\* "persist_failed"
ConfirmFails ==
    /\ ui.at = "failed"
    /\ Publishes(ui.req, FALSE)
    /\ ui' = Idle /\ popup' = None
    /\ UNCHANGED <<deviceVars, saveVars, requestVars, qr, closing, history>>
    /\ UiStays

-----------------------------------------------------------------------------
(* qr_popup.c, in the LVGL task; the bind popup covers the button. *)

QrStays == UNCHANGED <<deviceVars, saveVars, requestVars, ui, popup, ack, history>>

\* qr_popup_show; the closing timer may not be had.
QrShow ==
    /\ ui.at = "idle" /\ popup = None /\ ~qr
    /\ qr' = TRUE /\ closing' \in BOOLEAN
    /\ QrStays /\ UiStays

\* qr_popup_clicked_cb
QrTap == ui.at = "idle" /\ qr /\ qr' = FALSE /\ closing' = FALSE /\ QrStays /\ UiStays

\* qr_popup_close_timer_cb
QrTimeout == ui.at = "idle" /\ closing /\ qr' = FALSE /\ closing' = FALSE /\ QrStays /\ UiStays

-----------------------------------------------------------------------------
\* 25 s pass.
Waits ==
    /\ pending # None /\ ~old
    /\ old' = TRUE
    /\ UNCHANGED <<deviceVars, nvs, saveVars, netVars, pending, mqtt, ui, screenVars, ack, history>>

SaveStep(t) == SaveKey(t) \/ KeyFails(t) \/ SaveFails(t)

MqttStep ==
    \/ Connection
    \/ \E m \in Messages : ReceiveBind(m) \/ ReceiveCommand(m)
    \/ ClearBinding \/ RegenerateToken \/ UnbindEnds
    \/ SaveStep("mqtt")

\* bind_popup_timer_cb and what an answer goes on with
UiStep ==
    \/ TickExpires \/ TickDenies \/ TickShows
    \/ SetBoundUser \/ Confirm \/ ConfirmFails \/ SaveStep("ui")

CloudNext ==
    \/ MqttStep \/ UiStep
    \/ Allow \/ Deny \/ QrShow \/ QrTap \/ QrTimeout
    \/ Waits \/ PowerCut

\* The LVGL timer runs for ever, and a callback that began ends.  Nothing is
\* owed by the user, the broker or the power.
CloudSpec == CloudInit /\ [][CloudNext]_vars /\ WF_vars(UiStep)

-----------------------------------------------------------------------------
(* Properties *)

Identities == [user : Users \cup {None}, bound : BOOLEAN, token : 0 .. MaxToken]

CloudTypeOK ==
    /\ [user |-> user, bound |-> bound, token |-> token] \in Identities /\ nvs \in Identities
    /\ saving \in [Tasks -> {"no", "user", "token", "bound"}] /\ missed \subseteq Tasks
    /\ cache \in [0 .. Cache - 1 -> {m.nonce : m \in Messages} \cup {None}]
    /\ next \in 0 .. Cache - 1
    /\ {pending, popup} \subseteq Messages \cup {None}
    /\ {old, online, qr, closing} \subseteq BOOLEAN
    /\ mqtt \in {"idle", "clear", "rotate", "ends"}
    /\ ui \in [at : {"idle", "expired", "bind", "saved", "failed"}, req : Messages \cup {None}]

Quiet == mqtt = "idle" /\ ui.at = "idle"

\* Nobody owns the device, before or after a power cut, for whom nobody tapped
\* Allow: no timeout and no cut or failed save makes an owner.  The popup must
\* have been raised for his own request, but for accounts in "unasked": theirs
\* took the place of the one shown, before the tap (a fault, see README.md).
OwnersWereAllowed == {user, nvs.user} \subseteq allowed \cup unasked \cup {None}

\* Who was told that the device is bound to him is its owner after any power
\* cut, until he or another user changes that, unless a key of the last save
\* could not be written: save_device_info ignores that, and the answer is yes.
ToldIsKept == told # None /\ ~unsaved => nvs.user = told /\ nvs.bound

\* The cloud of the owner knows the token: what it sends verifies, and the
\* device's answers can be read.  on_cloud_command draws a new token at an
\* unbind so that codes shown before are worth nothing at once.
OwnerKnowsToken == bound /\ user # None /\ Quiet /\ ~unsaved => token = known[user]

\* Two tasks save the identity key by key; when both are done, flash and RAM
\* agree, unless the last save could not open NVS or write one of the keys.
StoredIsCurrent ==
    Quiet /\ ~unsaved => nvs = [user |-> user, bound |-> bound, token |-> token]

\* A message is not obeyed again before Cache others have been accepted, in
\* whatever order the copies arrive.
NoReplay == \A i, j \in 1 .. Len(recent) : recent[i] = recent[j] => i = j

\* The question is never hidden by the QR code, and no timer of an earlier QR
\* popup is left to close a later one.
QuestionIsVisible == (popup # None => ~qr) /\ (closing => qr)

\* "Auto-deny if no action": a request that has waited for too long is refused.
OldRequestEnds == (pending # None /\ old) ~> (pending = None \/ ~old)
=============================================================================
