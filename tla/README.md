# A TLA+ verification of the Cat-Food-Machine firmware

The Cat-Food-Machine is an ESP32-S3 pet feeder: a stepper motor turns a hopper
of six compartments, a touch screen and a cloud service ask for feeds and edit
the feeding schedules, a camera streams pictures. The firmware is about forty C
files of an ESP-IDF application under `src/src/main`; its parts run as FreeRTOS
tasks on two cores and share state through static variables, of which few are
locked. This directory holds TLA+ models of its core logic, TLC configurations
that check them on small instances, and TLAPS proofs about them.

## 1. Inventory

### Tasks

| Task | Priority, period | What it runs |
| --- | --- | --- |
| main task | once, at boot | `user_component_init` (main.c:327-462): NVS, screen, motor, camera, UI, schedules, backlight, MQTT and cloud, WiFi, in that order |
| LVGL task | 5, 50 Hz | every UI callback and LVGL timer; `feeding_popup_timer_cb` (200 ms), `bind_popup_timer_cb` |
| `feed_sched` | 3, 1 s | `scheduler_task_func`, and in it the callback `on_feeding_triggered` |
| dispense task | 5, created per feed | `dispense_task`: the pulses of one feed |
| MQTT task | library | `on_cloud_command`, bind requests, connection events |
| event loop task | library | WiFi and IP events, `start_network_services` |
| esp_timer task | library | WiFi retry timer, SNTP restart |
| WiFi scan and connect tasks | created per request | `esp_wifi_scan_start`, the user's choice of a network |
| HTTP server and stream task | library, created per client | pages, MJPEG stream |
| capture task | 4, created per start | `cloud_upload`: one picture per period to the broker |

### Components

* **Feeder motor** (`driver/src/feeder_motor.c`). State: `s_running`, the EN and
  DIR pins, the wheel. Operations: `feeder_motor_dispense`, its synchronous
  variant, `feeder_motor_is_idle`. Callers: the LVGL task, the MQTT task, the
  scheduler. Hard: two callers at once, a task that cannot be created, no
  position sensor. Correct when: one pulse train at a time, the driver is off at
  rest, a compartment stands over the outlet at rest, every claim is given back.
* **Feeding session** (`main.c`). State: `s_feeding_active`, `s_feeding_done`,
  `s_feeding_amount`, the popup. Three tasks write it without a lock. Correct
  when: a popup always closes, a session always ends, every feed is reported
  once.
* **Backlight** (`main.c`, `setting_page.c`, `st7789.c`). State:
  `s_backlight_dimmed`, the level to restore, a request of the scheduler, the
  level on the PWM. Correct when: a touch or a feed always lights a dark screen,
  and the user's level is never lost.
* **Feeding schedules** (`driver/src/feeding_schedule.c`). State: up to eight
  entries with their last trigger times, a mutex, the scheduler's position in
  its loop, the NVS keys. Correct when: a plan due is fed, once, with its
  amount, on its days; a saved list survives power cuts.
* **WiFi connection** (`device/src/wifi_app.c`, `ui/src/wifi_config_page.c`).
  State: about ten flags, a periodic retry timer, the page's scan flags. Hard:
  events that come late, scans that interrupt a connection attempt, the user's
  switch of networks, tasks that outlive their page. Correct when: a saved network
  is always tried again, the flags agree with the driver, services are called to
  start, a scan is always answered.
* **Time** (`sntp_time.c`): start once, synchronise at once, restart by a timer.
* **Camera** (`ov2640.c`): a count of users starts and stops the sensor; an
  interrupt fills two buffers; readers copy a frame under a version counter.
  Correct when: no torn frame is handed out, sensor and light are on exactly
  while somebody uses them, no buffer is freed under a reader.
* **Local stream** (`video_stream.c`): one client at a time, whose slot and camera
  are given back on every error path.
* **Cloud upload** (`cloud_upload.c`): a capture task started and stopped by
  commands; a stop must end it.
* **MQTT client and identity** (`mqtt_client.c`): connection, device id, token,
  binding, stored in NVS key by key.
* **Cloud API** (`cloud_api.c`): commands, the pending bind request with its
  timeout, the retained report of the schedules. Correct when: only an account
  that was allowed on the screen owns the device, an account that was told keeps
  it, and the owner's cloud knows the token.
* **Secure messages** (`secure_msg.c`): decryption and a replay cache of 16
  nonces.
* **Bind and QR popups** (`bind_popup.c`, `qr_popup.c`, `bind_popup_timer_cb` of
  `main.c`): the question, its timeout, the QR code with its closing timer.
* **Pages** (`ui.c`, `feeding_page.c`, `app_page.c`, `setting_page.c`): page
  switches deferred to the end of an event, timers that keep pointers to widgets.
* **Infrared light** (`ir_light.c`), **display, touch and LVGL port**
  (`st7789.c`, `gt911.c`, `user_lvgl.c`, `qrcode_gen.c`): input and output.
* **Build and release**: `Makefile`, scripts, `sdkconfig`.

### How they interact

    confirm button --+                             +--> popup, feed_done report
    cloud command ---+--> session flags --> motor -+
    scheduler -------+        ^                    +--> dispense task --> wheel
        ^                     |
        |              popup timer (LVGL) --> backlight
    list of schedules <-- dialog and Save button (LVGL), cloud commands (MQTT)
        |
       NVS

    stream task, capture task --> camera count --> sensor, light --> two buffers
    broker --> bind request --> popup (LVGL) --> identity in RAM --> NVS
    WiFi events, retry timer, scan and connect tasks --> station flags --> driver

The calls are direct. A mutex protects the list of schedules, another the
camera's count, a third the stream's slot; critical sections protect the motor's
flag and the state of the frames. The feeding session, the backlight, the
station's flags and the device's identity have no lock.

## 2. Modules

| Module | Models | Composes |
| --- | --- | --- |
| `Dispenser` | the abstract promise of the motor: one feed at a time, each turning the wheel by its slots | |
| `FeederMotor` | `feeder_motor.c`, one step per access or pulse | refines `Dispenser` |
| `Backlight` | dimming and waking, access by access | |
| `Feeding` | `manual_feeding_start`, `on_feeding_triggered`, `feeding_popup_timer_cb` | `FeederMotor`, `Backlight` |
| `ScheduleList` | the list as data: sanitizing, closing a gap, overwriting | |
| `Scheduler` | edits of the list against the scheduler task and the clock | `ScheduleList` |
| `ScheduleStore` | `feed_schedule_load` and `feed_schedule_save` against power cuts | `ScheduleList` |
| `Camera` | `ov2640.c` with the switch and duty of `ir_light.c`: what any set of tasks may do with the camera | |
| `CameraUsers` | `video_stream.c` and `cloud_upload.c`, the two kinds of tasks that use it | refines and composes `Camera` |
| `Wifi` | `wifi_app.c` and the end of `user_component_init`, over an external driver | |
| `WifiPage` | `wifi_config_page.c`: scans, connects, leaving the page | `Wifi` |
| `Cloud` | identity, bind requests, replay cache and popups: `mqtt_client.c`, `cloud_api.c`, `secure_msg.c`, `bind_popup.c`, `qr_popup.c` | |
| `FeederMotorProofs`, `FeedingProofs` (with the backlight), `SchedulerProofs`, `ScheduleStoreProofs`, `CameraProofs`, `CameraUsersProofs`, `WifiProofs` (with the page), `CloudProofs` | theorems | |
| `MC...` | the constants of TLC's instances | |

An operator whose comment begins with "Mutant" stands for a plausible bug; it is
no part of a specification and is put in the place of the definition after it to
see that a property notices.

### From the code to the modules

**FeederMotor.** `running` is `s_running`; `call[c]` says how far caller `c` is
in `feeder_motor_dispense` (`Claim`, then `CreateTask` or `CreateFails`), and
`run[c]` is the task created for it (`Enable`, `SetDirection`, `Pulse` ...,
`Disable`, `Release`), or the caller itself in the synchronous variant
(`ClaimSync`). `position` is the wheel in microsteps; a pulse moves it only when
the driver is enabled, in the direction of the pin.

**Backlight.** A step is one access to shared state, or several that no other
task can tell apart. `bl[t]` is the task's place. LVGL's idle time has three
classes, those the code tells apart: below two seconds, between, above five
minutes. `CloudTasks` says whether the MQTT task calls
`restore_backlight_lvgl`, which it does for every cloud feed.

**Feeding.** `at[t]` is the place of a task in the functions of `main.c`, in the
order of their statements; the calls of the motor and the backlight are the
actions of those modules. `fed` and `told` are history: the feeds accepted and
the calls of `mqtt_client_publish_feed_done`, each with whether it published: it
returns without when memory fails or MQTT is offline, and its caller ignores that.

**Scheduler.** An entry carries the name of the user's plan, which the code does
not have, so that a property can follow a plan while its index moves. Edits take
the mutex in one step and give it back in another, except `RemoveItem`, of which
nobody can see the middle: the scheduler's only read without the mutex
(`Callback`) is given the amount before or after. Time counts polls since a
midnight; a minute has `Minute` polls, a day `MinutesPerDay` minutes. `lastFed`,
`watch` and `owed` are history: when a plan was fed, what is due in this minute,
and what a minute left unfed; so is `bounds.lately`, the edits begun in this minute.

**ScheduleStore.** `nvs` holds the counter and one cell per key; each NVS write
is a step, and power may go between any two. `Recovered` is what the next boot
would load. `saved` and `begun` are history: the last list whose save returned
`ESP_OK`, and the lists that saves begun since were to write.

**Camera.** `acquire` and `release` hold `s_camera_mutex` from end to end and are
one step each. `holds[t]` says that a task's acquire succeeded, `pc[t]` where it
is in `ov2640_camera_copy_jpeg_frame`: `Snapshot` is the first critical section,
`Read` the scan for the end of the JPEG and the `memcpy` outside of it, `Check`
the second one, after which the copy succeeds, tries again (three attempts) or
gives up. The interrupts are `GetNewTrans` and `TransFinished`, in either order at
the end of a frame. `s_frame_state_version` only grows, so its value matters in one
respect, which `fresh[t]` keeps: is it still the one of the snapshot? `torn[t]` is
history: the source was written by the DMA or freed during the copy. A start can
be refused before anything was touched (`AcquireRefused`) or fail later and take
its steps back (`AcquireFails`); the buffers then stay for the next start. `on` says
which of sensor, controller and light are switched on. Each call that switches one
off may fail; `ov2640_camera_stop` and the rollback go on all the same, clear
`s_running`, and stop frees the buffers even under a controller that still fills
them. `failedOff` is history: the parts whose last call to switch them off failed.
`TransForgotten` is the end of a frame in a buffer that is no longer one of `s_buf`.

**CameraUsers.** `stage[t]` is a task's place. A stream task is created by the
server's task (`Claim`, then `CreateStream` or `HandlerFails`), and every error
exit of `stream_task` is an action or a disjunct: no socket, no camera, a header
that cannot be sent, a frame too large with no memory for a larger copy, a chunk
that cannot be sent. `wanted` is `s_running` of `cloud_upload.c`. What a copy does
is the action of `Camera`.

**Wifi.** A step runs from one blocking call (a delay, the blocking scan, the wait
for an event) to the next. The driver is external: it has a link, posts events to
one queue, and refuses `esp_wifi_connect` unless it is idle; every call may also fail
for reasons of its own, as may the creation of the retry timer. `conn` and `scan[s]`
are the places of the connect task in `wifi_app_connect` and of the scan tasks in
`wifi_app_scan`; `resume[s]` is their local that says whether to start the timer
afterwards. `refused` is history: the last attempt of the user ended in an error,
which the page shows. So is `failed`: an attempt, a disconnect or a timer failed
where the code ignores the error or only logs it (wifi_app.c:89-103, 122, 219-221),
and no address has come since. `services` says that the calls that start clock, HTTP
server and MQTT client were made; their errors are only logged.

**WifiPage.** The callbacks of the page and its poll timer run in the LVGL task and
are one step each. `list` is what the page shows. Leaving the page resets its
variables, but not its tasks, which may report to the page opened next. A scan or
connect task that cannot be created is a disjunct of `StartScan` and an action of
its own, `ConnectNoTask`. `wifi_app_save_config` writes name and password, or one of
them, or none, and returns nothing (`SaveConfig`); `saved` is the name on flash and
`apart` is history: a write of the last save failed, or no task tried its network.
`Restart`, at any step, boots from what is saved.

**Cloud.** `saving[t]` is the key that `save_device_info` writes next in the MQTT
task or the LVGL task, and power may go before any of them. A key may fail (`KeyFails`): the
others are written and the save returns `ESP_OK`. `missed` has the tasks whose save
under way has lost a key. `popup` is the request for which the question was drawn,
which `Allow` does not look at: it takes the one that waits by then. `ui` is where the LVGL
task is in `cloud_api_resolve_bind` and `bind_popup_timer_cb`, `mqtt` where the
MQTT task is in an unbind: clear, save, draw a new token, save. Tokens are numbered
as they are drawn; a message verifies when it was made with the device's token. The
cache is the ring of `secure_msg.c` with `Cache` places. `known`, `allowed`,
`unasked`, `told`, `unsaved` and `recent` are history: `unasked` has the accounts
bound by a tap on the popup of another's request, `unsaved` says that the last save
did not write everything.

## 3. Runs

| Run | Checks | Result |
| --- | --- | --- |
| `motor` | two callers, every size of feed, failing `xTaskCreate`, synchronous calls: exclusion, alignment at rest, pulses that turn the wheel, liveness, refinement of `Dispenser` | holds |
| `backlight` | the LVGL task and the scheduler: touches and feeds wake, the level is remembered | holds |
| `backlight_cloud` | the same with the MQTT task: `TouchLights` | violated |
| `feeding` | screen, cloud and schedule together, no assumption on the motor's speed: types (of the motor and the backlight too), the popup has a session and closes, no report without its feed | holds |
| `feeding_manual` | manual feeds from screen and cloud: every session ends, the report is called once for every feed (published or dropped) | holds |
| `scheduler` | edits, synchronised lists, clock settings, restarts: no feed missed, the cooldown follows its plan, two feeds of a plan are a minute apart unless it was forgotten | holds |
| `store` | saves from two tasks, migration, failing writes, power cuts: saved lists and untouched entries survive, migration keeps every plan | holds |
| `camera` | two stream tasks and the capture task beside the interrupts: no torn frame, the count, the buffers and what is switched on, with calls that fail, the slot, what each task holds, a stop ends the capture | holds |
| `wifi` | events, timer, connect and scan tasks, the page and restarts, with failing drivers, timers and saves: no network given up but after an error that the code ignores, flags that agree with the driver, services called to start, scans answered, the saved network is the one in use if its save was complete | holds |
| `wifi_stranded` | the same when a link may be lost during a scan that does not cut it: `NotStranded` | violated |
| `cloud` | binding, unbinding, timeouts, saves of which any key may fail, power cuts, repeated messages: who owns the device, who was told, flash and RAM, tokens, replay, old requests end | holds |
| `cloud_old_code` | the same when an unbind may come while a request waits for the tap: `OwnerKnowsToken` | violated |

The type invariants of `Scheduler`, `Camera` and `Cloud` hold by their theorems
and are not checked again by TLC; `FeedingTypeOK`, with those of the motor and the
backlight, `StoreTypeOK` and `PageTypeOK` are in a run. The same
is true of `DisabledAtRest`, `QuestionIsVisible` and the refinement of `Camera`.

### What the violations show

* `backlight_cloud`: the popup timer sets `s_backlight_dimmed`; the MQTT task's
  cloud feed tests and clears it and writes the level; the timer then writes 0.
  The screen is dark, the flag says it is not, and touching it does nothing
  until the next dimming. A comment (main.c:205) knows the rule, for the
  scheduler's callback alone.
* `wifi_stranded`: while a scan is in progress the event handler leaves a lost
  link to it (wifi_app.c:114), and at its end the scan starts the timer only if it
  has itself cut a connection attempt. A link that goes down by itself during a
  scan is answered by nobody: no attempt, no timer, although the README promises a
  retry every ten minutes. Only the user or a restart mends it.
* `cloud_old_code`: an unbind clears the owner and draws a new token, but a bind
  request that was already waiting is not dropped. Allowing it binds the device to
  an account whose cloud has the old token; nothing it sends verifies. The comment
  of main.c:85 says that the old code is worth nothing at once.

Faults met that no run shows as a violation; the properties name each as an
exception, as a history variable, so that they say what holds otherwise:

* **an account that the screen never asked about** (`unasked` in
  `OwnersWereAllowed`): a second bind request replaces the one that waits, but
  `bind_popup_show` returns when a popup is there (bind_popup.c:69-71), so the tap on
  Allow binds the second. README.md:20 of the repository and CHANGELOG.md:17 say that
  every request raises its own question;
* **a binding acknowledged and not kept** (`unsaved` in `ToldIsKept` and
  `StoredIsCurrent`): `save_device_info` ignores the errors of `nvs_set_*` and
  `nvs_commit` and returns `ESP_OK` (mqtt_client.c:84-93), so `bind_ack` says true.
  CHANGELOG.md:38 says that a persistence failure publishes `persist_failed`; it does
  when NVS does not open;
* **a station left idle after an ignored error** (`failed` in `NotStranded`): the
  errors of the first attempt at boot, of the immediate retry and of the timer's
  creation are ignored or logged (wifi_app.c:219-221, 122, 89-103), and no event
  follows, although README.md:394-396 promises a retry every ten minutes;
* **a network tried and not saved** (`apart` in `SavedIsConfigured`):
  `wifi_app_save_config` has no result (wifi_app.c:431-457);
* **a camera that stays on** (`failedOff` in `PowerFollowsUsers`, `BuffersWhenUsed`):
  stop and the rollback of a failed start go on after an error (ov2640.c:506-519,
  550-575), and stop frees buffers that the controller may still fill; a light
  that was not switched off stays on (ir_light.c:82-87);
* **services called and not started**: `on_wifi_connected` and the end of
  `user_component_init` only log the errors (main.c:147-161, 441-459);
* **a feed whose report is dropped**: see `told` above.

Others are not kept as runs because no document of the repository says otherwise:

* a touch that wakes the screen may move the slider, and the next tick restores
  the level remembered at dimming: the page shows one level, the screen another;
* a scheduled feed accepted when the motor has stopped and the popup timer has not
  yet closed the session is merged into it, and reported once for both;
* the report reads `s_feeding_amount` after the session was closed, so that it may
  name the next feed's slots (main.c:298);
* a list synchronised, or a restart, in the minute of a feed makes it happen again,
  because the trigger times are forgotten;
* `s_items[i].amount` is read after the mutex is given back, so a plan can be fed
  with another plan's amount (feeding_schedule.c:457);
* keys above the counter are never erased and the counter is written before the
  entries: a longer list cut short can bring a deleted plan back;
* a scheduler pass that straddles midnight takes the day from after it
  (feeding_schedule.c:435);
* the slider of the infrared light tests the switch and then writes the duty: a
  release of the camera in between leaves the light lit with its switch off
  (`lit` without the light in `on`, ir_light.c:120);
* a start of the capture while the stopped task is on its way out does nothing and
  reports success (cloud_upload.c:122);
* an NVS that does not open is answered with `persist_failed`, but the account
  stays the owner in RAM until the next restart (cloud_api.c:289).

Without the timing assumption below, a run of the motor shorter than one tick leaves
a session open for ever (main.c:256).

### Bounds, and why they are enough

* `motor`: two callers are all that exclusion can distinguish (the code's claim
  treats callers alike), several slot sizes, a few microsteps to a slot so that a
  run is interrupted in its middle.
* `backlight`: two levels of the slider, so that a lost one shows. No counter is
  bounded: the state space is finite.
* `feeding`: two requests (three in `feeding_manual`), in any task: enough for a
  feed that starts while another ends, and one that is refused. One microstep to
  a slot and one level, which the parts' own runs vary. A cloud request may name
  0 slots, which the motor refuses.
* `scheduler`: two entries (the list is full with two, and one can move below
  the loop's index), two edits, two settings of the clock (the first one and a
  jump in either direction), one restart, days of two minutes of three polls and
  a clock of two days, so that every second day is a choice and a minute contains
  several passes. Three polls are the fewest that say anything of `NoFeedMissed`:
  one pass may run into the next second and another may skip an entry that an edit
  has moved, which would use up a minute of two (the real one has sixty). The two
  editors are interchangeable (`SYMMETRY`), and `bounds.lately`, which no step and
  no property of the run reads, is left out of the states compared (`VIEW`).
* `store`: three entries, two edits, one refused operation, two power cuts: a
  save cut short, the boot after it, and another save cut short. The three kinds
  of flash are a new device, the old format and the new one.
* `camera`: two stream tasks, although the slot admits one, so that a slot given
  back too early shows, and the capture task. Nothing is bounded but the number of
  tasks: the attempts are three as in the code, and the version is abstracted. Any
  subset of the calls of a stop or a rollback may fail, any number of times.
* `wifi`: two networks (a switch), two scan tasks (one of a page that was left and
  one of the page opened next), one immediate retry instead of five (a counter
  below its limit and at it); both networks and both tasks are interchangeable
  (`SYMMETRY`). The tries of a refused scan, up to ten, are one step, since only the
  last changes anything. Errors and restarts are not bounded.
  The queue of events needs no bound: TLC's search ends without one.
* `cloud`: two accounts, five messages (a bind request of each account with the
  first token, one with the second, an unbind, another command), each of which may
  arrive any number of times; a cache of two, so that it wraps around; one change
  of token (`MaxToken`), after which an unbind is no longer received.

### Fairness and assumptions about time

Tasks are preemptive with priorities and every task blocks or delays regularly,
so weak fairness holds for a task that is inside a function; it is assumed for
nothing a user, the cloud or the clock decides. The LVGL task runs its timers
for ever (`lvgl_event_task`), which is the fairness of `Backlight`, `Feeding` and
`Cloud` (`UiStep`: the popup timer and an answer that has begun, not the taps and
not the timer of the QR code, which nothing depends on). `CameraUsers` is fair to
`CaptureStep`: the capture task runs when it can, whatever the frames, the streams
and the cloud do. `Scheduler`, `ScheduleStore` and `WifiPage` state no fairness and
make only safety claims. Assumptions beyond that, each a named constant or guard:

* `RunOutlastsTick` (`feeding_manual`): a run of the motor takes at least 2.4 s (2400
  pulses of 1 ms) and the popup timer fires every 200 ms, so a whole tick passes
  between the opening of a session and the end of its run. `feeding` does not assume
  it.
* `Elapse` in `Backlight`: seconds do not pass between two statements of a function,
  and LVGL's clock advances only when the LVGL task runs.
* `Tick` in `Scheduler`: the task's delay is a second, so a second does not pass
  without a pass beginning (the pass itself may take longer than that).
* NVS writes are durable in the order they are made (`nvs_set_*` writes its page at
  once; `nvs_commit` adds nothing on this version of ESP-IDF).
* `Camera`: a call of a driver either succeeds or fails and leaves its part as it
  was. `esp_cam_ctlr_start` begins with no buffer under way.
* `Wifi`: a delay of 100 ms or more, and a scan, outlast the handling of the events
  posted before (the guards `events = <<>>`); that is what the code has these delays
  for. There is one connect task at a time: it lives for less than half a second
  after the tap that created it. The page is opened when the boot is over: the
  callback is registered a few statements after `wifi_app_init`. `LossInScan` is
  `FALSE` in `wifi`: no link is lost during a scan that does not cut it;
  `wifi_stranded` shows what happens otherwise.
* `Cloud`: the device was set up before, so the identity on flash is complete; the
  two or three assignments of `SetBoundUser` and `ClearBinding` are one step; a
  message verifies exactly when it was made with the token of now; waiting 25 s is
  one step, at any time. `UnbindsEarly` is `FALSE` in `cloud`: no unbind arrives
  while a request waits, so the saves of the two tasks do not overlap there;
  `cloud_old_code` shows what happens otherwise.

## 4. Proofs

| Theorem | States |
| --- | --- |
| `FeederMotorProofs!MotorInvariant` | `MotorSpec => []MotorInv`, the inductive invariant |
| `MotorTypes`, `OneRunAtATime`, `IdleMotorIsDisabled`, `IdleMotorIsAligned` | `MotorTypeOK`, `MotorExclusive`, `DisabledAtRest`, `AlignedAtRest` |
| `EveryPulseTurnsTheWheel` | the action property `PulsesTurnTheWheel` |
| `MotorDispenses` | `FeederMotor` refines `Dispenser`: its initial states, and every step a step of `Dispenser` or a stutter |
| `FeedingProofs!FeedingUsesTheMotor` | the composed system implements the motor's specification without its fairness |
| `FeedingKeepsTheMotorInvariant` | `MotorInv` in the composed system |
| `PopupAlwaysHasSession` | `popup => active` for any number of tasks |
| `NothingIsReportedTwice` | `NoPhantomReport` for any number of tasks |
| `ShownLevelIsRemembered` | the action property `SelectedLevelRemembered`, of `BacklightSpec`, with and without cloud tasks |
| `TouchIsSeen` | `TouchLights`, of `BacklightSpec`, under `CloudTasks = {}` |
| `FeedingUsesTheBacklight` | the composed system implements the backlight's specification without its fairness |
| `FeedingKeepsTheLevel`, `FeedingSeesTouches`, `FeedingTypes` | the two properties of the backlight in the composed system, and `FeedingTypeOK` |
| `SchedulerProofs!SchedulerInvariant`, `SchedulerTypes` | the inductive invariant, and the types with it |
| `CooldownAlwaysFollowsPlan`, `FeedsAreAMinuteApart` | `CooldownFollowsPlan` and `FedOnceUnlessForgotten`, for lists, clocks and edits of any size |
| `NoFeedIsMissed` | `NoFeedMissed`, with more than one minute to a day, in the behaviours of `[]FewEdits`: in every minute at least two polls more than edits begun |
| `ScheduleStoreProofs!StoreTypes`, `SavedListIsSafe`, `UntouchedIsSafe`, `MigrationIsSafe` | `StoreTypeOK`, `SavedListSurvives`, `UntouchedSurvives`, `MigrationKeepsPlans`, for lists, edits, failures and power cuts of any number |
| `CameraProofs!CameraTyped`, `CopiesAreWhole`, `CountIsRight`, `BuffersOutliveCopies` | `CameraTypeOK`, `NoTornFrame`, `PowerFollowsUsers`, `BuffersWhenUsed`, for any finite set of tasks and any calls that fail |
| `CameraUsersProofs!UsersKeepProtocol`, `UsersCameraSafe` | `UsersSpec` implements `CameraSpec`, and so has its safety properties |
| `EndedTasksHoldNothing`, `OneStreamClient` | `HoldsByStage`, `SlotHasOneOwner` |
| `WifiProofs!FlagIsReal`, `ServicesAreStarted`, `ScansAreAnswered` | `ConnectedIsReal`, `ServicesFollowAddress`, `ScanningIsAnswered`, for any networks and scan tasks, with and without `LossInScan` |
| `PageTyped`, `NetworkIsNamed`, `NextBootIsConfigured` | `PageTypeOK`, `NamedNetworkIsLinked`, `SavedIsConfigured`, likewise |
| `NobodyIsStranded` | `NotStranded`, under `~LossInScan` |
| `CloudProofs!CloudTyped`, `OnlyTheAllowedOwn`, `QuestionStaysVisible` | `CloudTypeOK`, `OwnersWereAllowed`, `QuestionIsVisible`, for any accounts, messages and cache |
| `ToldOwnersStay`, `FlashFollowsRam`, `OwnersReachTheDevice` | `ToldIsKept`, `StoredIsCurrent`, `OwnerKnowsToken`, under `~UnbindsEarly` |
| `NothingIsReplayed` | `NoReplay`, for any size of the cache |

Assumptions are those the modules name: `MotorAssumption` (positive numbers of slots,
compartments and microsteps), `BacklightAssumption`, `FeedingAssumption`,
`ListAssumption`, `SchedulerAssumption`, `StoreAssumption`, `TasksAssumption`,
`UsersAssumption`, `WifiAssumption`, `CloudAssumption`; TLC evaluates them in every
run. Among them: a request is for at most 255 slots, because the motor takes a
`uint8_t`; the entries that edits bring and the flash of the first boot are of the C
types.

**The motor.** `AlignedAtRest` is not inductive: nothing in it says where the
wheel will be when the pulses to come are made. `MotorInv` adds that
(`WillBeAligned`: position plus the pulses left is a multiple of a slot), that
without a run the wheel is on one (`AlignedUnlessRunning`), that the pins follow
the place of the run (`MotorOnePlace`, `EnabledByARun`), and exclusion, because
a second run would break both. Arithmetic modulo one turn is in lemmas of its own.
`MotorDispenses` is the safety part of `ImplementsDispenser`. The compartment of the
abstract hopper moves when the motor is released, not pulse by pulse, so it is mapped
to the position less the pulses that the run under way has made (`SlotNow`). The one
fact the steps need beyond `MotorInv` is that a run is for at least one slot
(`ServesSlots`): otherwise an accepted request would look like none.

**The composition.** Every action of `Feeding` is one of `FeederMotor` or leaves its
variables alone, so the motor's invariant is inherited by the lemma that one of its
steps keeps it. `PopupHasSession` needs `active` while the LVGL task is between
showing the popup and testing it, and that only that task clears `active`.
`NoPhantomReport` is a balance (`ReportsCovered`): the reports made, the tasks
between an accepted feed and its `active = true`, an open session and one being
closed are never more than the feeds. Each unlocked write moves one unit from a place
to the next or, when two tasks open one session, loses it. That the amounts are real
ones (`AmountsFed`) is about the time in which `s_feeding_amount` is used.

**The backlight.** Neither property is inductive. `SelectedLevelRemembered` needs
that the LVGL task, once it has decided to go dark, has remembered the level, and
that another task which restores meanwhile writes that same level
(`RemembersLevel`). `TouchLights` needs what the tick knows at each place
(`LitInv`): a dark screen has its flag set or is being lit by the LVGL task itself,
and a tick that goes dark decides with an idle time that is still the true one. The
flag is what a cloud task can break, hence the assumption that there is none.
Every step of `Feeding` is a step of `Backlight` or leaves it alone, so the
properties carry over.

**The scheduler.** A trigger time follows its plan because the two arrays move
together; that is inductive only with the shape of each edit under way (which
entry it has written and which trigger times it has not yet reset, `EditUnderWay`
and `Settled`) and with plans that are pairwise different (`PlansOnce`: two
entries of one plan would have two trigger times and one last feed). That the
entries are legal outside an edit rests on a lemma of its own, that sanitizing is
idempotent and keeps the plan. The minute between two feeds follows from the
scheduler's test and the invariant. The assumption behind it, that the lists which
arrive name each plan once, is about the names this model gives to entries.

`NoFeedMissed` holds because an edit can cost a plan one pass, by moving it below the
loop's index while the callback runs, and the passes of a minute are more than the
edits. The proof counts them: `SkippedByEdits` says that as long as a plan is
unfed, the passes of this minute that are over (`PassesOver`) are no more than the
edits begun in it, and fewer if the pass under way has the plan behind it already.
`WatchIsDue` and `PassReadsClock` make sure that a pass that still has the plan
before it (`Ahead`) also finds it due: it sampled the clock in this minute, read the
day of this minute, and the cooldown is over. The last pass of a minute does not
count, since it may read the day after midnight. So the theorem is about behaviours
with `[]FewEdits`, two polls more than edits in every minute, of which the real
minute has sixty; with a minute of one poll and one edit, TLC finds a plan missed. A day of
more than one minute keeps a pass that began in the minute before from feeding the
plan too early. TLC checked `WatchInv` too, with two plans and with three.

**The store.** What the next boot loads, `Recovered`, ends at the counter or at the
first unreadable entry; that the first one exists is the well-founded order of the
naturals. `StoreInv` says that the writer holds the mutex with the list it counted
(`WriterHoldsMutex`), how far it has come (`PrefixWritten`), that the flash is the saved
list until the next write (`CleanIsSaved`), and, for saves cut short one after
another, that no entry of the saved list is ever erased and that those which every
writer since agrees on are in place below the counter (`KeptOnFlash`). A migration
writes what it loaded, so before the first edit memory, flash and saved list
are the same (`UneditedIsSaved`).

**The camera.** `NoTornFrame` speaks of a copy that is over. What carries it through
the copy is `FreshIsWhole`: while the version is still that of the snapshot, the
source has not been written. It is inductive because every interrupt bumps the
version in the critical section in which it moves the DMA. That no DMA runs on
freed buffers, but under a controller that could not be stopped, is inductive with
what `PowerFollowsUsers` says of `on` and `failedOff`: outside `s_running` only a part
in `failedOff` is on, and without the controller there no buffer is with the driver.
That the count is right needs
arithmetic of cardinalities, in the lemmas about one task more and one less. Every
step of `CameraUsers` is a step of `Camera` or leaves its variables alone, so the
theorems carry over; `HoldsByStage` and `SlotHasOneOwner` are about the users alone
and have their own small invariants.

**The station.** `ConnectedIsReal` says that a flag without a link has a
"disconnected" in the queue. An address that is still in the queue when the link
goes down would set the flag afterwards, so the invariant adds `AddressesAreReal`:
every "got_ip" in the queue is followed by a "disconnected" or the link is up.
The page's `ScanningIsAnswered` is inductive with the types of its variables.

The names (`NamesInv`) are in five places: the variable that the page shows, the
connect task, the flash, the driver's configuration and its link; they agree unless
the last attempt was refused or the last save incomplete, since a connect task
carries what was saved. `NotStranded` is the one whose reasons are spread widest:
event handler, timer, connect and scan tasks each leave a lost link to somebody else.
`CareInv` says to whom: a flag that makes the handler do nothing is set only while
the task that set it goes on (`FlagsKept`), a loss in the queue is one that the
handler answers or that such a task caused (`LossExplained`), and an idle driver
without its timer has a loss in the queue, a switch of networks or a scan that will
start the timer again, or one of the errors that nobody looks at (`CaredFor`). A link
lost by itself during a scan breaks the second; that is `~LossInScan`.

**The identity.** The flash is a copy of RAM only between saves, and two tasks write
both. `SafeInv` says whose turn it is (`Turns`: without early unbinds, the MQTT
task's unbind and the LVGL task's confirmation exclude each other), what a save under
way has still to write (`Saving`, `Progress`; `Whole` says of a save that it has
missed no key), and what the owner's account was told (`Known`). Without the
assumption `~UnbindsEarly` the turns overlap, which is what `cloud_old_code` shows;
who may own the device does not depend on it. `NoReplay` is about the ring: the place
behind `next` holds the newest nonce, the one before it the second newest, and so on
around the ring (`CacheIsRecent`), so a nonce that is in no place is none of the last
`Cache` ones.

**Only model-checked**: liveness (`MotorComesToRest`, `PopupCloses`, `SessionEnds`,
`EveryFeedReported`, `FeedWakes`, `StopEndsCapture`, `OldRequestEnds`) and the
fairness in `ImplementsDispenser` are out of the prover's reach, which has no ENABLED.
Every safety property of a passing run is a theorem. Some theorems have an
assumption that their runs do not: `NoFeedIsMissed` counts edits, where
the run bounds them. `TouchLights`, `NotStranded` and the three properties of
`Cloud` are proved under the assumption of their run, without which
`backlight_cloud`, `wifi_stranded` and `cloud_old_code` show them, or one of them,
violated.

## 5. Not modelled, and why

* **Pages** (`ui.c` and the layout of every page): deferred page switches and timers
  that keep pointers to widgets go wrong inside LVGL, whose objects would have to be
  modelled from guesses. `feeding_page.c` takes part with its edits and its Save
  button, `app_page.c` with the amount of its button.
* **Schedule reports** (`cloud_api_report_schedules`) and the other readers through
  `feed_schedule_get_item`: both tasks' reports follow the list and the broker keeps
  the last; which one that is needs the contents of lists in messages.
  `feed_schedule_get_next_time` is a pure search whose result is only shown.
* **Parsing and formatting** of commands: the modules begin with what the
  validation has seen. The casts of `cloud_api.c:144` from int to `uint8_t` come
  before it: 256 and more wrap to a legal value.
* **The first boot** of a device, when identity and token are drawn and saved for the
  first time; the heartbeat, the topics, `cloud_upload`'s retained image.
* **Cryptography**: a message verifies or it does not.
* **Registers, buses and levels** of the panel, the touch controller, the sensor and
  the light's PWM: no state of the program's own.
* **The status label of the WiFi page**, drawn once a second from three flags: a
  mixture lasts for one second.
* **Build and release**. `feeding_scheduler_stop` has no caller.

Smaller hazards that no property is about: a clock set back by hours leaves
trigger times in the future (feeding_schedule.c:449); an NVS that cannot be opened at
boot leaves an empty list that the next save writes (feeding_schedule.c:83); a
stream without usable frames never notices that its client is gone
(video_stream.c:150); the replay cache is lost at a restart (secure_msg.c:403); a
power cut in the very first save leaves an identity without a token
(mqtt_client.c:191); a refresh of the feeding page in the MQTT task rebuilds LVGL
objects (main.c:93); timers and dialogs of the page keep a widget or an index
(feeding_page.c:201, 430); `bind_ack` and the WiFi page's connect task can be lost
(cloud_api.c:232, wifi_config_page.c:186).

What could be added next, in this order: the schedule reports with their readers; a
composition of the scheduler with the session and the motor, for feeds lost to a
busy motor; the infrared light's and the pages' deferred saves.
