------------------------------ MODULE WifiPage ------------------------------
(***************************************************************************)
(* wifi_config_page.c over wifi_app.c: the page's callbacks and timers run *)
(* in the LVGL task and start the scan and connect tasks; leaving the page *)
(* resets its variables, but the tasks go on.  The power may fail at any    *)
(* time; a save that it cuts short is one whose last writes failed.          *)
(***************************************************************************)
EXTENDS Wifi

VARIABLES
    list,        \* what the page shows: "closed", "scanning" or "result"
    running,     \* s_scan_task_running
    done,        \* s_scan_done
    poll,        \* scan_poll_timer exists
    saved,       \* the network in NVS
    apart        \* history: a write of the last save failed, or no task tried
                 \* its network

shownVars == <<list, running, done, poll>>
savedVars == <<saved, apart>>
pageVars == <<shownVars, savedVars>>
vars == <<wifiVars, pageVars>>

PageInit ==
    /\ WifiInit
    /\ list = "closed" /\ running = FALSE /\ done = FALSE /\ poll = FALSE
    /\ saved = ssid /\ apart = FALSE

-----------------------------------------------------------------------------
\* Mutant: a task that cannot be created is not noted.
StartScanSilently ==
    /\ list' = "scanning" /\ poll' = TRUE
    /\ running' = TRUE /\ done' = FALSE
    /\ UNCHANGED savedVars
    /\ UNCHANGED scan \/ \E s \in Scans : scan[s] = "off" /\ scan' = [scan EXCEPT ![s] = "start"]

\* start_scan; without memory for the task it ends at once.
StartScan ==
    /\ LossInScan \/ \A i \in 1 .. Len(events) : events[i] # "disconnected"
    /\ list' = "scanning" /\ poll' = TRUE
    /\ UNCHANGED savedVars
    /\ \/ /\ \E s \in Scans : scan[s] = "off" /\ scan' = [scan EXCEPT ![s] = "start"]
          /\ running' = TRUE /\ done' = FALSE
       \/ /\ running' = FALSE /\ done' = TRUE
          /\ UNCHANGED scan

Unscanned == <<driverVars, flagVars, ssid, retry, careVars, bootVars, resume, connVars>>

\* create_wifi_config_page ends with a scan; so does the Scan button.  The few
\* steps of the boot are over before anybody opens the page.
OpenPage == boot = "done" /\ list = "closed" /\ StartScan /\ UNCHANGED Unscanned

Rescan == list # "closed" /\ ~running /\ StartScan /\ UNCHANGED Unscanned

\* wifi_config_page_delete_cb
LeavePage ==
    /\ list # "closed"
    /\ list' = "closed" /\ running' = FALSE /\ done' = FALSE /\ poll' = FALSE
    /\ UNCHANGED <<wifiVars, savedVars>>

\* scan_poll_timer_cb
PollScan ==
    /\ poll /\ done
    /\ done' = FALSE /\ running' = FALSE /\ poll' = FALSE
    /\ list' = "result"
    /\ UNCHANGED <<wifiVars, savedVars>>

\* wifi_scan_task: the scan, then its results for whoever polls for them.
TaskEnds(s) ==
    /\ ScanEnds(s)
    /\ done' = TRUE
    /\ UNCHANGED <<list, running, poll, savedVars>>

\* wifi_app_save_config writes name and password; it has no result, and neither
\* write waits for the success of the other.
SaveConfig(n) ==
    /\ saved' \in {saved, n}
    /\ apart' \in {saved' # n, TRUE}

\* Mutant: the network is connected to and not saved.
ConnectUnsaved(n) ==
    /\ list = "result" /\ conn.at = "off"
    /\ conn' = [at |-> "start", net |-> n]
    /\ UNCHANGED <<driverVars, flagVars, ssid, retry, careVars, bootVars, scanVars, refused, pageVars>>

\* A row of an open network or the Connect button: start_connect saves the
\* network, whatever comes of it, and creates the task, which makes one call of
\* wifi_app_connect.
\* One connect task at a time: it lives for at most 0.4 s.
Connect(n) ==
    /\ list = "result" /\ conn.at = "off"
    /\ SaveConfig(n)
    /\ conn' = [at |-> "start", net |-> n]
    /\ UNCHANGED <<driverVars, flagVars, ssid, retry, careVars, bootVars, scanVars,
                   refused, shownVars>>

\* No memory for the task: the network is saved and nobody tries it.
ConnectNoTask(n) ==
    /\ list = "result" /\ conn.at = "off"
    /\ saved' \in {saved, n} /\ apart' = TRUE
    /\ UNCHANGED <<wifiVars, shownVars>>

-----------------------------------------------------------------------------
\* The device starts anew with what is in NVS: wifi_app_load_config wants both
\* keys, and the password of a save that failed may be missing.
Restart ==
    /\ ssid' \in IF apart THEN {saved, None} ELSE {saved}
    /\ config' = ssid' /\ peer' = ssid'
    /\ link' \in IF ssid' = None THEN {"idle"} ELSE {"idle", "trying"}
    /\ connecting' = (link' = "trying") /\ failed' = (ssid' # None /\ link' = "idle")
    /\ events' = <<>> /\ retry' = 0
    /\ connected' = FALSE /\ userSwitch' = FALSE /\ inScan' = FALSE
    /\ timer' = FALSE /\ boot' = "init" /\ services' = FALSE
    /\ scan' = [s \in Scans |-> "off"]
    /\ resume' = [s \in Scans |-> FALSE]
    /\ conn' = [at |-> "off", net |-> None] /\ refused' = FALSE
    /\ list' = "closed" /\ running' = FALSE /\ done' = FALSE /\ poll' = FALSE
    /\ UNCHANGED savedVars

TaskStep(s) ==
    \/ (ScanCalled(s) \/ ScanRuns(s)) /\ UNCHANGED pageVars
    \/ TaskEnds(s)

SystemStep ==
    \/ EventStep \/ RetryFires \/ ConnectStep
    \/ RegisterCallback \/ CheckConnected

PageNext ==
    \/ (Joined \/ Addressed \/ Lost) /\ UNCHANGED pageVars
    \/ SystemStep /\ UNCHANGED pageVars
    \/ \E s \in Scans : TaskStep(s)
    \/ OpenPage \/ Rescan \/ LeavePage \/ PollScan
    \/ \E n \in Nets : Connect(n) \/ ConnectNoTask(n)
    \/ Restart

PageSpec == PageInit /\ [][PageNext]_vars

-----------------------------------------------------------------------------
(* Properties *)

PageTypeOK ==
    /\ WifiTypeOK
    /\ list \in {"closed", "scanning", "result"}
    /\ {running, done, poll} \subseteq BOOLEAN
    /\ saved \in Nets \cup {None} /\ apart \in BOOLEAN

\* The network of the next boot is the one the driver is set to now: no retry
\* and no restart brings an older one back.  Left out are a save of which a write
\* failed, an attempt that ended in an error and one that had no task.
SavedIsConfigured ==
    conn.at = "off" /\ ~refused /\ ~apart => saved = config /\ saved = ssid

\* "Scanning..." does not stay: while it is shown, the poll timer runs and has a
\* result to find or a task that will bring one, even when tasks of a page left
\* before report to the new one or a task cannot be created.
ScanningIsAnswered ==
    list = "scanning" => poll /\ (done \/ \E s \in Scans : scan[s] # "off")
=============================================================================
