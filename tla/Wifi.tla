-------------------------------- MODULE Wifi --------------------------------
(***************************************************************************)
(* wifi_app.c: the station's connection as the event task, the periodic    *)
(* retry timer, a connect task of the WiFi page and the scan tasks of the  *)
(* WiFi page see it.  All of them share a handful of flags without a lock. *)
(* A step runs from one blocking call (a delay, the blocking scan, the     *)
(* wait for an event) to the next.  The driver is external: it posts its   *)
(* events to one queue, which the event task empties in order.  A delay of  *)
(* 100 ms or more, and a scan, outlast the handling of the events posted:   *)
(* that is what wifi_app.c uses its delays for.  A call of the driver or of *)
(* the timer may fail at any time.                                          *)
(***************************************************************************)
EXTENDS Naturals, Sequences

CONSTANTS
    Nets,        \* names of networks
    None,        \* no name
    Scans,       \* the scan tasks that may exist at one time
    MaxRetry,    \* WIFI_MAX_RETRY
    LossInScan   \* may a link be lost, or its loss be pending, at a scan that
                 \* does not cut it?

ASSUME WifiAssumption ==
    /\ None \notin Nets
    /\ MaxRetry \in Nat
    /\ LossInScan \in BOOLEAN

VARIABLES
    link,        \* the driver: "idle", "trying", "joined" or, with an address, "up"
    peer,        \* the network of the driver's link or attempt
    config,      \* the network the driver is configured for
    events,      \* posted and not yet handled
    connected,   \* s_is_connected
    connecting,  \* s_connecting
    userSwitch,  \* s_user_switch
    inScan,      \* s_scan_in_progress
    ssid,        \* s_current_ssid
    retry,       \* s_retry_num
    timer,       \* s_retry_timer exists, and therefore runs
    boot,        \* user_component_init: "init", "check" with s_connected_cb set, "done"
    services,    \* sntp_time_init, video_stream_start and mqtt_client_start have
                 \* been called; their errors are only logged
    scan,        \* the scan tasks
    resume,      \* their resume_periodic_retry
    conn,        \* the connect task: where it is and its network
    refused,     \* history: did the last attempt of a user end in an error?
    failed       \* history: a connect, a disconnect or a timer failed, which the
                 \* code ignores or only logs, and no address came since

driverVars == <<link, peer, config, events>>
flagVars == <<connected, connecting, userSwitch, inScan>>
bootVars == <<boot, services>>
scanVars == <<scan, resume>>
connVars == <<conn, refused>>
careVars == <<timer, failed>>
wifiVars == <<driverVars, flagVars, ssid, retry, careVars, bootVars, scanVars, connVars>>

\* wifi_app_init with or without a saved network, whose attempt may fail.
WifiInit ==
    /\ ssid \in Nets \cup {None}
    /\ config = ssid /\ peer = ssid
    /\ link \in IF ssid = None THEN {"idle"} ELSE {"idle", "trying"}
    /\ connecting = (link = "trying") /\ failed = (ssid # None /\ link = "idle")
    /\ events = <<>> /\ retry = 0
    /\ connected = FALSE /\ userSwitch = FALSE /\ inScan = FALSE
    /\ timer = FALSE /\ boot = "init" /\ services = FALSE
    /\ scan = [s \in Scans |-> "off"]
    /\ resume = [s \in Scans |-> FALSE]
    /\ conn = [at |-> "off", net |-> None] /\ refused = FALSE

-----------------------------------------------------------------------------
(* The driver *)

Post(e) == events' = Append(events, e)

Joined ==
    /\ link = "trying"
    /\ link' = "joined" /\ Post("connected")
    /\ UNCHANGED <<peer, config, flagVars, ssid, retry, careVars, bootVars, scanVars, connVars>>

Addressed ==
    /\ link = "joined"
    /\ link' = "up" /\ Post("got_ip")
    /\ UNCHANGED <<peer, config, flagVars, ssid, retry, careVars, bootVars, scanVars, connVars>>

\* An attempt fails or a link is lost.
Lost ==
    /\ link # "idle"
    /\ LossInScan \/ \A s \in Scans : scan[s] = "off" \/ resume[s]
    /\ link' = "idle" /\ Post("disconnected")
    /\ UNCHANGED <<peer, config, flagVars, ssid, retry, careVars, bootVars, scanVars, connVars>>

\* esp_wifi_connect: an error unless the driver is idle, and perhaps then too.
DriverConnects == link = "idle" /\ link' = "trying" /\ peer' = config
DriverRefuses == link # "idle" /\ UNCHANGED <<link, peer>>
DriverFails == link = "idle" /\ UNCHANGED <<link, peer>>

\* esp_wifi_disconnect posts an event if it ends something.
DriverDisconnects ==
    /\ UNCHANGED <<peer, config>>
    /\ \/ link # "idle" /\ link' = "idle" /\ Post("disconnected") /\ UNCHANGED failed
       \/ UNCHANGED <<link, events>> /\ failed' = (failed \/ link # "idle")

\* start_retry_timer: without memory there is none.
StartRetryTimer ==
    \/ timer' = TRUE /\ UNCHANGED failed
    \/ ~timer /\ UNCHANGED timer /\ failed' = TRUE

-----------------------------------------------------------------------------
(* event_handler and, called from it, on_wifi_connected, in the event task *)

Handles(e) ==
    /\ events # <<>> /\ Head(events) = e
    /\ events' = Tail(events)
    /\ UNCHANGED <<config, ssid, boot, scanVars, connVars>>

HandleJoined ==
    /\ Handles("connected")
    /\ userSwitch' = FALSE
    /\ UNCHANGED <<link, peer, connected, connecting, inScan, retry, careVars, services>>

\* An address makes up for what failed before, unless the end of a link is
\* still waited for.
HandleAddressed ==
    /\ Handles("got_ip")
    /\ connected' = TRUE /\ connecting' = FALSE
    /\ retry' = 0 /\ timer' = FALSE /\ failed' = (failed /\ userSwitch)
    /\ services' = (services \/ boot # "init")
    /\ UNCHANGED <<link, peer, userSwitch, inScan>>

\* Mutant: an event that a switch explains is not looked at.
HandleLostStays ==
    /\ Handles("disconnected")
    /\ userSwitch
    /\ userSwitch' = FALSE
    /\ UNCHANGED <<connected, connecting, inScan, services, retry, careVars, link, peer>>

\* Mutant: one immediate attempt too many.
HandleLostLate ==
    /\ Handles("disconnected")
    /\ ~inScan /\ ~userSwitch /\ retry <= MaxRetry
    /\ DriverConnects
    /\ retry' = retry + 1 /\ connecting' = TRUE /\ connected' = FALSE
    /\ UNCHANGED <<inScan, services, userSwitch, careVars>>

\* An event that a scan or a switch explains is not answered; any other one is
\* answered by the next attempt, whose error is not looked at, and, after
\* MaxRetry of them, by the timer.
HandleLost ==
    /\ Handles("disconnected")
    /\ connected' = FALSE
    /\ UNCHANGED <<inScan, services>>
    /\ \/ /\ inScan \/ userSwitch
          /\ userSwitch' = FALSE /\ connecting' = FALSE
          /\ UNCHANGED <<link, peer, retry, careVars>>
       \/ /\ ~inScan /\ ~userSwitch /\ retry < MaxRetry
          /\ \/ (DriverConnects \/ DriverRefuses) /\ UNCHANGED failed
             \/ DriverFails /\ failed' = TRUE
          /\ retry' = retry + 1 /\ connecting' = TRUE
          /\ UNCHANGED <<userSwitch, timer>>
       \/ /\ ~inScan /\ ~userSwitch /\ retry = MaxRetry
          /\ StartRetryTimer /\ connecting' = FALSE
          /\ UNCHANGED <<link, peer, retry, userSwitch>>

EventStep == HandleJoined \/ HandleAddressed \/ HandleLost

-----------------------------------------------------------------------------
(* retry_timer_cb, in the timer task: nothing while something is under way *)

RetryFires ==
    /\ timer /\ ~connected /\ ~connecting /\ ~inScan
    /\ retry' = 0
    /\ \/ DriverConnects /\ connecting' = TRUE
       \/ (DriverRefuses \/ DriverFails) /\ connecting' = FALSE
    /\ UNCHANGED <<config, events, connected, userSwitch, inScan, ssid, careVars,
                   bootVars, scanVars, connVars>>

-----------------------------------------------------------------------------
(* The end of user_component_init: the callback, then the test that makes   *)
(* up for an address that came before it.                                   *)

RegisterCallback ==
    /\ boot = "init"
    /\ boot' = "check"
    /\ UNCHANGED <<driverVars, flagVars, ssid, retry, careVars, services, scanVars, connVars>>

\* Mutant: the test is left out.
CheckNothing ==
    /\ boot = "check"
    /\ boot' = "done"
    /\ UNCHANGED <<driverVars, flagVars, ssid, retry, careVars, services, scanVars, connVars>>

CheckConnected ==
    /\ boot = "check"
    /\ boot' = "done"
    /\ services' = (services \/ connected)
    /\ UNCHANGED <<driverVars, flagVars, ssid, retry, careVars, scanVars, connVars>>

-----------------------------------------------------------------------------
(* wifi_app_connect, in the connect task of the page *)

\* Mutant: the error of esp_wifi_connect is not looked at.
AttemptsUnchecked(n) ==
    /\ conn' = [at |-> "off", net |-> None]
    /\ ssid' = n /\ retry' = 0 /\ connected' = FALSE
    /\ refused' = (link = "trying") /\ connecting' = (link # "trying")
    /\ config' = IF link = "trying" THEN config ELSE n
    /\ link' = IF link = "idle" THEN "trying" ELSE link
    /\ peer' = IF link = "idle" THEN n ELSE peer
    /\ UNCHANGED <<events, failed>>

\* esp_wifi_set_config, refused while the driver tries, and esp_wifi_connect;
\* an error of either is reported on the page.
Attempts(n) ==
    /\ conn' = [at |-> "off", net |-> None]
    /\ ssid' = n /\ retry' = 0 /\ connected' = FALSE
    /\ UNCHANGED <<events, failed>>
    /\ \/ /\ link = "idle"
          /\ config' = n /\ link' = "trying" /\ peer' = n
          /\ connecting' = TRUE
          /\ refused' = FALSE
       \/ /\ config' \in IF link = "trying" THEN {config} ELSE {config, n}
          /\ UNCHANGED <<link, peer>>
          /\ connecting' = FALSE
          /\ refused' = TRUE

\* Ends what is there and waits for the event task to see it.
Interrupts(where) ==
    /\ userSwitch' = TRUE
    /\ DriverDisconnects
    /\ conn' = [conn EXCEPT !.at = where]
    /\ UNCHANGED refused

ConnectCalled(n) ==
    /\ conn.at = "start" /\ conn.net = n
    /\ timer' = FALSE
    /\ UNCHANGED <<inScan, bootVars, scanVars>>
    /\ \/ /\ connected /\ ssid = n
          /\ conn' = [at |-> "off", net |-> None]
          /\ UNCHANGED <<driverVars, connected, connecting, userSwitch, ssid, retry, refused, failed>>
       \/ /\ connecting /\ ssid = n /\ ~connected
          /\ Interrupts("again")
          /\ UNCHANGED <<connected, connecting, ssid, retry>>
       \/ /\ connected \/ connecting
          /\ ssid # n
          /\ Interrupts("switch")
          /\ UNCHANGED <<connected, connecting, ssid, retry>>
       \/ /\ ~connected /\ ~connecting
          /\ Attempts(n)
          /\ UNCHANGED userSwitch

\* After 100 ms; connected is set if an address arrived after all.
ConnectAgain ==
    /\ conn.at = "again" /\ events = <<>>
    /\ UNCHANGED <<timer, inScan, bootVars, scanVars>>
    /\ \/ /\ connected
          /\ Interrupts("switch")
          /\ connecting' = FALSE /\ retry' = 0
          /\ UNCHANGED <<connected, ssid>>
       \/ /\ ~connected
          /\ Attempts(conn.net)
          /\ UNCHANGED userSwitch

\* After 200 ms.
ConnectSwitches ==
    /\ conn.at = "switch" /\ events = <<>>
    /\ Attempts(conn.net)
    /\ UNCHANGED <<userSwitch, timer, inScan, bootVars, scanVars>>

ConnectStep ==
    \/ \E n \in Nets : ConnectCalled(n)
    \/ ConnectAgain \/ ConnectSwitches

-----------------------------------------------------------------------------
(* wifi_app_scan, in a scan task of the page *)

\* An attempt that is under way is cut, to be made up for by the timer.
ScanCalled(s) ==
    /\ scan[s] = "start"
    /\ scan' = [scan EXCEPT ![s] = "tries"]
    /\ resume' = [resume EXCEPT ![s] = connecting]
    /\ inScan' = TRUE /\ connecting' = FALSE
    /\ \/ connecting /\ userSwitch' = TRUE /\ DriverDisconnects
       \/ ~connecting /\ UNCHANGED <<driverVars, userSwitch, failed>>
    /\ UNCHANGED <<connected, ssid, retry, timer, bootVars, connVars>>

\* The blocking scan with whatever result.  One that is refused because the
\* driver tries to connect is repeated after 100 ms, up to ten times in all: only
\* the last of them changes anything here.
ScanRuns(s) ==
    /\ scan[s] = "tries" /\ events = <<>>
    /\ scan' = [scan EXCEPT ![s] = "ends"]
    /\ UNCHANGED <<driverVars, flagVars, ssid, retry, careVars, bootVars, resume, connVars>>

\* Mutant: a cut attempt is not made up for.
ScanEndsForgets(s) ==
    /\ scan[s] = "ends"
    /\ scan' = [scan EXCEPT ![s] = "off"]
    /\ inScan' = FALSE /\ userSwitch' = FALSE
    /\ resume' = [resume EXCEPT ![s] = FALSE]
    /\ UNCHANGED <<driverVars, connected, connecting, ssid, retry, careVars, bootVars, connVars>>

\* scan_finished
ScanEnds(s) ==
    /\ scan[s] = "ends"
    /\ scan' = [scan EXCEPT ![s] = "off"]
    /\ inScan' = FALSE /\ userSwitch' = FALSE
    /\ \/ resume[s] /\ ~connected /\ StartRetryTimer
       \/ ~(resume[s] /\ ~connected) /\ UNCHANGED careVars
    /\ resume' = [resume EXCEPT ![s] = FALSE]
    /\ UNCHANGED <<driverVars, connected, connecting, ssid, retry, bootVars, connVars>>

-----------------------------------------------------------------------------
(* Properties *)

WifiTypeOK ==
    /\ link \in {"idle", "trying", "joined", "up"}
    /\ {peer, config, ssid} \subseteq Nets \cup {None}
    /\ events \in Seq({"connected", "got_ip", "disconnected"})
    /\ {connected, connecting, userSwitch, inScan, timer, services} \subseteq BOOLEAN
    /\ boot \in {"init", "check", "done"} /\ retry \in 0 .. MaxRetry
    /\ scan \in [Scans -> {"off", "start", "tries", "ends"}]
    /\ resume \in [Scans -> BOOLEAN]
    /\ conn \in [at : {"off", "start", "again", "switch"}, net : Nets \cup {None}]
    /\ {refused, failed} \subseteq BOOLEAN

Quiet == events = <<>> /\ conn.at = "off" /\ \A s \in Scans : scan[s] = "off"

\* README.md promises that a network is tried again until it is there: an idle
\* driver with a network configured, nothing under way and no event to come has
\* the periodic timer running.  Left out are an attempt of the user that ended
\* in an error, which the page reports, and an error of the driver or of the
\* timer that the code ignores and that no address has made up for since.
NotStranded ==
    Quiet /\ link = "idle" /\ ssid # None /\ ~refused /\ ~failed => timer

\* The flags the whole program goes by agree with the driver as soon as the
\* events posted have been handled, whatever was switched or scanned before.
ConnectedIsReal ==
    connected => link = "up" \/ \E i \in 1 .. Len(events) : events[i] = "disconnected"

\* The network named as connected is the one the driver is connected to.
NamedNetworkIsLinked ==
    connected /\ Quiet /\ ~refused => peer = ssid

\* However the address and the end of user_component_init fall, a connected
\* device has had its clock, its HTTP server and its MQTT client called to start.
ServicesFollowAddress ==
    boot = "done" /\ connected => services
=============================================================================
