------------------------------ MODULE WifiProofs ------------------------------
(***************************************************************************)
(* Proofs about the station and its page, for every set of networks and of *)
(* scan tasks, every number of retries, and links lost at any time.        *)
(***************************************************************************)
EXTENDS WifiPage, TLAPS

EventNames == {"connected", "got_ip", "disconnected"}
ScanStates == {"off", "start", "tries", "ends"}

\* An end of the link that the event task has still to see.
LossPosted == \E i \in 1 .. Len(events) : events[i] = "disconnected"

\* An address that was posted is there, or its end is posted behind it.
AddressesAreReal ==
    \A i \in 1 .. Len(events) :
        events[i] = "got_ip" =>
            link = "up" \/ \E j \in i + 1 .. Len(events) : events[j] = "disconnected"

StationInv ==
    /\ events \in Seq(EventNames)
    /\ AddressesAreReal
    /\ ConnectedIsReal
    /\ ServicesFollowAddress

(***************************************************************************)
(* What happens to the queue and the link.                                 *)
(***************************************************************************)
\* The driver posts an event that is not the end of a link.
LEMMA Posted ==
  ASSUME StationInv, NEW e \in EventNames, Post(e), link # "up",
         e = "got_ip" => link' = "up"
  PROVE  /\ events' \in Seq(EventNames)
         /\ AddressesAreReal'
         /\ LossPosted => LossPosted'
  <1>. USE DEF StationInv, Post
  <1>1. events' \in Seq(EventNames) /\ Len(events') = Len(events) + 1
    OBVIOUS
  <1>2. events'[Len(events) + 1] = e /\ \A i \in 1 .. Len(events) : events'[i] = events[i]
    OBVIOUS
  <1>3. AddressesAreReal'
    BY <1>1, <1>2 DEF AddressesAreReal
  <1>4. LossPosted => LossPosted'
    BY <1>1, <1>2 DEF LossPosted
  <1>. QED BY <1>1, <1>3, <1>4

\* The end of a link is posted.
LEMMA LossIsPosted ==
  ASSUME StationInv, Post("disconnected")
  PROVE  events' \in Seq(EventNames) /\ AddressesAreReal' /\ LossPosted'
  <1>. USE DEF StationInv, Post
  <1>1. events' \in Seq(EventNames) /\ Len(events') = Len(events) + 1
    BY DEF EventNames
  <1>2. /\ events'[Len(events) + 1] = "disconnected"
        /\ \A i \in 1 .. Len(events) : events'[i] = events[i]
    OBVIOUS
  <1>3. \A i \in 1 .. Len(events') : events'[i] = "got_ip" =>
            Len(events') \in i + 1 .. Len(events')
    BY <1>1, <1>2
  <1>. QED BY <1>1, <1>2, <1>3 DEF AddressesAreReal, LossPosted

\* The event task takes the first event.
LEMMA Handled ==
  ASSUME StationInv, NEW e, Handles(e), UNCHANGED link \/ (link # "up" /\ e = "disconnected")
  PROVE  /\ events' \in Seq(EventNames)
         /\ AddressesAreReal'
         /\ e # "disconnected" /\ LossPosted => LossPosted'
         /\ e = "got_ip" => link = "up" \/ LossPosted'
  <1>. USE DEF StationInv, Handles
  <1>1. events' \in Seq(EventNames) /\ Len(events) = Len(events') + 1
    OBVIOUS
  <1>2. events[1] = e /\ \A i \in 1 .. Len(events') : events'[i] = events[i + 1]
    OBVIOUS
  <1>3. ASSUME NEW i \in 1 .. Len(events), NEW j \in i + 1 .. Len(events),
               events[j] = "disconnected"
        PROVE  j - 1 \in i .. Len(events') /\ j - 1 \in 1 .. Len(events')
               /\ events'[j - 1] = "disconnected"
    BY <1>1, <1>2, <1>3
  <1>4. AddressesAreReal'
    <2>. SUFFICES ASSUME NEW i \in 1 .. Len(events'), events'[i] = "got_ip"
                  PROVE  link' = "up" \/ \E j \in i + 1 .. Len(events') : events'[j] = "disconnected"
      BY DEF AddressesAreReal
    <2>1. i + 1 \in 1 .. Len(events) /\ events[i + 1] = "got_ip"
      BY <1>1, <1>2
    <2>2. link = "up" \/ \E j \in i + 2 .. Len(events) : events[j] = "disconnected"
      BY <2>1, <1>1 DEF AddressesAreReal
    <2>3. CASE link = "up"
      BY <2>3
    <2>4. ASSUME NEW j \in i + 2 .. Len(events), events[j] = "disconnected"
          PROVE  \E k \in i + 1 .. Len(events') : events'[k] = "disconnected"
      BY <1>1, <1>2, <2>4
    <2>. QED BY <2>2, <2>3, <2>4
  <1>5. e # "disconnected" /\ LossPosted => LossPosted'
    BY <1>1, <1>2 DEF LossPosted
  <1>6. e = "got_ip" => link = "up" \/ LossPosted'
    <2>. SUFFICES ASSUME e = "got_ip", link # "up" PROVE LossPosted'
      OBVIOUS
    <2>1. 1 \in 1 .. Len(events) /\ events[1] = "got_ip"
      BY <1>1, <1>2
    <2>2. PICK j \in 1 + 1 .. Len(events) : events[j] = "disconnected"
      BY <2>1 DEF AddressesAreReal
    <2>3. j - 1 \in 1 .. Len(events') /\ events'[j - 1] = "disconnected"
      BY <1>3, <2>1, <2>2
    <2>. QED BY <2>3 DEF LossPosted
  <1>. QED BY <1>1, <1>4, <1>5, <1>6

\* A link that is up stays up while nothing is posted.
LEMMA LinkStays ==
  ASSUME StationInv, UNCHANGED events, link = "up" => link' = "up"
  PROVE  events' \in Seq(EventNames) /\ AddressesAreReal' /\ LossPosted' = LossPosted
  BY DEF StationInv, AddressesAreReal, LossPosted

\* The driver's attempts and disconnects.
LEMMA DriverTurns ==
  ASSUME StationInv, DriverDisconnects
  PROVE  /\ events' \in Seq(EventNames) /\ AddressesAreReal'
         /\ connected => link' = "up" \/ LossPosted'
  <1>1. CASE Post("disconnected")
    BY <1>1, LossIsPosted
  <1>2. CASE UNCHANGED <<link, events>>
    <2>1. connected => link = "up" \/ LossPosted
      BY DEF StationInv, ConnectedIsReal, LossPosted
    <2>. QED BY <1>2, <2>1, LinkStays
  <1>. QED BY <1>1, <1>2 DEF DriverDisconnects

-----------------------------------------------------------------------------
(***************************************************************************)
(* StationInv is inductive.                                                *)
(***************************************************************************)
LEMMA StationInit == WifiInit => StationInv
  <1>. SUFFICES ASSUME WifiInit PROVE StationInv
    OBVIOUS
  <1>1. events \in Seq(EventNames) /\ Len(events) = 0
    BY DEF WifiInit
  <1>2. AddressesAreReal
    BY <1>1 DEF AddressesAreReal
  <1>3. ConnectedIsReal /\ ServicesFollowAddress
    BY DEF WifiInit, ConnectedIsReal, ServicesFollowAddress
  <1>. QED BY <1>1, <1>2, <1>3 DEF StationInv

LEMMA DriverStation ==
  ASSUME StationInv, Joined \/ Addressed \/ Lost
  PROVE  StationInv'
  <1>1. ServicesFollowAddress'
    BY DEF StationInv, ServicesFollowAddress, Joined, Addressed, Lost, flagVars, bootVars
  <1>2. UNCHANGED connected
    BY DEF Joined, Addressed, Lost, flagVars
  <1>3. CASE Joined \/ Addressed
    <2>1. PICK e \in EventNames : Post(e) /\ link # "up" /\ (e = "got_ip" => link' = "up")
      BY <1>3 DEF Joined, Addressed, EventNames
    <2>2. ~connected \/ LossPosted
      BY <2>1 DEF StationInv, ConnectedIsReal, LossPosted
    <2>3. events' \in Seq(EventNames) /\ AddressesAreReal' /\ (LossPosted => LossPosted')
      BY <2>1, Posted
    <2>4. ConnectedIsReal'
      BY <1>2, <2>2, <2>3 DEF ConnectedIsReal, LossPosted
    <2>. QED BY <1>1, <2>3, <2>4 DEF StationInv
  <1>4. CASE Lost
    <2>1. events' \in Seq(EventNames) /\ AddressesAreReal' /\ LossPosted'
      BY <1>4, LossIsPosted DEF Lost
    <2>. QED BY <1>1, <2>1 DEF StationInv, ConnectedIsReal, LossPosted
  <1>. QED BY <1>3, <1>4

LEMMA EventStation ==
  ASSUME StationInv, EventStep
  PROVE  StationInv'
  <1>1. CASE HandleJoined
    <2>1. Handles("connected") /\ UNCHANGED <<link, connected, services, boot>>
      BY <1>1 DEF HandleJoined, Handles
    <2>2. events' \in Seq(EventNames) /\ AddressesAreReal' /\ (LossPosted => LossPosted')
      BY <2>1, Handled
    <2>. QED BY <2>1, <2>2 DEF StationInv, ConnectedIsReal, ServicesFollowAddress, LossPosted
  <1>2. CASE HandleAddressed
    <2>1. /\ Handles("got_ip") /\ UNCHANGED <<link, boot>>
          /\ boot = "done" => services'
      BY <1>2 DEF HandleAddressed, Handles
    <2>2. events' \in Seq(EventNames) /\ AddressesAreReal' /\ (link = "up" \/ LossPosted')
      BY <2>1, Handled
    <2>. QED BY <2>1, <2>2 DEF StationInv, ConnectedIsReal, ServicesFollowAddress, LossPosted
  <1>3. CASE HandleLost
    <2>1. /\ Handles("disconnected") /\ ~connected'
          /\ UNCHANGED link \/ (link # "up" /\ "disconnected" = "disconnected")
      BY <1>3 DEF HandleLost, DriverConnects, DriverRefuses, DriverFails
    <2>2. events' \in Seq(EventNames) /\ AddressesAreReal'
      BY <2>1, Handled
    <2>. QED BY <2>1, <2>2 DEF StationInv, ConnectedIsReal, ServicesFollowAddress
  <1>. QED BY <1>1, <1>2, <1>3 DEF EventStep

LEMMA AttemptsStation ==
  ASSUME StationInv, NEW n, Attempts(n)
  PROVE  StationInv'
  <1>1. UNCHANGED events /\ (link = "up" => link' = "up") /\ ~connected'
    BY DEF Attempts
  <1>. QED BY <1>1, LinkStays DEF StationInv, ConnectedIsReal, ServicesFollowAddress

LEMMA InterruptStation ==
  ASSUME StationInv, DriverDisconnects, UNCHANGED <<connected, bootVars>>
  PROVE  StationInv'
  <1>1. ServicesFollowAddress'
    BY DEF StationInv, ServicesFollowAddress, bootVars
  <1>. QED BY <1>1, DriverTurns DEF StationInv, ConnectedIsReal, LossPosted

\* Nothing that the invariant is about changes, but for attempts of an idle driver.
LEMMA StationStays ==
  ASSUME StationInv, UNCHANGED <<events, connected, bootVars>>, link = "up" => link' = "up"
  PROVE  StationInv'
  <1>1. ServicesFollowAddress'
    BY DEF StationInv, ServicesFollowAddress, bootVars
  <1>2. events' \in Seq(EventNames) /\ AddressesAreReal' /\ LossPosted' = LossPosted
    BY LinkStays
  <1>3. ConnectedIsReal'
    BY <1>2 DEF StationInv, ConnectedIsReal, LossPosted
  <1>. QED BY <1>1, <1>2, <1>3 DEF StationInv

LEMMA ConnectStation ==
  ASSUME StationInv, ConnectStep
  PROVE  StationInv'
  <1>1. ASSUME NEW n \in Nets, ConnectCalled(n) PROVE StationInv'
    <2>1. CASE Attempts(n)
      BY <2>1, AttemptsStation
    <2>2. CASE UNCHANGED <<driverVars, connected>>
      BY <1>1, <2>2, StationStays DEF ConnectCalled, driverVars
    <2>3. CASE DriverDisconnects /\ UNCHANGED connected
      BY <1>1, <2>3, InterruptStation DEF ConnectCalled
    <2>. QED BY <1>1, <2>1, <2>2, <2>3 DEF ConnectCalled, Interrupts
  <1>2. CASE ConnectAgain
    <2>1. CASE Attempts(conn.net)
      BY <2>1, AttemptsStation
    <2>2. CASE DriverDisconnects /\ UNCHANGED connected
      BY <1>2, <2>2, InterruptStation DEF ConnectAgain
    <2>. QED BY <1>2, <2>1, <2>2 DEF ConnectAgain, Interrupts
  <1>3. CASE ConnectSwitches
    BY <1>3, AttemptsStation DEF ConnectSwitches
  <1>. QED BY <1>1, <1>2, <1>3 DEF ConnectStep

LEMMA ScanStation ==
  ASSUME StationInv, NEW s \in Scans, TaskStep(s)
  PROVE  StationInv'
  <1>1. CASE ScanCalled(s)
    <2>1. CASE DriverDisconnects
      BY <1>1, <2>1, InterruptStation DEF ScanCalled
    <2>2. CASE UNCHANGED driverVars
      BY <1>1, <2>2, StationStays DEF ScanCalled, driverVars
    <2>. QED BY <1>1, <2>1, <2>2 DEF ScanCalled
  <1>2. CASE ScanRuns(s) \/ TaskEnds(s)
    <2>1. UNCHANGED <<driverVars, connected, bootVars>>
      BY <1>2 DEF ScanRuns, TaskEnds, ScanEnds, flagVars
    <2>. QED BY <2>1, StationStays DEF driverVars
  <1>. QED BY <1>1, <1>2 DEF TaskStep

LEMMA BootStation ==
  ASSUME StationInv, RegisterCallback \/ CheckConnected
  PROVE  StationInv'
  <1>1. UNCHANGED <<events, link, connected>>
    BY DEF RegisterCallback, CheckConnected, driverVars, flagVars
  <1>2. ServicesFollowAddress'
    BY <1>1 DEF RegisterCallback, CheckConnected, ServicesFollowAddress
  <1>. QED BY <1>1, <1>2, LinkStays DEF StationInv, ConnectedIsReal, LossPosted

LEMMA StationNext ==
  ASSUME StationInv, [PageNext]_vars
  PROVE  StationInv'
  <1>0. CASE Restart
    <2>1. events' \in Seq(EventNames) /\ Len(events') = 0 /\ ~connected'
      BY <1>0 DEF Restart
    <2>2. AddressesAreReal'
      BY <2>1 DEF AddressesAreReal
    <2>. QED BY <2>1, <2>2 DEF StationInv, ConnectedIsReal, ServicesFollowAddress
  <1>1. CASE SystemStep
    <2>1. CASE RetryFires
      <3>1. UNCHANGED <<events, connected, bootVars>> /\ (link = "up" => link' = "up")
        BY <2>1 DEF RetryFires, DriverConnects, DriverRefuses, DriverFails
      <3>. QED BY <3>1, StationStays
    <2>. QED BY <1>1, <2>1, EventStation, ConnectStation, BootStation DEF SystemStep
  <1>2. CASE OpenPage \/ Rescan \/ LeavePage \/ PollScan \/ UNCHANGED vars
              \/ (\E n \in Nets : Connect(n) \/ ConnectNoTask(n))
    <2>1. UNCHANGED <<events, link, connected, bootVars>>
      BY <1>2 DEF OpenPage, Rescan, Unscanned, LeavePage, PollScan, Connect, ConnectNoTask, vars,
                  wifiVars, driverVars, flagVars
    <2>. QED BY <2>1, StationStays
  <1>. QED BY <1>0, <1>1, <1>2, DriverStation, ScanStation DEF PageNext

LEMMA StationInvariant == PageSpec => []StationInv
  <1>1. PageInit => StationInv
    BY StationInit DEF PageInit
  <1>. QED BY <1>1, StationNext, PTL DEF PageSpec

(***************************************************************************)
(* s_is_connected is the driver's state as far as the event task has heard *)
(* of it, whatever switches and scans of the page come between.            *)
(***************************************************************************)
THEOREM FlagIsReal == PageSpec => []ConnectedIsReal
  <1>1. StationInv => ConnectedIsReal
    BY DEF StationInv
  <1>. QED BY <1>1, StationInvariant, PTL

(***************************************************************************)
(* The test after wifi_app_set_connected_callback makes up for an address  *)
(* that came before it: on every connected device each of the services has *)
(* been called to start.                                                   *)
(***************************************************************************)
THEOREM ServicesAreStarted == PageSpec => []ServicesFollowAddress
  <1>1. StationInv => ServicesFollowAddress
    BY DEF StationInv
  <1>. QED BY <1>1, StationInvariant, PTL

-----------------------------------------------------------------------------
(***************************************************************************)
(* The page and its scan tasks.                                            *)
(***************************************************************************)
ScanInv == scan \in [Scans -> ScanStates] /\ ScanningIsAnswered

LEMMA ScanInvInit == PageInit => ScanInv
  BY DEF PageInit, WifiInit, ScanInv, ScanningIsAnswered, ScanStates

LEMMA StartScanAnswered ==
  ASSUME ScanInv, StartScan
  PROVE  ScanInv'
  <1>1. CASE \E s \in Scans : scan[s] = "off" /\ scan' = [scan EXCEPT ![s] = "start"]
    BY <1>1 DEF ScanInv, StartScan, ScanningIsAnswered, ScanStates
  <1>2. CASE done' = TRUE /\ UNCHANGED scan
    BY <1>2 DEF ScanInv, StartScan, ScanningIsAnswered
  <1>. QED BY <1>1, <1>2 DEF StartScan

LEMMA TaskStepAnswered ==
  ASSUME ScanInv, NEW s \in Scans, TaskStep(s)
  PROVE  ScanInv'
  <1>1. CASE TaskEnds(s)
    BY <1>1 DEF ScanInv, TaskEnds, ScanEnds, ScanningIsAnswered, ScanStates
  <1>2. CASE (ScanCalled(s) \/ ScanRuns(s)) /\ UNCHANGED pageVars
    <2>1. PICK to \in ScanStates \ {"off"} : scan' = [scan EXCEPT ![s] = to]
      BY <1>2 DEF ScanCalled, ScanRuns, ScanStates
    <2>2. scan'[s] # "off" /\ scan' \in [Scans -> ScanStates]
      BY <2>1 DEF ScanInv
    <2>3. UNCHANGED pageVars
      BY <1>2
    <2>. QED BY <2>2, <2>3 DEF ScanInv, ScanningIsAnswered, pageVars, shownVars
  <1>. QED BY <1>1, <1>2 DEF TaskStep

LEMMA ScanInvNext ==
  ASSUME ScanInv, [PageNext]_vars
  PROVE  ScanInv'
  <1>1. CASE (SystemStep \/ Joined \/ Addressed \/ Lost) /\ UNCHANGED pageVars
    <2>1. UNCHANGED scan
      BY <1>1 DEF SystemStep, EventStep, HandleJoined, HandleAddressed, HandleLost, Handles,
                  RetryFires, ConnectStep, ConnectCalled, ConnectAgain, ConnectSwitches,
                  RegisterCallback, CheckConnected, Joined, Addressed, Lost, scanVars
    <2>. QED BY <1>1, <2>1 DEF ScanInv, ScanningIsAnswered, pageVars, shownVars
  <1>2. CASE OpenPage \/ Rescan
    BY <1>2, StartScanAnswered DEF OpenPage, Rescan
  <1>3. CASE LeavePage \/ PollScan
    BY <1>3 DEF LeavePage, PollScan, wifiVars, scanVars, ScanInv, ScanningIsAnswered
  <1>4. CASE (\E n \in Nets : Connect(n) \/ ConnectNoTask(n)) \/ UNCHANGED vars
    <2>1. UNCHANGED <<scan, list, poll, done>>
      BY <1>4 DEF Connect, ConnectNoTask, vars, wifiVars, scanVars, pageVars, shownVars
    <2>. QED BY <2>1 DEF ScanInv, ScanningIsAnswered
  <1>5. CASE Restart
    BY <1>5 DEF Restart, ScanInv, ScanningIsAnswered, ScanStates
  <1>. QED BY <1>1, <1>2, <1>3, <1>4, <1>5, TaskStepAnswered DEF PageNext

(***************************************************************************)
(* "Scanning..." always has a result to come: the timer polls for one that *)
(* is there or that a task still running will bring, its own or one of a   *)
(* page left before.                                                       *)
(***************************************************************************)
THEOREM ScansAreAnswered == PageSpec => []ScanningIsAnswered
  <1>1. ScanInv => ScanningIsAnswered
    BY DEF ScanInv
  <1>. QED BY <1>1, ScanInvInit, ScanInvNext, PTL DEF PageSpec

-----------------------------------------------------------------------------
(***************************************************************************)
(* Every variable of the station and of its page keeps its type.           *)
(***************************************************************************)
LEMMA TypedInit == PageInit => PageTypeOK
  <1>. SUFFICES ASSUME PageInit PROVE PageTypeOK
    OBVIOUS
  <1>. USE WifiAssumption DEF PageInit, WifiInit
  <1>1. failed \in BOOLEAN
    BY Zenon
  <1>2. events \in Seq({"connected", "got_ip", "disconnected"})
    OBVIOUS
  <1>3. /\ {link} \subseteq {"idle", "trying", "joined", "up"}
        /\ {connecting} \subseteq BOOLEAN
    BY Zenon
  <1>4. retry \in 0 .. MaxRetry /\ conn \in [at : {"off", "start", "again", "switch"}, net : Nets \cup {None}]
    OBVIOUS
  <1>. QED BY <1>1, <1>2, <1>3, <1>4 DEF PageTypeOK, WifiTypeOK

\* Posting and handling events keep the queue a queue of events.
LEMMA PostTyped ==
  ASSUME WifiTypeOK, NEW e \in EventNames, Post(e)
  PROVE  events' \in Seq({"connected", "got_ip", "disconnected"})
  BY DEF WifiTypeOK, Post, EventNames

LEMMA HandleTyped ==
  ASSUME WifiTypeOK, NEW e, Handles(e)
  PROVE  events' \in Seq({"connected", "got_ip", "disconnected"})
  BY DEF WifiTypeOK, Handles

LEMMA DisconnectTyped ==
  ASSUME WifiTypeOK, DriverDisconnects
  PROVE  /\ events' \in Seq({"connected", "got_ip", "disconnected"})
         /\ link' \in {"idle", "trying", "joined", "up"}
         /\ UNCHANGED <<peer, config>> /\ failed' \in BOOLEAN
  BY PostTyped DEF WifiTypeOK, DriverDisconnects, EventNames

LEMMA DriverTyped ==
  ASSUME PageTypeOK, Joined \/ Addressed \/ Lost, UNCHANGED pageVars
  PROVE  PageTypeOK'
  <1>1. events' \in Seq({"connected", "got_ip", "disconnected"})
    BY PostTyped DEF PageTypeOK, Joined, Addressed, Lost, EventNames
  <1>2. /\ link' \in {"idle", "trying", "joined", "up"}
        /\ UNCHANGED <<peer, config, flagVars, ssid, retry, careVars, bootVars, scanVars, connVars>>
    BY DEF Joined, Addressed, Lost
  <1>. QED BY <1>1, <1>2 DEF PageTypeOK, WifiTypeOK, flagVars, careVars, bootVars, scanVars,
                            connVars, pageVars, shownVars, savedVars

LEMMA EventTyped ==
  ASSUME PageTypeOK, EventStep, UNCHANGED pageVars
  PROVE  PageTypeOK'
  <1>1. /\ events' \in Seq({"connected", "got_ip", "disconnected"})
        /\ UNCHANGED <<config, ssid, boot, scanVars, connVars>>
    BY HandleTyped DEF PageTypeOK, EventStep, HandleJoined, HandleAddressed, HandleLost,
                       Handles
  <1>2. /\ {connected', connecting', userSwitch', inScan', services'} \subseteq BOOLEAN
        /\ link' \in {"idle", "trying", "joined", "up"} /\ peer' \in Nets \cup {None}
    BY DEF PageTypeOK, WifiTypeOK, EventStep, HandleJoined, HandleAddressed, HandleLost,
           DriverConnects, DriverRefuses, DriverFails
  <1>4. {timer', failed'} \subseteq BOOLEAN
    BY DEF PageTypeOK, WifiTypeOK, EventStep, HandleJoined, HandleAddressed, HandleLost,
           StartRetryTimer, careVars
  <1>3. retry' \in 0 .. MaxRetry
    BY WifiAssumption DEF PageTypeOK, WifiTypeOK, EventStep, HandleJoined,
                          HandleAddressed, HandleLost
  <1>. QED BY <1>1, <1>2, <1>3, <1>4 DEF PageTypeOK, WifiTypeOK, scanVars, connVars, pageVars,
                                        shownVars, savedVars

LEMMA RetryTyped ==
  ASSUME PageTypeOK, RetryFires, UNCHANGED pageVars
  PROVE  PageTypeOK'
  <1>1. link' \in {"idle", "trying", "joined", "up"} /\ peer' \in Nets \cup {None}
    BY DEF PageTypeOK, WifiTypeOK, RetryFires, DriverConnects, DriverRefuses, DriverFails
  <1>2. retry' \in 0 .. MaxRetry
    BY WifiAssumption DEF RetryFires
  <1>3. connecting' \in BOOLEAN
    BY DEF RetryFires
  <1>. QED BY <1>1, <1>2, <1>3 DEF PageTypeOK, WifiTypeOK, RetryFires, careVars, bootVars,
                                  scanVars, connVars, pageVars, shownVars, savedVars

LEMMA BootTyped ==
  ASSUME PageTypeOK, RegisterCallback \/ CheckConnected, UNCHANGED pageVars
  PROVE  PageTypeOK'
  <1>1. /\ boot' \in {"init", "check", "done"} /\ services' \in BOOLEAN
        /\ UNCHANGED <<driverVars, flagVars, ssid, retry, careVars, scanVars, connVars>>
    BY DEF PageTypeOK, WifiTypeOK, RegisterCallback, CheckConnected
  <1>. QED BY <1>1 DEF PageTypeOK, WifiTypeOK, driverVars, flagVars, careVars, scanVars, connVars,
                      pageVars, shownVars, savedVars

LEMMA AttemptsTyped ==
  ASSUME WifiTypeOK, NEW n \in Nets \cup {None}, Attempts(n)
  PROVE  /\ events' \in Seq({"connected", "got_ip", "disconnected"})
         /\ link' \in {"idle", "trying", "joined", "up"}
         /\ {peer', config', ssid'} \subseteq Nets \cup {None}
         /\ {connected', connecting', refused', failed'} \subseteq BOOLEAN
         /\ retry' \in 0 .. MaxRetry
         /\ conn' \in [at : {"off", "start", "again", "switch"}, net : Nets \cup {None}]
  <1>1. retry' \in 0 .. MaxRetry
    BY WifiAssumption DEF Attempts
  <1>2. /\ UNCHANGED events /\ {connected', connecting', refused', failed'} \subseteq BOOLEAN
        /\ conn' \in [at : {"off", "start", "again", "switch"}, net : Nets \cup {None}]
    BY DEF WifiTypeOK, Attempts
  <1>3. /\ link' \in {"idle", "trying", "joined", "up"}
        /\ peer' \in Nets \cup {None} /\ ssid' \in Nets \cup {None}
    BY DEF WifiTypeOK, Attempts
  <1>4. config' \in Nets \cup {None}
    BY DEF WifiTypeOK, Attempts
  <1>. QED BY <1>1, <1>2, <1>3, <1>4 DEF WifiTypeOK

LEMMA InterruptTyped ==
  ASSUME WifiTypeOK, NEW where \in {"again", "switch"}, Interrupts(where)
  PROVE  /\ events' \in Seq({"connected", "got_ip", "disconnected"})
         /\ link' \in {"idle", "trying", "joined", "up"}
         /\ {peer', config'} \subseteq Nets \cup {None}
         /\ {userSwitch', refused', failed'} \subseteq BOOLEAN
         /\ conn' \in [at : {"off", "start", "again", "switch"}, net : Nets \cup {None}]
  <1>1. conn' \in [at : {"off", "start", "again", "switch"}, net : Nets \cup {None}]
    BY DEF WifiTypeOK, Interrupts
  <1>. QED BY <1>1, DisconnectTyped DEF Interrupts, WifiTypeOK

LEMMA ConnectTyped ==
  ASSUME PageTypeOK, ConnectStep, UNCHANGED pageVars
  PROVE  PageTypeOK'
  <1>. USE DEF PageTypeOK
  <1>1. UNCHANGED <<inScan, bootVars, scanVars>> /\ timer' \in BOOLEAN
    BY DEF WifiTypeOK, ConnectStep, ConnectCalled, ConnectAgain, ConnectSwitches
  <1>2. /\ events' \in Seq({"connected", "got_ip", "disconnected"})
        /\ link' \in {"idle", "trying", "joined", "up"}
        /\ {peer', config', ssid'} \subseteq Nets \cup {None}
        /\ {connected', connecting', userSwitch', refused', failed'} \subseteq BOOLEAN
        /\ retry' \in 0 .. MaxRetry
        /\ conn' \in [at : {"off", "start", "again", "switch"}, net : Nets \cup {None}]
    <2>1. CASE \E n \in Nets \cup {None} : Attempts(n) /\ UNCHANGED userSwitch
      BY <2>1, AttemptsTyped DEF WifiTypeOK
    <2>2. CASE /\ \E where \in {"again", "switch"} : Interrupts(where)
               /\ connecting' \in BOOLEAN /\ retry' \in 0 .. MaxRetry
               /\ UNCHANGED <<connected, ssid>>
      BY <2>2, InterruptTyped DEF WifiTypeOK
    <2>3. CASE /\ conn' = [at |-> "off", net |-> None]
               /\ UNCHANGED <<driverVars, connected, connecting, userSwitch, ssid, retry, refused,
                              failed>>
      BY <2>3 DEF WifiTypeOK, driverVars
    <2>4. CASE ConnectAgain
      <3>1. conn.net \in Nets \cup {None}
        BY DEF WifiTypeOK
      <3>2. ConnectAgain => 0 \in 0 .. MaxRetry
        BY WifiAssumption
      <3>. QED BY <2>1, <2>2, <2>4, <3>1, <3>2 DEF ConnectAgain
    <2>5. CASE ConnectSwitches
      <3>1. conn.net \in Nets \cup {None}
        BY DEF WifiTypeOK
      <3>. QED BY <2>1, <2>5, <3>1 DEF ConnectSwitches
    <2>6. ASSUME NEW n \in Nets, ConnectCalled(n)
          PROVE  \/ Attempts(n) /\ UNCHANGED userSwitch
                 \/ /\ \E where \in {"again", "switch"} : Interrupts(where)
                    /\ UNCHANGED <<connected, connecting, ssid, retry>>
                 \/ /\ conn' = [at |-> "off", net |-> None]
                    /\ UNCHANGED <<driverVars, connected, connecting, userSwitch, ssid, retry,
                                   refused, failed>>
      BY <2>6 DEF ConnectCalled
    <2>7. connecting \in BOOLEAN /\ retry \in 0 .. MaxRetry
      BY DEF WifiTypeOK
    <2>. QED BY <2>1, <2>2, <2>3, <2>4, <2>5, <2>6, <2>7 DEF ConnectStep
  <1>. QED BY <1>1, <1>2 DEF WifiTypeOK, bootVars, scanVars, pageVars, shownVars, savedVars

LEMMA TaskTyped ==
  ASSUME PageTypeOK, NEW s \in Scans, TaskStep(s)
  PROVE  PageTypeOK'
  <1>. USE DEF PageTypeOK
  <1>1. CASE ScanCalled(s) /\ UNCHANGED pageVars
    <2>1. /\ events' \in Seq({"connected", "got_ip", "disconnected"})
          /\ link' \in {"idle", "trying", "joined", "up"}
          /\ UNCHANGED <<peer, config>> /\ {userSwitch', failed'} \subseteq BOOLEAN
      BY <1>1, DisconnectTyped DEF ScanCalled, WifiTypeOK, driverVars
    <2>2. scan' \in [Scans -> {"off", "start", "tries", "ends"}] /\ resume' \in [Scans -> BOOLEAN]
      BY <1>1 DEF ScanCalled, WifiTypeOK
    <2>. QED BY <1>1, <2>1, <2>2 DEF ScanCalled, WifiTypeOK, bootVars, connVars, pageVars,
                                     shownVars, savedVars
  <1>2. CASE ScanRuns(s) /\ UNCHANGED pageVars
    <2>1. scan' \in [Scans -> {"off", "start", "tries", "ends"}]
      BY <1>2 DEF ScanRuns, WifiTypeOK
    <2>. QED BY <1>2, <2>1 DEF ScanRuns, WifiTypeOK, driverVars, flagVars, careVars, bootVars,
                               connVars, pageVars, shownVars, savedVars
  <1>3. CASE TaskEnds(s)
    <2>1. scan' \in [Scans -> {"off", "start", "tries", "ends"}] /\ resume' \in [Scans -> BOOLEAN]
      BY <1>3 DEF TaskEnds, ScanEnds, WifiTypeOK
    <2>2. {timer', failed'} \subseteq BOOLEAN
      BY <1>3 DEF TaskEnds, ScanEnds, StartRetryTimer, careVars, WifiTypeOK
    <2>. QED BY <1>3, <2>1, <2>2 DEF TaskEnds, ScanEnds, WifiTypeOK, driverVars, bootVars, connVars,
                                     savedVars
  <1>. QED BY <1>1, <1>2, <1>3 DEF TaskStep

LEMMA PageStepTyped ==
  ASSUME PageTypeOK,
         OpenPage \/ Rescan \/ LeavePage \/ PollScan
           \/ (\E n \in Nets : Connect(n) \/ ConnectNoTask(n)) \/ UNCHANGED vars
  PROVE  PageTypeOK'
  <1>. USE DEF PageTypeOK, savedVars
  <1>1. CASE OpenPage \/ Rescan
    <2>1. /\ scan' \in [Scans -> {"off", "start", "tries", "ends"}]
          /\ list' = "scanning" /\ {running', done', poll'} \subseteq BOOLEAN
          /\ UNCHANGED savedVars
      BY <1>1 DEF OpenPage, Rescan, StartScan, Unscanned, WifiTypeOK
    <2>2. UNCHANGED Unscanned
      BY <1>1 DEF OpenPage, Rescan
    <2>. QED BY <2>1, <2>2 DEF Unscanned, WifiTypeOK, driverVars, flagVars, careVars, bootVars,
                               connVars
  <1>2. CASE LeavePage \/ PollScan \/ UNCHANGED vars
    <2>1. UNCHANGED <<wifiVars, savedVars>> /\ list' \in {"closed", "scanning", "result"}
          /\ {running', done', poll'} \subseteq BOOLEAN
      BY <1>2 DEF LeavePage, PollScan, vars, pageVars, shownVars
    <2>. QED BY <2>1 DEF wifiVars, WifiTypeOK, driverVars, flagVars, careVars, bootVars, scanVars,
                         connVars
  <1>3. CASE \E n \in Nets : Connect(n) \/ ConnectNoTask(n)
    <2>1. saved' \in Nets \cup {None} /\ apart' \in BOOLEAN
      BY <1>3 DEF Connect, ConnectNoTask, SaveConfig, WifiTypeOK
    <2>2. conn' \in [at : {"off", "start", "again", "switch"}, net : Nets \cup {None}]
      BY <1>3 DEF Connect, ConnectNoTask, WifiTypeOK, wifiVars, connVars
    <2>3. UNCHANGED <<driverVars, flagVars, ssid, retry, careVars, bootVars, scanVars, refused,
                      shownVars>>
      BY <1>3 DEF Connect, ConnectNoTask, wifiVars, connVars
    <2>. QED BY <2>1, <2>2, <2>3 DEF WifiTypeOK, driverVars, flagVars, careVars, bootVars, scanVars,
                                     shownVars
  <1>. QED BY <1>1, <1>2, <1>3

\* Like the first states, with what was saved.
LEMMA RestartTyped ==
  ASSUME PageTypeOK, Restart
  PROVE  PageTypeOK'
  <1>. USE WifiAssumption DEF PageTypeOK, WifiTypeOK, Restart
  <1>1. ssid' \in Nets \cup {None} /\ {peer', config'} \subseteq Nets \cup {None}
    OBVIOUS
  <1>2. link' \in {"idle", "trying", "joined", "up"}
    OBVIOUS
  <1>3. {connecting', failed'} \subseteq BOOLEAN
    OBVIOUS
  <1>4. events' \in Seq({"connected", "got_ip", "disconnected"}) /\ retry' \in 0 .. MaxRetry
    OBVIOUS
  <1>5. conn' \in [at : {"off", "start", "again", "switch"}, net : Nets \cup {None}]
    OBVIOUS
  <1>6. saved' \in Nets \cup {None} /\ apart' \in BOOLEAN
    BY DEF savedVars
  <1>. QED BY <1>1, <1>2, <1>3, <1>4, <1>5, <1>6

LEMMA TypedNext ==
  ASSUME PageTypeOK, [PageNext]_vars
  PROVE  PageTypeOK'
  BY DriverTyped, EventTyped, RetryTyped, BootTyped, ConnectTyped, TaskTyped, PageStepTyped,
     RestartTyped
     DEF PageNext, SystemStep

(***************************************************************************)
(* The station's and the page's variables stay in their types, for every   *)
(* number of networks, scan tasks and retries.                             *)
(***************************************************************************)
THEOREM PageTyped == PageSpec => []PageTypeOK
  BY TypedInit, TypedNext, PTL DEF PageSpec

-----------------------------------------------------------------------------
(***************************************************************************)
(* The names: what the driver is set to and tries is what the program says *)
(* is current, and what a connect task brings is what was saved.           *)
(***************************************************************************)
NamesAgree == ~refused => config = ssid /\ peer = ssid

ConnectSaved ==
    /\ conn.at # "off" /\ ~apart => conn.net = saved
    /\ conn.at = "off" /\ ~refused /\ ~apart => saved = ssid

NamesInv == NamesAgree /\ ConnectSaved

LEMMA NamesInit == PageInit => NamesInv
  BY DEF PageInit, WifiInit, NamesInv, NamesAgree, ConnectSaved

\* A connect task leaves the one network it was started with in all four places.
LEMMA AttemptsNames ==
  ASSUME NamesInv, Attempts(conn.net), conn.at # "off", UNCHANGED savedVars
  PROVE  NamesInv'
  BY DEF Attempts, NamesInv, NamesAgree, ConnectSaved, savedVars

LEMMA InterruptNames ==
  ASSUME PageTypeOK, NamesInv, conn.at # "off", NEW where \in {"again", "switch"},
         Interrupts(where), UNCHANGED <<ssid, savedVars>>
  PROVE  NamesInv'
  <1>1. conn'.at = where /\ conn'.net = conn.net
    BY DEF Interrupts, PageTypeOK, WifiTypeOK
  <1>2. UNCHANGED <<peer, config, refused>>
    BY DEF Interrupts, DriverDisconnects
  <1>. QED BY <1>1, <1>2 DEF NamesInv, NamesAgree, ConnectSaved, savedVars

LEMMA ConnectNames ==
  ASSUME PageTypeOK, NamesInv, ConnectStep, UNCHANGED pageVars
  PROVE  NamesInv'
  <1>0. UNCHANGED savedVars
    BY DEF pageVars
  <1>1. ASSUME NEW n \in Nets, ConnectCalled(n) PROVE NamesInv'
    <2>1. conn.net = n /\ conn.at # "off"
      BY <1>1 DEF ConnectCalled
    <2>2. CASE Attempts(n)
      BY <1>0, <2>1, <2>2, AttemptsNames
    <2>3. CASE /\ ssid = n /\ UNCHANGED <<driverVars, ssid, refused>>
               /\ conn' = [at |-> "off", net |-> None]
      BY <1>0, <2>1, <2>3 DEF NamesInv, NamesAgree, ConnectSaved, driverVars, savedVars
    <2>4. CASE \E where \in {"again", "switch"} : Interrupts(where) /\ UNCHANGED ssid
      BY <1>0, <2>1, <2>4, InterruptNames
    <2>. QED BY <1>1, <2>2, <2>3, <2>4 DEF ConnectCalled
  <1>2. CASE ConnectAgain
    BY <1>0, <1>2, AttemptsNames, InterruptNames DEF ConnectAgain
  <1>3. CASE ConnectSwitches
    BY <1>0, <1>3, AttemptsNames DEF ConnectSwitches
  <1>. QED BY <1>1, <1>2, <1>3 DEF ConnectStep

LEMMA NamesNext ==
  ASSUME PageTypeOK, NamesInv, [PageNext]_vars
  PROVE  NamesInv'
  <1>1. CASE (EventStep \/ RetryFires) /\ UNCHANGED pageVars
    <2>1. UNCHANGED <<config, ssid, connVars>> /\ (peer' = peer \/ peer' = config)
      BY <1>1 DEF EventStep, HandleJoined, HandleAddressed, HandleLost, Handles, RetryFires,
                  DriverConnects, DriverRefuses, DriverFails
    <2>. QED BY <1>1, <2>1 DEF NamesInv, NamesAgree, ConnectSaved, connVars, pageVars, savedVars
  <1>2. CASE /\ Joined \/ Addressed \/ Lost \/ RegisterCallback \/ CheckConnected
             /\ UNCHANGED pageVars
    <2>1. UNCHANGED <<peer, config, ssid, connVars>>
      BY <1>2 DEF Joined, Addressed, Lost, RegisterCallback, CheckConnected, driverVars
    <2>. QED BY <1>2, <2>1 DEF NamesInv, NamesAgree, ConnectSaved, connVars, pageVars, savedVars
  <1>3. CASE \/ (\E s \in Scans : TaskStep(s)) \/ OpenPage \/ Rescan \/ LeavePage \/ PollScan
             \/ UNCHANGED vars
    <2>1. UNCHANGED <<peer, config, ssid, connVars>>
      BY <1>3 DEF TaskStep, ScanCalled, ScanRuns, TaskEnds, ScanEnds, OpenPage,
                  Rescan, Unscanned, LeavePage, PollScan, DriverDisconnects, vars, wifiVars,
                  driverVars
    <2>2. UNCHANGED savedVars
      BY <1>3 DEF TaskStep, TaskEnds, OpenPage, Rescan, StartScan, LeavePage, PollScan, vars,
                  pageVars
    <2>. QED BY <2>1, <2>2 DEF NamesInv, NamesAgree, ConnectSaved, connVars, savedVars
  <1>4. ASSUME NEW n \in Nets, Connect(n) \/ ConnectNoTask(n) PROVE NamesInv'
    <2>1. UNCHANGED <<peer, config, ssid, refused>>
      BY <1>4 DEF Connect, ConnectNoTask, wifiVars, connVars, driverVars
    <2>2. CASE Connect(n)
      <3>1. conn'.at = "start" /\ conn'.net = n
        BY <2>2 DEF Connect
      <3>2. apart' \/ saved' = n
        BY <2>2 DEF Connect, SaveConfig
      <3>. QED BY <2>1, <3>1, <3>2 DEF NamesInv, NamesAgree, ConnectSaved
    <2>3. CASE ConnectNoTask(n)
      <3>1. apart' = TRUE
        BY <2>3 DEF ConnectNoTask
      <3>. QED BY <2>1, <3>1 DEF NamesInv, NamesAgree, ConnectSaved
    <2>. QED BY <1>4, <2>2, <2>3
  <1>5. CASE ConnectStep /\ UNCHANGED pageVars
    BY <1>5, ConnectNames
  <1>6. CASE Restart
    BY <1>6 DEF Restart, NamesInv, NamesAgree, ConnectSaved, savedVars
  <1>. QED BY <1>1, <1>2, <1>3, <1>4, <1>5, <1>6 DEF PageNext, SystemStep

LEMMA NamesInvariant == PageSpec => [](PageTypeOK /\ NamesInv)
  <1>1. PageInit => NamesInv
    BY NamesInit
  <1>2. PageTypeOK /\ NamesInv /\ [PageNext]_vars => NamesInv'
    BY NamesNext
  <1>. QED BY <1>1, <1>2, PageTyped, PTL DEF PageSpec

(***************************************************************************)
(* However links were switched, cut for scans and retried, the network     *)
(* shown as connected is the one the driver is connected to.               *)
(***************************************************************************)
THEOREM NetworkIsNamed == PageSpec => []NamedNetworkIsLinked
  <1>1. NamesInv => NamedNetworkIsLinked
    BY DEF NamesInv, NamesAgree, NamedNetworkIsLinked
  <1>. QED BY <1>1, NamesInvariant, PTL

(***************************************************************************)
(* The network of the next boot is the one the driver is set to, across    *)
(* retries, switches and restarts, unless a write of the last save failed  *)
(* or the user's last attempt ended in an error or had no task.            *)
(***************************************************************************)
THEOREM NextBootIsConfigured == PageSpec => []SavedIsConfigured
  <1>1. NamesInv => SavedIsConfigured
    BY DEF NamesInv, NamesAgree, ConnectSaved, SavedIsConfigured
  <1>. QED BY <1>1, NamesInvariant, PTL




-----------------------------------------------------------------------------
(***************************************************************************)
(* Nobody is stranded: an idle driver with a network always has someone    *)
(* who will start it again.  FlagsKept says what the flags stand for,      *)
(* LossExplained that the event task leaves a loss unanswered only if      *)
(* somebody else answers it, and CaredFor who that is.                     *)
(***************************************************************************)
Switching == conn.at \in {"again", "switch"}
Scanning(s) == scan[s] \in {"tries", "ends"}
Cuts(s) == scan[s] = "tries" /\ resume[s]

FlagsKept ==
    /\ connecting => link # "idle" \/ LossPosted \/ failed
    /\ userSwitch => failed \/ (LossPosted /\ (Switching \/ \E s \in Scans : Cuts(s)))
    /\ inScan => \E s \in Scans : Scanning(s)
    /\ \A s \in Scans : resume[s] => Scanning(s)

LossExplained ==
    LossPosted =>
        \/ Switching
        \/ \E s \in Scans : Cuts(s)
        \/ \A s \in Scans : scan[s] = "off" \/ resume[s]

CaredFor ==
    link = "idle" /\ ssid # None /\ ~refused /\ ~failed /\ ~timer =>
        Switching \/ LossPosted \/ \E s \in Scans : resume[s]

CareInv == FlagsKept /\ LossExplained /\ CaredFor
Known == StationInv /\ PageTypeOK

LEMMA CareInit == PageInit => CareInv
  BY DEF PageInit, WifiInit, CareInv, FlagsKept, LossExplained, CaredFor, LossPosted

\* Which losses are posted after an event was posted or handled.
LEMMA PostedOther ==
  ASSUME StationInv, NEW e \in EventNames, Post(e), e # "disconnected"
  PROVE  LossPosted' = LossPosted
  <1>1. Len(events') = Len(events) + 1 /\ events'[Len(events) + 1] = e
        /\ \A i \in 1 .. Len(events) : events'[i] = events[i]
    BY DEF StationInv, Post
  <1>2. Len(events) \in Nat
    BY DEF StationInv
  <1>. QED BY <1>1, <1>2 DEF LossPosted

LEMMA HandledLosses ==
  ASSUME StationInv, NEW e, Handles(e)
  PROVE  /\ LossPosted' => LossPosted
         /\ e = "disconnected" => LossPosted
         /\ e # "disconnected" => (LossPosted => LossPosted')
  <1>1. events' \in Seq(EventNames) /\ Len(events) = Len(events') + 1 /\ Len(events') \in Nat
    BY DEF StationInv, Handles
  <1>2. events[1] = e /\ \A i \in 1 .. Len(events') : events'[i] = events[i + 1]
    BY DEF StationInv, Handles
  <1>3. LossPosted' => LossPosted
    <2>1. \A i \in 1 .. Len(events') : i + 1 \in 1 .. Len(events)
      BY <1>1
    <2>. QED BY <1>2, <2>1 DEF LossPosted
  <1>4. 1 \in 1 .. Len(events)
    BY <1>1
  <1>5. LossPosted /\ e # "disconnected" => LossPosted'
    <2>. SUFFICES ASSUME e # "disconnected", NEW i \in 1 .. Len(events),
                         events[i] = "disconnected"
                  PROVE  LossPosted'
      BY DEF LossPosted
    <2>1. i - 1 \in 1 .. Len(events') /\ events'[i - 1] = events[i]
      BY <1>1, <1>2
    <2>. QED BY <2>1 DEF LossPosted
  <1>. QED BY <1>2, <1>3, <1>4, <1>5 DEF LossPosted

LEMMA NoneHandled == ASSUME events = <<>> PROVE ~LossPosted
  BY DEF LossPosted

\* Ending the driver's link or attempt leaves its loss to be handled.
LEMMA CutIsPosted ==
  ASSUME Known, FlagsKept, DriverDisconnects, connected \/ connecting
  PROVE  LossPosted' \/ failed'
  <1>1. CASE Post("disconnected")
    BY <1>1, LossIsPosted DEF Known
  <1>2. CASE UNCHANGED <<link, events>> /\ failed' = (failed \/ link # "idle")
    <2>1. link = "idle" => LossPosted \/ failed
      BY DEF Known, FlagsKept, StationInv, ConnectedIsReal, LossPosted
    <2>. QED BY <1>2, <2>1 DEF LossPosted
  <1>. QED BY <1>1, <1>2 DEF DriverDisconnects

LEMMA DriverCares ==
  ASSUME ~LossInScan, Known, CareInv, Joined \/ Addressed \/ Lost
  PROVE  CareInv'
  <1>1. UNCHANGED <<ssid, careVars, flagVars, scanVars, connVars>>
    BY DEF Joined, Addressed, Lost
  <1>2. CASE Joined \/ Addressed
    <2>1. LossPosted' = LossPosted
      BY <1>2, PostedOther DEF Known, Joined, Addressed, EventNames
    <2>2. link' # "idle" /\ link # "idle"
      BY <1>2 DEF Joined, Addressed
    <2>. QED BY <1>1, <2>1, <2>2 DEF CareInv, FlagsKept, LossExplained, CaredFor, flagVars, careVars,
                                     scanVars, connVars, Switching, Scanning, Cuts
  <1>3. CASE Lost
    <2>1. LossPosted' /\ \A s \in Scans : scan[s] = "off" \/ resume[s]
      BY <1>3, LossIsPosted DEF Known, Lost
    <2>. QED BY <1>1, <2>1 DEF CareInv, FlagsKept, LossExplained, CaredFor, flagVars, careVars,
                               scanVars, connVars, Switching, Scanning, Cuts
  <1>. QED BY <1>2, <1>3

LEMMA EventCares ==
  ASSUME Known, CareInv, EventStep
  PROVE  CareInv'
  <1>. USE DEF Known
  <1>1. UNCHANGED <<ssid, scanVars, connVars, inScan>>
    BY DEF EventStep, HandleJoined, HandleAddressed, HandleLost, Handles
  <1>2. /\ UNCHANGED <<ssid, scan, resume, conn, refused, inScan>> /\ (Switching <=> Switching')
        /\ (\E s \in Scans : Cuts(s)) <=> (\E s \in Scans : Cuts(s))'
        /\ (\E s \in Scans : Scanning(s)) <=> (\E s \in Scans : Scanning(s))'
    BY <1>1 DEF scanVars, connVars, Switching, Cuts, Scanning
  <1>3. CASE HandleJoined
    <2>1. /\ Handles("connected") /\ UNCHANGED <<link, connecting, timer, failed>>
          /\ ~userSwitch'
      BY <1>3 DEF HandleJoined, careVars
    <2>2. LossPosted' <=> LossPosted
      BY <2>1, HandledLosses
    <2>. QED BY <1>2, <2>1, <2>2 DEF CareInv, FlagsKept, LossExplained, CaredFor, Scanning, Cuts
  <1>4. CASE HandleAddressed
    <2>1. /\ Handles("got_ip") /\ UNCHANGED <<link, userSwitch>> /\ ~connecting'
          /\ failed' = (failed /\ userSwitch)
      BY <1>4 DEF HandleAddressed
    <2>2. (LossPosted' <=> LossPosted) /\ (link = "up" \/ LossPosted')
      BY <2>1, HandledLosses, Handled
    <2>. QED BY <1>2, <2>1, <2>2 DEF CareInv, FlagsKept, LossExplained, CaredFor, Scanning, Cuts
  <1>5. CASE HandleLost
    <2>1. LossPosted /\ LossExplained'
      <3>1. LossPosted /\ (LossPosted' => LossPosted)
        BY <1>5, HandledLosses DEF HandleLost
      <3>. QED BY <1>2, <3>1 DEF CareInv, LossExplained, Cuts
    <2>2. CASE /\ inScan \/ userSwitch
               /\ ~userSwitch' /\ ~connecting' /\ UNCHANGED <<link, failed>>
      <3>1. failed \/ Switching \/ \E s \in Scans : resume[s]
        BY <2>1, <2>2 DEF CareInv, FlagsKept, LossExplained, Scanning, Cuts
      <3>. QED BY <1>2, <2>1, <2>2, <3>1 DEF CareInv, FlagsKept, CaredFor, Scanning
    <2>3. CASE /\ ~userSwitch /\ UNCHANGED userSwitch
               /\ link' # "idle" \/ failed'
      BY <1>2, <2>1, <2>3 DEF CareInv, FlagsKept, CaredFor, Scanning
    <2>4. CASE ~userSwitch /\ UNCHANGED userSwitch /\ (timer' \/ failed') /\ ~connecting'
      BY <1>2, <2>1, <2>4 DEF CareInv, FlagsKept, CaredFor, Scanning
    <2>5. CASE /\ inScan \/ userSwitch
               /\ userSwitch' = FALSE /\ connecting' = FALSE
               /\ UNCHANGED <<link, peer, retry, careVars>>
      BY <2>2, <2>5 DEF careVars
    <2>6. CASE /\ ~inScan /\ ~userSwitch /\ UNCHANGED userSwitch
               /\ \/ DriverConnects \/ DriverRefuses
                  \/ DriverFails /\ failed' = TRUE
      BY <2>3, <2>6 DEF DriverConnects, DriverRefuses
    <2>7. CASE ~inScan /\ ~userSwitch /\ UNCHANGED userSwitch /\ StartRetryTimer /\ connecting' = FALSE
      BY <2>4, <2>7 DEF StartRetryTimer
    <2>. QED BY <1>5, <2>5, <2>6, <2>7 DEF HandleLost
  <1>. QED BY <1>3, <1>4, <1>5 DEF EventStep

LEMMA RetryCares ==
  ASSUME Known, CareInv, RetryFires
  PROVE  CareInv'
  <1>1. /\ UNCHANGED <<events, userSwitch, inScan, ssid, timer, failed, scanVars, connVars>>
        /\ timer /\ (connecting' => link' # "idle")
    BY DEF RetryFires, DriverConnects, careVars
  <1>. QED BY <1>1 DEF CareInv, FlagsKept, LossExplained, CaredFor, LossPosted, scanVars, connVars,
                      Switching, Scanning, Cuts

\* The connect task's attempt starts the driver or is refused.
LEMMA AttemptsCare ==
  ASSUME CareInv, NEW n, Attempts(n), UNCHANGED <<userSwitch, inScan, scanVars>>,
         Switching => ~LossPosted
  PROVE  CareInv'
  <1>1. /\ UNCHANGED events /\ ~Switching' /\ (LossPosted' <=> LossPosted)
        /\ (refused' /\ ~connecting') \/ link' = "trying"
        /\ UNCHANGED failed
    BY DEF Attempts, Switching, LossPosted
  <1>. QED BY <1>1 DEF CareInv, FlagsKept, LossExplained, CaredFor, scanVars, Scanning, Cuts

\* What it ends is answered by the attempt that follows.
LEMMA InterruptCares ==
  ASSUME Known, CareInv, NEW where \in {"again", "switch"}, Interrupts(where),
         connected \/ connecting, UNCHANGED <<inScan, scanVars>>
  PROVE  CareInv'
  <1>1. LossPosted' \/ failed'
    BY CutIsPosted DEF Interrupts, CareInv
  <1>2. Switching'
    BY DEF Interrupts, Switching, Known, PageTypeOK, WifiTypeOK
  <1>. QED BY <1>1, <1>2 DEF CareInv, FlagsKept, LossExplained, CaredFor, scanVars, Scanning

LEMMA ConnectCares ==
  ASSUME Known, CareInv, ConnectStep
  PROVE  CareInv'
  <1>1. UNCHANGED <<inScan, scanVars>>
    BY DEF ConnectStep, ConnectCalled, ConnectAgain, ConnectSwitches
  <1>2. ASSUME NEW n \in Nets, ConnectCalled(n) PROVE CareInv'
    <2>1. ~Switching
      BY <1>2 DEF ConnectCalled, Switching
    <2>2. CASE /\ connected /\ conn' = [at |-> "off", net |-> None]
               /\ UNCHANGED <<driverVars, connected, connecting, userSwitch, ssid, retry, refused,
                              failed>>
      <3>1. /\ UNCHANGED <<link, events, connecting, userSwitch, ssid, refused, failed>>
            /\ ~Switching' /\ (LossPosted' <=> LossPosted)
        BY <2>2 DEF driverVars, LossPosted, Switching
      <3>2. link = "idle" => LossPosted
        BY <2>2 DEF Known, StationInv, ConnectedIsReal, LossPosted
      <3>. QED BY <1>1, <2>1, <3>1, <3>2 DEF CareInv, FlagsKept, LossExplained, CaredFor, scanVars,
                                             Scanning, Cuts
    <2>3. CASE (connected \/ connecting) /\ \E where \in {"again", "switch"} : Interrupts(where)
      BY <1>1, <2>3, InterruptCares
    <2>4. CASE Attempts(n) /\ UNCHANGED userSwitch
      BY <1>1, <2>1, <2>4, AttemptsCare
    <2>. QED BY <1>2, <2>2, <2>3, <2>4 DEF ConnectCalled
  <1>3. CASE ConnectAgain
    <2>1. CASE Attempts(conn.net) /\ UNCHANGED userSwitch
      BY <1>1, <1>3, <2>1, AttemptsCare, NoneHandled DEF ConnectAgain
    <2>. QED BY <1>1, <1>3, <2>1, InterruptCares DEF ConnectAgain
  <1>4. CASE ConnectSwitches
    BY <1>1, <1>4, AttemptsCare, NoneHandled DEF ConnectSwitches
  <1>. QED BY <1>2, <1>3, <1>4 DEF ConnectStep

LEMMA TaskCares ==
  ASSUME Known, CareInv, NEW s \in Scans, TaskStep(s)
  PROVE  CareInv'
  <1>1. UNCHANGED <<ssid, connVars>> /\ (Switching' <=> Switching)
    BY DEF TaskStep, ScanCalled, ScanRuns, TaskEnds, ScanEnds, connVars, Switching
  <1>2. DOMAIN scan = Scans /\ DOMAIN resume = Scans
    BY DEF Known, PageTypeOK, WifiTypeOK
  <1>3. CASE ScanCalled(s)
    <2>1. /\ scan[s] = "start" /\ scan'[s] = "tries" /\ resume'[s] = connecting
          /\ ~resume[s] /\ Scanning(s)' /\ ~connecting' /\ UNCHANGED timer
      BY <1>2, <1>3 DEF ScanCalled, CareInv, FlagsKept, Scanning
    <2>2. \A t \in Scans \ {s} : scan'[t] = scan[t] /\ resume'[t] = resume[t]
      BY <1>2, <1>3 DEF ScanCalled
    <2>3. \A t \in Scans : resume'[t] => scan'[t] \in {"tries", "ends"}
      BY <2>1, <2>2 DEF CareInv, FlagsKept, Scanning
    <2>4. CASE connecting /\ userSwitch' /\ DriverDisconnects
      <3>1. (LossPosted' \/ failed') /\ scan'[s] = "tries" /\ resume'[s]
        BY <2>1, <2>4, CutIsPosted DEF CareInv
      <3>. QED BY <2>1, <2>3, <3>1 DEF CareInv, FlagsKept, LossExplained, CaredFor, Scanning, Cuts
    <2>5. CASE ~connecting /\ UNCHANGED <<driverVars, userSwitch, failed>>
      <3>1. UNCHANGED <<link, userSwitch, failed>> /\ (LossPosted' <=> LossPosted)
        BY <2>5 DEF driverVars, LossPosted
      <3>2. (\E t \in Scans : Cuts(t)) => \E t \in Scans : scan'[t] = "tries" /\ resume'[t]
        BY <2>1, <2>2 DEF Cuts
      <3>3. (\E t \in Scans : resume[t]) => \E t \in Scans : resume'[t]
        BY <2>1, <2>2
      <3>4. LossPosted => Switching \/ \E t \in Scans : Cuts(t)
        BY <2>1 DEF CareInv, LossExplained
      <3>5. FlagsKept'
        BY <2>1, <2>3, <3>1, <3>2, <1>1 DEF CareInv, FlagsKept, Scanning, Cuts
      <3>6. LossExplained'
        BY <1>1, <3>1, <3>2, <3>4 DEF LossExplained, Cuts
      <3>7. CaredFor'
        BY <1>1, <2>1, <3>1, <3>3 DEF CareInv, CaredFor, connVars
      <3>. QED BY <3>5, <3>6, <3>7 DEF CareInv
    <2>. QED BY <1>3, <2>4, <2>5 DEF ScanCalled
  <1>4. CASE ScanRuns(s)
    <2>1. /\ events = <<>> /\ UNCHANGED <<driverVars, flagVars, careVars, resume>>
          /\ scan[s] = "tries" /\ scan'[s] \in {"tries", "ends"}
          /\ \A t \in Scans \ {s} : scan'[t] = scan[t]
      BY <1>2, <1>4 DEF ScanRuns
    <2>2. ~LossPosted /\ ~LossPosted' /\ UNCHANGED <<link, connecting, userSwitch, inScan, timer, failed>>
      BY <2>1, NoneHandled DEF driverVars, flagVars, careVars, LossPosted
    <2>3. \A t \in Scans : scan[t] \in {"tries", "ends"} => scan'[t] \in {"tries", "ends"}
      BY <2>1
    <2>. QED BY <1>1, <2>1, <2>2, <2>3 DEF CareInv, FlagsKept, LossExplained, CaredFor, connVars,
                                          Scanning
  <1>5. CASE TaskEnds(s)
    <2>1. /\ UNCHANGED <<driverVars, connected, connecting>>
          /\ ~inScan' /\ ~userSwitch' /\ scan[s] = "ends" /\ scan'[s] = "off" /\ ~resume'[s]
          /\ timer => timer'
          /\ failed => failed'
          /\ resume[s] /\ ~connected => timer' \/ failed'
          /\ \A t \in Scans \ {s} : scan'[t] = scan[t] /\ resume'[t] = resume[t]
      BY <1>2, <1>5 DEF TaskEnds, ScanEnds, StartRetryTimer, careVars
    <2>2. UNCHANGED <<link, connecting>> /\ (LossPosted' <=> LossPosted)
      BY <2>1 DEF driverVars, LossPosted
    <2>3. FlagsKept'
      BY <2>1, <2>2 DEF CareInv, FlagsKept, Scanning
    <2>4. LossExplained'
      BY <1>1, <2>1, <2>2 DEF CareInv, LossExplained, Cuts
    <2>5. CaredFor'
      <3>1. connected /\ link = "idle" => LossPosted
        BY DEF Known, StationInv, ConnectedIsReal, LossPosted
      <3>. QED BY <1>1, <2>1, <2>2, <3>1 DEF CareInv, CaredFor, connVars
    <2>. QED BY <2>3, <2>4, <2>5 DEF CareInv
  <1>. QED BY <1>3, <1>4, <1>5 DEF TaskStep

LEMMA PageCares ==
  ASSUME ~LossInScan, Known, CareInv,
         OpenPage \/ Rescan \/ (\E n \in Nets : Connect(n) \/ ConnectNoTask(n))
  PROVE  CareInv'
  <1>1. CASE OpenPage \/ Rescan
    <2>1. UNCHANGED <<link, events, flagVars, ssid, timer, failed, resume, connVars>> /\ ~LossPosted
      BY <1>1 DEF OpenPage, Rescan, StartScan, Unscanned, LossPosted, driverVars, careVars
    <2>2. ~LossPosted' /\ (Switching' <=> Switching)
      BY <2>1 DEF LossPosted, Switching, connVars
    <2>3. \A t \in Scans : scan[t] # "off" => scan'[t] = scan[t]
      BY <1>1 DEF OpenPage, Rescan, StartScan, Known, PageTypeOK, WifiTypeOK
    <2>. QED BY <2>1, <2>2, <2>3 DEF CareInv, FlagsKept, LossExplained, CaredFor, flagVars, connVars,
                                     Scanning
  <1>2. CASE \E n \in Nets : Connect(n) \/ ConnectNoTask(n)
    <2>1. /\ ~Switching /\ ~Switching'
          /\ UNCHANGED <<driverVars, flagVars, ssid, careVars, scanVars, refused>>
      BY <1>2 DEF Connect, ConnectNoTask, Switching, wifiVars, connVars
    <2>. QED BY <2>1 DEF CareInv, FlagsKept, LossExplained, CaredFor, LossPosted, driverVars,
                         flagVars, careVars, scanVars, Scanning, Cuts
  <1>. QED BY <1>1, <1>2

LEMMA CareNext ==
  ASSUME ~LossInScan, Known, CareInv, [PageNext]_vars
  PROVE  CareInv'
  <1>1. CASE RegisterCallback \/ CheckConnected \/ LeavePage \/ PollScan \/ UNCHANGED vars
    <2>1. UNCHANGED <<driverVars, flagVars, ssid, careVars, scanVars, connVars>>
      BY <1>1 DEF RegisterCallback, CheckConnected, LeavePage, PollScan, vars, wifiVars
    <2>2. /\ UNCHANGED <<link, connecting, userSwitch, inScan, ssid, timer, failed, scan, resume,
                         conn, refused>>
          /\ (LossPosted' <=> LossPosted)
      BY <2>1 DEF driverVars, flagVars, careVars, scanVars, connVars, LossPosted
    <2>3. FlagsKept'
      BY <2>2 DEF CareInv, FlagsKept, Switching, Scanning, Cuts
    <2>4. LossExplained' /\ CaredFor'
      BY <2>2 DEF CareInv, LossExplained, CaredFor, Switching, Cuts
    <2>. QED BY <2>3, <2>4 DEF CareInv
  <1>2. CASE Restart
    <2>1. events' = <<>> /\ \A t \in Scans : scan'[t] = "off" /\ ~resume'[t]
      BY <1>2 DEF Restart
    <2>2. ~LossPosted'
      BY <2>1 DEF LossPosted
    <2>3. /\ connecting' => link' # "idle"
          /\ ssid' # None /\ link' = "idle" => failed'
          /\ ~userSwitch' /\ ~inScan'
      BY <1>2 DEF Restart
    <2>. QED BY <2>1, <2>2, <2>3 DEF CareInv, FlagsKept, LossExplained, CaredFor
  <1>. QED BY <1>1, <1>2, DriverCares, EventCares, RetryCares, ConnectCares, TaskCares, PageCares
           DEF PageNext, SystemStep

(***************************************************************************)
(* A network is tried again until it is there: whatever cut, switch or     *)
(* loss took the link, once nothing is under way the retry timer runs.     *)
(* Left out are an error that the page reports, one that the code ignores  *)
(* and no address has made up for, and a link that is lost during a scan   *)
(* that does not cut it: there the timer may never start.                  *)
(***************************************************************************)
THEOREM NobodyIsStranded ==
  ASSUME ~LossInScan
  PROVE  PageSpec => []NotStranded
  <1>1. PageInit => CareInv
    BY CareInit
  <1>2. StationInv /\ PageTypeOK /\ CareInv /\ [PageNext]_vars => CareInv'
    BY CareNext DEF Known
  <1>3. CareInv => NotStranded
    BY NoneHandled DEF CareInv, FlagsKept, CaredFor, NotStranded, Quiet, Switching, Scanning
  <1>. QED BY <1>1, <1>2, <1>3, StationInvariant, PageTyped, PTL DEF PageSpec
=============================================================================
