-------------------------- MODULE WifiManager_proofs --------------------------
(***************************************************************************)
(* Theorems about WifiManager, for any number of task stacks, queue        *)
(* lengths, retries and key presses.                                       *)
(***************************************************************************)
EXTENDS WifiManager, TLAPS

USE DEF linkVars, handlerVars, sessionVars, touchVars

-----------------------------------------------------------------------------
(* Type correctness, one part of the state at a time.                      *)

LEMMA LinkType ==
    ASSUME LinkTypeOK, [Next]_vars
    PROVE  LinkTypeOK'
  <1>1. ASSUME NEW e \in StaEvents, Post(e) PROVE sysq' \in Seq(StaEvents)
    BY <1>1 DEF Post, LinkTypeOK
  <1>2. "DISCONNECTED" \in StaEvents /\ "CONNECTED" \in StaEvents /\ "GOT_IP" \in StaEvents
    BY DEF StaEvents
  <1>3. ASSUME PostIfLinked PROVE sysq' \in Seq(StaEvents)
    BY <1>1, <1>2, <1>3 DEF PostIfLinked, LinkTypeOK
  <1>4. ASSUME NEW e, Handling(e) PROVE sysq' \in Seq(StaEvents)
    BY <1>4 DEF Handling, LinkTypeOK
  <1>5. CASE Environment
    BY <1>1, <1>2, <1>3, <1>5 DEF LinkTypeOK, Environment, Associate, ObtainIp, LoseLink,
       SmartconfigLink, SmartconfigLinkOver, Connect, DriverOnly
  <1>6. CASE HandleSystemEvent
    BY <1>4, <1>6 DEF LinkTypeOK, HandleSystemEvent, HandleStart, HandleConnected,
       HandleDisconnected, HandleGotIp, Autoconnect, Connect
  <1>7. CASE ProcessWifiEvent \/ RequestSmartConfig \/ FinishRequest \/ UNCHANGED vars
    BY <1>7 DEF LinkTypeOK, ProcessWifiEvent, RequestSmartConfig, FinishRequest,
       KillConfigTask, ForgetHandle, CreateConfigTask, TouchStep, vars
  <1>8. ASSUME NEW t \in Tasks, ConfigTask(t) PROVE LinkTypeOK'
    <2> USE DEF LinkTypeOK, Step
    <2>1. CASE BeginConfig(t)
      BY <1>3, <2>1 DEF BeginConfig
    <2>2. CASE CheckSession(t) \/ TakeMux(t) \/ TakeMuxTimeout(t) \/ EnterSession(t)
      BY <2>2 DEF CheckSession, TakeMux, TakeMuxTimeout, EnterSession
    <2>3. CASE StartLibrary(t) \/ AwaitDone(t) \/ AwaitTimeout(t) \/ ClearPairing(t)
      BY <2>3 DEF StartLibrary, AwaitDone, AwaitTimeout, ClearPairing
    <2>4. CASE StopLibrary(t) \/ LeaveSession(t) \/ GiveMux(t)
      BY <2>4 DEF StopLibrary, LeaveSession, GiveMux
    <2>5. CASE ReportResult(t) \/ ClearHandle(t) \/ EndConfig(t)
      BY <2>5 DEF ReportResult, ClearHandle, EndConfig
    <2>6. QED
      BY <1>8, <2>1, <2>2, <2>3, <2>4, <2>5 DEF ConfigTask
  <1>9. QED
    BY <1>5, <1>6, <1>7, <1>8 DEF Next

LEMMA EventType ==
    ASSUME EventTypeOK, [Next]_vars
    PROVE  EventTypeOK'
  <1> DEFINE Queues(q, d) == q \in Seq(WifiStates) /\ Len(q) <= EvtQueueLen /\ d \in BOOLEAN
  <1>1. ASSUME NEW s \in WifiStates, Send(s) PROVE Queues(wifiq', dropped')
    <2>1. CASE Len(wifiq) < EvtQueueLen
      BY <1>1, <2>1, WifiAssumption DEF Send, EventTypeOK
    <2>2. CASE ~(Len(wifiq) < EvtQueueLen)
      BY <1>1, <2>2 DEF Send, EventTypeOK
    <2>3. QED
      BY <2>1, <2>2
  <1>2. ASSUME SendNothing PROVE Queues(wifiq', dropped')
    BY <1>2 DEF SendNothing, EventTypeOK
  <1>3. {"Connecting", "Connected", "GotIp", "Disconnected", "SC_Disconnected",
         "Config_Timeout"} \subseteq WifiStates
    BY DEF WifiStates, LinkStates
  <1>4. CASE HandleSystemEvent
    <2>1. CASE HandleStart \/ HandleConnected
      <3>1. Queues(wifiq', dropped')
        BY <1>1, <1>3, <2>1 DEF HandleStart, HandleConnected
      <3>2. QED
        BY <2>1, <3>1 DEF HandleStart, HandleConnected, Handling, EventTypeOK
    <2>2. CASE HandleDisconnected
      <3>1. Queues(wifiq', dropped')
        BY <1>1, <1>2, <1>3, <2>2 DEF HandleDisconnected, NotifyLoss
      <3>2. retry' \in -1..RetryTimes
        BY <2>2, WifiAssumption DEF HandleDisconnected, Autoconnect, EventTypeOK
      <3>3. failed' \in BOOLEAN
        BY <2>2 DEF HandleDisconnected, Autoconnect, Connect, EventTypeOK
      <3>4. QED
        BY <2>2, <3>1, <3>2, <3>3 DEF HandleDisconnected, Handling, EventTypeOK
    <2>3. CASE HandleGotIp
      <3>1. Queues(wifiq', dropped')
        BY <1>1, <1>2, <1>3, <2>3 DEF HandleGotIp
      <3>2. QED
        BY <2>3, <3>1, WifiAssumption DEF HandleGotIp, Handling, EventTypeOK
    <2>4. QED
      BY <1>4, <2>1, <2>2, <2>3 DEF HandleSystemEvent
  <1>5. CASE ProcessWifiEvent
    <2>1. Tail(wifiq) \in Seq(WifiStates) /\ Len(Tail(wifiq)) <= EvtQueueLen
      BY <1>5, WifiAssumption DEF ProcessWifiEvent, EventTypeOK
    <2>2. QED
      BY <1>5, <2>1 DEF ProcessWifiEvent, EventTypeOK
  <1>6. CASE Environment \/ RequestSmartConfig \/ FinishRequest \/ UNCHANGED vars
    BY <1>6 DEF EventTypeOK, Environment, Associate, ObtainIp, LoseLink, SmartconfigLink,
       SmartconfigLinkOver, Connect, Callback, DriverOnly, RequestSmartConfig, FinishRequest,
       KillConfigTask, ForgetHandle, CreateConfigTask, TouchStep, vars
  <1>7. ASSUME NEW t \in Tasks, ConfigTask(t) PROVE EventTypeOK'
    <2>1. CASE ReportResult(t)
      <3>1. Queues(wifiq', dropped')
        BY <1>1, <1>2, <1>3, <2>1 DEF ReportResult
      <3>2. QED
        BY <2>1, <3>1 DEF ReportResult, Step, EventTypeOK
    <2>2. CASE ~ReportResult(t)
      BY <1>7, <2>2 DEF EventTypeOK, Step, ConfigTask, BeginConfig, CheckSession, TakeMux,
         TakeMuxTimeout, StartLibrary, EnterSession, AwaitDone, AwaitTimeout, StopLibrary,
         LeaveSession, GiveMux, ClearPairing, ClearHandle, EndConfig
    <2>3. QED
      BY <2>1, <2>2
  <1>8. QED
    BY <1>4, <1>5, <1>6, <1>7 DEF Next

LEMMA TaskType ==
    ASSUME TaskTypeOK, TouchTypeOK, [Next]_vars
    PROVE  TaskTypeOK' /\ TouchTypeOK'
  <1>1. CASE Environment
    BY <1>1 DEF TaskTypeOK, TouchTypeOK, Environment, Associate, ObtainIp, LoseLink,
       SmartconfigLink, SmartconfigLinkOver, Callback, DriverOnly
  <1>2. CASE HandleSystemEvent \/ ProcessWifiEvent \/ UNCHANGED vars
    BY <1>2 DEF TaskTypeOK, TouchTypeOK, HandleSystemEvent, HandleStart, HandleConnected,
       HandleDisconnected, HandleGotIp, Handling, ProcessWifiEvent, vars
  <1>3. CASE RequestSmartConfig
    BY <1>3, WifiAssumption DEF TaskTypeOK, TouchTypeOK, RequestSmartConfig, TouchStep
  <1>4. CASE FinishRequest
    <2> USE DEF TaskTypeOK, TouchTypeOK, TouchStep
    <2>1. CASE KillConfigTask
      <3>1. PICK victim \in {cached, handle} : KillConfigTask!(victim)
        BY <2>1 DEF KillConfigTask
      <3>2. victim \in Tasks \cup {NoTask} /\ "dead" \in PcValues
        BY DEF PcValues, Gone
      <3>3. CASE victim = NoTask
        BY <3>1, <3>3
      <3>4. CASE victim # NoTask
        <4>1. pc' = [pc EXCEPT ![victim] = "dead"]
          BY <3>1, <3>4
        <4>2. pc' \in [Tasks -> PcValues]
          BY <3>2, <4>1
        <4>3. QED
          BY <3>1, <3>4, <4>2
      <3>5. QED
        BY <3>3, <3>4
    <2>2. CASE ForgetHandle
      BY <2>2 DEF ForgetHandle
    <2>3. CASE CreateConfigTask
      <3>1. "start" \in PcValues
        BY DEF PcValues
      <3>2. QED
        BY <2>3, <3>1 DEF CreateConfigTask
    <2>4. QED
      BY <1>4, <2>1, <2>2, <2>3 DEF FinishRequest
  <1>5. ASSUME NEW t \in Tasks, ConfigTask(t) PROVE TaskTypeOK' /\ TouchTypeOK'
    <2>1. ASSUME NEW f, NEW u \in PcValues, Step(t, f, u)
          PROVE  pc' \in [Tasks -> PcValues] /\ TouchTypeOK'
      BY <2>1 DEF Step, TaskTypeOK, TouchTypeOK
    <2>2. {"delay", "report", "lock", "locked", "starting", "waiting", "stopping", "unflag",
           "give", "clear", "last", "ending", "dead"} \subseteq PcValues
      BY DEF PcValues, Section, Gone
    <2>3. pc' \in [Tasks -> PcValues] /\ TouchTypeOK'
      BY <1>5, <2>1, <2>2 DEF ConfigTask, BeginConfig, CheckSession, TakeMux, TakeMuxTimeout,
         StartLibrary, EnterSession, AwaitDone, AwaitTimeout, StopLibrary, LeaveSession,
         GiveMux, ClearPairing, ReportResult, ClearHandle, EndConfig
    <2>4. /\ handle' \in Tasks \cup {NoTask}
          /\ mux' \in Tasks \cup {NoTask, Deleted}
          /\ inSmartconfig' \in BOOLEAN
          /\ sc' \in {"off", "searching", "linked", "over"}
          /\ result' \in {"none", "ESP_OK", "ESP_FAIL", "ESP_ERR_TIMEOUT",
                          "ESP_ERR_INVALID_STATE"}
      BY <1>5 DEF TaskTypeOK, ConfigTask, BeginConfig, CheckSession, TakeMux, TakeMuxTimeout,
         StartLibrary, EnterSession, AwaitDone, AwaitTimeout, StopLibrary, LeaveSession,
         GiveMux, ClearPairing, ReportResult, ClearHandle, EndConfig
    <2>5. QED
      BY <2>3, <2>4 DEF TaskTypeOK
  <1>6. QED
    BY <1>1, <1>2, <1>3, <1>4, <1>5 DEF Next

\* Every variable keeps its type, and xQueueWifi never outgrows its length.
THEOREM TypeCorrect == Spec => []TypeOK
  <1>1. ASSUME Init PROVE TypeOK
    <2>1. linked \in BOOLEAN /\ dropped \in BOOLEAN /\ inSmartconfig \in BOOLEAN
      BY <1>1, Zenon DEF Init
    <2>2. /\ sysq \in Seq(StaEvents)
          /\ wifiq \in Seq(WifiStates) /\ Len(wifiq) <= EvtQueueLen
          /\ retry \in -1..RetryTimes /\ requests \in 0..MaxRequests
          /\ pc \in [Tasks -> PcValues]
      BY <1>1, WifiAssumption DEF Init, StaEvents, PcValues, Gone
    <2>3. LinkTypeOK
      BY <1>1, <2>1, <2>2, Zenon DEF Init, LinkTypeOK
    <2>4. EventTypeOK
      BY <1>1, <2>1, <2>2, Zenon DEF Init, EventTypeOK
    <2>5. TaskTypeOK /\ TouchTypeOK
      BY <1>1, <2>1, <2>2, Zenon DEF Init, TaskTypeOK, TouchTypeOK
    <2>6. QED
      BY <2>3, <2>4, <2>5 DEF TypeOK
  <1>2. TypeOK /\ [Next]_vars => TypeOK'
    BY LinkType, EventType, TaskType DEF TypeOK
  <1>3. QED
    BY <1>1, <1>2, PTL DEF Spec

-----------------------------------------------------------------------------
(* One config task, one library session.                                   *)

LEMMA SessionStep ==
    ASSUME TypeOK, SessionUnderMux, [Next]_vars
    PROVE  SessionUnderMux'
  <1> USE WifiAssumption DEF TypeOK, TaskTypeOK, TouchTypeOK, SessionUnderMux, Section, Running
  <1>1. CASE Environment \/ HandleSystemEvent \/ ProcessWifiEvent \/ RequestSmartConfig
             \/ UNCHANGED vars
    BY <1>1 DEF Environment, Associate, ObtainIp, LoseLink, SmartconfigLink,
       SmartconfigLinkOver, Callback, DriverOnly, HandleSystemEvent, HandleStart,
       HandleConnected, HandleDisconnected, HandleGotIp, Handling, ProcessWifiEvent,
       RequestSmartConfig, TouchStep, vars
  <1>2. CASE KillConfigTask
    BY <1>2 DEF KillConfigTask, TouchStep
  <1>3. CASE ForgetHandle \/ CreateConfigTask
    BY <1>3 DEF ForgetHandle, CreateConfigTask, TouchStep
  <1>4. ASSUME NEW t \in Tasks, ConfigTask(t) PROVE SessionUnderMux'
    <2> USE DEF Step
    <2>1. CASE TakeMux(t)
      BY <2>1 DEF TakeMux
    <2>2. CASE StartLibrary(t) \/ StopLibrary(t)
      BY <2>2 DEF StartLibrary, StopLibrary
    <2>3. CASE EnterSession(t) \/ AwaitDone(t) \/ AwaitTimeout(t) \/ LeaveSession(t)
      BY <2>3 DEF EnterSession, AwaitDone, AwaitTimeout, LeaveSession
    <2>4. CASE GiveMux(t)
      BY <2>4 DEF GiveMux
    <2>5. CASE BeginConfig(t) \/ CheckSession(t) \/ TakeMuxTimeout(t) \/ ClearPairing(t)
      BY <2>5 DEF BeginConfig, CheckSession, TakeMuxTimeout, ClearPairing
    <2>6. CASE ReportResult(t) \/ ClearHandle(t) \/ EndConfig(t)
      BY <2>6 DEF ReportResult, ClearHandle, EndConfig
    <2>7. QED
      BY <1>4, <2>1, <2>2, <2>3, <2>4, <2>5, <2>6 DEF ConfigTask
  <1>5. QED
    BY <1>1, <1>2, <1>3, <1>4 DEF Next, FinishRequest

LEMMA RequestStep ==
    ASSUME TypeOK, OneConfigTask, RequestInProgress, [Next]_vars
    PROVE  OneConfigTask' /\ RequestInProgress'
  <1> USE WifiAssumption DEF TypeOK, TaskTypeOK, TouchTypeOK, OneConfigTask, RequestInProgress,
      Gone
  <1>1. CASE Environment \/ HandleSystemEvent \/ ProcessWifiEvent \/ UNCHANGED vars
    BY <1>1 DEF Environment, Associate, ObtainIp, LoseLink, SmartconfigLink,
       SmartconfigLinkOver, Callback, DriverOnly, HandleSystemEvent, HandleStart,
       HandleConnected, HandleDisconnected, HandleGotIp, Handling, ProcessWifiEvent, vars
  <1>2. CASE RequestSmartConfig
    BY <1>2 DEF RequestSmartConfig, TouchStep
  <1>3. CASE KillConfigTask
    BY <1>3 DEF KillConfigTask, TouchStep
  <1>4. CASE ForgetHandle
    BY <1>4 DEF ForgetHandle, TouchStep
  <1>5. CASE CreateConfigTask
    BY <1>5 DEF CreateConfigTask, TouchStep
  <1>6. ASSUME NEW t \in Tasks, ConfigTask(t) PROVE OneConfigTask' /\ RequestInProgress'
    <2> USE DEF Step
    <2>1. CASE ClearHandle(t)
      BY <2>1 DEF ClearHandle
    <2>2. CASE EndConfig(t)
      BY <2>2 DEF EndConfig
    <2>3. CASE ~ClearHandle(t) /\ ~EndConfig(t)
      <3>1. /\ pc[t] \notin Gone
            /\ \A u \in Tasks : u # t => pc'[u] = pc[u]
            /\ UNCHANGED <<handle, touch, cached>>
        BY <1>6, <2>3 DEF ConfigTask, BeginConfig, CheckSession, TakeMux, TakeMuxTimeout,
           StartLibrary, EnterSession, AwaitDone, AwaitTimeout, StopLibrary, LeaveSession,
           GiveMux, ClearPairing, ReportResult
      <3>2. QED
        BY <3>1
    <2>4. QED
      BY <2>1, <2>2, <2>3
  <1>7. QED
    BY <1>1, <1>2, <1>3, <1>4, <1>5, <1>6 DEF Next, FinishRequest

\* The handles, the mutex and the library's state agree in every state.
THEOREM SessionInvariant == Spec => []IInv
  <1>1. Init => IInv
    BY WifiAssumption DEF Init, IInv, OneConfigTask, RequestInProgress, SessionUnderMux,
       Section, Gone
  <1>2. TypeOK /\ IInv /\ [Next]_vars => IInv'
    BY SessionStep, RequestStep DEF IInv
  <1>3. QED
    BY <1>1, <1>2, TypeCorrect, PTL DEF Spec

\* However many stacks there are and however often the key is pressed, at most
\* one WifiConfigTask is alive and SmartConfigHandle points to it.
THEOREM OneConfigTaskHolds == Spec => []OneConfigTask
  <1>1. IInv => OneConfigTask
    BY DEF IInv
  <1>2. QED
    BY <1>1, SessionInvariant, PTL

\* WifiSmartConnect never starts a library that is running.
THEOREM NoDoubleStartHolds == Spec => []NoDoubleStart
  <1>1. IInv => NoDoubleStart
    BY WifiAssumption DEF IInv, SessionUnderMux, NoDoubleStart, Section, Running
  <1>2. QED
    BY <1>1, SessionInvariant, PTL

\* The two together, which the runs check.
THEOREM OneSessionHolds == Spec => []OneSession
  <1>1. QED
    BY OneConfigTaskHolds, NoDoubleStartHolds, PTL DEF OneSession

-----------------------------------------------------------------------------
(* What the services are told.                                             *)

\* Only the handlers and ReportResult send, only ProcessWifiEvent receives.
LEMMA Others ==
    ASSUME [Next]_vars, ~HandleSystemEvent, ~ProcessWifiEvent,
           \A t \in Tasks : ~ReportResult(t)
    PROVE  UNCHANGED <<wifiq, dropped, told, lastState, retry>>
  BY DEF Next, Environment, Associate, ObtainIp, LoseLink, SmartconfigLink,
     SmartconfigLinkOver, Callback, DriverOnly, RequestSmartConfig, FinishRequest,
     KillConfigTask, ForgetHandle, CreateConfigTask, TouchStep, vars, Step, ConfigTask,
     BeginConfig, CheckSession, TakeMux, TakeMuxTimeout, StartLibrary, EnterSession,
     AwaitDone, AwaitTimeout, StopLibrary, LeaveSession, GiveMux, ClearPairing,
     ClearHandle, EndConfig

\* A link state that is sent and not lost will be the last one told.
LEMMA SendLink ==
    ASSUME EventTypeOK, NEW s \in LinkStates, Send(s), ~dropped', told' = told
    PROVE  WillBeTold(s)'
  <1>1. wifiq' = Append(wifiq, s) /\ Len(wifiq) \in Nat
    <2>1. Len(wifiq) \in Nat
      BY DEF EventTypeOK
    <2>2. ~(Len(wifiq) >= EvtQueueLen)
      BY Zenon DEF Send
    <2>3. Len(wifiq) < EvtQueueLen
      BY <2>1, <2>2, WifiAssumption
    <2>4. QED
      BY <2>1, <2>3 DEF Send
  <1>2. /\ Len(wifiq) + 1 \in DOMAIN wifiq' /\ wifiq'[Len(wifiq) + 1] = s
        /\ \A j \in DOMAIN wifiq' : j <= Len(wifiq) + 1
    BY <1>1 DEF EventTypeOK
  <1>3. QED
    BY <1>2 DEF WillBeTold

\* Any other state that is sent changes nothing in that.
LEMMA SendOther ==
    ASSUME EventTypeOK, NEW s \in WifiStates \ LinkStates, Send(s), told' = told,
           NEW u, WillBeTold(u)
    PROVE  WillBeTold(u)'
  BY DEF EventTypeOK, Send, WillBeTold

\* Nor does a notification.
LEMMA Notify ==
    ASSUME EventTypeOK, ProcessWifiEvent, NEW u, WillBeTold(u)
    PROVE  WillBeTold(u)'
  <1>1. /\ wifiq # <<>> /\ wifiq' = Tail(wifiq)
        /\ told' = IF wifiq[1] \in LinkStates THEN wifiq[1] ELSE told
    BY DEF ProcessWifiEvent, EventTypeOK
  <1>2. /\ DOMAIN wifiq = 1..Len(wifiq) /\ DOMAIN wifiq' = 1..Len(wifiq)-1
        /\ \A i \in 1..Len(wifiq)-1 : wifiq'[i] = wifiq[i+1]
    BY <1>1 DEF EventTypeOK
  <1>3. Len(wifiq) \in Nat \ {0}
    BY <1>1 DEF EventTypeOK
  <1>4. ASSUME NEW i \in DOMAIN wifiq, wifiq[i] \in LinkStates, i # 1
        PROVE  i - 1 \in DOMAIN wifiq' /\ wifiq'[i - 1] = wifiq[i]
    BY <1>2, <1>3, <1>4
  <1>5. ASSUME NEW i \in DOMAIN wifiq'
        PROVE  i + 1 \in DOMAIN wifiq /\ wifiq'[i] = wifiq[i + 1]
    BY <1>2, <1>3, <1>5
  <1>6. CASE \A i \in DOMAIN wifiq : wifiq[i] \notin LinkStates
    <2>1. told' = told /\ told = u
      BY <1>1, <1>2, <1>3, <1>6 DEF WillBeTold
    <2>2. QED
      BY <1>5, <1>6, <2>1 DEF WillBeTold
  <1>7. CASE \E i \in DOMAIN wifiq : wifiq[i] \in LinkStates
    <2>1. PICK i \in DOMAIN wifiq :
             /\ wifiq[i] = u /\ u \in LinkStates
             /\ \A j \in DOMAIN wifiq : wifiq[j] \in LinkStates => j <= i
      BY <1>7 DEF WillBeTold
    <2>2. CASE i = 1
      <3>1. ASSUME NEW j \in DOMAIN wifiq', wifiq'[j] \in LinkStates PROVE FALSE
        <4>1. j + 1 <= 1
          BY <1>5, <2>1, <2>2, <3>1
        <4>2. QED
          BY <1>2, <1>3, <4>1
      <3>2. told' = u
        BY <1>1, <2>1, <2>2
      <3>3. QED
        BY <3>1, <3>2 DEF WillBeTold
    <2>3. CASE i # 1
      <3>1. i - 1 \in DOMAIN wifiq' /\ wifiq'[i - 1] = u
        BY <1>4, <2>1, <2>3
      <3>2. ASSUME NEW j \in DOMAIN wifiq', wifiq'[j] \in LinkStates PROVE j <= i - 1
        <4>1. j + 1 <= i
          BY <1>5, <2>1, <3>2
        <4>2. QED
          BY <1>2, <1>3, <4>1
      <3>3. QED
        BY <2>1, <3>1, <3>2 DEF WillBeTold
    <2>4. QED
      BY <2>2, <2>3
  <1>8. QED
    BY <1>6, <1>7

LEMMA FollowStep ==
    ASSUME EventTypeOK, ServicesFollowLink, [Next]_vars
    PROVE  ServicesFollowLink'
  <1>1. CASE HandleStart \/ HandleConnected \/ \E t \in Tasks : ReportResult(t)
    <2>1. /\ UNCHANGED <<told, lastState>>
          /\ SendNothing \/ \E s \in WifiStates \ LinkStates : Send(s)
      BY <1>1 DEF HandleStart, HandleConnected, Handling, ReportResult, Step, WifiStates, LinkStates
    <2>2. CASE SendNothing
      BY <2>1, <2>2 DEF SendNothing, ServicesFollowLink, WillBeTold
    <2>3. ASSUME NEW s \in WifiStates \ LinkStates, Send(s) PROVE ServicesFollowLink'
      <3>1. dropped => dropped'
        BY <2>3 DEF Send
      <3>2. QED
        BY <2>1, <2>3, <3>1, SendOther DEF ServicesFollowLink
    <2>4. QED
      BY <2>1, <2>2, <2>3
  <1>2. CASE HandleGotIp \/ HandleDisconnected
    <2>1. told' = told
      BY <1>2 DEF HandleGotIp, HandleDisconnected, Handling
    <2>2. ASSUME NEW s, NotifyLoss(s) \/ Send(s) PROVE dropped => dropped'
      BY <2>2 DEF NotifyLoss, Send, SendNothing
    <2>3. CASE HandleGotIp
      <3>1. CASE lastState = "GOT_IP"
        BY <2>1, <2>3, <3>1 DEF HandleGotIp, SendNothing, ServicesFollowLink, WillBeTold
      <3>2. CASE lastState # "GOT_IP"
        BY <2>1, <2>3, <3>2, SendLink DEF HandleGotIp, LinkStates, ServicesFollowLink
      <3>3. QED
        BY <3>1, <3>2
    <2>4. CASE HandleDisconnected
      <3>1. CASE lastState = "DISCONNECTED"
        BY <2>1, <2>4, <3>1 DEF HandleDisconnected, NotifyLoss, SendNothing, ServicesFollowLink, WillBeTold
      <3>2. CASE lastState # "DISCONNECTED"
        BY <2>1, <2>4, <3>2, SendLink DEF HandleDisconnected, NotifyLoss, LinkStates, ServicesFollowLink
      <3>3. QED
        BY <3>1, <3>2
    <2>5. QED
      BY <1>2, <2>3, <2>4
  <1>3. CASE ProcessWifiEvent
    <2>1. UNCHANGED <<dropped, lastState>>
      BY <1>3 DEF ProcessWifiEvent
    <2>2. QED
      BY <1>3, <2>1, Notify DEF ServicesFollowLink
  <1>4. CASE UNCHANGED <<wifiq, dropped, told, lastState, retry>>
    BY <1>4 DEF ServicesFollowLink, WillBeTold
  <1>5. QED
    BY <1>1, <1>2, <1>3, <1>4, Others DEF HandleSystemEvent

\* For every length of the queue: once it is drained the services know the
\* state of the last link event, unless a notification was lost.
THEOREM ServicesFollowLinkHolds == Spec => []ServicesFollowLink
  <1>1. Init => ServicesFollowLink
    BY DEF Init, ServicesFollowLink, WillBeTold
  <1>2. TypeOK /\ ServicesFollowLink /\ [Next]_vars => ServicesFollowLink'
    BY FollowStep DEF TypeOK
  <1>3. QED
    BY <1>1, <1>2, TypeCorrect, PTL DEF Spec

-----------------------------------------------------------------------------
(* The retries.                                                            *)

\* Before a phone interferes there is one attempt at a time: a loss is
\* reported once, nothing is attempted until it is handled, and with the
\* retries used up no loss is still to be handled.
BudgetInv ==
    ~linked =>
        /\ \A i, j \in DOMAIN sysq : sysq[i] = "DISCONNECTED" /\ sysq[j] = "DISCONNECTED" => i = j
        /\ (\E i \in DOMAIN sysq : sysq[i] = "DISCONNECTED") => sta = "idle" /\ retry # 0
        /\ retry >= 0
        /\ retry = 0 => sta = "idle"

LEMMA BudgetStep ==
    ASSUME TypeOK, BudgetInv, [Next]_vars
    PROVE  BudgetInv'
  <1> USE DEF BudgetInv, TypeOK, LinkTypeOK, EventTypeOK
  <1>1. ASSUME NEW e, Post(e)
        PROVE  /\ DOMAIN sysq' = 1..Len(sysq)+1 /\ DOMAIN sysq = 1..Len(sysq) /\ Len(sysq) \in Nat
               /\ sysq'[Len(sysq)+1] = e /\ \A i \in 1..Len(sysq) : sysq'[i] = sysq[i]
    BY <1>1 DEF Post
  <1>2. ASSUME NEW e, Handling(e)
        PROVE  /\ DOMAIN sysq' = 1..Len(sysq)-1 /\ DOMAIN sysq = 1..Len(sysq) /\ Len(sysq) \in Nat \ {0}
               /\ sysq[1] = e /\ \A i \in 1..Len(sysq)-1 : sysq'[i] = sysq[i+1]
    BY <1>2 DEF Handling
  <1>3. ASSUME NEW e, Handling(e), ~linked
         PROVE  /\ \A i, j \in DOMAIN sysq' : sysq'[i] = "DISCONNECTED" /\ sysq'[j] = "DISCONNECTED" => i = j
                /\ (\E i \in DOMAIN sysq' : sysq'[i] = "DISCONNECTED") => sta = "idle" /\ retry # 0
                /\ e = "DISCONNECTED" =>
                      /\ \A i \in DOMAIN sysq' : sysq'[i] # "DISCONNECTED"
                      /\ sta = "idle" /\ retry # 0
    <2>1. ASSUME NEW i \in DOMAIN sysq' PROVE i + 1 \in DOMAIN sysq /\ i + 1 # 1 /\ sysq'[i] = sysq[i + 1]
      BY <1>2, <1>3, <2>1
    <2>2. 1 \in DOMAIN sysq /\ sysq[1] = e /\ DOMAIN sysq' \subseteq Nat
      BY <1>2, <1>3
    <2>3. QED
      BY <1>3, <2>1, <2>2
  <1>4. CASE Associate
    BY <1>1, <1>4 DEF Associate, DriverOnly
  <1>5. CASE ObtainIp
    BY <1>1, <1>5 DEF ObtainIp, DriverOnly
  <1>6. CASE LoseLink
    BY <1>1, <1>6 DEF LoseLink, DriverOnly
  <1>7. CASE SmartconfigLink
    BY <1>7 DEF SmartconfigLink
  <1>8. CASE SmartconfigLinkOver
    BY <1>8 DEF SmartconfigLinkOver, Callback
  <1>9. CASE HandleStart
    BY <1>3, <1>9 DEF HandleStart
  <1>10. CASE HandleConnected
    BY <1>3, <1>10 DEF HandleConnected
  <1>11. CASE HandleDisconnected
    BY <1>3, <1>11 DEF HandleDisconnected, Autoconnect
  <1>12. CASE HandleGotIp
    BY <1>3, <1>12, WifiAssumption DEF HandleGotIp
  <1>13. ASSUME NEW t \in Tasks, BeginConfig(t) PROVE BudgetInv'
    BY <1>1, <1>13 DEF BeginConfig, Step, PostIfLinked
  <1>14. ASSUME NEW t \in Tasks, ConfigTask(t), ~BeginConfig(t) PROVE BudgetInv'
    <2>1. UNCHANGED <<sta, sysq, retry, linked>>
      BY <1>14 DEF ConfigTask, Step, CheckSession, TakeMux, TakeMuxTimeout, StartLibrary,
         EnterSession, AwaitDone, AwaitTimeout, StopLibrary, LeaveSession, GiveMux,
         ClearPairing, ReportResult, ClearHandle, EndConfig
    <2>2. QED
      BY <2>1
  <1>15. CASE ProcessWifiEvent \/ RequestSmartConfig \/ FinishRequest \/ UNCHANGED vars
    BY <1>15 DEF ProcessWifiEvent, RequestSmartConfig, FinishRequest, KillConfigTask,
       ForgetHandle, CreateConfigTask, TouchStep, vars
  <1>16. QED
    BY <1>4, <1>5, <1>6, <1>7, <1>8, <1>9, <1>10, <1>11, <1>12, <1>13, <1>14, <1>15
       DEF Next, Environment, HandleSystemEvent

\* For every number of retries: the count passes 0 only after a phone has made
\* the station join a network.
THEOREM RetryBudgetHolds == Spec => []RetryBudget
  <1>1. Init => BudgetInv
    BY WifiAssumption DEF Init, BudgetInv
  <1>2. TypeOK /\ BudgetInv /\ [Next]_vars => BudgetInv'
    BY BudgetStep
  <1>3. TypeOK /\ BudgetInv => RetryBudget
    BY DEF BudgetInv, RetryBudget, TypeOK, EventTypeOK
  <1>4. QED
    BY <1>1, <1>2, <1>3, TypeCorrect, PTL DEF Spec
=============================================================================
