---------------------------- MODULE WifiManager ----------------------------
(***************************************************************************)
(* The Wi-Fi manager of the firmware, in the SmartConfig build             *)
(* (src/components/DeviceController/WifiManager).                          *)
(*                                                                         *)
(* Four tasks share the state below:                                       *)
(*   - the system event task runs wifiEvtHandlerCb on each station event;  *)
(*   - WifiManagerEvtTask drains xQueueWifi and notifies the services;     *)
(*   - WifiConfigTask runs one SmartConfig session and deletes itself;     *)
(*   - the touch service calls WifiSmartConfig, which deletes the running  *)
(*     WifiConfigTask, wherever it is, and creates another one.            *)
(* The Wi-Fi driver and the esp_smartconfig library are external: they are *)
(* modelled by the calls made to them and the callbacks they deliver.      *)
(*                                                                         *)
(* The model starts when WifiConfigActive has returned: the queue, the     *)
(* event group and the mutex exist and esp_wifi_connect has been called.   *)
(***************************************************************************)
EXTENDS Integers, Sequences

CONSTANTS
    Tasks,        \* stacks a WifiConfigTask can run on
    NoTask,       \* the NULL task handle, and the holder of a free mutex
    Deleted,      \* the holder of a mutex whose holder was deleted
    RetryTimes,   \* retry_wifi_times after GOT_IP (5 in the code)
    EvtQueueLen,  \* WIFI_EVT_QUEUE_LEN
    SysQueueLen,  \* bound: station events waiting for the event task
    MaxRequests   \* bound: presses of the Wi-Fi setting key

ASSUME WifiAssumption ==
    /\ NoTask \notin Tasks
    /\ Deleted \notin Tasks
    /\ NoTask # Deleted
    /\ RetryTimes \in Nat \ {0}
    /\ EvtQueueLen \in Nat \ {0}
    /\ SysQueueLen \in Nat \ {0}
    /\ MaxRequests \in Nat

VARIABLES
    sta,        \* the station: what the driver is doing
    sysq,       \* station events not handled yet
    lastState,  \* wifiEvtHandlerCb's static lastState
    retry,      \* retry_wifi_times
    failed,     \* history: the station idles since esp_wifi_connect failed
    bits,       \* g_sc_event_group
    wifiq,      \* xQueueWifi
    told,       \* the last link state the services were notified of
    pc,         \* where each WifiConfigTask is
    handle,     \* SmartConfigHandle
    mux,        \* holder of g_sc_mux
    inSmartconfig,
    sc,         \* the esp_smartconfig library's session
    result,     \* what WifiSmartConnect is about to return
    touch,      \* where the touch task is in WifiSmartConfig
    cached,     \* the handle it read in its NULL test
    requests,   \* history: key presses so far
    dropped,    \* history: an xQueueSend found xQueueWifi full
    linked      \* history: a phone has delivered a network (SC_STATUS_LINK)

linkVars == <<sta, sysq>>
handlerVars == <<lastState, retry, failed>>
sessionVars == <<mux, inSmartconfig, sc, result>>
touchVars == <<touch, cached, requests>>
vars == <<linkVars, handlerVars, bits, wifiq, told, pc, handle, sessionVars,
          touchVars, dropped, linked>>

LinkStates == {"GotIp", "Disconnected", "SC_Disconnected"}
WifiStates == LinkStates \cup {"Connecting", "Connected", "Config_Timeout"}
StaEvents == {"STA_START", "CONNECTED", "DISCONNECTED", "GOT_IP"}

\* A config task inside g_sc_mux, and the part of it where the library runs.
Section == {"locked", "starting", "waiting", "stopping", "unflag", "give"}
Running == {"starting", "waiting", "stopping"}
Gone == {"dead", "ending"}
PcValues == Section \cup Gone \cup {"start", "delay", "lock", "clear", "report", "last"}

LinkTypeOK ==
    /\ sta \in {"idle", "connecting", "associated", "online"}
    /\ sysq \in Seq(StaEvents)
    /\ bits \subseteq {"SC_PAIRING", "SC_DONE_EVT", "SC_STOP_REQ_EVT"}
    /\ linked \in BOOLEAN

EventTypeOK ==
    /\ lastState \in {"none", "DISCONNECTED", "GOT_IP"}
    /\ retry \in -1..RetryTimes
    /\ failed \in BOOLEAN
    /\ wifiq \in Seq(WifiStates)
    /\ Len(wifiq) <= EvtQueueLen
    /\ told \in LinkStates \cup {"none"}
    /\ dropped \in BOOLEAN

TaskTypeOK ==
    /\ pc \in [Tasks -> PcValues]
    /\ handle \in Tasks \cup {NoTask}
    /\ mux \in Tasks \cup {NoTask, Deleted}
    /\ inSmartconfig \in BOOLEAN
    /\ sc \in {"off", "searching", "linked", "over"}
    /\ result \in {"none", "ESP_OK", "ESP_FAIL", "ESP_ERR_TIMEOUT", "ESP_ERR_INVALID_STATE"}

TouchTypeOK ==
    /\ touch \in {"idle", "kill", "forget", "create", "deleted"}
    /\ cached \in Tasks \cup {NoTask}
    /\ requests \in 0..MaxRequests

TypeOK == LinkTypeOK /\ EventTypeOK /\ TaskTypeOK /\ TouchTypeOK

\* WifiStartUp
Init ==
    /\ sta = "connecting"
    /\ sysq = <<"STA_START">>
    /\ lastState = "none"
    /\ retry = RetryTimes
    /\ failed = FALSE
    /\ bits = {}
    /\ wifiq = <<>>
    /\ told = "none"
    /\ pc = [t \in Tasks |-> "dead"]
    /\ handle = NoTask
    /\ mux = NoTask
    /\ inSmartconfig = FALSE
    /\ sc = "off"
    /\ result = "none"
    /\ touch = "idle"
    /\ cached = NoTask
    /\ requests = 0
    /\ dropped = FALSE
    /\ linked = FALSE

-----------------------------------------------------------------------------
(* The driver and the queues.                                              *)

SendOverwriting(state) ==    \* mutated form: the queue's length is not checked
    /\ wifiq' = Append(wifiq, state)
    /\ UNCHANGED dropped

\* xQueueSend(xQueueWifi, &state, 0): never blocks, loses the item when full.
Send(state) ==
    /\ wifiq' = IF Len(wifiq) < EvtQueueLen THEN Append(wifiq, state) ELSE wifiq
    /\ dropped' = (dropped \/ Len(wifiq) >= EvtQueueLen)

SendNothing == UNCHANGED <<wifiq, dropped>>

\* The driver posts its events without making the caller wait; what it does
\* of its own accord waits for Room, so that the queue stays bounded.
Post(event) == sysq' = Append(sysq, event)
Room == Len(sysq) < SysQueueLen

\* Leaving an association, or an attempt at one, is reported by an event.
PostIfLinked ==
    IF sta = "idle" THEN UNCHANGED sysq ELSE Post("DISCONNECTED")

DriverOnly == UNCHANGED <<handlerVars, bits, wifiq, told, pc, handle, sessionVars,
                          touchVars, dropped, linked>>

Associate ==
    /\ Room
    /\ sta = "connecting"
    /\ sta' = "associated"
    /\ Post("CONNECTED")
    /\ DriverOnly

\* DHCP completes, or an online station is given another address.
ObtainIp ==
    /\ Room
    /\ sta \in {"associated", "online"}
    /\ sta' = "online"
    /\ Post("GOT_IP")
    /\ DriverOnly

LoseLink ==
    /\ Room
    /\ sta # "idle"
    /\ sta' = "idle"
    /\ Post("DISCONNECTED")
    /\ DriverOnly

\* esp_wifi_connect on a station left idle: a failure is only logged, and no
\* event follows it.
Connect ==
    \/ sta' = "connecting" /\ failed' = FALSE
    \/ sta' = "idle" /\ failed' = TRUE

-----------------------------------------------------------------------------
(* wifiEvtHandlerCb, on the head of the event task's queue.                *)

Handling(event) ==
    /\ sysq # <<>>
    /\ Head(sysq) = event
    /\ sysq' = Tail(sysq)
    /\ UNCHANGED <<told, pc, handle, sessionVars, touchVars>>

HandleStart ==
    /\ Handling("STA_START")
    /\ Send("Connecting")
    /\ UNCHANGED <<sta, handlerVars, bits, linked>>

HandleConnected ==
    /\ Handling("CONNECTED")
    /\ Send("Connected")
    /\ UNCHANGED <<sta, handlerVars, bits, linked>>

\* A loss is announced once, not at each failed attempt that follows it.
NotifyUnpairedLoss(state) ==    \* mutated form: silent while pairing
    IF lastState # "DISCONNECTED" /\ state # "SC_Disconnected" THEN Send(state) ELSE SendNothing

NotifyLoss(state) ==
    IF lastState # "DISCONNECTED" THEN Send(state) ELSE SendNothing

AutoconnectShort ==    \* mutated form: gives up one retry too early
    /\ retry' = IF retry < 0 THEN retry ELSE retry - 1
    /\ IF sta = "idle" /\ retry' \notin {0, 1} THEN Connect ELSE UNCHANGED <<sta, failed>>

\* An int below zero is not 0 again within 2^31 losses, so every negative count
\* is kept as -1.
Autoconnect ==
    /\ retry' = IF retry < 0 THEN retry ELSE retry - 1
    /\ IF sta = "idle" /\ retry' # 0 THEN Connect ELSE UNCHANGED <<sta, failed>>

\* The SC_PAIRING bit is consumed by the first disconnect that sees it.
HandleDisconnected ==
    /\ Handling("DISCONNECTED")
    /\ bits' = bits \ {"SC_PAIRING"}
    /\ lastState' = "DISCONNECTED"
    /\ IF "SC_PAIRING" \in bits
       THEN NotifyLoss("SC_Disconnected") /\ UNCHANGED <<sta, retry, failed>>
       ELSE NotifyLoss("Disconnected") /\ Autoconnect
    /\ UNCHANGED linked

HandleGotIp ==
    /\ Handling("GOT_IP")
    /\ IF lastState # "GOT_IP" THEN Send("GotIp") ELSE SendNothing
    /\ lastState' = "GOT_IP"
    /\ retry' = RetryTimes
    /\ UNCHANGED <<sta, failed, bits, linked>>

\* WifiManagerEvtTask: receive one item and notify every service of it.
ProcessWifiEvent ==
    /\ wifiq # <<>>
    /\ wifiq' = Tail(wifiq)
    /\ told' = IF Head(wifiq) \in LinkStates THEN Head(wifiq) ELSE told
    /\ UNCHANGED <<linkVars, handlerVars, bits, pc, handle, sessionVars, touchVars,
                   dropped, linked>>

-----------------------------------------------------------------------------
(* WifiConfigTask and the WifiSmartConnect it calls.                       *)

Step(t, from, to) ==
    /\ pc[t] = from
    /\ pc' = [pc EXCEPT ![t] = to]
    /\ UNCHANGED <<handlerVars, told, touchVars, linked>>

\* Announce the pairing and leave the current network.
BeginConfig(t) ==
    /\ Step(t, "start", "delay")
    /\ bits' = bits \cup {"SC_PAIRING"}
    /\ sta' = "idle"
    /\ PostIfLinked
    /\ UNCHANGED <<wifiq, handle, sessionVars, dropped>>

\* After the delay.  The mode is STA: nothing sets another one in this build.
CheckSession(t) ==
    /\ Step(t, "delay", IF inSmartconfig THEN "report" ELSE "lock")
    /\ result' = IF inSmartconfig THEN "ESP_ERR_INVALID_STATE" ELSE "none"
    /\ UNCHANGED <<sta, sysq, bits, wifiq, handle, mux, inSmartconfig, sc, dropped>>

TakeMux(t) ==
    /\ Step(t, "lock", "locked")
    /\ mux = NoTask
    /\ mux' = t
    /\ UNCHANGED <<sta, sysq, bits, wifiq, handle, inSmartconfig, sc, result, dropped>>

TakeMuxForever(t) ==    \* mutated form: portMAX_DELAY instead of a timeout
    Step(t, "lock", "report") /\ FALSE

TakeMuxTimeout(t) ==
    /\ Step(t, "lock", "report")
    /\ mux # NoTask
    /\ result' = "ESP_ERR_TIMEOUT"
    /\ UNCHANGED <<sta, sysq, bits, wifiq, handle, mux, inSmartconfig, sc, dropped>>

StartLibrary(t) ==
    /\ Step(t, "locked", "starting")
    /\ bits' = bits \ {"SC_STOP_REQ_EVT"}
    /\ sc' = "searching"
    /\ UNCHANGED <<sta, sysq, wifiq, handle, mux, inSmartconfig, result, dropped>>

EnterSession(t) ==
    /\ Step(t, "starting", "waiting")
    /\ inSmartconfig' = TRUE
    /\ UNCHANGED <<sta, sysq, bits, wifiq, handle, mux, sc, result, dropped>>

\* xEventGroupWaitBits clears both bits when it returns because of one.
AwaitDone(t) ==
    /\ Step(t, "waiting", "stopping")
    /\ bits \cap {"SC_DONE_EVT", "SC_STOP_REQ_EVT"} # {}
    /\ bits' = bits \ {"SC_DONE_EVT", "SC_STOP_REQ_EVT"}
    /\ result' = IF "SC_DONE_EVT" \in bits THEN "ESP_OK" ELSE "ESP_FAIL"
    /\ UNCHANGED <<sta, sysq, wifiq, handle, mux, inSmartconfig, sc, dropped>>

AwaitTimeout(t) ==
    /\ Step(t, "waiting", "stopping")
    /\ bits \cap {"SC_DONE_EVT", "SC_STOP_REQ_EVT"} = {}
    /\ result' = "ESP_ERR_TIMEOUT"
    /\ UNCHANGED <<sta, sysq, bits, wifiq, handle, mux, inSmartconfig, sc, dropped>>

StopLibrary(t) ==
    /\ Step(t, "stopping", "unflag")
    /\ sc' = "off"
    /\ UNCHANGED <<sta, sysq, bits, wifiq, handle, mux, inSmartconfig, result, dropped>>

LeaveSession(t) ==
    /\ Step(t, "unflag", "give")
    /\ inSmartconfig' = FALSE
    /\ UNCHANGED <<sta, sysq, bits, wifiq, handle, mux, sc, result, dropped>>

GiveMux(t) ==
    /\ Step(t, "give", "clear")
    /\ mux' = NoTask
    /\ UNCHANGED <<sta, sysq, bits, wifiq, handle, inSmartconfig, sc, result, dropped>>

ClearPairing(t) ==
    /\ Step(t, "clear", "report")
    /\ bits' = bits \ {"SC_PAIRING"}
    /\ UNCHANGED <<sta, sysq, wifiq, handle, sessionVars, dropped>>

\* The switch on the result: only a timeout has an effect.
ReportResult(t) ==
    /\ Step(t, "report", "last")
    /\ IF result = "ESP_ERR_TIMEOUT" THEN Send("Config_Timeout") ELSE SendNothing
    /\ result' = "none"
    /\ UNCHANGED <<sta, sysq, bits, handle, mux, inSmartconfig, sc>>

ClearHandle(t) ==
    /\ Step(t, "last", "ending")
    /\ handle' = NoTask
    /\ UNCHANGED <<sta, sysq, bits, wifiq, sessionVars, dropped>>

\* vTaskDelete(NULL)
EndConfig(t) ==
    /\ Step(t, "ending", "dead")
    /\ UNCHANGED <<sta, sysq, bits, wifiq, handle, sessionVars, dropped>>

-----------------------------------------------------------------------------
(* smartconfig_done, called back by the library while a session runs.      *)

Callback(from, to) ==
    /\ sc = from
    /\ sc' = to
    /\ UNCHANGED <<lastState, retry, wifiq, told, pc, handle, mux, inSmartconfig, result,
                   touchVars, dropped>>

\* SC_STATUS_LINK: the phone has sent a network; join it, if the call succeeds.
SmartconfigLink ==
    /\ Callback("searching", "linked")
    /\ PostIfLinked
    /\ Connect
    /\ linked' = TRUE
    /\ UNCHANGED bits

\* SC_STATUS_LINK_OVER: the station has an address and told the phone so.
SmartconfigLinkOver ==
    /\ sta = "online"
    /\ Callback("linked", "over")
    /\ bits' = bits \cup {"SC_DONE_EVT"}
    /\ UNCHANGED <<linkVars, failed, linked>>

-----------------------------------------------------------------------------
(* WifiSmartConfig, run by the touch task when the key is pressed.         *)

TouchStep(from, to) ==
    /\ touch = from
    /\ touch' = to
    /\ UNCHANGED <<linkVars, handlerVars, bits, wifiq, told, inSmartconfig, sc,
                   dropped, linked>>

RequestSmartConfig ==
    /\ requests < MaxRequests
    /\ requests' = requests + 1
    /\ TouchStep("idle", IF handle = NoTask THEN "create" ELSE "kill")
    /\ cached' = handle
    /\ UNCHANGED <<pc, handle, mux, result>>

KillAndGiveMux ==    \* mutated form: the mutex of the deleted task is given back
    \E victim \in {cached, handle} \ {NoTask} :
        /\ TouchStep("kill", "forget")
        /\ pc' = [pc EXCEPT ![victim] = "dead"]
        /\ mux' = IF mux = victim THEN NoTask ELSE mux
        /\ result' = "none"
        /\ UNCHANGED <<handle, cached, requests>>

\* SmartConfigHandle is read without a lock for the test and again for the
\* call: the compiler may keep the first value or load the second, and
\* vTaskDelete(NULL) deletes the caller.  A deleted task gives nothing back.
KillConfigTask ==
    \E victim \in {cached, handle} :
        IF victim = NoTask
        THEN /\ TouchStep("kill", "deleted")
             /\ UNCHANGED <<pc, handle, mux, result, cached, requests>>
        ELSE /\ TouchStep("kill", "forget")
             /\ pc' = [pc EXCEPT ![victim] = "dead"]
             /\ mux' = IF mux = victim THEN Deleted ELSE mux
             /\ result' = "none"
             /\ UNCHANGED <<handle, cached, requests>>

ForgetHandle ==
    /\ TouchStep("forget", "create")
    /\ handle' = NoTask
    /\ UNCHANGED <<pc, mux, result, cached, requests>>

CreateConfigTask ==
    /\ TouchStep("create", "idle")
    /\ cached' = NoTask
    /\ \/ \E t \in Tasks : /\ pc[t] = "dead"
                           /\ pc' = [pc EXCEPT ![t] = "start"]
                           /\ handle' = t
       \/ UNCHANGED <<pc, handle>>        \* out of memory
    /\ UNCHANGED <<mux, result, requests>>

-----------------------------------------------------------------------------
HandleSystemEvent == HandleStart \/ HandleConnected \/ HandleDisconnected \/ HandleGotIp

ConfigTask(t) ==
    \/ BeginConfig(t) \/ CheckSession(t) \/ TakeMux(t) \/ TakeMuxTimeout(t)
    \/ StartLibrary(t) \/ EnterSession(t) \/ AwaitDone(t) \/ AwaitTimeout(t)
    \/ StopLibrary(t) \/ LeaveSession(t) \/ GiveMux(t) \/ ClearPairing(t)
    \/ ReportResult(t) \/ ClearHandle(t) \/ EndConfig(t)

FinishRequest == KillConfigTask \/ ForgetHandle \/ CreateConfigTask

Environment == Associate \/ ObtainIp \/ LoseLink \/ SmartconfigLink \/ SmartconfigLinkOver

Next ==
    \/ Environment
    \/ HandleSystemEvent
    \/ ProcessWifiEvent
    \/ RequestSmartConfig
    \/ FinishRequest
    \/ \E t \in Tasks : ConfigTask(t)

Spec == Init /\ [][Next]_vars

\* Each task runs when it can: they are FreeRTOS tasks that block only where
\* modelled.  The driver, the phone, the user and the router owe nothing.
Fairness ==
    /\ WF_vars(HandleSystemEvent)
    /\ WF_vars(ProcessWifiEvent)
    /\ WF_vars(FinishRequest)
    /\ \A t \in Tasks : WF_vars(ConfigTask(t))

FairSpec == Spec /\ Fairness

-----------------------------------------------------------------------------
(* Safety.                                                                 *)

\* At most one WifiConfigTask is alive, and SmartConfigHandle points to it:
\* WifiSmartConfig deletes the old one before it creates another, and a task
\* that ends by itself clears the handle first.
OneConfigTask ==
    touch # "forget" => \A t \in Tasks : pc[t] \notin Gone => handle = t

\* esp_smartconfig_start is only called with the library stopped (it returns
\* an error otherwise, and ESP_ERROR_CHECK aborts the firmware), even though a
\* WifiConfigTask can be deleted with the library running.
NoDoubleStart ==
    \A t \in Tasks : pc[t] = "locked" => sc = "off"

\* One session at a time, whatever is deleted: both of the above.
OneSession == OneConfigTask /\ NoDoubleStart

\* The inductive invariant behind the two: g_sc_mux is held exactly by the task
\* inside it, the library runs only under it or under a mutex that nobody can
\* give back, and a request in progress has left no other task alive.
SessionUnderMux ==
    /\ \A t \in Tasks : pc[t] \in Section <=> mux = t
    /\ sc # "off" => mux = Deleted \/ \E t \in Tasks : mux = t /\ pc[t] \in Running

RequestInProgress ==
    /\ touch = "kill" => handle \in {cached, NoTask}
    /\ touch = "forget" => \A t \in Tasks : pc[t] \in Gone
    /\ touch = "create" => handle = NoTask

IInv == OneConfigTask /\ RequestInProgress /\ SessionUnderMux

\* What the services will have been told last once xQueueWifi is drained.
WillBeTold(state) ==
    IF \E i \in DOMAIN wifiq : wifiq[i] \in LinkStates
    THEN \E i \in DOMAIN wifiq :
            /\ wifiq[i] = state /\ state \in LinkStates
            /\ \A j \in DOMAIN wifiq : wifiq[j] \in LinkStates => j <= i
    ELSE told = state

\* As long as no notification was lost to a full queue, the services end up
\* with the state of the last link event, however it is filtered on the way
\* (repeated events, pairing, the non-link states in between).
ServicesFollowLink ==
    ~dropped =>
        /\ lastState = "none" => WillBeTold("none")
        /\ lastState = "GOT_IP" => WillBeTold("GotIp")
        /\ lastState = "DISCONNECTED" => WillBeTold("Disconnected") \/ WillBeTold("SC_Disconnected")

\* The handler gives up after RetryTimes losses in a row: the count only
\* passes 0, which makes "if (retry_wifi_times)" true again and for good, when
\* a phone has made the station join a network behind the handler's back.
RetryBudget == retry < 0 => linked

-----------------------------------------------------------------------------
(* Liveness.                                                               *)

\* A config task ends, whatever was deleted before it: it waits for the mutex
\* and for the phone with a timeout.
ConfigTaskEnds == \A t \in Tasks : pc[t] = "start" ~> pc[t] \in Gone

\* Until the Wi-Fi setting key is first pressed, a lost link is followed by
\* another attempt unless the retries are used up or the call that starts it
\* fails: that one is not repeated.
LostLinkIsRetried ==
    (sta = "idle" /\ requests = 0)
        ~> (sta # "idle" \/ retry = 0 \/ failed \/ requests > 0)

-----------------------------------------------------------------------------
(* What the source says and the code does not do.                          *)

\* WifiManager.c:335, on ESP_ERR_INVALID_STATE: "Already in smartconfig,
\* please wait": another task is in a session that it will leave.
BusyMeansSession ==
    \A t \in Tasks : result = "ESP_ERR_INVALID_STATE" /\ pc[t] = "report"
                         => \E u \in Tasks : pc[u] \in Section
=============================================================================
