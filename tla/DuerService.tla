---------------------------- MODULE DuerService ----------------------------
(***************************************************************************)
(* The DuerOS service: dueros_task, which keeps the device logged in to    *)
(* the voice cloud and sends it what the microphone hears, and the         *)
(* callbacks that command it through a short queue                         *)
(* (src/components/DuerAppService/DuerAppService.c).                       *)
(*                                                                         *)
(*   - the Wi-Fi notification task sends LOGIN on GOT_IP, and stops the    *)
(*     engine when the link is lost;                                       *)
(*   - the touch task stops the engine when the Wi-Fi key is pressed;      *)
(*   - the engine (external) reports that it has started or stopped;       *)
(*   - the recorder (external) reports wake-up and voice;                  *)
(*   - the timer task fires retry_login_timer.                             *)
(* No send waits for room in the queue: a command that finds it full is    *)
(* lost.  The model starts where dueros_task enters its loop.              *)
(***************************************************************************)
EXTENDS Integers, Sequences

CONSTANTS
    QueueLen,       \* length of _duerOsQue (5 in the code)
    TimerQueueLen,  \* length of the timer task's command queue
    MaxRetryNum,    \* retry_num at which the task gives up (128 in the code)
    MaxNotes        \* bound: Wi-Fi notifications and key presses

ASSUME ServiceAssumption ==
    /\ QueueLen \in Nat \ {0}
    /\ TimerQueueLen \in Nat \ {0}
    /\ MaxRetryNum \in Nat \ {0}
    /\ MaxNotes \in Nat

VARIABLES
    duerState,     \* duer_state
    queue,         \* _duerOsQue
    setWifiFlag,   \* set_wifi_flag
    wifiConnected, \* wifi_is_connected
    sentStop,      \* duer_sent_stop_flag
    retryNum,      \* retry_num
    task,          \* where dueros_task is
    engine,        \* what the DuerOS engine is doing
    timer,         \* retry_login_timer is running
    timerTask,     \* where the timer task is in retry_login_timer_cb
    timerq,        \* commands to the timer task
    notifier,      \* where the Wi-Fi task is in DeviceEvtNotifiedToRecog
    touch,         \* where the touch task is in DeviceEvtNotifiedToRecog
    notes,         \* history: notifications so far
    awake,         \* the recorder was woken up
    voice,         \* it hears somebody
    recorder,      \* where it is in rec_engine_cb
    dropped,       \* history: commands that were lost
    restarted,     \* history: duer_start was called on a running engine
    ended,         \* history: sessions ended since the engine last connected, capped
    missed         \* history: the CONNECTED of that connection was lost

cloudVars == <<duerState, retryNum, task, restarted>>
sessionVars == <<ended, missed>>
flagVars == <<setWifiFlag, wifiConnected>>
timerVars == <<timer, timerTask>>
noteVars == <<notifier, touch, notes>>
recorderVars == <<awake, voice, recorder, sentStop>>
vars == <<cloudVars, queue, flagVars, engine, timerVars, timerq, noteVars, recorderVars,
          dropped, sessionVars>>

Cmds == {"LOGIN", "CONNECTED", "START", "STOP", "QUIT"}
DuerStates == {"IDLE", "CONNECTING", "CONNECTED", "START", "STOP"}
EndCap == 2 * MaxRetryNum

TypeOK ==
    /\ duerState \in DuerStates
    /\ queue \in Seq(Cmds) /\ Len(queue) <= QueueLen
    /\ setWifiFlag \in BOOLEAN /\ wifiConnected \in BOOLEAN /\ sentStop \in BOOLEAN
    /\ retryNum \in 1..(2 * MaxRetryNum)
    /\ task \in {"receive", "open", "stream", "close", "gone"}
    /\ engine \in {"stopped", "starting", "started", "stopping"}
    /\ timer \in BOOLEAN
    /\ timerTask \in {"idle", "login", "stop"}
    /\ timerq \in Seq({"start", "stop"}) /\ Len(timerq) <= TimerQueueLen
    /\ notifier \in {"idle", "gotip", "lost"}
    /\ touch \in {"idle", "flag"}
    /\ notes \in 0..MaxNotes
    /\ awake \in BOOLEAN /\ voice \in BOOLEAN
    /\ recorder \in {"idle", "clear", "raise"}
    /\ dropped \subseteq Cmds
    /\ restarted \in BOOLEAN
    /\ ended \in 0..EndCap
    /\ missed \in BOOLEAN

Init ==
    /\ duerState = "IDLE"
    /\ queue = <<>>
    /\ setWifiFlag = FALSE /\ wifiConnected = FALSE /\ sentStop = FALSE
    /\ retryNum = 1
    /\ task = "receive"
    /\ engine = "stopped"
    /\ timer = FALSE
    /\ timerTask = "idle"
    /\ timerq = <<>>
    /\ notifier = "idle"
    /\ touch = "idle"
    /\ notes = 0
    /\ awake = FALSE /\ voice = FALSE
    /\ recorder = "idle"
    /\ dropped = {}
    /\ restarted = FALSE
    /\ ended = 0 /\ missed = FALSE

-----------------------------------------------------------------------------
(* The queue and the engine.                                               *)

Pending(cmd) == \E i \in DOMAIN queue : queue[i] = cmd

SendPastEnd(cmd) ==    \* mutated form: one command too many
    IF Len(queue) <= QueueLen
    THEN queue' = Append(queue, cmd) /\ UNCHANGED dropped
    ELSE dropped' = dropped \cup {cmd} /\ UNCHANGED queue

\* duerOSEvtSend: xQueueSend without a wait.
Send(cmd) ==
    IF Len(queue) < QueueLen
    THEN queue' = Append(queue, cmd) /\ UNCHANGED dropped
    ELSE dropped' = dropped \cup {cmd} /\ UNCHANGED queue

SendNothing == UNCHANGED <<queue, dropped>>

\* duer_stop: the engine stops in its own time.
DuerStop == engine' = IF engine \in {"starting", "started"} THEN "stopping" ELSE engine

\* External: the engine connects, or stops, on demand or because the
\* connection failed; duer_event_hook is called either way.
EngineStarted ==
    /\ engine = "starting"
    /\ engine' = "started"
    /\ Send("CONNECTED")
    /\ ended' = 0
    /\ missed' = (Len(queue) = QueueLen)
    /\ UNCHANGED <<cloudVars, flagVars, timerVars, timerq, noteVars, recorderVars>>

EngineStopped ==
    /\ engine # "stopped"
    /\ engine' = "stopped"
    /\ Send("QUIT")
    /\ ended' = IF ended < EndCap THEN ended + 1 ELSE ended
    /\ UNCHANGED missed
    /\ UNCHANGED <<cloudVars, flagVars, timerVars, timerq, noteVars, recorderVars>>

-----------------------------------------------------------------------------
(* DeviceEvtNotifiedToRecog, in the Wi-Fi and in the touch task.           *)

Note(from, to) ==
    /\ notifier = from
    /\ notifier' = to
    /\ UNCHANGED <<cloudVars, timerVars, timerq, touch, recorderVars, sessionVars>>

GotIp ==
    /\ Note("idle", "gotip")
    /\ notes < MaxNotes /\ notes' = notes + 1
    /\ Send("LOGIN")
    /\ UNCHANGED <<flagVars, engine>>

\* The flags are only set after the command was sent.
GotIpFlags ==
    /\ Note("gotip", "idle")
    /\ setWifiFlag' = FALSE
    /\ wifiConnected' = TRUE
    /\ SendNothing
    /\ UNCHANGED <<notes, engine>>

LinkLost ==
    /\ Note("idle", "lost")
    /\ notes < MaxNotes /\ notes' = notes + 1
    /\ DuerStop
    /\ SendNothing
    /\ UNCHANGED flagVars

LinkLostFlag ==
    /\ Note("lost", "idle")
    /\ wifiConnected' = FALSE
    /\ SendNothing
    /\ UNCHANGED <<notes, setWifiFlag, engine>>

Touch(from, to) ==
    /\ touch = from
    /\ touch' = to
    /\ SendNothing
    /\ UNCHANGED <<cloudVars, wifiConnected, timerVars, timerq, notifier, recorderVars,
                   sessionVars>>

WifiKey ==
    /\ Touch("idle", "flag")
    /\ notes < MaxNotes /\ notes' = notes + 1
    /\ DuerStop
    /\ UNCHANGED setWifiFlag

WifiKeyFlag ==
    /\ Touch("flag", "idle")
    /\ setWifiFlag' = TRUE
    /\ UNCHANGED <<notes, engine>>

-----------------------------------------------------------------------------
(* rec_engine_cb.  Without Wi-Fi it plays a tone and does nothing.         *)

Recorder(from, to) ==
    /\ recorder = from
    /\ recorder' = to
    /\ UNCHANGED <<cloudVars, flagVars, engine, timerVars, timerq, noteVars, sessionVars>>

WakeUp ==
    /\ Recorder("idle", "idle")
    /\ ~awake /\ awake' = TRUE
    /\ SendNothing
    /\ UNCHANGED <<voice, sentStop>>

VadStart ==
    /\ Recorder("idle", IF wifiConnected THEN "clear" ELSE "idle")
    /\ awake /\ ~voice /\ voice' = TRUE
    /\ IF wifiConnected THEN Send("START") ELSE SendNothing
    /\ UNCHANGED <<awake, sentStop>>

ClearSentStop ==
    /\ Recorder("clear", "idle")
    /\ sentStop' = FALSE
    /\ SendNothing
    /\ UNCHANGED <<awake, voice>>

SendStopBlindly(to) ==    \* mutated form: STOP is marked as sent in any state
    IF wifiConnected /\ ~sentStop
    THEN /\ Recorder("idle", "raise")
         /\ IF duerState = "START" THEN Send("STOP") ELSE SendNothing
    ELSE Recorder("idle", to) /\ SendNothing

\* VAD_STOP and WAKEUP_END alike end the voice being sent, once.
SendStop(to) ==
    IF wifiConnected /\ duerState = "START" /\ ~sentStop
    THEN Recorder("idle", "raise") /\ Send("STOP")
    ELSE Recorder("idle", to) /\ SendNothing

VadStop ==
    /\ voice /\ voice' = FALSE
    /\ SendStop("idle")
    /\ UNCHANGED <<awake, sentStop>>

WakeUpEnd ==
    /\ awake /\ ~voice /\ awake' = FALSE
    /\ SendStop("idle")
    /\ UNCHANGED <<voice, sentStop>>

RaiseSentStop ==
    /\ Recorder("raise", "idle")
    /\ sentStop' = TRUE
    /\ SendNothing
    /\ UNCHANGED <<awake, voice>>

-----------------------------------------------------------------------------
(* The timer task.                                                         *)

TimerTask(from, to) ==
    /\ timerTask = from
    /\ timerTask' = to
    /\ UNCHANGED <<cloudVars, flagVars, engine, noteVars, recorderVars, sessionVars>>

\* A one-shot timer: it has stopped when its callback runs.
TimerFires ==
    /\ TimerTask("idle", "login")
    /\ timer /\ timer' = FALSE
    /\ SendNothing
    /\ UNCHANGED timerq

RetryLogin ==
    /\ TimerTask("login", "stop")
    /\ Send("LOGIN")
    /\ UNCHANGED <<timer, timerq>>

\* xTimerStop(tmr, 0) queues a command behind those already there.
StopTimer ==
    /\ TimerTask("stop", "idle")
    /\ timerq' = IF Len(timerq) < TimerQueueLen THEN Append(timerq, "stop") ELSE timerq
    /\ SendNothing
    /\ UNCHANGED timer

TimerCommand ==
    /\ TimerTask("idle", "idle")
    /\ timerq # <<>>
    /\ timer' = (Head(timerq) = "start")
    /\ timerq' = Tail(timerq)
    /\ SendNothing

-----------------------------------------------------------------------------
(* dueros_task.                                                            *)

Receive(cmd, to) ==
    /\ task = "receive"
    /\ queue # <<>>
    /\ Head(queue) = cmd
    /\ queue' = Tail(queue)
    /\ task' = to
    /\ UNCHANGED <<dropped, flagVars, timerVars, noteVars, recorderVars, sessionVars>>

LoginAnyway ==    \* mutated form: no test of duer_state
    /\ Receive("LOGIN", "receive")
    /\ duerState' = "CONNECTING"
    /\ engine' = IF engine = "stopped" THEN "starting" ELSE engine
    /\ restarted' = (restarted \/ engine # "stopped")
    /\ UNCHANGED <<retryNum, timerq>>

\* duer_login may find no profile; the state is CONNECTING all the same.
Login ==
    /\ Receive("LOGIN", "receive")
    /\ duerState = "IDLE"
    /\ duerState' = "CONNECTING"
    /\ \/ /\ engine' = IF engine = "stopped" THEN "starting" ELSE engine
          /\ restarted' = (restarted \/ engine # "stopped")
       \/ UNCHANGED <<engine, restarted>>
    /\ UNCHANGED <<retryNum, timerq>>

RefuseLogin ==
    /\ Receive("LOGIN", "receive")
    /\ duerState # "IDLE"
    /\ UNCHANGED <<duerState, retryNum, engine, restarted, timerq>>

ConnectedKeepsCount ==    \* mutated form: retry_num is not reset
    /\ Receive("CONNECTED", "receive")
    /\ duerState' = "CONNECTED"
    /\ UNCHANGED <<retryNum, engine, restarted, timerq>>

Connected ==
    /\ Receive("CONNECTED", "receive")
    /\ duerState' = "CONNECTED"
    /\ retryNum' = 1
    /\ UNCHANGED <<engine, restarted, timerq>>

StartVoice ==
    /\ Receive("START", IF duerState \in {"IDLE", "CONNECTING"} THEN "receive" ELSE "open")
    /\ UNCHANGED <<duerState, retryNum, engine, restarted, timerq>>

StopVoice ==
    /\ Receive("STOP", IF duerState = "START" THEN "close" ELSE "receive")
    /\ UNCHANGED <<duerState, retryNum, engine, restarted, timerq>>

Talk(from, to) ==
    /\ task = from
    /\ task' = to
    /\ SendNothing
    /\ UNCHANGED <<retryNum, restarted, flagVars, engine, timerVars, timerq, noteVars,
                   recorderVars, sessionVars>>

\* duer_voice_start and duer_dcs_on_listen_started have returned.
VoiceStarted == Talk("open", "stream") /\ duerState' = "START"

\* The recorder has no more data, or a block could not be sent.
StreamEnds == Talk("stream", "receive") /\ UNCHANGED duerState

\* duer_voice_stop has returned.
VoiceStopped == Talk("close", "receive") /\ duerState' = "STOP"

QuitIgnored ==    \* mutated form: set_wifi_flag is looked at before the state is reset
    /\ Receive("QUIT", "receive")
    /\ setWifiFlag
    /\ UNCHANGED <<duerState, retryNum, engine, restarted, timerq>>

\* QUIT while the Wi-Fi is being set: GOT_IP will bring the next LOGIN.
QuitForSetting ==
    /\ Receive("QUIT", "receive")
    /\ setWifiFlag
    /\ duerState' = "IDLE"
    /\ UNCHANGED <<retryNum, engine, restarted, timerq>>

\* QUIT otherwise: the timer is set to twice the last period.
QuitAndRetry ==
    /\ Receive("QUIT", "receive")
    /\ ~setWifiFlag
    /\ retryNum < MaxRetryNum
    /\ Len(timerq) < TimerQueueLen
    /\ duerState' = "IDLE"
    /\ retryNum' = 2 * retryNum
    /\ timerq' = Append(timerq, "start")
    /\ UNCHANGED <<engine, restarted>>

QuitForGood ==
    /\ Receive("QUIT", "gone")
    /\ ~setWifiFlag
    /\ retryNum >= MaxRetryNum
    /\ Len(timerq) < TimerQueueLen
    /\ duerState' = "IDLE"
    /\ timerq' = Append(timerq, "stop")
    /\ UNCHANGED <<retryNum, engine, restarted>>

-----------------------------------------------------------------------------
DuerTask ==
    \/ Login \/ RefuseLogin \/ Connected \/ StartVoice \/ StopVoice
    \/ VoiceStarted \/ StreamEnds \/ VoiceStopped
    \/ QuitForSetting \/ QuitAndRetry \/ QuitForGood

Notifications == GotIp \/ LinkLost \/ WifiKey
FinishNotification == GotIpFlags \/ LinkLostFlag \/ WifiKeyFlag
RecorderEvents == WakeUp \/ VadStart \/ VadStop \/ WakeUpEnd
FinishEvent == ClearSentStop \/ RaiseSentStop
TimerSteps == TimerFires \/ RetryLogin \/ StopTimer \/ TimerCommand

Next ==
    \/ EngineStarted \/ EngineStopped
    \/ Notifications \/ FinishNotification
    \/ RecorderEvents \/ FinishEvent
    \/ TimerSteps
    \/ DuerTask

Spec == Init /\ [][Next]_vars

\* A task that can run does run, the timer task like the others; a block of
\* voice does end, because the engine stops the recorder when it stops.
\* Nothing makes the network or the user act.
Fairness ==
    /\ WF_vars(DuerTask)
    /\ WF_vars(FinishNotification)
    /\ WF_vars(FinishEvent)
    /\ WF_vars(TimerSteps)

FairSpec == Spec /\ Fairness

-----------------------------------------------------------------------------
(* Properties.                                                             *)

\* The engine is never started while it is running, stopping or connecting:
\* dueros_task believes the state it keeps for itself, which only follows the
\* engine through commands that come later (DuerAppService.c:371).
NoSecondStart == ~restarted

\* duer_sent_stop_flag never hides the end of a voice: while voice is being
\* sent and the flag is up, the STOP it stands for is still to be handled, or
\* was lost to a full queue.  The flag is written by the recorder's task, the
\* state by dueros_task (DuerAppService.c:151-167).
StopFlagHonest ==
    (duerState = "START" /\ sentStop /\ recorder = "idle") =>
        (Pending("STOP") \/ task = "close" \/ "STOP" \in dropped)

\* retry_num after n QUITs in a row, when each doubles it.
PeriodAfter[n \in Nat] == IF n = 0 THEN 1 ELSE 2 * PeriodAfter[n - 1]

\* dueros_task ends for ever only when, since the engine last connected, one
\* session more has ended than it takes to double the period from 1 to its
\* limit (DuerAppService.c:418-425); unless the task was never told of that
\* connection, because the queue was full (line 122).
GivesUpLate == task = "gone" => missed \/ PeriodAfter[ended - 1] >= MaxRetryNum

\* A session whose end the engine reported is noticed: while the QUIT waits,
\* the task may be sending voice or have other commands before it, but in the
\* end it is back in the state from which it can log in.
EndIsNoticed == Pending("QUIT") ~> (duerState = "IDLE")

=============================================================================
