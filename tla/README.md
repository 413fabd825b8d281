# Verification of the ESP-Audio firmware

This directory holds a TLA+ model of the parts of the firmware whose
correctness depends on the order in which tasks, callbacks and messages meet:
the Wi-Fi manager, the voice alerts with the audio wrapper below them, the
DuerOS application service, the MQTT client, the Bluetooth service, the alarm
service, the detectors of cards, cables and headphones with the key task, and
the dialogue with the device's own cloud. TLC checks each on small instances;
TLAPS proves the theorems of the `*_proofs` modules for every value of the
constants.

The firmware is C on FreeRTOS for a dual-core ESP32. The build that is modelled
is the one of `src/sdkconfig` (LyraT V4.3, SmartConfig, two cores, timer task of
priority 6 with a queue of 20), with `CONFIG_ENABLE_DUEROS_SERVICE` added for the
DuerOS service, its alerts and the record keys, which `sdkconfig` leaves out.
`src/build` is generated; the player (`components/player`), the DuerOS engine
(`components/libduer-device`), the recorder engine, the Bluetooth stack and the
codecs come as binary libraries and appear in the models as environment, through
their headers and through how the code uses them.

## 1. The system

| component | state it keeps | operations | interacts with |
|---|---|---|---|
| Wi-Fi manager (`DeviceController/WifiManager`) | `lastState`, `retry_wifi_times`, `g_sc_event_group`, `xQueueWifi`, `g_sc_mux`, `g_in_smartconfig`, `SmartConfigHandle` | station event handler, notification task, one `WifiConfigTask` per session, `WifiSmartConfig` request | driver and `esp_smartconfig` (calls and callbacks), every service (`deviceEvtNotified`), touch service |
| Voice alerts (`DuerAppService/duerapp_alert.c`) | `s_alert_queue`, `s_alert_list`, `s_ringing_alert_node`, `alert_info.is_active`, `loop_count` | set and delete directives, alert threads, timer callback, player status callback | DCS library (reports), lightduer timers, audio wrapper |
| Audio wrapper (`DuerAppService/duer_audio_wrapper.c`) | `speech_type`, status queue, play list, volume | status task, play and stop of alerts, speech, music and tones | player, alerts, DCS |
| DuerOS application service (`DuerAppService/DuerAppService.c`) | `duer_state`, `_duerOsQue`, `set_wifi_flag`, `wifi_is_connected`, `duer_sent_stop_flag`, `retry_num`, `retry_login_timer` | `dueros_task`, event hook, recorder callback, timer callback, notifications | Wi-Fi manager, keys, DuerOS engine, recorder, audio wrapper |
| Key and notification routing (`DeviceController.c`, `NotifyHelper.c`, `TouchService`) | `xQueueTouchService`, `_blocking`, `recodingFlg`, `syncQ`, Wi-Fi and Bluetooth switches | key events to the player, the recorder and `WifiSmartConfig`; broadcast of notifications | all managers and services |
| Key drivers (`TouchManager`) | per-button press state, timers | press, tap, release, long press; ADC thresholds | interrupts, routing |
| SD card (`SDCardManager`) | `g_sd_card_queue`, `lastState`, the mounted file system | interrupt, task, mount, unmount, play-list scan | routing, player, playlist manager |
| Aux-in (`AuxInManager`), headphones (`HeadphoneConfig.c`) | 1-deep queue, codec routing; one-shot debounce timer, amplifier | interrupt, task, timer callback | codec, player, routing |
| MQTT client (`espmqtt`, `main/dd_mqtt.c`) | `state`, `run`, `STOPPED_BIT`, `pending_msg_*`, outbox, `wait_for_ping_resp`, ticks | start, stop, connect, receive, subscribe, publish, keepalive, reconnect | transports, broker, event handler, Wi-Fi notifications |
| Cloud service (`main/dd_cloud_service.c`, `dd_http.c`) | event queues, `mic_save_buffer`, `tts_text_state`, `tts_text_json`, `tts_text_nlp_txt` | `ddcloud_task` (record, post, parse), `ddhttp_task` (have the answer spoken) | recorder engine, HTTP client, keys |
| Alarm service (`AlarmService`) | linked list of alarms, poll timer, handles | add, delete, edit, get, register; poll and trigger | player, SNTP time |
| Bluetooth (`Bluetooth`) | `m_tsk_que`, `m_a2d_rec_cb`, `key_cb`, `tl`, `audio_state`, `raw_start`, `toneStopped` | one task for stack events, alarms, keys and player status | Bluetooth stack, phone, player, keys |
| OTA (`OtaService`, `duerapp_ota.c`) | partition handles, progress, flags | begin, write, end, reboot | flash, cloud |
| Requests (`esp_http_client`, `esp-request`), control points, DLNA, app, terminal, HTTP server, airkiss notification, LED, power, I2C, codec drivers | parser positions, sockets, registers | | |

`PROJECT.json` lists each of them with its sources and its status.

What is hard in this code, and hard to test:

- a task is deleted by another one wherever it is (`vTaskDelete` on a
  `WifiConfigTask`), with a mutex taken and a library session running;
- queues are filled without a wait and drop what does not fit: between the driver
  and the services that must know the link, the engine and the task that must
  know the session, the Bluetooth stack and its task, an interrupt and a detector;
- callbacks use pointers read before they take the lock, lists are walked while
  others free their entries, and flags are written after the command they belong
  to was sent;
- worker threads exit on an empty queue and are created only for an empty one;
- a task peeks at a queue of one, works, and only then receives: what comes in
  between is dropped;
- several alerts ring in turns, tones overlap, and the key, the cloud, the
  player and the timer can each end them;
- a late answer of one session is taken for the answer of the next one (event
  bits, a buffer that still holds a CONNACK, a tone, a text that is replaced);
- counters and polls decide when something stops or is missed for ever
  (`retry_wifi_times`, `retry_num`, `pending_msg_count`, the alarm's window of
  two seconds, transaction labels).

The hazards are listed in `PROJECT.json` at their lines, with the properties
that answer to them.

What makes each component correct:

- Wi-Fi manager: one configuration task and one library session at a time;
  sessions that end; services that know the link; retries that are bounded and
  made.
- Alerts: each alert freed once by whoever owns it; nothing dangling; the cloud
  told each thing once and in order (`AlertReports`); no queued alert forgotten; turns not lost.
- Service: one engine session at a time; the state follows the engine; the end
  of a voice is sent; a lost session is retried until the limit and no earlier.
- MQTT client: a stop that stops; acknowledgements that find their request; a
  dead connection that is noticed and replaced.
- Bluetooth: a lost phone is sought, and only a lost one; its music starts after
  the tone and ends with it; a pressed key is released.
- Alarms: links intact in both directions; each date triggered once.
- Detectors: the output follows the input whatever bounces, fails or comes late;
  no key that starts the player under the line input; recordings that end; keys that
  are served.
- Cloud: the recording that is posted is the one that was announced; each answer
  spoken once.

## 2. Modules

| module | content |
|---|---|
| `WifiManager`, `MCWifiManager`, `WifiManager_proofs` | the Wi-Fi manager; its instance for TLC; types, sessions, link state, retries |
| `AlertReports` | the alerts as the cloud sees them: which reports of an alert fit those before |
| `DuerAlert`, `MCDuerAlert`, `DuerAlert_proofs` | alerts and audio wrapper; instance with symmetry over alerts, cells and threads; types, the queue has its thread, nothing dangles, the turns; the alerts implement `AlertReports` |
| `DuerService`, `MCDuerService`, `DuerService_proofs` | the DuerOS service; instance; types, the engine is never started twice, the stop flag is honest, the task gives up late |
| `MqttClient`, `MCMqttClient`, `MqttClient_proofs` | the MQTT client, its broker and network; instance; types, stop is honest, what is awaited is under way |
| `Bluetooth`, `MCBluetooth`, `Bluetooth_proofs` | the Bluetooth service; instance in three slices; types, a lost phone and no other is sought, no key is left pressed, raw playback has its source and awaits the tone |
| `Alarm`, `MCAlarm`, `Alarm_proofs` | the alarm service; instance without edits, with edits, with edits of one alarm; types, the list is intact, each date has one trigger |
| `Mirror` | the abstract detector: an output that follows an input |
| `Detectors`, `MCDetectors`, `Detectors_proofs` | card, aux-in and headphone detectors with the key task; instance in three slices; each detector implements `Mirror`, the line input is quiet, a recording ends, the key task's wait is answered; types |
| `DdCloud`, `DdCloud_proofs` | the two tasks of the cloud dialogue; types, one response at a time, an answer has its event and is spoken once, posts are in step with recordings |

In each specification an action is one step of a task between two points where
another task can observe it: a call under a mutex that never blocks is one step,
and code without a lock is cut between two accesses to shared state. A
definition marked "mutated form" or "mutant" is a plausible slip of the one that
follows it; it is not part of any next-state relation. It exists so that one can
put it in the place of the real definition and see which property notices. A
variable marked "history" is not in the program: it remembers that something
happened which a property names as its exception.

### WifiManager

`wifiEvtHandlerCb` is `HandleStart`, `HandleConnected`, `HandleDisconnected` and
`HandleGotIp` on the head of the event task's queue `sysq`. Each sends at most
one state to `wifiq` (`xQueueWifi`), which `ProcessWifiEvent` (the notification
task) turns into what the services were `told`. `pc[t]` walks a `WifiConfigTask`
through `WifiConfigTask` and the `WifiSmartConnect` it calls: `start`, `delay`,
`lock`, then the section under `g_sc_mux` (`locked` ... `give`), `clear`,
`report`, `last`, `ending`. The touch task runs `WifiSmartConfig` as
`RequestSmartConfig` (the NULL test), `KillConfigTask`, `ForgetHandle`,
`CreateConfigTask`. `SmartConfigHandle` is not protected: the kill may use the
value of the test or load a newer one, and deleting a NULL handle deletes the
touch task. A mutex whose holder was deleted is held by `Deleted` for ever.
The driver (`Associate`, `ObtainIp`, `LoseLink`) and the phone
(`SmartconfigLink`, `SmartconfigLinkOver`) are free. `Connect` is `esp_wifi_connect`,
which may fail at each of its calls: the code only logs that, no event follows, and the
station stays idle (`failed`, the exception of `LostLinkIsRetried`).

Abstractions: SSIDs and passwords (which network is joined changes nothing in the
properties); `retry`
below zero is kept at -1 (an `int` is not back at 0 for 2^31 losses). The model
starts when `WifiConfigActive` has returned.

### DuerAlert

The data of an alert lives in a heap cell that is freed and allocated again, so
a stale pointer reaches whatever is there now; a pointer carries the token it was
taken for, and `stray` remembers that one was used after its alert was freed.
The directive task runs `CreateAlert` / `QueueAlert` and `DeleteAlert`; a thread
runs `PopAlert`, `RejectAlert` or `ArmTimer`, `StoreAlert`, `ReportStored`, or
`FailAlert` and `FreeAlert` (the report and the free of a refused alert, between which a
timer that runs already may call), and `ExitThread`; the timer task runs `TimerFires` (up to the
lock) and `RingAlert`; the wrapper's task runs `Receive`, `ClearSpeech`,
`CallBack` and the five `On...` handlers. `PlayOther` and `TypeOther` stand for
speech, music and tones, and `KeySilences` for the key.

The early returns of the set handler (no payload, no time, no type) are its third
outcome in `CreateAlert`: the directive is a bad request, of which nothing is reported
(`bad`, an exception of `SetIsAnswered`); no assets or no memory is a
`SET_ALERT_FAIL`.

Abstractions: a list node is the cell of its data; tokens are set once each, as
the cloud gives every alert its own (`lightduer_dcs_alert.h:44`); `is_active`,
loops and tones are kept, the text, the time stamp and the delay are not; the
player may or may not post STOP when it is interrupted, and its other statuses
(playing, paused) are ignored by the code; `duer_dcs_get_all_alert` only reads
and is left out, and so is the end of speech that a wake-up causes (it is one of
the things another player user may do). `loop_count` is a `uint8_t`:
`(loops - 1) % LoopWidth`.

`AlertReports` is what the reports amount to for the cloud, which keeps a state of
its own for each alert (`duer_dcs_report_alert_event`): a report fits when it is new,
when it is the only answer to the set directive, when a stop follows a start, and
when nothing but a start comes after a refusal. The start of a refused alert is what the
code can send: after a failed list push its timer runs (`duerapp_alert.c:550`, 563)
until it is freed (503), and nothing stops it in time. It says nothing of how many tasks report, nor
of the order of `SET_ALERT_SUCCESS` and `ALERT_START`, which the code does not keep.
`ReportedInOrder` is `Cloud!Spec` with `asked`, `said` and `twice` as they are and
`excused <- stray`: after a freed alert was used the cloud may be told anything.

### DuerService

`dueros_task` takes a command with `Receive` and answers with `Login`,
`RefuseLogin`, `Connected`, `StartVoice`, `StopVoice`, `QuitForSetting`,
`QuitAndRetry` or `QuitForGood`; `VoiceStarted`, `StreamEnds` and `VoiceStopped`
are the later parts of a START and a STOP. The senders are cut where the code
sends first and writes its flag afterwards: `GotIp`/`GotIpFlags`,
`LinkLost`/`LinkLostFlag`, `WifiKey`/`WifiKeyFlag`, `VadStart`/`ClearSentStop`,
`SendStop`/`RaiseSentStop`. `TimerFires`, `RetryLogin` and `StopTimer` are
`retry_login_timer_cb`, and `TimerCommand` is the FreeRTOS timer task, which
handles the queued starts and stops only between callbacks. `dropped`
remembers which commands found the queue full. `ended` counts the sessions that ended
since the engine last connected, where it connects and where it stops, whatever the
task is told of it; `missed` says that the CONNECTED of that connection was lost
(`DuerAppService.c:122`), after which the task counts the session as one that never
connected: the exception of `GivesUpLate`.

Abstractions: the three timer calls of a QUIT are one "start" (a stop of the
timer task between them has the outcome of one before or after it); the test and
the send of a STOP are one step (a command that `dueros_task` handles between
them makes the STOP one it ignores); the engine may fail at any time and may stop
only when it runs or tries to; voice data, tones, the SNTP and report task and
`mic_mute_flag` are left out. The model starts at the loop of `dueros_task`.

### MqttClient

`task` is where `esp_mqtt_task` stands: `entry` (created), `loop` (one pass by
`state`), `event` and `acked` (inside the application's handler, from the
connection or from a received packet), `keepalive` (the rest of a pass),
`closing`. A user task runs `Start`, `Stop` and `StopReturns`; the handler may
call `Subscribe`, `PublishAtMostOnce` and `PublishWithAck`. A packet is a type
and an id; `toBroker` and `wire` hold what is under way in each direction. One
read takes all packets that have come and processes the first. Ids are drawn at
random by the code, so two requests may share one. Ticks are counted in passes
(`since`), since each pass that waits takes the same time.

Abstractions: the bytes of packets, partial deliveries and the time stamps of the
outbox; expiry and clean-up purge some prefix of it. The network delivers in
order, is closed by the broker or falls silent for ever. The client is started
and stopped by one user task, and called otherwise only from its own handler, as
in `dd_mqtt.c`.

### Bluetooth

One message of `m_tsk_que` is one action of `BtAppT`, named for its event:
`OnConnected`, `OnDisconnected`, `OnAlarm`, `OnStarted`, `OnSuspended`, `OnStopped`, `OnAvrc`,
`OnKey`, `OnResponse`, `OnTimeout`; the player's status queue is
`player_status_updated`. `RecStarts` and `RecStops` are `a2d_rec_sm_handler`;
`a2d_rec_alarm_to` and `key_act_time_out` are the callbacks of the two timers. The
stack and the phone are free: connections come, are lost or are closed, attempts
fail, the phone plays, suspends its stream and stops, answers a key or does not. A
suspended stream takes neither branch of the handler: `audio_state` changes, raw
playback is not stopped (`BluetoothControlService.c:182-192`).

Abstractions: reconnection intervals (time), metadata and sound. A tone is a
count of tones to be played; its end is one entry of the status queue.

### Alarm

The user's calls are actions of their own; `Poll` starts
`PollTimerCallback`, and `VisitEntry` is the loop body for the entry it stands at. No
lock is held, so it is cut (`stage`) at each access to the entry: `Test` of the date;
for a single alarm `TriggerAbs` (the call) and `SetIdle` (`it->status = A_idle`); for a
periodic one `updatePerAlarm` (its new date) and `TriggerPer`. An edit may come between
any two of them, also from the called function. `seen` is the date that was found due.
`VisitFreed` is the body for an entry that was deleted under it: what is read there
is anything, so the loop follows the old link or ends. `LIST_INSERT_HEAD` and `LIST_REMOVE` are
`Insert` and `Remove` on `next` and `prev`. `Second` lets the clock advance and a
poll be late by at most `MaxLate`. `esp_get_alarm_info` gives the user a copy of
the entry, links included, which `esp_alarm_edit` writes back.

Abstractions: dates are seconds, and the calendar, the text and the argument of
an alarm are left out. `Per` is at least 2: a period of one second is missed at
its second date, and a negative one keeps `parseAlarm` in its loop
(`alarmparser.c:250`).

### Mirror and Detectors

`Mirror` says what a detector promises: each change of the input makes a look
due, the output changes only while one is due, and no look is due any more only
when output and input agree. `Detectors` has the three that promise it. The
card's task is `cardPc`: `SDCardManagerActive` is `CardActive` and `CardFirst`, the
task `CardBegin` ... `CardReceive`. The line-in task is `auxPc`, with the first
round run by `AuxInManagerActive` (`auxTask` is FALSE). The headphones are an
interrupt that restarts a timer (`SwapPhones`) and its callback (`hp_timer_cb`).
The key task (`TouchControlService.c`) is `touchPc`, cut at each call of the
player: `TakeNext`/`PlayNext`, `TakePlay`, `TakeRec`, `TakeQuit`/`QuitStops`/
`QuitPlays`. The user swaps cards, cables and headphones and presses keys at any
time; the player ends a recording at any time (`RawEnds`), with a status that the key
task waits for (STOP, FINISHED), or with one it does not accept (ERROR) or that finds
`syncQ` full. The player is started by the key task (`PlayNext`, `QuitPlays`; `early`
says whether the key it serves was taken before the keys were blocked), by the resume of
a Wi-Fi connection (`GotIp`), and by the cloud's directives and the tones
(`OthersPlay`, among them the music that a PLAY key asked the cloud for,
`TouchControlService.c:239`); `starter` remembers which of them started it after the
pause of the line-in round.

Abstractions: NEXT stands for the keys that start the player after a test of
`_blocking` (next, previous, the tone of the Wi-Fi key); a level is read in one step; several edges of one bouncing contact
are several swaps; what is played is not told apart. The scan of the play list
(`TfCardMounting`) is in a prebuilt library.

### DdCloud

`cloudPc` is the place of `ddcloud_task`: `idle`, `read` (block by block from the
recorder engine), `post`, `response` (`tts_text_start`, `tts_text_push`), `parse`
and `event` (`tts_text_finish` cut where it has said "finish", has parsed, and
sends). `httpPc` is the place of `ddhttp_task`, which tests the state when it takes
the event and reads the text when it encodes the request. Recordings and posts
are numbered, and the number stands for the sound, the response and the answer.
`mic` is `mic_save_buffer` by places of one block, `micSize` the size that is posted.
`Copy` advances the size before the copy, as the code does: each block lands one place
further, the first place stays blank, the last block is not posted, and the block that
fills the buffer is copied past its end (`overrun`).

Abstractions: what the block past the end overwrites; bytes and JSON; a text torn in the middle of a copy; the sound of
the answer.

## 3. Runs

| run | question | bounds |
|---|---|---|
| `wifi` | `OneSession`, `ServicesFollowLink`, types; `ConfigTaskEnds`, `LostLinkIsRetried` | 2 stacks, 2 key presses, 2 retries, queues of 1; 0.3 million states |
| `alert_safety` | `NothingDangles`, `TurnsAreKept`, `ReportedInOrder`, types | 2 alerts, 2 cells, 1 thread, 2 loops, 2 tones, speech as the other user, status queue of 1; 1.2 million states |
| `alert_live` | `SetIsAnswered` | 2 threads, without another user, 1 loop, no own tones; no symmetry |
| `service` | `NoSecondStart`, `StopFlagHonest`, `GivesUpLate`, types; `EndIsNoticed` | queue of 2, timer queue of 2, limit 4, 2 notifications or key presses; 0.7 million states |
| `mqtt_safety` | `AwaitedIsUnderWay`, `StopIsHonest`, types | 2 interchangeable ids, 2 calls, 1 packet of the broker's own, outbox of 2, keepalive of 1 pass; 2.9 million states |
| `mqtt_live` | `StopCompletes`, `LinkIsRenewed` | 1 id, 1 call, outbox of 1, keepalive of 2 passes; 0.2 million states |
| `bluetooth` | `SeekingGoesOn`, `NoStuckKey`, `LostIsSought`, `RawFollowsPhone`, types | queue of 3, status queue of 1, 4 labels, 1 tone at a time; 0.3 million states |
| `alarm` | `ListIntact`, `TriggeredOnce`, types | 2 alarms, 6 seconds (2 with edits of both), set up to 2 ahead, polls up to 1 late, period 2; 3.9 million states |
| `detectors` | `CardMirrored`, `LineMirrored`, `PhonesMirrored`, `LineInIsQuiet`, `RecordingEnds`, `WaitIsAnswered`, types | 2 cards, key queue of 2; 0.5 million states, nothing else bounded |
| `cloud` | `PostedInStep`, `AnswerAwaitsEvent`, `EachOnce`, `AnswerIsSpoken`, types | 4 recordings of up to 2 blocks, queues and buffer of 2, every recording posted; 0.6 million states |
| `wifi_busy`, `alert_return` | what a log line or a comment says and the code does not do (section 5) | |

Why the bounds are enough.

- Wi-Fi: two presses give a session, a task deleted in it, and the session after
  that; a third repeats the second, because the only traces a deleted task leaves
  are the mutex, the flag and the bits. Two retries distinguish "retries left",
  "the last one" and "used up". Queues of one are full most of the time, which is
  what liveness needs; all safety properties of the run are also proved for any
  lengths, stacks, presses and retries. The stacks are interchangeable,
  so that the first task is given the first of them.
- Alerts: two are needed for turns, for a cell that is allocated again while a
  pointer to its old alert is alive, and for a thread that finds the queue empty or
  not; a third alert in the turn only lengthens the cycle. Several threads meet in
  `alert_live`; that they keep the safety properties too, however many they are, is
  proved (section 6). An alert with tones of its own falls back on the alarm's tone
  when one fails, so that both kinds ring. Two loops and two tones reach every branch of the
  end of a tone; `LoopWidth` 4 stands for 256 with the wrap still visible.
- Service: `MaxRetryNum` 4 gives up at the third QUIT as 128 does at the eighth. A
  queue of two commands fills like one of five: what matters is that a CONNECTED and
  a QUIT fit, in either order and with a command of another sender in the place of
  one of them, and that the next is lost. The two safety properties that depend on
  the queue are proved for any length.
- MQTT: two requests can collide in their id (which of two ids is drawn makes
  no difference, so that they form a symmetry set), one can be overwritten by the other,
  and one can be purged while the other is outstanding. One packet of the broker's
  own suffices for one read to swallow another packet. The half keepalive of 60
  reads is only ever compared for "over".
- Bluetooth: the states of the link with the sound, and of the keys, meet only in
  the queue, which both fill; `MCBluetooth` explores a behaviour in one of three
  slices, so their numbers add up instead of multiplying: `link` (connections and
  sound), `keys` (AVRC and its labels), and `full` (a phone that connects, plays,
  suspends and stops while keys that nobody takes fill the queue, so that its
  messages are dropped). A queue
  of three holds an alarm between two events of the stack. Four labels are two key
  presses until a label comes back.
- Alarms: two are a list with a head and a neighbour to unlink; six seconds
  are an add, a window, a poll on either side of it, a second date of a periodic
  alarm and what follows. The copies of edits multiply the states: a
  behaviour has no edits, edits of both alarms for two seconds, or edits of a single alarm
  for all six, which is long enough for an edit under the poll and the date it loses
  (`MCAlarm`).
- Detectors: they share only the player, so that a behaviour exercises the card,
  the line input with the keys, or the phones (`MCDetectors`). Two cards tell the
  card that is mounted from the one in the slot. A key queue of two fills.
- Cloud: a third post is needed to overtake the second while the first is spoken,
  and a fourth recording for a queue of two to drop a wake-up while one is served.

`CHECK_DEADLOCK FALSE` stands where the system can come to rest: out of retries
with the touch task deleted, with every alert over, at the last second of the
clock, after the last recording. The other configurations check deadlock.

## 4. Fairness

Every task and every callback that was started runs when it can: weak fairness
on the event handler, the notification task, each configuration task, the
request in progress, each alert thread, the wrapper's task, the timer task,
`dueros_task`, and the second half of each notification and recorder callback.
They are FreeRTOS tasks of fixed priority that block only where the model has a
guard, on two cores, and no task among them spins. In `DuerService` the end of a
voice stream is part of the task's fairness: `rec_engine_data_read` returns 0 or
-1 when the recorder stops, and the engine's STOPPED hook stops it
(`rec_engine_trigger_stop`), and a timer that runs does fire.

In `MqttClient` the task is fair, reads and connects with a timeout, and the wait
for `STOPPED_BIT` ends when it is set. In `Bluetooth` the BtAppT task is fair
on both of its queues, the reconnection timer fires if it is not stopped, and a
tone that is played ends. In `Detectors` only `hp_timer_cb` is fair: the timer,
once no edge restarts it any more, fires (a contact that never stopped bouncing would
keep the callback from ever running). In `DdCloud` `ddhttp_task` is
fair: its HTTP request ends by an answer, an error or a timeout.

Nothing is assumed of the driver, the router, the phone, the user, the cloud, the
broker, the player (but for the end of its tones) and the recorder.

## 5. Findings

Each is a run that ends in a counterexample, with the line it contradicts in
`PROJECT.json`.

- `wifi_busy` (`WifiManager.c:363`): a session's task that is deleted leaves
  `g_in_smartconfig` set and `g_sc_mux` taken: no later press configures anything,
  and each is answered "Already in smartconfig, please wait".
- `alert_return` (`duerapp_alert.c:632`): when the thread cannot be created the
  handler returns with `s_queue_mutex` locked, and the next set directive never
  returns.

Other behaviours are reachable in the models and unlikely to be meant. No run is
spent on them: most contradict no document, and where a property has to exclude
them, it names them.

- Wi-Fi: the done bit of a session that timed out makes the next one succeed at
  once (`wifismartconfig.c:145`, 151). The pairing bit outlives its task and
  suppresses the reconnection of a later loss (`WifiManager.c:313`, 171). The first
  lost link replaces a stored network by the built-in one (`WifiManager.c:152`). A lost
  link for which `esp_wifi_connect` fails is never tried again (`WifiManager.c:155`).
- Alerts: a timer that fires before its alert is in the list marks it active and
  plays nothing (`duerapp_alert.c:550`). A key silences an alert without telling
  the alert code, and every later one stays silent (`DuerAppService.c:464`). An alert that was refused
  may still report its start before it is freed (`duerapp_alert.c:502`, 563).
- Service: without a profile the state becomes CONNECTING all the same and every
  later LOGIN is refused (`DuerAppService.c:373`, 375). `retry_login_timer_cb` stops
  its timer after the LOGIN was sent (`DuerAppService.c:181`): if that login has
  failed meanwhile on the other core, the stop cancels the reconnection just
  announced; the window is the time of one call. A CONNECTED that finds the queue full
  leaves the count of retries as it was, so that sessions that did connect use it up
  (`DuerAppService.c:122`).
- MQTT: a stop that comes before the task has reached its loop is undone
  (`mqtt_client.c:652`). A CONNACK read that times out may accept the one of the
  last session (`mqtt_client.c:224`). A publish of QoS 1 or 2 overwrites a pending
  subscription (`mqtt_client.c:853`).
- Bluetooth: a tone that is asked for during another one no longer holds back the
  phone's sound (`BluetoothControlService.c:172`). A key answer that never comes, or
  comes after AVRC has reconnected, leaves a key pressed (`key_control.c:93`). A phone that
  suspends its stream keeps the raw playback running (`BluetoothControlService.c:188`);
  one whose CONNECTED is dropped by the full queue plays without being heard, since no
  tone is played whose end would start the raw playback.
- Alarms: each add postpones the poll by up to two seconds, and an alarm due in
  them is never triggered (`AlarmService.c:153`); an edit from an old copy splices
  the list (`AlarmService.c:90`). An edit while the poll triggers the alarm is
  overwritten: the alarm is stopped (`AlarmService.c:74`) or its new date moved on
  (`alarm.c:85`).
- Detectors: an edge between the look and the receive is lost, and the card or
  cable is handled wrongly until the next edge (`SDCardManager.c:65`,
  `AuxInManager.c:57`). A card taken between the mount at start and the task's first
  look stays mounted (`SDCardManager.c:60`). After a failed `rawStart`, or a recording
  that ends with an error, the release of the record key waits for ever and with it every
  key (`TouchControlService.c:311`). The cloud's directives, tones and the resume of a
  Wi-Fi connection play under the line input.
- Cloud: a read that times out saves the previous block once more
  (`dd_cloud_service.c:155`, against `recorder_engine.h:184`); a debug file that does
  not open shifts every later recording by one (`dd_cloud_service.c:181`). The size is
  advanced before the copy (`dd_cloud_service.c:187`): what is posted starts with a
  silent block and lacks the last one, and a recording of ten seconds, 111 blocks of 2880
  bytes in 320000, is written past the end of its buffer.

## 6. Proofs

All for arbitrary constants that satisfy the named assumption of the module:
`WifiAssumption`, `AlertAssumption`, `ServiceAssumption`, `MqttAssumption`,
`BluetoothAssumption`, `AlarmAssumption`, `DetectorsAssumption`,
`DdCloudAssumption`. They say that lengths and bounds are natural numbers
(positive where the code has a positive constant) and that NULL values are distinct
from the rest (`NullAssumption`: `NULL` is no alert); `BluetoothAssumption` also that the number of labels is even, and
`AlarmAssumption` that the period is not 0 or 1.

- `WifiManager_proofs`: `TypeCorrect`; `SessionInvariant` (`Spec => []IInv`), and
  from it `OneSessionHolds`. That a second task does not enter a session depends on
  the mutex (`SessionUnderMux`: the holder is exactly the task inside, and the library
  runs only under it or under a mutex nobody can give back), and that a new task meets
  no old one depends on where the request is (`RequestInProgress`).
  `ServicesFollowLinkHolds` is inductive once the types are known: a link state that
  is sent becomes the last one of the queue, and another state changes nothing in
  that. `RetryBudgetHolds` (`retry < 0 => linked`) needs that, before a phone
  interferes, at most one loss is in the event queue and none with the retries used up
  (`BudgetInv`).
- `DuerAlert_proofs`: `QueueHasThreadHolds`. The invariant adds that a thread
  which is alive will look at the queue again before it exits. For the rest
  `AlertInvariant` has three parts. `OwnInv` gives each cell one place (free, the
  directive task, the queue, a thread, the list, leaked), as a function `own`, which
  each step changes at one cell: `NothingDanglesHolds` counts the owners from it.
  `RingListed` keeps the ringing alert in the list. `LoopInv` says of an alert that
  waits for its time that it is fresh, has one timer and then one call, so that the
  ringing one is active with loops left. `TurnsAreKeptHolds` needs that
  `duer_find_active_alert` finds an active alert if there is one (`ActiveIsFound`),
  `ReportedInOrderHolds` that the tokens in memory differ and what was said of each of
  them (`ReportInv`): no answer before it is stored or given up, `ALERT_START` exactly
  when it was activated, and a listed alert was not refused. A refused one that is
  still in memory was leaked or is about to be freed, and may start until then. It is the refinement of `AlertReports`: `StepTells` finds for
  each step the one report and the alerts it is of (`Says`), from which the abstract
  step follows; a step after which `stray` is set is `Lapse`. `ReportedOnceHolds` is
  what is left of it in a single state. `TypeCorrect` is the types, with the list as
  above.
- `DuerService_proofs`: `NoSecondStartHolds`. `duer_state` lags behind the
  engine, so the invariant speaks of the queue: QUIT is the last word of a session
  in it (`QuitIsLast`), an idle task has read it (`IdleMeansStopped`), and the
  task is not idle while it sends voice (`TalkingIsBusy`). It holds however many
  commands are lost: a lost QUIT keeps the task from ever starting the engine
  again, which is the price. `StopFlagHonestHolds`: while the flag is up
  and no STOP was lost (`FlagUp`), each START in the queue has a STOP behind it
  (`StartHasStop`), and what the task has begun has one waiting for it. `GivesUpLateHolds`:
  `retry_num` is at most what the sessions that ended since the engine last connected
  have made of it, once the task was told of that connection (`RetryInv`); a QUIT that is
  still queued is not yet counted (`Counted`). Where the count is capped the period is beyond every `retry_num` (`PeriodGrows`). What the recursive `PeriodAfter` computes is proved by
  the least number for which it would not (`LeastOfNats`): that a function with its
  equations exists (`DoublesExist`, `DoublesAgree`), hence that it has them (`PeriodIs`).
  `TypeCorrect` bounds both queues.
- `MqttClient_proofs`: `StopIsHonestHolds`, from `RunInv`: `STOPPED_BIT` is set only
  while no task runs, or before the next one has cleared it. `AwaitedIsUnderWayHolds`
  has two parts. `PingIsUnderWayHolds` follows the PINGREQ and its answer through the
  two directions of the connection. The rest is about multiplicity, because two
  requests may draw the same id: `Open(X)` is the number of packets, in both
  directions, that can still lead to an acknowledgement of a request in `X`, and
  `TrackInv` says that `Open` of all requests is at most `pending_msg_count`, and that a
  request that was not forgotten is kept (pending or in the outbox) as often as it
  is open. That each is kept once would not be inductive: an acknowledgement takes
  one entry, and another of that id may still come. `Quiet` (outside a connection
  nothing is under way) is what a session starts from. The lemmas before it say what
  appending, taking, removing and purging do to such a number (`CountAppend`,
  `CountDrop`, `CountRemove`, `CountPurge`). `TypeCorrect` is the types; each request was
  a call (`count <= calls`), and that `RemoveFirst` takes an entry that is there needs
  that a nonempty set of naturals has its minimum (`MinOfNats`, from the library's
  well-foundedness of the naturals).
- `Bluetooth_proofs`: `SeekingGoesOnHolds`, by following the alarm through the queue;
  the types of the queue and of what is posted to it come first.
  `RawAwaitsToneHolds` and `RawHasSourceHolds` are the safety parts of
  `RawFollowsPhone`: when the end of a tone is told no tone plays, but for tones that
  overlapped (`ToneInv`), and raw playback that runs or is due has its phone, which plays
  or has suspended its stream (`SourceInv`).
  `SoughtIffLostHolds` is the safety part of `LostIsSought`: what the service has seen
  and then what is queued are the words of the stack (`Words`), the last of which is true
  of the link (`Truthful`). `NoStuckKeyHolds`: a press without a release is the one the
  key machine waits for, or its answer is queued (`KeyInv`). `TypeCorrect` bounds the queue.
- `Alarm_proofs`: `ListIntactHolds`. Handles grow and entries are inserted at the
  head, so each link leads to a smaller handle, which makes the list free of
  cycles. `InsertLinks`, `RemoveLinks` and `EditLinks` are the three ways to change it.
  `OncePerDateHolds`: an alarm that runs has a date for which it was not triggered
  (`NotYet`), because a trigger stops it or moves it past this second, at the latest when
  the poll leaves the entry, and an edit in between makes the call one for a date that is
  no longer the alarm's (`FoundDue`); the two-second
  window and a period of two seconds or more are what this needs.
  `TriggeredOnceHolds` adds that none is missed: an alarm of this second has a poll due
  by the next, one of the last second has it due now, or the poll stands before the entry
  and will come to it (`OnTime`), because the list leaves out no entry between two
  (`Ordered`). `TypeCorrect`: dates stay within what a call or a trigger may reach.
- `Detectors_proofs`: `CardMirroredHolds` and `LineMirroredHolds` are refinements
  (initial states map to initial states, each step to a step of `Mirror` or a stutter),
  from `CardInv` and `AuxInv`, which say at each place of the task when the look it
  has done is still true. `PhonesMirroredSafely` is the same without an exception.
  `ToldIsMountedHolds`: between two rounds the playlist manager believes a card
  mounted exactly if one is. `WaitIsAnsweredHolds`: the key task that waits has its
  answer coming, unless there was nothing to stop or it ended in a status that is not
  an answer. `LineInIsQuietHolds`: the player is paused before the codec is switched, and
  the key that the task serves was taken before the keys were blocked (`QuietInv`, which
  rests on the test of `_blocking` at each key).
  `RecordingEndsHolds`: each press of the record key in the queue has its release
  behind it, the key is still held, or the release was lost (`PressHasRelease`), which
  posting at the tail and taking at the head preserve for any length of the queue.
  `TypeCorrect` is the types, detector by detector.
- `DdCloud_proofs`: `OneResponseHolds` and `AnswerAwaitsEventHolds`. From the parsing
  of an answer to the next post, state and text are those of that answer.
  `PostedInStepHolds`: the unread blocks bear the labels of the recordings whose
  WAKEUPs are still to come, in order (`Labelled`, `InStep`). `EachOnceHolds`: every
  text that was spoken, but the empty one, is an answer of its own (`AnswerFacts`), and
  between posts one event at most is under way that is not paid for by an overtaken
  answer (`Counted`). `TypeCorrect` bounds the queues and the size that is posted, and says
  which recordings are written past the buffer.

Every invariant that a run checks is proved here for all constants, and so are the
refinements of `AlertReports` and of `Mirror`, the latter without its fairness. Only model-checked: all liveness, the
liveness half of `PhonesMirrored` included (fairness and leads-to are beyond the
prover).

## 7. Not modelled, and the plan

Left out for good:

- Key drivers (`touchpad.c`, `button.c`, `AdcButton.c`): readings, thresholds and
  debounce counts that one timer task updates; no two actors meet. The keys they
  yield are environment here. (Their callbacks call `xTimerReset` with
  `portMAX_DELAY` from the timer task, which is the one to empty that queue.)
- OTA: the partition table (`partitions_esp_audio.csv`) has one application
  partition, so that an update ends in an assertion before it has begun.
- Drivers, codecs, LED and power: registers and numbers. HTTP parsing, text, JSON
  and control points: data without a state that outlives a call. Third-party
  libesphttpd; DLNA, app and terminal: interpreters above the player.
- The BLE and AirKiss variants of the configuration: not in this build, and a
  repetition of the SmartConfig session.
- Generated, binary and vendored code, tables of sound and DSP firmware. They are
  most of the lines of the repository (`array_music.c`, the `zl38063` and `im501`
  firmware, codec headers, the adapted HTTP client and server), so the share of
  lines that the models cover stays low although they hold the concurrent logic.

Of the components that are modelled, `PROJECT.json` names what is missing in
each. The abstractions listed above are the places where a model could be refined:
`WifiConfigActive` and the start of each service, volume and pause of the audio
wrapper, the switch between Wi-Fi and Bluetooth of the routing, two MQTT clients
with one id, and `Alarm` with the date of the calendar.

What remains: `WifiManager` composed with `DuerService`, for the login that follows
the link.
