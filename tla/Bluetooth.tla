------------------------------ MODULE Bluetooth ------------------------------
(***************************************************************************)
(* The Bluetooth service (src/components/Bluetooth): the BtAppT task, its  *)
(* queue of messages, the reconnection and the key state machines, and the *)
(* start of raw playback after the tone of a connection.                   *)
(*                                                                         *)
(* Everything the stack, the timers and the keys report is posted to one   *)
(* queue and dropped when it is full; the task handles one message or one  *)
(* player status at a time.  The stack, the phone and the player are       *)
(* external.                                                               *)
(***************************************************************************)
EXTENDS Integers, Sequences

CONSTANTS
    QueueLen,   \* BT_APP_TASK_QUE_LEN
    StatusLen,  \* length of player_status_que
    Labels,     \* AVRC transaction labels, 16 in the code
    MaxTones    \* bound: tones asked for while one is still playing

ASSUME BluetoothAssumption ==
    /\ {QueueLen, StatusLen, MaxTones} \subseteq Nat \ {0}
    /\ Labels \in Nat \ {0} /\ Labels % 2 = 0

VARIABLES
    queue,      \* m_tsk_que
    dropped,    \* history: a message found the queue full
    link,       \* stack: whether a phone is connected (A2DP)
    lastEnd,    \* stack: how the last connection ended
    seeking,    \* stack: esp_a2d_sink_connect is under way
    blind,      \* history: it was called for a phone that had come and gone meanwhile
    rec,        \* m_a2d_rec_cb.state
    timer,      \* m_a2d_rec_cb.tmr
    audio,      \* audio_state
    toneStopped,
    rawStart,   \* raw_start
    rawOn,      \* player: raw playback is started
    tones,      \* player: tones to be played, the current one included
    statuses,   \* player_status_que: ends of tones
    overlapped, \* history: a tone was asked for before the last was over
    leftOver,   \* history: raw_start was set when the phone stopped
    avrcUp,     \* stack: the AVRC connection
    avrc,       \* avrc_connected
    nextTl,     \* tl
    key,        \* key_cb: state and tl
    command,    \* stack: the passthrough command to be answered
    held,       \* phone: a key is pressed
    lateKey     \* history: an answer did not come, or the key machine was reset before it

linkVars == <<link, lastEnd, seeking, blind>>
recVars == <<rec, timer>>
soundVars == <<audio, toneStopped, rawStart, rawOn, tones, statuses, overlapped, leftOver>>
keyVars == <<avrcUp, avrc, nextTl, key, command, held, lateKey>>
vars == <<queue, dropped, linkVars, recVars, soundVars, keyVars>>

Plain == {"CONNECTED", "LOST", "CLOSED", "STARTED", "SUSPENDED", "STOPPED",
          "AVRC_UP", "AVRC_DOWN", "KEY", "TO", "ALARM"}
Commands == [tl : 0..Labels - 1, press : BOOLEAN]
NoCommand == [tl |-> Labels, press |-> FALSE]
Msg(evt) == [evt |-> evt, cmd |-> NoCommand]
Msgs == [evt : Plain \cup {"RSP"}, cmd : Commands \cup {NoCommand}]

TypeOK ==
    /\ queue \in Seq(Msgs) /\ Len(queue) <= QueueLen
    /\ link \in {"down", "up"} /\ lastEnd \in {"none", "lost", "closed"}
    /\ rec \in {"IDLE", "OPEN"} /\ timer \in {"off", "armed"}
    /\ audio \in {"STARTED", "SUSPENDED", "STOPPED"}
    /\ tones \in 0..MaxTones /\ statuses \in 0..StatusLen
    /\ {dropped, seeking, blind, toneStopped, rawStart, rawOn, overlapped, leftOver, avrcUp,
        avrc, held, lateKey} \subseteq BOOLEAN
    /\ nextTl \in 0..Labels - 1
    /\ key \in [state : {"IDLE", "PRESS", "RELEASE"}, tl : 0..Labels - 1]
    /\ command \in Commands \cup {NoCommand}

\* BT_APP_EVT_STACK_ON has been handled.
Init ==
    /\ queue = <<>> /\ dropped = FALSE
    /\ link = "down" /\ lastEnd = "none" /\ seeking = FALSE /\ blind = FALSE
    /\ rec = "IDLE" /\ timer = "off"
    /\ audio = "STOPPED" /\ toneStopped = FALSE /\ rawStart = FALSE /\ rawOn = FALSE
    /\ tones = 0 /\ statuses = 0 /\ overlapped = FALSE /\ leftOver = FALSE
    /\ avrcUp = FALSE /\ avrc = FALSE /\ nextTl = 0
    /\ key = [state |-> "IDLE", tl |-> 0]
    /\ command = NoCommand /\ held = FALSE /\ lateKey = FALSE

-----------------------------------------------------------------------------
(* Posting.                                                                *)

PostAlways(m) == queue' = Append(queue, m) /\ UNCHANGED dropped    \* mutated form

\* xQueueSend gives up after 10 ms.
Post(m) ==
    IF Len(queue) < QueueLen
    THEN queue' = Append(queue, m) /\ UNCHANGED dropped
    ELSE dropped' = TRUE /\ UNCHANGED queue

PhoneConnects ==
    /\ link = "down"
    /\ link' = "up" /\ seeking' = FALSE
    /\ Post(Msg("CONNECTED"))
    /\ UNCHANGED <<lastEnd, blind, recVars, soundVars, keyVars>>

ConnectionEnds(how) ==
    /\ link = "up"
    /\ link' = "down" /\ lastEnd' = how
    /\ Post(Msg(IF how = "lost" THEN "LOST" ELSE "CLOSED"))
    /\ UNCHANGED <<seeking, blind, recVars, soundVars, keyVars>>

\* An attempt that fails is reported as a disconnection, for either reason.
AttemptFails(evt) ==
    /\ seeking /\ link = "down"
    /\ seeking' = FALSE
    /\ Post(Msg(evt))
    /\ UNCHANGED <<link, lastEnd, blind, recVars, soundVars, keyVars>>

PhonePlays(evt) ==
    /\ link = "up"
    /\ Post(Msg(evt))
    /\ UNCHANGED <<linkVars, recVars, soundVars, keyVars>>

AvrcChanges ==
    /\ avrcUp \/ link = "up"
    /\ avrcUp' = ~avrcUp
    /\ Post(Msg(IF avrcUp THEN "AVRC_DOWN" ELSE "AVRC_UP"))
    /\ command' = NoCommand /\ held' = FALSE
    /\ UNCHANGED <<linkVars, recVars, soundVars, avrc, nextTl, key, lateKey>>

\* deviceEvtNotifiedToBt, avrcpTransfer: NEXT, PREV and PLAY alike.
Key ==
    /\ Post(Msg("KEY"))
    /\ UNCHANGED <<linkVars, recVars, soundVars, keyVars>>

PhoneAnswers ==
    /\ command # NoCommand
    /\ command' = NoCommand /\ held' = command.press
    /\ Post([evt |-> "RSP", cmd |-> command])
    /\ UNCHANGED <<linkVars, recVars, soundVars, avrcUp, avrc, nextTl, key, lateKey>>

PhoneIgnores ==
    /\ command # NoCommand
    /\ command' = NoCommand /\ lateKey' = TRUE
    /\ UNCHANGED <<queue, dropped, linkVars, recVars, soundVars, avrcUp, avrc, nextTl, key, held>>

\* The period is portMAX_DELAY, 2^32 - 1 ticks.
key_act_time_out ==
    /\ key.state # "IDLE"
    /\ Post(Msg("TO")) /\ lateKey' = TRUE
    /\ UNCHANGED <<linkVars, recVars, soundVars, avrcUp, avrc, nextTl, key, command, held>>

a2d_rec_alarm_to ==
    /\ timer = "armed"
    /\ timer' = "off"
    /\ Post(Msg("ALARM"))
    /\ UNCHANGED <<linkVars, rec, soundVars, keyVars>>

-----------------------------------------------------------------------------
(* The BtAppT task.                                                        *)

Queued(evts) == \E i \in 1..Len(queue) : queue[i].evt \in evts

Receive(evt) ==
    /\ queue # <<>> /\ Head(queue).evt = evt
    /\ queue' = Tail(queue)
    /\ UNCHANGED dropped

\* TERMINATION_TYPE_DONE: after what is being played.
PlayTone ==
    /\ toneStopped' = FALSE
    /\ tones' = IF tones < MaxTones THEN tones + 1 ELSE tones
    /\ overlapped' = (tones > 0 \/ statuses > 0)

RecStopsAlone ==    \* mutated form: no xTimerStop
    IF rec = "OPEN" THEN rec' = "IDLE" /\ UNCHANGED timer ELSE UNCHANGED recVars

\* a2d_rec_sm_handler.
RecStops ==
    IF rec = "OPEN" THEN rec' = "IDLE" /\ timer' = "off"
    ELSE UNCHANGED recVars

RecStartsAlone ==    \* mutated form: no xTimerStart
    IF rec = "IDLE" THEN rec' = "OPEN" /\ UNCHANGED timer ELSE UNCHANGED recVars

RecStarts ==
    IF rec = "IDLE" THEN rec' = "OPEN" /\ timer' = "armed"
    ELSE UNCHANGED recVars

OnConnected ==
    /\ Receive("CONNECTED")
    /\ RecStops /\ PlayTone
    /\ UNCHANGED <<linkVars, audio, rawStart, rawOn, statuses, leftOver, keyVars>>

OnDisconnected(evt) ==
    /\ Receive(evt)
    /\ IF evt = "LOST" THEN RecStarts ELSE UNCHANGED recVars
    /\ PlayTone
    /\ UNCHANGED <<linkVars, audio, rawStart, rawOn, statuses, leftOver, keyVars>>

\* esp_a2d_sink_connect does nothing for a phone that is connected.
Connect ==
    /\ seeking' = (seeking \/ link = "down")
    /\ blind' = (blind \/ (link = "down" /\ Queued({"CONNECTED"})))

\* The interval, which grows with rec_cnt, is time and left out.
OnAlarm ==
    /\ Receive("ALARM")
    /\ IF rec = "OPEN"
       THEN Connect /\ timer' = "armed"
       ELSE UNCHANGED <<seeking, blind, timer>>
    /\ UNCHANGED <<link, lastEnd, rec, soundVars, keyVars>>

OnStarted ==
    /\ Receive("STARTED")
    /\ audio' = "STARTED" /\ leftOver' = FALSE
    /\ IF toneStopped THEN rawOn' = TRUE /\ UNCHANGED rawStart
                      ELSE rawStart' = TRUE /\ UNCHANGED rawOn
    /\ UNCHANGED <<linkVars, recVars, toneStopped, tones, statuses, overlapped, keyVars>>

OnStopped ==
    /\ Receive("STOPPED")
    /\ audio' = "STOPPED" /\ leftOver' = rawStart /\ rawOn' = FALSE
    /\ UNCHANGED <<linkVars, recVars, toneStopped, rawStart, tones, statuses, overlapped, keyVars>>

\* A phone that suspends its stream: the raw playback is not told of it.
OnSuspended ==
    /\ Receive("SUSPENDED")
    /\ audio' = "SUSPENDED"
    /\ UNCHANGED <<linkVars, recVars, toneStopped, rawStart, rawOn, tones, statuses, overlapped,
                   leftOver, keyVars>>

OnAvrc ==
    /\ \/ Receive("AVRC_UP") /\ avrc' = TRUE
       \/ Receive("AVRC_DOWN") /\ avrc' = FALSE
    /\ key' = [state |-> "IDLE", tl |-> 0]
    /\ lateKey' = (lateKey \/ (avrcUp /\ key.state # "IDLE"))
    /\ UNCHANGED <<linkVars, recVars, soundVars, avrcUp, nextTl, command, held>>

\* The stack sends nothing over a connection that is gone.
Send(cmd) == command' = IF avrcUp THEN cmd ELSE NoCommand

\* A key that comes while another is handled is lost, and so is its label.
OnKey ==
    /\ Receive("KEY")
    /\ IF ~avrc THEN UNCHANGED <<nextTl, key, command>>
       ELSE /\ nextTl' = (nextTl + 2) % Labels
            /\ IF key.state = "IDLE"
               THEN /\ key' = [state |-> "PRESS", tl |-> nextTl]
                    /\ Send([tl |-> nextTl, press |-> TRUE])
               ELSE UNCHANGED <<key, command>>
    /\ UNCHANGED <<linkVars, recVars, soundVars, avrcUp, avrc, held, lateKey>>

AnswersNext(cmd, press) ==    \* mutated form: the label is incremented too early
    avrc /\ cmd = [tl |-> (key.tl + 1) % Labels, press |-> press]

Answers(cmd, press) == avrc /\ cmd = [tl |-> key.tl, press |-> press]

OnResponse ==
    /\ Receive("RSP")
    /\ LET cmd == Head(queue).cmd
           release == [tl |-> (key.tl + 1) % Labels, press |-> FALSE]
       IN \/ /\ key.state = "PRESS" /\ Answers(cmd, TRUE)
             /\ key' = [state |-> "RELEASE", tl |-> release.tl] /\ Send(release)
          \/ /\ key.state = "RELEASE" /\ Answers(cmd, FALSE)
             /\ key' = [key EXCEPT !.state = "IDLE"] /\ UNCHANGED command
          \/ /\ key.state = "IDLE" \/ ~Answers(cmd, key.state = "PRESS")
             /\ UNCHANGED <<key, command>>
    /\ UNCHANGED <<linkVars, recVars, soundVars, avrcUp, avrc, nextTl, held, lateKey>>

OnTimeout ==
    /\ Receive("TO")
    /\ key' = IF avrc THEN [state |-> "IDLE", tl |-> 0] ELSE key
    /\ UNCHANGED <<linkVars, recVars, soundVars, avrcUp, avrc, nextTl, command, held, lateKey>>

\* The player has played a tone; its status may find the queue full.
ToneEnds ==
    /\ tones > 0
    /\ tones' = tones - 1
    /\ statuses' = IF statuses < StatusLen THEN statuses + 1 ELSE statuses
    /\ UNCHANGED <<queue, dropped, linkVars, recVars, audio, toneStopped, rawStart, rawOn,
                   overlapped, leftOver, keyVars>>

UpdatedKeepingFlag ==    \* mutated form: raw_start is not looked at
    /\ statuses > 0
    /\ statuses' = statuses - 1 /\ toneStopped' = TRUE
    /\ UNCHANGED <<queue, dropped, linkVars, recVars, audio, rawStart, rawOn, tones, overlapped,
                   leftOver, keyVars>>

player_status_updated ==
    /\ statuses > 0
    /\ statuses' = statuses - 1 /\ toneStopped' = TRUE
    /\ rawOn' = (rawOn \/ rawStart) /\ rawStart' = FALSE
    /\ UNCHANGED <<queue, dropped, linkVars, recVars, audio, tones, overlapped, leftOver, keyVars>>

-----------------------------------------------------------------------------

Phone ==
    \/ PhoneConnects
    \/ \E how \in {"lost", "closed"} : ConnectionEnds(how)
    \/ \E evt \in {"LOST", "CLOSED"} : AttemptFails(evt)
    \/ \E evt \in {"STARTED", "SUSPENDED", "STOPPED"} : PhonePlays(evt)
Remote == AvrcChanges \/ Key \/ PhoneAnswers \/ PhoneIgnores \/ key_act_time_out

Link == OnConnected \/ (\E evt \in {"LOST", "CLOSED"} : OnDisconnected(evt)) \/ OnAlarm
Sound == OnStarted \/ OnSuspended \/ OnStopped
Control == OnAvrc \/ OnKey \/ OnResponse \/ OnTimeout
BtAppT == Link \/ Sound \/ Control

Next ==
    Phone \/ Remote \/ a2d_rec_alarm_to \/ BtAppT \/ player_status_updated \/ ToneEnds

\* BtAppT waits on both of its queues, the timer task and the player go on.
Spec ==
    /\ Init /\ [][Next]_vars
    /\ WF_vars(BtAppT) /\ WF_vars(player_status_updated)
    /\ WF_vars(a2d_rec_alarm_to) /\ WF_vars(ToneEnds)

-----------------------------------------------------------------------------
(* Properties.                                                             *)

\* While the service seeks its phone (a2d_rec_sm OPEN) the timer runs or its
\* alarm is on its way, unless that alarm found the queue full; otherwise the
\* timer does not run.
SeekingGoesOn ==
    IF rec = "OPEN" THEN timer = "armed" \/ Queued({"ALARM"}) \/ dropped
    ELSE timer = "off"

\* Once the task has seen all that the stack reported, it seeks its phone just
\* when that was lost, and leaves one alone that closed the connection, unless
\* it had called it while that connection came and went in its queue.
SoughtIffLost ==
    ~Queued({"CONNECTED", "LOST", "CLOSED"}) /\ ~dropped /\ ~blind =>
        (rec = "OPEN" <=> link = "down" /\ lastEnd = "lost")

\* "wait till the tone finished": raw playback starts under a tone only if that
\* tone was asked for before an earlier one was over.
RawAwaitsTone == [][~rawOn /\ rawOn' => tones = 0 \/ overlapped]_vars

\* Raw playback runs only for a phone that has started and not stopped, unless
\* raw_start was left over from a start and stop during one tone.  A phone that
\* suspends its stream keeps it: only STOPPED calls rawStop (line 188).
RawHasSource == rawOn => audio \in {"STARTED", "SUSPENDED"} \/ leftOver

\* A phone whose key is pressed gets the release: it has been sent, or the
\* answer to the press is queued, unless an answer or a message was lost.
NoStuckKey ==
    held /\ avrcUp => command # NoCommand \/ Queued({"RSP"}) \/ dropped \/ lateKey

\* The service tries again to reach a phone that it lost.
PhoneIsSought == rec = "OPEN" ~> seeking \/ rec = "IDLE" \/ link = "up" \/ dropped

\* A phone that plays during the tone is heard after it, or has stopped; unless
\* a message was dropped: without its CONNECTED no tone is played, whose end
\* would start the raw playback.
MusicFollowsTone == rawStart ~> rawOn \/ audio = "STOPPED" \/ dropped

\* Raw playback, then, waits for the tone, is not forgotten under it, and ends
\* when the phone stops.
RawFollowsPhone == []RawHasSource /\ RawAwaitsTone /\ MusicFollowsTone

\* A phone that was lost, and no other, is sought until it is found or closed.
LostIsSought == []SoughtIffLost /\ PhoneIsSought
=============================================================================
