----------------------------- MODULE DuerAlert -----------------------------
(***************************************************************************)
(* The alarms and timers set by voice (duerapp_alert.c) over the audio     *)
(* wrapper that plays their tones (duer_audio_wrapper.c), both in          *)
(* src/components/DuerAppService.                                          *)
(*                                                                         *)
(* Four kinds of tasks share the state below:                              *)
(*   - the directive task of the DCS library calls the set and delete      *)
(*     handlers, one at a time;                                            *)
(*   - a duer_alert_thread, of which there may be several, takes alerts    *)
(*     from s_alert_queue, asks the time and arms their timers;            *)
(*   - the timer task calls duer_alert_callback, one call at a time;       *)
(*   - duer_audio_wrapper_task receives the player's statuses and calls    *)
(*     alert_paly_status_callback.                                         *)
(* Others use the player too: speech and music directives, the tones of    *)
(* the recorder and of other services, and the keys that silence an alert. *)
(* The alert data lives in heap cells that are freed and allocated again,  *)
(* so that a pointer kept too long is seen to reach what is there now.     *)
(* A list node is identified with the cell of its data.  What runs under   *)
(* s_alert_mutex or s_queue_mutex never blocks: it is one step.            *)
(*                                                                         *)
(* The player, the timers and the DCS library are external.                *)
(***************************************************************************)
EXTENDS Integers, Sequences, FiniteSets, SequencesExt

CONSTANTS
    Alerts,      \* the tokens of the alerts that are set, each of them once
    Cells,       \* heap cells for duerapp_alert_data
    Threads,     \* stacks a duer_alert_thread can run on
    Null,        \* the NULL pointer, and the content of a free cell
    LoopCounts,  \* loop_count of a new alert
    ToneCounts,  \* tone_count of a new alert
    LoopWidth,   \* values of a loop_count (256 in the code, a uint8_t)
    OtherTypes,  \* what else is played: "SPEECH", "OTHER"; none if empty
    StatusLen    \* length of the wrapper's status queue (2 in the code)

ASSUME AlertAssumption ==
    /\ Null \notin Cells /\ Null \notin Threads /\ Null \notin Alerts
    /\ IsFiniteSet(Alerts) /\ IsFiniteSet(Cells) /\ IsFiniteSet(Threads)
    /\ LoopWidth \in Nat \ {0, 1}
    /\ LoopCounts \subseteq 1..(LoopWidth - 1)
    /\ ToneCounts \subseteq Nat
    /\ OtherTypes \subseteq {"SPEECH", "OTHER"}
    /\ StatusLen \in Nat \ {0}

VARIABLES
    heap,        \* what each cell holds
    alertQueue,  \* s_alert_queue
    queueLost,   \* s_queue_mutex was left locked
    alertList,   \* s_alert_list
    ringing,     \* s_ringing_alert_node
    thread,      \* where each duer_alert_thread is
    job,         \* its local "alert": a cell and the token it was set for
    dir,         \* where the directive task is
    dirCell,     \* the alert it has created and not queued yet
    other,       \* the type that a task playing something else is about to set
    call,        \* the duer_alert_callback in progress
    speechType,  \* speech_type
    playing,     \* what the player is playing
    statusq,     \* the player's statuses not received yet
    wrapper,     \* where duer_audio_wrapper_task is
    event,       \* the status, and then the type, it is handling
    asked,       \* history: the alerts set so far
    bad,         \* history: those whose directive was a bad request
    leaked,      \* history: cells nothing points to any more
    said,        \* history: what was reported of each alert
    twice,       \* history: the alerts of which something was reported twice
    stray        \* history: a pointer to a freed alert was used

heapVars == <<heap, leaked>>
listVars == <<alertList, ringing>>
queueVars == <<alertQueue, queueLost>>
threadVars == <<thread, job>>
dirVars == <<dir, dirCell, asked, bad>>
playVars == <<speechType, playing, statusq>>
playerVars == <<playVars, other>>
wrapperVars == <<wrapper, event>>
reportVars == <<said, twice>>
vars == <<heapVars, listVars, queueVars, threadVars, dirVars, call, playerVars,
          wrapperVars, reportVars, stray>>

Reports == {"SET_ALERT_SUCCESS", "SET_ALERT_FAIL", "ALERT_START", "ALERT_STOP"}
AlertTypes == {"ALERT_SPEECH", "ALERT_RINGING"}
AudioTypes == AlertTypes \cup {"SPEECH", "OTHER"}    \* OTHER: UNKOWN, MUSIC, TONE
Statuses == {"STOP", "FINISHED", "ERROR"}

AlertData == [token : Alerts, active : BOOLEAN, loops : 0..(LoopWidth - 1),
              tone : Nat, tones : Nat, timer : {"none", "started"}]
Pointer == [cell : Cells, token : Alerts]

ASSUME NullAssumption == Null \notin AlertData

HeapTypeOK ==
    /\ heap \in [Cells -> AlertData \cup {Null}]
    /\ leaked \subseteq Cells
    /\ alertQueue \in Seq(Cells)
    /\ queueLost \in BOOLEAN
    /\ alertList \in Seq(Cells)
    /\ ringing \in Cells \cup {Null}

TaskTypeOK ==
    /\ thread \in [Threads -> {"none", "pop", "check", "armed", "stored", "fail", "free"}]
    /\ job \in [Threads -> Pointer \cup {Null}]
    /\ dir \in {"idle", "queue"}
    /\ other \in OtherTypes \cup {"none"}
    /\ dirCell \in Cells \cup {Null}
    /\ call \in [at : Pointer, node : Cells \cup {Null}] \cup {Null}

AudioTypeOK ==
    /\ speechType \in AudioTypes
    /\ playing \in {"none", "alert", "other"}
    /\ statusq \in Seq(Statuses) /\ Len(statusq) <= StatusLen
    /\ wrapper \in {"receive", "clear", "call", "handle"}
    /\ event \in [status : Statuses, type : AudioTypes] \cup {Null}

HistoryTypeOK ==
    /\ asked \subseteq Alerts /\ bad \subseteq Alerts
    /\ said \in [Alerts -> SUBSET Reports]
    /\ twice \subseteq Alerts
    /\ stray \in BOOLEAN

TypeOK == HeapTypeOK /\ TaskTypeOK /\ AudioTypeOK /\ HistoryTypeOK

Init ==
    /\ heap = [s \in Cells |-> Null]
    /\ leaked = {}
    /\ alertQueue = <<>>
    /\ queueLost = FALSE
    /\ alertList = <<>>
    /\ ringing = Null
    /\ thread = [t \in Threads |-> "none"]
    /\ job = [t \in Threads |-> Null]
    /\ dir = "idle"
    /\ dirCell = Null
    /\ other = "none"
    /\ call = Null
    /\ speechType = "OTHER"
    /\ playing = "none"
    /\ statusq = <<>>
    /\ wrapper = "receive"
    /\ event = Null
    /\ asked = {}
    /\ bad = {}
    /\ said = [a \in Alerts |-> {}]
    /\ twice = {}
    /\ stray = FALSE

-----------------------------------------------------------------------------
(* Reports to the cloud, the alert list and the player.                    *)

\* duer_dcs_report_alert_event, for each <<token, report>> of a set.
Report(events) ==
    /\ said' = [a \in Alerts |-> said[a] \cup {e \in Reports : <<a, e>> \in events}]
    /\ twice' = twice \cup {a \in Alerts : \E e \in said[a] : <<a, e>> \in events}

Holds(s, token) == heap[s] # Null /\ heap[s].token = token

Active(h, s) == h[s] # Null /\ h[s].active

\* duer_find_active_alert: the next active alert after the node, else the first.
FirstActive(h, n) ==    \* mutated form: no second pass from the head of the list
    LET found == {i \in DOMAIN alertList : /\ Active(h, alertList[i])
                                           /\ \A j \in DOMAIN alertList : alertList[j] = n => i > j}
    IN  IF found = {} THEN Null ELSE alertList[CHOOSE i \in found : \A j \in found : i <= j]

FindActive(h, n) ==
    LET active == {i \in DOMAIN alertList : Active(h, alertList[i])}
        after == {i \in active : \E j \in DOMAIN alertList : alertList[j] = n /\ i > j}
        found == IF after # {} THEN after ELSE active
    IN  IF found = {} THEN Null ELSE alertList[CHOOSE i \in found : \A j \in found : i <= j]

\* duer_alert_list_remove
ListRemove(i) == alertList' = RemoveAt(alertList, i)

\* The player may report that what it was playing has been stopped.
Interrupted ==
    \/ UNCHANGED statusq
    \/ playing # "none" /\ Len(statusq) < StatusLen /\ statusq' = Append(statusq, "STOP")

\* duer_audio_wrapper_alert_play
AlertPlay(type) ==
    /\ Interrupted
    /\ playing' = "alert"
    /\ speechType' = type

\* The tone of an alert that starts or goes on ringing: its own, or the alarm's.
PlayTone(data) == AlertPlay(IF data.tones > 0 THEN "ALERT_SPEECH" ELSE "ALERT_RINGING")

PlayAlert(h, s) == IF s = Null THEN UNCHANGED playVars ELSE PlayTone(h[s])

\* duer_audio_wrapper_alert_stop
AlertStop ==
    IF speechType \in AlertTypes
    THEN Interrupted /\ playing' = "none" /\ speechType' = "OTHER"
    ELSE UNCHANGED playVars

-----------------------------------------------------------------------------
(* The directive task.                                                     *)

NewAlert(a, loops, tones) ==
    [token |-> a, active |-> FALSE, loops |-> loops, tone |-> 0, tones |-> tones,
     timer |-> "none"]

\* duer_dcs_tone_alert_set_handler up to the lock.  A directive without payload,
\* time or type is a bad request: nothing is reported of it.
CreateAlert(a) ==
    /\ dir = "idle"
    /\ a \notin asked
    /\ asked' = asked \cup {a}
    /\ \/ \E s \in Cells, loops \in LoopCounts, tones \in ToneCounts :
            /\ heap[s] = Null
            /\ heap' = [heap EXCEPT ![s] = NewAlert(a, loops, tones)]
            /\ dir' = "queue"
            /\ dirCell' = s
            /\ UNCHANGED <<bad, reportVars>>
       \/ /\ Report({<<a, "SET_ALERT_FAIL">>})       \* no assets, no memory
          /\ UNCHANGED <<bad, heap, dir, dirCell>>
       \/ /\ bad' = bad \cup {a}
          /\ UNCHANGED <<heap, dir, dirCell, reportVars>>
    /\ UNCHANGED <<leaked, listVars, queueVars, threadVars, call, playerVars, wrapperVars,
                   stray>>

QueueAlertLate ==    \* mutated form: "empty" is read after the push
    /\ dir = "queue" /\ ~queueLost
    /\ dir' = "idle" /\ dirCell' = Null
    /\ alertQueue' = Append(alertQueue, dirCell)
    /\ UNCHANGED <<queueLost, threadVars, heapVars, listVars, asked, bad, call, playerVars,
                   wrapperVars, reportVars, stray>>

\* The locked part: a node that cannot be allocated leaks the alert, and a
\* thread that cannot be created leaves the mutex locked.
QueueAlert ==
    /\ dir = "queue" /\ ~queueLost
    /\ dir' = "idle" /\ dirCell' = Null
    /\ \/ /\ alertQueue' = Append(alertQueue, dirCell)
          /\ IF alertQueue # <<>>
             THEN UNCHANGED <<thread, queueLost>>
             ELSE \/ /\ \E t \in Threads : /\ thread[t] = "none"
                                           /\ thread' = [thread EXCEPT ![t] = "pop"]
                     /\ UNCHANGED queueLost
                  \/ queueLost' = TRUE /\ UNCHANGED thread
          /\ UNCHANGED <<leaked, reportVars>>
       \/ /\ leaked' = leaked \cup {dirCell}
          /\ Report({<<heap[dirCell].token, "SET_ALERT_FAIL">>})
          /\ UNCHANGED <<queueVars, thread>>
    /\ UNCHANGED <<heap, listVars, job, asked, bad, call, playerVars, wrapperVars, stray>>

StopAlways(s) ==    \* mutated form: no test of is_active
    {<<heap[s].token, "ALERT_STOP">>}

\* What the cloud is told when an alert that may not have started is deleted.
StopReport(s) == IF heap[s].active THEN {<<heap[s].token, "ALERT_STOP">>} ELSE {}

DeleteRinging(a) ==    \* mutated form: s_ringing_alert_node is not cleared
    /\ dir = "idle"
    /\ \E i \in DOMAIN alertList :
         /\ Holds(alertList[i], a)
         /\ AlertStop
         /\ Report(StopReport(alertList[i]))
         /\ heap' = [heap EXCEPT ![alertList[i]] = Null]
         /\ ListRemove(i)
    /\ UNCHANGED <<leaked, ringing, queueVars, threadVars, dirVars, other, call, wrapperVars,
                   stray>>

\* duer_dcs_alert_delete_handler; a token that is not in the list changes nothing.
DeleteAlert(a) ==
    /\ dir = "idle"
    /\ \E i \in DOMAIN alertList :
         /\ Holds(alertList[i], a)
         /\ \A j \in 1..(i - 1) : ~Holds(alertList[j], a)
         /\ IF alertList[i] = ringing
            THEN ringing' = Null /\ AlertStop
            ELSE UNCHANGED <<ringing, playVars>>
         /\ Report(StopReport(alertList[i]))
         /\ heap' = [heap EXCEPT ![alertList[i]] = Null]
         /\ ListRemove(i)
    /\ UNCHANGED <<leaked, queueVars, threadVars, dirVars, other, call, wrapperVars, stray>>

-----------------------------------------------------------------------------
(* Other users of the player.                                              *)

OnlyPlayer == UNCHANGED <<heapVars, listVars, queueVars, threadVars, dirVars, call,
                          wrapperVars, reportVars, stray>>

\* duer_dcs_speak_handler and the music and tone handlers give the player
\* something else to play, and only then change speech_type; other services
\* call EspAudioTonePlay and do not change it.
PlayOther ==
    /\ OtherTypes # {}
    /\ other = "none"
    /\ other' \in OtherTypes \cup {"none"}
    /\ Interrupted
    /\ playing' = "other"
    /\ UNCHANGED speechType
    /\ OnlyPlayer

TypeOther ==
    /\ other # "none"
    /\ other' = "none"
    /\ speechType' = other
    /\ UNCHANGED <<playing, statusq>>
    /\ OnlyPlayer

\* DeviceEvtNotifiedToRecog: any key silences an alert that plays its own tone.
KeySilences ==
    /\ speechType = "ALERT_SPEECH"
    /\ AlertStop
    /\ UNCHANGED other
    /\ OnlyPlayer

-----------------------------------------------------------------------------
(* duer_alert_thread.                                                      *)

Go(t, from, to) ==
    /\ thread[t] = from
    /\ thread' = [thread EXCEPT ![t] = to]
    /\ UNCHANGED <<queueLost, ringing, dirVars, call, playerVars, wrapperVars, leaked>>

\* A read or a write through a pointer whose alert has been freed.
Use(pointer) == stray' = (stray \/ ~Holds(pointer.cell, pointer.token))

PopAlert(t) ==
    /\ ~queueLost
    /\ alertQueue # <<>>
    /\ Go(t, "pop", "check")
    /\ job' = [job EXCEPT ![t] = [cell |-> Head(alertQueue),
                                  token |-> heap[Head(alertQueue)].token]]
    /\ alertQueue' = Tail(alertQueue)
    /\ UNCHANGED <<heap, alertList, reportVars, stray>>

ExitThread(t) ==
    /\ ~queueLost
    /\ alertQueue = <<>>
    /\ Go(t, "pop", "none")
    /\ UNCHANGED <<alertQueue, job, heap, alertList, reportVars, stray>>

\* A bad time stamp, no answer from NTP, an expired alert or no timer.
RejectAlert(t) ==
    /\ Go(t, "check", "fail")
    /\ UNCHANGED <<alertQueue, job, heap, alertList, reportVars, stray>>

\* duer_timer_acquire and duer_timer_start: the timer runs from here on.
ArmTimer(t) ==
    /\ Go(t, "check", "armed")
    /\ heap' = [heap EXCEPT ![job[t].cell].timer = "started"]
    /\ UNCHANGED <<alertQueue, job, alertList, reportVars, stray>>

StoreAlert(t) ==
    /\ \/ Go(t, "armed", "stored") /\ alertList' = Append(alertList, job[t].cell)
       \/ Go(t, "armed", "fail") /\ UNCHANGED alertList      \* no memory for the node
    /\ UNCHANGED <<alertQueue, job, heap, reportVars, stray>>

\* SET_ALERT_SUCCESS, read through "alert" after the list has been unlocked.
ReportStored(t) ==
    /\ Go(t, "stored", "pop")
    /\ Use(job[t])
    /\ Report(IF heap[job[t].cell] = Null THEN {}
              ELSE {<<heap[job[t].cell].token, "SET_ALERT_SUCCESS">>})
    /\ job' = [job EXCEPT ![t] = Null]
    /\ UNCHANGED <<alertQueue, heap, alertList>>

\* The head of the loop after an error.  Nothing is locked: a timer that runs
\* already may call back between the report and the free, which ends it.
FailAlert(t) ==
    /\ Go(t, "fail", "free")
    /\ Report({<<heap[job[t].cell].token, "SET_ALERT_FAIL">>})
    /\ UNCHANGED <<alertQueue, job, heap, alertList, stray>>

FreeAlert(t) ==
    /\ Go(t, "free", "pop")
    /\ heap' = [heap EXCEPT ![job[t].cell] = Null]
    /\ job' = [job EXCEPT ![t] = Null]
    /\ UNCHANGED <<alertQueue, alertList, reportVars, stray>>

-----------------------------------------------------------------------------
(* duer_alert_callback, in the timer task.                                 *)

\* The head of the list is read before the mutex is taken.
TimerFires(s) ==
    /\ call = Null
    /\ heap[s] # Null
    /\ heap[s].timer = "started"
    /\ heap' = [heap EXCEPT ![s].timer = "none"]
    /\ call' = [at |-> [cell |-> s, token |-> heap[s].token],
                node |-> IF alertList = <<>> THEN Null ELSE Head(alertList)]
    /\ UNCHANGED <<leaked, listVars, queueVars, threadVars, dirVars, playerVars, wrapperVars,
                   reportVars, stray>>

\* Can the walk from node reach s?  Through a freed node it may or may not.
Reaches(node, s) ==
    LET at(n) == {i \in DOMAIN alertList : alertList[i] = n}
    IN  IF node = Null \/ at(s) = {} THEN {FALSE}
        ELSE IF at(node) = {} THEN BOOLEAN
        ELSE {\E i \in at(node), j \in at(s) : i <= j}

RingAlert ==
    /\ call # Null
    /\ call' = Null
    /\ Use(call.at)
    /\ LET s == call.at.cell
           activated == [heap EXCEPT ![s].active = TRUE]
       IN  IF heap[s] = Null
           THEN UNCHANGED <<heap, ringing, playVars, reportVars>>
           ELSE /\ heap' = activated
                /\ Report({<<heap[s].token, "ALERT_START">>})
                /\ \E reached \in Reaches(call.node, s) :
                     IF ringing = Null /\ reached
                     THEN ringing' = s /\ PlayAlert(activated, s)
                     ELSE UNCHANGED <<ringing, playVars>>
    /\ UNCHANGED <<leaked, alertList, queueVars, threadVars, dirVars, other, wrapperVars>>

-----------------------------------------------------------------------------
(* duer_audio_wrapper_task and alert_paly_status_callback.                 *)

\* External: the player stops, finishes or fails by itself.
PlayerEnds ==
    /\ playing # "none"
    /\ Len(statusq) < StatusLen
    /\ playing' = "none"
    /\ \E status \in Statuses : statusq' = Append(statusq, status)
    /\ UNCHANGED <<speechType, other>>
    /\ OnlyPlayer

Wrapper(from, to) ==
    /\ wrapper = from
    /\ wrapper' = to
    /\ UNCHANGED <<leaked, alertList, queueVars, threadVars, dirVars, other, call, stray>>

Receive ==
    /\ Wrapper("receive", IF speechType = "SPEECH" THEN "clear" ELSE "call")
    /\ statusq # <<>>
    /\ statusq' = Tail(statusq)
    /\ event' = [status |-> Head(statusq), type |-> "OTHER"]
    /\ UNCHANGED <<heap, ringing, speechType, playing, reportVars>>

\* speech_type is tested, then overwritten.
ClearSpeech ==
    /\ Wrapper("clear", "call")
    /\ speechType' = "OTHER"
    /\ UNCHANGED <<heap, ringing, playing, statusq, event, reportVars>>

\* The callback is passed the type of what plays now, and only handles alerts.
CallBack ==
    /\ Wrapper("call", IF speechType \in AlertTypes THEN "handle" ELSE "receive")
    /\ event' = IF speechType \in AlertTypes THEN [event EXCEPT !.type = speechType] ELSE Null
    /\ UNCHANGED <<heap, ringing, playVars, reportVars>>

Handle(status) ==
    /\ Wrapper("handle", "receive")
    /\ event.status = status
    /\ event' = Null

\* duer_audio_player_on_stop: every active alert of the list is stopped.
OnStop ==
    /\ Handle("STOP")
    /\ LET stopped == {s \in Cells : Active(heap, s) /\ \E i \in DOMAIN alertList : alertList[i] = s}
       IN  /\ heap' = [s \in Cells |->
                          IF s \in stopped THEN [heap[s] EXCEPT !.active = FALSE] ELSE heap[s]]
           /\ Report({<<heap[s].token, "ALERT_STOP">> : s \in stopped})
    /\ ringing' = Null
    /\ UNCHANGED playVars

\* The next tone of the ringing alert.
OnToneFinish ==
    /\ Handle("FINISHED")
    /\ ringing # Null
    /\ heap[ringing].tone + 1 < heap[ringing].tones
    /\ heap' = [heap EXCEPT ![ringing].tone = @ + 1]
    /\ AlertPlay("ALERT_SPEECH")
    /\ UNCHANGED <<ringing, reportVars>>

LoopDoneLate(data) ==    \* mutated form: an int, tested before it is decremented
    [data EXCEPT !.loops = @ - 1, !.tone = 0, !.active = @ /\ data.loops # 0]

\* Its last tone: one loop less, and the turn of the next active alert.
LoopDone(data) ==
    LET left == (data.loops - 1) % LoopWidth
    IN  [data EXCEPT !.loops = left, !.tone = 0, !.active = @ /\ left # 0]

OnLoopFinish ==
    /\ Handle("FINISHED")
    /\ ringing # Null => heap[ringing].tone + 1 >= heap[ringing].tones
    /\ LET after == IF ringing = Null THEN heap
                    ELSE [heap EXCEPT ![ringing] = LoopDone(@)]
       IN  /\ heap' = after
           /\ Report(IF ringing # Null /\ after[ringing].loops = 0
                     THEN {<<heap[ringing].token, "ALERT_STOP">>} ELSE {})
           /\ ringing' = FindActive(after, ringing)
           /\ PlayAlert(after, ringing')

\* duer_audio_player_on_error: the alarm's tone replaces a tone that cannot be
\* played; an alert whose alarm tone cannot be played is stopped.
OnToneError ==
    /\ Handle("ERROR")
    /\ event.type # "ALERT_RINGING"
    /\ AlertPlay("ALERT_RINGING")
    /\ UNCHANGED <<heap, ringing, reportVars>>

OnAlarmError ==
    /\ Handle("ERROR")
    /\ event.type = "ALERT_RINGING"
    /\ LET after == IF ringing = Null THEN heap
                    ELSE [heap EXCEPT ![ringing].active = FALSE]
       IN  /\ heap' = after
           /\ Report(IF ringing # Null THEN {<<heap[ringing].token, "ALERT_STOP">>} ELSE {})
           /\ ringing' = FindActive(after, ringing)
           /\ PlayAlert(after, ringing')

-----------------------------------------------------------------------------
Directive == \E a \in Alerts : CreateAlert(a) \/ DeleteAlert(a)

AlertThread(t) ==
    \/ PopAlert(t) \/ ExitThread(t) \/ RejectAlert(t) \/ ArmTimer(t)
    \/ StoreAlert(t) \/ ReportStored(t) \/ FailAlert(t) \/ FreeAlert(t)

WrapperTask ==
    \/ Receive \/ ClearSpeech \/ CallBack
    \/ OnStop \/ OnToneFinish \/ OnLoopFinish \/ OnToneError \/ OnAlarmError

Next ==
    \/ Directive \/ QueueAlert
    \/ PlayOther \/ TypeOther \/ KeySilences
    \/ \E t \in Threads : AlertThread(t)
    \/ \E s \in Cells : TimerFires(s)
    \/ RingAlert
    \/ PlayerEnds
    \/ WrapperTask

Spec == Init /\ [][Next]_vars

\* Tasks run when they can; the cloud, the timers' delays and the player are
\* free.
Fairness ==
    /\ WF_vars(QueueAlert)
    /\ WF_vars(TypeOther)
    /\ WF_vars(RingAlert)
    /\ WF_vars(WrapperTask)
    /\ \A t \in Threads : WF_vars(AlertThread(t))

FairSpec == Spec /\ Fairness

-----------------------------------------------------------------------------
(* Safety.                                                                 *)

Listed(s) == \E i \in DOMAIN alertList : alertList[i] = s
Queued(s) == \E i \in DOMAIN alertQueue : alertQueue[i] = s
Working(t) == thread[t] \in {"check", "armed", "fail", "free"}

\* s_ringing_alert_node never dangles: it is in s_alert_list, and the alert is
\* active with loops left, so that loop_count does not wrap and ALERT_STOP is
\* not reported of an alert that is not sounding.
RingingIsListed ==
    ringing # Null => /\ Listed(ringing)
                      /\ heap[ringing] # Null
                      /\ ~stray => heap[ringing].active /\ heap[ringing].loops > 0

\* Each alert in memory has exactly one owner, which will free it: the handler
\* that created it, the queue, one thread or the list; the only leak is the
\* node that could not be allocated.
Owners(s) ==
    {<<"dir", x>> : x \in {dirCell} \cap {s}}
    \cup {<<"leaked", x>> : x \in leaked \cap {s}}
    \cup {<<"queue", i>> : i \in {i \in DOMAIN alertQueue : alertQueue[i] = s}}
    \cup {<<"list", i>> : i \in {i \in DOMAIN alertList : alertList[i] = s}}
    \cup {<<"thread", t>> : t \in {t \in Threads : Working(t) /\ job[t].cell = s}}

OneOwner ==
    \A s \in Cells : Cardinality(Owners(s)) = IF heap[s] = Null THEN 0 ELSE 1

\* What is deleted while it rings, waits or is being set leaves nothing behind:
\* no pointer to it and no second owner.
NothingDangles == RingingIsListed /\ OneOwner

\* Unless an alert was freed under the feet of another task, the cloud is told
\* each thing once: set or not set and never both, started before stopped.
ReportedOnce ==
    ~stray => /\ twice = {}
              /\ \A a \in Alerts :
                   /\ ~({"SET_ALERT_SUCCESS", "SET_ALERT_FAIL"} \subseteq said[a])
                   /\ "ALERT_STOP" \in said[a] => "ALERT_START" \in said[a]

\* No alert is left in the queue without a thread that will take it, although
\* threads exit on an empty queue and are created only for an empty one.
QueueHasThread ==
    alertQueue # <<>> => queueLost \/ \E t \in Threads : thread[t] # "none"

\* The alerts take turns: the turn is given up only when no active alert is
\* left in the list, or when the ringing one is deleted.
TurnsAreKept ==
    [][ringing # Null /\ ringing' = Null
           => \/ \A i \in DOMAIN alertList' : ~Active(heap', alertList'[i])
              \/ \E a \in Alerts : DeleteAlert(a)]_vars

\* Whoever reports it (the directive handlers, the alert threads, the timer or
\* the player), each report of an alert fits what the cloud was told of it so
\* far: none comes twice, none but the first answers the directive, ALERT_STOP
\* comes after ALERT_START and nothing after SET_ALERT_FAIL but the start of an
\* alert whose timer was not stopped in time; unless an alert was freed under
\* the feet of another task.
Cloud == INSTANCE AlertReports WITH excused <- stray

ReportedInOrder == Cloud!Spec

-----------------------------------------------------------------------------
(* Liveness.                                                               *)

Answered(a) == said[a] \cap {"SET_ALERT_SUCCESS", "SET_ALERT_FAIL"} # {}

\* Whatever threads start and exit meanwhile, every alert that was set is
\* answered to the cloud, but for a bad request, unless a thread could not be
\* created or the alert was deleted before its answer.
SetIsAnswered ==
    \A a \in Alerts : a \in asked ~> Answered(a) \/ a \in bad \/ queueLost \/ stray

-----------------------------------------------------------------------------
(* What the source says and the code does not do.                          *)

\* duerapp_alert.c:619, before s_queue_mutex is taken: "create alert in
\* duer_alert_thread and return immediately".
SetReturns == dir = "queue" ~> dir # "queue"

=============================================================================
