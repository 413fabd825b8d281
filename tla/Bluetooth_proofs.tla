--------------------------- MODULE Bluetooth_proofs ---------------------------
(* Proofs about Bluetooth: the search for a lost phone never rests while no  *)
(* message is dropped, the service believes the last true word about its     *)
(* phone, no key is left pressed, and raw playback has its source.  The      *)
(* arguments follow the messages through the queue, so that the types of the *)
(* queue and of what is posted to it come first.                             *)
EXTENDS Bluetooth, TLAPS

KeyTypes == [state : {"IDLE", "PRESS", "RELEASE"}, tl : 0..Labels - 1]

\* The part of TypeOK that the queue depends on.
QueueType ==
    /\ queue \in Seq(Msgs)
    /\ command \in Commands \cup {NoCommand}
    /\ key \in KeyTypes
    /\ nextTl \in 0..Labels - 1

LEMMA MsgType == ASSUME NEW evt \in Plain
                 PROVE  Msg(evt) \in Msgs /\ Msg(evt).evt = evt
BY DEF Msg, Msgs

\* A label stays a label when the next one is taken.
LEMMA LabelType == ASSUME NEW tl \in 0..Labels - 1, NEW k \in {1, 2}
                   PROVE  (tl + k) % Labels \in 0..Labels - 1
BY BluetoothAssumption

\* What is sent has labels, and so have the key machine and its next key.
LEMMA ControlType ==
    ASSUME QueueType, Control
    PROVE  command' \in Commands \cup {NoCommand} /\ key' \in KeyTypes /\ nextTl' \in 0..Labels - 1
<1>0. 0 \in 0..Labels - 1 /\ key.tl \in 0..Labels - 1
  BY BluetoothAssumption DEF QueueType, KeyTypes
<1>1. CASE OnAvrc
  BY <1>0, <1>1 DEF OnAvrc, QueueType, KeyTypes
<1>2. CASE OnKey
  <2>1. /\ (nextTl + 2) % Labels \in 0..Labels - 1
        /\ [tl |-> nextTl, press |-> TRUE] \in Commands
        /\ [state |-> "PRESS", tl |-> nextTl] \in KeyTypes
    BY LabelType DEF QueueType, Commands, KeyTypes
  <2> QED BY <1>2, <2>1 DEF OnKey, Send, QueueType
<1>3. CASE OnResponse
  <2>1. (key.tl + 1) % Labels \in 0..Labels - 1
    BY <1>0, LabelType
  <2>2. /\ [tl |-> (key.tl + 1) % Labels, press |-> FALSE] \in Commands
        /\ [state |-> "RELEASE", tl |-> (key.tl + 1) % Labels] \in KeyTypes
        /\ [key EXCEPT !.state = "IDLE"] \in KeyTypes
    BY <2>1 DEF Commands, KeyTypes, QueueType
  <2>3. nextTl' = nextTl
    BY <1>3 DEF OnResponse
  <2>4. key' \in KeyTypes
    BY <1>3, <2>2 DEF OnResponse, QueueType
  <2>5. command' \in Commands \cup {NoCommand}
    BY <1>3, <2>2 DEF OnResponse, Send, QueueType
  <2> QED BY <2>3, <2>4, <2>5 DEF QueueType
<1>4. CASE OnTimeout
  BY <1>0, <1>4 DEF OnTimeout, QueueType, KeyTypes
<1> QED BY <1>1, <1>2, <1>3, <1>4 DEF Control

\* Every step posts one message, takes one, or leaves the queue alone.
LEMMA QueueSteps ==
    ASSUME QueueType, [Next]_vars
    PROVE  \/ \E m \in Msgs : Post(m)
           \/ \E evt \in Plain \cup {"RSP"} : Receive(evt)
           \/ UNCHANGED queue
<1>1. CASE Phone
  BY <1>1, MsgType DEF Phone, PhoneConnects, ConnectionEnds, AttemptFails, PhonePlays, Plain
<1>2. CASE AvrcChanges \/ Key \/ key_act_time_out \/ a2d_rec_alarm_to
  BY <1>2, MsgType DEF AvrcChanges, Key, key_act_time_out, a2d_rec_alarm_to, Plain
<1>3. CASE PhoneAnswers
  BY <1>3 DEF PhoneAnswers, QueueType, Msgs
<1>4. CASE BtAppT
  BY <1>4 DEF BtAppT, Link, OnConnected, OnDisconnected, OnAlarm, Sound, OnStarted, OnSuspended, OnStopped,
              Control, OnAvrc, OnKey, OnResponse, OnTimeout, Plain
<1>5. CASE PhoneIgnores \/ player_status_updated \/ ToneEnds \/ UNCHANGED vars
  BY <1>5 DEF PhoneIgnores, player_status_updated, ToneEnds, vars
<1> QED BY <1>1, <1>2, <1>3, <1>4, <1>5 DEF Next, Remote

LEMMA NextQueueType == QueueType /\ [Next]_vars => QueueType'
<1> SUFFICES ASSUME QueueType, [Next]_vars PROVE QueueType'
  OBVIOUS
<1>1. queue' \in Seq(Msgs)
  <2>1. ASSUME NEW m \in Msgs, Post(m) PROVE queue' \in Seq(Msgs)
    BY <2>1 DEF Post, QueueType
  <2>2. ASSUME NEW evt, Receive(evt) PROVE queue' \in Seq(Msgs)
    BY <2>2 DEF Receive, QueueType
  <2> QED BY QueueSteps, <2>1, <2>2 DEF QueueType
<1>2. command' \in Commands \cup {NoCommand} /\ key' \in KeyTypes /\ nextTl' \in 0..Labels - 1
  <2>1. CASE Control
    BY <2>1, ControlType
  <2>2. CASE Remote
    BY <2>2 DEF Remote, AvrcChanges, Key, PhoneAnswers, PhoneIgnores, key_act_time_out, keyVars,
                QueueType
  <2>3. CASE Phone \/ a2d_rec_alarm_to
    BY <2>3 DEF Phone, PhoneConnects, ConnectionEnds, AttemptFails, PhonePlays, a2d_rec_alarm_to,
                keyVars, QueueType
  <2>4. CASE Link \/ Sound \/ player_status_updated \/ ToneEnds \/ UNCHANGED vars
    BY <2>4 DEF Link, OnConnected, OnDisconnected, OnAlarm, Sound, OnStarted, OnSuspended, OnStopped,
                player_status_updated, ToneEnds, vars, keyVars, QueueType
  <2> QED BY <2>1, <2>2, <2>3, <2>4 DEF Next, BtAppT
<1> QED BY <1>1, <1>2 DEF QueueType

-----------------------------------------------------------------------------
(* SeekingGoesOn.                                                          *)

\* An alarm that is queued stays queued when a message is posted, and an alarm
\* that is posted is queued or dropped.
LEMMA PostAlarm ==
    ASSUME QueueType, NEW m \in Msgs, Post(m)
    PROVE  /\ Queued({"ALARM"}) => Queued({"ALARM"})'
           /\ dropped => dropped'
           /\ m.evt = "ALARM" => Queued({"ALARM"})' \/ dropped'
<1>1. CASE Len(queue) < QueueLen
  <2>1. queue' = Append(queue, m) /\ Len(queue') = Len(queue) + 1 /\ queue \in Seq(Msgs)
    BY <1>1 DEF Post, QueueType
  <2>2. \A i \in 1..Len(queue) : i \in 1..Len(queue') /\ queue'[i] = queue[i]
    BY <2>1
  <2>3. Len(queue) + 1 \in 1..Len(queue') /\ queue'[Len(queue) + 1] = m
    BY <2>1
  <2>4. Queued({"ALARM"}) => Queued({"ALARM"})'
    BY <2>2 DEF Queued
  <2>5. m.evt = "ALARM" => Queued({"ALARM"})'
    BY <2>3 DEF Queued
  <2> QED BY <1>1, <2>4, <2>5 DEF Post
<1>2. CASE ~(Len(queue) < QueueLen)
  BY <1>2 DEF Post, Queued
<1> QED BY <1>1, <1>2

\* Handling another message leaves the alarm in the queue.
LEMMA ReceiveAlarm ==
    ASSUME QueueType, NEW evt, evt # "ALARM", Receive(evt), Queued({"ALARM"})
    PROVE  Queued({"ALARM"})'
<1>1. PICK i \in 1..Len(queue) : queue[i].evt = "ALARM"
  BY DEF Queued
<1>2. queue \in Seq(Msgs) /\ queue # <<>> /\ Head(queue) = queue[1] /\ Len(queue) >= 1
  BY DEF QueueType, Receive
<1>3. i # 1
  BY <1>1, <1>2 DEF Receive
<1>4. i - 1 \in 1..Len(queue') /\ queue'[i - 1] = queue[i]
  BY <1>2, <1>3 DEF Receive
<1> QED BY <1>1, <1>4 DEF Queued

LEMMA NextSeeking == QueueType /\ SeekingGoesOn /\ [Next]_vars => SeekingGoesOn'
<1> SUFFICES ASSUME QueueType, SeekingGoesOn, [Next]_vars PROVE SeekingGoesOn'
  OBVIOUS
<1>1. ASSUME UNCHANGED recVars, Queued({"ALARM"}) => Queued({"ALARM"})', dropped => dropped'
      PROVE  SeekingGoesOn'
  BY <1>1 DEF SeekingGoesOn, recVars
<1>2. CASE Phone \/ AvrcChanges \/ Key \/ key_act_time_out
  <2>1. UNCHANGED recVars /\ \E evt \in Plain : Post(Msg(evt))
    BY <1>2 DEF Phone, PhoneConnects, ConnectionEnds, AttemptFails, PhonePlays, AvrcChanges, Key,
                key_act_time_out, Plain
  <2> QED BY <1>1, <2>1, PostAlarm, MsgType
<1>3. CASE PhoneAnswers
  <2>1. UNCHANGED recVars /\ \E m \in Msgs : Post(m)
    BY <1>3 DEF PhoneAnswers, Msgs, QueueType
  <2> QED BY <1>1, <2>1, PostAlarm
<1>4. CASE a2d_rec_alarm_to
  <2>1. Msg("ALARM") \in Msgs /\ Msg("ALARM").evt = "ALARM"
    BY MsgType DEF Plain
  <2>2. Queued({"ALARM"})' \/ dropped'
    BY <1>4, <2>1, PostAlarm DEF a2d_rec_alarm_to
  <2> QED BY <1>4, <2>2 DEF a2d_rec_alarm_to, SeekingGoesOn
<1>5. CASE OnConnected
  <2>1. Queued({"ALARM"}) => Queued({"ALARM"})'
    BY <1>5, ReceiveAlarm DEF OnConnected
  <2> QED BY <1>5, <2>1 DEF OnConnected, Receive, RecStops, recVars, SeekingGoesOn
<1>6. ASSUME NEW evt \in {"LOST", "CLOSED"}, OnDisconnected(evt) PROVE SeekingGoesOn'
  <2>1. Queued({"ALARM"}) => Queued({"ALARM"})'
    BY <1>6, ReceiveAlarm DEF OnDisconnected
  <2> QED BY <1>6, <2>1 DEF OnDisconnected, Receive, RecStarts, recVars, SeekingGoesOn
<1>7. CASE OnAlarm
  BY <1>7 DEF OnAlarm, SeekingGoesOn
<1>8. CASE Sound \/ Control
  <2>1. UNCHANGED recVars /\ UNCHANGED dropped
    BY <1>8 DEF Sound, OnStarted, OnSuspended, OnStopped, Control, OnAvrc, OnKey, OnResponse, OnTimeout, Receive
  <2>2. \E evt : evt # "ALARM" /\ Receive(evt)
    BY <1>8 DEF Sound, OnStarted, OnSuspended, OnStopped, Control, OnAvrc, OnKey, OnResponse, OnTimeout
  <2> QED BY <1>1, <2>1, <2>2, ReceiveAlarm
<1>9. CASE PhoneIgnores \/ player_status_updated \/ ToneEnds \/ UNCHANGED vars
  <2>1. UNCHANGED <<recVars, queue, dropped>>
    BY <1>9 DEF PhoneIgnores, player_status_updated, ToneEnds, vars
  <2> QED BY <1>1, <2>1 DEF Queued
<1> QED BY <1>2, <1>3, <1>4, <1>5, <1>6, <1>7, <1>8, <1>9 DEF Next, Remote, BtAppT, Link

\* While the service seeks its phone the timer runs or its alarm is queued,
\* unless a message was dropped; otherwise the timer is stopped.  For every
\* length of the queue and whatever the phone, the keys and the player do.
THEOREM SeekingGoesOnHolds == Spec => []SeekingGoesOn
<1>1. Init => QueueType /\ SeekingGoesOn
  <2>1. 0 \in 0..Labels - 1 /\ <<>> \in Seq(Msgs)
    BY BluetoothAssumption
  <2> QED BY <2>1 DEF Init, QueueType, KeyTypes, SeekingGoesOn
<1> QED BY <1>1, NextQueueType, NextSeeking, PTL DEF Spec

-----------------------------------------------------------------------------
(* Raw playback and the tone.                                              *)

\* The end of a tone tells that no tone is playing, unless one was asked for
\* before an earlier one was over; and of two tones the second was.
ToneInv ==
    /\ tones \in Nat /\ statuses \in Nat
    /\ toneStopped \in BOOLEAN /\ overlapped \in BOOLEAN
    /\ toneStopped = TRUE \/ statuses > 0 => tones = 0 \/ overlapped = TRUE
    /\ tones > 1 => overlapped = TRUE

\* Raw playback has a source when it runs or is to follow the tone.
SourceInv ==
    /\ rawOn \in BOOLEAN /\ rawStart \in BOOLEAN /\ leftOver \in BOOLEAN
    /\ rawOn = TRUE \/ rawStart = TRUE => audio \in {"STARTED", "SUSPENDED"} \/ leftOver = TRUE

\* Nobody else touches the sound.
LEMMA Silent ==
    ASSUME [Next]_vars,
           ~(OnConnected \/ (\E evt \in {"LOST", "CLOSED"} : OnDisconnected(evt)) \/ Sound
                \/ ToneEnds \/ player_status_updated)
    PROVE  UNCHANGED soundVars
BY DEF Next, Phone, PhoneConnects, ConnectionEnds, AttemptFails, PhonePlays, Remote, AvrcChanges, Key,
       PhoneAnswers, PhoneIgnores, key_act_time_out, a2d_rec_alarm_to, BtAppT, Link, OnAlarm,
       Control, OnAvrc, OnKey, OnResponse, OnTimeout, vars

LEMMA NextTone == ToneInv /\ [Next]_vars => ToneInv'
<1> SUFFICES ASSUME ToneInv, [Next]_vars PROVE ToneInv'
  OBVIOUS
<1> USE DEF ToneInv
<1>1. CASE OnConnected \/ \E evt \in {"LOST", "CLOSED"} : OnDisconnected(evt)
  <2>1. PlayTone /\ statuses' = statuses
    BY <1>1 DEF OnConnected, OnDisconnected
  <2>2. (tones' = tones \/ tones' = tones + 1) /\ toneStopped' = FALSE
    BY <2>1 DEF PlayTone
  <2>5. tones' \in Nat /\ statuses' \in Nat /\ toneStopped' \in BOOLEAN
    <3>1. tones' \in Nat
      <4>1. tones \in Nat /\ tones + 1 \in Nat
        OBVIOUS
      <4> QED BY <2>2, <4>1, Zenon
    <3>2. statuses' \in Nat
      BY <2>1, Zenon
    <3>3. toneStopped' \in BOOLEAN
      BY <2>2, Zenon
    <3> QED BY <3>1, <3>2, <3>3
  <2>3. CASE tones > 0 \/ statuses > 0
    <3>1. overlapped' = TRUE
      <4>1. overlapped' = (tones > 0 \/ statuses > 0)
        BY <2>1 DEF PlayTone
      <4> QED BY <2>3, <4>1, Zenon
    <3> QED BY <2>5, <3>1
  <2>4. CASE ~(tones > 0 \/ statuses > 0)
    <3>1. tones = 0 /\ statuses = 0
      BY <2>4
    <3>2. overlapped' = FALSE
      <4>1. overlapped' = (tones > 0 \/ statuses > 0)
        BY <2>1 DEF PlayTone
      <4> QED BY <2>4, <4>1, Zenon
    <3>3. toneStopped' = FALSE /\ ~(statuses' > 0) /\ ~(tones' > 1)
      BY <2>1, <2>2, <3>1
    <3> QED BY <2>5, <3>2, <3>3
  <2> QED BY <2>3, <2>4
<1>2. CASE Sound
  BY <1>2 DEF Sound, OnStarted, OnSuspended, OnStopped
<1>3. CASE ToneEnds
  <2>1. tones > 0 /\ tones' = tones - 1 /\ UNCHANGED <<toneStopped, overlapped>> /\ statuses' \in Nat
    BY <1>3 DEF ToneEnds
  <2> QED BY <2>1
<1>4. CASE player_status_updated
  BY <1>4 DEF player_status_updated
<1>5. CASE UNCHANGED soundVars
  BY <1>5 DEF soundVars
<1> QED BY <1>1, <1>2, <1>3, <1>4, <1>5, Silent

LEMMA NextSource == SourceInv /\ [Next]_vars => SourceInv'
<1> SUFFICES ASSUME SourceInv, [Next]_vars PROVE SourceInv'
  OBVIOUS
<1> USE DEF SourceInv
<1>1. CASE OnConnected \/ (\E evt \in {"LOST", "CLOSED"} : OnDisconnected(evt)) \/ ToneEnds
  BY <1>1 DEF OnConnected, OnDisconnected, ToneEnds
<1>2. CASE Sound
  BY <1>2 DEF Sound, OnStarted, OnSuspended, OnStopped
<1>3. CASE player_status_updated
  <2>1. /\ rawStart' = FALSE /\ UNCHANGED <<audio, leftOver>>
        /\ rawOn' = (rawOn \/ rawStart)
    BY <1>3 DEF player_status_updated
  <2>2. CASE rawOn = TRUE \/ rawStart = TRUE
    BY <2>1, <2>2
  <2>3. CASE rawOn = FALSE /\ rawStart = FALSE
    BY <2>1, <2>3
  <2> QED BY <2>2, <2>3
<1>4. CASE UNCHANGED soundVars
  BY <1>4 DEF soundVars
<1> QED BY <1>1, <1>2, <1>3, <1>4, Silent

\* Raw playback starts under a tone only if that tone was asked for before an
\* earlier one was over, for any number of tones and any length of
\* player_status_que ("wait till the tone finished", the safety of
\* RawFollowsPhone).
THEOREM RawAwaitsToneHolds == Spec => RawAwaitsTone
<1>1. Init => ToneInv
  <2>1. 0 \in Nat /\ ~(0 > 0) /\ ~(0 > 1)
    OBVIOUS
  <2> QED BY <2>1 DEF Init, ToneInv
<1>2. ToneInv /\ [Next]_vars => [~rawOn /\ rawOn' => tones = 0 \/ overlapped]_vars
  <2> SUFFICES ASSUME ToneInv, [Next]_vars, ~rawOn, rawOn' PROVE tones = 0 \/ overlapped
    OBVIOUS
  <2>1. CASE OnStarted
    BY <2>1 DEF OnStarted, ToneInv
  <2>2. CASE player_status_updated
    BY <2>2 DEF player_status_updated, ToneInv
  <2>3. CASE OnSuspended \/ OnStopped \/ OnConnected \/ (\E evt \in {"LOST", "CLOSED"} : OnDisconnected(evt)) \/ ToneEnds
    BY <2>3 DEF OnSuspended, OnStopped, OnConnected, OnDisconnected, ToneEnds
  <2>4. CASE UNCHANGED soundVars
    BY <2>4 DEF soundVars
  <2> QED BY <2>1, <2>2, <2>3, <2>4, Silent DEF Sound
<1> QED BY <1>1, <1>2, NextTone, PTL DEF Spec, RawAwaitsTone

\* Raw playback runs only for a phone that has started and not stopped, unless
\* raw_start was left over from a start and stop during one tone, for any number
\* of tones and any queue (BluetoothControlService.c:182-193).
THEOREM RawHasSourceHolds == Spec => []RawHasSource
<1>1. Init => SourceInv
  BY DEF Init, SourceInv
<1>2. SourceInv => RawHasSource
  BY DEF SourceInv, RawHasSource
<1> QED BY <1>1, <1>2, NextSource, PTL DEF Spec

-----------------------------------------------------------------------------
(* The queue, entry by entry, while no message is dropped.                  *)

LEMMA Posted ==
    ASSUME QueueType, NEW m \in Msgs, Post(m), ~dropped'
    PROVE  /\ Len(queue) \in Nat /\ Len(queue') = Len(queue) + 1 /\ ~dropped
           /\ \A i \in 1..Len(queue) : queue'[i] = queue[i]
           /\ queue'[Len(queue) + 1] = m
<1>1. queue' = Append(queue, m) /\ ~dropped /\ queue \in Seq(Msgs)
  BY DEF Post, QueueType
<1> QED BY <1>1

LEMMA Received ==
    ASSUME QueueType, NEW evt, Receive(evt)
    PROVE  /\ Len(queue) \in Nat /\ Len(queue) >= 1 /\ Len(queue') = Len(queue) - 1
           /\ \A i \in 1..Len(queue') : queue'[i] = queue[i + 1]
           /\ queue[1] = Head(queue) /\ queue[1].evt = evt
           /\ dropped' = dropped
<1>1. queue' = Tail(queue) /\ queue # <<>> /\ queue \in Seq(Msgs) /\ Head(queue).evt = evt /\ dropped' = dropped
  BY DEF Receive, QueueType
<1> QED BY <1>1

-----------------------------------------------------------------------------
(* SoughtIffLost.  What the service has seen, and then what is queued, tells *)
(* in order how the phone was found and lost; the last word is true.         *)

LostForGood == link = "down" /\ lastEnd = "lost"
Words == [i \in 0..Len(queue) |->
             IF i = 0 THEN (IF rec = "OPEN" THEN "LOST" ELSE "CONNECTED") ELSE queue[i].evt]
NoneAfter(words, i, other) == \A j \in DOMAIN words : j > i => words[j] # other

Truthful(words, lost) ==
    /\ \A i \in DOMAIN words : words[i] = "LOST" /\ NoneAfter(words, i, "CONNECTED") => lost
    /\ \A i \in DOMAIN words : words[i] = "CONNECTED" /\ NoneAfter(words, i, "LOST") => ~lost

LinkInv ==
    /\ rec \in {"IDLE", "OPEN"}
    /\ ~dropped /\ ~blind => Truthful(Words, LostForGood) /\ (seeking => LostForGood)

LEMMA TruthGrows ==
    ASSUME NEW n \in Nat, NEW w, DOMAIN w = 0..n, NEW v, DOMAIN v = 0..n + 1, \A i \in 0..n : v[i] = w[i],
           NEW lost, NEW now, Truthful(w, lost),
           \/ v[n + 1] = "CONNECTED" /\ ~now
           \/ v[n + 1] = "LOST" /\ now
           \/ v[n + 1] \notin {"CONNECTED", "LOST"} /\ (now <=> lost)
    PROVE  Truthful(v, now)
<1>1. n + 1 \in DOMAIN v /\ \A i \in DOMAIN v : i = n + 1 \/ (i \in DOMAIN w /\ i \in DOMAIN v /\ n + 1 > i /\ v[i] = w[i])
  OBVIOUS
<1>2. \A i \in DOMAIN w : i \in DOMAIN v /\ v[i] = w[i]
  OBVIOUS
<1>3. ASSUME NEW other, NEW i, NoneAfter(v, i, other) PROVE NoneAfter(w, i, other)
  BY <1>2, <1>3 DEF NoneAfter
<1>4. ASSUME NEW other, NEW i \in DOMAIN w, NoneAfter(v, i, other) PROVE v[n + 1] # other
  BY <1>1, <1>4 DEF NoneAfter
<1>5. ASSUME NEW i \in DOMAIN v, v[i] = "LOST", NoneAfter(v, i, "CONNECTED") PROVE now
  <2>1. CASE i = n + 1
    BY <1>5, <2>1
  <2>2. CASE i # n + 1
    <3>1. i \in DOMAIN w /\ w[i] = "LOST" /\ v[n + 1] # "CONNECTED" /\ NoneAfter(w, i, "CONNECTED")
      BY <1>1, <1>3, <1>4, <1>5, <2>2
    <3> QED BY <3>1 DEF Truthful
  <2> QED BY <2>1, <2>2
<1>6. ASSUME NEW i \in DOMAIN v, v[i] = "CONNECTED", NoneAfter(v, i, "LOST") PROVE ~now
  <2>1. CASE i = n + 1
    BY <1>6, <2>1
  <2>2. CASE i # n + 1
    <3>1. i \in DOMAIN w /\ w[i] = "CONNECTED" /\ v[n + 1] # "LOST" /\ NoneAfter(w, i, "LOST")
      BY <1>1, <1>3, <1>4, <1>6, <2>2
    <3> QED BY <3>1 DEF Truthful
  <2> QED BY <2>1, <2>2
<1> QED BY <1>5, <1>6 DEF Truthful

LEMMA TruthShrinks ==
    ASSUME NEW n \in Nat, n >= 1, NEW w, DOMAIN w = 0..n, NEW v, DOMAIN v = 0..n - 1,
           \A i \in 1..n - 1 : v[i] = w[i + 1],
           v[0] = IF w[1] \in {"CONNECTED", "LOST"} THEN w[1] ELSE w[0],
           NEW lost, Truthful(w, lost)
    PROVE  Truthful(v, lost)
<1>1. \A j \in DOMAIN w : j > 1 => j - 1 \in DOMAIN v /\ v[j - 1] = w[j] /\ \A i \in 0..n : j > i + 1 => j - 1 > i
  <2> SUFFICES ASSUME NEW j \in DOMAIN w, j > 1
               PROVE  j - 1 \in DOMAIN v /\ v[j - 1] = w[j] /\ \A i \in 0..n : j > i + 1 => j - 1 > i
    OBVIOUS
  <2>1. j - 1 \in 1..n - 1 /\ j - 1 + 1 = j /\ \A i \in 0..n : j > i + 1 => j - 1 > i
    OBVIOUS
  <2> QED BY <2>1
<1>2. ASSUME NEW other, NEW i \in DOMAIN v, NoneAfter(v, i, other) PROVE NoneAfter(w, i + 1, other)
  <2> SUFFICES ASSUME NEW j \in DOMAIN w, j > i + 1 PROVE w[j] # other
    BY DEF NoneAfter
  <2>1. j > 1
    OBVIOUS
  <2>2. j - 1 \in DOMAIN v /\ v[j - 1] = w[j] /\ j - 1 > i
    BY <1>1, <2>1
  <2> QED BY <1>2, <2>2 DEF NoneAfter
<1>3. ASSUME NEW other, NoneAfter(v, 0, other), w[1] # other PROVE NoneAfter(w, 0, other)
  <2> SUFFICES ASSUME NEW j \in DOMAIN w, j > 0 PROVE w[j] # other
    BY DEF NoneAfter
  <2>1. CASE j = 1
    BY <1>3, <2>1
  <2>2. CASE j # 1
    <3>1. NoneAfter(w, 0 + 1, other) /\ j > 0 + 1
      BY <1>2, <1>3, <2>2
    <3> QED BY <3>1 DEF NoneAfter
  <2> QED BY <2>1, <2>2
<1>4. ASSUME NEW evt \in {"CONNECTED", "LOST"}, NEW other \in {"CONNECTED", "LOST"}, evt # other,
             NEW i \in DOMAIN v, v[i] = evt, NoneAfter(v, i, other)
      PROVE  \E k \in DOMAIN w : w[k] = evt /\ NoneAfter(w, k, other)
  <2>1. i + 1 \in DOMAIN w /\ NoneAfter(w, i + 1, other) /\ 0 \in DOMAIN w
    BY <1>2, <1>4
  <2>2. CASE i # 0
    <3>1. w[i + 1] = evt
      BY <1>4, <2>2
    <3> QED BY <2>1, <3>1
  <2>3. CASE i = 0 /\ w[1] \in {"CONNECTED", "LOST"}
    <3>1. i + 1 = 1 /\ w[1] = evt
      BY <1>4, <2>3
    <3> QED BY <2>1, <3>1
  <2>4. CASE i = 0 /\ w[1] \notin {"CONNECTED", "LOST"}
    <3>1. w[0] = evt /\ NoneAfter(w, 0, other)
      BY <1>3, <1>4, <2>4
    <3> QED BY <2>1, <3>1
  <2> QED BY <2>2, <2>3, <2>4
<1> QED BY <1>4 DEF Truthful

\* A message that says the same of the phone as the stack, or nothing.
LEMMA LinkPosted ==
    ASSUME QueueType, LinkInv, NEW m \in Msgs, Post(m), rec' = rec, blind' = blind,
           seeking' => LostForGood',
           ~dropped /\ ~blind =>
               \/ m.evt = "CONNECTED" /\ ~LostForGood'
               \/ m.evt = "LOST" /\ LostForGood'
               \/ m.evt \notin {"CONNECTED", "LOST"} /\ (LostForGood' <=> LostForGood)
    PROVE  LinkInv'
<1> SUFFICES ASSUME ~dropped', ~blind' PROVE Truthful(Words', LostForGood')
  BY DEF LinkInv, Truthful
<1> DEFINE n == Len(queue)
<1>1. /\ n \in Nat /\ Len(queue') = n + 1 /\ ~dropped /\ queue'[n + 1] = m
      /\ \A i \in 1..n : queue'[i] = queue[i]
  BY Posted
<1>2. DOMAIN Words = 0..n /\ DOMAIN Words' = 0..n + 1
  BY <1>1 DEF Words
<1>3. \A i \in 0..n : Words'[i] = Words[i]
  BY <1>1 DEF Words
<1>4. Words'[n + 1] = m.evt
  BY <1>1 DEF Words
<1> QED BY <1>1, <1>2, <1>3, <1>4, TruthGrows DEF LinkInv

\* The task takes the first word for its own, or one that is none.
LEMMA LinkReceived ==
    ASSUME QueueType, LinkInv, NEW evt, Receive(evt), UNCHANGED <<link, lastEnd>>,
           ~blind' => ~blind /\ (seeking' => LostForGood),
           rec' = IF evt = "CONNECTED" THEN "IDLE" ELSE IF evt = "LOST" THEN "OPEN" ELSE rec
    PROVE  LinkInv'
<1>0. LostForGood' <=> LostForGood
  BY DEF LostForGood
<1> SUFFICES ASSUME ~dropped', ~blind' PROVE Truthful(Words', LostForGood)
  BY <1>0 DEF LinkInv, Truthful
<1> DEFINE n == Len(queue)
<1>1. /\ n \in Nat /\ n >= 1 /\ Len(queue') = n - 1 /\ ~dropped /\ queue[1].evt = evt
      /\ \A i \in 1..n - 1 : queue'[i] = queue[i + 1]
  BY Received
<1>2. DOMAIN Words = 0..n /\ DOMAIN Words' = 0..n - 1 /\ Words[1] = evt
  BY <1>1 DEF Words
<1>3. \A i \in 1..n - 1 : Words'[i] = Words[i + 1]
  BY <1>1 DEF Words
<1>4. Words'[0] = IF evt \in {"CONNECTED", "LOST"} THEN evt ELSE Words[0]
  BY <1>1 DEF Words
<1> QED BY <1>1, <1>2, <1>3, <1>4, TruthShrinks DEF LinkInv

LEMMA NextLink == QueueType /\ LinkInv /\ [Next]_vars => LinkInv'
<1> SUFFICES ASSUME QueueType, LinkInv, [Next]_vars PROVE LinkInv'
  OBVIOUS
<1>1. CASE PhoneConnects
  <2>1. /\ Post(Msg("CONNECTED")) /\ Msg("CONNECTED") \in Msgs /\ Msg("CONNECTED").evt = "CONNECTED"
        /\ rec' = rec /\ blind' = blind /\ ~seeking' /\ ~LostForGood'
    BY <1>1, MsgType DEF PhoneConnects, Plain, recVars, LostForGood
  <2> QED BY <2>1, LinkPosted
<1>2. ASSUME NEW how \in {"lost", "closed"}, ConnectionEnds(how) PROVE LinkInv'
  <2> DEFINE evt == IF how = "lost" THEN "LOST" ELSE "CLOSED"
  <2>1. /\ Post(Msg(evt)) /\ Msg(evt) \in Msgs /\ Msg(evt).evt = evt
        /\ rec' = rec /\ blind' = blind /\ seeking' = seeking /\ ~LostForGood
        /\ LostForGood' <=> how = "lost"
    BY <1>2, MsgType DEF ConnectionEnds, Plain, recVars, LostForGood
  <2>2. CASE blind
    BY <2>1, <2>2 DEF LinkInv
  <2>3. CASE dropped
    BY <2>1, <2>3 DEF LinkInv, Post
  <2>4. CASE ~blind /\ ~dropped
    <3>1. ~seeking
      BY <2>1, <2>4 DEF LinkInv
    <3> QED BY <2>1, <3>1, LinkPosted
  <2> QED BY <2>2, <2>3, <2>4
<1>3. ASSUME NEW evt \in {"LOST", "CLOSED"}, AttemptFails(evt) PROVE LinkInv'
  <2>1. /\ Post(Msg(evt)) /\ Msg(evt) \in Msgs /\ Msg(evt).evt = evt
        /\ rec' = rec /\ blind' = blind /\ seeking /\ ~seeking' /\ (LostForGood' <=> LostForGood)
    BY <1>3, MsgType DEF AttemptFails, Plain, recVars, LostForGood
  <2>2. ~dropped /\ ~blind => LostForGood
    BY <2>1 DEF LinkInv
  <2> QED BY <2>1, <2>2, LinkPosted
<1>4. ASSUME UNCHANGED <<linkVars, rec>>, NEW m \in Msgs, Post(m), m.evt \notin {"CONNECTED", "LOST"}
      PROVE  LinkInv'
  <2>1. rec' = rec /\ blind' = blind /\ seeking' = seeking /\ (LostForGood' <=> LostForGood)
    BY <1>4 DEF linkVars, LostForGood
  <2>2. CASE blind
    BY <2>1, <2>2 DEF LinkInv
  <2>3. CASE dropped
    BY <1>4, <2>1, <2>3 DEF LinkInv, Post
  <2>4. CASE ~blind /\ ~dropped
    <3>1. seeking' => LostForGood'
      BY <2>1, <2>4 DEF LinkInv
    <3> QED BY <1>4, <2>1, <3>1, LinkPosted
  <2> QED BY <2>2, <2>3, <2>4
<1>5. CASE (\E evt \in {"STARTED", "SUSPENDED", "STOPPED"} : PhonePlays(evt)) \/ AvrcChanges \/ Key \/ key_act_time_out \/ a2d_rec_alarm_to
  <2>1. UNCHANGED <<linkVars, rec>> /\ \E evt \in Plain \ {"CONNECTED", "LOST"} : Post(Msg(evt))
    BY <1>5 DEF PhonePlays, AvrcChanges, Key, key_act_time_out, a2d_rec_alarm_to, recVars, Plain
  <2> QED BY <1>4, <2>1, MsgType
<1>6. CASE PhoneAnswers
  <2>1. UNCHANGED <<linkVars, rec>> /\ \E m \in Msgs : Post(m) /\ m.evt = "RSP"
    BY <1>6 DEF PhoneAnswers, recVars, Msgs, QueueType
  <2> QED BY <1>4, <2>1
<1>7. ASSUME NEW evt, Receive(evt), UNCHANGED linkVars,
             rec' = IF evt = "CONNECTED" THEN "IDLE" ELSE IF evt = "LOST" THEN "OPEN" ELSE rec
      PROVE  LinkInv'
  <2>1. CASE dropped \/ blind
    BY <1>7, <2>1, Received DEF LinkInv, linkVars
  <2>2. CASE ~dropped /\ ~blind
    BY <1>7, <2>2, LinkReceived DEF LinkInv, linkVars
  <2> QED BY <2>1, <2>2
<1>8. CASE OnConnected
  BY <1>7, <1>8 DEF OnConnected, RecStops, recVars, LinkInv
<1>9. ASSUME NEW evt \in {"LOST", "CLOSED"}, OnDisconnected(evt) PROVE LinkInv'
  BY <1>7, <1>9 DEF OnDisconnected, RecStarts, recVars, LinkInv
<1>10. CASE OnAlarm
  <2>1. Receive("ALARM") /\ UNCHANGED <<link, lastEnd, rec>>
    BY <1>10 DEF OnAlarm
  <2>2. CASE rec # "OPEN"
    BY <1>7, <1>10, <2>1, <2>2 DEF OnAlarm, linkVars
  <2>3. CASE rec = "OPEN" /\ (dropped \/ blind')
    BY <2>1, <2>3, Received DEF LinkInv
  <2>4. CASE rec = "OPEN" /\ ~dropped /\ ~blind'
    <3>1. Connect
      BY <1>10, <2>4 DEF OnAlarm
    <3>2. ~blind /\ (seeking' => seeking \/ (link = "down" /\ ~Queued({"CONNECTED"})))
      BY <2>4, <3>1 DEF Connect
    <3>3. Len(queue) \in Nat /\ 0 \in DOMAIN Words /\ Words[0] = "LOST"
      BY <2>1, <2>4, Received DEF Words
    <3>4. ~Queued({"CONNECTED"}) => NoneAfter(Words, 0, "CONNECTED")
      BY <3>3 DEF Queued, NoneAfter, Words
    <3>5. seeking' => LostForGood
      BY <2>4, <3>2, <3>3, <3>4 DEF LinkInv, Truthful
    <3> QED BY <2>1, <3>2, <3>5, LinkReceived
  <2> QED BY <2>2, <2>3, <2>4
<1>11. CASE Sound \/ Control
  <2>1. UNCHANGED <<linkVars, rec>>
    BY <1>11 DEF Sound, OnStarted, OnSuspended, OnStopped, Control, OnAvrc, OnKey, OnResponse, OnTimeout, recVars
  <2>2. \E evt : evt \notin {"CONNECTED", "LOST"} /\ Receive(evt)
    BY <1>11 DEF Sound, OnStarted, OnSuspended, OnStopped, Control, OnAvrc, OnKey, OnResponse, OnTimeout
  <2> QED BY <1>7, <2>1, <2>2
<1>12. CASE PhoneIgnores \/ player_status_updated \/ ToneEnds \/ UNCHANGED vars
  <2>1. UNCHANGED <<linkVars, rec, queue, dropped>>
    BY <1>12 DEF PhoneIgnores, player_status_updated, ToneEnds, vars, recVars
  <2> QED BY <2>1 DEF LinkInv, linkVars, LostForGood, Words
<1> QED
  BY <1>1, <1>2, <1>3, <1>5, <1>6, <1>8, <1>9, <1>10, <1>11, <1>12 DEF Next, Phone, Remote, BtAppT, Link

\* For every length of the queue: once the task has seen all that the stack
\* reported, it seeks its phone just when that was lost (the safety of
\* LostIsSought; bt_app_a2d.c, a2d_rec_sm_handler).
THEOREM SoughtIffLostHolds == Spec => []SoughtIffLost
<1>1. Init => QueueType /\ LinkInv
  <2>1. 0 \in 0..Labels - 1 /\ <<>> \in Seq(Msgs)
    BY BluetoothAssumption
  <2>2. Init => LinkInv
    <3> SUFFICES ASSUME Init PROVE LinkInv
      OBVIOUS
    <3>1. DOMAIN Words = {0} /\ Words[0] = "CONNECTED" /\ ~LostForGood
      BY DEF Init, Words, LostForGood
    <3> QED BY <3>1 DEF Init, LinkInv, Truthful
  <2> QED BY <2>1, <2>2 DEF Init, QueueType, KeyTypes
<1>2. QueueType /\ LinkInv => SoughtIffLost
  <2> SUFFICES ASSUME QueueType, LinkInv, ~Queued({"CONNECTED", "LOST", "CLOSED"}), ~dropped, ~blind
               PROVE  rec = "OPEN" <=> LostForGood
    BY DEF SoughtIffLost, LostForGood
  <2>1. Len(queue) \in Nat /\ 0 \in DOMAIN Words /\ Words[0] = IF rec = "OPEN" THEN "LOST" ELSE "CONNECTED"
    BY DEF QueueType, Words
  <2>2. NoneAfter(Words, 0, "CONNECTED") /\ NoneAfter(Words, 0, "LOST")
    BY <2>1 DEF Queued, NoneAfter, Words
  <2> QED BY <2>1, <2>2 DEF LinkInv, Truthful
<1> QED BY <1>1, <1>2, NextQueueType, NextLink, PTL DEF Spec

-----------------------------------------------------------------------------
(* NoStuckKey.  A press that is not answered is the one the key machine waits *)
(* for, and so is an answered one whose answer is queued: its label has not   *)
(* been taken by another key, and nothing resets the machine meanwhile.       *)

Waiting == key.state = "PRESS" /\ avrc = TRUE
Press == [tl |-> key.tl, press |-> TRUE]
Answered == \E i \in 1..Len(queue) : queue[i].evt = "RSP" /\ queue[i].cmd = Press

KeyInv ==
    /\ avrcUp \in BOOLEAN /\ avrc \in BOOLEAN /\ held \in BOOLEAN
    /\ ~avrcUp => command = NoCommand
    /\ ~lateKey => ~Queued({"TO"})
    /\ ~lateKey /\ ~dropped => (command.press = TRUE => Waiting /\ command = Press)
    /\ ~lateKey /\ ~dropped /\ held = TRUE /\ avrcUp = TRUE /\ command = NoCommand =>
          Waiting /\ Answered

LEMMA NotACommand == NoCommand \notin Commands /\ NoCommand.press = FALSE
BY BluetoothAssumption DEF NoCommand, Commands

LEMMA NoTimeOut ==
    ASSUME QueueType, KeyInv, NEW m \in Msgs, Post(m), m.evt # "TO"
    PROVE  ~lateKey => ~Queued({"TO"})'
<1>1. CASE queue' = queue
  BY <1>1 DEF KeyInv, Queued
<1>2. CASE queue' = Append(queue, m)
  <2>1. /\ Len(queue) \in Nat /\ Len(queue') = Len(queue) + 1 /\ queue'[Len(queue) + 1] = m
        /\ \A i \in 1..Len(queue) : queue'[i] = queue[i]
    BY <1>2 DEF QueueType
  <2>2. \A i \in 1..Len(queue') : i \in 1..Len(queue) \/ i = Len(queue) + 1
    BY <2>1
  <2> QED BY <2>1, <2>2 DEF KeyInv, Queued
<1> QED BY <1>1, <1>2 DEF Post

LEMMA KeyPosted ==
    ASSUME QueueType, KeyInv, NEW m \in Msgs, Post(m), m.evt # "TO", UNCHANGED keyVars
    PROVE  KeyInv'
<1>1. CASE dropped'
  BY <1>1, NoTimeOut DEF KeyInv, keyVars, Waiting, Press, Answered
<1>2. CASE ~dropped'
  <2>1. /\ Len(queue) \in Nat /\ Len(queue') = Len(queue) + 1 /\ ~dropped
        /\ \A i \in 1..Len(queue) : queue'[i] = queue[i]
        /\ queue'[Len(queue) + 1] = m
    BY <1>2, Posted
  <2>2. \A i \in 1..Len(queue) : i \in 1..Len(queue')
    BY <2>1
  <2>4. ~lateKey => ~Queued({"TO"})'
    BY NoTimeOut
  <2> QED BY <2>1, <2>2, <2>4 DEF KeyInv, keyVars, Waiting, Press, Answered
<1> QED BY <1>1, <1>2

LEMMA KeyReceived ==
    ASSUME QueueType, NEW evt, Receive(evt)
    PROVE  /\ ~Queued({"TO"}) => (~Queued({"TO"})' /\ evt # "TO")
           /\ \A i \in 1..Len(queue) : i = 1 \/ (i - 1 \in 1..Len(queue') /\ queue'[i - 1] = queue[i])
           /\ 1 \in 1..Len(queue) /\ queue[1] = Head(queue) /\ queue[1].evt = evt
           /\ dropped' = dropped
<1>1. /\ Len(queue) \in Nat /\ Len(queue) >= 1 /\ Len(queue') = Len(queue) - 1
      /\ \A i \in 1..Len(queue') : queue'[i] = queue[i + 1]
      /\ queue[1] = Head(queue) /\ queue[1].evt = evt
      /\ dropped' = dropped
  BY Received
<1>2. \A i \in 1..Len(queue) : i = 1 \/ (i - 1 \in 1..Len(queue') /\ i - 1 + 1 = i)
  BY <1>1
<1>3. \A i \in 1..Len(queue') : i + 1 \in 1..Len(queue)
  BY <1>1
<1>4. 1 \in 1..Len(queue)
  BY <1>1
<1> QED BY <1>1, <1>2, <1>3, <1>4 DEF Queued

\* A message that is not an answer leaves the answer in the queue.
LEMMA KeyPassed ==
    ASSUME QueueType, KeyInv, NEW evt, evt # "RSP", Receive(evt),
           UNCHANGED <<avrcUp, avrc, key, command, held, lateKey>>
    PROVE  KeyInv'
<1>1. ~lateKey' => ~Queued({"TO"})'
  BY KeyReceived DEF KeyInv
<1>2. Answered => Answered'
  BY KeyReceived DEF Answered, Press
<1>3. dropped' = dropped
  BY KeyReceived
<1> QED BY <1>1, <1>2, <1>3 DEF KeyInv, Waiting, Press, Answered

LEMMA AnswerTaken == ASSUME QueueType, KeyInv, OnResponse PROVE KeyInv'
<1> DEFINE cmd == Head(queue).cmd
           release == [tl |-> (key.tl + 1) % Labels, press |-> FALSE]
<1>1. /\ Receive("RSP") /\ UNCHANGED <<avrcUp, avrc, held, lateKey>>
      /\ \/ /\ key.state = "PRESS" /\ Answers(cmd, TRUE)
            /\ key' = [state |-> "RELEASE", tl |-> release.tl] /\ Send(release)
         \/ /\ key.state = "RELEASE" /\ key' = [key EXCEPT !.state = "IDLE"] /\ UNCHANGED command
         \/ /\ key.state = "IDLE" \/ ~Answers(cmd, key.state = "PRESS")
            /\ UNCHANGED <<key, command>>
  BY DEF OnResponse
<1>2. /\ ~lateKey' => ~Queued({"TO"})'
      /\ dropped' = dropped
  BY <1>1, KeyReceived DEF KeyInv
<1>3. release.press = FALSE /\ release # NoCommand
  <2>1. (key.tl + 1) % Labels \in 0..Labels - 1
    BY LabelType DEF QueueType, KeyTypes
  <2> QED BY <2>1, BluetoothAssumption DEF NoCommand
<1>4. CASE key.state = "PRESS" /\ Answers(cmd, TRUE) /\ Send(release)
  BY <1>1, <1>2, <1>3, <1>4, NotACommand DEF KeyInv, Send
<1>5. CASE key.state = "RELEASE" /\ key' = [key EXCEPT !.state = "IDLE"] /\ UNCHANGED command
  BY <1>1, <1>2, <1>5 DEF KeyInv, Waiting, Press, Answered
<1>6. CASE (key.state = "IDLE" \/ ~Answers(cmd, key.state = "PRESS")) /\ UNCHANGED <<key, command>>
  <2>1. Waiting => queue[1].cmd # Press
    BY <1>1, <1>6, KeyReceived DEF Waiting, Press, Answers
  <2>2. Waiting /\ Answered => Answered'
    <3> SUFFICES ASSUME Waiting, NEW i \in 1..Len(queue), queue[i].evt = "RSP", queue[i].cmd = Press
                 PROVE  Answered'
      BY DEF Answered
    <3>1. i - 1 \in 1..Len(queue') /\ queue'[i - 1] = queue[i]
      BY <1>1, <2>1, KeyReceived
    <3>2. Press' = Press
      BY <1>6 DEF Press
    <3> QED BY <3>1, <3>2 DEF Answered
  <2> QED BY <1>1, <1>2, <1>6, <2>2 DEF KeyInv, Waiting, Press, Answered
<1> QED BY <1>1, <1>4, <1>5, <1>6

LEMMA NextKey == QueueType /\ KeyInv /\ [Next]_vars => KeyInv'
<1> SUFFICES ASSUME QueueType, KeyInv, [Next]_vars PROVE KeyInv'
  OBVIOUS
<1>1. CASE Phone \/ Key \/ a2d_rec_alarm_to
  <2>1. UNCHANGED keyVars /\ \E evt \in Plain \ {"TO"} : Post(Msg(evt))
    BY <1>1 DEF Phone, PhoneConnects, ConnectionEnds, AttemptFails, PhonePlays, Key, a2d_rec_alarm_to, Plain
  <2> QED BY <2>1, KeyPosted, MsgType
<1>2. CASE Link \/ Sound
  <2>1. UNCHANGED keyVars /\ \E evt : evt # "RSP" /\ Receive(evt)
    BY <1>2 DEF Link, OnConnected, OnDisconnected, OnAlarm, Sound, OnStarted, OnSuspended, OnStopped
  <2> QED BY <2>1, KeyPassed DEF keyVars
<1>3. CASE player_status_updated \/ ToneEnds \/ UNCHANGED vars
  <2>1. UNCHANGED <<keyVars, queue, dropped>>
    BY <1>3 DEF player_status_updated, ToneEnds, vars
  <2> QED BY <2>1 DEF KeyInv, keyVars, Waiting, Press, Answered, Queued
<1>4. CASE OnResponse
  BY <1>4, AnswerTaken
<1>5. CASE PhoneIgnores
  BY <1>5, NotACommand DEF PhoneIgnores, KeyInv
<1>6. CASE key_act_time_out
  BY <1>6 DEF key_act_time_out, KeyInv
<1>7. CASE OnTimeout
  <2>1. lateKey'
    BY <1>7, KeyReceived DEF OnTimeout, KeyInv
  <2> QED BY <1>7, <2>1 DEF OnTimeout, KeyInv
<1>8. CASE AvrcChanges
  <2>1. /\ \E evt \in Plain \ {"TO"} : Post(Msg(evt))
        /\ command' = NoCommand /\ held' = FALSE /\ avrcUp' = ~avrcUp /\ UNCHANGED <<avrc, lateKey>>
    BY <1>8 DEF AvrcChanges, Plain
  <2>2. ~lateKey => ~Queued({"TO"})'
    BY <2>1, NoTimeOut, MsgType
  <2> QED BY <2>1, <2>2, NotACommand DEF KeyInv
<1>9. CASE PhoneAnswers
  <2> DEFINE m == [evt |-> "RSP", cmd |-> command]
  <2>1. /\ m \in Msgs /\ m.evt = "RSP" /\ m.cmd = command /\ Post(m) /\ command # NoCommand
        /\ command' = NoCommand /\ held' = command.press /\ UNCHANGED <<avrcUp, avrc, key, lateKey>>
    BY <1>9 DEF PhoneAnswers, QueueType, Msgs
  <2>2. ~lateKey' => ~Queued({"TO"})'
    BY <2>1, NoTimeOut
  <2>3. held' \in BOOLEAN
    BY <2>1, NotACommand DEF QueueType, Commands
  <2>4. ASSUME ~lateKey', ~dropped', held' = TRUE
        PROVE  Waiting' /\ Answered'
    <3>1. Len(queue) + 1 \in 1..Len(queue') /\ queue'[Len(queue) + 1] = m /\ ~dropped
      BY <2>1, <2>4, Posted
    <3>2. Waiting /\ command = Press
      BY <2>1, <2>4, <3>1 DEF KeyInv
    <3>3. Waiting' /\ Press' = Press
      BY <2>1, <3>2 DEF Waiting, Press
    <3> QED BY <2>1, <3>1, <3>2, <3>3 DEF Answered
  <2> QED BY <2>1, <2>2, <2>3, <2>4, NotACommand DEF KeyInv
<1>10. CASE OnAvrc
  <2>1. /\ \E evt : Receive(evt)
        /\ avrc' \in BOOLEAN /\ UNCHANGED <<avrcUp, command, held>>
        /\ lateKey' = (lateKey \/ (avrcUp /\ key.state # "IDLE"))
    BY <1>10 DEF OnAvrc
  <2>2. dropped' = dropped /\ (~Queued({"TO"}) => ~Queued({"TO"})')
    BY <2>1, KeyReceived
  <2>3. ~lateKey' => ~lateKey /\ (avrcUp = FALSE \/ key.state = "IDLE")
    BY <2>1 DEF KeyInv
  <2> QED BY <2>1, <2>2, <2>3, NotACommand DEF KeyInv, Waiting, Press, Answered
<1>11. CASE OnKey
  <2>1. CASE UNCHANGED <<key, command>>
    BY <1>11, <2>1, KeyPassed DEF OnKey
  <2>2. CASE avrc /\ key' = [state |-> "PRESS", tl |-> nextTl] /\ Send([tl |-> nextTl, press |-> TRUE])
    <3>1. [tl |-> nextTl, press |-> TRUE] # NoCommand
      BY BluetoothAssumption DEF QueueType, NoCommand
    <3>2. /\ dropped' = dropped /\ (~Queued({"TO"}) => ~Queued({"TO"})')
          /\ UNCHANGED <<avrcUp, avrc, held, lateKey>>
      BY <1>11, KeyReceived DEF OnKey
    <3> QED BY <2>2, <3>1, <3>2, NotACommand DEF KeyInv, Send, Waiting, Press
  <2> QED BY <1>11, <2>1, <2>2 DEF OnKey
<1> QED
  BY <1>1, <1>2, <1>3, <1>4, <1>5, <1>6, <1>7, <1>8, <1>9, <1>10, <1>11 DEF Next, Remote, BtAppT, Control

\* For every length of the queue and number of labels: a phone whose key is
\* pressed gets the release, unless an answer or a message was lost
\* (bt_app_key.c, bt_app_key_sm_handler).
THEOREM NoStuckKeyHolds == Spec => []NoStuckKey
<1>1. Init => QueueType /\ KeyInv
  <2> SUFFICES ASSUME Init PROVE QueueType /\ KeyInv
    OBVIOUS
  <2>1. 0 \in 0..Labels - 1 /\ <<>> \in Seq(Msgs)
    BY BluetoothAssumption
  <2>2. QueueType
    BY <2>1 DEF Init, QueueType, KeyTypes
  <2>3. KeyInv
    <3>1. queue = <<>> /\ Len(queue) = 0 /\ command = NoCommand /\ ~held /\ ~avrcUp /\ ~avrc
      BY DEF Init
    <3>2. held \in BOOLEAN /\ avrcUp \in BOOLEAN /\ avrc \in BOOLEAN /\ held = FALSE
      BY DEF Init
    <3>3. ~Queued({"TO"})
      BY <3>1 DEF Queued
    <3> QED BY <3>1, <3>2, <3>3, NotACommand DEF KeyInv
  <2> QED BY <2>2, <2>3
<1>2. QueueType /\ KeyInv => NoStuckKey
  <2> SUFFICES ASSUME KeyInv, held, avrcUp, ~dropped, ~lateKey, command = NoCommand PROVE Queued({"RSP"})
    BY DEF NoStuckKey
  <2>1. Answered
    BY DEF KeyInv
  <2> QED BY <2>1 DEF Answered, Queued
<1> QED BY <1>1, <1>2, NextQueueType, NextKey, PTL DEF Spec

-----------------------------------------------------------------------------
(* Types.                                                                  *)

LinkTypes ==
    /\ dropped \in BOOLEAN /\ link \in {"down", "up"} /\ lastEnd \in {"none", "lost", "closed"}
    /\ seeking \in BOOLEAN /\ blind \in BOOLEAN
    /\ rec \in {"IDLE", "OPEN"} /\ timer \in {"off", "armed"}

SoundTypes ==
    /\ audio \in {"STARTED", "SUSPENDED", "STOPPED"}
    /\ toneStopped \in BOOLEAN /\ rawStart \in BOOLEAN /\ rawOn \in BOOLEAN
    /\ overlapped \in BOOLEAN /\ leftOver \in BOOLEAN

ToneTypes == tones \in 0..MaxTones /\ statuses \in 0..StatusLen

RemoteTypes == avrcUp \in BOOLEAN /\ avrc \in BOOLEAN /\ held \in BOOLEAN /\ lateKey \in BOOLEAN

LEMMA NextLength ==
    ASSUME QueueType, Len(queue) <= QueueLen, [Next]_vars
    PROVE  Len(queue') <= QueueLen
<1>1. QueueLen \in Nat /\ Len(queue) \in Nat /\ queue \in Seq(Msgs)
  BY BluetoothAssumption DEF QueueType
<1>2. ASSUME NEW m \in Msgs, Post(m) PROVE Len(queue') <= QueueLen
  BY <1>1, <1>2 DEF Post
<1>3. ASSUME NEW evt, Receive(evt) PROVE Len(queue') <= QueueLen
  BY <1>1, <1>3, Received
<1> QED BY <1>2, <1>3, QueueSteps

LEMMA NextLinkTypes == LinkTypes /\ [Next]_vars => LinkTypes'
<1> SUFFICES ASSUME LinkTypes, [Next]_vars PROVE LinkTypes'
  OBVIOUS
<1> USE DEF LinkTypes
<1>1. CASE PhoneConnects \/ PhoneIgnores \/ player_status_updated \/ ToneEnds \/ UNCHANGED vars
  BY <1>1 DEF PhoneConnects, Post, PhoneIgnores, player_status_updated, ToneEnds, vars, linkVars, recVars
<1>2. ASSUME NEW how \in {"lost", "closed"}, ConnectionEnds(how) PROVE LinkTypes'
  BY <1>2 DEF ConnectionEnds, Post, recVars
<1>3. CASE \E evt \in {"LOST", "CLOSED"} : AttemptFails(evt)
  BY <1>3 DEF AttemptFails, Post, recVars
<1>4. CASE (\E evt \in {"STARTED", "SUSPENDED", "STOPPED"} : PhonePlays(evt)) \/ AvrcChanges \/ Key \/ PhoneAnswers \/ key_act_time_out
  BY <1>4 DEF PhonePlays, AvrcChanges, Key, PhoneAnswers, key_act_time_out, Post, linkVars, recVars
<1>5. CASE a2d_rec_alarm_to
  BY <1>5 DEF a2d_rec_alarm_to, Post, linkVars
<1>6. CASE OnConnected \/ \E evt \in {"LOST", "CLOSED"} : OnDisconnected(evt)
  BY <1>6 DEF OnConnected, OnDisconnected, Receive, RecStops, RecStarts, linkVars, recVars
<1>7. CASE OnAlarm
  BY <1>7 DEF OnAlarm, Receive, Connect
<1>8. CASE Sound \/ Control
  BY <1>8 DEF Sound, OnStarted, OnSuspended, OnStopped, Control, OnAvrc, OnKey, OnResponse, OnTimeout, Receive, linkVars, recVars
<1> QED BY <1>1, <1>2, <1>3, <1>4, <1>5, <1>6, <1>7, <1>8 DEF Next, Phone, Remote, BtAppT, Link

LEMMA NextSoundTypes == SoundTypes /\ [Next]_vars => SoundTypes'
<1> SUFFICES ASSUME SoundTypes, [Next]_vars PROVE SoundTypes'
  OBVIOUS
<1> USE DEF SoundTypes
<1>1. CASE OnConnected \/ \E evt \in {"LOST", "CLOSED"} : OnDisconnected(evt)
  BY <1>1, Zenon DEF OnConnected, OnDisconnected, PlayTone
<1>2. CASE Sound \/ ToneEnds
  BY <1>2 DEF Sound, OnStarted, OnSuspended, OnStopped, ToneEnds
<1>3. CASE player_status_updated
  BY <1>3 DEF player_status_updated
<1>4. CASE UNCHANGED soundVars
  BY <1>4 DEF soundVars
<1> QED BY <1>1, <1>2, <1>3, <1>4, Silent

LEMMA NextToneTypes == ToneTypes /\ [Next]_vars => ToneTypes'
<1> SUFFICES ASSUME ToneTypes, [Next]_vars PROVE ToneTypes'
  OBVIOUS
<1> USE DEF ToneTypes
<1>1. CASE OnConnected \/ \E evt \in {"LOST", "CLOSED"} : OnDisconnected(evt)
  <2>1. statuses' = statuses /\ tones' = IF tones < MaxTones THEN tones + 1 ELSE tones
    BY <1>1 DEF OnConnected, OnDisconnected, PlayTone
  <2> QED BY <2>1, BluetoothAssumption
<1>2. CASE Sound
  BY <1>2 DEF Sound, OnStarted, OnSuspended, OnStopped
<1>3. CASE ToneEnds
  BY <1>3, BluetoothAssumption DEF ToneEnds
<1>4. CASE player_status_updated
  BY <1>4, BluetoothAssumption DEF player_status_updated
<1>5. CASE UNCHANGED soundVars
  BY <1>5 DEF soundVars
<1> QED BY <1>1, <1>2, <1>3, <1>4, <1>5, Silent

LEMMA NextRemoteTypes == QueueType /\ RemoteTypes /\ [Next]_vars => RemoteTypes'
<1> SUFFICES ASSUME QueueType, RemoteTypes, [Next]_vars PROVE RemoteTypes'
  OBVIOUS
<1> USE DEF RemoteTypes
<1>1. CASE Phone \/ Key \/ a2d_rec_alarm_to \/ Link \/ Sound \/ player_status_updated \/ ToneEnds \/ UNCHANGED vars
  <2>1. UNCHANGED keyVars
    BY <1>1 DEF Phone, PhoneConnects, ConnectionEnds, AttemptFails, PhonePlays, Key, a2d_rec_alarm_to, Link,
                OnConnected, OnDisconnected, OnAlarm, Sound, OnStarted, OnSuspended, OnStopped, player_status_updated,
                ToneEnds, vars
  <2> QED BY <2>1 DEF keyVars
<1>2. CASE AvrcChanges \/ PhoneIgnores \/ key_act_time_out
  BY <1>2 DEF AvrcChanges, PhoneIgnores, key_act_time_out
<1>3. CASE PhoneAnswers
  <2>1. command \in Commands /\ held' = command.press /\ UNCHANGED <<avrcUp, avrc, lateKey>>
    BY <1>3 DEF PhoneAnswers, QueueType
  <2> QED BY <2>1 DEF Commands
<1>4. CASE OnAvrc
  BY <1>4 DEF OnAvrc
<1>5. CASE OnKey \/ OnResponse \/ OnTimeout
  BY <1>5 DEF OnKey, OnResponse, OnTimeout
<1> QED BY <1>1, <1>2, <1>3, <1>4, <1>5 DEF Next, Remote, BtAppT, Control

\* For every length of the queues and number of labels and tones: the queues
\* keep to their lengths, and labels to their range (the wrap of tl in
\* bt_app_key.c).
THEOREM TypeCorrect == Spec => []TypeOK
<1>1. Init => QueueType /\ Len(queue) <= QueueLen /\ LinkTypes /\ SoundTypes /\ ToneTypes /\ RemoteTypes
  <2> SUFFICES ASSUME Init
               PROVE  QueueType /\ Len(queue) <= QueueLen /\ LinkTypes /\ SoundTypes /\ ToneTypes /\ RemoteTypes
    OBVIOUS
  <2>1. 0 \in 0..Labels - 1 /\ <<>> \in Seq(Msgs)
    BY BluetoothAssumption
  <2>2. QueueType
    BY <2>1 DEF Init, QueueType, KeyTypes
  <2>3. Len(queue) <= QueueLen
    <3>1. queue = <<>> /\ Len(<<>>) = 0
      BY DEF Init
    <3> QED BY <3>1, BluetoothAssumption
  <2>4. LinkTypes /\ SoundTypes /\ RemoteTypes
    BY DEF Init, LinkTypes, SoundTypes, RemoteTypes
  <2>5. ToneTypes
    BY BluetoothAssumption DEF Init, ToneTypes
  <2> QED BY <2>2, <2>3, <2>4, <2>5
<1>2. QueueType /\ Len(queue) <= QueueLen /\ [Next]_vars => (Len(queue) <= QueueLen)'
  BY NextLength
<1>3. QueueType /\ Len(queue) <= QueueLen /\ LinkTypes /\ SoundTypes /\ ToneTypes /\ RemoteTypes => TypeOK
  BY DEF QueueType, KeyTypes, LinkTypes, SoundTypes, ToneTypes, RemoteTypes, TypeOK
<1> QED
  BY <1>1, <1>2, <1>3, NextQueueType, NextLinkTypes, NextSoundTypes, NextToneTypes, NextRemoteTypes, PTL DEF Spec
=============================================================================
