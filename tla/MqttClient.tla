----------------------------- MODULE MqttClient -----------------------------
(***************************************************************************)
(* The MQTT client (src/components/espmqtt), its outbox, and the           *)
(* application's event handler (src/main/dd_mqtt.c).                       *)
(*                                                                         *)
(* esp_mqtt_task connects, reads and keeps the connection alive; it runs   *)
(* the application's event handler, which calls back into the client.  A   *)
(* user task starts and stops the client.  The broker and TCP are          *)
(* external: packets arrive whole and in order, a connection can be lost   *)
(* or fall silent, and one read returns all the packets that have come.    *)
(***************************************************************************)
EXTENDS Integers, Sequences, FiniteSets, SequencesExt

CONSTANTS
    Ids,            \* message ids, drawn at random: two messages may share one
    HalfKeepalive,  \* reads of 1 s in half a keepalive period (60 in the code)
    MaxCalls,       \* bound: calls of the client by the application
    MaxWire,        \* bound: packets in flight when the broker publishes
    OutboxMax       \* OUTBOX_MAX_SIZE, in messages

ASSUME MqttAssumption ==
    /\ HalfKeepalive \in Nat \ {0}
    /\ {MaxCalls, MaxWire, OutboxMax} \subseteq Nat

VARIABLES
    task,       \* where esp_mqtt_task is
    run,        \* client->run
    stopped,    \* STOPPED_BIT
    state,      \* client->state
    user,       \* the task that calls esp_mqtt_client_start and _stop
    early,      \* history: _stop was called before the task reached its loop
    since,      \* passes of the loop since keepalive_tick or reconnect_tick
    waitPing,   \* wait_for_ping_resp
    count,      \* pending_msg_count
    pending,    \* pending_msg_type and pending_msg_id
    outbox,     \* the queue of messages kept by mqtt_enqueue
    inbuf,      \* whether in_buffer still holds a CONNACK
    link,       \* the TCP connection: "down", "up", or "silent" for ever
    toBroker,   \* packets written, not processed by the broker yet
    wire,       \* packets from the broker, not read yet
    forgotten,  \* history: messages this session lost track of
    swallowed,  \* history: a read of this session returned several packets
    calls       \* history: calls of the client so far

runVars == <<run, stopped, user, early>>
trackVars == <<count, pending, outbox, forgotten>>
netVars == <<link, toBroker, wire>>
vars == <<task, state, runVars, since, waitPing, trackVars, inbuf, netVars, swallowed, calls>>

Requests == {"SUBSCRIBE", "UNSUBSCRIBE", "PUBLISH1", "PUBLISH2"}
NoItem == [type |-> "NONE", id |-> 0]
Packet(type, id) == [type |-> type, id |-> id]

\* What the broker answers, and what the client answers, to a packet.
BrokerAnswer == [SUBSCRIBE |-> "SUBACK", UNSUBSCRIBE |-> "UNSUBACK", PUBLISH1 |-> "PUBACK",
                 PUBLISH2 |-> "PUBREC", PUBREL |-> "PUBCOMP", PUBREC |-> "PUBREL",
                 PINGREQ |-> "PINGRESP"]
ClientAnswer == [PUBLISH1 |-> "PUBACK", PUBLISH2 |-> "PUBREC", PUBREC |-> "PUBREL",
                 PUBREL |-> "PUBCOMP"]
\* The acknowledgements that end a request, with the type of the request.
Acknowledges == [SUBACK |-> "SUBSCRIBE", UNSUBACK |-> "UNSUBSCRIBE", PUBACK |-> "PUBLISH",
                 PUBCOMP |-> "PUBLISH"]
Kind(type) == IF type \in {"PUBLISH1", "PUBLISH2", "PUBREC", "PUBREL"} THEN "PUBLISH" ELSE type

Sent == Requests \cup {"PUBLISH0", "PUBACK", "PUBREC", "PUBREL", "PUBCOMP", "PINGREQ"}
Received == {"SUBACK", "UNSUBACK", "PUBACK", "PUBREC", "PUBREL", "PUBCOMP", "PINGRESP",
             "PUBLISH0", "PUBLISH1", "PUBLISH2"}
Items == [type : {"NONE", "CONNECT", "SUBSCRIBE", "UNSUBSCRIBE", "PUBLISH"}, id : Ids \cup {0}]

TypeOK ==
    /\ task \in {"none", "entry", "loop", "event", "acked", "keepalive", "closing"}
    /\ {run, stopped, early, waitPing, swallowed} \subseteq BOOLEAN
    /\ state \in {"UNKNOWN", "INIT", "CONNECTED", "WAIT_TIMEOUT"}
    /\ user \in {"off", "on", "stopping"}
    /\ since \in 0..HalfKeepalive
    /\ count \in 0..MaxCalls
    /\ pending \in Items
    /\ outbox \in Seq(Items)
    /\ inbuf \in {"CONNACK", "other"}
    /\ link \in {"down", "up", "silent"}
    /\ toBroker \in Seq([type : Sent, id : Ids \cup {0}])
    /\ wire \in Seq([type : Received, id : Ids \cup {0}])
    /\ forgotten \subseteq Items
    /\ calls \in 0..MaxCalls

Init ==
    /\ task = "none" /\ run = FALSE /\ stopped = FALSE /\ state = "UNKNOWN"
    /\ user = "off" /\ early = FALSE
    /\ since = 0 /\ waitPing = FALSE
    /\ count = 0 /\ pending = NoItem /\ outbox = <<>> /\ inbuf = "other"
    /\ link = "down" /\ toBroker = <<>> /\ wire = <<>>
    /\ forgotten = {} /\ swallowed = FALSE /\ calls = 0

\* The requests of this session that the broker can still acknowledge: each is
\* a packet on its way in one direction or the other, known by its place.
Unanswered == {i \in DOMAIN toBroker : toBroker[i].type \in Requests \cup {"PUBREL"}}
Answers == {i \in DOMAIN wire : wire[i].type \in DOMAIN Acknowledges \cup {"PUBREC"}}
RequestOf(p) ==
    Packet(IF p.type \in DOMAIN Acknowledges THEN Acknowledges[p.type] ELSE Kind(p.type), p.id)
Outstanding ==
    {RequestOf(toBroker[i]) : i \in Unanswered} \cup {RequestOf(wire[i]) : i \in Answers}

\* Only messages still to be acknowledged are worth remembering.
Forget(items) == forgotten' = forgotten \cup (items \cap Outstanding)

-----------------------------------------------------------------------------
(* The user task.  It stops what it started and starts what it stopped.    *)

\* Refused (and nothing changes) when the state says that a task runs.
Start ==
    /\ user = "off" /\ ~early
    /\ state = "UNKNOWN"
    /\ user' = "on" /\ task' = "entry"
    /\ UNCHANGED <<run, stopped, state, early, since, waitPing, trackVars, inbuf, netVars,
                   swallowed, calls>>

Stop ==
    /\ user = "on"
    /\ user' = "stopping" /\ run' = FALSE
    /\ early' = (early \/ task = "entry")
    /\ UNCHANGED <<task, stopped, state, since, waitPing, trackVars, inbuf, netVars,
                   swallowed, calls>>

\* xEventGroupWaitBits(STOPPED_BIT, portMAX_DELAY) returns; the bit stays set.
StopReturns ==
    /\ user = "stopping" /\ stopped
    /\ user' = "off" /\ state' = "UNKNOWN"
    /\ UNCHANGED <<task, run, stopped, early, since, waitPing, trackVars, inbuf, netVars,
                   swallowed, calls>>

-----------------------------------------------------------------------------
(* esp_mqtt_task.                                                          *)

EnterKeepingBit ==    \* mutated form: STOPPED_BIT is not cleared
    /\ task = "entry"
    /\ task' = "loop" /\ run' = TRUE /\ state' = "INIT"
    /\ UNCHANGED <<stopped, user, early, since, waitPing, trackVars, inbuf, netVars, swallowed, calls>>

\* run is set by the task itself: a stop that came before is undone.
Enter ==
    /\ task = "entry"
    /\ task' = "loop" /\ run' = TRUE /\ state' = "INIT" /\ stopped' = FALSE
    /\ UNCHANGED <<user, early, since, waitPing, trackVars, inbuf, netVars, swallowed, calls>>

InLoopAnyway(s) == task = "loop" /\ state = s    \* mutated form: while (1)

InLoop(s) == task = "loop" /\ run /\ state = s

\* transport_close: what was in flight is gone.
CloseTransport == link' = "down" /\ toBroker' = <<>> /\ wire' = <<>>

\* Counts its passes in WAIT_TIMEOUT from 0; runs the handler.
AbortConnection ==
    /\ CloseTransport
    /\ state' = "WAIT_TIMEOUT" /\ task' = "event"
    /\ since' = 0 /\ waitPing' = FALSE

ConnectFails ==
    /\ InLoop("INIT")
    /\ AbortConnection
    /\ pending' \in {pending, Packet("CONNECT", 0)}
    /\ UNCHANGED <<runVars, count, outbox, forgotten, inbuf, swallowed, calls>>

\* keepalive_tick is that of the last packet written in an earlier session.
SessionStarts(l) ==
    /\ InLoop("INIT")
    /\ state' = "CONNECTED" /\ task' = "event" /\ waitPing' = FALSE
    /\ since' \in 0..HalfKeepalive
    /\ pending' = Packet("CONNECT", 0)
    /\ link' = l /\ inbuf' = "CONNACK"
    /\ forgotten' = {} /\ swallowed' = FALSE
    /\ UNCHANGED <<runVars, count, outbox, toBroker, wire, calls>>

ConnectAccepted == SessionStarts("up")

\* A read that times out returns 0, which is no error: the CONNACK of the last
\* session, if nothing was read since, is taken for one of this session.
ConnectUnanswered == inbuf = "CONNACK" /\ SessionStarts("silent")

-----------------------------------------------------------------------------
(* mqtt_process_receive.                                                   *)

PassesOn(n) == n + 1    \* mutated form: the period is never over

\* Only a read that found nothing takes a second.
Passes(n) == IF n < HalfKeepalive THEN n + 1 ELSE n

ReceiveAnew ==    \* mutated form: a read that found nothing counts as traffic
    /\ InLoop("CONNECTED") /\ link # "down" /\ wire = <<>>
    /\ task' = "keepalive" /\ since' = 0
    /\ UNCHANGED <<state, runVars, waitPing, trackVars, inbuf, netVars, swallowed, calls>>

ReceiveNothing ==
    /\ InLoop("CONNECTED") /\ link # "down" /\ wire = <<>>
    /\ task' = "keepalive" /\ since' = Passes(since)
    /\ UNCHANGED <<state, runVars, waitPing, trackVars, inbuf, netVars, swallowed, calls>>

ReceiveFails ==
    /\ InLoop("CONNECTED") /\ link = "down" /\ wire = <<>>
    /\ AbortConnection
    /\ UNCHANGED <<runVars, trackVars, inbuf, swallowed, calls>>

\* A read takes the n packets that have come; only the first is looked at.
Reading(type, n) ==
    /\ InLoop("CONNECTED") /\ wire # <<>>
    /\ wire[1].type = type
    /\ n \in 1..Len(wire)
    /\ wire' = SubSeq(wire, n + 1, Len(wire))
    /\ swallowed' = (swallowed \/ n > 1)
    /\ inbuf' = "other"
    /\ UNCHANGED <<state, runVars, link, forgotten, calls>>

\* transport_write fails when the connection is down, and may time out.
WriteResults == IF link = "down" THEN {FALSE} ELSE BOOLEAN

Wrote(type, id, ok) ==
    IF ok THEN toBroker' = Append(toBroker, Packet(type, id)) /\ since' = 0
          ELSE UNCHANGED <<toBroker, since>>

\* is_valid_mqtt_msg: the outbox first, then the pending message.
IsValid(item) == count > 0 /\ (item = pending \/ item \in Range(outbox))

ReceiveAck ==
    \E type \in DOMAIN Acknowledges, n \in 1..Len(wire) :
        LET item == Packet(Acknowledges[type], wire[1].id) IN
        /\ Reading(type, n)
        /\ task' = IF IsValid(item) THEN "acked" ELSE "keepalive"
        /\ count' = IF IsValid(item) THEN count - 1 ELSE count
        /\ outbox' = IF count > 0 THEN RemoveFirst(outbox, item) ELSE outbox
        /\ UNCHANGED <<pending, since, waitPing, toBroker>>

\* PUBREC and PUBREL are answered; an error of the write is ignored.
ReceiveHandshake ==
    \E type \in {"PUBREC", "PUBREL"}, n \in 1..Len(wire), ok \in WriteResults :
        /\ Reading(type, n)
        /\ Wrote(ClientAnswer[type], wire[1].id, ok)
        /\ task' = "keepalive"
        /\ UNCHANGED <<waitPing, count, pending, outbox>>

\* A PUBLISH is answered before it is delivered to the handler.
ReceivePublish ==
    \E type \in {"PUBLISH0", "PUBLISH1", "PUBLISH2"}, n \in 1..Len(wire), ok \in WriteResults :
        /\ Reading(type, n)
        /\ IF type = "PUBLISH0" THEN UNCHANGED <<toBroker, since>>
                                ELSE Wrote(ClientAnswer[type], wire[1].id, ok)
        /\ task' = "acked"
        /\ UNCHANGED <<waitPing, count, pending, outbox>>

ReceivePong ==
    \E n \in 1..Len(wire) :
        /\ Reading("PINGRESP", n)
        /\ task' = "keepalive" /\ waitPing' = FALSE
        /\ UNCHANGED <<since, count, pending, outbox, toBroker>>

-----------------------------------------------------------------------------
(* The rest of a pass in MQTT_STATE_CONNECTED, and MQTT_STATE_WAIT_TIMEOUT. *)

KeepaliveOver == since = HalfKeepalive

\* outbox_delete_expired takes the oldest messages, outbox_cleanup more of them.
Purge(k) ==
    /\ k \in 0..Len(outbox)
    /\ Len(outbox) - k <= OutboxMax
    /\ outbox' = SubSeq(outbox, k + 1, Len(outbox))
    /\ Forget(Range(SubSeq(outbox, 1, k)))
    /\ task' = "loop"
    /\ UNCHANGED <<state, runVars, count, pending, inbuf, swallowed, calls>>

PassQuietly ==
    /\ task = "keepalive" /\ ~KeepaliveOver
    /\ \E k \in 0..Len(outbox) : Purge(k)
    /\ UNCHANGED <<since, waitPing, netVars>>

Ping ==
    /\ task = "keepalive" /\ KeepaliveOver /\ ~waitPing
    /\ TRUE \in WriteResults
    /\ Wrote("PINGREQ", 0, TRUE)
    /\ waitPing' = TRUE
    /\ \E k \in 0..Len(outbox) : Purge(k)
    /\ UNCHANGED <<link, wire>>

\* The last PINGREQ was not answered, or this one cannot be written.
KeepaliveFails ==
    /\ task = "keepalive" /\ KeepaliveOver
    /\ waitPing \/ FALSE \in WriteResults
    /\ AbortConnection
    /\ UNCHANGED <<runVars, trackVars, inbuf, swallowed, calls>>

\* Each pass delays for half of MQTT_RECONNECT_TIMEOUT_MS.
WaitTimeout ==
    /\ InLoop("WAIT_TIMEOUT")
    /\ IF KeepaliveOver
       THEN state' = "INIT" /\ since' = 0
       ELSE since' = Passes(since) /\ UNCHANGED state
    /\ UNCHANGED <<task, runVars, waitPing, trackVars, inbuf, netVars, swallowed, calls>>

LeaveLoop ==
    /\ task = "loop" /\ ~run
    /\ task' = "closing"
    /\ CloseTransport
    /\ UNCHANGED <<state, runVars, since, waitPing, trackVars, inbuf, swallowed, calls>>

\* The bit is set, then the task deletes itself.
EndTask ==
    /\ task = "closing"
    /\ task' = "none" /\ stopped' = TRUE
    /\ UNCHANGED <<state, run, user, early, since, waitPing, trackVars, inbuf, netVars,
                   swallowed, calls>>

-----------------------------------------------------------------------------
(* The event handler, inside the task: any calls, then it returns.         *)

InHandler == task \in {"event", "acked"}

HandlerReturns ==
    /\ InHandler
    /\ task' = IF task = "event" THEN "loop" ELSE "keepalive"
    /\ UNCHANGED <<state, runVars, since, waitPing, trackVars, inbuf, netVars, swallowed, calls>>

\* A call is refused unless the state is CONNECTED.
Calling ==
    /\ InHandler /\ state = "CONNECTED"
    /\ calls < MaxCalls
    /\ calls' = calls + 1
    /\ UNCHANGED <<task, state, runVars, waitPing, inbuf, link, wire, swallowed>>

\* mqtt_enqueue: keep the pending message, if one may be outstanding.
Enqueued(n, item) == IF n > 0 THEN Append(outbox, item) ELSE outbox

SubscribeAlone ==    \* mutated form: the pending message is not moved to the outbox
    \E type \in {"SUBSCRIBE", "UNSUBSCRIBE"}, id \in Ids, ok \in WriteResults :
        /\ Calling
        /\ pending' = Packet(type, id)
        /\ count' = count + 1
        /\ Wrote(type, id, ok)
        /\ UNCHANGED <<outbox, forgotten>>

Subscribe ==
    \E type \in {"SUBSCRIBE", "UNSUBSCRIBE"}, id \in Ids, ok \in WriteResults :
        /\ Calling
        /\ outbox' = Enqueued(count, pending)
        /\ pending' = Packet(type, id)
        /\ count' = count + 1
        /\ Wrote(type, id, ok)
        /\ UNCHANGED forgotten

PublishAtMostOnce ==
    \E ok \in WriteResults :
        /\ Calling
        /\ Wrote("PUBLISH0", 0, ok)
        /\ UNCHANGED trackVars

\* Enqueues the new message: an earlier pending one is overwritten, not kept.
PublishWithAck ==
    \E type \in {"PUBLISH1", "PUBLISH2"}, id \in Ids, ok \in WriteResults :
        LET item == Packet("PUBLISH", id) IN
        /\ Calling
        /\ pending' = item
        /\ count' = count + 1
        /\ outbox' = Enqueued(count + 1, item)
        /\ Forget({pending})
        /\ Wrote(type, id, ok)

-----------------------------------------------------------------------------
(* TCP and the broker.                                                     *)

NetworkOnly == UNCHANGED <<task, state, runVars, since, waitPing, trackVars, inbuf, swallowed, calls>>

BrokerProcesses ==
    /\ link = "up" /\ toBroker # <<>>
    /\ toBroker' = Tail(toBroker)
    /\ LET p == Head(toBroker) IN
       wire' = IF p.type \in DOMAIN BrokerAnswer
               THEN Append(wire, Packet(BrokerAnswer[p.type], p.id)) ELSE wire
    /\ UNCHANGED link /\ NetworkOnly

\* Its ids are its own: they are told apart by the direction, and all 0 here.
BrokerPublishes ==
    /\ link = "up" /\ Len(wire) < MaxWire /\ Len(toBroker) <= MaxWire
    /\ \E type \in {"PUBLISH0", "PUBLISH1", "PUBLISH2"} : wire' = Append(wire, Packet(type, 0))
    /\ UNCHANGED <<link, toBroker>> /\ NetworkOnly

\* The broker closes the connection: what it sent before can still be read.
LoseConnection ==
    /\ link = "up"
    /\ link' = "down" /\ toBroker' = <<>>
    /\ UNCHANGED wire /\ NetworkOnly

\* Nothing comes any more and nobody says so: a half-open connection.
FallSilent ==
    /\ link = "up"
    /\ link' = "silent" /\ toBroker' = <<>> /\ wire' = <<>>
    /\ NetworkOnly

-----------------------------------------------------------------------------
Receive == ReceiveNothing \/ ReceiveFails \/ ReceiveAck \/ ReceiveHandshake
               \/ ReceivePublish \/ ReceivePong
Connect == ConnectFails \/ ConnectAccepted \/ ConnectUnanswered
Keepalive == PassQuietly \/ Ping \/ KeepaliveFails
Call == Subscribe \/ PublishAtMostOnce \/ PublishWithAck

MqttTask == Enter \/ Connect \/ Receive \/ Keepalive \/ WaitTimeout \/ LeaveLoop \/ EndTask
                \/ HandlerReturns
Network == BrokerProcesses \/ BrokerPublishes \/ LoseConnection \/ FallSilent

Next == Start \/ Stop \/ StopReturns \/ MqttTask \/ Call \/ Network

Spec == Init /\ [][Next]_vars

\* The task runs, its blocking calls time out, and the event group wakes the
\* task that waits for STOPPED_BIT.  The network and the user owe nothing.
FairSpec == Spec /\ WF_vars(MqttTask) /\ WF_vars(StopReturns)

-----------------------------------------------------------------------------
(* Safety.                                                                 *)

\* pending_msg_count, which no reconnection resets, is never below the number
\* of requests still to be acknowledged: the test of is_valid_mqtt_msg against
\* 0 rejects no acknowledgement.
CountCovers == count >= Cardinality(Unanswered) + Cardinality(Answers)

\* Every request still to be acknowledged is pending or in the outbox, unless
\* the outbox was purged of it or a publish of QoS 1 or 2 overwrote it.
OutstandingIsTracked == Outstanding \subseteq {pending} \cup Range(outbox) \cup forgotten

\* A PINGREQ the client waits for is with the broker, or its answer with the
\* client, while the connection lives: only packets read together lose it.
PingIsUnderWay ==
    waitPing /\ link = "up" /\ ~swallowed =>
        \/ \E i \in DOMAIN toBroker : toBroker[i].type = "PINGREQ"
        \/ \E i \in DOMAIN wire : wire[i].type = "PINGRESP"

\* What the client waits for can still come, whatever was lost on the way: its
\* count, its outbox and its keepalive agree with the packets under way.
AwaitedIsUnderWay == CountCovers /\ OutstandingIsTracked /\ PingIsUnderWay

\* When esp_mqtt_client_stop has returned, the task is gone and the connection
\* closed, unless the call came before the task had reached its loop.
StopIsHonest == user = "off" /\ ~early => task = "none" /\ link = "down"

\* The inductive invariant behind StopIsHonest: STOPPED_BIT is only set while
\* no task runs, or before the next one has cleared it.
RunInv ==
    /\ stopped => task \in {"none", "entry"}
    /\ task = "none" => link = "down"
    /\ user = "stopping" /\ task = "entry" => early
    /\ user = "off" /\ ~early => task = "none"
    /\ task \in {"none", "entry", "closing"} => link = "down"

-----------------------------------------------------------------------------
(* Liveness.                                                               *)

\* esp_mqtt_client_stop returns, unless it was called before the task had
\* reached its loop, which then undoes it.
StopCompletes == user = "stopping" /\ ~early ~> user = "off" \/ early

\* A half-open connection is noticed and replaced: the keepalive ends it, even
\* one that was never accepted.
SilenceIsNoticed == link = "silent" /\ ~early ~> link # "silent" \/ early

\* A client that lost its connection tries again unless it is stopped.
LostIsRetried == state = "WAIT_TIMEOUT" /\ user = "on" ~> state = "INIT" \/ user # "on"

\* So a connection that is of no use is replaced, however it failed.
LinkIsRenewed == SilenceIsNoticed /\ LostIsRetried
=============================================================================
