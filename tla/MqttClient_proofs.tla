-------------------------- MODULE MqttClient_proofs --------------------------
(* Stopping the MQTT client: esp_mqtt_client_stop against esp_mqtt_task; the *)
(* ping that is awaited; the types; and the requests that are counted and    *)
(* kept in the outbox as often as they can still be acknowledged.            *)
EXTENDS MqttClient, FiniteSetTheorems, WellFoundedInduction, TLAPS

LEMMA InitRunInv == Init => RunInv
  BY DEF Init, RunInv

Outside == {"none", "entry", "closing"}

\* A pass of the loop, the handler included, starts and ends in the loop, and
\* leaves run, STOPPED_BIT and the user task alone.
LEMMA PassStaysInside ==
  ASSUME Connect \/ Receive \/ Keepalive \/ WaitTimeout \/ HandlerReturns \/ Call
  PROVE  task \notin Outside /\ task' \notin Outside /\ UNCHANGED <<stopped, user, early>>
<1> USE DEF Outside, runVars, InLoop
<1>1. CASE Connect
  BY <1>1 DEF Connect, ConnectFails, ConnectAccepted, ConnectUnanswered, SessionStarts,
              AbortConnection
<1>2. CASE Receive
  <2>1. CASE ReceiveNothing BY <2>1 DEF ReceiveNothing
  <2>2. CASE ReceiveFails BY <2>2 DEF ReceiveFails, AbortConnection
  <2>3. CASE ReceiveAck BY <2>3 DEF ReceiveAck, Reading
  <2>4. CASE ReceiveHandshake BY <2>4 DEF ReceiveHandshake, Reading
  <2>5. CASE ReceivePublish BY <2>5 DEF ReceivePublish, Reading
  <2>6. CASE ReceivePong BY <2>6 DEF ReceivePong, Reading
  <2> QED BY <1>2, <2>1, <2>2, <2>3, <2>4, <2>5, <2>6 DEF Receive
<1>3. CASE Keepalive
  <2>1. CASE PassQuietly BY <2>1 DEF PassQuietly, Purge
  <2>2. CASE Ping BY <2>2 DEF Ping, Purge
  <2>3. CASE KeepaliveFails BY <2>3 DEF KeepaliveFails, AbortConnection
  <2> QED BY <1>3, <2>1, <2>2, <2>3 DEF Keepalive
<1>4. CASE WaitTimeout
  BY <1>4 DEF WaitTimeout
<1>5. CASE HandlerReturns
  BY <1>5 DEF HandlerReturns, InHandler
<1>6. CASE Call
  <2>1. CASE Subscribe BY <2>1 DEF Subscribe, Calling, InHandler
  <2>2. CASE PublishAtMostOnce BY <2>2 DEF PublishAtMostOnce, Calling, InHandler
  <2>3. CASE PublishWithAck BY <2>3 DEF PublishWithAck, Calling, InHandler
  <2> QED BY <1>6, <2>1, <2>2, <2>3 DEF Call
<1> QED BY <1>1, <1>2, <1>3, <1>4, <1>5, <1>6

LEMMA NextRunInv ==
  ASSUME RunInv, [Next]_vars
  PROVE  RunInv'
<1>1. CASE Start
  BY <1>1 DEF Start, RunInv, netVars
<1>2. CASE Stop
  BY <1>2 DEF Stop, RunInv, netVars
<1>3. CASE StopReturns
  BY <1>3 DEF StopReturns, RunInv, netVars
<1>4. CASE Enter
  BY <1>4 DEF Enter, RunInv, netVars
<1>5. CASE LeaveLoop
  BY <1>5 DEF LeaveLoop, RunInv, runVars, CloseTransport
<1>6. CASE EndTask
  BY <1>6 DEF EndTask, RunInv, netVars
<1>7. CASE Network
  BY <1>7 DEF Network, BrokerProcesses, BrokerPublishes, LoseConnection, FallSilent,
              NetworkOnly, RunInv, runVars
<1>8. CASE UNCHANGED vars
  BY <1>8 DEF vars, runVars, netVars, RunInv
<1>9. CASE Connect \/ Receive \/ Keepalive \/ WaitTimeout \/ HandlerReturns \/ Call
  BY <1>9, PassStaysInside DEF RunInv, Outside
<1> QED
  BY <1>1, <1>2, <1>3, <1>4, <1>5, <1>6, <1>7, <1>8, <1>9 DEF Next, MqttTask

\* When esp_mqtt_client_stop has returned, no esp_mqtt_task runs and the
\* connection is closed, however often the client is restarted and whatever the
\* network and the handler do, provided stop was not called before the task had
\* reached its loop (mqtt_client.c:652 undoes such a stop).
THEOREM StopIsHonestHolds == Spec => []StopIsHonest
<1>1. RunInv => StopIsHonest
  BY DEF RunInv, StopIsHonest
<1> QED BY <1>1, InitRunInv, NextRunInv, PTL DEF Spec

-----------------------------------------------------------------------------
(* The PINGREQ that the client waits for, followed to the broker and back.   *)

Names == Sent \cup Received
Packets == [type : Names, id : Ids \cup {0}]

PingSent(s) == \E i \in DOMAIN s : s[i].type = "PINGREQ"
PongSent(s) == \E i \in DOMAIN s : s[i].type = "PINGRESP"
Waits == waitPing = TRUE /\ link = "up" /\ swallowed = FALSE

PingInv ==
  /\ toBroker \in Seq(Packets) /\ wire \in Seq(Packets)
  /\ waitPing \in BOOLEAN /\ swallowed \in BOOLEAN
  /\ Waits => PingSent(toBroker) \/ PongSent(wire)

\* Client and broker answer with packets of the protocol.
LEMMA AnswerNames ==
  /\ \A type \in {"PUBLISH1", "PUBLISH2", "PUBREC", "PUBREL"} : ClientAnswer[type] \in Names
  /\ \A type \in DOMAIN BrokerAnswer : BrokerAnswer[type] \in Names
BY DEF ClientAnswer, BrokerAnswer, Names, Sent, Received, Requests

LEMMA EmptyQueue == <<>> \in Seq(Packets)
OBVIOUS

LEMMA Appending ==
  ASSUME NEW s \in Seq(Packets), NEW e \in Packets
  PROVE  /\ Append(s, e) \in Seq(Packets) /\ Len(s) + 1 \in DOMAIN Append(s, e)
         /\ Append(s, e)[Len(s) + 1] = e
         /\ \A i \in DOMAIN s : i \in DOMAIN Append(s, e) /\ Append(s, e)[i] = s[i]
OBVIOUS

\* Writing puts a packet behind the others, or changes nothing.
LEMMA Writing ==
  ASSUME toBroker \in Seq(Packets), NEW type \in Names, NEW id \in Ids \cup {0}, NEW ok \in BOOLEAN,
         Wrote(type, id, ok)
  PROVE  /\ toBroker' \in Seq(Packets)
         /\ PingSent(toBroker) => PingSent(toBroker')
         /\ type = "PINGREQ" /\ ok => PingSent(toBroker')
<1>1. CASE ok
  <2>1. Packet(type, id) \in Packets /\ Packet(type, id).type = type
    BY DEF Packet, Packets
  <2>2. toBroker' = Append(toBroker, Packet(type, id))
    BY <1>1 DEF Wrote
  <2> QED BY <2>1, <2>2, Appending DEF PingSent
<1>2. CASE ~ok
  BY <1>2 DEF Wrote
<1> QED BY <1>1, <1>2

\* A read that takes one packet takes the answer only if it was the first.
LEMMA ReadTakes ==
  ASSUME PingInv, NEW type, NEW n \in 1..Len(wire), Reading(type, n)
  PROVE  /\ wire' \in Seq(Packets) /\ wire[1] \in Packets /\ swallowed' \in BOOLEAN /\ link' = link
         /\ swallowed' = FALSE => swallowed = FALSE
         /\ swallowed' = FALSE /\ type # "PINGRESP" /\ PongSent(wire) => PongSent(wire')
<1>1. /\ wire' = SubSeq(wire, n + 1, Len(wire)) /\ wire[1].type = type /\ link' = link
      /\ swallowed' = (swallowed \/ n > 1)
  BY DEF Reading
<1>2. wire \in Seq(Packets) /\ Len(wire) \in Nat /\ n \in Nat
  BY DEF PingInv
<1>3. wire' \in Seq(Packets)
  BY <1>1, <1>2
<1>4. wire[1] \in Packets
  BY <1>2
<1>5. ASSUME n = 1, type # "PINGRESP", PongSent(wire) PROVE PongSent(wire')
  <2>1. PICK i \in DOMAIN wire : wire[i].type = "PINGRESP"
    BY <1>5 DEF PongSent
  <2>2. i \in 2..Len(wire)
    BY <1>1, <1>2, <1>5, <2>1
  <2>3. i - 1 \in DOMAIN wire' /\ wire'[i - 1] = wire[i]
    BY <1>1, <1>2, <1>5, <2>2
  <2> QED BY <2>1, <2>3 DEF PongSent
<1>6. swallowed' \in BOOLEAN /\ (swallowed' = FALSE => swallowed = FALSE /\ n = 1)
  <2>1. swallowed \in BOOLEAN
    BY DEF PingInv
  <2>2. CASE n > 1
    BY <1>1, <2>1, <2>2
  <2>3. CASE ~(n > 1)
    <3>1. n = 1
      BY <1>2, <2>3
    <3>2. swallowed' = swallowed
      BY <1>1, <2>1, <2>3
    <3> QED BY <2>1, <3>1, <3>2
  <2> QED BY <2>2, <2>3
<1> QED BY <1>1, <1>3, <1>4, <1>5, <1>6

LEMMA ReceivePing ==
  ASSUME PingInv, Receive
  PROVE  PingInv'
<1>1. CASE ReceiveNothing
  BY <1>1 DEF ReceiveNothing, netVars, PingInv, Waits
<1>2. CASE ReceiveFails
  BY <1>2, EmptyQueue DEF ReceiveFails, AbortConnection, CloseTransport, PingInv, Waits
<1>3. CASE ReceiveAck
  <2>1. PICK type \in DOMAIN Acknowledges, n \in 1..Len(wire) : Reading(type, n)
    BY <1>3 DEF ReceiveAck
  <2>2. type # "PINGRESP" /\ UNCHANGED <<waitPing, toBroker>>
    BY <1>3 DEF ReceiveAck, Acknowledges
  <2> QED BY <2>1, <2>2, ReadTakes DEF PingInv, Waits
<1>4. CASE ReceiveHandshake
  <2>1. PICK type \in {"PUBREC", "PUBREL"}, n \in 1..Len(wire), ok \in WriteResults :
           Reading(type, n) /\ Wrote(ClientAnswer[type], wire[1].id, ok) /\ waitPing' = waitPing
    BY <1>4 DEF ReceiveHandshake
  <2>2. wire[1].id \in Ids \cup {0} /\ ok \in BOOLEAN
    BY <2>1, ReadTakes DEF Packets, WriteResults
  <2>3. ClientAnswer[type] \in Names
    BY AnswerNames
  <2> QED BY <2>1, <2>2, <2>3, ReadTakes, Writing DEF PingInv, Waits
<1>5. CASE ReceivePublish
  <2>1. PICK type \in {"PUBLISH0", "PUBLISH1", "PUBLISH2"}, n \in 1..Len(wire), ok \in WriteResults :
           /\ Reading(type, n) /\ waitPing' = waitPing
           /\ IF type = "PUBLISH0" THEN UNCHANGED <<toBroker, since>>
                                   ELSE Wrote(ClientAnswer[type], wire[1].id, ok)
    BY <1>5 DEF ReceivePublish
  <2>2. wire[1].id \in Ids \cup {0} /\ ok \in BOOLEAN
    BY <2>1, ReadTakes DEF Packets, WriteResults
  <2>3. type # "PUBLISH0" => ClientAnswer[type] \in Names
    BY AnswerNames
  <2> QED BY <2>1, <2>2, <2>3, ReadTakes, Writing DEF PingInv, Waits
<1>6. CASE ReceivePong
  <2>1. PICK n \in 1..Len(wire) : Reading("PINGRESP", n) /\ waitPing' = FALSE /\ toBroker' = toBroker
    BY <1>6 DEF ReceivePong
  <2> QED BY <2>1, ReadTakes DEF PingInv, Waits
<1> QED BY <1>1, <1>2, <1>3, <1>4, <1>5, <1>6 DEF Receive

\* The broker's answer to a PINGREQ is behind what it sent before.
LEMMA NetworkPing ==
  ASSUME PingInv, Network
  PROVE  PingInv'
<1>1. CASE BrokerProcesses
  <2> DEFINE p == Head(toBroker)
  <2>1. /\ toBroker # <<>> /\ toBroker' = Tail(toBroker) /\ UNCHANGED <<link, waitPing, swallowed>>
        /\ wire' = IF p.type \in DOMAIN BrokerAnswer
                   THEN Append(wire, Packet(BrokerAnswer[p.type], p.id)) ELSE wire
    BY <1>1 DEF BrokerProcesses, NetworkOnly
  <2>2. /\ p \in Packets /\ p = toBroker[1] /\ toBroker' \in Seq(Packets)
        /\ \A i \in DOMAIN toBroker : i # 1 => i - 1 \in DOMAIN toBroker' /\ toBroker'[i - 1] = toBroker[i]
    BY <2>1 DEF PingInv
  <2> HIDE DEF p
  <2>3. CASE p.type \in DOMAIN BrokerAnswer
    <3>1. PICK e : e = Packet(BrokerAnswer[p.type], p.id)
      OBVIOUS
    <3>2. e \in Packets /\ e.type = BrokerAnswer[p.type]
      <4>1. BrokerAnswer[p.type] \in Names /\ p.id \in Ids \cup {0}
        BY <2>2, <2>3, AnswerNames DEF Packets
      <4> QED BY <3>1, <4>1 DEF Packet, Packets
    <3>3. wire \in Seq(Packets) /\ wire' = Append(wire, e)
      BY <2>1, <2>3, <3>1 DEF PingInv
    <3>4. /\ wire' \in Seq(Packets) /\ Len(wire) + 1 \in DOMAIN wire' /\ wire'[Len(wire) + 1] = e
          /\ \A i \in DOMAIN wire : i \in DOMAIN wire' /\ wire'[i] = wire[i]
      BY <3>2, <3>3, Appending
    <3>5. PongSent(wire) => PongSent(wire')
      BY <3>4 DEF PongSent
    <3>6. p.type = "PINGREQ" => PongSent(wire')
      BY <3>2, <3>4 DEF PongSent, BrokerAnswer
    <3>7. p.type # "PINGREQ" /\ PingSent(toBroker) => PingSent(toBroker')
      BY <2>2 DEF PingSent
    <3> QED BY <2>1, <2>2, <3>4, <3>5, <3>6, <3>7 DEF PingInv, Waits
  <2>4. CASE p.type \notin DOMAIN BrokerAnswer
    <3>1. p.type # "PINGREQ" /\ wire' = wire
      BY <2>1, <2>4 DEF BrokerAnswer
    <3>2. PingSent(toBroker) => PingSent(toBroker')
      BY <2>2, <3>1 DEF PingSent
    <3> QED BY <2>1, <2>2, <3>1, <3>2 DEF PingInv, Waits
  <2> QED BY <2>3, <2>4
<1>2. CASE BrokerPublishes
  <2>1. PICK type \in {"PUBLISH0", "PUBLISH1", "PUBLISH2"} : wire' = Append(wire, Packet(type, 0))
    BY <1>2 DEF BrokerPublishes
  <2>2. Packet(type, 0) \in Packets /\ wire \in Seq(Packets)
    BY DEF Packet, Packets, PingInv, Names, Received
  <2>3. wire' \in Seq(Packets) /\ (PongSent(wire) => PongSent(wire'))
    BY <2>1, <2>2, Appending DEF PongSent
  <2> QED BY <1>2, <2>3 DEF BrokerPublishes, NetworkOnly, PingInv, Waits
<1>3. CASE LoseConnection \/ FallSilent
  BY <1>3, EmptyQueue DEF LoseConnection, FallSilent, NetworkOnly, PingInv, Waits
<1> QED BY <1>1, <1>2, <1>3 DEF Network

\* What the client writes besides.
LEMMA WritePing ==
  ASSUME PingInv, Keepalive \/ Call
  PROVE  PingInv'
<1>1. CASE PassQuietly
  BY <1>1 DEF PassQuietly, Purge, netVars, PingInv, Waits
<1>2. CASE Ping
  <2>1. Wrote("PINGREQ", 0, TRUE) /\ waitPing' = TRUE /\ UNCHANGED <<link, wire, swallowed>>
    BY <1>2 DEF Ping, Purge
  <2>2. "PINGREQ" \in Names /\ toBroker \in Seq(Packets)
    BY DEF Names, Sent, PingInv
  <2>3. toBroker' \in Seq(Packets) /\ PingSent(toBroker')
    BY <2>1, <2>2, Writing
  <2> QED BY <2>1, <2>3 DEF PingInv, Waits
<1>3. CASE KeepaliveFails
  BY <1>3, EmptyQueue DEF KeepaliveFails, AbortConnection, CloseTransport, PingInv, Waits
<1>4. CASE Call
  <2>1. \E type \in Names, id \in Ids \cup {0}, ok \in BOOLEAN :
           Calling /\ Wrote(type, id, ok)
    BY <1>4 DEF Call, Subscribe, PublishAtMostOnce, PublishWithAck, WriteResults, Names, Sent, Requests
  <2> QED BY <2>1, Writing DEF Calling, PingInv, Waits
<1> QED BY <1>1, <1>2, <1>3, <1>4 DEF Keepalive

LEMMA OtherPing ==
  ASSUME PingInv, Connect \/ WaitTimeout \/ HandlerReturns \/ Start \/ Stop \/ StopReturns
                  \/ Enter \/ LeaveLoop \/ EndTask \/ UNCHANGED vars
  PROVE  PingInv'
<1>1. CASE Connect
  BY <1>1, EmptyQueue DEF Connect, ConnectFails, ConnectAccepted, ConnectUnanswered, SessionStarts,
                          AbortConnection, CloseTransport, PingInv, Waits
<1>2. CASE LeaveLoop
  BY <1>2, EmptyQueue DEF LeaveLoop, CloseTransport, PingInv, Waits
<1>3. CASE WaitTimeout \/ HandlerReturns \/ Start \/ Stop \/ StopReturns \/ Enter \/ EndTask \/ UNCHANGED vars
  BY <1>3 DEF WaitTimeout, HandlerReturns, Start, Stop, StopReturns, Enter, EndTask, vars, netVars,
              PingInv, Waits
<1> QED BY <1>1, <1>2, <1>3

\* The keepalive waits for nothing that cannot come: while the connection lives,
\* the PINGREQ is with the broker or its answer with the client, unless a read
\* took several packets at once (mqtt_client.c, mqtt_process_receive, looks at
\* the first only).
THEOREM PingIsUnderWayHolds == Spec => []PingIsUnderWay
<1>1. Init => PingInv
  BY EmptyQueue DEF Init, PingInv, Waits
<1>2. PingInv /\ [Next]_vars => PingInv'
  BY ReceivePing, NetworkPing, WritePing, OtherPing DEF Next, MqttTask
<1>3. PingInv => PingIsUnderWay
  BY DEF PingInv, Waits, PingSent, PongSent, PingIsUnderWay
<1> QED BY <1>1, <1>2, <1>3, PTL DEF Spec
-----------------------------------------------------------------------------
(* How often members of a set occur in a sequence.                           *)

Places(s, T) == {i \in DOMAIN s : s[i] \in T}
Count(s, T) == Cardinality(Places(s, T))
One(P) == IF P THEN 1 ELSE 0

LEMMA PlacesFinite ==
  ASSUME NEW S, NEW s \in Seq(S), NEW T
  PROVE  IsFiniteSet(Places(s, T)) /\ Count(s, T) \in Nat
<1>1. DOMAIN s = 1..Len(s) /\ Len(s) \in Int
  OBVIOUS
<1>2. IsFiniteSet(1..Len(s))
  BY <1>1, FS_Interval
<1>3. Places(s, T) \in SUBSET (1..Len(s))
  BY <1>1 DEF Places
<1> QED BY <1>2, <1>3, FS_Subset, FS_CardinalityType DEF Count

\* An injection into a finite set bounds what it maps.
LEMMA Injected ==
  ASSUME NEW A, NEW B, IsFiniteSet(B), NEW f \in [A -> B], \A a, b \in A : f[a] = f[b] => a = b
  PROVE  Cardinality(A) <= Cardinality(B)
<1>1. f \in Injection(A, B)
  BY DEF Injection, IsInjective
<1> QED BY <1>1, FS_Injection

\* More is counted where more counts, nothing where nothing does.
LEMMA CountSubset ==
  ASSUME NEW S, NEW s \in Seq(S), NEW T, NEW U, \A i \in DOMAIN s : s[i] \in T => s[i] \in U
  PROVE  Count(s, T) <= Count(s, U)
<1>1. Places(s, T) \in SUBSET Places(s, U)
  BY DEF Places
<1> QED BY <1>1, PlacesFinite, FS_Subset DEF Count

LEMMA CountNone ==
  ASSUME NEW S, NEW s \in Seq(S), NEW T
  PROVE  Count(s, T) = 0 <=> \A i \in DOMAIN s : s[i] \notin T
<1>1. Count(s, T) = 0 <=> Places(s, T) = {}
  BY PlacesFinite, FS_EmptySet DEF Count
<1> QED BY <1>1 DEF Places

LEMMA CountAppend ==
  ASSUME NEW S, NEW s \in Seq(S), NEW e \in S, NEW T
  PROVE  Count(Append(s, e), T) = Count(s, T) + One(e \in T)
<1>1. /\ DOMAIN Append(s, e) = DOMAIN s \cup {Len(s) + 1} /\ Len(s) + 1 \notin DOMAIN s
      /\ \A i \in DOMAIN s : Append(s, e)[i] = s[i]
      /\ Append(s, e)[Len(s) + 1] = e
  OBVIOUS
<1>2. CASE e \in T
  <2>1. Places(Append(s, e), T) = Places(s, T) \cup {Len(s) + 1} /\ Len(s) + 1 \notin Places(s, T)
    BY <1>1, <1>2 DEF Places
  <2> QED BY <1>2, <2>1, PlacesFinite, FS_AddElement DEF Count, One
<1>3. CASE e \notin T
  <2>1. Places(Append(s, e), T) = Places(s, T)
    BY <1>1, <1>3 DEF Places
  <2> QED BY <1>3, <2>1, PlacesFinite DEF Count, One
<1> QED BY <1>2, <1>3

\* The rest and the beginning of a sequence.
LEMMA Latter ==
  ASSUME NEW S, NEW s \in Seq(S), NEW k \in 0..Len(s)
  PROVE  /\ SubSeq(s, k + 1, Len(s)) \in Seq(S) /\ Len(SubSeq(s, k + 1, Len(s))) = Len(s) - k
         /\ \A i \in 1..(Len(s) - k) : SubSeq(s, k + 1, Len(s))[i] = s[i + k]
OBVIOUS

LEMMA Former ==
  ASSUME NEW S, NEW s \in Seq(S), NEW k \in 0..Len(s)
  PROVE  /\ SubSeq(s, 1, k) \in Seq(S) /\ Len(SubSeq(s, 1, k)) = k
         /\ \A i \in 1..k : SubSeq(s, 1, k)[i] = s[i]
OBVIOUS

\* What is left when the first n are taken counts no more than the rest did.
LEMMA CountDrop ==
  ASSUME NEW S, NEW s \in Seq(S), NEW n \in 1..Len(s), NEW T
  PROVE  Count(SubSeq(s, n + 1, Len(s)), T) + One(s[1] \in T) <= Count(s, T)
<1> DEFINE t == SubSeq(s, n + 1, Len(s))
           f == [i \in Places(t, T) |-> i + n]
<1>1. t \in Seq(S) /\ DOMAIN t = 1..(Len(s) - n) /\ DOMAIN s = 1..Len(s) /\ Len(s) \in Nat /\ n \in Nat
  OBVIOUS
<1>2. \A i \in DOMAIN t : t[i] = s[i + n] /\ i + n \in DOMAIN s /\ i + n # 1 /\ i \in Int
  <2>1. n \in 0..Len(s) /\ \A i \in 1..(Len(s) - n) : t[i] = s[i + n]
    BY <1>1, Latter
  <2> QED BY <1>1, <2>1
<1> HIDE DEF t
<1>3. f \in [Places(t, T) -> Places(s, T) \ {1}]
  BY <1>2 DEF Places
<1>4. \A i, j \in Places(t, T) : f[i] = f[j] => i = j
  BY <1>1, <1>2 DEF Places
<1>5. IsFiniteSet(Places(s, T)) /\ Count(s, T) \in Nat
  BY PlacesFinite
<1>6. /\ IsFiniteSet(Places(s, T) \ {1})
      /\ Cardinality(Places(s, T) \ {1}) = IF 1 \in Places(s, T) THEN Count(s, T) - 1 ELSE Count(s, T)
  BY <1>5, FS_RemoveElement DEF Count
<1>7. Count(t, T) <= Cardinality(Places(s, T) \ {1})
  <2> HIDE DEF f
  <2> QED BY <1>3, <1>4, <1>6, Injected DEF Count
<1>8. 1 \in Places(s, T) <=> s[1] \in T
  BY <1>1 DEF Places
<1>9. Count(t, T) \in Nat
  BY <1>1, PlacesFinite
<1> QED BY <1>5, <1>6, <1>7, <1>8, <1>9 DEF t, One

\* The sequence without its k-th member.
LEMMA Removed ==
  ASSUME NEW S, NEW s \in Seq(S), NEW k \in 1..Len(s)
  PROVE  /\ RemoveAt(s, k) \in Seq(S) /\ DOMAIN RemoveAt(s, k) = 1..(Len(s) - 1)
         /\ \A i \in 1..Len(s) : i < k => i \in DOMAIN RemoveAt(s, k) /\ RemoveAt(s, k)[i] = s[i]
         /\ \A i \in 1..Len(s) : i > k => i - 1 \in DOMAIN RemoveAt(s, k) /\ RemoveAt(s, k)[i - 1] = s[i]
<1>1. PICK a : a = SubSeq(s, 1, k - 1)
  OBVIOUS
<1>2. PICK b : b = SubSeq(s, k + 1, Len(s))
  OBVIOUS
<1>3. Len(s) \in Nat /\ k \in Nat /\ k - 1 \in 0..Len(s)
  OBVIOUS
<1>4. a \in Seq(S) /\ Len(a) = k - 1 /\ \A i \in 1..(k - 1) : a[i] = s[i]
  BY <1>1, <1>3, Former
<1>5. b \in Seq(S) /\ Len(b) = Len(s) - k /\ \A i \in 1..(Len(s) - k) : b[i] = s[i + k]
  BY <1>2, Latter
<1>6. PICK r : r = a \o b
  OBVIOUS
<1>7. /\ r \in Seq(S) /\ DOMAIN r = 1..(Len(a) + Len(b))
      /\ \A i \in 1..Len(a) : r[i] = a[i]
      /\ \A i \in 1..Len(b) : r[i + Len(a)] = b[i]
  <2>1. a \in Seq(S) /\ b \in Seq(S)
    BY <1>4, <1>5
  <2>2. /\ a \o b \in Seq(S) /\ DOMAIN (a \o b) = 1..(Len(a) + Len(b))
        /\ \A i \in 1..Len(a) : (a \o b)[i] = a[i]
        /\ \A i \in 1..Len(b) : (a \o b)[i + Len(a)] = b[i]
    BY <2>1
  <2> QED BY <1>6, <2>2, Zenon
<1>8. DOMAIN r = 1..(Len(s) - 1)
  BY <1>3, <1>4, <1>5, <1>7
<1>9. ASSUME NEW i \in 1..Len(s), i < k PROVE i \in DOMAIN r /\ r[i] = s[i]
  <2>1. i \in 1..(k - 1)
    BY <1>3, <1>9
  <2> QED BY <1>3, <1>4, <1>7, <1>8, <2>1
<1>10. ASSUME NEW i \in 1..Len(s), i > k PROVE i - 1 \in DOMAIN r /\ r[i - 1] = s[i]
  <2>1. i - k \in 1..(Len(s) - k) /\ i - k + (k - 1) = i - 1 /\ i - k + k = i
    BY <1>3, <1>10
  <2>2. r[i - k + (k - 1)] = b[i - k] /\ b[i - k] = s[i - k + k]
    BY <1>4, <1>5, <1>7, <2>1
  <2> QED BY <1>3, <1>8, <1>10, <2>1, <2>2
<1> QED BY <1>1, <1>2, <1>6, <1>7, <1>8, <1>9, <1>10 DEF RemoveAt

\* Removing one of a sequence takes no other away.
LEMMA CountRemove ==
  ASSUME NEW S, NEW s \in Seq(S), NEW k \in 1..Len(s), NEW T
  PROVE  Count(s, T) <= Count(RemoveAt(s, k), T) + One(s[k] \in T)
<1> DEFINE f == [i \in Places(s, T) \ {k} |-> IF i < k THEN i ELSE i - 1]
<1>1. DOMAIN s = 1..Len(s) /\ Len(s) \in Nat /\ k \in Nat
  OBVIOUS
<1>2. PICK r : r = RemoveAt(s, k)
  OBVIOUS
<1>3. /\ r \in Seq(S) /\ DOMAIN r = 1..(Len(s) - 1)
      /\ \A i \in DOMAIN s : i < k => i \in DOMAIN r /\ r[i] = s[i]
      /\ \A i \in DOMAIN s : i > k => i - 1 \in DOMAIN r /\ r[i - 1] = s[i]
  BY <1>1, <1>2, Removed
<1>4. \A i \in DOMAIN s : i \in Int /\ (i # k => i < k \/ i > k)
  BY <1>1
<1>5. f \in [Places(s, T) \ {k} -> Places(r, T)]
  <2> SUFFICES ASSUME NEW i \in Places(s, T), i # k
               PROVE  (IF i < k THEN i ELSE i - 1) \in Places(r, T)
    OBVIOUS
  <2> QED BY <1>3, <1>4 DEF Places
<1>6. \A i, j \in Places(s, T) \ {k} : f[i] = f[j] => i = j
  BY <1>4, <1>1 DEF Places
<1>7. IsFiniteSet(Places(s, T)) /\ Count(s, T) \in Nat /\ IsFiniteSet(Places(r, T)) /\ Count(r, T) \in Nat
  BY <1>3, PlacesFinite
<1>8. Cardinality(Places(s, T) \ {k}) <= Count(r, T)
  <2> HIDE DEF f
  <2> QED BY <1>5, <1>6, <1>7, Injected DEF Count
<1>9. Cardinality(Places(s, T) \ {k}) = IF k \in Places(s, T) THEN Count(s, T) - 1 ELSE Count(s, T)
  BY <1>7, FS_RemoveElement DEF Count
<1>10. k \in Places(s, T) <=> s[k] \in T
  BY <1>1 DEF Places
<1> QED BY <1>7, <1>8, <1>9, <1>10, <1>2 DEF One

\* Dropping the first k loses nothing that is not among them.
LEMMA CountPurge ==
  ASSUME NEW S, NEW s \in Seq(S), NEW k \in 0..Len(s), NEW T, \A i \in 1..k : s[i] \notin T
  PROVE  Count(s, T) <= Count(SubSeq(s, k + 1, Len(s)), T)
<1> DEFINE t == SubSeq(s, k + 1, Len(s))
           f == [i \in Places(s, T) |-> i - k]
<1>1. DOMAIN s = 1..Len(s) /\ Len(s) \in Nat /\ k \in Nat
  OBVIOUS
<1>2. t \in Seq(S) /\ DOMAIN t = 1..(Len(s) - k) /\ \A i \in 1..(Len(s) - k) : t[i] = s[i + k]
  BY <1>1, Latter
<1> HIDE DEF t
<1>3. \A i \in Places(s, T) : i \in DOMAIN s /\ i \in Int /\ i > k /\ s[i] \in T
  BY <1>1 DEF Places
<1>4. f \in [Places(s, T) -> Places(t, T)]
  <2> SUFFICES ASSUME NEW i \in Places(s, T) PROVE i - k \in Places(t, T)
    OBVIOUS
  <2>1. i - k \in DOMAIN t /\ t[i - k] = s[i]
    <3>1. i - k \in 1..(Len(s) - k) /\ i - k + k = i
      BY <1>1, <1>3
    <3>2. t[i - k] = s[i - k + k]
      BY <1>2, <3>1
    <3> QED BY <1>2, <3>1, <3>2
  <2> QED BY <1>3, <2>1 DEF Places
<1>5. \A i, j \in Places(s, T) : f[i] = f[j] => i = j
  BY <1>1, <1>3
<1>6. IsFiniteSet(Places(t, T))
  BY <1>2, PlacesFinite
<1> HIDE DEF f
<1> QED BY <1>4, <1>5, <1>6, Injected DEF Count, t

-----------------------------------------------------------------------------
(* Types.  The packets in flight, what the client keeps of them, the rest.   *)

ToBroker == [type : Sent, id : Ids \cup {0}]
FromBroker == [type : Received, id : Ids \cup {0}]

NetType == toBroker \in Seq(ToBroker) /\ wire \in Seq(FromBroker) /\ link \in {"down", "up", "silent"}

\* Each request was a call, so that pending_msg_count is bounded with them.
TrackType ==
  /\ count \in Nat /\ calls \in 0..MaxCalls /\ count <= calls
  /\ pending \in Items /\ outbox \in Seq(Items) /\ forgotten \subseteq Items

RestType ==
  /\ task \in {"none", "entry", "loop", "event", "acked", "keepalive", "closing"}
  /\ run \in BOOLEAN /\ stopped \in BOOLEAN /\ early \in BOOLEAN
  /\ waitPing \in BOOLEAN /\ swallowed \in BOOLEAN
  /\ state \in {"UNKNOWN", "INIT", "CONNECTED", "WAIT_TIMEOUT"}
  /\ user \in {"off", "on", "stopping"}
  /\ since \in 0..HalfKeepalive
  /\ inbuf \in {"CONNACK", "other"}

LEMMA AnswerTypes ==
  /\ \A type \in DOMAIN ClientAnswer : ClientAnswer[type] \in Sent
  /\ \A type \in DOMAIN BrokerAnswer : BrokerAnswer[type] \in Received
  /\ DOMAIN ClientAnswer = {"PUBLISH1", "PUBLISH2", "PUBREC", "PUBREL"}
BY DEF ClientAnswer, BrokerAnswer, Sent, Received, Requests

\* A packet is written behind the others and restarts the keepalive period.
LEMMA WriteTypes ==
  ASSUME NetType, since \in 0..HalfKeepalive, NEW type \in Sent, NEW id \in Ids \cup {0},
         NEW ok \in BOOLEAN, Wrote(type, id, ok)
  PROVE  toBroker' \in Seq(ToBroker) /\ since' \in 0..HalfKeepalive
<1>1. Packet(type, id) \in ToBroker
  BY DEF Packet, ToBroker
<1>2. CASE ok
  <2>1. toBroker' = Append(toBroker, Packet(type, id)) /\ since' = 0
    BY <1>2 DEF Wrote
  <2> QED BY <1>1, <2>1, MqttAssumption DEF NetType
<1>3. CASE ~ok
  BY <1>3 DEF Wrote, NetType
<1> QED BY <1>2, <1>3

LEMMA ReadTypes ==
  ASSUME NetType, NEW type, NEW n \in 1..Len(wire), Reading(type, n)
  PROVE  /\ wire' \in Seq(FromBroker) /\ link' = link /\ forgotten' = forgotten /\ calls' = calls
         /\ wire[1].id \in Ids \cup {0} /\ state = "CONNECTED" /\ inbuf' = "other"
         /\ UNCHANGED <<state, run, stopped, user, early>>
<1>1. wire # <<>> /\ wire' = SubSeq(wire, n + 1, Len(wire)) /\ n \in Nat /\ wire \in Seq(FromBroker)
  BY DEF Reading, NetType
<1>2. wire' \in Seq(FromBroker)
  BY <1>1
<1>3. wire[1].id \in Ids \cup {0}
  <2>1. wire[1] \in FromBroker
    BY <1>1
  <2> QED BY <2>1 DEF FromBroker
<1> QED BY <1>2, <1>3 DEF Reading, InLoop, runVars

LEMMA NetworkTypes ==
  ASSUME NetType, Network
  PROVE  NetType'
<1>1. CASE BrokerProcesses
  <2> DEFINE p == Head(toBroker)
  <2>1. /\ toBroker # <<>> /\ toBroker' = Tail(toBroker) /\ link' = link
        /\ wire' = IF p.type \in DOMAIN BrokerAnswer
                   THEN Append(wire, Packet(BrokerAnswer[p.type], p.id)) ELSE wire
    BY <1>1 DEF BrokerProcesses
  <2>2. p \in ToBroker /\ toBroker' \in Seq(ToBroker) /\ wire \in Seq(FromBroker)
    BY <2>1 DEF NetType
  <2> HIDE DEF p
  <2>3. p.type \in DOMAIN BrokerAnswer => Packet(BrokerAnswer[p.type], p.id) \in FromBroker
    <3>1. p.id \in Ids \cup {0}
      BY <2>2 DEF ToBroker
    <3> QED BY <3>1, AnswerTypes DEF Packet, FromBroker
  <2>4. wire' \in Seq(FromBroker)
    BY <2>1, <2>2, <2>3
  <2> QED BY <2>1, <2>2, <2>4 DEF NetType
<1>2. CASE BrokerPublishes
  <2>1. PICK type \in {"PUBLISH0", "PUBLISH1", "PUBLISH2"} : wire' = Append(wire, Packet(type, 0))
    BY <1>2 DEF BrokerPublishes
  <2>2. Packet(type, 0) \in FromBroker
    BY DEF Packet, FromBroker, Received
  <2> QED BY <1>2, <2>1, <2>2 DEF BrokerPublishes, NetType
<1>3. CASE LoseConnection \/ FallSilent
  <2>1. <<>> \in Seq(ToBroker) /\ <<>> \in Seq(FromBroker)
    OBVIOUS
  <2> QED BY <1>3, <2>1 DEF LoseConnection, FallSilent, NetType
<1> QED BY <1>1, <1>2, <1>3 DEF Network

\* A nonempty set of natural numbers has its minimum.
LEMMA MinOfNats == ASSUME NEW S \in SUBSET Nat, S # {} PROVE Min(S) \in S
<1> DEFINE R == {ss \in Nat \X Nat : ss[1] < ss[2]}
<1>1. IsWellFoundedOn(R, Nat)
  BY NatLessThanWellFounded DEF OpToRel
<1>2. PICK x \in S : \A y \in S : <<y, x>> \notin R
  <2> HIDE DEF R
  <2> QED BY <1>1, WFMin
<1>3. \A y \in S : x <= y
  <2> SUFFICES ASSUME NEW y \in S PROVE ~(y < x)
    OBVIOUS
  <2>1. y < x => <<y, x>> \in R
    OBVIOUS
  <2> HIDE DEF R
  <2> QED BY <1>2, <2>1
<1> QED BY <1>2, <1>3 DEF Min

\* RemoveFirst takes one message of the outbox, or there was none to take.
LEMMA RemoveIs ==
  ASSUME outbox \in Seq(Items), NEW item
  PROVE  \/ RemoveFirst(outbox, item) = outbox
         \/ \E k \in 1..Len(outbox) : outbox[k] = item /\ RemoveFirst(outbox, item) = RemoveAt(outbox, k)
<1>1. CASE \E i \in 1..Len(outbox) : outbox[i] = item
  <2> DEFINE I == {i \in 1..Len(outbox) : outbox[i] = item}
  <2>1. I \in SUBSET Nat /\ I # {} /\ \A i \in I : i \in 1..Len(outbox) /\ outbox[i] = item
    BY <1>1
  <2>2. RemoveFirst(outbox, item) = RemoveAt(outbox, SelectInSeq(outbox, LAMBDA v : v = item))
    BY <1>1 DEF RemoveFirst
  <2>3. SelectInSeq(outbox, LAMBDA v : v = item) = Min(I)
    BY <2>1 DEF SelectInSeq
  <2>4. RemoveFirst(outbox, item) = RemoveAt(outbox, Min(I))
    BY <2>2, <2>3
  <2> HIDE DEF I
  <2>5. Min(I) \in I
    BY <2>1, MinOfNats
  <2> QED BY <2>1, <2>4, <2>5
<1>2. CASE ~ \E i \in 1..Len(outbox) : outbox[i] = item
  BY <1>2 DEF RemoveFirst
<1> QED BY <1>1, <1>2

LEMMA RemoveTypes ==
  ASSUME outbox \in Seq(Items), NEW item
  PROVE  RemoveFirst(outbox, item) \in Seq(Items)
BY RemoveIs, Removed

\* The oldest messages leave the outbox.
LEMMA PurgeTypes ==
  ASSUME TrackType, NEW k \in 0..Len(outbox), Purge(k)
  PROVE  TrackType'
<1>1. /\ outbox' = SubSeq(outbox, k + 1, Len(outbox)) /\ UNCHANGED <<count, pending, calls>>
      /\ forgotten' = forgotten \cup (Range(SubSeq(outbox, 1, k)) \cap Outstanding)
  BY DEF Purge, Forget
<1>2. outbox' \in Seq(Items) /\ SubSeq(outbox, 1, k) \in Seq(Items)
  BY <1>1 DEF TrackType
<1>3. Range(SubSeq(outbox, 1, k)) \subseteq Items
  BY <1>2 DEF Range
<1> QED BY <1>1, <1>2, <1>3 DEF TrackType

Types == NetType /\ TrackType /\ RestType

LEMMA EmptyTypes == <<>> \in Seq(ToBroker) /\ <<>> \in Seq(FromBroker) /\ <<>> \in Seq(Items)
OBVIOUS

LEMMA AbortTypes ==
  ASSUME AbortConnection
  PROVE  NetType' /\ since' = 0 /\ waitPing' = FALSE /\ task' = "event" /\ state' = "WAIT_TIMEOUT"
BY EmptyTypes DEF AbortConnection, CloseTransport, NetType

LEMMA ConnectTypes ==
  ASSUME Types, Connect
  PROVE  Types'
<1>1. Packet("CONNECT", 0) \in Items
  BY DEF Packet, Items
<1>2. CASE ConnectFails
  <2>1. TrackType'
    BY <1>1, <1>2 DEF ConnectFails, Types, TrackType
  <2>2. RestType'
    BY <1>2, AbortTypes, MqttAssumption DEF ConnectFails, runVars, Types, RestType
  <2> QED BY <1>2, <2>1, <2>2, AbortTypes DEF ConnectFails, Types
<1>3. ASSUME NEW l \in {"up", "silent"}, SessionStarts(l) PROVE Types'
  <2>1. NetType'
    BY <1>3 DEF SessionStarts, Types, NetType
  <2>2. TrackType'
    BY <1>1, <1>3 DEF SessionStarts, Types, TrackType
  <2>3. RestType'
    BY <1>3 DEF SessionStarts, runVars, Types, RestType
  <2> QED BY <2>1, <2>2, <2>3 DEF Types
<1> QED BY <1>2, <1>3 DEF Connect, ConnectAccepted, ConnectUnanswered

LEMMA ReceiveTypes ==
  ASSUME Types, Receive
  PROVE  Types'
<1> USE DEF Types
<1>1. CASE ReceiveNothing
  <2>1. since' \in 0..HalfKeepalive
    BY <1>1, MqttAssumption DEF ReceiveNothing, Passes, RestType
  <2> QED BY <1>1, <2>1 DEF ReceiveNothing, runVars, netVars, trackVars, NetType, TrackType, RestType
<1>2. CASE ReceiveFails
  <2>1. TrackType'
    BY <1>2 DEF ReceiveFails, trackVars, TrackType
  <2>2. RestType'
    BY <1>2, AbortTypes, MqttAssumption DEF ReceiveFails, runVars, RestType
  <2> QED BY <1>2, <2>1, <2>2, AbortTypes DEF ReceiveFails
<1>3. ASSUME NEW type, NEW n \in 1..Len(wire), Reading(type, n) PROVE swallowed' \in BOOLEAN
  <2>1. swallowed' = (swallowed \/ n > 1)
    BY <1>3 DEF Reading
  <2> QED BY <2>1, Zenon
<1>4. CASE ReceiveAck
  <2>1. PICK type \in DOMAIN Acknowledges, n \in 1..Len(wire) :
           LET item == Packet(Acknowledges[type], wire[1].id) IN
           /\ Reading(type, n)
           /\ task' = IF IsValid(item) THEN "acked" ELSE "keepalive"
           /\ count' = IF IsValid(item) THEN count - 1 ELSE count
           /\ outbox' = IF count > 0 THEN RemoveFirst(outbox, item) ELSE outbox
           /\ UNCHANGED <<pending, since, waitPing, toBroker>>
    BY <1>4 DEF ReceiveAck
  <2> DEFINE item == Packet(Acknowledges[type], wire[1].id)
  <2>2. NetType' /\ RestType'
    BY <1>3, <2>1, ReadTypes DEF NetType, RestType
  <2>3. count' \in Nat /\ count' <= calls
    BY <2>1, MqttAssumption DEF IsValid, TrackType
  <2>4. outbox' \in Seq(Items)
    BY <2>1, RemoveTypes DEF TrackType
  <2> QED BY <2>1, <2>2, <2>3, <2>4, ReadTypes DEF TrackType
<1>5. CASE ReceiveHandshake
  <2>1. PICK type \in {"PUBREC", "PUBREL"}, n \in 1..Len(wire), ok \in WriteResults :
           /\ Reading(type, n) /\ Wrote(ClientAnswer[type], wire[1].id, ok)
           /\ task' = "keepalive" /\ UNCHANGED <<waitPing, count, pending, outbox>>
    BY <1>5 DEF ReceiveHandshake
  <2>2. toBroker' \in Seq(ToBroker) /\ since' \in 0..HalfKeepalive
    <3>1. ClientAnswer[type] \in Sent /\ ok \in BOOLEAN
      BY AnswerTypes DEF WriteResults
    <3> QED BY <2>1, <3>1, ReadTypes, WriteTypes DEF RestType
  <2>3. TrackType'
    BY <2>1, ReadTypes DEF TrackType
  <2> QED BY <1>3, <2>1, <2>2, <2>3, ReadTypes DEF NetType, RestType
<1>6. CASE ReceivePublish
  <2>1. PICK type \in {"PUBLISH0", "PUBLISH1", "PUBLISH2"}, n \in 1..Len(wire), ok \in WriteResults :
           /\ Reading(type, n)
           /\ IF type = "PUBLISH0" THEN UNCHANGED <<toBroker, since>>
                                   ELSE Wrote(ClientAnswer[type], wire[1].id, ok)
           /\ task' = "acked" /\ UNCHANGED <<waitPing, count, pending, outbox>>
    BY <1>6 DEF ReceivePublish
  <2>2. toBroker' \in Seq(ToBroker) /\ since' \in 0..HalfKeepalive
    <3>1. CASE type = "PUBLISH0"
      BY <2>1, <3>1 DEF NetType, RestType
    <3>2. CASE type # "PUBLISH0"
      <4>1. ClientAnswer[type] \in Sent /\ ok \in BOOLEAN
        BY <3>2, AnswerTypes DEF WriteResults
      <4> QED BY <2>1, <3>2, <4>1, ReadTypes, WriteTypes DEF RestType
    <3> QED BY <3>1, <3>2
  <2>3. TrackType'
    BY <2>1, ReadTypes DEF TrackType
  <2> QED BY <1>3, <2>1, <2>2, <2>3, ReadTypes DEF NetType, RestType
<1>7. CASE ReceivePong
  <2>1. PICK n \in 1..Len(wire) :
           /\ Reading("PINGRESP", n) /\ task' = "keepalive" /\ waitPing' = FALSE
           /\ UNCHANGED <<since, count, pending, outbox, toBroker>>
    BY <1>7 DEF ReceivePong
  <2>2. TrackType'
    BY <2>1, ReadTypes DEF TrackType
  <2> QED BY <1>3, <2>1, <2>2, ReadTypes DEF NetType, RestType
<1> QED BY <1>1, <1>2, <1>4, <1>5, <1>6, <1>7 DEF Receive

LEMMA KeepaliveTypes ==
  ASSUME Types, Keepalive
  PROVE  Types'
<1> USE DEF Types
<1>1. ASSUME NEW k \in 0..Len(outbox), Purge(k), since' \in 0..HalfKeepalive, waitPing' \in BOOLEAN
      PROVE  TrackType' /\ RestType'
  <2>1. TrackType'
    BY <1>1, PurgeTypes
  <2> QED BY <1>1, <2>1 DEF Purge, runVars, RestType
<1>2. CASE PassQuietly
  BY <1>1, <1>2 DEF PassQuietly, netVars, NetType, RestType
<1>3. CASE Ping
  <2>1. Wrote("PINGREQ", 0, TRUE) /\ waitPing' = TRUE /\ link' = link /\ wire' = wire
    BY <1>3 DEF Ping
  <2>2. toBroker' \in Seq(ToBroker) /\ since' \in 0..HalfKeepalive
    BY <2>1, WriteTypes DEF RestType, Sent
  <2> QED BY <1>1, <1>3, <2>1, <2>2 DEF Ping, NetType
<1>4. CASE KeepaliveFails
  <2>1. TrackType'
    BY <1>4 DEF KeepaliveFails, trackVars, TrackType
  <2>2. RestType'
    BY <1>4, AbortTypes, MqttAssumption DEF KeepaliveFails, runVars, RestType
  <2> QED BY <1>4, <2>1, <2>2, AbortTypes DEF KeepaliveFails
<1> QED BY <1>2, <1>3, <1>4 DEF Keepalive

\* A call counts one request at most.
LEMMA CallTypes ==
  ASSUME Types, Call
  PROVE  Types'
<1> USE DEF Types
<1>1. ASSUME NEW type \in Sent, NEW id \in Ids \cup {0}, NEW ok \in WriteResults, Calling, Wrote(type, id, ok)
      PROVE  NetType' /\ RestType' /\ calls' = calls + 1 /\ calls < MaxCalls
  <2>1. toBroker' \in Seq(ToBroker) /\ since' \in 0..HalfKeepalive
    BY <1>1, WriteTypes DEF RestType, WriteResults
  <2> QED BY <1>1, <2>1 DEF Calling, runVars, NetType, RestType
<1>2. CASE Subscribe
  <2>1. PICK type \in {"SUBSCRIBE", "UNSUBSCRIBE"}, id \in Ids, ok \in WriteResults :
           /\ Calling /\ outbox' = Enqueued(count, pending) /\ pending' = Packet(type, id)
           /\ count' = count + 1 /\ Wrote(type, id, ok) /\ UNCHANGED forgotten
    BY <1>2 DEF Subscribe
  <2>2. NetType' /\ RestType' /\ calls' = calls + 1 /\ calls < MaxCalls
    BY <1>1, <2>1 DEF Sent, Requests
  <2>3. Packet(type, id) \in Items
    BY DEF Packet, Items
  <2>4. outbox' \in Seq(Items)
    BY <2>1 DEF Enqueued, TrackType
  <2> QED BY <2>1, <2>2, <2>3, <2>4, MqttAssumption DEF TrackType
<1>3. CASE PublishAtMostOnce
  <2>1. PICK ok \in WriteResults : Calling /\ Wrote("PUBLISH0", 0, ok) /\ UNCHANGED trackVars
    BY <1>3 DEF PublishAtMostOnce
  <2>2. NetType' /\ RestType' /\ calls' = calls + 1 /\ calls < MaxCalls
    BY <1>1, <2>1 DEF Sent
  <2> QED BY <2>1, <2>2, MqttAssumption DEF trackVars, TrackType
<1>4. CASE PublishWithAck
  <2>1. PICK type \in {"PUBLISH1", "PUBLISH2"}, id \in Ids, ok \in WriteResults :
           /\ Calling /\ pending' = Packet("PUBLISH", id) /\ count' = count + 1
           /\ outbox' = Enqueued(count + 1, Packet("PUBLISH", id))
           /\ Forget({pending}) /\ Wrote(type, id, ok)
    BY <1>4 DEF PublishWithAck
  <2>2. NetType' /\ RestType' /\ calls' = calls + 1 /\ calls < MaxCalls
    BY <1>1, <2>1 DEF Sent, Requests
  <2>3. Packet("PUBLISH", id) \in Items
    BY DEF Packet, Items
  <2>4. outbox' \in Seq(Items) /\ forgotten' \subseteq Items
    BY <2>1, <2>3 DEF Enqueued, Forget, TrackType
  <2> QED BY <2>1, <2>2, <2>3, <2>4, MqttAssumption DEF TrackType
<1> QED BY <1>2, <1>3, <1>4 DEF Call

LEMMA OtherTypes ==
  ASSUME Types, WaitTimeout \/ HandlerReturns \/ Start \/ Stop \/ StopReturns
                \/ Enter \/ LeaveLoop \/ EndTask \/ Network \/ UNCHANGED vars
  PROVE  Types'
<1> USE DEF Types, runVars, trackVars, netVars
<1>1. CASE WaitTimeout
  <2>1. since' \in 0..HalfKeepalive
    BY <1>1, MqttAssumption DEF WaitTimeout, Passes, RestType
  <2> QED BY <1>1, <2>1 DEF WaitTimeout, NetType, TrackType, RestType
<1>2. CASE LeaveLoop
  BY <1>2, EmptyTypes DEF LeaveLoop, CloseTransport, NetType, TrackType, RestType
<1>3. CASE Network
  <2>1. NetworkOnly
    BY <1>3 DEF Network, BrokerProcesses, BrokerPublishes, LoseConnection, FallSilent
  <2> QED BY <1>3, <2>1, NetworkTypes DEF NetworkOnly, TrackType, RestType
<1>4. CASE HandlerReturns \/ Enter \/ EndTask
  <2>1. UNCHANGED <<trackVars, netVars, calls, user, early, waitPing, swallowed, since, inbuf>>
    BY <1>4 DEF HandlerReturns, Enter, EndTask
  <2>2. NetType' /\ TrackType'
    BY <2>1 DEF NetType, TrackType
  <2>3. /\ task' \in {"none", "loop", "keepalive"}
        /\ state' = state \/ state' = "INIT"
        /\ run' = run \/ run' = TRUE
        /\ stopped' = stopped \/ stopped' \in BOOLEAN
    BY <1>4 DEF HandlerReturns, Enter, EndTask
  <2>4. RestType'
    BY <2>1, <2>3 DEF RestType
  <2> QED BY <2>2, <2>4
<1>5. CASE Start \/ StopReturns \/ UNCHANGED vars
  <2>1. UNCHANGED <<trackVars, netVars, calls, run, stopped, early, waitPing, swallowed, since, inbuf>>
    BY <1>5 DEF Start, StopReturns, vars
  <2>2. NetType' /\ TrackType'
    BY <2>1 DEF NetType, TrackType
  <2>3. /\ task' = task \/ task' = "entry"
        /\ state' = state \/ state' = "UNKNOWN"
        /\ user' = user \/ user' \in {"on", "off"}
    BY <1>5 DEF Start, StopReturns, vars
  <2>4. RestType'
    BY <2>1, <2>3 DEF RestType
  <2> QED BY <2>2, <2>4
<1>6. CASE Stop
  BY <1>6 DEF Stop, NetType, TrackType, RestType
<1> QED BY <1>1, <1>2, <1>3, <1>4, <1>5, <1>6

LEMMA InitTypes == Init => Types
<1> SUFFICES ASSUME Init PROVE Types
  OBVIOUS
<1>1. NetType
  BY EmptyTypes DEF Init, NetType
<1>2. NoItem \in Items
  BY DEF NoItem, Items
<1>3. TrackType
  BY <1>2, EmptyTypes, MqttAssumption DEF Init, TrackType
<1>4. RestType
  <2>1. 0 \in 0..HalfKeepalive
    BY MqttAssumption
  <2> QED BY <2>1 DEF Init, RestType
<1> QED BY <1>1, <1>3, <1>4 DEF Types

LEMMA NextTypes ==
  ASSUME Types, [Next]_vars
  PROVE  Types'
BY ConnectTypes, ReceiveTypes, KeepaliveTypes, CallTypes, OtherTypes DEF Next, MqttTask

\* For any message ids, keepalive period and limits: the client, its outbox and
\* the connection stay well typed, and pending_msg_count is never negative.
THEOREM TypeCorrect == Spec => []TypeOK
<1>1. Types => TypeOK
  <2> SUFFICES ASSUME Types PROVE TypeOK
    OBVIOUS
  <2>1. count \in 0..MaxCalls /\ calls \in 0..MaxCalls
    BY MqttAssumption DEF Types, TrackType
  <2> QED BY <2>1 DEF TypeOK, Types, NetType, TrackType, RestType, ToBroker, FromBroker
<1> QED BY <1>1, InitTypes, NextTypes, PTL DEF Spec

-----------------------------------------------------------------------------
(* What can still be acknowledged, and what the client keeps of it.          *)

\* Packets that can still lead to an acknowledgement of one of the requests X.
AskedFor(X) ==
    {p \in ToBroker : p.type \in Requests \cup {"PUBREL"} /\ RequestOf(p) \in X}
AnswersFor(X) ==
    {p \in FromBroker : p.type \in DOMAIN Acknowledges \cup {"PUBREC"} /\ RequestOf(p) \in X}
OpenIn(sent, received, X) == Count(sent, AskedFor(X)) + Count(received, AnswersFor(X))
Open(X) == OpenIn(toBroker, wire, X)

\* How often the client remembers a request.
KeptIn(kept, last, x) == Count(kept, {x}) + (IF last = x THEN 1 ELSE 0)
Kept(x) == KeptIn(outbox, pending, x)

LEMMA OpenIsNat ==
  ASSUME NEW sent \in Seq(ToBroker), NEW received \in Seq(FromBroker), NEW X
  PROVE  /\ OpenIn(sent, received, X) \in Nat
         /\ Count(sent, AskedFor(X)) \in Nat /\ Count(received, AnswersFor(X)) \in Nat
BY PlacesFinite DEF OpenIn

LEMMA NothingOpen == ASSUME NEW X PROVE OpenIn(<<>>, <<>>, X) = 0
<1>1. <<>> \in Seq(ToBroker) /\ <<>> \in Seq(FromBroker) /\ \A i \in DOMAIN <<>> : FALSE
  OBVIOUS
<1>2. Count(<<>>, AskedFor(X)) = 0 /\ Count(<<>>, AnswersFor(X)) = 0
  BY <1>1, CountNone
<1> QED BY <1>2 DEF OpenIn

LEMMA RequestsAreItems ==
  /\ \A p \in ToBroker : p.type \in Requests \cup {"PUBREL"} => RequestOf(p) \in Items
  /\ \A p \in FromBroker : p.type \in DOMAIN Acknowledges \cup {"PUBREC"} => RequestOf(p) \in Items
<1>1. ASSUME NEW p \in ToBroker, p.type \in Requests \cup {"PUBREL"} PROVE RequestOf(p) \in Items
  BY <1>1 DEF ToBroker, Requests, RequestOf, Kind, Acknowledges, Packet, Items
<1>2. ASSUME NEW p \in FromBroker, p.type \in DOMAIN Acknowledges \cup {"PUBREC"}
      PROVE  RequestOf(p) \in Items
  BY <1>2 DEF FromBroker, RequestOf, Kind, Acknowledges, Packet, Items
<1> QED BY <1>1, <1>2

\* The broker's answer is for the request it answers, and so is the client's.
LEMMA BrokerAnswersSame ==
  ASSUME NEW p \in ToBroker, p.type \in DOMAIN BrokerAnswer, NEW X,
         Packet(BrokerAnswer[p.type], p.id) \in AnswersFor(X)
  PROVE  p \in AskedFor(X)
BY DEF ToBroker, AskedFor, AnswersFor, BrokerAnswer, Requests, RequestOf, Kind, Acknowledges, Packet

LEMMA ClientAnswersSame ==
  ASSUME NEW p \in FromBroker, p.type \in DOMAIN ClientAnswer, NEW X,
         Packet(ClientAnswer[p.type], p.id) \in AskedFor(X)
  PROVE  p \in AnswersFor(X)
BY DEF FromBroker, AskedFor, AnswersFor, ClientAnswer, Requests, RequestOf, Kind, Acknowledges, Packet

\* What is open for one request is open for all, and only Outstanding is open.
LEMMA OpenForOne ==
  ASSUME NetType, NEW x \in Items
  PROVE  Open({x}) <= Open(Items)
<1>1. \A p : (p \in AskedFor({x}) => p \in AskedFor(Items)) /\ (p \in AnswersFor({x}) => p \in AnswersFor(Items))
  BY DEF AskedFor, AnswersFor
<1>2. Count(toBroker, AskedFor({x})) <= Count(toBroker, AskedFor(Items))
  BY <1>1, CountSubset DEF NetType
<1>3. Count(wire, AnswersFor({x})) <= Count(wire, AnswersFor(Items))
  BY <1>1, CountSubset DEF NetType
<1> QED BY <1>2, <1>3, OpenIsNat DEF NetType, Open, OpenIn

LEMMA OpenMeansOutstanding ==
  ASSUME NetType, NEW x
  PROVE  Open({x}) = 0 <=> x \notin Outstanding
<1> DEFINE C == Count(toBroker, AskedFor({x}))
           D == Count(wire, AnswersFor({x}))
<1>1. Open({x}) = C + D /\ C \in Nat /\ D \in Nat
  BY OpenIsNat DEF NetType, Open, OpenIn
<1>2. C = 0 <=> \A i \in DOMAIN toBroker : toBroker[i] \notin AskedFor({x})
  BY CountNone DEF NetType
<1>3. D = 0 <=> \A i \in DOMAIN wire : wire[i] \notin AnswersFor({x})
  BY CountNone DEF NetType
<1> HIDE DEF C, D
<1>4. \A i \in DOMAIN toBroker :
         toBroker[i] \in AskedFor({x}) <=> i \in Unanswered /\ RequestOf(toBroker[i]) = x
  <2>1. \A i \in DOMAIN toBroker : toBroker[i] \in ToBroker
    BY DEF NetType
  <2> QED BY <2>1 DEF AskedFor, Unanswered
<1>5. \A i \in DOMAIN wire :
         wire[i] \in AnswersFor({x}) <=> i \in Answers /\ RequestOf(wire[i]) = x
  <2>1. \A i \in DOMAIN wire : wire[i] \in FromBroker
    BY DEF NetType
  <2> QED BY <2>1 DEF AnswersFor, Answers
<1>6. Open({x}) = 0 <=> C = 0 /\ D = 0
  BY <1>1
<1> QED BY <1>2, <1>3, <1>4, <1>5, <1>6 DEF Outstanding, Unanswered, Answers

LEMMA OpenIsCounted ==
  ASSUME NetType
  PROVE  Open(Items) = Cardinality(Unanswered) + Cardinality(Answers)
<1>1. Places(toBroker, AskedFor(Items)) = Unanswered
  <2>1. \A i \in DOMAIN toBroker : toBroker[i] \in ToBroker
    BY DEF NetType
  <2> QED BY <2>1, RequestsAreItems DEF Places, AskedFor, Unanswered
<1>2. Places(wire, AnswersFor(Items)) = Answers
  <2>1. \A i \in DOMAIN wire : wire[i] \in FromBroker
    BY DEF NetType
  <2> QED BY <2>1, RequestsAreItems DEF Places, AnswersFor, Answers
<1> QED BY <1>1, <1>2 DEF Open, OpenIn, Count

\* Outside a connection nothing is under way.
Quiet == state # "CONNECTED" \/ task \in Outside => link = "down" /\ toBroker = <<>> /\ wire = <<>>

LEMMA NextQuiet ==
  ASSUME Quiet, RunInv, [Next]_vars
  PROVE  Quiet'
<1> USE DEF Quiet, Outside, runVars, netVars, InLoop
<1>1. CASE Start \/ Stop \/ StopReturns \/ Enter \/ EndTask \/ WaitTimeout \/ HandlerReturns \/ UNCHANGED vars
  <2>1. CASE Start
    BY <2>1 DEF Start
  <2>2. CASE Stop
    BY <2>2 DEF Stop
  <2>3. CASE StopReturns
    BY <2>3 DEF StopReturns, RunInv
  <2>4. CASE Enter \/ EndTask
    BY <2>4 DEF Enter, EndTask
  <2>5. CASE WaitTimeout
    BY <2>5 DEF WaitTimeout
  <2>6. CASE HandlerReturns
    BY <2>6 DEF HandlerReturns, InHandler
  <2>7. CASE UNCHANGED vars
    BY <2>7 DEF vars
  <2> QED BY <1>1, <2>1, <2>2, <2>3, <2>4, <2>5, <2>6, <2>7
<1>2. CASE LeaveLoop
  BY <1>2 DEF LeaveLoop, CloseTransport
<1>3. CASE Connect
  BY <1>3 DEF Connect, ConnectFails, ConnectAccepted, ConnectUnanswered, SessionStarts,
              AbortConnection, CloseTransport
<1>4. CASE Receive
  <2>1. CASE ReceiveNothing
    BY <2>1 DEF ReceiveNothing
  <2>2. CASE ReceiveFails
    BY <2>2 DEF ReceiveFails, AbortConnection, CloseTransport
  <2>3. CASE ReceiveAck \/ ReceiveHandshake \/ ReceivePublish \/ ReceivePong
    <3>1. state = "CONNECTED" /\ state' = state /\ task' \in {"keepalive", "acked"}
      BY <2>3 DEF ReceiveAck, ReceiveHandshake, ReceivePublish, ReceivePong, Reading
    <3> QED BY <3>1
  <2> QED BY <1>4, <2>1, <2>2, <2>3 DEF Receive
<1>5. CASE Keepalive
  <2>1. CASE PassQuietly
    BY <2>1 DEF PassQuietly, Purge
  <2>2. CASE Ping
    BY <2>2 DEF Ping, Purge, WriteResults
  <2>3. CASE KeepaliveFails
    BY <2>3 DEF KeepaliveFails, AbortConnection, CloseTransport
  <2> QED BY <1>5, <2>1, <2>2, <2>3 DEF Keepalive
<1>6. CASE Call
  <2>1. Calling
    BY <1>6 DEF Call, Subscribe, PublishAtMostOnce, PublishWithAck
  <2> QED BY <2>1 DEF Calling, InHandler
<1>7. CASE Network
  BY <1>7 DEF Network, BrokerProcesses, BrokerPublishes, LoseConnection, FallSilent, NetworkOnly
<1> QED BY <1>1, <1>2, <1>3, <1>4, <1>5, <1>6, <1>7 DEF Next, MqttTask

(* How a step changes what is open.                                          *)

LEMMA OpenWritten ==
  ASSUME NetType, NEW type \in Sent, NEW id \in Ids \cup {0}, NEW ok \in BOOLEAN, Wrote(type, id, ok), NEW X
  PROVE  Count(toBroker', AskedFor(X)) <= Count(toBroker, AskedFor(X)) + One(Packet(type, id) \in AskedFor(X))
<1>1. Packet(type, id) \in ToBroker
  BY DEF Packet, ToBroker
<1>2. CASE ok
  <2>1. toBroker' = Append(toBroker, Packet(type, id))
    BY <1>2 DEF Wrote
  <2>2. Count(toBroker', AskedFor(X)) = Count(toBroker, AskedFor(X)) + One(Packet(type, id) \in AskedFor(X))
    BY <1>1, <2>1, CountAppend DEF NetType
  <2> QED BY <2>2, OpenIsNat DEF NetType, One
<1>3. CASE ~ok
  <2>1. toBroker' = toBroker
    BY <1>3 DEF Wrote
  <2> QED BY <2>1, OpenIsNat DEF NetType, One
<1> QED BY <1>2, <1>3

LEMMA OpenRead ==
  ASSUME NetType, NEW type, NEW n \in 1..Len(wire), Reading(type, n), NEW X
  PROVE  Count(wire', AnswersFor(X)) + One(wire[1] \in AnswersFor(X)) <= Count(wire, AnswersFor(X))
<1>1. wire' = SubSeq(wire, n + 1, Len(wire)) /\ wire \in Seq(FromBroker)
  BY DEF Reading, NetType
<1> QED BY <1>1, CountDrop

\* The broker and TCP open nothing.
LEMMA OpenAtNetwork ==
  ASSUME NetType, Network, NEW X
  PROVE  OpenIn(toBroker', wire', X) <= Open(X)
<1>1. toBroker \in Seq(ToBroker) /\ wire \in Seq(FromBroker) /\ toBroker' \in Seq(ToBroker) /\ wire' \in Seq(FromBroker)
  BY NetworkTypes DEF NetType
<1>2. CASE BrokerProcesses
  <2> DEFINE p == toBroker[1]
  <2>1. /\ toBroker # <<>> /\ Head(toBroker) = p /\ 1 \in 1..Len(toBroker)
        /\ toBroker' = SubSeq(toBroker, 1 + 1, Len(toBroker))
        /\ wire' = IF p.type \in DOMAIN BrokerAnswer
                   THEN Append(wire, Packet(BrokerAnswer[p.type], p.id)) ELSE wire
    BY <1>1, <1>2 DEF BrokerProcesses
  <2>2. p \in ToBroker
    BY <1>1, <2>1
  <2>3. Count(toBroker', AskedFor(X)) + One(p \in AskedFor(X)) <= Count(toBroker, AskedFor(X))
    <3>1. Count(SubSeq(toBroker, 1 + 1, Len(toBroker)), AskedFor(X)) + One(p \in AskedFor(X))
             <= Count(toBroker, AskedFor(X))
      BY <1>1, <2>1, CountDrop
    <3> QED BY <2>1, <3>1
  <2> HIDE DEF p
  <2>4. Count(wire', AnswersFor(X)) <= Count(wire, AnswersFor(X)) + One(p \in AskedFor(X))
    <3>1. CASE p.type \in DOMAIN BrokerAnswer
      <4> DEFINE q == Packet(BrokerAnswer[p.type], p.id)
      <4>1. q \in FromBroker /\ wire' = Append(wire, q)
        BY <2>1, <2>2, <3>1, AnswerTypes DEF Packet, FromBroker, ToBroker
      <4>2. q \in AnswersFor(X) => p \in AskedFor(X)
        BY <2>2, <3>1, BrokerAnswersSame
      <4> HIDE DEF q
      <4>3. Count(wire', AnswersFor(X)) = Count(wire, AnswersFor(X)) + One(q \in AnswersFor(X))
        BY <1>1, <4>1, CountAppend
      <4> QED BY <1>1, <4>2, <4>3, OpenIsNat DEF One
    <3>2. CASE p.type \notin DOMAIN BrokerAnswer
      <4>1. wire' = wire
        BY <2>1, <3>2
      <4> QED BY <1>1, <4>1, OpenIsNat DEF One
    <3> QED BY <3>1, <3>2
  <2> QED BY <1>1, <2>3, <2>4, OpenIsNat DEF Open, OpenIn, One
<1>3. CASE BrokerPublishes
  <2>1. PICK type \in {"PUBLISH0", "PUBLISH1", "PUBLISH2"} : wire' = Append(wire, Packet(type, 0))
    BY <1>3 DEF BrokerPublishes
  <2>2. toBroker' = toBroker /\ Packet(type, 0) \in FromBroker /\ Packet(type, 0) \notin AnswersFor(X)
    BY <1>3 DEF BrokerPublishes, Packet, FromBroker, Received, AnswersFor, Acknowledges
  <2>3. Count(wire', AnswersFor(X)) = Count(wire, AnswersFor(X)) + One(Packet(type, 0) \in AnswersFor(X))
    BY <1>1, <2>1, <2>2, CountAppend
  <2> QED BY <1>1, <2>2, <2>3, OpenIsNat DEF Open, OpenIn, One
<1>4. CASE LoseConnection
  <2>1. toBroker' = <<>> /\ wire' = wire
    BY <1>4 DEF LoseConnection
  <2>2. Count(toBroker', AskedFor(X)) = 0
    <3>1. \A i \in DOMAIN toBroker' : FALSE
      BY <2>1
    <3> QED BY <1>1, <3>1, CountNone
  <2> QED BY <1>1, <2>1, <2>2, OpenIsNat DEF Open, OpenIn
<1>5. CASE FallSilent
  <2>1. toBroker' = <<>> /\ wire' = <<>>
    BY <1>5 DEF FallSilent
  <2>2. OpenIn(toBroker', wire', X) = 0
    BY <2>1, NothingOpen
  <2> QED BY <1>1, <2>2, OpenIsNat DEF Open
<1> QED BY <1>2, <1>3, <1>4, <1>5 DEF Network

-----------------------------------------------------------------------------
(* The inductive invariant behind AwaitedIsUnderWay.                          *)

\* What is open is counted, and remembered as often as it is open unless it was
\* forgotten: two requests may have the same id.
CountInv == Open(Items) <= count
KeptInv == \A x \in Items : x \notin forgotten => Open({x}) <= Kept(x)
TrackInv == CountInv /\ KeptInv

LEMMA KeptIsNat ==
  ASSUME NEW kept \in Seq(Items), NEW last, NEW x
  PROVE  /\ KeptIn(kept, last, x) \in Nat /\ Count(kept, {x}) \in Nat
         /\ last = x => KeptIn(kept, last, x) = Count(kept, {x}) + 1
         /\ last # x => KeptIn(kept, last, x) = Count(kept, {x})
<1>1. Count(kept, {x}) \in Nat
  BY PlacesFinite
<1> QED BY <1>1 DEF KeptIn

LEMMA EmptiedTracks ==
  ASSUME Types', toBroker' = <<>>, wire' = <<>>
  PROVE  TrackInv'
<1>1. \A X : Open(X)' = 0
  BY NothingOpen DEF Open
<1>2. CountInv'
  BY <1>1 DEF CountInv, Types, TrackType
<1>3. KeptInv'
  <2> SUFFICES ASSUME NEW x \in Items PROVE 0 <= Kept(x)'
    BY <1>1 DEF KeptInv
  <2>1. KeptIn(outbox', pending', x) \in Nat
    BY KeptIsNat DEF Types, TrackType
  <2> QED BY <2>1 DEF Kept
<1> QED BY <1>2, <1>3 DEF TrackInv

\* A step that opens nothing and forgets nothing.
LEMMA ShrunkTracks ==
  ASSUME Types, Types', TrackInv,
         \A X \in SUBSET Items : OpenIn(toBroker', wire', X) <= Open(X),
         UNCHANGED <<count, outbox, pending>>, forgotten \subseteq forgotten'
  PROVE  TrackInv'
<1>1. ASSUME NEW X \in SUBSET Items PROVE Open(X)' <= Open(X) /\ Open(X)' \in Nat /\ Open(X) \in Nat
  BY OpenIsNat DEF Open, Types, NetType
<1>2. CountInv'
  <2>1. Items \in SUBSET Items /\ Items' = Items
    BY DEF Items
  <2>2. Open(Items)' <= Open(Items) /\ Open(Items)' \in Nat /\ Open(Items) \in Nat
    BY <1>1, <2>1
  <2> QED BY <2>2 DEF TrackInv, CountInv, Types, TrackType
<1>3. KeptInv'
  <2> SUFFICES ASSUME NEW x \in Items, x \notin forgotten' PROVE Open({x})' <= Kept(x)'
    BY DEF KeptInv
  <2>1. Open({x})' <= Open({x}) /\ Open({x})' \in Nat /\ Open({x}) \in Nat
    BY <1>1
  <2>2. Open({x}) <= Kept(x)
    BY DEF TrackInv, KeptInv
  <2>3. Kept(x)' = Kept(x) /\ Kept(x) \in Nat
    BY KeptIsNat DEF Types, TrackType, Kept
  <2> QED BY <2>1, <2>2, <2>3
<1> QED BY <1>2, <1>3 DEF TrackInv

LEMMA UnchangedTracks ==
  ASSUME Types, Types', TrackInv, UNCHANGED <<toBroker, wire>>, UNCHANGED trackVars
  PROVE  TrackInv'
<1>1. \A X \in SUBSET Items : OpenIn(toBroker', wire', X) <= Open(X)
  BY OpenIsNat DEF Open, Types, NetType
<1> QED BY <1>1, ShrunkTracks DEF trackVars

\* The oldest messages leave the outbox: those still outstanding are forgotten.
LEMMA PurgeTracks ==
  ASSUME Types, Types', TrackInv, NEW k \in 0..Len(outbox), Purge(k),
         \A X \in SUBSET Items : OpenIn(toBroker', wire', X) <= Open(X)
  PROVE  TrackInv'
<1>1. /\ outbox' = SubSeq(outbox, k + 1, Len(outbox)) /\ UNCHANGED <<count, pending>>
      /\ forgotten' = forgotten \cup (Range(SubSeq(outbox, 1, k)) \cap Outstanding)
  BY DEF Purge, Forget
<1>2. ASSUME NEW X \in SUBSET Items PROVE Open(X)' <= Open(X) /\ Open(X)' \in Nat /\ Open(X) \in Nat
  BY OpenIsNat DEF Open, Types, NetType
<1>3. CountInv'
  <2>1. Items \in SUBSET Items /\ Items' = Items
    BY DEF Items
  <2>2. Open(Items)' <= Open(Items) /\ Open(Items)' \in Nat /\ Open(Items) \in Nat
    BY <1>2, <2>1
  <2> QED BY <1>1, <2>2 DEF TrackInv, CountInv, Types, TrackType
<1>4. KeptInv'
  <2> SUFFICES ASSUME NEW x \in Items, x \notin forgotten' PROVE Open({x})' <= Kept(x)'
    BY DEF KeptInv
  <2>1. Open({x})' <= Open({x}) /\ Open({x})' \in Nat /\ Open({x}) \in Nat
    BY <1>2
  <2>2. Open({x}) <= Kept(x)
    BY <1>1 DEF TrackInv, KeptInv
  <2>3. outbox \in Seq(Items) /\ outbox' \in Seq(Items) /\ pending' = pending
    BY <1>1 DEF Types, TrackType
  <2>4. /\ KeptIn(outbox, pending, x) \in Nat /\ KeptIn(outbox', pending, x) \in Nat
        /\ Count(outbox, {x}) <= Count(outbox', {x})
               => KeptIn(outbox, pending, x) <= KeptIn(outbox', pending, x)
    <3>1. CASE pending = x
      BY <2>3, <3>1, KeptIsNat
    <3>2. CASE pending # x
      BY <2>3, <3>2, KeptIsNat
    <3> QED BY <3>1, <3>2
  <2>5. CASE x \in Outstanding
    <3>1. \A i \in 1..k : outbox[i] \notin {x}
      <4> SUFFICES ASSUME NEW i \in 1..k, outbox[i] = x PROVE FALSE
        OBVIOUS
      <4>1. SubSeq(outbox, 1, k)[i] = x /\ i \in DOMAIN SubSeq(outbox, 1, k)
        BY Former DEF Types, TrackType
      <4>2. x \in Range(SubSeq(outbox, 1, k))
        BY <4>1 DEF Range
      <4> QED BY <1>1, <2>5, <4>2
    <3>2. Count(outbox, {x}) <= Count(outbox', {x})
      BY <1>1, <3>1, CountPurge DEF Types, TrackType
    <3>3. Kept(x) <= Kept(x)'
      BY <2>3, <2>4, <3>2 DEF Kept
    <3> QED BY <2>1, <2>2, <2>3, <2>4, <3>3 DEF Kept
  <2>6. CASE x \notin Outstanding
    <3>1. Open({x}) = 0
      BY <2>6, OpenMeansOutstanding DEF Types
    <3> QED BY <2>1, <2>3, <2>4, <3>1 DEF Kept
  <2> QED BY <2>5, <2>6
<1> QED BY <1>3, <1>4 DEF TrackInv

\* What an answer opens, the packet it answers closes.
LEMMA AnswerTracks ==
  ASSUME Types, Types', TrackInv, NEW type, NEW n \in 1..Len(wire), Reading(type, n),
         UNCHANGED <<count, outbox, pending>>,
         \/ toBroker' = toBroker
         \/ \E ok \in BOOLEAN : type \in DOMAIN ClientAnswer /\ Wrote(ClientAnswer[type], wire[1].id, ok)
  PROVE  TrackInv'
<1>1. NetType /\ wire[1] \in FromBroker /\ wire[1].type = type /\ wire[1].id \in Ids \cup {0}
      /\ forgotten' = forgotten
  BY ReadTypes DEF Types, NetType, Reading
<1>2. ASSUME NEW X \in SUBSET Items PROVE OpenIn(toBroker', wire', X) <= Open(X)
  <2>1. Count(wire', AnswersFor(X)) + One(wire[1] \in AnswersFor(X)) <= Count(wire, AnswersFor(X))
    BY <1>1, OpenRead
  <2>2. Count(toBroker', AskedFor(X)) <= Count(toBroker, AskedFor(X)) + One(wire[1] \in AnswersFor(X))
    <3>1. CASE toBroker' = toBroker
      BY <1>1, <3>1, OpenIsNat DEF NetType, One
    <3>2. CASE toBroker' # toBroker
      <4>1. PICK ok \in BOOLEAN : type \in DOMAIN ClientAnswer /\ Wrote(ClientAnswer[type], wire[1].id, ok)
        BY <3>2
      <4>2. ClientAnswer[type] \in Sent
        BY <4>1, AnswerTypes
      <4> DEFINE q == Packet(ClientAnswer[type], wire[1].id)
      <4>3. Count(toBroker', AskedFor(X)) <= Count(toBroker, AskedFor(X)) + One(q \in AskedFor(X))
        BY <1>1, <4>1, <4>2, OpenWritten
      <4>4. q \in AskedFor(X) => wire[1] \in AnswersFor(X)
        BY <1>1, <4>1, ClientAnswersSame
      <4> HIDE DEF q
      <4>5. One(q \in AskedFor(X)) <= One(wire[1] \in AnswersFor(X))
        BY <4>4 DEF One
      <4>6. Count(toBroker', AskedFor(X)) \in Nat /\ Count(toBroker, AskedFor(X)) \in Nat
        BY PlacesFinite DEF Types, NetType
      <4> QED BY <4>3, <4>5, <4>6 DEF One
    <3> QED BY <3>1, <3>2
  <2>3. /\ Count(toBroker', AskedFor(X)) \in Nat /\ Count(toBroker, AskedFor(X)) \in Nat
        /\ Count(wire', AnswersFor(X)) \in Nat /\ Count(wire, AnswersFor(X)) \in Nat
    BY PlacesFinite DEF Types, NetType
  <2> QED BY <2>1, <2>2, <2>3 DEF Open, OpenIn, One
<1> QED BY <1>1, <1>2, ShrunkTracks

\* An acknowledgement closes one request, and takes no other from the outbox.
LEMMA AckTracks ==
  ASSUME Types, Types', TrackInv, ReceiveAck
  PROVE  TrackInv'
<1>1. PICK type \in DOMAIN Acknowledges, n \in 1..Len(wire) :
         LET item == Packet(Acknowledges[type], wire[1].id) IN
         /\ Reading(type, n)
         /\ count' = IF IsValid(item) THEN count - 1 ELSE count
         /\ outbox' = IF count > 0 THEN RemoveFirst(outbox, item) ELSE outbox
         /\ UNCHANGED <<pending, since, waitPing, toBroker>>
  BY DEF ReceiveAck
<1> DEFINE item == Packet(Acknowledges[type], wire[1].id)
<1>2. NetType /\ wire[1] \in FromBroker /\ wire[1].type = type /\ forgotten' = forgotten
  BY <1>1, ReadTypes DEF Types, NetType, Reading
<1>3. RequestOf(wire[1]) = item /\ item \in Items
  BY <1>2, RequestsAreItems DEF RequestOf
<1>4. /\ outbox \in Seq(Items) /\ outbox' \in Seq(Items) /\ count \in Nat /\ count' \in Nat
      /\ count' >= count - 1 /\ pending' = pending
      /\ outbox' = outbox \/ outbox' = RemoveFirst(outbox, item)
  BY <1>1 DEF Types, TrackType
<1> HIDE DEF item
<1>5. ASSUME NEW X \in SUBSET Items
      PROVE  /\ Open(X)' <= Open(X) /\ (item \in X => Open(X)' + 1 <= Open(X))
             /\ Open(X)' \in Nat /\ Open(X) \in Nat
  <2>1. Count(wire', AnswersFor(X)) + One(wire[1] \in AnswersFor(X)) <= Count(wire, AnswersFor(X))
    BY <1>1, <1>2, OpenRead
  <2>2. wire[1] \in AnswersFor(X) <=> item \in X
    BY <1>2, <1>3 DEF AnswersFor
  <2>3. /\ toBroker' = toBroker /\ Count(toBroker, AskedFor(X)) \in Nat
        /\ Count(wire', AnswersFor(X)) \in Nat /\ Count(wire, AnswersFor(X)) \in Nat
    BY <1>1, PlacesFinite DEF Types, NetType
  <2> QED BY <2>1, <2>2, <2>3 DEF Open, OpenIn, One
<1>6. CountInv'
  <2>1. Items \in SUBSET Items /\ Items' = Items
    BY DEF Items
  <2>2. Open(Items)' + 1 <= Open(Items) /\ Open(Items)' \in Nat /\ Open(Items) \in Nat
    BY <1>3, <1>5, <2>1
  <2> QED BY <1>4, <2>2 DEF TrackInv, CountInv
<1>7. KeptInv'
  <2> SUFFICES ASSUME NEW x \in Items, x \notin forgotten' PROVE Open({x})' <= Kept(x)'
    BY DEF KeptInv
  <2>1. Open({x}) <= Kept(x)
    BY <1>2 DEF TrackInv, KeptInv
  <2>2. Open({x})' <= Open({x}) /\ (item = x => Open({x})' + 1 <= Open({x}))
        /\ Open({x})' \in Nat /\ Open({x}) \in Nat
    BY <1>5
  <2>3. Count(outbox, {x}) <= Count(outbox', {x}) + One(item \in {x})
    <3>1. CASE outbox' = outbox
      BY <1>4, <3>1, PlacesFinite DEF One
    <3>2. CASE outbox' # outbox
      <4>1. PICK k \in 1..Len(outbox) : outbox[k] = item /\ outbox' = RemoveAt(outbox, k)
        BY <1>4, <3>2, RemoveIs
      <4>2. Count(outbox, {x}) <= Count(RemoveAt(outbox, k), {x}) + One(outbox[k] \in {x})
        BY <1>4, CountRemove
      <4> QED BY <4>1, <4>2
    <3> QED BY <3>1, <3>2
  <2>4. Count(outbox, {x}) \in Nat /\ Count(outbox', {x}) \in Nat
    BY <1>4, PlacesFinite
  <2>5. Kept(x) = Count(outbox, {x}) + (IF pending = x THEN 1 ELSE 0)
    BY DEF Kept, KeptIn
  <2>6. Kept(x)' = Count(outbox', {x}) + (IF pending = x THEN 1 ELSE 0)
    BY <1>4 DEF Kept, KeptIn
  <2> QED BY <2>1, <2>2, <2>3, <2>4, <2>5, <2>6 DEF One
<1> QED BY <1>6, <1>7 DEF TrackInv

LEMMA ReceiveTracks ==
  ASSUME Types, Types', TrackInv, Receive
  PROVE  TrackInv'
<1>1. CASE ReceiveNothing
  BY <1>1, UnchangedTracks DEF ReceiveNothing, netVars, trackVars
<1>2. CASE ReceiveFails
  BY <1>2, EmptiedTracks DEF ReceiveFails, AbortConnection, CloseTransport
<1>3. CASE ReceiveAck
  BY <1>3, AckTracks
<1>4. CASE ReceiveHandshake
  <2>1. PICK type \in {"PUBREC", "PUBREL"}, n \in 1..Len(wire), ok \in WriteResults :
           /\ Reading(type, n) /\ Wrote(ClientAnswer[type], wire[1].id, ok)
           /\ UNCHANGED <<waitPing, count, pending, outbox>>
    BY <1>4 DEF ReceiveHandshake
  <2>2. ok \in BOOLEAN /\ type \in DOMAIN ClientAnswer
    BY <2>1, AnswerTypes DEF WriteResults
  <2> QED BY <2>1, <2>2, AnswerTracks
<1>5. CASE ReceivePublish
  <2>1. PICK type \in {"PUBLISH0", "PUBLISH1", "PUBLISH2"}, n \in 1..Len(wire), ok \in WriteResults :
           /\ Reading(type, n)
           /\ IF type = "PUBLISH0" THEN UNCHANGED <<toBroker, since>>
                                   ELSE Wrote(ClientAnswer[type], wire[1].id, ok)
           /\ UNCHANGED <<waitPing, count, pending, outbox>>
    BY <1>5 DEF ReceivePublish
  <2>2. ok \in BOOLEAN /\ (type # "PUBLISH0" => type \in DOMAIN ClientAnswer)
    BY <2>1, AnswerTypes DEF WriteResults
  <2>3. \/ toBroker' = toBroker
        \/ type \in DOMAIN ClientAnswer /\ Wrote(ClientAnswer[type], wire[1].id, ok)
    BY <2>1, <2>2
  <2> QED BY <2>1, <2>2, <2>3, AnswerTracks
<1>6. CASE ReceivePong
  <2>1. PICK n \in 1..Len(wire) : Reading("PINGRESP", n) /\ UNCHANGED <<count, pending, outbox, toBroker>>
    BY <1>6 DEF ReceivePong
  <2> QED BY <2>1, AnswerTracks
<1> QED BY <1>1, <1>2, <1>3, <1>4, <1>5, <1>6 DEF Receive

\* A packet that asks for no acknowledgement opens nothing.
LEMMA WriteOpens ==
  ASSUME Types, Types', NEW type \in Sent, type # "PUBREL", NEW id \in Ids \cup {0}, NEW ok \in BOOLEAN,
         Wrote(type, id, ok), wire' = wire, NEW X
  PROVE  /\ OpenIn(toBroker', wire', X)
                <= Open(X) + (IF type \in Requests /\ Packet(Kind(type), id) \in X THEN 1 ELSE 0)
         /\ OpenIn(toBroker', wire', X) \in Nat /\ Open(X) \in Nat
<1>1. Packet(type, id) \in AskedFor(X) => type \in Requests /\ Packet(Kind(type), id) \in X
  BY DEF AskedFor, Packet, RequestOf, Kind, Acknowledges, Requests
<1>2. Count(toBroker', AskedFor(X)) <= Count(toBroker, AskedFor(X)) + One(Packet(type, id) \in AskedFor(X))
  BY OpenWritten DEF Types
<1>3. /\ Count(toBroker', AskedFor(X)) \in Nat /\ Count(toBroker, AskedFor(X)) \in Nat
      /\ Count(wire, AnswersFor(X)) \in Nat
  BY PlacesFinite DEF Types, NetType
<1>4. CASE Packet(type, id) \in AskedFor(X)
  BY <1>1, <1>2, <1>3, <1>4 DEF Open, OpenIn, One
<1>5. CASE Packet(type, id) \notin AskedFor(X)
  BY <1>2, <1>3, <1>5 DEF Open, OpenIn, One
<1> QED BY <1>4, <1>5

LEMMA KeepaliveTracks ==
  ASSUME Types, Types', TrackInv, Keepalive
  PROVE  TrackInv'
<1>1. CASE PassQuietly
  <2>1. PICK k \in 0..Len(outbox) : Purge(k)
    BY <1>1 DEF PassQuietly
  <2>2. toBroker' = toBroker /\ wire' = wire
    BY <1>1 DEF PassQuietly, netVars
  <2>3. \A X \in SUBSET Items : OpenIn(toBroker', wire', X) <= Open(X)
    BY <2>2, OpenIsNat DEF Open, Types, NetType
  <2> QED BY <2>1, <2>3, PurgeTracks
<1>2. CASE Ping
  <2>1. PICK k \in 0..Len(outbox) : Purge(k)
    BY <1>2 DEF Ping
  <2>2. Wrote("PINGREQ", 0, TRUE) /\ wire' = wire /\ "PINGREQ" \in Sent /\ "PINGREQ" \notin Requests
    BY <1>2 DEF Ping, Sent, Requests
  <2>3. ASSUME NEW X \in SUBSET Items PROVE OpenIn(toBroker', wire', X) <= Open(X)
    <3>1. "PINGREQ" # "PUBREL" /\ TRUE \in BOOLEAN /\ 0 \in Ids \cup {0}
      OBVIOUS
    <3>2. /\ OpenIn(toBroker', wire', X) <= Open(X) + 0
          /\ OpenIn(toBroker', wire', X) \in Nat /\ Open(X) \in Nat
      BY <2>2, <3>1, WriteOpens
    <3> QED BY <3>2
  <2> QED BY <2>1, <2>3, PurgeTracks
<1>3. CASE KeepaliveFails
  BY <1>3, EmptiedTracks DEF KeepaliveFails, AbortConnection, CloseTransport
<1> QED BY <1>1, <1>2, <1>3 DEF Keepalive

\* mqtt_enqueue keeps the pending message before the next takes its place; when
\* nothing is counted, nothing is open.
LEMMA SubscribeTracks ==
  ASSUME Types, Types', TrackInv, Subscribe
  PROVE  TrackInv'
<1>1. PICK type \in {"SUBSCRIBE", "UNSUBSCRIBE"}, id \in Ids, ok \in WriteResults :
         /\ Calling /\ outbox' = Enqueued(count, pending) /\ pending' = Packet(type, id)
         /\ count' = count + 1 /\ Wrote(type, id, ok) /\ UNCHANGED forgotten
  BY DEF Subscribe
<1> DEFINE item == Packet(type, id)
<1>2. wire' = wire /\ ok \in BOOLEAN /\ type \in Sent /\ type # "PUBREL" /\ Kind(type) = type
  BY <1>1 DEF Calling, WriteResults, Sent, Requests, Kind
<1>3. ASSUME NEW X
      PROVE  /\ Open(X)' <= Open(X) + (IF item \in X THEN 1 ELSE 0)
             /\ Open(X)' \in Nat /\ Open(X) \in Nat
  <2>1. /\ OpenIn(toBroker', wire', X)
                <= Open(X) + (IF type \in Requests /\ Packet(Kind(type), id) \in X THEN 1 ELSE 0)
        /\ OpenIn(toBroker', wire', X) \in Nat /\ Open(X) \in Nat
    BY <1>1, <1>2, WriteOpens
  <2> QED BY <1>2, <2>1 DEF Open, Requests
<1> HIDE DEF item
<1>4. count \in Nat /\ outbox \in Seq(Items) /\ outbox' \in Seq(Items) /\ pending \in Items
  BY DEF Types, TrackType
<1>5. CountInv'
  <2>1. Items' = Items
    BY DEF Items
  <2>2. Open(Items)' <= Open(Items) + 1 /\ Open(Items)' \in Nat /\ Open(Items) \in Nat
    BY <1>3, <2>1
  <2> QED BY <1>1, <1>4, <2>2 DEF TrackInv, CountInv
<1>6. KeptInv'
  <2> SUFFICES ASSUME NEW x \in Items, x \notin forgotten' PROVE Open({x})' <= Kept(x)'
    BY DEF KeptInv
  <2>1. /\ Open({x})' <= Open({x}) + (IF item = x THEN 1 ELSE 0)
        /\ Open({x})' \in Nat /\ Open({x}) \in Nat
    BY <1>3
  <2>2. Kept(x)' = Count(outbox', {x}) + (IF item = x THEN 1 ELSE 0)
    BY <1>1 DEF Kept, KeptIn, item
  <2>3. Count(outbox, {x}) \in Nat /\ Count(outbox', {x}) \in Nat
    BY <1>4, PlacesFinite
  <2>4. Open({x}) <= Count(outbox', {x})
    <3>1. CASE count > 0
      <4>1. outbox' = Append(outbox, pending)
        BY <1>1, <3>1 DEF Enqueued
      <4>2. Count(outbox', {x}) = Count(outbox, {x}) + One(pending \in {x})
        BY <1>4, <4>1, CountAppend
      <4>3. Open({x}) <= Count(outbox, {x}) + (IF pending = x THEN 1 ELSE 0)
        BY <1>1 DEF TrackInv, KeptInv, Kept, KeptIn
      <4> QED BY <2>1, <2>3, <4>2, <4>3 DEF One
    <3>2. CASE ~(count > 0)
      <4>1. Open(Items) <= 0
        BY <1>4, <3>2 DEF TrackInv, CountInv
      <4>2. Open({x}) <= Open(Items) /\ Open(Items) \in Nat
        BY <1>3, OpenForOne DEF Types
      <4> QED BY <2>1, <2>3, <4>1, <4>2
    <3> QED BY <3>1, <3>2
  <2> QED BY <2>1, <2>2, <2>3, <2>4
<1> QED BY <1>5, <1>6 DEF TrackInv

\* The message that a publish overwrites is forgotten, if it was outstanding.
LEMMA PublishTracks ==
  ASSUME Types, Types', TrackInv, PublishWithAck
  PROVE  TrackInv'
<1>1. PICK type \in {"PUBLISH1", "PUBLISH2"}, id \in Ids, ok \in WriteResults :
         /\ Calling /\ pending' = Packet("PUBLISH", id) /\ count' = count + 1
         /\ outbox' = Enqueued(count + 1, Packet("PUBLISH", id))
         /\ Forget({pending}) /\ Wrote(type, id, ok)
  BY DEF PublishWithAck
<1> DEFINE item == Packet("PUBLISH", id)
<1>2. wire' = wire /\ ok \in BOOLEAN /\ type \in Sent /\ type # "PUBREL" /\ Kind(type) = "PUBLISH"
  BY <1>1 DEF Calling, WriteResults, Sent, Requests, Kind
<1>3. ASSUME NEW X
      PROVE  /\ Open(X)' <= Open(X) + (IF item \in X THEN 1 ELSE 0)
             /\ Open(X)' \in Nat /\ Open(X) \in Nat
  <2>1. /\ OpenIn(toBroker', wire', X)
                <= Open(X) + (IF type \in Requests /\ Packet(Kind(type), id) \in X THEN 1 ELSE 0)
        /\ OpenIn(toBroker', wire', X) \in Nat /\ Open(X) \in Nat
    BY <1>1, <1>2, WriteOpens
  <2> QED BY <1>2, <2>1 DEF Open, Requests
<1>4. count \in Nat /\ outbox \in Seq(Items) /\ outbox' \in Seq(Items) /\ item \in Items
  BY DEF Types, TrackType, item, Packet, Items
<1> HIDE DEF item
<1>5. CountInv'
  <2>1. Items' = Items
    BY DEF Items
  <2>2. Open(Items)' <= Open(Items) + 1 /\ Open(Items)' \in Nat /\ Open(Items) \in Nat
    BY <1>3, <2>1
  <2> QED BY <1>1, <1>4, <2>2 DEF TrackInv, CountInv
<1>6. KeptInv'
  <2> SUFFICES ASSUME NEW x \in Items, x \notin forgotten' PROVE Open({x})' <= Kept(x)'
    BY DEF KeptInv
  <2>1. /\ Open({x})' <= Open({x}) + (IF item = x THEN 1 ELSE 0)
        /\ Open({x})' \in Nat /\ Open({x}) \in Nat
    BY <1>3
  <2>2. Kept(x)' = Count(outbox', {x}) + (IF item = x THEN 1 ELSE 0)
    BY <1>1 DEF Kept, KeptIn, item
  <2>3. Count(outbox, {x}) \in Nat /\ Count(outbox', {x}) \in Nat
    BY <1>4, PlacesFinite
  <2>4. Count(outbox, {x}) <= Count(outbox', {x})
    <3>1. outbox' = Append(outbox, item)
      BY <1>1, <1>4 DEF Enqueued, item
    <3>2. Count(outbox', {x}) = Count(outbox, {x}) + One(item \in {x})
      BY <1>4, <3>1, CountAppend
    <3> QED BY <2>3, <3>2 DEF One
  <2>5. Open({x}) <= Count(outbox, {x})
    <3>1. CASE x = pending
      <4>1. x \notin Outstanding
        BY <1>1, <3>1 DEF Forget
      <4>2. Open({x}) = 0
        BY <4>1, OpenMeansOutstanding DEF Types
      <4> QED BY <2>3, <4>2
    <3>2. CASE x # pending
      <4>1. x \notin forgotten
        BY <1>1 DEF Forget
      <4>2. Open({x}) <= Kept(x)
        BY <4>1 DEF TrackInv, KeptInv
      <4>3. Kept(x) = Count(outbox, {x})
        BY <2>3, <3>2 DEF Kept, KeptIn
      <4> QED BY <4>2, <4>3
    <3> QED BY <3>1, <3>2
  <2> QED BY <2>1, <2>2, <2>3, <2>4, <2>5
<1> QED BY <1>5, <1>6 DEF TrackInv

LEMMA CallTracks ==
  ASSUME Types, Types', TrackInv, Call
  PROVE  TrackInv'
<1>1. CASE PublishAtMostOnce
  <2>1. PICK ok \in WriteResults : Calling /\ Wrote("PUBLISH0", 0, ok) /\ UNCHANGED trackVars
    BY <1>1 DEF PublishAtMostOnce
  <2>2. ok \in BOOLEAN /\ wire' = wire /\ "PUBLISH0" \in Sent /\ "PUBLISH0" \notin Requests
    BY <2>1 DEF WriteResults, Calling, Sent, Requests
  <2>3. \A X \in SUBSET Items : OpenIn(toBroker', wire', X) <= Open(X)
    BY <2>1, <2>2, WriteOpens
  <2> QED BY <2>1, <2>3, ShrunkTracks DEF trackVars
<1> QED BY <1>1, SubscribeTracks, PublishTracks DEF Call

LEMMA OtherTracks ==
  ASSUME Types, Types', TrackInv, Quiet,
         Connect \/ WaitTimeout \/ HandlerReturns \/ Start \/ Stop \/ StopReturns
                 \/ Enter \/ LeaveLoop \/ EndTask \/ Network \/ UNCHANGED vars
  PROVE  TrackInv'
<1>1. CASE Connect
  <2>1. CASE ConnectFails
    BY <2>1, EmptiedTracks DEF ConnectFails, AbortConnection, CloseTransport
  <2>2. ASSUME NEW l, SessionStarts(l) PROVE TrackInv'
    BY <2>2, EmptiedTracks DEF SessionStarts, InLoop, Quiet
  <2> QED BY <1>1, <2>1, <2>2 DEF Connect, ConnectAccepted, ConnectUnanswered
<1>2. CASE LeaveLoop
  BY <1>2, EmptiedTracks DEF LeaveLoop, CloseTransport
<1>3. CASE Network
  <2>1. UNCHANGED trackVars
    BY <1>3 DEF Network, BrokerProcesses, BrokerPublishes, LoseConnection, FallSilent, NetworkOnly
  <2>2. \A X \in SUBSET Items : OpenIn(toBroker', wire', X) <= Open(X)
    BY <1>3, OpenAtNetwork DEF Types
  <2> QED BY <2>1, <2>2, ShrunkTracks DEF trackVars
<1>4. CASE WaitTimeout \/ HandlerReturns \/ Start \/ Stop \/ StopReturns \/ Enter \/ EndTask \/ UNCHANGED vars
  BY <1>4, UnchangedTracks
     DEF WaitTimeout, HandlerReturns, Start, Stop, StopReturns, Enter, EndTask, vars, netVars, trackVars
<1> QED BY <1>1, <1>2, <1>3, <1>4

\* The inductive invariant.
Inv == Types /\ RunInv /\ Quiet /\ TrackInv

LEMMA InitInv == Init => Inv
<1> SUFFICES ASSUME Init PROVE Inv
  OBVIOUS
<1>1. Types
  BY InitTypes
<1>2. Quiet
  BY DEF Init, Quiet
<1>3. TrackInv
  <2>1. \A X : Open(X) = 0
    BY NothingOpen DEF Init, Open
  <2>2. \A x : Kept(x) \in Nat
    BY <1>1, KeptIsNat DEF Kept, Types, TrackType
  <2> QED BY <1>1, <2>1, <2>2 DEF TrackInv, CountInv, KeptInv, Types, TrackType
<1> QED BY <1>1, <1>2, <1>3, InitRunInv DEF Inv

LEMMA NextInv ==
  ASSUME Inv, [Next]_vars
  PROVE  Inv'
<1>1. Types /\ RunInv /\ Quiet /\ TrackInv
  BY DEF Inv
<1>2. Types' /\ RunInv' /\ Quiet'
  BY <1>1, NextTypes, NextRunInv, NextQuiet
<1>3. TrackInv'
  BY <1>1, <1>2, ReceiveTracks, KeepaliveTracks, CallTracks, OtherTracks DEF Next, MqttTask
<1> QED BY <1>2, <1>3 DEF Inv

LEMMA InvCovers == Inv => CountCovers
<1> SUFFICES ASSUME Inv PROVE CountCovers
  OBVIOUS
<1>1. count \in Nat /\ Open(Items) <= count /\ NetType
  BY DEF Inv, TrackInv, CountInv, Types, TrackType
<1>2. Open(Items) = Cardinality(Unanswered) + Cardinality(Answers)
  BY <1>1, OpenIsCounted
<1>3. Open(Items) \in Nat
  BY <1>1, OpenIsNat DEF NetType, Open
<1> QED BY <1>1, <1>2, <1>3 DEF CountCovers

LEMMA InvTracked == Inv => OutstandingIsTracked
<1> SUFFICES ASSUME Inv, NEW x \in Outstanding, x \notin forgotten, x # pending
             PROVE  x \in Range(outbox)
  BY DEF OutstandingIsTracked
<1>1. NetType /\ TrackType /\ TrackInv
  BY DEF Inv, Types
<1>2. x \in Items
  <2>1. PICK i : \/ i \in Unanswered /\ x = RequestOf(toBroker[i])
                 \/ i \in Answers /\ x = RequestOf(wire[i])
    BY DEF Outstanding
  <2>2. i \in Unanswered => toBroker[i] \in ToBroker /\ toBroker[i].type \in Requests \cup {"PUBREL"}
    BY <1>1 DEF NetType, Unanswered
  <2>3. i \in Answers => wire[i] \in FromBroker /\ wire[i].type \in DOMAIN Acknowledges \cup {"PUBREC"}
    BY <1>1 DEF NetType, Answers
  <2> QED BY <2>1, <2>2, <2>3, RequestsAreItems
<1>3. Open({x}) # 0 /\ Open({x}) \in Nat
  BY <1>1, OpenMeansOutstanding, OpenIsNat DEF NetType, Open
<1>4. Open({x}) <= Kept(x)
  BY <1>1, <1>2 DEF TrackInv, KeptInv
<1>5. Kept(x) = Count(outbox, {x}) /\ Count(outbox, {x}) \in Nat
  BY <1>1, KeptIsNat DEF TrackType, Kept
<1>6. Count(outbox, {x}) # 0
  BY <1>3, <1>4, <1>5
<1>7. PICK i \in DOMAIN outbox : outbox[i] = x
  <2>1. outbox \in Seq(Items)
    BY <1>1 DEF TrackType
  <2> QED BY <1>6, <2>1, CountNone
<1> QED BY <1>7 DEF Range

\* For any message ids, however the application's calls, packets read together,
\* reconnections and purges follow one another: pending_msg_count covers every
\* acknowledgement that can still come, so that is_valid_mqtt_msg refuses none
\* for its count; the message it is for is pending or in the outbox, unless a
\* purge or a publish dropped it; and a PINGREQ waited for can be answered.
THEOREM AwaitedIsUnderWayHolds == Spec => []AwaitedIsUnderWay
<1>1. Spec => []Inv
  BY InitInv, NextInv, PTL DEF Spec
<1>2. Inv => CountCovers /\ OutstandingIsTracked
  BY InvCovers, InvTracked
<1>3. CountCovers /\ OutstandingIsTracked /\ PingIsUnderWay => AwaitedIsUnderWay
  BY DEF AwaitedIsUnderWay
<1> QED BY <1>1, <1>2, <1>3, PingIsUnderWayHolds, PTL
=============================================================================
