--------------------------- MODULE DuerAlert_proofs ---------------------------
(***************************************************************************)
(* Theorems about DuerAlert, for any number of alerts, cells and stacks.   *)
(***************************************************************************)
EXTENDS DuerAlert, FiniteSetTheorems, WellFoundedInduction, TLAPS

\* QueueHasThread needs to know of the threads only where they are.
ThreadPlaces == {"none", "pop", "check", "armed", "stored", "fail", "free"}
QueueInv == thread \in [Threads -> ThreadPlaces] /\ QueueHasThread

LEMMA QueueStep ==
    ASSUME QueueInv, [Next]_vars
    PROVE  QueueInv'
  <1> USE DEF QueueInv, QueueHasThread, ThreadPlaces
  <1>1. ASSUME UNCHANGED <<alertQueue, queueLost, thread>> PROVE QueueInv'
    BY <1>1
  <1>2. CASE Directive \/ UNCHANGED vars
    BY <1>1, <1>2 DEF Directive, CreateAlert, DeleteAlert, vars, queueVars, threadVars
  <1>3. CASE PlayOther \/ TypeOther \/ KeySilences \/ PlayerEnds
    BY <1>1, <1>3 DEF PlayOther, TypeOther, KeySilences, PlayerEnds, OnlyPlayer, queueVars,
       threadVars
  <1>4. CASE RingAlert \/ \E s \in Cells : TimerFires(s)
    BY <1>1, <1>4 DEF RingAlert, TimerFires, queueVars, threadVars
  <1>5. CASE WrapperTask
    BY <1>1, <1>5 DEF WrapperTask, Receive, ClearSpeech, CallBack, OnStop, OnToneFinish,
       OnLoopFinish, OnToneError, OnAlarmError, Handle, Wrapper, queueVars, threadVars
  <1>6. CASE QueueAlert
    <2>1. CASE UNCHANGED <<thread, queueLost>>
      <3>1. alertQueue # <<>> \/ UNCHANGED alertQueue
        BY <1>6, <2>1 DEF QueueAlert, queueVars
      <3>2. QED
        BY <2>1, <3>1
    <2>2. CASE queueLost'
      BY <1>6, <2>2 DEF QueueAlert, queueVars
    <2>3. CASE \E t \in Threads : thread' = [thread EXCEPT ![t] = "pop"]
      BY <2>3
    <2>4. QED
      BY <1>6, <2>1, <2>2, <2>3 DEF QueueAlert, queueVars
  <1>7. ASSUME NEW t \in Threads, AlertThread(t) PROVE QueueInv'
    <2>1. CASE ExitThread(t)
      BY <2>1 DEF ExitThread, Go
    <2>2. CASE ~ExitThread(t)
      <3>1. PICK to \in ThreadPlaces \ {"none"} : thread' = [thread EXCEPT ![t] = to]
        BY <1>7, <2>2 DEF AlertThread, PopAlert, RejectAlert, ArmTimer, StoreAlert,
           ReportStored, FailAlert, FreeAlert, Go
      <3>2. QED
        BY <3>1
    <2>3. QED
      BY <2>1, <2>2
  <1>8. QED
    BY <1>2, <1>3, <1>4, <1>5, <1>6, <1>7 DEF Next

\* An alert in s_alert_queue always has a duer_alert_thread to take it, unless
\* a thread could not be created, however threads start and exit meanwhile.
THEOREM QueueHasThreadHolds == Spec => []QueueHasThread
  <1>1. Init => QueueInv
    BY DEF Init, QueueInv, QueueHasThread, ThreadPlaces
  <1>2. QueueInv /\ [Next]_vars => QueueInv'
    BY QueueStep
  <1>3. QueueInv => QueueHasThread
    BY DEF QueueInv
  <1>4. QED
    BY <1>1, <1>2, <1>3, PTL DEF Spec

-----------------------------------------------------------------------------
(* Sequences of cells without repetition: the queue and the list.          *)

In(q, s) == \E i \in DOMAIN q : q[i] = s
Injective(q) == \A i, j \in DOMAIN q : q[i] = q[j] => i = j
Line(q) == q \in Seq(Cells) /\ Injective(q)

LEMMA LineAppend ==
    ASSUME NEW q, Line(q), NEW s \in Cells, ~In(q, s)
    PROVE  /\ Line(Append(q, s))
           /\ \A c : In(Append(q, s), c) <=> In(q, c) \/ c = s
  <1>1. /\ Append(q, s) \in Seq(Cells) /\ DOMAIN q = 1..Len(q) /\ Len(q) \in Nat
        /\ DOMAIN Append(q, s) = 1..Len(q) + 1
        /\ \A i \in 1..Len(q) : Append(q, s)[i] = q[i]
        /\ Append(q, s)[Len(q) + 1] = s
    BY DEF Line
  <1>2. Injective(Append(q, s))
    BY <1>1 DEF Line, Injective, In
  <1>3. ASSUME NEW c PROVE In(Append(q, s), c) <=> In(q, c) \/ c = s
    <2>1. In(q, c) => In(Append(q, s), c)
      BY <1>1 DEF In
    <2>2. c = s => In(Append(q, s), c)
      BY <1>1 DEF In
    <2>3. In(Append(q, s), c) => In(q, c) \/ c = s
      BY <1>1 DEF In
    <2>4. QED
      BY <2>1, <2>2, <2>3
  <1>4. QED
    BY <1>1, <1>2, <1>3 DEF Line

LEMMA LineTail ==
    ASSUME NEW q, Line(q), q # <<>>
    PROVE  /\ Line(Tail(q)) /\ Head(q) \in Cells /\ In(q, Head(q))
           /\ \A c : In(Tail(q), c) <=> In(q, c) /\ c # Head(q)
  <1>1. /\ Tail(q) \in Seq(Cells) /\ DOMAIN q = 1..Len(q) /\ Len(q) \in Nat \ {0}
        /\ DOMAIN Tail(q) = 1..Len(q) - 1 /\ Head(q) = q[1] /\ Head(q) \in Cells
        /\ \A i \in 1..Len(q) - 1 : Tail(q)[i] = q[i + 1]
    BY DEF Line
  <1>2. Injective(Tail(q))
    BY <1>1 DEF Line, Injective
  <1>3. ASSUME NEW c PROVE In(Tail(q), c) <=> In(q, c) /\ c # Head(q)
    <2>1. ASSUME In(Tail(q), c) PROVE In(q, c) /\ c # Head(q)
      <3>1. PICK i \in 1..Len(q) - 1 : q[i + 1] = c
        BY <1>1, <2>1 DEF In
      <3>2. i + 1 \in DOMAIN q /\ i + 1 # 1 /\ 1 \in DOMAIN q
        BY <1>1
      <3>3. QED
        BY <1>1, <3>1, <3>2 DEF In, Line, Injective
    <2>2. ASSUME In(q, c), c # Head(q) PROVE In(Tail(q), c)
      <3>1. PICK i \in 1..Len(q) : q[i] = c
        BY <1>1, <2>2 DEF In
      <3>2. i - 1 \in 1..Len(q) - 1
        BY <1>1, <2>2, <3>1
      <3>3. Tail(q)[i - 1] = c
        BY <1>1, <3>1, <3>2
      <3>4. QED
        BY <1>1, <3>2, <3>3 DEF In
    <2>3. QED
      BY <2>1, <2>2
  <1>4. QED
    BY <1>1, <1>2, <1>3 DEF Line, In

LEMMA LineRemove ==
    ASSUME NEW q, Line(q), NEW k \in DOMAIN q
    PROVE  /\ Line(RemoveAt(q, k))
           /\ \A c : In(RemoveAt(q, k), c) <=> In(q, c) /\ c # q[k]
  <1> DEFINE r == RemoveAt(q, k)
  <1>1. DOMAIN q = 1..Len(q) /\ Len(q) \in Nat /\ q \in Seq(Cells)
    BY DEF Line
  <1>2. /\ r \in Seq(Cells) /\ DOMAIN r = 1..Len(q) - 1
        /\ \A i \in 1..Len(q) - 1 : r[i] = q[IF i < k THEN i ELSE i + 1]
    <2> DEFINE a == SubSeq(q, 1, k - 1)
               b == SubSeq(q, k + 1, Len(q))
    <2>1. /\ a \in Seq(Cells) /\ Len(a) = k - 1 /\ \A i \in 1..k - 1 : a[i] = q[i]
      BY <1>1
    <2>2. /\ b \in Seq(Cells) /\ Len(b) = Len(q) - k /\ \A i \in 1..Len(q) - k : b[i] = q[k + i]
      BY <1>1
    <2>3. r = a \o b
      BY DEF RemoveAt
    <2> HIDE DEF a, b, r
    <2>4. /\ r \in Seq(Cells) /\ DOMAIN r = 1..Len(q) - 1
          /\ \A i \in 1..Len(q) - 1 : r[i] = IF i <= Len(a) THEN a[i] ELSE b[i - Len(a)]
      <3>1. Len(a) \in Nat /\ Len(b) \in Nat /\ Len(a) + Len(b) = Len(q) - 1
        BY <1>1, <2>1, <2>2
      <3>0. a \in Seq(Cells) /\ b \in Seq(Cells)
        BY <2>1, <2>2
      <3>2. r \in Seq(Cells)
        BY <3>0, <2>3
      <3>3. Len(r) = Len(a) + Len(b)
        BY <3>0, <2>3
      <3>4. \A i \in 1..Len(a) + Len(b) : r[i] = IF i <= Len(a) THEN a[i] ELSE b[i - Len(a)]
        BY <3>0, <2>3
      <3>5. QED
        BY <3>1, <3>2, <3>3, <3>4
    <2>5. ASSUME NEW i \in 1..Len(q) - 1 PROVE r[i] = q[IF i < k THEN i ELSE i + 1]
      <3>1. CASE i < k
        BY <1>1, <2>1, <2>4, <3>1
      <3>2. CASE i >= k
        <4>1. i - (k - 1) \in 1..Len(q) - k /\ k + (i - (k - 1)) = i + 1 /\ ~(i < k)
          BY <1>1, <3>2
        <4>2. r[i] = b[i - (k - 1)]
          BY <1>1, <2>1, <2>4, <3>2
        <4>3. QED
          BY <2>2, <4>1, <4>2
      <3>3. QED
        BY <1>1, <3>1, <3>2
    <2>6. QED
      BY <2>4, <2>5
  <1> HIDE DEF r
  <1>3. Injective(r)
    <2>1. ASSUME NEW i \in 1..Len(q) - 1, NEW j \in 1..Len(q) - 1, r[i] = r[j] PROVE i = j
      <3>1. PICK m \in 1..Len(q) : m = IF i < k THEN i ELSE i + 1
        BY <1>1
      <3>2. PICK n \in 1..Len(q) : n = IF j < k THEN j ELSE j + 1
        BY <1>1
      <3>3. q[m] = q[n]
        BY <1>2, <2>1, <3>1, <3>2
      <3>4. m = n
        BY <1>1, <3>3 DEF Line, Injective
      <3>5. QED
        BY <1>1, <3>1, <3>2, <3>4
    <2>2. QED
      BY <1>2, <2>1 DEF Injective
  <1>4. ASSUME NEW c PROVE In(r, c) <=> In(q, c) /\ c # q[k]
    <2>1. ASSUME In(r, c) PROVE In(q, c) /\ c # q[k]
      <3>1. PICK i \in 1..Len(q) - 1 : q[IF i < k THEN i ELSE i + 1] = c
        BY <1>2, <2>1 DEF In
      <3>2. PICK j \in 1..Len(q) : j = IF i < k THEN i ELSE i + 1
        BY <1>1
      <3>3. j # k
        BY <1>1, <3>2
      <3>4. QED
        BY <1>1, <3>1, <3>2, <3>3 DEF In, Line, Injective
    <2>2. ASSUME In(q, c), c # q[k] PROVE In(r, c)
      <3>1. PICK i \in 1..Len(q) : q[i] = c
        BY <1>1, <2>2 DEF In
      <3>2. PICK j \in 1..Len(q) - 1 : i = IF j < k THEN j ELSE j + 1
        <4>1. CASE i < k
          <5>1. i \in 1..Len(q) - 1 /\ i = IF i < k THEN i ELSE i + 1
            BY <1>1, <4>1
          <5>2. QED
            BY <5>1
        <4>2. CASE i > k
          <5>1. i - 1 \in 1..Len(q) - 1 /\ i = IF i - 1 < k THEN i - 1 ELSE (i - 1) + 1
            BY <1>1, <4>2
          <5>2. QED
            BY <5>1
        <4>3. i < k \/ i > k
          BY <1>1, <2>2, <3>1
        <4>4. QED
          BY <4>1, <4>2, <4>3
      <3>3. r[j] = c
        BY <1>2, <3>1, <3>2
      <3>4. QED
        BY <1>2, <3>3 DEF In
    <2>3. QED
      BY <2>1, <2>2
  <1>5. QED
    BY <1>2, <1>3, <1>4 DEF Line, r

-----------------------------------------------------------------------------
(* The owner of each cell.  A cell is free, or one of the handler, the      *)
(* queue, the list, a thread or nobody has it: "own" is that owner, and each *)
(* place that can hold a cell holds those it owns.                           *)

Places == {<<"free">>, <<"dir">>, <<"leaked">>, <<"queue">>, <<"list">>}
              \cup {<<"thread", t>> : t \in Threads}

Owned(own) ==
    \A s \in Cells :
        /\ heap[s] = Null <=> own[s] = <<"free">>
        /\ dirCell = s <=> own[s] = <<"dir">>
        /\ s \in leaked <=> own[s] = <<"leaked">>
        /\ In(alertQueue, s) <=> own[s] = <<"queue">>
        /\ In(alertList, s) <=> own[s] = <<"list">>
        /\ \A t \in Threads : Working(t) /\ job[t].cell = s <=> own[s] = <<"thread", t>>

Types == HeapTypeOK /\ TaskTypeOK /\ asked \subseteq Alerts /\ stray \in BOOLEAN

OwnInv ==
    /\ Types
    /\ dirCell = Null <=> dir = "idle"
    /\ Injective(alertQueue) /\ Injective(alertList)
    /\ \A t \in Threads : Working(t) => job[t] \in Pointer
    /\ \E own \in [Cells -> Places] : Owned(own)

LEMMA PlacesDiffer ==
    /\ \A t \in Threads : <<"thread", t>> \in Places
    /\ \A t, u \in Threads : <<"thread", t>> = <<"thread", u>> => t = u
    /\ \A t \in Threads : \A k \in {"free", "dir", "leaked", "queue", "list"} :
           <<"thread", t>> # <<k>>
  BY DEF Places

\* An alert in memory stays one when a field of it is assigned.
LEMMA FieldAssigned ==
    ASSUME NEW h \in [Cells -> AlertData \cup {Null}], NEW s \in Cells, h[s] # Null,
           NEW new \in AlertData
    PROVE  /\ [h EXCEPT ![s] = new] \in [Cells -> AlertData \cup {Null}]
           /\ \A c \in Cells : [h EXCEPT ![s] = new][c] = Null <=> h[c] = Null
  BY NullAssumption

\* Steps that move no cell.
LEMMA NothingMoves ==
    ASSUME OwnInv, Types', UNCHANGED <<dir, dirCell, leaked, alertQueue, alertList>>,
           \A s \in Cells : heap'[s] = Null <=> heap[s] = Null,
           \A t \in Threads : /\ Working(t)' <=> Working(t)
                              /\ Working(t) => job'[t] = job[t]
    PROVE  OwnInv'
  <1>1. PICK own \in [Cells -> Places] : Owned(own)
    BY DEF OwnInv
  <1>2. Owned(own)'
    BY <1>1 DEF Owned
  <1>3. QED
    BY <1>2 DEF OwnInv

LEMMA CreateOwned ==
    ASSUME OwnInv, NEW a \in Alerts, CreateAlert(a)
    PROVE  OwnInv'
  <1>1. CASE UNCHANGED <<heap, dir, dirCell>>
    <2>1. Types'
      BY <1>1 DEF CreateAlert, OwnInv, Types, HeapTypeOK, TaskTypeOK, listVars, queueVars,
         threadVars, playerVars
    <2>2. QED
      BY <1>1, <2>1, NothingMoves DEF CreateAlert, listVars, queueVars, threadVars, Working
  <1>2. CASE dir' = "queue"
    <2>1. PICK s \in Cells, loops \in LoopCounts, tones \in ToneCounts :
             /\ heap[s] = Null /\ dirCell' = s
             /\ heap' = [heap EXCEPT ![s] = NewAlert(a, loops, tones)]
      BY <1>1, <1>2 DEF CreateAlert, OwnInv
    <2>2. NewAlert(a, loops, tones) \in AlertData
      BY AlertAssumption DEF NewAlert, AlertData
    <2>3. Types'
      <3>1. HeapTypeOK'
        BY <2>1, <2>2 DEF CreateAlert, OwnInv, Types, HeapTypeOK, listVars, queueVars
      <3>2. TaskTypeOK'
        BY <1>2, <2>1 DEF CreateAlert, OwnInv, Types, TaskTypeOK, threadVars, playerVars
      <3>3. QED
        BY <3>1, <3>2 DEF CreateAlert, OwnInv, Types
    <2>4. PICK own \in [Cells -> Places] : Owned(own)
      BY DEF OwnInv
    <2>5. PICK new \in [Cells -> Places] : new = [own EXCEPT ![s] = <<"dir">>]
      BY DEF Places
    <2>6. UNCHANGED <<leaked, alertQueue, alertList, thread, job>> /\ dirCell = Null /\ s # Null
      BY AlertAssumption DEF CreateAlert, listVars, queueVars, threadVars, OwnInv
    <2>7. /\ heap'[s] # Null
          /\ \A c \in Cells : c # s => heap'[c] = heap[c] /\ new[c] = own[c]
          /\ own[s] = <<"free">> /\ new[s] = <<"dir">>
      BY <2>1, <2>2, <2>4, <2>5, NullAssumption DEF OwnInv, Types, HeapTypeOK, Owned
    <2>8. Owned(new)'
      BY <2>1, <2>4, <2>6, <2>7, PlacesDiffer, AlertAssumption DEF Owned, Working
    <2>9. QED
      BY <1>2, <2>1, <2>3, <2>6, <2>8 DEF OwnInv, Working
  <1>3. QED
    BY <1>1, <1>2 DEF CreateAlert

LEMMA QueueOwned ==
    ASSUME OwnInv, QueueAlert
    PROVE  OwnInv'
  <1>1. PICK s \in Cells : s = dirCell
    BY DEF QueueAlert, OwnInv, Types, TaskTypeOK
  <1>2. PICK own \in [Cells -> Places] : Owned(own)
    BY DEF OwnInv
  <1>3. own[s] = <<"dir">> /\ ~In(alertQueue, s) /\ Line(alertQueue)
    BY <1>1, <1>2 DEF Owned, Line, OwnInv, Types, HeapTypeOK
  <1>4. /\ dir' = "idle" /\ dirCell' = Null
        /\ UNCHANGED <<heap, alertList, ringing, job, asked, call, other, stray>>
    BY DEF QueueAlert, listVars, playerVars
  <1>5. thread' \in [Threads -> ThreadPlaces] /\ queueLost' \in BOOLEAN
    BY DEF QueueAlert, OwnInv, Types, HeapTypeOK, TaskTypeOK, ThreadPlaces, queueVars
  <1>6. \A t \in Threads : Working(t)' <=> Working(t)
    BY DEF QueueAlert, OwnInv, Types, TaskTypeOK, Working
  <1>7. CASE alertQueue' = Append(alertQueue, dirCell) /\ UNCHANGED leaked
    <2>1. PICK new \in [Cells -> Places] : new = [own EXCEPT ![s] = <<"queue">>]
      BY DEF Places
    <2>2. /\ Line(alertQueue')
          /\ \A c \in Cells : In(alertQueue', c) <=> In(alertQueue, c) \/ c = s
      BY <1>1, <1>3, <1>7, LineAppend
    <2>3. \A c \in Cells : c # s => new[c] = own[c]
      BY <2>1
    <2>4. new[s] = <<"queue">>
      BY <2>1
    <2>5. Owned(new)'
      BY <1>1, <1>2, <1>3, <1>4, <1>6, <1>7, <2>2, <2>3, <2>4, PlacesDiffer, AlertAssumption DEF Owned
    <2>6. Types'
      BY <1>4, <1>5, <1>7, <2>2 DEF Line, OwnInv, Types, HeapTypeOK, TaskTypeOK, ThreadPlaces
    <2>7. QED
      BY <1>4, <1>6, <2>2, <2>5, <2>6 DEF OwnInv, Line
  <1>8. CASE leaked' = leaked \cup {dirCell} /\ UNCHANGED alertQueue
    <2>1. PICK new \in [Cells -> Places] : new = [own EXCEPT ![s] = <<"leaked">>]
      BY DEF Places
    <2>2. \A c \in Cells : c # s => new[c] = own[c]
      BY <2>1
    <2>3. new[s] = <<"leaked">>
      BY <2>1
    <2>4. Owned(new)'
      BY <1>1, <1>2, <1>3, <1>4, <1>6, <1>8, <2>2, <2>3, PlacesDiffer, AlertAssumption DEF Owned
    <2>5. Types'
      BY <1>1, <1>4, <1>5, <1>8 DEF OwnInv, Types, HeapTypeOK, TaskTypeOK, ThreadPlaces
    <2>6. QED
      BY <1>4, <1>6, <1>8, <2>4, <2>5 DEF OwnInv
  <1>9. QED
    BY <1>7, <1>8 DEF QueueAlert, queueVars

LEMMA PopOwned ==
    ASSUME OwnInv, NEW t \in Threads, PopAlert(t)
    PROVE  OwnInv'
  <1>1. PICK own \in [Cells -> Places] : Owned(own)
    BY DEF OwnInv
  <1>2. alertQueue # <<>> /\ alertQueue' = Tail(alertQueue) /\ Line(alertQueue)
    BY DEF PopAlert, Line, OwnInv, Types, HeapTypeOK
  <1>3. PICK s \in Cells : s = Head(alertQueue)
    BY <1>2, LineTail
  <1>4. /\ Line(alertQueue') /\ In(alertQueue, s)
        /\ \A c \in Cells : In(alertQueue', c) <=> In(alertQueue, c) /\ c # s
    BY <1>2, <1>3, LineTail
  <1>5. /\ UNCHANGED <<heap, leaked, alertList, ringing, dir, dirCell, asked, call, other, stray, queueLost>>
        /\ thread[t] = "pop" /\ thread' = [thread EXCEPT ![t] = "check"]
        /\ job' = [job EXCEPT ![t] = [cell |-> s, token |-> heap[s].token]]
    BY <1>3 DEF PopAlert, Go, dirVars, playerVars
  <1>6. own[s] = <<"queue">> /\ heap[s] # Null
    BY <1>1, <1>4 DEF Owned
  <1>7. [cell |-> s, token |-> heap[s].token] \in Pointer
    BY <1>6 DEF OwnInv, Types, HeapTypeOK, AlertData, Pointer
  <1>8. /\ ~Working(t) /\ Working(t)' /\ job'[t].cell = s /\ job'[t] \in Pointer
        /\ \A u \in Threads : u # t => /\ Working(u)' <=> Working(u)
                                       /\ job'[u] = job[u]
    BY <1>5, <1>7 DEF Working, OwnInv, Types, TaskTypeOK
  <1>9. PICK new \in [Cells -> Places] : new = [own EXCEPT ![s] = <<"thread", t>>]
    BY PlacesDiffer
  <1>10. \A c \in Cells : c # s => new[c] = own[c]
    BY <1>9
  <1>11. new[s] = <<"thread", t>>
    BY <1>9
  <1>12. Owned(new)'
    <2> SUFFICES ASSUME NEW c \in Cells
        PROVE  /\ heap'[c] = Null <=> new[c] = <<"free">>
               /\ dirCell' = c <=> new[c] = <<"dir">>
               /\ c \in leaked' <=> new[c] = <<"leaked">>
               /\ In(alertQueue', c) <=> new[c] = <<"queue">>
               /\ In(alertList', c) <=> new[c] = <<"list">>
               /\ \A u \in Threads : Working(u)' /\ job'[u].cell = c <=> new[c] = <<"thread", u>>
      BY DEF Owned
    <2>1. CASE c = s
      BY <1>1, <1>4, <1>5, <1>6, <1>8, <1>11, <2>1, PlacesDiffer DEF Owned
    <2>2. CASE c # s
      BY <1>1, <1>4, <1>5, <1>8, <1>10, <2>2, PlacesDiffer DEF Owned
    <2>3. QED
      BY <2>1, <2>2
  <1>13. Types'
    <2>1. thread' \in [Threads -> ThreadPlaces] /\ job' \in [Threads -> Pointer \cup {Null}]
      BY <1>5, <1>7 DEF OwnInv, Types, TaskTypeOK, ThreadPlaces
    <2>2. QED
      BY <1>4, <1>5, <2>1 DEF Line, OwnInv, Types, HeapTypeOK, TaskTypeOK, ThreadPlaces
  <1>14. QED
    BY <1>4, <1>5, <1>8, <1>12, <1>13 DEF OwnInv, Line

LEMMA StoreOwned ==
    ASSUME OwnInv, NEW t \in Threads, Go(t, "armed", "stored"), alertList' = Append(alertList, job[t].cell),
           UNCHANGED <<alertQueue, job, heap, reportVars, stray>>
    PROVE  OwnInv'
  <1>1. PICK own \in [Cells -> Places] : Owned(own)
    BY DEF OwnInv
  <1>2. Working(t) /\ job[t] \in Pointer
    BY DEF Go, Working, OwnInv
  <1>3. PICK s \in Cells : s = job[t].cell
    BY <1>2 DEF Pointer
  <1>4. own[s] = <<"thread", t>> /\ Line(alertList)
    BY <1>1, <1>2, <1>3 DEF Owned, Line, OwnInv, Types, HeapTypeOK
  <1>5. ~In(alertList, s)
    BY <1>1, <1>4, PlacesDiffer DEF Owned
  <1>6. /\ Line(alertList')
        /\ \A c \in Cells : In(alertList', c) <=> In(alertList, c) \/ c = s
    BY <1>3, <1>4, <1>5, LineAppend
  <1>7. /\ UNCHANGED <<heap, leaked, alertQueue, ringing, dir, dirCell, asked, call, other, stray, queueLost, job>>
        /\ thread' = [thread EXCEPT ![t] = "stored"]
    BY DEF Go, dirVars, playerVars
  <1>8. ~Working(t)' /\ \A u \in Threads : u # t => (Working(u)' <=> Working(u))
    BY <1>7 DEF Working, OwnInv, Types, TaskTypeOK
  <1>9. PICK new \in [Cells -> Places] : new = [own EXCEPT ![s] = <<"list">>]
    BY DEF Places
  <1>10. \A c \in Cells : c # s => new[c] = own[c]
    BY <1>9
  <1>11. new[s] = <<"list">>
    BY <1>9
  <1>12. Owned(new)'
    <2> SUFFICES ASSUME NEW c \in Cells
        PROVE  /\ heap'[c] = Null <=> new[c] = <<"free">>
               /\ dirCell' = c <=> new[c] = <<"dir">>
               /\ c \in leaked' <=> new[c] = <<"leaked">>
               /\ In(alertQueue', c) <=> new[c] = <<"queue">>
               /\ In(alertList', c) <=> new[c] = <<"list">>
               /\ \A u \in Threads : Working(u)' /\ job'[u].cell = c <=> new[c] = <<"thread", u>>
      BY DEF Owned
    <2>1. CASE c = s
      BY <1>1, <1>4, <1>6, <1>7, <1>8, <1>11, <2>1, PlacesDiffer DEF Owned
    <2>2. CASE c # s
      BY <1>1, <1>3, <1>6, <1>7, <1>8, <1>10, <2>2, PlacesDiffer DEF Owned
    <2>3. QED
      BY <2>1, <2>2
  <1>13. Types'
    <2>1. thread' \in [Threads -> ThreadPlaces]
      BY <1>7 DEF OwnInv, Types, TaskTypeOK, ThreadPlaces
    <2>2. QED
      BY <1>6, <1>7, <2>1 DEF Line, OwnInv, Types, HeapTypeOK, TaskTypeOK, ThreadPlaces
  <1>14. QED
    BY <1>6, <1>7, <1>8, <1>12, <1>13 DEF OwnInv, Line

LEMMA FreeOwned ==
    ASSUME OwnInv, NEW t \in Threads, FreeAlert(t)
    PROVE  OwnInv'
  <1>1. PICK own \in [Cells -> Places] : Owned(own)
    BY DEF OwnInv
  <1>2. Working(t) /\ job[t] \in Pointer
    BY DEF FreeAlert, Go, Working, OwnInv
  <1>3. PICK s \in Cells : s = job[t].cell
    BY <1>2 DEF Pointer
  <1>4. own[s] = <<"thread", t>>
    BY <1>1, <1>2, <1>3 DEF Owned
  <1>5. /\ UNCHANGED <<leaked, alertQueue, alertList, ringing, dir, dirCell, asked, call, other, stray, queueLost>>
        /\ thread' = [thread EXCEPT ![t] = "pop"]
        /\ heap' = [heap EXCEPT ![s] = Null]
        /\ job' = [job EXCEPT ![t] = Null]
    BY <1>3 DEF FreeAlert, Go, dirVars, playerVars
  <1>6. /\ ~Working(t)'
        /\ \A u \in Threads : u # t => (Working(u)' <=> Working(u)) /\ job'[u] = job[u]
    BY <1>5 DEF Working, OwnInv, Types, TaskTypeOK
  <1>7. heap'[s] = Null /\ \A c \in Cells : c # s => heap'[c] = heap[c]
    BY <1>5 DEF OwnInv, Types, HeapTypeOK
  <1>8. PICK new \in [Cells -> Places] : new = [own EXCEPT ![s] = <<"free">>]
    BY DEF Places
  <1>9. \A c \in Cells : c # s => new[c] = own[c]
    BY <1>8
  <1>10. new[s] = <<"free">>
    BY <1>8
  <1>11. Owned(new)'
    <2> SUFFICES ASSUME NEW c \in Cells
        PROVE  /\ heap'[c] = Null <=> new[c] = <<"free">>
               /\ dirCell' = c <=> new[c] = <<"dir">>
               /\ c \in leaked' <=> new[c] = <<"leaked">>
               /\ In(alertQueue', c) <=> new[c] = <<"queue">>
               /\ In(alertList', c) <=> new[c] = <<"list">>
               /\ \A u \in Threads : Working(u)' /\ job'[u].cell = c <=> new[c] = <<"thread", u>>
      BY DEF Owned
    <2>1. CASE c = s
      BY <1>1, <1>4, <1>5, <1>6, <1>7, <1>10, <2>1, PlacesDiffer DEF Owned
    <2>2. CASE c # s
      BY <1>1, <1>2, <1>3, <1>5, <1>6, <1>7, <1>9, <2>2, PlacesDiffer DEF Owned
    <2>3. QED
      BY <2>1, <2>2
  <1>12. Types'
    <2>1. /\ thread' \in [Threads -> ThreadPlaces] /\ job' \in [Threads -> Pointer \cup {Null}]
          /\ heap' \in [Cells -> AlertData \cup {Null}]
      BY <1>5 DEF OwnInv, Types, HeapTypeOK, TaskTypeOK, ThreadPlaces
    <2>2. QED
      BY <1>5, <2>1 DEF OwnInv, Types, HeapTypeOK, TaskTypeOK, ThreadPlaces
  <1>13. QED
    BY <1>5, <1>6, <1>11, <1>12 DEF OwnInv

\* What is deleted, by its place in the list.
LEMMA DeleteUnlinks ==
    ASSUME OwnInv, NEW a \in Alerts, DeleteAlert(a)
    PROVE  \E i \in DOMAIN alertList, s \in Cells :
               /\ s = alertList[i] /\ heap[s] # Null /\ heap[s].token = a
               /\ heap' = [heap EXCEPT ![s] = Null] /\ alertList' = RemoveAt(alertList, i)
               /\ IF s = ringing THEN ringing' = Null ELSE ringing' = ringing
               /\ UNCHANGED <<leaked, queueVars, threadVars, dirVars, other, call, stray>>
  <1>1. PICK i \in DOMAIN alertList :
           /\ Holds(alertList[i], a)
           /\ IF alertList[i] = ringing THEN ringing' = Null ELSE ringing' = ringing
           /\ heap' = [heap EXCEPT ![alertList[i]] = Null]
           /\ ListRemove(i)
    BY DEF DeleteAlert
  <1>2. alertList[i] \in Cells
    BY DEF OwnInv, Types, HeapTypeOK
  <1>3. QED
    BY <1>1, <1>2 DEF DeleteAlert, ListRemove, Holds

LEMMA DeleteOwned ==
    ASSUME OwnInv, NEW a \in Alerts, DeleteAlert(a)
    PROVE  OwnInv'
  <1>1. PICK own \in [Cells -> Places] : Owned(own)
    BY DEF OwnInv
  <1>2. PICK i \in DOMAIN alertList, s \in Cells :
           /\ s = alertList[i] /\ heap' = [heap EXCEPT ![s] = Null] /\ alertList' = RemoveAt(alertList, i)
           /\ IF s = ringing THEN ringing' = Null ELSE ringing' = ringing
           /\ UNCHANGED <<leaked, queueVars, threadVars, dirVars, other, call, stray>>
    BY DeleteUnlinks
  <1>3. /\ Line(alertList') /\ In(alertList, s)
        /\ \A c \in Cells : In(alertList', c) <=> In(alertList, c) /\ c # s
    <2>1. Line(alertList)
      BY DEF Line, OwnInv, Types, HeapTypeOK
    <2>2. In(alertList, s)
      BY <1>2 DEF In
    <2>3. QED
      BY <1>2, <2>1, <2>2, LineRemove
  <1>4. own[s] = <<"list">>
    BY <1>1, <1>3 DEF Owned
  <1>5. heap'[s] = Null /\ \A c \in Cells : c # s => heap'[c] = heap[c]
    BY <1>2 DEF OwnInv, Types, HeapTypeOK
  <1>6. UNCHANGED <<alertQueue, queueLost, thread, job, dir, dirCell, asked, leaked, other, call, stray>>
    BY <1>2 DEF queueVars, threadVars, dirVars
  <1>7. PICK new \in [Cells -> Places] : new = [own EXCEPT ![s] = <<"free">>]
    BY DEF Places
  <1>8. \A c \in Cells : c # s => new[c] = own[c]
    BY <1>7
  <1>9. new[s] = <<"free">>
    BY <1>7
  <1>10. Owned(new)'
    BY <1>1, <1>3, <1>4, <1>5, <1>6, <1>8, <1>9, PlacesDiffer DEF Owned, Working
  <1>11. Types'
    <2>1. heap' \in [Cells -> AlertData \cup {Null}] /\ ringing' \in Cells \cup {Null}
      BY <1>2 DEF OwnInv, Types, HeapTypeOK
    <2>2. QED
      BY <1>3, <1>6, <2>1 DEF Line, OwnInv, Types, HeapTypeOK, TaskTypeOK
  <1>12. QED
    BY <1>3, <1>6, <1>10, <1>11 DEF OwnInv, Line, Working

-----------------------------------------------------------------------------
(* The next alert to ring.                                                  *)

Less == {ss \in Nat \X Nat : ss[1] < ss[2]}

LEMMA Smallest ==
    ASSUME NEW S \in SUBSET Nat, S # {}
    PROVE  \E x \in S : \A y \in S : x <= y
  <1>1. OpToRel(<, Nat) = Less
    BY DEF OpToRel, Less
  <1>2. PICK x \in S : \A y \in S : <<y, x>> \notin Less
    BY <1>1, NatLessThanWellFounded, WFMin, S \subseteq Nat, S # {}
  <1>3. \A y \in S : ~(y < x)
    BY <1>2 DEF Less
  <1>4. QED
    BY <1>3

\* An active alert of the list, or NULL because there is none.
LEMMA ActiveIsFound ==
    ASSUME alertList \in Seq(Cells), NEW h, NEW n, NEW f, f = FindActive(h, n)
    PROVE  \/ f = Null /\ \A i \in DOMAIN alertList : ~Active(h, alertList[i])
           \/ f \in Cells /\ In(alertList, f) /\ Active(h, f)
  <1> DEFINE active == {i \in DOMAIN alertList : Active(h, alertList[i])}
             after == {i \in active : \E j \in DOMAIN alertList : alertList[j] = n /\ i > j}
             found == IF after # {} THEN after ELSE active
  <1>1. f = IF found = {} THEN Null ELSE alertList[CHOOSE i \in found : \A j \in found : i <= j]
    BY DEF FindActive
  <1>2. found \subseteq active /\ (found = {} => active = {})
    OBVIOUS
  <1> HIDE DEF found, after
  <1>3. CASE found = {}
    BY <1>1, <1>2, <1>3
  <1>4. CASE found # {}
    <2>1. found \in SUBSET Nat
      BY <1>2
    <2>2. \E i \in found : \A j \in found : i <= j
      BY <1>4, <2>1, Smallest
    <2>3. PICK i \in found : i = CHOOSE k \in found : \A j \in found : k <= j
      BY <2>2
    <2>4. i \in DOMAIN alertList /\ Active(h, alertList[i]) /\ f = alertList[i]
      BY <1>1, <1>2, <1>4, <2>3
    <2>5. QED
      BY <2>4 DEF In
  <1>5. QED
    BY <1>3, <1>4

\* The data of an alert after its last tone.
LEMMA LoopDoneData ==
    ASSUME NEW data \in AlertData
    PROVE  /\ LoopDone(data) \in AlertData
           /\ LoopDone(data).active => data.active /\ LoopDone(data).loops # 0
           /\ LoopDone(data).token = data.token /\ LoopDone(data).timer = data.timer
  <1>1. PICK left \in 0..(LoopWidth - 1) : left = (data.loops - 1) % LoopWidth
    <2>1. data.loops - 1 \in Int
      BY AlertAssumption DEF AlertData
    <2>2. QED
      BY <2>1, AlertAssumption
  <1>2. LoopDone(data) = [data EXCEPT !.loops = left, !.tone = 0, !.active = data.active /\ left # 0]
    BY <1>1, Zenon DEF LoopDone
  <1>3. PICK b \in BOOLEAN : b = (data.active /\ left # 0)
    OBVIOUS
  <1>4. LoopDone(data) = [data EXCEPT !.loops = left, !.tone = 0, !.active = b]
    BY <1>2, <1>3
  <1>5. b => data.active /\ left # 0
    BY <1>3
  <1>6. [data EXCEPT !.loops = left, !.tone = 0, !.active = b] \in AlertData
    BY AlertAssumption DEF AlertData
  <1>7. LoopDone(data).active = b /\ LoopDone(data).loops = left
    BY <1>4 DEF AlertData
  <1>8. LoopDone(data).token = data.token /\ LoopDone(data).timer = data.timer
    BY <1>4 DEF AlertData
  <1>9. QED
    BY <1>4, <1>5, <1>6, <1>7, <1>8

-----------------------------------------------------------------------------
(* Every other step leaves the cells where they are.                        *)

RingListed == ringing # Null => In(alertList, ringing)

LEMMA ListedLives ==
    ASSUME OwnInv, NEW s \in Cells, In(alertList, s)
    PROVE  heap[s] # Null /\ heap[s] \in AlertData
  <1>1. PICK own \in [Cells -> Places] : Owned(own)
    BY DEF OwnInv
  <1>2. heap[s] # Null
    BY <1>1 DEF Owned, Places
  <1>3. QED
    BY <1>2 DEF OwnInv, Types, HeapTypeOK

LEMMA JobLives ==
    ASSUME OwnInv, NEW t \in Threads, Working(t)
    PROVE  job[t].cell \in Cells /\ heap[job[t].cell] # Null /\ heap[job[t].cell] \in AlertData
  <1>1. PICK own \in [Cells -> Places] : Owned(own)
    BY DEF OwnInv
  <1>2. job[t].cell \in Cells
    BY DEF OwnInv, Pointer
  <1>3. PICK s \in Cells : s = job[t].cell
    BY <1>2
  <1>4. own[s] = <<"thread", t>>
    BY <1>1, <1>3 DEF Owned
  <1>5. heap[s] # Null
    BY <1>1, <1>4, PlacesDiffer DEF Owned
  <1>6. QED
    BY <1>3, <1>5 DEF OwnInv, Types, HeapTypeOK

LEMMA ThreadOwned ==
    ASSUME OwnInv, NEW t \in Threads, AlertThread(t)
    PROVE  OwnInv'
  <1> USE DEF ThreadPlaces
  <1>0. thread \in [Threads -> ThreadPlaces]
    BY DEF OwnInv, Types, TaskTypeOK
  <1>1. CASE PopAlert(t)
    BY <1>1, PopOwned
  <1>2. CASE FreeAlert(t)
    BY <1>2, FreeOwned
  <1>3. ASSUME NEW from \in ThreadPlaces, NEW to \in ThreadPlaces, Go(t, from, to),
               UNCHANGED <<alertQueue, alertList>>,
               \/ {from, to} \subseteq {"check", "armed", "fail", "free"} /\ UNCHANGED job
               \/ {from, to} \cap {"check", "armed", "fail", "free"} = {} /\ job' \in {job, [job EXCEPT ![t] = Null]},
               heap' \in [Cells -> AlertData \cup {Null}], stray' \in BOOLEAN,
               \A s \in Cells : heap'[s] = Null <=> heap[s] = Null
        PROVE  OwnInv'
    <2>1. thread[t] = from /\ thread' = [thread EXCEPT ![t] = to]
          /\ UNCHANGED <<queueLost, ringing, dir, dirCell, asked, call, other, leaked>>
      BY <1>3 DEF Go, dirVars, playerVars
    <2>2. \A u \in Threads : /\ Working(u)' <=> Working(u)
                             /\ Working(u) => job'[u] = job[u]
      BY <1>0, <1>3, <2>1 DEF Working, OwnInv, Types, TaskTypeOK
    <2>3. thread' \in [Threads -> ThreadPlaces] /\ job' \in [Threads -> Pointer \cup {Null}]
      BY <1>0, <1>3, <2>1 DEF OwnInv, Types, TaskTypeOK
    <2>4. Types'
      BY <1>3, <2>1, <2>3 DEF OwnInv, Types, HeapTypeOK, TaskTypeOK
    <2>5. QED
      BY <1>3, <2>1, <2>2, <2>4, NothingMoves
  <1>4. heap \in [Cells -> AlertData \cup {Null}] /\ stray \in BOOLEAN
    BY DEF OwnInv, Types, HeapTypeOK
  <1>5. CASE ExitThread(t)
    BY <1>3, <1>4, <1>5 DEF ExitThread
  <1>6. CASE RejectAlert(t)
    BY <1>3, <1>4, <1>6 DEF RejectAlert
  <1>7. CASE ArmTimer(t)
    <2>1. Working(t)
      BY <1>7 DEF ArmTimer, Go, Working
    <2>2. PICK s \in Cells : s = job[t].cell /\ heap[s] # Null /\ heap[s] \in AlertData
      BY <2>1, JobLives
    <2>3. PICK new \in AlertData : new = [heap[s] EXCEPT !.timer = "started"]
      BY <2>2 DEF AlertData
    <2>4. heap' = [heap EXCEPT ![s] = new]
      BY <1>7, <2>2, <2>3 DEF ArmTimer
    <2>5. /\ heap' \in [Cells -> AlertData \cup {Null}]
          /\ \A c \in Cells : heap'[c] = Null <=> heap[c] = Null
      BY <1>4, <2>2, <2>4, FieldAssigned
    <2>6. QED
      BY <1>3, <1>4, <1>7, <2>5 DEF ArmTimer
  <1>8. CASE StoreAlert(t)
    <2>1. CASE Go(t, "armed", "stored") /\ alertList' = Append(alertList, job[t].cell)
      BY <1>8, <2>1, StoreOwned DEF StoreAlert
    <2>2. CASE Go(t, "armed", "fail") /\ UNCHANGED alertList
      BY <1>3, <1>4, <1>8, <2>2 DEF StoreAlert
    <2>3. QED
      BY <1>8, <2>1, <2>2 DEF StoreAlert
  <1>9. CASE ReportStored(t)
    <2>1. stray' \in BOOLEAN
      <3>1. stray' = (stray \/ ~Holds(job[t].cell, job[t].token))
        BY <1>9 DEF ReportStored, Use
      <3>2. QED
        BY <3>1, Zenon
    <2>2. QED
      BY <1>3, <1>4, <1>9, <2>1 DEF ReportStored
  <1>10. CASE FailAlert(t)
    BY <1>3, <1>4, <1>10 DEF FailAlert
  <1>11. QED
    BY <1>1, <1>2, <1>5, <1>6, <1>7, <1>8, <1>9, <1>10 DEF AlertThread

\* Steps that leave the directive task, the threads and the places alone.
ElsewhereVars == <<leaked, alertList, alertQueue, queueLost, thread, job, dir, dirCell, asked>>

LEMMA ElsewhereOwned ==
    ASSUME OwnInv, UNCHANGED ElsewhereVars,
           ringing' \in Cells \cup {Null}, other' \in OtherTypes \cup {"none"}, stray' \in BOOLEAN,
           call' \in [at : Pointer, node : Cells \cup {Null}] \cup {Null},
           heap' \in [Cells -> AlertData \cup {Null}],
           \A s \in Cells : heap'[s] = Null <=> heap[s] = Null
    PROVE  OwnInv'
  <1>1. Types'
    BY DEF ElsewhereVars, OwnInv, Types, HeapTypeOK, TaskTypeOK
  <1>2. QED
    BY <1>1, NothingMoves DEF ElsewhereVars, Working

LEMMA TypesFacts ==
    ASSUME OwnInv
    PROVE  /\ heap \in [Cells -> AlertData \cup {Null}] /\ alertList \in Seq(Cells)
           /\ ringing \in Cells \cup {Null} /\ other \in OtherTypes \cup {"none"}
           /\ call \in [at : Pointer, node : Cells \cup {Null}] \cup {Null}
           /\ stray \in BOOLEAN
  BY DEF OwnInv, Types, HeapTypeOK, TaskTypeOK

LEMMA PlayerOwned ==
    ASSUME OwnInv, PlayOther \/ TypeOther \/ KeySilences \/ PlayerEnds \/ UNCHANGED vars
    PROVE  OwnInv'
  <1>1. other' \in OtherTypes \cup {"none"}
    BY TypesFacts DEF PlayOther, TypeOther, KeySilences, PlayerEnds, vars, playerVars
  <1>2. UNCHANGED ElsewhereVars /\ UNCHANGED <<heap, ringing, call, stray>>
    BY DEF PlayOther, TypeOther, KeySilences, PlayerEnds, OnlyPlayer, vars, ElsewhereVars,
       heapVars, listVars, queueVars, threadVars, dirVars
  <1>3. QED
    BY <1>1, <1>2, TypesFacts, ElsewhereOwned

LEMMA TimerOwned ==
    ASSUME OwnInv, RingAlert \/ \E s \in Cells : TimerFires(s)
    PROVE  OwnInv'
  <1>1. UNCHANGED ElsewhereVars /\ UNCHANGED other
    BY DEF RingAlert, TimerFires, ElsewhereVars, listVars, queueVars, threadVars, dirVars, playerVars
  <1>2. ASSUME NEW s \in Cells, TimerFires(s) PROVE OwnInv'
    <2>1. heap[s] # Null /\ heap[s] \in AlertData
      BY <1>2, TypesFacts DEF TimerFires
    <2>2. PICK new \in AlertData : new = [heap[s] EXCEPT !.timer = "none"]
      BY <2>1 DEF AlertData
    <2>3. heap' = [heap EXCEPT ![s] = new] /\ UNCHANGED <<ringing, stray>>
      BY <1>2, <2>2 DEF TimerFires, listVars
    <2>4. call' \in [at : Pointer, node : Cells \cup {Null}]
      <3>1. [cell |-> s, token |-> heap[s].token] \in Pointer
        BY <2>1 DEF Pointer, AlertData
      <3>2. (IF alertList = <<>> THEN Null ELSE Head(alertList)) \in Cells \cup {Null}
        BY TypesFacts
      <3>3. QED
        BY <1>2, <3>1, <3>2 DEF TimerFires
    <2>5. QED
      BY <1>1, <2>1, <2>3, <2>4, TypesFacts, FieldAssigned, ElsewhereOwned
  <1>3. CASE RingAlert
    <2>1. PICK s \in Cells : s = call.at.cell
      BY <1>3, TypesFacts DEF RingAlert, Pointer
    <2>2. stray' \in BOOLEAN
      <3>1. stray' = (stray \/ ~Holds(call.at.cell, call.at.token))
        BY <1>3 DEF RingAlert, Use
      <3>2. QED
        BY <3>1, Zenon
    <2>3. CASE heap[s] = Null
      <3>1. UNCHANGED <<heap, ringing>> /\ call' = Null
        BY <1>3, <2>1, <2>3 DEF RingAlert
      <3>2. QED
        BY <1>1, <2>2, <3>1, TypesFacts, ElsewhereOwned
    <2>4. CASE heap[s] # Null
      <3>1. PICK new \in AlertData : new = [heap[s] EXCEPT !.active = TRUE]
        BY <2>4, TypesFacts DEF AlertData
      <3>2. heap' = [heap EXCEPT ![s] = new] /\ ringing' \in {ringing, s} /\ call' = Null
        BY <1>3, <2>1, <2>4, <3>1 DEF RingAlert
      <3>3. QED
        BY <1>1, <2>2, <2>4, <3>2, TypesFacts, FieldAssigned, ElsewhereOwned
    <2>5. QED
      BY <2>3, <2>4
  <1>4. QED
    BY <1>2, <1>3

\* What the wrapper does to the alerts: it activates none, and takes a loop of
\* the one that rings.
Worn(s) ==
    /\ heap'[s] = Null <=> heap[s] = Null
    /\ heap[s] # Null => /\ heap'[s].token = heap[s].token /\ heap'[s].timer = heap[s].timer
                         /\ heap'[s].active => heap[s].active
                         /\ \/ heap'[s].loops = heap[s].loops
                            \/ s = ringing /\ (heap'[s].active => heap'[s].loops # 0)

\* The turn after a step of the wrapper.
Turn ==
    \/ UNCHANGED ringing /\ (ringing # Null => heap'[ringing] # Null /\ heap'[ringing].active = heap[ringing].active)
    \/ ringing' = Null /\ \A i \in DOMAIN alertList : ~Active(heap', alertList[i])
    \/ ringing' \in Cells /\ In(alertList, ringing') /\ Active(heap', ringing')

\* A step that gives the ringing alert new data.
LEMMA RingingWorn ==
    ASSUME OwnInv, RingListed, ringing # Null, NEW new \in AlertData,
           heap' = [heap EXCEPT ![ringing] = new],
           new.token = heap[ringing].token, new.timer = heap[ringing].timer,
           new.active => heap[ringing].active,
           new.loops = heap[ringing].loops \/ (new.active => new.loops # 0)
    PROVE  heap' \in [Cells -> AlertData \cup {Null}] /\ \A s \in Cells : Worn(s)
  <1>1. PICK r \in Cells : r = ringing
    BY TypesFacts
  <1>2. heap[r] # Null
    BY <1>1, ListedLives DEF RingListed
  <1>3. /\ heap' \in [Cells -> AlertData \cup {Null}]
        /\ \A s \in Cells : heap'[s] = Null <=> heap[s] = Null
    BY <1>1, <1>2, FieldAssigned, TypesFacts
  <1>4. heap'[r] = new /\ \A s \in Cells : s # r => heap'[s] = heap[s]
    BY <1>1, TypesFacts
  <1>5. ASSUME NEW s \in Cells PROVE Worn(s)
    <2>1. CASE s = r
      BY <1>1, <1>3, <1>4, <2>1 DEF Worn
    <2>2. CASE s # r
      BY <1>3, <1>4, <2>2 DEF Worn
    <2>3. QED
      BY <2>1, <2>2
  <1>6. QED
    BY <1>3, <1>5

LEMMA WrapperWears ==
    ASSUME OwnInv, RingListed, WrapperTask
    PROVE  /\ UNCHANGED ElsewhereVars /\ UNCHANGED <<other, call, stray>>
           /\ heap' \in [Cells -> AlertData \cup {Null}]
           /\ \A s \in Cells : Worn(s)
           /\ Turn
  <1>1. UNCHANGED ElsewhereVars /\ UNCHANGED <<other, call, stray>>
    BY DEF WrapperTask, Receive, ClearSpeech, CallBack, OnStop, OnToneFinish, OnLoopFinish,
       OnToneError, OnAlarmError, Handle, Wrapper, ElsewhereVars, queueVars, threadVars, dirVars
  <1> DEFINE Goal == heap' \in [Cells -> AlertData \cup {Null}] /\ (\A s \in Cells : Worn(s)) /\ Turn
  <1>2. ringing # Null => /\ ringing \in Cells /\ heap[ringing] # Null /\ heap[ringing] \in AlertData
    BY ListedLives, TypesFacts DEF RingListed
  <1>3. ASSUME UNCHANGED <<heap, ringing>> PROVE Goal
    BY <1>2, <1>3, TypesFacts DEF Worn, Turn
  <1>4. ASSUME OnToneFinish PROVE Goal
    <2>1. ringing # Null /\ UNCHANGED ringing
      BY <1>4 DEF OnToneFinish
    <2>2. PICK new : new = [heap[ringing] EXCEPT !.tone = heap[ringing].tone + 1]
      OBVIOUS
    <2>3. /\ new \in AlertData /\ new.token = heap[ringing].token /\ new.timer = heap[ringing].timer
          /\ new.active = heap[ringing].active /\ new.loops = heap[ringing].loops
      BY <1>2, <2>1, <2>2 DEF AlertData
    <2>4. heap' = [heap EXCEPT ![ringing] = new]
      BY <1>4, <2>2 DEF OnToneFinish
    <2>5. heap'[ringing] = new /\ heap'[ringing] # Null
      BY <1>2, <2>1, <2>3, <2>4, NullAssumption, TypesFacts
    <2>6. QED
      BY <2>1, <2>3, <2>4, <2>5, RingingWorn DEF Turn
  <1>5. ASSUME OnLoopFinish PROVE Goal
    <2>1. PICK f : f = FindActive(heap', ringing) /\ ringing' = f
      BY <1>5 DEF OnLoopFinish
    <2>2. Turn
      BY <2>1, ActiveIsFound, TypesFacts DEF Turn
    <2>3. CASE ringing = Null
      BY <1>5, <2>2, <2>3, TypesFacts DEF OnLoopFinish, Worn
    <2>4. CASE ringing # Null
      <3>1. PICK new : new = LoopDone(heap[ringing])
        OBVIOUS
      <3>2. heap' = [heap EXCEPT ![ringing] = new]
        BY <1>5, <2>4, <3>1 DEF OnLoopFinish
      <3>3. QED
        BY <1>2, <2>2, <2>4, <3>1, <3>2, LoopDoneData, RingingWorn
    <2>5. QED
      BY <2>3, <2>4
  <1>6. ASSUME OnAlarmError PROVE Goal
    <2>1. PICK f : f = FindActive(heap', ringing) /\ ringing' = f
      BY <1>6 DEF OnAlarmError
    <2>2. Turn
      BY <2>1, ActiveIsFound, TypesFacts DEF Turn
    <2>3. CASE ringing = Null
      BY <1>6, <2>2, <2>3, TypesFacts DEF OnAlarmError, Worn
    <2>4. CASE ringing # Null
      <3>1. PICK new : new = [heap[ringing] EXCEPT !.active = FALSE]
        OBVIOUS
      <3>2. heap' = [heap EXCEPT ![ringing] = new]
        BY <1>6, <2>4, <3>1 DEF OnAlarmError
      <3>3. /\ new \in AlertData /\ new.token = heap[ringing].token /\ new.timer = heap[ringing].timer
            /\ new.active = FALSE /\ new.loops = heap[ringing].loops
        BY <1>2, <2>4, <3>1 DEF AlertData
      <3>4. QED
        BY <2>2, <2>4, <3>2, <3>3, RingingWorn
    <2>5. QED
      BY <2>3, <2>4
  <1>7. ASSUME OnStop PROVE Goal
    <2>1. PICK stopped \in SUBSET Cells :
             /\ stopped = {s \in Cells : Active(heap, s) /\ \E i \in DOMAIN alertList : alertList[i] = s}
             /\ heap' = [s \in Cells |-> IF s \in stopped THEN [heap[s] EXCEPT !.active = FALSE] ELSE heap[s]]
      BY <1>7 DEF OnStop
    <2>2. ringing' = Null
      BY <1>7 DEF OnStop
    <2>3. \A s \in Cells : s \notin stopped => heap'[s] = heap[s]
      BY <2>1
    <2>4. ASSUME NEW s \in stopped
          PROVE  /\ heap[s] # Null /\ heap'[s] # Null /\ heap'[s] \in AlertData
                 /\ heap'[s].token = heap[s].token /\ heap'[s].timer = heap[s].timer
                 /\ heap'[s].active = FALSE /\ heap'[s].loops = heap[s].loops
      <3>1. heap[s] # Null /\ heap[s] \in AlertData
        BY <2>1, TypesFacts DEF Active
      <3>2. heap'[s] = [heap[s] EXCEPT !.active = FALSE]
        BY <2>1
      <3>3. heap'[s] \in AlertData
        BY <3>1, <3>2 DEF AlertData
      <3>4. QED
        BY <3>1, <3>2, <3>3, NullAssumption DEF AlertData
    <2>5. heap' \in [Cells -> AlertData \cup {Null}]
      <3>1. \A s \in Cells : heap'[s] \in AlertData \cup {Null}
        BY <2>3, <2>4, TypesFacts
      <3>2. QED
        BY <2>1, <3>1
    <2>6. \A s \in Cells : Worn(s)
      BY <2>3, <2>4 DEF Worn
    <2>7. \A i \in DOMAIN alertList : ~Active(heap', alertList[i])
      BY <2>1, <2>3, <2>4, TypesFacts DEF Active
    <2>8. QED
      BY <2>2, <2>5, <2>6, <2>7 DEF Turn
  <1>8. QED
    BY <1>1, <1>3, <1>4, <1>5, <1>6, <1>7 DEF WrapperTask, Receive, ClearSpeech, CallBack, OnToneError

LEMMA OwnStep ==
    ASSUME OwnInv, RingListed, [Next]_vars
    PROVE  OwnInv'
  <1>1. ASSUME NEW a \in Alerts, CreateAlert(a) \/ DeleteAlert(a) PROVE OwnInv'
    BY <1>1, CreateOwned, DeleteOwned
  <1>2. CASE WrapperTask
    <2>1. ringing' \in Cells \cup {Null}
      BY <1>2, WrapperWears, TypesFacts DEF Turn
    <2>2. QED
      BY <1>2, <2>1, WrapperWears, TypesFacts, ElsewhereOwned DEF Worn
  <1>3. QED
    BY <1>1, <1>2, QueueOwned, ThreadOwned, TimerOwned, PlayerOwned DEF Next, Directive

-----------------------------------------------------------------------------
(* The ringing alert is listed, and while no freed alert was used it is      *)
(* active with loops left: an alert that waits for its time is fresh, has    *)
(* one timer, and then one call, which activates it.                         *)

Fresh(s) == ~heap[s].active /\ heap[s].loops > 0

Waiting(s) ==
    \/ dirCell = s
    \/ In(alertQueue, s)
    \/ \E t \in Threads : thread[t] = "check" /\ job[t].cell = s

Calling(s) == call # Null /\ call.at.cell = s /\ call.at.token = heap[s].token

Kept(s) ==
    heap[s] # Null =>
        /\ Waiting(s) => Fresh(s) /\ heap[s].timer = "none"
        /\ heap[s].timer = "started" => Fresh(s)
        /\ Calling(s) => Fresh(s) /\ heap[s].timer = "none" /\ ~Waiting(s)
        /\ heap[s].active => heap[s].loops > 0

Sounding == ringing # Null => heap[ringing].active

LoopInv ==
    /\ \A s \in Cells : heap[s] # Null => heap[s].token \in asked
    /\ call # Null => call.at.token \in asked
    /\ ~stray => (\A s \in Cells : Kept(s)) /\ Sounding

LEMMA KeptAlike ==
    ASSUME NEW s \in Cells, Kept(s), heap'[s] = heap[s], Waiting(s)' => Waiting(s),
           Calling(s)' => Calling(s)
    PROVE  Kept(s)'
  BY DEF Kept, Fresh

\* Steps that only move an alert on.
LEMMA LoopAlike ==
    ASSUME LoopInv, UNCHANGED <<heap, call, ringing>>, asked \subseteq asked', ~stray' => ~stray,
           \A s \in Cells : Waiting(s)' => Waiting(s)
    PROVE  LoopInv'
  <1>1. \A s \in Cells : Calling(s)' => Calling(s)
    BY DEF Calling
  <1>2. ASSUME ~stray', NEW s \in Cells PROVE Kept(s)'
    BY <1>1, <1>2, KeptAlike DEF LoopInv
  <1>3. ~stray' => Sounding'
    BY DEF LoopInv, Sounding
  <1>4. QED
    BY <1>2, <1>3 DEF LoopInv

\* Steps that free a cell nobody rings.
LEMMA LoopFreed ==
    ASSUME OwnInv, LoopInv, NEW s \in Cells, heap' = [heap EXCEPT ![s] = Null],
           UNCHANGED <<call, asked, stray>>, ringing' \in {ringing, Null}, ringing' # s,
           \A c \in Cells : Waiting(c)' => Waiting(c)
    PROVE  LoopInv'
  <1>1. heap'[s] = Null /\ \A c \in Cells : c # s => heap'[c] = heap[c]
    BY TypesFacts
  <1>2. ASSUME ~stray', NEW c \in Cells PROVE Kept(c)'
    <2>1. CASE c = s
      BY <1>1, <2>1 DEF Kept
    <2>2. CASE c # s
      <3>1. Calling(c)' => Calling(c)
        BY <1>1, <2>2 DEF Calling
      <3>2. Kept(c) /\ heap'[c] = heap[c]
        BY <1>1, <1>2, <2>2 DEF LoopInv
      <3>3. QED
        BY <3>1, <3>2, KeptAlike
    <2>3. QED
      BY <2>1, <2>2
  <1>3. ~stray' => Sounding'
    BY <1>1, TypesFacts DEF LoopInv, Sounding
  <1>4. /\ \A c \in Cells : heap'[c] # Null => heap'[c].token \in asked'
        /\ call' # Null => call'.at.token \in asked'
    BY <1>1 DEF LoopInv
  <1>5. QED
    BY <1>2, <1>3, <1>4 DEF LoopInv

LEMMA CreateLoop ==
    ASSUME OwnInv, RingListed, LoopInv, NEW a \in Alerts, CreateAlert(a)
    PROVE  LoopInv'
  <1>1. /\ UNCHANGED <<call, ringing, stray, alertQueue, thread, job>>
        /\ a \notin asked /\ asked' = asked \cup {a}
    BY DEF CreateAlert, listVars, queueVars, threadVars
  <1>2. CASE UNCHANGED <<heap, dir, dirCell>>
    BY <1>1, <1>2, LoopAlike DEF Waiting
  <1>3. CASE dir' = "queue"
    <2>1. PICK s \in Cells, loops \in LoopCounts, tones \in ToneCounts :
             /\ heap[s] = Null /\ dirCell' = s
             /\ heap' = [heap EXCEPT ![s] = NewAlert(a, loops, tones)]
      BY <1>3 DEF CreateAlert, OwnInv
    <2>2. /\ heap'[s] = NewAlert(a, loops, tones)
          /\ \A c \in Cells : c # s => heap'[c] = heap[c]
      BY <2>1, TypesFacts
    <2>3. /\ heap'[s].token = a /\ heap'[s].timer = "none"
          /\ heap'[s].active = FALSE /\ heap'[s].loops > 0
      BY <2>2, AlertAssumption DEF NewAlert
    <2>4. ~Calling(s)'
      BY <1>1, <2>3 DEF LoopInv, Calling
    <2>5. ASSUME ~stray', NEW c \in Cells PROVE Kept(c)'
      <3>1. CASE c = s
        BY <2>3, <2>4, <3>1 DEF Kept, Fresh
      <3>2. CASE c # s
        <4>1. Waiting(c)' => Waiting(c)
          BY <1>1, <2>1, <3>2 DEF Waiting
        <4>2. Calling(c)' => Calling(c)
          BY <1>1, <2>2, <3>2 DEF Calling
        <4>3. Kept(c) /\ heap'[c] = heap[c]
          BY <1>1, <2>2, <2>5, <3>2 DEF LoopInv
        <4>4. QED
          BY <4>1, <4>2, <4>3, KeptAlike
      <3>3. QED
        BY <3>1, <3>2
    <2>6. ~stray' => Sounding'
      <3>1. ringing # Null => ringing \in Cells /\ heap[ringing] # Null
        BY ListedLives, TypesFacts DEF RingListed
      <3>2. ringing # Null => heap'[ringing] = heap[ringing]
        BY <2>1, <2>2, <3>1
      <3>3. QED
        BY <1>1, <3>2 DEF LoopInv, Sounding
    <2>7. \A c \in Cells : heap'[c] # Null => heap'[c].token \in asked'
      BY <1>1, <2>2, <2>3 DEF LoopInv
    <2>8. call' # Null => call'.at.token \in asked'
      BY <1>1 DEF LoopInv
    <2>9. QED
      BY <2>5, <2>6, <2>7, <2>8 DEF LoopInv
  <1>4. QED
    BY <1>2, <1>3 DEF CreateAlert

LEMMA QueueWaits ==
    ASSUME OwnInv, QueueAlert
    PROVE  \A s \in Cells : Waiting(s)' => Waiting(s)
  <1>1. UNCHANGED <<heap, call, ringing, stray, asked, job>> /\ dirCell' = Null
    BY DEF QueueAlert, listVars
  <1>2. \A t \in Threads : thread'[t] = "check" => thread[t] = "check"
    BY DEF QueueAlert, queueVars, OwnInv, Types, TaskTypeOK
  <1>3. \A s \in Cells : In(alertQueue', s) => In(alertQueue, s) \/ s = dirCell
    <2>1. CASE UNCHANGED alertQueue
      BY <2>1
    <2>2. CASE alertQueue' = Append(alertQueue, dirCell)
      <3>1. PICK own \in [Cells -> Places] : Owned(own)
        BY DEF OwnInv
      <3>2. dirCell \in Cells /\ Line(alertQueue)
        BY DEF QueueAlert, Line, OwnInv, Types, HeapTypeOK, TaskTypeOK
      <3>3. ~In(alertQueue, dirCell)
        BY <3>1, <3>2 DEF Owned
      <3>4. QED
        BY <2>2, <3>2, <3>3, LineAppend
    <2>3. QED
      BY <2>1, <2>2 DEF QueueAlert, queueVars
  <1>4. QED
    BY <1>1, <1>2, <1>3, AlertAssumption DEF Waiting

LEMMA QueueLoop ==
    ASSUME OwnInv, LoopInv, QueueAlert
    PROVE  LoopInv'
  <1>1. UNCHANGED <<heap, call, ringing, stray, asked>>
    BY DEF QueueAlert, listVars
  <1>2. QED
    BY <1>1, QueueWaits, LoopAlike

LEMMA ArmLoop ==
    ASSUME OwnInv, LoopInv, NEW t \in Threads, ArmTimer(t)
    PROVE  LoopInv'
  <1>1. PICK own \in [Cells -> Places] : Owned(own)
    BY DEF OwnInv
  <1>2. Working(t) /\ thread[t] = "check"
    BY DEF ArmTimer, Go, Working
  <1>3. PICK s \in Cells : s = job[t].cell /\ heap[s] # Null /\ heap[s] \in AlertData
    BY <1>2, JobLives
  <1>4. PICK new : new = [heap[s] EXCEPT !.timer = "started"]
    OBVIOUS
  <1>5. /\ new.timer = "started" /\ new.token = heap[s].token /\ new.active = heap[s].active
        /\ new.loops = heap[s].loops
    BY <1>3, <1>4 DEF AlertData
  <1>6. heap'[s] = new /\ \A c \in Cells : c # s => heap'[c] = heap[c]
    BY <1>3, <1>4, TypesFacts DEF ArmTimer
  <1>7. /\ UNCHANGED <<call, ringing, stray, asked, job, dirCell, alertQueue>>
        /\ thread' = [thread EXCEPT ![t] = "armed"]
    BY DEF ArmTimer, Go, dirVars
  <1>8. /\ \A u \in Threads : thread'[u] = "check" => thread[u] = "check" /\ u # t
        /\ \A c \in Cells : Waiting(c)' => Waiting(c)
    BY <1>7 DEF OwnInv, Types, TaskTypeOK, Waiting
  <1>9. ~Waiting(s)'
    <2>1. own[s] = <<"thread", t>>
      BY <1>1, <1>2, <1>3 DEF Owned
    <2>2. dirCell # s /\ ~In(alertQueue, s)
      BY <1>1, <2>1, PlacesDiffer DEF Owned
    <2>3. \A u \in Threads : u # t => ~(thread[u] = "check" /\ job[u].cell = s)
      BY <1>1, <2>1, PlacesDiffer DEF Owned, Working
    <2>4. QED
      BY <1>7, <1>8, <2>2, <2>3 DEF Waiting
  <1>10. ASSUME ~stray', NEW c \in Cells PROVE Kept(c)'
    <2>0. Kept(c)
      BY <1>7, <1>10 DEF LoopInv
    <2>1. CASE c = s
      <3>1. Waiting(s)
        BY <1>2, <1>3 DEF Waiting
      <3>2. Fresh(s) /\ ~Calling(s)
        BY <1>3, <2>0, <2>1, <3>1 DEF Kept
      <3>3. Fresh(s)' /\ ~Calling(s)' /\ ~heap'[s].active
        BY <1>5, <1>6, <1>7, <3>2 DEF Fresh, Calling
      <3>4. QED
        BY <1>9, <2>1, <3>3 DEF Kept
    <2>2. CASE c # s
      <3>1. Calling(c)' => Calling(c)
        BY <1>6, <1>7, <2>2 DEF Calling
      <3>2. QED
        BY <1>6, <1>8, <2>0, <2>2, <3>1, KeptAlike
    <2>3. QED
      BY <2>1, <2>2
  <1>11. ~stray' => Sounding'
    BY <1>5, <1>6, <1>7, TypesFacts, AlertAssumption DEF LoopInv, Sounding
  <1>12. \A c \in Cells : heap'[c] # Null => heap'[c].token \in asked'
    BY <1>3, <1>5, <1>6, <1>7 DEF LoopInv
  <1>13. QED
    BY <1>7, <1>10, <1>11, <1>12 DEF LoopInv

LEMMA ThreadWaits ==
    ASSUME OwnInv, NEW t \in Threads, AlertThread(t)
    PROVE  \A s \in Cells : Waiting(s)' => Waiting(s)
  <1>1. UNCHANGED dirCell
    BY DEF AlertThread, PopAlert, ExitThread, RejectAlert, ArmTimer, StoreAlert, ReportStored,
       FailAlert, FreeAlert, Go, dirVars
  <1>2. CASE PopAlert(t)
    <2>1. /\ alertQueue # <<>> /\ alertQueue' = Tail(alertQueue)
          /\ thread' = [thread EXCEPT ![t] = "check"]
          /\ job' = [job EXCEPT ![t] = [cell |-> Head(alertQueue), token |-> heap[Head(alertQueue)].token]]
      BY <1>2 DEF PopAlert, Go
    <2>2. /\ \A c : In(alertQueue', c) => In(alertQueue, c)
          /\ In(alertQueue, Head(alertQueue))
      <3>1. Line(alertQueue)
        BY DEF Line, OwnInv, Types, HeapTypeOK
      <3>2. QED
        BY <2>1, <3>1, LineTail
    <2>3. /\ job'[t].cell = Head(alertQueue)
          /\ \A u \in Threads : u # t => job'[u] = job[u] /\ thread'[u] = thread[u]
      BY <2>1 DEF OwnInv, Types, TaskTypeOK
    <2>4. QED
      BY <1>1, <2>2, <2>3 DEF Waiting
  <1>3. CASE ~PopAlert(t)
    <2>1. /\ UNCHANGED alertQueue /\ job' \in {job, [job EXCEPT ![t] = Null]}
          /\ \E to \in ThreadPlaces \ {"check"} : thread' = [thread EXCEPT ![t] = to]
      BY <1>3 DEF AlertThread, ExitThread, RejectAlert, ArmTimer, StoreAlert, ReportStored,
         FailAlert, FreeAlert, Go, ThreadPlaces
    <2>2. \A u \in Threads : thread'[u] = "check" => thread[u] = "check" /\ job'[u] = job[u]
      BY <2>1 DEF OwnInv, Types, TaskTypeOK
    <2>3. QED
      BY <1>1, <2>1, <2>2 DEF Waiting
  <1>4. QED
    BY <1>2, <1>3

LEMMA ThreadLoop ==
    ASSUME OwnInv, RingListed, LoopInv, NEW t \in Threads, AlertThread(t)
    PROVE  LoopInv'
  <1>1. /\ UNCHANGED <<call, ringing, asked, dirCell>>
        /\ ~stray' => ~stray
    <2>1. stray' = stray \/ stray' = (stray \/ ~Holds(job[t].cell, job[t].token))
      BY DEF AlertThread, PopAlert, ExitThread, RejectAlert, ArmTimer, StoreAlert, ReportStored,
         FailAlert, FreeAlert, Use
    <2>2. ~stray' => ~stray
      BY <2>1
    <2>3. UNCHANGED <<call, ringing, asked, dirCell>>
      BY DEF AlertThread, PopAlert, ExitThread, RejectAlert, ArmTimer, StoreAlert, ReportStored,
         FailAlert, FreeAlert, Go, dirVars
    <2>4. QED
      BY <2>2, <2>3
  <1>2. CASE UNCHANGED heap
    BY <1>1, <1>2, ThreadWaits, LoopAlike
  <1>3. CASE ArmTimer(t)
    BY <1>3, ArmLoop
  <1>4. CASE FreeAlert(t)
    <2>1. PICK own \in [Cells -> Places] : Owned(own)
      BY DEF OwnInv
    <2>2. Working(t)
      BY <1>4 DEF FreeAlert, Go, Working
    <2>3. PICK s \in Cells : s = job[t].cell
      BY <2>2, JobLives
    <2>4. own[s] = <<"thread", t>>
      BY <2>1, <2>2, <2>3 DEF Owned
    <2>5. ringing # s
      <3>1. ~In(alertList, s)
        BY <2>1, <2>4, PlacesDiffer DEF Owned
      <3>2. QED
        BY <3>1, AlertAssumption DEF RingListed
    <2>6. heap' = [heap EXCEPT ![s] = Null] /\ stray' = stray
      BY <1>4, <2>3 DEF FreeAlert
    <2>7. QED
      BY <1>1, <2>5, <2>6, ThreadWaits, LoopFreed
  <1>5. QED
    BY <1>2, <1>3, <1>4 DEF AlertThread, PopAlert, ExitThread, RejectAlert, StoreAlert, ReportStored,
       FailAlert

LEMMA DeleteLoop ==
    ASSUME OwnInv, LoopInv, NEW a \in Alerts, DeleteAlert(a)
    PROVE  LoopInv'
  <1>1. PICK i \in DOMAIN alertList, s \in Cells :
           /\ s = alertList[i] /\ heap' = [heap EXCEPT ![s] = Null]
           /\ IF s = ringing THEN ringing' = Null ELSE ringing' = ringing
           /\ UNCHANGED <<leaked, queueVars, threadVars, dirVars, other, call, stray>>
    BY DeleteUnlinks
  <1>2. \A c \in Cells : Waiting(c)' => Waiting(c)
    BY <1>1 DEF Waiting, queueVars, threadVars, dirVars
  <1>3. ringing' \in {ringing, Null} /\ ringing' # s
    BY <1>1, AlertAssumption
  <1>4. QED
    BY <1>1, <1>2, <1>3, LoopFreed DEF dirVars

LEMMA TimerLoop ==
    ASSUME OwnInv, LoopInv, NEW s \in Cells, TimerFires(s)
    PROVE  LoopInv'
  <1>1. /\ call = Null /\ heap[s] # Null /\ heap[s] \in AlertData /\ heap[s].timer = "started"
        /\ call'.at.cell = s /\ call'.at.token = heap[s].token
        /\ UNCHANGED <<ringing, stray, asked, dirCell, alertQueue, thread, job>>
    BY TypesFacts DEF TimerFires, listVars, queueVars, threadVars, dirVars
  <1>2. PICK new : new = [heap[s] EXCEPT !.timer = "none"]
    OBVIOUS
  <1>3. /\ new.timer = "none" /\ new.token = heap[s].token /\ new.active = heap[s].active
        /\ new.loops = heap[s].loops
    BY <1>1, <1>2 DEF AlertData
  <1>4. heap'[s] = new /\ \A c \in Cells : c # s => heap'[c] = heap[c]
    BY <1>2, TypesFacts DEF TimerFires
  <1>5. \A c \in Cells : Waiting(c)' => Waiting(c)
    BY <1>1 DEF Waiting
  <1>6. ASSUME ~stray', NEW c \in Cells PROVE Kept(c)'
    <2>0. Kept(c)
      BY <1>1, <1>6 DEF LoopInv
    <2>1. CASE c = s
      <3>1. Fresh(s) /\ ~Waiting(s)
        BY <1>1, <2>0, <2>1 DEF Kept
      <3>2. Fresh(s)' /\ ~Waiting(s)' /\ ~heap'[s].active /\ heap'[s].timer = "none"
        BY <1>3, <1>4, <1>5, <3>1 DEF Fresh
      <3>3. QED
        BY <2>1, <3>2 DEF Kept
    <2>2. CASE c # s
      <3>1. ~Calling(c)'
        BY <1>1, <2>2 DEF Calling
      <3>2. QED
        BY <1>4, <1>5, <2>0, <2>2, <3>1, KeptAlike
    <2>3. QED
      BY <2>1, <2>2
  <1>7. ~stray' => Sounding'
    BY <1>1, <1>3, <1>4, TypesFacts, AlertAssumption DEF LoopInv, Sounding
  <1>8. \A c \in Cells : heap'[c] # Null => heap'[c].token \in asked'
    BY <1>1, <1>3, <1>4 DEF LoopInv
  <1>9. call' # Null => call'.at.token \in asked'
    BY <1>1 DEF LoopInv
  <1>10. QED
    BY <1>6, <1>7, <1>8, <1>9 DEF LoopInv

LEMMA RingLoop ==
    ASSUME OwnInv, LoopInv, RingAlert
    PROVE  LoopInv'
  <1>1. PICK s \in Cells : s = call.at.cell
    BY TypesFacts DEF RingAlert, Pointer
  <1>2. /\ call # Null /\ call' = Null
        /\ UNCHANGED <<asked, dirCell, alertQueue, thread, job>>
    BY DEF RingAlert, queueVars, threadVars, dirVars
  <1>3. \A c \in Cells : Waiting(c)' => Waiting(c)
    BY <1>2 DEF Waiting
  <1>4. ~stray' => ~stray /\ heap[s] # Null /\ Calling(s)
    <2>1. stray' = (stray \/ ~Holds(s, call.at.token))
      BY <1>1 DEF RingAlert, Use
    <2>2. ~stray' => ~stray /\ Holds(s, call.at.token)
      BY <2>1
    <2>3. QED
      BY <1>1, <1>2, <2>2 DEF Holds, Calling
  <1>5. CASE heap[s] = Null
    <2>1. UNCHANGED heap /\ stray'
      <3>1. UNCHANGED heap
        BY <1>1, <1>5 DEF RingAlert
      <3>2. QED
        BY <1>4, <1>5, <3>1
    <2>2. QED
      BY <1>2, <2>1 DEF LoopInv
  <1>6. CASE heap[s] # Null
    <2>1. PICK new : new = [heap[s] EXCEPT !.active = TRUE]
      OBVIOUS
    <2>2. heap[s] \in AlertData
      BY <1>6, TypesFacts
    <2>3. /\ new.active = TRUE /\ new.token = heap[s].token /\ new.timer = heap[s].timer
          /\ new.loops = heap[s].loops
      BY <2>1, <2>2 DEF AlertData
    <2>4. heap' = [heap EXCEPT ![s] = new] /\ ringing' \in {ringing, s}
      BY <1>1, <1>6, <2>1 DEF RingAlert
    <2>5. heap'[s] = new /\ \A c \in Cells : c # s => heap'[c] = heap[c]
      BY <2>4, TypesFacts
    <2>6. ASSUME ~stray', NEW c \in Cells PROVE Kept(c)'
      <3>0. Kept(c) /\ Calling(s)
        BY <1>4, <2>6 DEF LoopInv
      <3>1. CASE c = s
        <4>1. Fresh(s) /\ heap[s].timer = "none" /\ ~Waiting(s)
          BY <1>6, <3>0, <3>1 DEF Kept
        <4>2. /\ ~Waiting(s)' /\ ~Calling(s)' /\ heap'[s].timer = "none" /\ heap'[s].loops > 0
          BY <1>2, <1>3, <2>3, <2>5, <4>1 DEF Fresh, Calling
        <4>3. QED
          BY <3>1, <4>2 DEF Kept
      <3>2. CASE c # s
        <4>1. ~Calling(c)'
          BY <1>2 DEF Calling
        <4>2. QED
          BY <1>3, <2>5, <3>0, <3>2, <4>1, KeptAlike
      <3>3. QED
        BY <3>1, <3>2
    <2>7. ~stray' => Sounding'
      BY <1>4, <2>3, <2>4, <2>5, TypesFacts DEF LoopInv, Sounding
    <2>8. \A c \in Cells : heap'[c] # Null => heap'[c].token \in asked'
      BY <1>2, <1>6, <2>3, <2>5 DEF LoopInv
    <2>9. QED
      BY <1>2, <2>6, <2>7, <2>8 DEF LoopInv
  <1>7. QED
    BY <1>5, <1>6

LEMMA WrapperLoop ==
    ASSUME OwnInv, RingListed, LoopInv, WrapperTask
    PROVE  LoopInv'
  <1>1. /\ UNCHANGED <<call, stray, asked, dirCell, alertQueue, thread, job>>
        /\ \A s \in Cells : Worn(s)
        /\ Turn /\ heap' \in [Cells -> AlertData \cup {Null}]
    BY WrapperWears DEF ElsewhereVars
  <1>2. ASSUME ~stray', NEW s \in Cells PROVE Kept(s)'
    <2> SUFFICES ASSUME heap'[s] # Null PROVE Kept(s)'
      BY DEF Kept
    <2>1. /\ heap[s] # Null /\ Worn(s) /\ Kept(s) /\ Sounding
          /\ heap[s] \in AlertData /\ heap'[s] \in AlertData
      BY <1>1, <1>2, TypesFacts DEF LoopInv, Worn
    <2>2. /\ Waiting(s)' <=> Waiting(s)
          /\ Calling(s)' <=> Calling(s)
      BY <1>1, <2>1 DEF Waiting, Calling, Worn
    <2>3. Fresh(s) => s # ringing
      BY <2>1, AlertAssumption DEF Fresh, Sounding
    <2>4. Fresh(s) => Fresh(s)'
      BY <2>1, <2>3 DEF Fresh, Worn
    <2>5. heap'[s].active => heap'[s].loops > 0
      <3>1. ASSUME heap'[s].active PROVE heap'[s].loops > 0
        <4>1. heap[s].loops > 0
          BY <2>1, <3>1 DEF Kept, Worn
        <4>2. heap'[s].loops \in Nat
          BY <2>1, AlertAssumption DEF AlertData
        <4>3. heap'[s].loops = heap[s].loops \/ heap'[s].loops # 0
          BY <2>1, <3>1 DEF Worn
        <4>4. QED
          BY <4>1, <4>2, <4>3
      <3>2. QED
        BY <3>1
    <2>6. heap'[s].timer = heap[s].timer
      BY <2>1 DEF Worn
    <2>7. QED
      BY <2>1, <2>2, <2>4, <2>5, <2>6 DEF Kept
  <1>3. ~stray' => Sounding'
    BY <1>1, AlertAssumption DEF LoopInv, Sounding, Turn, Active
  <1>4. \A s \in Cells : heap'[s] # Null => heap'[s].token \in asked'
    BY <1>1 DEF LoopInv, Worn
  <1>5. call' # Null => call'.at.token \in asked'
    BY <1>1 DEF LoopInv
  <1>6. QED
    BY <1>2, <1>3, <1>4, <1>5 DEF LoopInv

LEMMA LoopStep ==
    ASSUME OwnInv, RingListed, LoopInv, [Next]_vars
    PROVE  LoopInv'
  <1>1. ASSUME NEW a \in Alerts, CreateAlert(a) \/ DeleteAlert(a) PROVE LoopInv'
    BY <1>1, CreateLoop, DeleteLoop
  <1>2. CASE PlayOther \/ TypeOther \/ KeySilences \/ PlayerEnds \/ UNCHANGED vars
    <2>1. UNCHANGED <<heap, call, ringing, asked, stray, dirCell, alertQueue, thread, job>>
      BY <1>2 DEF PlayOther, TypeOther, KeySilences, PlayerEnds, OnlyPlayer, vars,
         heapVars, listVars, queueVars, threadVars, dirVars
    <2>2. QED
      BY <2>1, LoopAlike DEF Waiting
  <1>3. QED
    BY <1>1, <1>2, QueueLoop, ThreadLoop, TimerLoop, RingLoop, WrapperLoop DEF Next, Directive

LEMMA RingStep ==
    ASSUME OwnInv, RingListed, [Next]_vars
    PROVE  RingListed'
  <1>1. CASE UNCHANGED <<alertList, ringing>>
    BY <1>1 DEF RingListed
  <1>2. ASSUME NEW a \in Alerts, DeleteAlert(a) PROVE RingListed'
    <2>1. PICK i \in DOMAIN alertList, s \in Cells :
             /\ s = alertList[i] /\ alertList' = RemoveAt(alertList, i)
             /\ IF s = ringing THEN ringing' = Null ELSE ringing' = ringing
      BY <1>2, DeleteUnlinks
    <2>2. \A c : In(alertList', c) <=> In(alertList, c) /\ c # s
      <3>1. Line(alertList)
        BY DEF Line, OwnInv, Types, HeapTypeOK
      <3>2. QED
        BY <2>1, <3>1, LineRemove
    <2>3. QED
      BY <2>1, <2>2 DEF RingListed
  <1>3. ASSUME NEW t \in Threads, AlertThread(t) PROVE RingListed'
    <2>1. UNCHANGED ringing
      BY <1>3 DEF AlertThread, PopAlert, ExitThread, RejectAlert, ArmTimer, StoreAlert,
         ReportStored, FailAlert, FreeAlert, Go
    <2>2. \A c : In(alertList, c) => In(alertList', c)
      <3>1. CASE UNCHANGED alertList
        BY <3>1
      <3>2. CASE Go(t, "armed", "stored") /\ alertList' = Append(alertList, job[t].cell)
        <4>1. Working(t)
          BY <3>2 DEF Go, Working
        <4>2. PICK s \in Cells : s = job[t].cell
          BY <4>1, JobLives
        <4>3. alertList \in Seq(Cells) /\ alertList' = Append(alertList, s)
          BY <3>2, <4>2, TypesFacts
        <4>4. \A i \in DOMAIN alertList : i \in DOMAIN alertList' /\ alertList'[i] = alertList[i]
          BY <4>3
        <4>5. QED
          BY <4>4 DEF In
      <3>3. QED
        BY <1>3, <3>1, <3>2 DEF AlertThread, PopAlert, ExitThread, RejectAlert, ArmTimer,
           StoreAlert, ReportStored, FailAlert, FreeAlert
    <2>3. QED
      BY <2>1, <2>2 DEF RingListed
  <1>4. CASE RingAlert
    <2>1. UNCHANGED alertList
      BY <1>4 DEF RingAlert
    <2>2. CASE UNCHANGED ringing
      BY <2>1, <2>2 DEF RingListed
    <2>3. CASE ringing' # ringing
      <3>1. PICK s, reached : /\ s = call.at.cell /\ ringing' = s
                              /\ reached \in Reaches(call.node, s) /\ reached
        BY <1>4, <2>3 DEF RingAlert
      <3>2. In(alertList, s)
        BY <3>1 DEF Reaches, In
      <3>3. QED
        BY <2>1, <3>1, <3>2 DEF RingListed
    <2>4. QED
      BY <2>2, <2>3
  <1>5. CASE WrapperTask
    BY <1>5, WrapperWears DEF Turn, ElsewhereVars, RingListed
  <1>6. QED
    BY <1>1, <1>2, <1>3, <1>4, <1>5 DEF Next, Directive, CreateAlert, QueueAlert, PlayOther,
       TypeOther, KeySilences, PlayerEnds, OnlyPlayer, TimerFires, vars, listVars

AlertInv == OwnInv /\ RingListed /\ LoopInv

LEMMA AlertInvariant == Spec => []AlertInv
  <1>1. Init => AlertInv
    <2> SUFFICES ASSUME Init PROVE AlertInv
      OBVIOUS
    <2>1. Types
      <3>1. <<>> \in Seq(Cells)
        OBVIOUS
      <3>2. HeapTypeOK
        BY <3>1 DEF Init, HeapTypeOK
      <3>3. TaskTypeOK
        BY DEF Init, TaskTypeOK
      <3>4. QED
        BY <3>2, <3>3 DEF Init, Types
    <2>2. \E own \in [Cells -> Places] : Owned(own)
      <3>1. PICK own : own = [s \in Cells |-> <<"free">>]
        OBVIOUS
      <3>2. own \in [Cells -> Places] /\ \A s \in Cells : own[s] = <<"free">>
        BY <3>1 DEF Places
      <3>3. \A s \in Cells : heap[s] = Null /\ dirCell # s /\ s \notin leaked
        BY AlertAssumption DEF Init
      <3>4. \A s \in Cells : ~In(alertQueue, s) /\ ~In(alertList, s)
        BY DEF Init, In
      <3>5. \A t \in Threads : ~Working(t)
        BY DEF Init, Working
      <3>6. Owned(own)
        BY <3>2, <3>3, <3>4, <3>5, PlacesDiffer DEF Owned
      <3>7. QED
        BY <3>2, <3>6
    <2>3. /\ dirCell = Null <=> dir = "idle"
          /\ Injective(alertQueue) /\ Injective(alertList)
          /\ \A t \in Threads : ~Working(t)
      BY DEF Init, Injective, Working
    <2>4. RingListed /\ LoopInv
      BY DEF Init, RingListed, LoopInv, Kept, Sounding
    <2>5. QED
      BY <2>1, <2>2, <2>3, <2>4 DEF AlertInv, OwnInv
  <1>2. AlertInv /\ [Next]_vars => AlertInv'
    BY OwnStep, RingStep, LoopStep DEF AlertInv
  <1>3. QED
    BY <1>1, <1>2, PTL DEF Spec

-----------------------------------------------------------------------------
(* What follows from it.                                                    *)

LEMMA OwnersCounted ==
    ASSUME OwnInv
    PROVE  OneOwner
  <1>1. PICK own \in [Cells -> Places] : Owned(own)
    BY DEF OwnInv
  <1> SUFFICES ASSUME NEW s \in Cells
      PROVE  Cardinality(Owners(s)) = IF heap[s] = Null THEN 0 ELSE 1
    BY DEF OneOwner
  <1>2. /\ s \in {dirCell} <=> own[s] = <<"dir">>
        /\ s \in leaked <=> own[s] = <<"leaked">>
        /\ In(alertQueue, s) <=> own[s] = <<"queue">>
        /\ In(alertList, s) <=> own[s] = <<"list">>
        /\ \A t \in Threads : Working(t) /\ job[t].cell = s <=> own[s] = <<"thread", t>>
        /\ heap[s] = Null <=> own[s] = <<"free">>
        /\ own[s] \in Places
    BY <1>1 DEF Owned
  <1> DEFINE D == {<<"dir", x>> : x \in {dirCell} \cap {s}}
             L == {<<"leaked", x>> : x \in leaked \cap {s}}
             Q == {<<"queue", i>> : i \in {i \in DOMAIN alertQueue : alertQueue[i] = s}}
             A == {<<"list", i>> : i \in {i \in DOMAIN alertList : alertList[i] = s}}
             T == {<<"thread", t>> : t \in {t \in Threads : Working(t) /\ job[t].cell = s}}
  <1>3. Owners(s) = D \cup L \cup Q \cup A \cup T
    BY DEF Owners
  <1>4. own[s] # <<"dir">> => D = {}
    BY <1>2
  <1>5. own[s] # <<"leaked">> => L = {}
    BY <1>2
  <1>6. own[s] # <<"queue">> => Q = {}
    BY <1>2 DEF In
  <1>7. own[s] # <<"list">> => A = {}
    BY <1>2 DEF In
  <1>8. (\A t \in Threads : own[s] # <<"thread", t>>) => T = {}
    BY <1>2
  <1>9. own[s] = <<"dir">> => D = {<<"dir", s>>}
    BY <1>2
  <1>10. own[s] = <<"leaked">> => L = {<<"leaked", s>>}
    BY <1>2
  <1>11. own[s] = <<"queue">> => \E x : Q = {x}
    <2> SUFFICES ASSUME own[s] = <<"queue">> PROVE \E x : Q = {x}
      OBVIOUS
    <2>1. PICK i \in DOMAIN alertQueue : alertQueue[i] = s
      BY <1>2 DEF In
    <2>2. {j \in DOMAIN alertQueue : alertQueue[j] = s} = {i}
      BY <2>1 DEF OwnInv, Injective
    <2>3. Q = {<<"queue", i>>}
      BY <2>2
    <2>4. QED
      BY <2>3
  <1>12. own[s] = <<"list">> => \E x : A = {x}
    <2> SUFFICES ASSUME own[s] = <<"list">> PROVE \E x : A = {x}
      OBVIOUS
    <2>1. PICK i \in DOMAIN alertList : alertList[i] = s
      BY <1>2 DEF In
    <2>2. {j \in DOMAIN alertList : alertList[j] = s} = {i}
      BY <2>1 DEF OwnInv, Injective
    <2>3. A = {<<"list", i>>}
      BY <2>2
    <2>4. QED
      BY <2>3
  <1>13. ASSUME NEW t \in Threads, own[s] = <<"thread", t>> PROVE T = {<<"thread", t>>}
    <2>1. {u \in Threads : Working(u) /\ job[u].cell = s} = {t}
      BY <1>2, <1>13, PlacesDiffer
    <2>2. QED
      BY <2>1
  <1> HIDE DEF D, L, Q, A, T
  <1>14. heap[s] = Null => Owners(s) = {}
    BY <1>2, <1>3, <1>4, <1>5, <1>6, <1>7, <1>8, PlacesDiffer
  <1>15. heap[s] # Null => \E x : Owners(s) = {x}
    <2> SUFFICES ASSUME own[s] # <<"free">> PROVE \E x : Owners(s) = {x}
      BY <1>2
    <2>1. CASE own[s] = <<"dir">>
      <3>1. Owners(s) = D
        BY <1>3, <1>5, <1>6, <1>7, <1>8, <2>1, PlacesDiffer
      <3>2. QED
        BY <1>9, <2>1, <3>1
    <2>2. CASE own[s] = <<"leaked">>
      <3>1. Owners(s) = L
        BY <1>3, <1>4, <1>6, <1>7, <1>8, <2>2, PlacesDiffer
      <3>2. QED
        BY <1>10, <2>2, <3>1
    <2>3. CASE own[s] = <<"queue">>
      <3>1. Owners(s) = Q
        BY <1>3, <1>4, <1>5, <1>7, <1>8, <2>3, PlacesDiffer
      <3>2. QED
        BY <1>11, <2>3, <3>1
    <2>4. CASE own[s] = <<"list">>
      <3>1. Owners(s) = A
        BY <1>3, <1>4, <1>5, <1>6, <1>8, <2>4, PlacesDiffer
      <3>2. QED
        BY <1>12, <2>4, <3>1
    <2>5. CASE \E t \in Threads : own[s] = <<"thread", t>>
      <3>1. PICK t \in Threads : own[s] = <<"thread", t>>
        BY <2>5
      <3>2. Owners(s) = T
        BY <1>3, <1>4, <1>5, <1>6, <1>7, <3>1, PlacesDiffer
      <3>3. QED
        BY <1>13, <3>1, <3>2
    <2>6. QED
      BY <1>2, <2>1, <2>2, <2>3, <2>4, <2>5 DEF Places
  <1>16. QED
    BY <1>14, <1>15, FS_EmptySet, FS_Singleton

\* For any number of alerts, cells and threads: each alert in memory has exactly
\* one owner, and s_ringing_alert_node is never left pointing to an alert that was
\* deleted, nor, while no freed alert was used, to one that is over.
THEOREM NothingDanglesHolds == Spec => []NothingDangles
  <1>1. AlertInv => NothingDangles
    <2> SUFFICES ASSUME AlertInv PROVE NothingDangles
      OBVIOUS
    <2>1. OneOwner
      BY OwnersCounted DEF AlertInv
    <2>2. ASSUME ringing # Null
          PROVE  /\ Listed(ringing) /\ heap[ringing] # Null
                 /\ ~stray => heap[ringing].active /\ heap[ringing].loops > 0
      <3>1. OwnInv /\ In(alertList, ringing) /\ ringing \in Cells
        BY <2>2, TypesFacts DEF AlertInv, RingListed
      <3>2. heap[ringing] # Null
        BY <3>1, ListedLives
      <3>3. ~stray => heap[ringing].active /\ heap[ringing].loops > 0
        BY <2>2, <3>1, <3>2 DEF AlertInv, LoopInv, Sounding, Kept
      <3>4. QED
        BY <3>1, <3>2, <3>3 DEF Listed, In
    <2>3. QED
      BY <2>1, <2>2 DEF NothingDangles, RingingIsListed
  <1>2. QED
    BY <1>1, AlertInvariant, PTL

\* The alerts take turns, for any number of them: the turn is given up only when
\* no active alert is left in the list, or when the ringing one is deleted.
THEOREM TurnsAreKeptHolds == Spec => TurnsAreKept
  <1>1. ASSUME AlertInv, [Next]_vars, ringing # Null, ringing' = Null,
               ~(\E a \in Alerts : DeleteAlert(a))
        PROVE  \A i \in DOMAIN alertList' : ~Active(heap', alertList'[i])
    <2>1. ringing # ringing' /\ ~RingAlert
      BY <1>1 DEF RingAlert
    <2>2. CASE WrapperTask
      BY <1>1, <2>2, WrapperWears, AlertAssumption DEF AlertInv, Turn, ElsewhereVars
    <2>3. CASE ~WrapperTask
      <3>1. UNCHANGED ringing
        BY <1>1, <2>1, <2>3 DEF Next, Directive, CreateAlert, QueueAlert, PlayOther, TypeOther,
           KeySilences, PlayerEnds, OnlyPlayer, TimerFires, AlertThread, PopAlert, ExitThread,
           RejectAlert, ArmTimer, StoreAlert, ReportStored, FailAlert, FreeAlert, Go, vars, listVars
      <3>2. QED
        BY <2>1, <3>1
    <2>4. QED
      BY <2>2, <2>3
  <1>2. AlertInv /\ [Next]_vars
          => [ringing # Null /\ ringing' = Null
                 => \/ \A i \in DOMAIN alertList' : ~Active(heap', alertList'[i])
                    \/ \E a \in Alerts : DeleteAlert(a)]_vars
    BY <1>1
  <1>3. QED
    BY <1>2, AlertInvariant, PTL DEF Spec, TurnsAreKept

-----------------------------------------------------------------------------
(* The types of the player's and of the history variables.                  *)

Events == [status : Statuses, type : AudioTypes]

AudioInv == AudioTypeOK /\ (wrapper # "receive" => event \in Events)

LEMMA Reported ==
    ASSUME NEW events, Report(events), HistoryTypeOK
    PROVE  said' \in [Alerts -> SUBSET Reports] /\ twice' \subseteq Alerts
  BY DEF Report, HistoryTypeOK

LEMMA InterruptedTypes ==
    ASSUME AudioTypeOK, Interrupted
    PROVE  statusq' \in Seq(Statuses) /\ Len(statusq') <= StatusLen
  BY AlertAssumption DEF AudioTypeOK, Interrupted, Statuses

LEMMA PlayTypes ==
    ASSUME AudioTypeOK,
           \/ \E type \in AlertTypes : AlertPlay(type)
           \/ AlertStop
           \/ UNCHANGED playVars
    PROVE  /\ statusq' \in Seq(Statuses) /\ Len(statusq') <= StatusLen
           /\ speechType' \in AudioTypes /\ playing' \in {"none", "alert", "other"}
  BY InterruptedTypes DEF AlertPlay, AlertStop, AudioTypeOK, AudioTypes, playVars

LEMMA AudioStep ==
    ASSUME OwnInv, AudioInv, [Next]_vars
    PROVE  AudioInv'
  <1>0. "ALERT_SPEECH" \in AlertTypes /\ "ALERT_RINGING" \in AlertTypes
    BY DEF AlertTypes
  <1>1. ASSUME \/ \E type \in AlertTypes : AlertPlay(type)
               \/ AlertStop
               \/ UNCHANGED playVars,
               UNCHANGED wrapperVars
        PROVE  AudioInv'
    BY <1>1, PlayTypes DEF AudioInv, AudioTypeOK, wrapperVars
  <1>2. ASSUME NEW h, NEW s, PlayAlert(h, s)
        PROVE  (\E type \in AlertTypes : AlertPlay(type)) \/ UNCHANGED playVars
    BY <1>0, <1>2 DEF PlayAlert, PlayTone
  <1>3. ASSUME UNCHANGED playVars, UNCHANGED wrapperVars PROVE AudioInv'
    BY <1>1, <1>3
  <1>4. ASSUME NEW a \in Alerts, CreateAlert(a) \/ DeleteAlert(a) PROVE AudioInv'
    BY <1>1, <1>4 DEF CreateAlert, DeleteAlert, playerVars
  <1>5. CASE QueueAlert \/ (\E t \in Threads : AlertThread(t)) \/ (\E s \in Cells : TimerFires(s)) \/ UNCHANGED vars
    BY <1>3, <1>5 DEF QueueAlert, AlertThread, PopAlert, ExitThread, RejectAlert, ArmTimer,
       StoreAlert, ReportStored, FailAlert, FreeAlert, Go, TimerFires, playerVars, vars
  <1>6. CASE PlayOther
    BY <1>6, InterruptedTypes DEF PlayOther, OnlyPlayer, wrapperVars, AudioInv, AudioTypeOK
  <1>7. CASE TypeOther
    <2>1. other \in AudioTypes
      BY <1>7, TypesFacts, AlertAssumption DEF TypeOther, AudioTypes
    <2>2. QED
      BY <1>7, <2>1 DEF TypeOther, OnlyPlayer, wrapperVars, AudioInv, AudioTypeOK
  <1>8. CASE KeySilences
    BY <1>1, <1>8 DEF KeySilences, OnlyPlayer
  <1>9. CASE PlayerEnds
    BY <1>9, AlertAssumption DEF PlayerEnds, OnlyPlayer, wrapperVars, AudioInv, AudioTypeOK
  <1>10. CASE RingAlert
    <2>1. UNCHANGED wrapperVars
      BY <1>10 DEF RingAlert
    <2>2. UNCHANGED playVars \/ \E h, s : PlayAlert(h, s)
      BY <1>10 DEF RingAlert
    <2>3. QED
      BY <1>1, <1>2, <2>1, <2>2
  <1>11. CASE Receive
    <2>1. Head(statusq) \in Statuses /\ Tail(statusq) \in Seq(Statuses) /\ Len(Tail(statusq)) <= StatusLen
      BY <1>11, AlertAssumption DEF Receive, AudioInv, AudioTypeOK
    <2>2. event' \in Events
      BY <1>11, <2>1 DEF Receive, Events, AudioTypes
    <2>3. QED
      BY <1>11, <2>1, <2>2 DEF Receive, Wrapper, AudioInv, AudioTypeOK, Events
  <1>12. CASE ClearSpeech
    BY <1>12 DEF ClearSpeech, Wrapper, AudioInv, AudioTypeOK, AudioTypes, Events
  <1>13. CASE CallBack
    <2>1. event \in Events /\ speechType \in AudioTypes
      BY <1>13 DEF CallBack, Wrapper, AudioInv, AudioTypeOK
    <2>2. [event EXCEPT !.type = speechType] \in Events
      BY <2>1 DEF Events
    <2>3. QED
      BY <1>13, <2>2 DEF CallBack, Wrapper, AudioInv, AudioTypeOK, playVars, Events
  <1>14. CASE OnStop \/ OnToneFinish \/ OnLoopFinish \/ OnToneError \/ OnAlarmError
    <2>1. wrapper' = "receive" /\ event' = Null
      BY <1>14 DEF OnStop, OnToneFinish, OnLoopFinish, OnToneError, OnAlarmError, Handle, Wrapper
    <2>2. \/ \E type \in AlertTypes : AlertPlay(type)
          \/ UNCHANGED playVars
          \/ \E h, s : PlayAlert(h, s)
      BY <1>0, <1>14 DEF OnStop, OnToneFinish, OnLoopFinish, OnToneError, OnAlarmError
    <2>3. (\E type \in AlertTypes : AlertPlay(type)) \/ UNCHANGED playVars
      BY <1>2, <2>2
    <2>4. QED
      BY <2>1, <2>3, PlayTypes DEF AudioInv, AudioTypeOK
  <1>15. QED
    BY <1>4, <1>5, <1>6, <1>7, <1>8, <1>9, <1>10, <1>11, <1>12, <1>13, <1>14
    DEF Next, Directive, WrapperTask

LEMMA HistoryStep ==
    ASSUME HistoryTypeOK, OwnInv', [Next]_vars
    PROVE  HistoryTypeOK'
  <1>1. UNCHANGED <<said, twice>> \/ \E events : Report(events)
    <2>1. ASSUME NEW a \in Alerts, CreateAlert(a) \/ DeleteAlert(a)
          PROVE  UNCHANGED <<said, twice>> \/ \E events : Report(events)
      BY <2>1 DEF CreateAlert, DeleteAlert, reportVars
    <2>2. ASSUME NEW t \in Threads, AlertThread(t)
          PROVE  UNCHANGED <<said, twice>> \/ \E events : Report(events)
      BY <2>2 DEF AlertThread, PopAlert, ExitThread, RejectAlert, ArmTimer, StoreAlert,
         ReportStored, FailAlert, FreeAlert, reportVars
    <2>3. CASE WrapperTask
      BY <2>3 DEF WrapperTask, Receive, ClearSpeech, CallBack, OnStop, OnToneFinish,
         OnLoopFinish, OnToneError, OnAlarmError, reportVars
    <2>4. CASE RingAlert
      BY <2>4 DEF RingAlert, reportVars
    <2>5. CASE QueueAlert
      BY <2>5 DEF QueueAlert, reportVars
    <2>6. CASE PlayOther \/ TypeOther \/ KeySilences \/ PlayerEnds \/ UNCHANGED vars \/ \E s \in Cells : TimerFires(s)
      BY <2>6 DEF PlayOther, TypeOther, KeySilences, PlayerEnds, OnlyPlayer, TimerFires, vars, reportVars
    <2>7. QED
      BY <2>1, <2>2, <2>3, <2>4, <2>5, <2>6 DEF Next, Directive
  <1>2. said' \in [Alerts -> SUBSET Reports] /\ twice' \subseteq Alerts
    BY <1>1, Reported DEF HistoryTypeOK
  <1>3. bad' \subseteq Alerts
    BY DEF HistoryTypeOK, Next, Directive, CreateAlert, DeleteAlert, QueueAlert, PlayOther, TypeOther,
       KeySilences, PlayerEnds, OnlyPlayer, AlertThread, PopAlert, ExitThread, RejectAlert, ArmTimer,
       StoreAlert, ReportStored, FailAlert, FreeAlert, Go, TimerFires, RingAlert, WrapperTask,
       Receive, ClearSpeech, CallBack, OnStop, OnToneFinish, OnLoopFinish, OnToneError,
       OnAlarmError, Handle, Wrapper, dirVars, vars
  <1>4. QED
    BY <1>2, <1>3 DEF OwnInv, Types, HistoryTypeOK

\* For any number of alerts, cells and threads the state stays well typed.
THEOREM TypeCorrect == Spec => []TypeOK
  <1>1. Init => AudioInv /\ HistoryTypeOK
    <2> SUFFICES ASSUME Init PROVE AudioInv /\ HistoryTypeOK
      OBVIOUS
    <2>1. <<>> \in Seq(Statuses) /\ Len(<<>>) <= StatusLen
      BY AlertAssumption
    <2>2. AudioInv
      BY <2>1 DEF Init, AudioInv, AudioTypeOK, AudioTypes
    <2>3. HistoryTypeOK
      BY DEF Init, HistoryTypeOK
    <2>4. QED
      BY <2>2, <2>3
  <1>2. AlertInv /\ AudioInv /\ [Next]_vars => AudioInv'
    BY AudioStep DEF AlertInv
  <1>3. AlertInv' /\ HistoryTypeOK /\ [Next]_vars => HistoryTypeOK'
    BY HistoryStep DEF AlertInv
  <1>4. AlertInv /\ AudioInv /\ HistoryTypeOK => TypeOK
    BY DEF AlertInv, OwnInv, Types, AudioInv, TypeOK
  <1>5. QED
    BY <1>1, <1>2, <1>3, <1>4, AlertInvariant, PTL DEF Spec

-----------------------------------------------------------------------------
(* Each thing is reported once.  The tokens of the alerts in memory differ;  *)
(* one that has not reached the list and is not being freed was neither set  *)
(* nor refused, and one in the list was not refused; one that waits for its  *)
(* time has not started, and one that is active has started and not stopped. *)

Unanswered(a) == said[a] \cap {"SET_ALERT_SUCCESS", "SET_ALERT_FAIL"} = {}

Refused(a) == "SET_ALERT_FAIL" \in said[a]

TokensDiffer ==
    /\ \A s, u \in Cells : heap[s] # Null /\ heap[u] # Null /\ heap[s].token = heap[u].token => s = u
    /\ \A t \in Threads : Working(t) => job[t].token = heap[job[t].cell].token

ReportsOf(a) ==
    /\ a \notin asked => said[a] = {}
    /\ ~({"SET_ALERT_SUCCESS", "SET_ALERT_FAIL"} \subseteq said[a])
    /\ "ALERT_STOP" \in said[a] => "ALERT_START" \in said[a]

\* Between the report of the failure and the free.
Freeing(s) == \E t \in Threads : thread[t] = "free" /\ job[t].cell = s

Told(s) ==
    heap[s] # Null =>
        /\ s \notin leaked /\ ~In(alertList, s) /\ ~Freeing(s) => Unanswered(heap[s].token)
        /\ In(alertList, s) => ~Refused(heap[s].token)
        /\ heap[s].active => /\ "ALERT_START" \in said[heap[s].token]
                             /\ "ALERT_STOP" \notin said[heap[s].token]
        /\ Waiting(s) \/ heap[s].timer = "started" \/ Calling(s) =>
               "ALERT_START" \notin said[heap[s].token]

\* What a thread that has stored its alert is about to report.
ToTell(t) ==
    thread[t] = "stored" =>
        /\ job[t].token \in asked /\ Unanswered(job[t].token)
        /\ \A s \in Cells : heap[s] # Null /\ heap[s].token = job[t].token => In(alertList, s)
        /\ \A u \in Threads : thread[u] = "stored" /\ job[u].token = job[t].token => u = t

ReportInv ==
    /\ TokensDiffer
    /\ ~stray => /\ twice = {}
                 /\ \A a \in Alerts : ReportsOf(a)
                 /\ \A s \in Cells : Told(s)
                 /\ \A t \in Threads : ToTell(t)

\* No step but the creation of an alert gives a cell another token.
LEMMA TokensStay ==
    ASSUME AlertInv, [Next]_vars, \A a \in Alerts : ~CreateAlert(a), NEW s \in Cells, heap'[s] # Null
    PROVE  heap[s] # Null /\ heap'[s].token = heap[s].token
  <1>0. OwnInv /\ RingListed
    BY DEF AlertInv
  <1>1. CASE UNCHANGED heap
    BY <1>1
  <1>2. ASSUME NEW c \in Cells, heap' = [heap EXCEPT ![c] = Null] PROVE heap[s] # Null /\ heap'[s].token = heap[s].token
    BY <1>0, <1>2, TypesFacts
  <1>3. ASSUME NEW c \in Cells, heap[c] # Null, NEW new, heap' = [heap EXCEPT ![c] = new],
               new.token = heap[c].token
        PROVE  heap[s] # Null /\ heap'[s].token = heap[s].token
    BY <1>0, <1>3, TypesFacts
  <1>4. ASSUME NEW a \in Alerts, DeleteAlert(a) PROVE heap[s] # Null /\ heap'[s].token = heap[s].token
    BY <1>0, <1>2, <1>4, DeleteUnlinks
  <1>5. ASSUME NEW t \in Threads, AlertThread(t) PROVE heap[s] # Null /\ heap'[s].token = heap[s].token
    <2>1. CASE FreeAlert(t)
      <3>1. PICK c \in Cells : c = job[t].cell
        BY <1>0, <2>1, JobLives DEF FreeAlert, Go, Working
      <3>2. heap' = [heap EXCEPT ![c] = Null]
        BY <2>1, <3>1 DEF FreeAlert
      <3>3. QED
        BY <1>2, <3>2
    <2>2. CASE ArmTimer(t)
      <3>1. PICK c \in Cells : c = job[t].cell /\ heap[c] # Null /\ heap[c] \in AlertData
        BY <1>0, <2>2, JobLives DEF ArmTimer, Go, Working
      <3>2. PICK new : new = [heap[c] EXCEPT !.timer = "started"]
        OBVIOUS
      <3>3. new.token = heap[c].token
        BY <3>1, <3>2 DEF AlertData
      <3>4. heap' = [heap EXCEPT ![c] = new]
        BY <2>2, <3>1, <3>2 DEF ArmTimer
      <3>5. QED
        BY <1>3, <3>1, <3>3, <3>4
    <2>3. QED
      BY <1>1, <1>5, <2>1, <2>2 DEF AlertThread, PopAlert, ExitThread, RejectAlert, StoreAlert,
         ReportStored, FailAlert
  <1>6. ASSUME NEW c \in Cells, TimerFires(c) PROVE heap[s] # Null /\ heap'[s].token = heap[s].token
    <2>1. heap[c] # Null /\ heap[c] \in AlertData
      BY <1>0, <1>6, TypesFacts DEF TimerFires
    <2>2. PICK new : new = [heap[c] EXCEPT !.timer = "none"]
      OBVIOUS
    <2>3. new.token = heap[c].token /\ heap' = [heap EXCEPT ![c] = new]
      BY <1>6, <2>1, <2>2 DEF TimerFires, AlertData
    <2>4. QED
      BY <1>3, <2>1, <2>3
  <1>7. CASE RingAlert
    <2>1. PICK c \in Cells : c = call.at.cell
      BY <1>0, <1>7, TypesFacts DEF RingAlert, Pointer
    <2>2. CASE heap[c] = Null
      BY <1>1, <1>7, <2>1, <2>2 DEF RingAlert
    <2>3. CASE heap[c] # Null
      <3>1. heap[c] \in AlertData
        BY <1>0, <2>3, TypesFacts
      <3>2. PICK new : new = [heap[c] EXCEPT !.active = TRUE]
        OBVIOUS
      <3>3. new.token = heap[c].token /\ heap' = [heap EXCEPT ![c] = new]
        BY <1>7, <2>1, <2>3, <3>1, <3>2 DEF RingAlert, AlertData
      <3>4. QED
        BY <1>3, <2>3, <3>3
    <2>4. QED
      BY <2>2, <2>3
  <1>8. CASE WrapperTask
    BY <1>0, <1>8, WrapperWears DEF Worn
  <1>9. QED
    BY <1>1, <1>4, <1>5, <1>6, <1>7, <1>8 DEF Next, Directive, QueueAlert, PlayOther, TypeOther,
       KeySilences, PlayerEnds, OnlyPlayer, heapVars, vars

\* Where the threads that work got their jobs.
LEMMA JobsStay ==
    ASSUME AlertInv, [Next]_vars, NEW t \in Threads, Working(t)',
           ~PopAlert(t)
    PROVE  Working(t) /\ job'[t] = job[t]
  <1>0. thread \in [Threads -> ThreadPlaces] /\ job \in [Threads -> Pointer \cup {Null}]
    BY DEF AlertInv, OwnInv, Types, TaskTypeOK, ThreadPlaces
  <1>1. ASSUME NEW u \in Threads, AlertThread(u) PROVE Working(t) /\ job'[t] = job[t]
    <2>1. CASE u = t
      BY <1>0, <1>1, <2>1 DEF AlertThread, ExitThread, RejectAlert, ArmTimer, StoreAlert, ReportStored,
         FailAlert, FreeAlert, Go, Working
    <2>2. CASE u # t
      <3>1. thread'[t] = thread[t]
        BY <1>0, <1>1, <2>2 DEF AlertThread, PopAlert, ExitThread, RejectAlert, ArmTimer,
           StoreAlert, ReportStored, FailAlert, FreeAlert, Go
      <3>2. job'[t] = job[t]
        BY <1>0, <1>1, <2>2 DEF AlertThread, PopAlert, ExitThread, RejectAlert, ArmTimer,
           StoreAlert, ReportStored, FailAlert, FreeAlert
      <3>3. QED
        BY <3>1, <3>2 DEF Working
    <2>3. QED
      BY <2>1, <2>2
  <1>2. CASE QueueAlert
    BY <1>0, <1>2 DEF QueueAlert, queueVars, Working
  <1>3. CASE WrapperTask
    BY <1>3, WrapperWears DEF AlertInv, ElsewhereVars, Working
  <1>4. CASE UNCHANGED threadVars
    BY <1>4 DEF threadVars, Working
  <1>5. QED
    BY <1>1, <1>2, <1>3, <1>4 DEF Next, Directive, CreateAlert, DeleteAlert, PlayOther, TypeOther,
       KeySilences, PlayerEnds, OnlyPlayer, TimerFires, RingAlert, vars

LEMMA JobLivesNext ==
    ASSUME OwnInv', NEW t \in Threads, Working(t)'
    PROVE  job'[t].cell \in Cells /\ heap'[job'[t].cell] # Null
  <1>1. PICK own \in [Cells -> Places] : Owned(own)'
    BY DEF OwnInv
  <1>2. PICK s \in Cells : s = job'[t].cell
    BY DEF OwnInv, Pointer
  <1>3. own[s] = <<"thread", t>>
    BY <1>1, <1>2 DEF Owned
  <1>4. heap'[s] # Null
    BY <1>1, <1>3, PlacesDiffer DEF Owned
  <1>5. QED
    BY <1>2, <1>4

LEMMA TokensStep ==
    ASSUME AlertInv, AlertInv', TokensDiffer, [Next]_vars
    PROVE  TokensDiffer'
  <1>1. CASE \E a \in Alerts : CreateAlert(a)
    <2>1. PICK a \in Alerts : CreateAlert(a)
      BY <1>1
    <2>2. UNCHANGED <<thread, job>>
      BY <2>1 DEF CreateAlert, threadVars
    <2>3. CASE UNCHANGED heap
      BY <2>2, <2>3 DEF TokensDiffer, Working
    <2>4. CASE heap' # heap
      <3>1. PICK s \in Cells, loops \in LoopCounts, tones \in ToneCounts :
               heap[s] = Null /\ heap' = [heap EXCEPT ![s] = NewAlert(a, loops, tones)]
        BY <2>1, <2>4 DEF CreateAlert
      <3>2. /\ heap'[s].token = a
            /\ \A c \in Cells : c # s => heap'[c] = heap[c]
        BY <3>1, TypesFacts DEF NewAlert, AlertInv
      <3>3. \A c \in Cells : heap[c] # Null => heap[c].token # a
        BY <2>1 DEF CreateAlert, AlertInv, LoopInv
      <3>4. \A t \in Threads : Working(t) => job[t].cell \in Cells /\ job[t].cell # s
        BY <3>1, JobLives DEF AlertInv
      <3>5. \A u, c \in Cells : heap'[u] # Null /\ heap'[c] # Null /\ heap'[u].token = heap'[c].token => u = c
        BY <3>1, <3>2, <3>3 DEF TokensDiffer
      <3>6. \A t \in Threads : Working(t)' => job'[t].token = heap'[job'[t].cell].token
        BY <2>2, <3>2, <3>4 DEF TokensDiffer, Working
      <3>7. QED
        BY <3>5, <3>6 DEF TokensDiffer
    <2>5. QED
      BY <2>3, <2>4
  <1>2. CASE ~\E a \in Alerts : CreateAlert(a)
    <2>1. \A s \in Cells : heap'[s] # Null => heap[s] # Null /\ heap'[s].token = heap[s].token
      BY <1>2, TokensStay
    <2>2. \A u, c \in Cells : heap'[u] # Null /\ heap'[c] # Null /\ heap'[u].token = heap'[c].token => u = c
      BY <2>1 DEF TokensDiffer
    <2>3. ASSUME NEW t \in Threads, Working(t)' PROVE job'[t].token = heap'[job'[t].cell].token
      <3>1. job'[t].cell \in Cells /\ heap'[job'[t].cell] # Null
        BY <2>3, JobLivesNext DEF AlertInv
      <3>2. CASE PopAlert(t)
        <4>1. job \in [Threads -> Pointer \cup {Null}]
          BY DEF AlertInv, OwnInv, Types, TaskTypeOK
        <4>2. job'[t] = [cell |-> Head(alertQueue), token |-> heap[Head(alertQueue)].token] /\ heap' = heap
          BY <3>2, <4>1 DEF PopAlert
        <4>3. QED
          BY <4>2
      <3>3. CASE ~PopAlert(t)
        BY <2>1, <2>3, <3>1, <3>3, JobsStay DEF TokensDiffer
      <3>4. QED
        BY <3>2, <3>3
    <2>4. QED
      BY <2>2, <2>3 DEF TokensDiffer
  <1>3. QED
    BY <1>1, <1>2
\* What a step reports: e, for the first time, of the alerts of S.
Says(S, e) ==
    /\ \A a \in Alerts : said'[a] = IF a \in S THEN said[a] \cup {e} ELSE said[a]
    /\ twice' = twice
    /\ S \subseteq asked'
    /\ \A a \in S : e \notin said[a] /\ (Refused(a) => e = "ALERT_START")
    /\ e \in {"SET_ALERT_SUCCESS", "SET_ALERT_FAIL"} => \A a \in S : Unanswered(a)
    /\ e = "ALERT_STOP" => \A a \in S : "ALERT_START" \in said[a]

Tells ==
    /\ \E S \in SUBSET Alerts, e \in Reports : Says(S, e)
    /\ \A s \in Cells : Told(s)'
    /\ \A t \in Threads : ToTell(t)'

LEMMA NoReport ==
    ASSUME HistoryTypeOK, UNCHANGED reportVars
    PROVE  Report({})
  <1>1. said' = [a \in Alerts |-> said[a]] /\ twice' = twice
    BY DEF HistoryTypeOK, reportVars
  <1>2. QED
    BY <1>1 DEF Report

LEMMA SaysOf ==
    ASSUME HistoryTypeOK, NEW S \in SUBSET Alerts, NEW e \in Reports, NEW events,
           \A a \in Alerts, r \in Reports : <<a, r>> \in events <=> a \in S /\ r = e,
           Report(events),
           \A a \in S : e \notin said[a] /\ (Refused(a) => e = "ALERT_START"), S \subseteq asked',
           e \in {"SET_ALERT_SUCCESS", "SET_ALERT_FAIL"} => \A a \in S : Unanswered(a),
           e = "ALERT_STOP" => \A a \in S : "ALERT_START" \in said[a]
    PROVE  Says(S, e)
  <1>1. ASSUME NEW a \in Alerts PROVE said'[a] = IF a \in S THEN said[a] \cup {e} ELSE said[a]
    <2>1. said'[a] = said[a] \cup {r \in Reports : <<a, r>> \in events}
      BY DEF Report
    <2>2. QED
      BY <2>1
  <1>2. \A a \in Alerts : \A r \in said[a] : <<a, r>> \notin events
    BY DEF HistoryTypeOK
  <1>3. \A a \in twice' : a \in twice
    BY <1>2, twice' = twice \cup {a \in Alerts : \E r \in said[a] : <<a, r>> \in events} DEF Report
  <1>4. twice' = twice
    BY <1>2, <1>3 DEF Report
  <1>5. QED
    BY <1>1, <1>4 DEF Says

LEMMA ReportsKept ==
    ASSUME NEW S, NEW e \in Reports, Says(S, e), asked \subseteq asked', NEW a \in Alerts, ReportsOf(a)
    PROVE  ReportsOf(a)'
  <1>1. CASE a \in S
    <2>1. said'[a] = said[a] \cup {e} /\ a \in asked'
      BY <1>1 DEF Says
    <2>2. /\ e \in {"SET_ALERT_SUCCESS", "SET_ALERT_FAIL"} =>
                "SET_ALERT_SUCCESS" \notin said[a] /\ "SET_ALERT_FAIL" \notin said[a]
          /\ e = "ALERT_STOP" => "ALERT_START" \in said[a]
      BY <1>1 DEF Says, Unanswered
    <2>3. "SET_ALERT_SUCCESS" \notin said'[a] \/ "SET_ALERT_FAIL" \notin said'[a]
      BY <2>1, <2>2 DEF ReportsOf
    <2>4. "ALERT_STOP" \in said'[a] => "ALERT_START" \in said'[a]
      BY <2>1, <2>2 DEF ReportsOf
    <2>5. QED
      BY <2>1, <2>3, <2>4 DEF ReportsOf
  <1>2. CASE a \notin S
    BY <1>2 DEF Says, ReportsOf
  <1>3. QED
    BY <1>1, <1>2

Due(s) == Waiting(s) \/ heap[s].timer = "started" \/ Calling(s)

LEMMA ToldAlike ==
    ASSUME NEW s \in Cells, Told(s), heap[s] # Null, heap'[s].token = heap[s].token,
           said'[heap[s].token] = said[heap[s].token],
           s \in leaked \/ In(alertList, s) \/ Freeing(s) => s \in leaked' \/ In(alertList', s) \/ Freeing(s)',
           In(alertList', s) => In(alertList, s),
           heap'[s].active => heap[s].active, Due(s)' => Due(s)
    PROVE  Told(s)'
  BY DEF Told, Due, Unanswered, Refused

LEMMA ToTellAlike ==
    ASSUME NEW t \in Threads, ToTell(t), asked \subseteq asked',
           \A u \in Threads : thread'[u] = "stored" => thread[u] = "stored" /\ job'[u] = job[u],
           thread'[t] = "stored" => Unanswered(job[t].token)',
           \A s \in Cells : heap'[s] # Null /\ heap'[s].token = job[t].token =>
               /\ heap[s] # Null /\ heap[s].token = job[t].token
               /\ In(alertList, s) => In(alertList', s)
    PROVE  ToTell(t)'
  BY DEF ToTell

\* No step but the creation of an alert and the reports of the threads needs
\* more than this: ALERT_STOP is reported of alerts that are active no more.
LEMMA StopsTold ==
    ASSUME Types, HistoryTypeOK, ReportInv, ~stray, NEW D \in SUBSET Cells, NEW events,
           \A a \in Alerts, r \in Reports :
               <<a, r>> \in events <=> r = "ALERT_STOP" /\ \E s \in D : heap[s].token = a,
           Report(events),
           \A s \in D : /\ heap[s] # Null /\ heap[s].active /\ heap[s].token \in asked
                        /\ In(alertList, s)
                        /\ heap'[s] # Null => ~heap'[s].active,
           \A s \in Cells : heap'[s] # Null =>
               /\ heap[s] # Null /\ heap'[s].token = heap[s].token /\ heap'[s].timer = heap[s].timer
               /\ heap'[s].active => heap[s].active
               /\ In(alertList, s) <=> In(alertList', s),
           UNCHANGED <<call, leaked, thread, job, dirCell, alertQueue, asked>>
    PROVE  Tells
  <1>1. PICK S : S = {a \in Alerts : \E s \in D : heap[s].token = a}
    OBVIOUS
  <1>2. \A s \in D : heap[s].token \in Alerts
    BY DEF Types
  <1>3. \A a \in S : "ALERT_START" \in said[a] /\ "ALERT_STOP" \notin said[a] /\ ~Refused(a)
    BY <1>1 DEF ReportInv, Told
  <1>4. Says(S, "ALERT_STOP")
    <2>1. S \subseteq Alerts /\ S \subseteq asked'
      BY <1>1
    <2>2. \A a \in Alerts, r \in Reports : <<a, r>> \in events <=> a \in S /\ r = "ALERT_STOP"
      BY <1>1
    <2>3. "ALERT_STOP" \in Reports
      BY DEF Reports
    <2>4. QED
      BY <1>3, <2>1, <2>2, <2>3, SaysOf
  <1>5. \A a \in Alerts : Unanswered(a) => Unanswered(a)'
    BY <1>4 DEF Says, Unanswered
  <1>6. ASSUME NEW s \in Cells PROVE Told(s)'
    <2> SUFFICES ASSUME heap'[s] # Null PROVE Told(s)'
      BY DEF Told
    <2>1. /\ heap[s] # Null /\ heap'[s].token = heap[s].token /\ Told(s) /\ heap[s].token \in Alerts
      BY DEF ReportInv, Types, HeapTypeOK, AlertData
    <2>2. Due(s)' => Due(s)
      BY <2>1 DEF Due, Waiting, Calling
    <2>3. CASE s \in D
      <3>1. heap'[s].active = FALSE \/ ~heap'[s].active
        BY <2>3
      <3>2. "ALERT_START" \in said[heap[s].token]
        BY <2>1, <2>3 DEF Told
      <3>3. ~Due(s)
        BY <2>1, <3>2 DEF Told, Due
      <3>4. In(alertList', s) /\ ~Refused(heap[s].token)
        BY <2>1, <2>3 DEF Told
      <3>5. "SET_ALERT_FAIL" \notin said'[heap[s].token]
        <4>1. \A b \in Alerts : said'[b] \subseteq said[b] \cup {"ALERT_STOP"}
          BY <1>4 DEF Says
        <4>2. QED
          BY <2>1, <3>4, <4>1 DEF Refused
      <3>6. QED
        BY <2>1, <2>2, <3>1, <3>3, <3>4, <3>5 DEF Told, Due, Refused
    <2>4. CASE s \notin D
      <3>1. heap[s].token \notin S
        BY <1>1, <2>1, <2>4 DEF ReportInv, TokensDiffer
      <3>2. said'[heap[s].token] = said[heap[s].token]
        <4>1. \A a \in Alerts : said'[a] = IF a \in S THEN said[a] \cup {"ALERT_STOP"} ELSE said[a]
          BY <1>4 DEF Says
        <4>2. heap[s].token \in Alerts
          BY <2>1
        <4>3. QED
          BY <3>1, <4>1, <4>2
      <3>3. Freeing(s)' <=> Freeing(s)
        BY DEF Freeing
      <3>4. QED
        BY <2>1, <2>2, <3>2, <3>3, ToldAlike
    <2>5. QED
      BY <2>3, <2>4
  <1>7. ASSUME NEW t \in Threads PROVE ToTell(t)'
    <2>1. ToTell(t)
      BY DEF ReportInv
    <2>2. thread'[t] = "stored" => Unanswered(job[t].token)'
      BY <1>5, <2>1 DEF ToTell, HistoryTypeOK
    <2>3. \A s \in Cells : heap'[s] # Null /\ heap'[s].token = job[t].token =>
               /\ heap[s] # Null /\ heap[s].token = job[t].token
               /\ In(alertList, s) => In(alertList', s)
      OBVIOUS
    <2>4. asked \subseteq asked' /\ thread' = thread /\ job' = job
      OBVIOUS
    <2>5. \A u \in Threads : thread'[u] = "stored" => thread[u] = "stored" /\ job'[u] = job[u]
      BY <2>4
    <2>6. QED
      BY <2>1, <2>2, <2>3, <2>4, <2>5, ToTellAlike
  <1>8. S \in SUBSET Alerts
    BY <1>1
  <1>9. QED
    BY <1>4, <1>6, <1>7, <1>8 DEF Tells, Reports

LEMMA WrapperTells ==
    ASSUME AlertInv, HistoryTypeOK, ReportInv, ~stray, WrapperTask
    PROVE  Tells
  <1>1. /\ Types /\ OwnInv /\ RingListed /\ Sounding
        /\ \A s \in Cells : heap[s] # Null => heap[s].token \in asked
    BY DEF AlertInv, OwnInv, LoopInv
  <1>2. /\ UNCHANGED <<call, leaked, thread, job, dirCell, alertQueue, asked, alertList>>
        /\ \A s \in Cells : Worn(s)
    BY <1>1, WrapperWears DEF ElsewhereVars
  <1>3. \A s \in Cells : heap'[s] # Null =>
            /\ heap[s] # Null /\ heap'[s].token = heap[s].token /\ heap'[s].timer = heap[s].timer
            /\ heap'[s].active => heap[s].active
            /\ In(alertList, s) <=> In(alertList', s)
    BY <1>2 DEF Worn
  <1>4. ASSUME NEW D \in SUBSET Cells,
               \A s \in D : /\ heap[s] # Null /\ heap[s].active /\ In(alertList, s)
                            /\ heap'[s] # Null => ~heap'[s].active,
               Report({<<heap[s].token, "ALERT_STOP">> : s \in D})
        PROVE  Tells
    <2>1. PICK events : events = {<<heap[s].token, "ALERT_STOP">> : s \in D}
      OBVIOUS
    <2>2. /\ Report(events)
          /\ \A a \in Alerts, r \in Reports :
               <<a, r>> \in events <=> r = "ALERT_STOP" /\ \E s \in D : heap[s].token = a
      BY <1>4, <2>1
    <2>3. \A s \in D : /\ heap[s] # Null /\ heap[s].active /\ heap[s].token \in asked
                       /\ In(alertList, s)
                       /\ heap'[s] # Null => ~heap'[s].active
      BY <1>1, <1>4
    <2>4. QED
      BY <1>1, <1>2, <1>3, <2>2, <2>3, StopsTold
  <1>5. ASSUME Report({}) PROVE Tells
    BY <1>4, <1>5, {<<heap[s].token, "ALERT_STOP">> : s \in {}} = {}
  <1>6. CASE OnStop
    <2>1. PICK D \in SUBSET Cells :
             /\ D = {s \in Cells : Active(heap, s) /\ \E i \in DOMAIN alertList : alertList[i] = s}
             /\ heap' = [s \in Cells |-> IF s \in D THEN [heap[s] EXCEPT !.active = FALSE] ELSE heap[s]]
             /\ Report({<<heap[s].token, "ALERT_STOP">> : s \in D})
      BY <1>6 DEF OnStop
    <2>2. ASSUME NEW s \in D
          PROVE  heap[s] # Null /\ heap[s].active /\ In(alertList, s) /\ ~heap'[s].active
      <3>0. In(alertList, s)
        BY <2>1 DEF In
      <3>1. heap[s] # Null /\ heap[s].active /\ heap[s] \in AlertData
        BY <1>1, <2>1, TypesFacts DEF Active
      <3>2. heap'[s] = [heap[s] EXCEPT !.active = FALSE]
        BY <2>1
      <3>3. QED
        BY <3>0, <3>1, <3>2 DEF AlertData
    <2>3. QED
      BY <1>4, <2>1, <2>2
  <1>7. ASSUME ringing # Null, NEW new \in AlertData, heap' = [heap EXCEPT ![ringing] = new], ~new.active,
               Report({<<heap[ringing].token, "ALERT_STOP">>})
        PROVE  Tells
    <2>1. PICK r \in Cells : r = ringing
      BY <1>1, <1>7, TypesFacts
    <2>2. heap[r] # Null /\ heap[r].active /\ In(alertList, r) /\ ~heap'[r].active
      BY <1>1, <1>7, <2>1, ListedLives, TypesFacts DEF RingListed, Sounding
    <2>3. PICK D \in SUBSET Cells : D = {r}
      OBVIOUS
    <2>4. {<<heap[s].token, "ALERT_STOP">> : s \in D} = {<<heap[ringing].token, "ALERT_STOP">>}
      BY <2>1, <2>3
    <2>5. \A s \in D : /\ heap[s] # Null /\ heap[s].active /\ In(alertList, s)
                       /\ heap'[s] # Null => ~heap'[s].active
      BY <2>2, <2>3
    <2>6. Report({<<heap[s].token, "ALERT_STOP">> : s \in D})
      BY <1>7, <2>4
    <2>7. QED
      BY <1>4, <2>5, <2>6
  <1>8. ringing # Null => ringing \in Cells /\ heap[ringing] # Null /\ heap[ringing] \in AlertData
    BY <1>1, ListedLives, TypesFacts DEF RingListed
  <1>9. CASE OnLoopFinish
    <2>1. PICK after : /\ after = IF ringing = Null THEN heap ELSE [heap EXCEPT ![ringing] = LoopDone(@)]
                       /\ heap' = after
                       /\ Report(IF ringing # Null /\ after[ringing].loops = 0
                                 THEN {<<heap[ringing].token, "ALERT_STOP">>} ELSE {})
      BY <1>9 DEF OnLoopFinish
    <2>2. CASE ringing # Null /\ after[ringing].loops = 0
      <3>1. PICK new : new = LoopDone(heap[ringing])
        OBVIOUS
      <3>2. new \in AlertData /\ (new.active => new.loops # 0)
        BY <1>8, <2>2, <3>1, LoopDoneData
      <3>3. heap' = [heap EXCEPT ![ringing] = new]
        BY <2>1, <2>2, <3>1
      <3>4. ~new.active
        BY <1>1, <1>8, <2>1, <2>2, <3>2, <3>3, TypesFacts
      <3>5. QED
        BY <1>7, <2>1, <2>2, <3>2, <3>3, <3>4
    <2>3. QED
      BY <1>5, <2>1, <2>2
  <1>10. CASE OnAlarmError
    <2>1. CASE ringing # Null
      <3>1. PICK new : new = [heap[ringing] EXCEPT !.active = FALSE]
        OBVIOUS
      <3>2. new \in AlertData /\ new.active = FALSE
        BY <1>8, <2>1, <3>1 DEF AlertData
      <3>3. heap' = [heap EXCEPT ![ringing] = new] /\ Report({<<heap[ringing].token, "ALERT_STOP">>})
        BY <1>10, <2>1, <3>1 DEF OnAlarmError
      <3>4. QED
        BY <1>7, <2>1, <3>2, <3>3
    <2>2. CASE ringing = Null
      BY <1>5, <1>10, <2>2 DEF OnAlarmError
    <2>3. QED
      BY <2>1, <2>2
  <1>11. QED
    BY <1>5, <1>6, <1>9, <1>10, NoReport DEF WrapperTask, Receive, ClearSpeech, CallBack, OnToneFinish,
       OnToneError

LEMMA DeleteTells ==
    ASSUME AlertInv, HistoryTypeOK, ReportInv, ~stray, NEW a \in Alerts, DeleteAlert(a)
    PROVE  Tells
  <1>1. /\ Types /\ OwnInv
        /\ \A s \in Cells : heap[s] # Null => heap[s].token \in asked
    BY DEF AlertInv, OwnInv, LoopInv
  <1>2. PICK i \in DOMAIN alertList, s \in Cells :
           /\ s = alertList[i] /\ heap' = [heap EXCEPT ![s] = Null]
           /\ ListRemove(i) /\ Report(StopReport(s)) /\ Holds(s, a)
    <2>1. PICK i \in DOMAIN alertList :
             /\ heap' = [heap EXCEPT ![alertList[i]] = Null]
             /\ ListRemove(i) /\ Report(StopReport(alertList[i])) /\ Holds(alertList[i], a)
      BY DEF DeleteAlert
    <2>2. alertList[i] \in Cells
      BY <1>1 DEF Types, HeapTypeOK
    <2>3. QED
      BY <2>1, <2>2
  <1>3. UNCHANGED <<call, leaked, thread, job, dirCell, alertQueue, asked>>
    BY DEF DeleteAlert, queueVars, threadVars, dirVars
  <1>4. heap'[s] = Null /\ \A c \in Cells : c # s => heap'[c] = heap[c]
    BY <1>1, <1>2, TypesFacts
  <1>5. \A c \in Cells : c # s => (In(alertList, c) <=> In(alertList', c))
    BY <1>1, <1>2, LineRemove DEF ListRemove, Line, OwnInv, Types, HeapTypeOK
  <1>6. \A c \in Cells : heap'[c] # Null =>
            /\ heap[c] # Null /\ heap'[c].token = heap[c].token /\ heap'[c].timer = heap[c].timer
            /\ heap'[c].active => heap[c].active
            /\ In(alertList, c) <=> In(alertList', c)
    BY <1>4, <1>5
  <1>7. PICK D \in SUBSET Cells : D = IF heap[s].active THEN {s} ELSE {}
    OBVIOUS
  <1>8. \A c \in D : /\ heap[c] # Null /\ heap[c].active /\ heap[c].token \in asked
                     /\ In(alertList, c)
                     /\ heap'[c] # Null => ~heap'[c].active
    BY <1>1, <1>2, <1>4, <1>7 DEF Holds, In
  <1>9. \A b \in Alerts, r \in Reports :
           <<b, r>> \in StopReport(s) <=> r = "ALERT_STOP" /\ \E c \in D : heap[c].token = b
    BY <1>7 DEF StopReport
  <1>10. QED
    BY <1>1, <1>2, <1>3, <1>6, <1>8, <1>9, StopsTold

\* Steps that report nothing and only move an alert on.
LEMMA QuietTells ==
    ASSUME Types, HistoryTypeOK, ReportInv, ~stray, UNCHANGED reportVars,
           asked \subseteq asked', leaked \subseteq leaked',
           \A s \in Cells : heap'[s] # Null =>
               /\ heap[s] # Null /\ heap'[s].token = heap[s].token
               /\ heap'[s].active => heap[s].active
               /\ In(alertList, s) <=> In(alertList', s)
               /\ Freeing(s) => Freeing(s)'
               /\ Due(s)' => Due(s),
           \A u \in Threads : thread'[u] = "stored" => thread[u] = "stored" /\ job'[u] = job[u]
    PROVE  Tells
  <1>1. Says({}, "ALERT_STOP") /\ "ALERT_STOP" \in Reports
    BY DEF Says, reportVars, Reports
  <1>2. ASSUME NEW s \in Cells PROVE Told(s)'
    <2>1. CASE heap'[s] = Null
      BY <2>1 DEF Told
    <2>2. CASE heap'[s] # Null
      BY <2>2, ToldAlike DEF ReportInv, reportVars
    <2>3. QED
      BY <2>1, <2>2
  <1>3. ASSUME NEW t \in Threads PROVE ToTell(t)'
    <2>1. ToTell(t)
      BY DEF ReportInv
    <2>2. thread'[t] = "stored" => Unanswered(job[t].token)'
      BY <2>1 DEF ToTell, Unanswered, reportVars
    <2>3. QED
      BY <2>1, <2>2, ToTellAlike
  <1>4. QED
    BY <1>1, <1>2, <1>3 DEF Tells

\* SET_ALERT_FAIL is reported of an alert that is given up: it is leaked or
\* about to be freed.
LEMMA RefusedTells ==
    ASSUME Types, HistoryTypeOK, ReportInv, ~stray, NEW s \in Cells,
           heap[s] # Null, s \notin leaked, ~In(alertList, s), ~Freeing(s), heap[s].token \in asked,
           Report({<<heap[s].token, "SET_ALERT_FAIL">>}), UNCHANGED <<asked, alertList, heap>>,
           leaked \subseteq leaked', s \in leaked' \/ Freeing(s)',
           \A c \in Cells : (Freeing(c) => Freeing(c)') /\ (Due(c)' => Due(c)),
           \A u \in Threads : thread'[u] = "stored" => thread[u] = "stored" /\ job'[u] = job[u]
    PROVE  Tells
  <1>1. PICK a \in Alerts : a = heap[s].token
    BY DEF Types, HeapTypeOK, AlertData
  <1>2. Unanswered(a) /\ Told(s)
    BY <1>1 DEF ReportInv, Told
  <1>3. Says({a}, "SET_ALERT_FAIL")
    <2>1. PICK events : events = {<<a, "SET_ALERT_FAIL">>}
      OBVIOUS
    <2>2. \A b \in Alerts, r \in Reports : <<b, r>> \in events <=> b \in {a} /\ r = "SET_ALERT_FAIL"
      BY <2>1
    <2>3. \A b \in {a} : "SET_ALERT_FAIL" \notin said[b] /\ ~Refused(b) /\ Unanswered(b)
      BY <1>2 DEF Unanswered, Refused
    <2>4. Report(events) /\ {a} \subseteq asked' /\ "SET_ALERT_FAIL" \in Reports
      BY <1>1, <2>1 DEF Reports
    <2>5. QED
      BY <2>2, <2>3, <2>4, SaysOf
  <1>4. \A b \in Alerts : b # a => said'[b] = said[b]
    BY <1>3 DEF Says
  <1>5. ASSUME NEW c \in Cells PROVE Told(c)'
    <2> SUFFICES ASSUME heap'[c] # Null PROVE Told(c)'
      BY DEF Told
    <2>1. CASE c = s
      <3>1. said'[a] = said[a] \cup {"SET_ALERT_FAIL"}
        BY <1>3 DEF Says
      <3>2. QED
        BY <1>1, <1>2, <2>1, <3>1 DEF Told, Due
    <2>2. CASE c # s
      <3>1. heap'[c] = heap[c] /\ heap[c] # Null /\ Told(c) /\ (Due(c)' => Due(c))
        BY <2>2 DEF ReportInv
      <3>2. heap[c].token \in Alerts /\ heap[c].token # a
        BY <1>1, <2>2, <3>1 DEF ReportInv, TokensDiffer, Types, HeapTypeOK, AlertData
      <3>3. said'[heap[c].token] = said[heap[c].token]
        BY <1>4, <3>2
      <3>4. QED
        BY <3>1, <3>3, ToldAlike
    <2>3. QED
      BY <2>1, <2>2
  <1>6. ASSUME NEW t \in Threads PROVE ToTell(t)'
    <2>1. ToTell(t)
      BY DEF ReportInv
    <2>2. ASSUME thread'[t] = "stored" PROVE Unanswered(job[t].token)'
      <3>1. thread[t] = "stored" /\ job'[t] = job[t]
        BY <2>2
      <3>2. job[t].token # a /\ job[t].token \in Alerts
        BY <1>1, <2>1, <3>1 DEF ToTell, HistoryTypeOK
      <3>3. said'[job[t].token] = said[job[t].token]
        BY <1>4, <3>2
      <3>4. QED
        BY <2>1, <3>1, <3>3 DEF ToTell, Unanswered
    <2>3. \A c \in Cells : heap'[c] # Null /\ heap'[c].token = job[t].token =>
               /\ heap[c] # Null /\ heap[c].token = job[t].token
               /\ In(alertList, c) => In(alertList', c)
      OBVIOUS
    <2>4. QED
      BY <2>1, <2>2, <2>3, ToTellAlike
  <1>7. QED
    BY <1>3, <1>5, <1>6 DEF Tells, Reports

LEMMA PlayerTells ==
    ASSUME AlertInv, HistoryTypeOK, ReportInv, ~stray,
           PlayOther \/ TypeOther \/ KeySilences \/ PlayerEnds \/ UNCHANGED vars
    PROVE  Tells
  <1>1. UNCHANGED <<heapVars, listVars, queueVars, threadVars, dirVars, call, reportVars>>
    BY DEF PlayOther, TypeOther, KeySilences, PlayerEnds, OnlyPlayer, vars
  <1>2. UNCHANGED <<heap, leaked, alertList, alertQueue, thread, job, dirCell, asked, call>>
    BY <1>1 DEF heapVars, listVars, queueVars, threadVars, dirVars
  <1>3. \A s \in Cells : Due(s)' => Due(s)
    BY <1>2 DEF Due, Waiting, Calling
  <1>4. Types
    BY DEF AlertInv, OwnInv
  <1>5. \A s \in Cells : Freeing(s) => Freeing(s)'
    BY <1>2 DEF Freeing
  <1>6. QED
    BY <1>1, <1>2, <1>3, <1>4, <1>5, QuietTells

LEMMA TimerTells ==
    ASSUME AlertInv, HistoryTypeOK, ReportInv, ~stray, NEW s \in Cells, TimerFires(s)
    PROVE  Tells
  <1>1. OwnInv /\ Types
    BY DEF AlertInv, OwnInv
  <1>2. /\ call = Null /\ heap[s] # Null /\ heap[s] \in AlertData /\ heap[s].timer = "started"
        /\ call'.at.cell = s
        /\ UNCHANGED <<alertList, leaked, asked, dirCell, alertQueue, thread, job>> /\ UNCHANGED reportVars
    BY <1>1, TypesFacts DEF TimerFires, listVars, queueVars, threadVars, dirVars
  <1>3. PICK new : new = [heap[s] EXCEPT !.timer = "none"]
    OBVIOUS
  <1>4. new.timer = "none" /\ new.token = heap[s].token /\ new.active = heap[s].active
    BY <1>2, <1>3 DEF AlertData
  <1>5. heap'[s] = new /\ \A c \in Cells : c # s => heap'[c] = heap[c]
    BY <1>1, <1>3, TypesFacts DEF TimerFires
  <1>6. ASSUME NEW c \in Cells, Due(c)' PROVE Due(c)
    <2>1. CASE c = s
      BY <1>2, <2>1 DEF Due
    <2>2. CASE c # s
      BY <1>2, <1>5, <1>6, <2>2 DEF Due, Waiting, Calling
    <2>3. QED
      BY <2>1, <2>2
  <1>7. \A c \in Cells : heap'[c] # Null =>
            /\ heap[c] # Null /\ heap'[c].token = heap[c].token
            /\ heap'[c].active => heap[c].active
    BY <1>2, <1>4, <1>5
  <1>8. \A c \in Cells : Freeing(c) => Freeing(c)'
    BY <1>2 DEF Freeing
  <1>9. QED
    BY <1>1, <1>2, <1>6, <1>7, <1>8, QuietTells

LEMMA RingTells ==
    ASSUME AlertInv, HistoryTypeOK, ReportInv, ~stray', RingAlert
    PROVE  Tells
  <1>1. PICK s \in Cells : s = call.at.cell
    BY TypesFacts DEF RingAlert, Pointer, AlertInv
  <1>2. /\ call # Null /\ call' = Null
        /\ UNCHANGED <<asked, dirCell, alertQueue, alertList, leaked, thread, job>>
    BY DEF RingAlert, queueVars, threadVars, dirVars
  <1>3. ~stray /\ heap[s] # Null /\ Calling(s)
    <2>1. stray' = (stray \/ ~Holds(s, call.at.token))
      BY <1>1 DEF RingAlert, Use
    <2>2. ~stray /\ Holds(s, call.at.token)
      BY <2>1
    <2>3. QED
      BY <1>1, <1>2, <2>2 DEF Holds, Calling
  <1>4. heap[s] \in AlertData /\ heap[s].token \in asked /\ Types
    BY <1>3, TypesFacts DEF AlertInv, LoopInv, OwnInv
  <1>5. PICK new : new = [heap[s] EXCEPT !.active = TRUE]
    OBVIOUS
  <1>6. new.token = heap[s].token /\ new.timer = heap[s].timer
    BY <1>4, <1>5 DEF AlertData
  <1>7. heap' = [heap EXCEPT ![s] = new] /\ Report({<<heap[s].token, "ALERT_START">>})
    BY <1>1, <1>3, <1>5 DEF RingAlert
  <1>8. heap'[s] = new /\ \A c \in Cells : c # s => heap'[c] = heap[c]
    BY <1>7, TypesFacts DEF AlertInv
  <1>9. PICK a \in Alerts : a = heap[s].token
    BY <1>4 DEF AlertData
  <1>10. "ALERT_START" \notin said[a] /\ "ALERT_STOP" \notin said[a]
    BY <1>3, <1>9 DEF ReportInv, Told, ReportsOf
  <1>11. Says({a}, "ALERT_START")
    <2>1. PICK events : events = {<<a, "ALERT_START">>}
      OBVIOUS
    <2>2. \A b \in Alerts, r \in Reports : <<b, r>> \in events <=> b \in {a} /\ r = "ALERT_START"
      BY <2>1
    <2>3. \A b \in {a} : "ALERT_START" \notin said[b]
      BY <1>10
    <2>4. Report(events) /\ {a} \subseteq asked' /\ "ALERT_START" \in Reports
      BY <1>2, <1>4, <1>7, <1>9, <2>1 DEF Reports
    <2>5. QED
      BY <2>2, <2>3, <2>4, SaysOf
  <1>12. /\ said'[a] = said[a] \cup {"ALERT_START"}
         /\ \A b \in Alerts : b # a => said'[b] = said[b]
    BY <1>11 DEF Says
  <1>13. ASSUME NEW c \in Cells PROVE Told(c)'
    <2> SUFFICES ASSUME heap'[c] # Null PROVE Told(c)'
      BY DEF Told
    <2>1. CASE c = s
      <3>1. ~Due(s)'
        <4>1. Kept(s)
          BY <1>3 DEF AlertInv, LoopInv
        <4>2. ~Waiting(s) /\ heap[s].timer = "none"
          BY <1>3, <4>1 DEF Kept
        <4>3. QED
          BY <1>2, <1>6, <1>8, <4>2 DEF Due, Waiting, Calling
      <3>2. Told(s)
        BY <1>3 DEF ReportInv
      <3>3. heap'[s].token = a /\ "ALERT_START" \in said'[a] /\ "ALERT_STOP" \notin said'[a]
        BY <1>6, <1>8, <1>9, <1>10, <1>12
      <3>4. s \notin leaked' /\ ~In(alertList', s) /\ ~Freeing(s)' => Unanswered(a)'
        BY <1>2, <1>3, <1>9, <1>12, <3>2 DEF Told, Unanswered, Freeing
      <3>5. In(alertList', s) => ~Refused(a)'
        BY <1>2, <1>3, <1>9, <1>12, <3>2 DEF Told, Refused
      <3>6. QED
        BY <2>1, <3>1, <3>3, <3>4, <3>5 DEF Told, Due
    <2>2. CASE c # s
      <3>1. heap'[c] = heap[c] /\ heap[c] # Null /\ Told(c) /\ (Due(c)' => Due(c))
        BY <1>2, <1>3, <1>8, <2>2 DEF ReportInv, Due, Waiting, Calling
      <3>2. heap[c].token \in Alerts /\ heap[c].token # a
        BY <1>3, <1>4, <1>9, <2>2, <3>1 DEF ReportInv, TokensDiffer, Types, HeapTypeOK, AlertData
      <3>3. said'[heap[c].token] = said[heap[c].token]
        BY <1>12, <3>2
      <3>4. Freeing(c)' <=> Freeing(c)
        BY <1>2 DEF Freeing
      <3>5. QED
        BY <1>2, <3>1, <3>3, <3>4, ToldAlike
    <2>3. QED
      BY <2>1, <2>2
  <1>14. ASSUME NEW t \in Threads PROVE ToTell(t)'
    <2>1. ToTell(t)
      BY <1>3 DEF ReportInv
    <2>2. thread'[t] = "stored" => Unanswered(job[t].token)'
      BY <1>2, <1>12, <2>1 DEF ToTell, HistoryTypeOK, Unanswered
    <2>3. \A c \in Cells : heap'[c] # Null /\ heap'[c].token = job[t].token =>
               /\ heap[c] # Null /\ heap[c].token = job[t].token
               /\ In(alertList, c) => In(alertList', c)
      BY <1>2, <1>3, <1>6, <1>8
    <2>4. QED
      BY <1>2, <2>1, <2>2, <2>3, ToTellAlike
  <1>15. QED
    BY <1>11, <1>13, <1>14 DEF Tells, Reports

LEMMA CreateTells ==
    ASSUME AlertInv, HistoryTypeOK, ReportInv, ~stray, NEW a \in Alerts, CreateAlert(a)
    PROVE  Tells
  <1>1. /\ UNCHANGED <<call, leaked, alertList, alertQueue, thread, job>>
        /\ a \notin asked /\ asked' = asked \cup {a}
    BY DEF CreateAlert, listVars, queueVars, threadVars
  <1>2. \A s \in Cells : heap[s] # Null => heap[s].token \in asked /\ heap[s].token \in Alerts
    BY DEF AlertInv, LoopInv, OwnInv, Types, HeapTypeOK, AlertData
  <1>3. said[a] = {}
    BY <1>1 DEF ReportInv, ReportsOf
  <1>4. \A b \in Alerts : b # a => said'[b] = said[b]
    BY DEF CreateAlert, Report, reportVars, HistoryTypeOK
  <1>5. \E S \in SUBSET Alerts, e \in Reports : Says(S, e)
    <2>1. CASE UNCHANGED reportVars
      <3>1. Says({}, "ALERT_STOP") /\ "ALERT_STOP" \in Reports
        BY <2>1 DEF Says, reportVars, Reports
      <3>2. QED
        BY <3>1
    <2>2. CASE Report({<<a, "SET_ALERT_FAIL">>})
      <3>1. PICK events : events = {<<a, "SET_ALERT_FAIL">>}
        OBVIOUS
      <3>2. \A b \in Alerts, r \in Reports : <<b, r>> \in events <=> b \in {a} /\ r = "SET_ALERT_FAIL"
        BY <3>1
      <3>3. \A b \in {a} : "SET_ALERT_FAIL" \notin said[b] /\ ~Refused(b) /\ Unanswered(b)
        BY <1>3 DEF Unanswered, Refused
      <3>4. Report(events) /\ {a} \subseteq asked' /\ "SET_ALERT_FAIL" \in Reports
        BY <1>1, <2>2, <3>1 DEF Reports
      <3>5. Says({a}, "SET_ALERT_FAIL")
        BY <3>2, <3>3, <3>4, SaysOf
      <3>6. QED
        BY <3>4, <3>5
    <2>3. QED
      BY <2>1, <2>2 DEF CreateAlert
  <1>6. ASSUME NEW s \in Cells, heap[s] # Null, heap'[s] = heap[s], dirCell' # s \/ dirCell = s PROVE Told(s)'
    <2>1. Told(s) /\ said'[heap[s].token] = said[heap[s].token]
      BY <1>1, <1>2, <1>4, <1>6 DEF ReportInv
    <2>2. Due(s)' => Due(s)
      BY <1>1, <1>6 DEF Due, Waiting, Calling
    <2>3. Freeing(s)' <=> Freeing(s)
      BY <1>1 DEF Freeing
    <2>4. QED
      BY <1>1, <1>6, <2>1, <2>2, <2>3, ToldAlike
  <1>7. \A t \in Threads : thread[t] = "stored" => job[t].token # a /\ job[t].token \in Alerts
    BY <1>1 DEF ReportInv, ToTell, HistoryTypeOK
  <1>8. ASSUME NEW t \in Threads,
               \A s \in Cells : heap'[s] = heap[s] \/ heap'[s].token = a
        PROVE  ToTell(t)'
    <2> SUFFICES ASSUME thread'[t] = "stored" PROVE ToTell(t)'
      BY DEF ToTell
    <2>1. ToTell(t) /\ thread[t] = "stored" /\ job'[t] = job[t]
      BY <1>1 DEF ReportInv
    <2>2. Unanswered(job[t].token)'
      BY <1>4, <1>7, <2>1 DEF ToTell, Unanswered
    <2>3. \A s \in Cells : heap'[s] # Null /\ heap'[s].token = job[t].token =>
               /\ heap[s] # Null /\ heap[s].token = job[t].token
               /\ In(alertList, s) => In(alertList', s)
      BY <1>1, <1>7, <1>8, <2>1
    <2>4. QED
      BY <1>1, <2>1, <2>2, <2>3, ToTellAlike
  <1>9. CASE UNCHANGED <<heap, dir, dirCell>>
    <2>1. \A s \in Cells : heap'[s] = Null => Told(s)'
      BY DEF Told
    <2>2. QED
      BY <1>5, <1>6, <1>8, <1>9, <2>1 DEF Tells
  <1>10. CASE dir' = "queue"
    <2>1. PICK s \in Cells, loops \in LoopCounts, tones \in ToneCounts :
             /\ heap[s] = Null /\ dirCell' = s
             /\ heap' = [heap EXCEPT ![s] = NewAlert(a, loops, tones)] /\ UNCHANGED reportVars
      BY <1>10 DEF CreateAlert, AlertInv, OwnInv
    <2>2. /\ heap'[s] = NewAlert(a, loops, tones)
          /\ \A c \in Cells : c # s => heap'[c] = heap[c]
      BY <2>1, TypesFacts DEF AlertInv
    <2>3. heap'[s].token = a /\ heap'[s].active = FALSE
      BY <2>2 DEF NewAlert
    <2>4. said'[a] = {}
      BY <1>3, <2>1 DEF reportVars
    <2>5. Told(s)'
      BY <2>3, <2>4 DEF Told, Unanswered, Refused
    <2>6. \A c \in Cells : c # s => Told(c)'
      <3>1. \A c \in Cells : heap'[c] = Null => Told(c)'
        BY DEF Told
      <3>2. QED
        BY <1>6, <2>1, <2>2, <3>1
    <2>7. \A t \in Threads : ToTell(t)'
      BY <1>8, <2>2, <2>3
    <2>8. QED
      BY <1>5, <2>5, <2>6, <2>7 DEF Tells
  <1>11. QED
    BY <1>9, <1>10 DEF CreateAlert

LEMMA QueueTells ==
    ASSUME AlertInv, HistoryTypeOK, ReportInv, ~stray, QueueAlert
    PROVE  Tells
  <1>1. /\ UNCHANGED <<heap, call, alertList, asked, job>>
        /\ OwnInv /\ Types
    BY DEF QueueAlert, listVars, AlertInv, OwnInv
  <1>2. \A s \in Cells : Due(s)' => Due(s)
    BY <1>1, QueueWaits DEF Due, Calling
  <1>3. \A u \in Threads : thread'[u] = "stored" => thread[u] = "stored" /\ job'[u] = job[u]
    BY <1>1 DEF QueueAlert, queueVars, Types, TaskTypeOK
  <1>4. CASE UNCHANGED <<leaked, reportVars>>
    <2>1. \A s \in Cells : Freeing(s) => Freeing(s)'
      BY <1>1 DEF QueueAlert, queueVars, Freeing, Types, TaskTypeOK
    <2>2. QED
      BY <1>1, <1>2, <1>3, <1>4, <2>1, QuietTells
  <1>5. CASE /\ leaked' = leaked \cup {dirCell}
             /\ Report({<<heap[dirCell].token, "SET_ALERT_FAIL">>})
             /\ UNCHANGED <<queueVars, thread>>
    <2>1. PICK own \in [Cells -> Places] : Owned(own)
      BY <1>1 DEF OwnInv
    <2>2. PICK s \in Cells : s = dirCell
      BY <1>1 DEF QueueAlert, OwnInv, Types, TaskTypeOK
    <2>3. own[s] = <<"dir">>
      BY <2>1, <2>2 DEF Owned
    <2>4. heap[s] # Null /\ s \notin leaked /\ ~In(alertList, s)
      BY <2>1, <2>3, PlacesDiffer DEF Owned
    <2>5. heap[s].token \in asked
      BY <2>4 DEF AlertInv, LoopInv
    <2>6. s \in leaked' /\ leaked \subseteq leaked' /\ Report({<<heap[s].token, "SET_ALERT_FAIL">>})
      BY <1>5, <2>2
    <2>7. ~Freeing(s) /\ \A c \in Cells : Freeing(c) => Freeing(c)'
      BY <1>1, <1>5, <2>1, <2>3, PlacesDiffer DEF Freeing, Working, Owned, queueVars
    <2>8. QED
      BY <1>1, <1>2, <1>3, <2>4, <2>5, <2>6, <2>7, RefusedTells
  <1>6. QED
    BY <1>4, <1>5 DEF QueueAlert

\* SET_ALERT_FAIL, by the thread that is about to free the alert.
LEMMA FailTells ==
    ASSUME AlertInv, HistoryTypeOK, ReportInv, ~stray, NEW t \in Threads, FailAlert(t)
    PROVE  Tells
  <1>1. /\ OwnInv /\ Types /\ Working(t) /\ AlertThread(t) /\ thread[t] = "fail"
        /\ UNCHANGED <<call, asked, alertList, leaked, heap, job>>
    BY DEF AlertInv, OwnInv, FailAlert, Go, Working, AlertThread, dirVars
  <1>2. PICK own \in [Cells -> Places] : Owned(own)
    BY <1>1 DEF OwnInv
  <1>3. PICK s \in Cells : s = job[t].cell /\ heap[s] # Null
    BY <1>1, JobLives
  <1>4. own[s] = <<"thread", t>>
    BY <1>1, <1>2, <1>3 DEF Owned
  <1>5. s \notin leaked /\ ~In(alertList, s)
    BY <1>2, <1>4, PlacesDiffer DEF Owned
  <1>6. heap[s].token \in asked
    BY <1>3 DEF AlertInv, LoopInv
  <1>7. ~Freeing(s)
    <2>1. \A u \in Threads : thread[u] = "free" /\ job[u].cell = s => own[s] = <<"thread", u>>
      BY <1>2 DEF Owned, Working
    <2>2. QED
      BY <1>1, <1>4, <2>1 DEF Freeing
  <1>8. /\ thread'[t] = "free"
        /\ \A u \in Threads : u # t => thread'[u] = thread[u]
    BY <1>1 DEF FailAlert, Go, Types, TaskTypeOK
  <1>9. Freeing(s)' /\ \A c \in Cells : Freeing(c) => Freeing(c)'
    BY <1>1, <1>3, <1>8 DEF Freeing
  <1>10. \A c \in Cells : Due(c)' => Due(c)
    BY <1>1, ThreadWaits DEF Due, Calling
  <1>11. \A u \in Threads : thread'[u] = "stored" => thread[u] = "stored" /\ job'[u] = job[u]
    BY <1>1, <1>8
  <1>12. Report({<<heap[s].token, "SET_ALERT_FAIL">>})
    BY <1>3 DEF FailAlert
  <1>13. QED
    BY <1>1, <1>3, <1>5, <1>6, <1>7, <1>9, <1>10, <1>11, <1>12, RefusedTells

\* Nothing is reported when the alert is freed.
LEMMA FreeTells ==
    ASSUME AlertInv, HistoryTypeOK, ReportInv, ~stray, NEW t \in Threads, FreeAlert(t)
    PROVE  Tells
  <1>1. /\ OwnInv /\ Types /\ Working(t) /\ AlertThread(t) /\ thread[t] = "free"
        /\ UNCHANGED <<call, asked, alertList, leaked>> /\ UNCHANGED reportVars
    BY DEF AlertInv, OwnInv, FreeAlert, Go, Working, AlertThread, dirVars
  <1>2. PICK s \in Cells : s = job[t].cell /\ heap[s] # Null
    BY <1>1, JobLives
  <1>3. heap'[s] = Null /\ \A c \in Cells : c # s => heap'[c] = heap[c]
    BY <1>1, <1>2, TypesFacts DEF FreeAlert
  <1>4. \A u \in Threads : /\ thread'[u] = IF u = t THEN "pop" ELSE thread[u]
                           /\ u # t => job'[u] = job[u]
    BY <1>1 DEF FreeAlert, Go, Types, TaskTypeOK
  <1>5. \A c \in Cells : c # s /\ Freeing(c) => Freeing(c)'
    BY <1>2, <1>4 DEF Freeing
  <1>6. \A c \in Cells : c # s /\ Due(c)' => Due(c)
    BY <1>1, <1>3, ThreadWaits DEF Due, Calling
  <1>7. \A u \in Threads : thread'[u] = "stored" => thread[u] = "stored" /\ job'[u] = job[u]
    BY <1>4
  <1>8. QED
    BY <1>1, <1>3, <1>5, <1>6, <1>7, QuietTells

\* An alert that is put into the list has not been answered yet.
LEMMA StoreTells ==
    ASSUME AlertInv, HistoryTypeOK, ReportInv, ~stray, NEW t \in Threads, StoreAlert(t),
           thread'[t] = "stored"
    PROVE  Tells
  <1>1. /\ OwnInv /\ Types /\ Working(t) /\ AlertThread(t) /\ thread[t] = "armed"
        /\ UNCHANGED <<call, asked, leaked, job, heap>> /\ UNCHANGED reportVars
    BY DEF AlertInv, OwnInv, StoreAlert, Go, Working, AlertThread, dirVars
  <1>2. PICK own \in [Cells -> Places] : Owned(own)
    BY <1>1 DEF OwnInv
  <1>3. PICK s \in Cells : s = job[t].cell /\ heap[s] # Null
    BY <1>1, JobLives
  <1>4. own[s] = <<"thread", t>>
    BY <1>1, <1>2, <1>3 DEF Owned
  <1>5. s \notin leaked /\ ~In(alertList, s)
    BY <1>2, <1>4, PlacesDiffer DEF Owned
  <1>6. alertList' = Append(alertList, s) /\ \A u \in Threads : u # t => thread'[u] = thread[u]
    BY <1>1, <1>3 DEF StoreAlert, Go, Types, TaskTypeOK
  <1>7. In(alertList', s) /\ \A c \in Cells : In(alertList, c) => In(alertList', c)
    BY <1>1, <1>5, <1>6, LineAppend DEF Line, OwnInv, Types, HeapTypeOK
  <1>8. Says({}, "ALERT_STOP") /\ "ALERT_STOP" \in Reports
    BY <1>1 DEF Says, reportVars, Reports
  <1>9. \A c \in Cells : Due(c)' => Due(c)
    BY <1>1, ThreadWaits DEF Due, Calling
  <1>10. ~Freeing(s)
    <2>1. \A u \in Threads : thread[u] = "free" /\ job[u].cell = s => own[s] = <<"thread", u>>
      BY <1>2 DEF Owned, Working
    <2>2. QED
      BY <1>1, <1>4, <2>1 DEF Freeing
  <1>11. ASSUME NEW c \in Cells PROVE Told(c)'
    <2>1. CASE heap[c] = Null
      BY <1>1, <2>1 DEF Told
    <2>2. CASE heap[c] # Null /\ c # s
      <3>1. In(alertList', c) => In(alertList, c)
        BY <1>1, <1>5, <1>6, <2>2, LineAppend DEF Line, OwnInv, Types, HeapTypeOK
      <3>2. Freeing(c) => Freeing(c)'
        BY <1>1, <1>6 DEF Freeing
      <3>3. QED
        BY <1>1, <1>7, <1>9, <2>2, <3>1, <3>2, ToldAlike DEF ReportInv, reportVars
    <2>3. CASE c = s
      <3>1. Told(s) /\ Unanswered(heap[s].token)
        BY <1>3, <1>5, <1>10 DEF ReportInv, Told
      <3>2. said' = said
        BY <1>1 DEF reportVars
      <3>3. QED
        BY <1>1, <1>3, <1>7, <1>9, <2>3, <3>1, <3>2 DEF Told, Due, Unanswered, Refused
    <2>4. QED
      BY <2>1, <2>2, <2>3
  <1>12. job[t].token = heap[s].token /\ job[t].token \in asked
    BY <1>1, <1>3 DEF ReportInv, TokensDiffer, AlertInv, LoopInv
  <1>13. \A c \in Cells : heap[c] # Null /\ heap[c].token = job[t].token => c = s
    BY <1>3, <1>12 DEF ReportInv, TokensDiffer
  <1>14. \A u \in Threads : u # t /\ thread[u] = "stored" => job[u].token # job[t].token
    <2>1. \A u \in Threads : ToTell(u)
      BY DEF ReportInv
    <2>2. QED
      BY <1>3, <1>5, <1>12, <2>1 DEF ToTell
  <1>15. ToTell(t)'
    <2>1. Unanswered(job[t].token)
      BY <1>3, <1>5, <1>12, <1>10 DEF ReportInv, Told
    <2>2. said' = said
      BY <1>1 DEF reportVars
    <2>3. job'[t].token \in asked' /\ Unanswered(job[t].token)'
      BY <1>1, <1>12, <2>1, <2>2 DEF Unanswered
    <2>4. \A c \in Cells : heap'[c] # Null /\ heap'[c].token = job'[t].token => In(alertList', c)
      BY <1>1, <1>7, <1>13
    <2>5. \A u \in Threads : thread'[u] = "stored" /\ job'[u].token = job'[t].token => u = t
      BY <1>1, <1>6, <1>14
    <2>6. QED
      BY <2>3, <2>4, <2>5 DEF ToTell
  <1>16. ASSUME NEW u \in Threads, u # t PROVE ToTell(u)'
    <2> SUFFICES ASSUME thread'[u] = "stored" PROVE ToTell(u)'
      BY DEF ToTell
    <2>1. ToTell(u) /\ thread[u] = "stored"
      BY <1>6, <1>16 DEF ReportInv
    <2>2. said' = said
      BY <1>1 DEF reportVars
    <2>3. job'[u].token \in asked' /\ Unanswered(job[u].token)'
      BY <1>1, <2>1, <2>2 DEF ToTell, Unanswered
    <2>4. \A c \in Cells : heap'[c] # Null /\ heap'[c].token = job'[u].token => In(alertList', c)
      BY <1>1, <1>7, <2>1 DEF ToTell
    <2>5. \A v \in Threads : thread'[v] = "stored" /\ job'[v].token = job'[u].token => v = u
      BY <1>1, <1>6, <1>14, <1>16, <2>1 DEF ToTell
    <2>6. QED
      BY <2>3, <2>4, <2>5 DEF ToTell
  <1>17. QED
    BY <1>8, <1>11, <1>15, <1>16 DEF Tells

\* SET_ALERT_SUCCESS, while the alert is the one that was stored.
LEMMA StoredTells ==
    ASSUME AlertInv, HistoryTypeOK, ReportInv, ~stray', NEW t \in Threads, ReportStored(t)
    PROVE  Tells
  <1>1. /\ OwnInv /\ Types /\ AlertThread(t) /\ thread[t] = "stored"
        /\ UNCHANGED <<call, asked, leaked, heap, alertList>>
        /\ \A u \in Threads : thread'[u] = "stored" => u # t /\ thread[u] = "stored" /\ job'[u] = job[u]
    BY DEF AlertInv, OwnInv, Types, TaskTypeOK, ReportStored, Go, AlertThread, dirVars
  <1>2. ~stray /\ Holds(job[t].cell, job[t].token)
    <2>1. stray' = (stray \/ ~Holds(job[t].cell, job[t].token))
      BY DEF ReportStored, Use
    <2>2. QED
      BY <2>1
  <1>3. PICK a \in Alerts : a = job[t].token /\ a \in asked /\ Unanswered(a)
    BY <1>1, <1>2 DEF ReportInv, ToTell, HistoryTypeOK
  <1>4. Report({<<a, "SET_ALERT_SUCCESS">>})
    BY <1>2, <1>3 DEF ReportStored, Holds
  <1>5. Says({a}, "SET_ALERT_SUCCESS")
    <2>1. PICK events : events = {<<a, "SET_ALERT_SUCCESS">>}
      OBVIOUS
    <2>2. \A b \in Alerts, r \in Reports : <<b, r>> \in events <=> b \in {a} /\ r = "SET_ALERT_SUCCESS"
      BY <2>1
    <2>3. \A b \in {a} : "SET_ALERT_SUCCESS" \notin said[b] /\ ~Refused(b) /\ Unanswered(b)
      BY <1>3 DEF Unanswered, Refused
    <2>4. Report(events) /\ {a} \subseteq asked' /\ "SET_ALERT_SUCCESS" \in Reports
      BY <1>1, <1>3, <1>4, <2>1 DEF Reports
    <2>5. QED
      BY <2>2, <2>3, <2>4, SaysOf
  <1>6. /\ said'[a] = said[a] \cup {"SET_ALERT_SUCCESS"}
        /\ \A b \in Alerts : b # a => said'[b] = said[b]
    BY <1>5 DEF Says
  <1>7. \A c \in Cells : Due(c)' => Due(c)
    BY <1>1, ThreadWaits DEF Due, Calling
  <1>8. ASSUME NEW c \in Cells PROVE Told(c)'
    <2> SUFFICES ASSUME heap'[c] # Null PROVE Told(c)'
      BY DEF Told
    <2>1. heap[c] # Null /\ heap[c].token \in Alerts /\ Told(c)
      BY <1>1, <1>2 DEF ReportInv, Types, HeapTypeOK, AlertData
    <2>2. CASE heap[c].token = a
      <3>1. In(alertList', c)
        BY <1>1, <1>2, <1>3, <2>1, <2>2 DEF ReportInv, ToTell
      <3>2. heap'[c] = heap[c] /\ (Due(c)' => Due(c))
        BY <1>1, <1>7
      <3>3. QED
        BY <1>3, <1>6, <2>1, <2>2, <3>1, <3>2 DEF Told, Due, Refused, Unanswered
    <2>3. CASE heap[c].token # a
      <3>1. Freeing(c) => Freeing(c)'
        BY <1>1 DEF ReportStored, Go, Types, TaskTypeOK, Freeing
      <3>2. QED
        BY <1>1, <1>6, <1>7, <2>1, <2>3, <3>1, ToldAlike
    <2>4. QED
      BY <2>2, <2>3
  <1>9. ASSUME NEW u \in Threads PROVE ToTell(u)'
    <2>1. ToTell(u)
      BY <1>2 DEF ReportInv
    <2>2. ASSUME thread'[u] = "stored" PROVE Unanswered(job[u].token)'
      <3>1. thread[u] = "stored" /\ u # t /\ job'[u] = job[u]
        BY <1>1, <2>2
      <3>2. job[u].token # a /\ job[u].token \in Alerts
        BY <1>1, <1>3, <2>1, <3>1 DEF ToTell, HistoryTypeOK
      <3>3. said'[job[u].token] = said[job[u].token]
        BY <1>6, <3>2
      <3>4. QED
        BY <2>1, <3>1, <3>3 DEF ToTell, Unanswered
    <2>3. QED
      BY <1>1, <2>1, <2>2, ToTellAlike
  <1>10. QED
    BY <1>5, <1>8, <1>9 DEF Tells, Reports

LEMMA ThreadTells ==
    ASSUME AlertInv, HistoryTypeOK, ReportInv, ~stray', NEW t \in Threads, AlertThread(t)
    PROVE  Tells
  <1>1. OwnInv /\ Types
    BY DEF AlertInv, OwnInv
  <1>2. ~stray
    <2>1. stray' = stray \/ stray' = (stray \/ ~Holds(job[t].cell, job[t].token))
      BY DEF AlertThread, PopAlert, ExitThread, RejectAlert, ArmTimer, StoreAlert, ReportStored,
         FailAlert, FreeAlert, Use
    <2>2. QED
      BY <2>1
  <1>3. CASE PopAlert(t) \/ ExitThread(t) \/ RejectAlert(t) \/ ArmTimer(t)
             \/ (StoreAlert(t) /\ thread'[t] # "stored")
    <2>1. UNCHANGED <<call, asked, leaked, alertList>> /\ UNCHANGED reportVars
      <3>1. StoreAlert(t) => thread'[t] \in {"stored", "fail"}
        BY <1>1 DEF StoreAlert, Go, Types, TaskTypeOK
      <3>2. StoreAlert(t) /\ thread'[t] # "stored" => UNCHANGED alertList
        BY <1>1, <3>1 DEF StoreAlert, Go, Types, TaskTypeOK
      <3>3. QED
        BY <1>3, <3>2 DEF PopAlert, ExitThread, RejectAlert, ArmTimer, StoreAlert, Go, dirVars, reportVars
    <2>2. \A u \in Threads : thread'[u] = "stored" => thread[u] = "stored" /\ job'[u] = job[u]
      BY <1>1, <1>3 DEF PopAlert, ExitThread, RejectAlert, ArmTimer, StoreAlert, Go, Types, TaskTypeOK
    <2>3. \A c \in Cells : Freeing(c) => Freeing(c)'
      BY <1>1, <1>3 DEF PopAlert, ExitThread, RejectAlert, ArmTimer, StoreAlert, Go, Types, TaskTypeOK,
         Freeing
    <2>4. CASE UNCHANGED heap
      <3>1. \A c \in Cells : Due(c)' => Due(c)
        BY <1>1, <2>1, <2>4, ThreadWaits DEF Due, Calling
      <3>2. QED
        BY <1>1, <1>2, <2>1, <2>2, <2>4, <2>3, <3>1, QuietTells
    <2>5. CASE ArmTimer(t)
      <3>1. PICK s \in Cells : s = job[t].cell /\ heap[s] # Null /\ heap[s] \in AlertData
        BY <1>1, <2>5, JobLives DEF ArmTimer, Go, Working
      <3>2. Due(s)
        BY <2>5, <3>1 DEF ArmTimer, Go, Due, Waiting
      <3>3. PICK new : new = [heap[s] EXCEPT !.timer = "started"]
        OBVIOUS
      <3>4. new.token = heap[s].token /\ new.active = heap[s].active
        BY <3>1, <3>3 DEF AlertData
      <3>5. heap'[s] = new /\ \A c \in Cells : c # s => heap'[c] = heap[c]
        BY <1>1, <2>5, <3>1, <3>3, TypesFacts DEF ArmTimer
      <3>6. ASSUME NEW c \in Cells, Due(c)' PROVE Due(c)
        <4>1. CASE c = s
          BY <3>2, <4>1
        <4>2. CASE c # s
          BY <1>1, <2>1, <3>5, <3>6, <4>2, ThreadWaits DEF Due, Calling
        <4>3. QED
          BY <4>1, <4>2
      <3>7. \A c \in Cells : heap'[c] # Null =>
                /\ heap[c] # Null /\ heap'[c].token = heap[c].token
                /\ heap'[c].active => heap[c].active
                /\ In(alertList, c) <=> In(alertList', c)
                /\ Freeing(c) => Freeing(c)'
                /\ Due(c)' => Due(c)
        BY <2>1, <2>3, <3>1, <3>4, <3>5, <3>6
      <3>8. asked \subseteq asked' /\ leaked \subseteq leaked'
        BY <2>1
      <3>9. QED
        BY <1>1, <1>2, <2>1, <2>2, <3>7, <3>8, QuietTells
    <2>6. QED
      BY <1>3, <2>4, <2>5 DEF PopAlert, ExitThread, RejectAlert, StoreAlert
  <1>4. QED
    BY <1>2, <1>3, StoreTells, StoredTells, FailTells, FreeTells DEF AlertThread

\* Every step tells the cloud at most one kind of report, and one that fits.
LEMMA StepTells ==
    ASSUME AlertInv, HistoryTypeOK, ReportInv, [Next]_vars, ~stray'
    PROVE  Tells /\ ~stray /\ asked \subseteq asked'
  <1>1. ASSUME NEW a \in Alerts, CreateAlert(a) PROVE Tells /\ ~stray /\ asked \subseteq asked'
    BY <1>1, CreateTells DEF CreateAlert
  <1>2. ASSUME NEW a \in Alerts, DeleteAlert(a) PROVE Tells /\ ~stray /\ asked \subseteq asked'
    BY <1>2, DeleteTells DEF DeleteAlert, dirVars
  <1>3. CASE QueueAlert
    BY <1>3, QueueTells DEF QueueAlert
  <1>4. CASE PlayOther \/ TypeOther \/ KeySilences \/ PlayerEnds \/ UNCHANGED vars
    <2>1. UNCHANGED <<stray, asked>>
      BY <1>4 DEF PlayOther, TypeOther, KeySilences, PlayerEnds, OnlyPlayer, vars, dirVars
    <2>2. QED
      BY <1>4, <2>1, PlayerTells
  <1>5. ASSUME NEW t \in Threads, AlertThread(t) PROVE Tells /\ ~stray /\ asked \subseteq asked'
    <2>1. Tells
      BY <1>5, ThreadTells
    <2>2. stray' = stray \/ stray' = (stray \/ ~Holds(job[t].cell, job[t].token))
      BY <1>5 DEF AlertThread, PopAlert, ExitThread, RejectAlert, ArmTimer, StoreAlert, ReportStored,
         FailAlert, FreeAlert, Use
    <2>3. ~stray
      BY <2>2
    <2>4. asked' = asked
      BY <1>5 DEF AlertThread, PopAlert, ExitThread, RejectAlert, ArmTimer, StoreAlert, ReportStored,
         FailAlert, FreeAlert, Go, dirVars
    <2>5. QED
      BY <2>1, <2>3, <2>4
  <1>6. ASSUME NEW s \in Cells, TimerFires(s) PROVE Tells /\ ~stray /\ asked \subseteq asked'
    BY <1>6, TimerTells DEF TimerFires, dirVars
  <1>7. CASE RingAlert
    <2>1. Tells
      BY <1>7, RingTells
    <2>2. stray' = (stray \/ ~Holds(call.at.cell, call.at.token)) /\ asked' = asked
      BY <1>7 DEF RingAlert, Use, dirVars
    <2>3. ~stray
      BY <2>2
    <2>4. QED
      BY <2>1, <2>2, <2>3
  <1>8. CASE WrapperTask
    <2>1. stray' = stray /\ asked' = asked
      BY <1>8, WrapperWears DEF AlertInv, ElsewhereVars
    <2>2. QED
      BY <1>8, <2>1, WrapperTells
  <1>9. QED
    BY <1>1, <1>2, <1>3, <1>4, <1>5, <1>6, <1>7, <1>8 DEF Next, Directive

LEMMA ReportStep ==
    ASSUME AlertInv, AlertInv', HistoryTypeOK, ReportInv, [Next]_vars
    PROVE  ReportInv'
  <1>1. TokensDiffer'
    BY TokensStep DEF ReportInv
  <1>2. ASSUME ~stray' PROVE Tells /\ ~stray /\ asked \subseteq asked'
    BY <1>2, StepTells
  <1>3. ASSUME ~stray' PROVE twice' = {} /\ \A a \in Alerts : ReportsOf(a)'
    <2>1. PICK S \in SUBSET Alerts, e \in Reports : Says(S, e)
      BY <1>2, <1>3 DEF Tells
    <2>2. twice' = {}
      BY <1>2, <1>3, <2>1 DEF Says, ReportInv
    <2>3. \A a \in Alerts : ReportsOf(a)'
      BY <1>2, <1>3, <2>1, ReportsKept DEF ReportInv
    <2>4. QED
      BY <2>2, <2>3
  <1>4. QED
    BY <1>1, <1>2, <1>3 DEF ReportInv, Tells

\* Unless an alert was freed under the feet of another task, the cloud is told
\* each thing once, and nothing that contradicts what it was told.
THEOREM ReportedOnceHolds == Spec => []ReportedOnce
  <1>1. Init => ReportInv
    BY DEF Init, ReportInv, TokensDiffer, ReportsOf, Told, ToTell, Working
  <1>2. AlertInv /\ AlertInv' /\ TypeOK /\ ReportInv /\ [Next]_vars => ReportInv'
    BY ReportStep DEF TypeOK
  <1>3. ReportInv => ReportedOnce
    BY DEF ReportInv, ReportsOf, ReportedOnce
  <1>4. QED
    BY <1>1, <1>2, <1>3, AlertInvariant, TypeCorrect, PTL DEF Spec

\* The alerts implement AlertReports: what a step reports fits what the cloud
\* was told before, and once a freed alert was used anything goes.
THEOREM ReportedInOrderHolds == Spec => ReportedInOrder
  <1>1. Init => Cloud!Init /\ ReportInv
    BY DEF Init, Cloud!Init, ReportInv, TokensDiffer, ReportsOf, Told, ToTell, Working
  <1>2. ASSUME AlertInv, AlertInv', TypeOK, TypeOK', ReportInv, [Next]_vars PROVE [Cloud!Next]_(Cloud!vars)
    <2>1. CASE stray'
      <3>1. stray' = TRUE
        BY <1>2, <2>1 DEF TypeOK, HistoryTypeOK
      <3>2. QED
        BY <3>1 DEF Cloud!Next, Cloud!Lapse
    <2>2. CASE ~stray'
      <3>1. Tells /\ ~stray /\ asked \subseteq asked'
        BY <1>2, <2>2, StepTells DEF TypeOK
      <3>2. PICK S \in SUBSET Alerts, e \in Reports : Says(S, e)
        BY <3>1 DEF Tells
      <3>3. S \in SUBSET asked' /\ asked' \subseteq Alerts /\ twice' = twice /\ e \in Cloud!Reports
        BY <1>2, <3>2 DEF Says, TypeOK, HistoryTypeOK, Reports, Cloud!Reports, Cloud!Answers
      <3>4. ASSUME NEW a \in S PROVE Cloud!Fits(a, e)
        <4>1. e \notin said[a] /\ (Refused(a) => e = "ALERT_START") /\ a \in Alerts
          BY <3>2 DEF Says
        <4>2. e \in Cloud!Answers => said[a] \cap Cloud!Answers = {}
          BY <3>2 DEF Says, Unanswered, Cloud!Answers
        <4>3. e = "ALERT_STOP" => "ALERT_START" \in said[a]
          BY <3>2 DEF Says
        <4>4. QED
          BY <4>1, <4>2, <4>3 DEF Cloud!Fits, Refused
      <3>5. said' = [a \in Alerts |-> IF a \in S THEN said[a] \cup {e} ELSE said[a]]
        BY <1>2, <3>2 DEF Says, TypeOK, HistoryTypeOK
      <3>6. Cloud!Tell(S, e)
        BY <3>4, <3>5 DEF Cloud!Tell
      <3>7. Cloud!Talk
        BY <2>2, <3>1, <3>3, <3>6 DEF Cloud!Talk
      <3>8. QED
        BY <3>7 DEF Cloud!Next
    <2>3. QED
      BY <2>1, <2>2
  <1>3. AlertInv /\ AlertInv' /\ TypeOK /\ ReportInv /\ [Next]_vars => ReportInv'
    BY ReportStep DEF TypeOK
  <1>4. QED
    BY <1>1, <1>2, <1>3, AlertInvariant, TypeCorrect, PTL DEF Spec, ReportedInOrder, Cloud!Spec
=============================================================================
