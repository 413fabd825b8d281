----------------------------- MODULE Alarm_proofs -----------------------------
(* Proofs about Alarm: the links of the list, for any number of alarms, and  *)
(* that each date of an alarm has one trigger, none and no two.  As to the   *)
(* links: the handles grow and entries are inserted at the head, so that     *)
(* every link leads to a smaller handle: this makes the list free of cycles, *)
(* and a poll that has passed an entry has passed all above it.  The types   *)
(* come last.                                                                *)
EXTENDS Alarm, TLAPS

\* The list, without the excuse of ListIntact.
Linked ==
    /\ next[Head] \in listed \cup {Head}
    /\ next[Head] # Head => prev[next[Head]] = Head
    /\ \A i \in listed :
          /\ next[i] \in {j \in listed : j < i} \cup {Head}
          /\ next[i] # Head => prev[next[i]] = i
          /\ prev[i] \in {j \in listed : j > i} \cup {Head}
          /\ next[prev[i]] = i

ListType ==
    /\ added \in 0..MaxAdds
    /\ listed \subseteq 1..added
    /\ next \in [Ids \cup {Head} -> Ids \cup {Head}]
    /\ prev \in [Ids -> Ids \cup {Head}]
    /\ spliced \in BOOLEAN
    /\ copy.next \in Ids \cup {Head} /\ copy.prev \in Ids \cup {Head}

ListInv == ListType /\ (~spliced => Linked)

LEMMA IdsFacts == Head \notin Ids /\ \A n \in 0..MaxAdds : 1..n \subseteq Ids
BY AlarmAssumption DEF Ids, Head

\* A new entry at the head, with a handle above all the others.
LEMMA InsertLinks ==
    ASSUME ListType, Linked, added < MaxAdds, added' = added + 1,
           listed' = listed \cup {added'}, Insert(added')
    PROVE  Linked'
<1> DEFINE n == added + 1
<1>1. n \in Ids /\ n # Head /\ n \notin listed /\ \A j \in listed : j < n /\ j \in Ids /\ j # Head
  BY AlarmAssumption DEF ListType, Ids, Head
<1>2. /\ next'[Head] = n /\ next'[n] = next[Head]
      /\ \A j \in listed : next'[j] = next[j]
  BY <1>1 DEF Insert, ListType, Ids, Head
<1>3. /\ prev'[n] = Head
      /\ \A j \in listed : prev'[j] = IF j = next[Head] THEN n ELSE prev[j]
  BY <1>1 DEF Insert
<1>4. /\ next'[n] \in {j \in listed' : j < n} \cup {Head}
      /\ next'[n] # Head => prev'[next'[n]] = n
      /\ prev'[n] \in {j \in listed' : j > n} \cup {Head} /\ next'[prev'[n]] = n
  BY <1>1, <1>2, <1>3 DEF Linked
<1>5. ASSUME NEW i \in listed
      PROVE  /\ next'[i] \in {j \in listed' : j < i} \cup {Head}
             /\ next'[i] # Head => prev'[next'[i]] = i
             /\ prev'[i] \in {j \in listed' : j > i} \cup {Head}
             /\ next'[prev'[i]] = i
  <2>1. next'[i] \in {j \in listed' : j < i} \cup {Head}
    BY <1>2 DEF Linked
  <2>2. next[i] # next[Head] \/ next[i] = Head
    BY <1>1 DEF Linked
  <2>3. next'[i] # Head => prev'[next'[i]] = i
    BY <1>2, <1>3, <2>2 DEF Linked
  <2>4. CASE i = next[Head]
    BY <1>1, <1>2, <1>3, <2>1, <2>3, <2>4
  <2>5. CASE i # next[Head]
    <3>1. prev'[i] = prev[i] /\ prev[i] # Head /\ prev[i] \in listed
      BY <1>3, <2>5 DEF Linked
    <3> QED BY <1>2, <2>1, <2>3, <3>1 DEF Linked
  <2> QED BY <2>4, <2>5
<1> QED BY <1>1, <1>2, <1>3, <1>4, <1>5 DEF Linked

\* LIST_REMOVE joins the neighbours of the entry.
LEMMA RemoveLinks ==
    ASSUME ListType, Linked, NEW i \in listed, Remove(i), listed' = listed \ {i}
    PROVE  Linked'
<1>1. \A j \in listed : j \in Ids /\ j # Head /\ j \in Int
  BY IdsFacts DEF ListType, Ids
<1>2. \A j \in Ids \cup {Head} : next'[j] = IF j = prev[i] THEN next[i] ELSE next[j]
  BY <1>1 DEF Remove, ListType
<1>3. \A j \in Ids : prev'[j] = IF j = next[i] THEN prev[i] ELSE prev[j]
  BY DEF Remove
<1>4. /\ next[i] \in {j \in listed : j < i} \cup {Head} /\ prev[i] \in {j \in listed : j > i} \cup {Head}
      /\ next[prev[i]] = i /\ (next[i] # Head => prev[next[i]] = i)
  BY DEF Linked
<1>5. next[i] # i /\ prev[i] # i /\ i # Head
  BY <1>1, <1>4
<1>6. /\ next'[Head] \in listed' \cup {Head}
      /\ next'[Head] # Head => prev'[next'[Head]] = Head
  <2>1. CASE prev[i] = Head
    BY <1>1, <1>2, <1>3, <1>4, <1>5, <2>1
  <2>2. CASE prev[i] # Head
    <3>1. next'[Head] = next[Head] /\ next[Head] # i /\ next[Head] \in listed \cup {Head}
      BY <1>2, <2>2, <1>4, <1>5 DEF Linked
    <3>2. next[Head] # Head => next[Head] # next[i]
      BY <1>1, <1>4, <1>5 DEF Linked
    <3> QED BY <1>1, <1>3, <3>1, <3>2 DEF Linked
  <2> QED BY <2>1, <2>2
<1>7. ASSUME NEW k \in listed, k # i
      PROVE  /\ next'[k] \in {j \in listed' : j < k} \cup {Head}
             /\ next'[k] # Head => prev'[next'[k]] = k
             /\ prev'[k] \in {j \in listed' : j > k} \cup {Head}
             /\ next'[prev'[k]] = k
  <2>0. /\ next[k] \in {j \in listed : j < k} \cup {Head} /\ prev[k] \in {j \in listed : j > k} \cup {Head}
        /\ next[prev[k]] = k /\ (next[k] # Head => prev[next[k]] = k)
    BY DEF Linked
  <2>1. CASE k = prev[i]
    <3>1. next'[k] = next[i] /\ (next[i] # Head => prev'[next[i]] = k)
      BY <1>1, <1>2, <1>3, <1>4, <2>1
    <3>2. prev'[k] = prev[k] /\ prev[k] # i
      BY <1>1, <1>3, <1>4, <1>7, <2>0, <2>1
    <3>3. prev[k] # prev[i]
      BY <1>1, <2>0, <2>1
    <3>4. next'[prev[k]] = k
      BY <1>1, <1>2, <2>0, <3>3
    <3>5. next'[k] \in {j \in listed' : j < k} \cup {Head}
      BY <1>1, <1>4, <1>5, <2>1, <3>1
    <3> QED BY <2>0, <3>1, <3>2, <3>4, <3>5
  <2>2. CASE k = next[i]
    <3>1. prev'[k] = prev[i] /\ next'[prev[i]] = k
      BY <1>1, <1>2, <1>3, <1>4, <2>2
    <3>2. next'[k] = next[k] /\ next[k] # i
      BY <1>1, <1>2, <1>4, <2>0, <2>2
    <3>3. next[k] # Head => next[k] # next[i]
      BY <1>1, <2>0, <2>2
    <3>4. next[k] # Head => prev'[next[k]] = k
      BY <1>1, <1>3, <2>0, <3>3
    <3>5. prev'[k] \in {j \in listed' : j > k} \cup {Head}
      BY <1>1, <1>4, <1>5, <2>2, <3>1
    <3> QED BY <2>0, <3>1, <3>2, <3>4, <3>5
  <2>3. CASE k # prev[i] /\ k # next[i]
    <3>1. next'[k] = next[k] /\ prev'[k] = prev[k]
      BY <1>1, <1>2, <1>3, <2>3
    <3>2. next[k] # i /\ prev[k] # i
      BY <1>1, <1>4, <2>0, <2>3
    <3>3. next[k] # Head => prev'[next[k]] = k
      BY <1>1, <1>3, <1>4, <2>0, <1>7
    <3>4. next'[prev[k]] = k
      BY <1>1, <1>2, <1>4, <2>0, <1>7
    <3> QED BY <2>0, <3>1, <3>2, <3>3, <3>4
  <2> QED BY <2>1, <2>2, <2>3
<1> QED BY <1>6, <1>7 DEF Linked

\* An edit that is not a splice writes the same links back.
LEMMA EditLinks ==
    ASSUME ListInv, NEW date, esp_alarm_edit(date)
    PROVE  ListInv'
<1>1. copy.id \in Ids
  BY IdsFacts DEF esp_alarm_edit, ListInv, ListType
<1>2. ListType'
  BY <1>1 DEF esp_alarm_edit, ListInv, ListType
<1>3. ASSUME ~spliced' PROVE next' = next /\ prev' = prev /\ ~spliced
  <2>1. copy.next = next[copy.id] /\ copy.prev = prev[copy.id] /\ ~spliced
    BY <1>3 DEF esp_alarm_edit, ListInv, ListType
  <2> QED BY <1>1, <2>1 DEF esp_alarm_edit, ListInv, ListType
<1> QED BY <1>2, <1>3 DEF esp_alarm_edit, ListInv, Linked

LEMMA NextListInv == ListInv /\ [Next]_vars => ListInv'
<1> SUFFICES ASSUME ListInv, [Next]_vars PROVE ListInv'
  OBVIOUS
<1>1. ASSUME NEW type, NEW date, esp_alarm_add(type, date) PROVE ListInv'
  <2>1. added' \in Ids /\ added' \in 0..MaxAdds /\ listed' \subseteq 1..added'
    BY <1>1, AlarmAssumption DEF esp_alarm_add, ListInv, ListType, Ids
  <2>2. ListType'
    BY <1>1, <2>1 DEF esp_alarm_add, Insert, ListInv, ListType
  <2>3. ~spliced' => Linked'
    BY <1>1, InsertLinks DEF esp_alarm_add, ListInv
  <2> QED BY <2>2, <2>3 DEF ListInv
<1>2. ASSUME NEW i \in Ids, esp_alarm_delete(i) PROVE ListInv'
  <2>1. ListType'
    BY <1>2 DEF esp_alarm_delete, Remove, ListInv, ListType
  <2>2. ~spliced' => Linked'
    BY <1>2, RemoveLinks DEF esp_alarm_delete, ListInv
  <2> QED BY <2>1, <2>2 DEF ListInv
<1>3. ASSUME NEW i \in Ids, esp_get_alarm_info(i) PROVE ListInv'
  BY <1>3 DEF esp_get_alarm_info, listVars, ListInv, ListType, Linked
<1>4. ASSUME NEW date, esp_alarm_edit(date) PROVE ListInv'
  BY <1>4, EditLinks
<1>5. ASSUME UNCHANGED <<listVars, copy, spliced>> PROVE ListInv'
  BY <1>5 DEF listVars, ListInv, ListType, Linked
<1>6. ASSUME NEW i \in Ids, esp_alarm_register_trigger_func(i) PROVE ListInv'
  BY <1>5, <1>6 DEF esp_alarm_register_trigger_func
<1>7. CASE Second \/ Poll \/ VisitEntry \/ VisitFreed \/ UNCHANGED vars
  BY <1>5, <1>7 DEF Second, Poll, PollEvery, VisitEntry, Test, TriggerAbs, SetIdle, updatePerAlarm, TriggerPer,
     Visit, VisitFreed, vars
<1> QED BY <1>1, <1>2, <1>3, <1>4, <1>6, <1>7 DEF Next, User

LEMMA InitListInv == Init => ListInv
<1> SUFFICES ASSUME Init PROVE ListInv
  OBVIOUS
<1>1. ListType
  <2>1. added \in 0..MaxAdds /\ listed \subseteq 1..added
    BY AlarmAssumption DEF Init
  <2>2. /\ next \in [Ids \cup {Head} -> Ids \cup {Head}]
        /\ prev \in [Ids -> Ids \cup {Head}]
    BY DEF Init
  <2>3. copy.next = Head /\ copy.prev = Head
    BY DEF Init, NoCopy
  <2>4. spliced \in BOOLEAN
    BY DEF Init
  <2> QED BY <2>1, <2>2, <2>3, <2>4 DEF ListType
<1>2. Linked
  BY DEF Init, Linked
<1> QED BY <1>1, <1>2 DEF ListInv

\* After any calls the list holds each entry once, in the order of insertion,
\* with its links right in both directions, unless an edit wrote old links back.
THEOREM ListIntactHolds == Spec => []ListIntact
<1>1. Init => ListInv
  BY InitListInv
<1>2. ListInv => ListIntact
  BY DEF ListInv, Linked, ListIntact
<1> QED BY <1>1, <1>2, NextListInv, PTL DEF Spec

-----------------------------------------------------------------------------
(* Each date of an alarm is triggered once: an alarm that runs has a date    *)
(* for which it has not been triggered, because a trigger either stops it or *)
(* moves it to a date after this second.                                     *)

AnyInfo == [type : {"ABS", "PER"}, date : Nat, running : BOOLEAN, func : BOOLEAN]

DateType ==
    /\ now \in Nat
    /\ alarm \in [Ids -> AnyInfo] /\ copy.info \in AnyInfo
    /\ fired \in [Ids -> SUBSET Int]
    /\ stage \in {"test", "call", "idle", "move", "ring"} /\ seen \in Int
    /\ stage # "test" => at \in Ids /\ at <= added

NotYet ==
    /\ \A i \in Ids : \A d \in fired[i] : d <= now /\ i <= added
    /\ \A i \in listed :
          alarm[i].running /\ ~(at = i /\ stage = "idle") => alarm[i].date \notin fired[i]
    /\ again = FALSE

\* What holds of the entry that the poll found due, until it is edited.
FoundDue ==
    seen # None =>
        /\ seen <= now
        /\ stage \in {"call", "move", "ring"} /\ alarm[at].running => seen \notin fired[at]
        /\ stage \in {"call", "idle", "move"} => alarm[at].date = seen
        /\ stage \in {"call", "idle"} => alarm[at].type # "PER"
        /\ stage = "idle" => seen \in fired[at]
        /\ stage = "move" => alarm[at].type = "PER" /\ \A e \in fired[at] : e <= seen + 1
        /\ stage = "ring" => alarm[at].date # seen

DateInv == DateType /\ NotYet /\ FoundDue

\* The poll and its entry are left alone.
LEMMA DueAlike ==
    ASSUME DateInv, UNCHANGED <<stage, seen, at>>, now' \in Nat, now' >= now,
           stage # "test" => alarm'[at].running = alarm[at].running /\ alarm'[at].date = alarm[at].date
                             /\ alarm'[at].type = alarm[at].type /\ fired'[at] = fired[at]
    PROVE  FoundDue'
<1>1. CASE stage = "test" \/ seen = None
  BY <1>1 DEF DateInv, DateType, FoundDue, None
<1>2. CASE stage # "test" /\ seen # None
  <2>1. seen <= now' /\ seen' # None
    BY <1>2 DEF DateInv, DateType, FoundDue, None
  <2> QED BY <1>2, <2>1 DEF DateInv, FoundDue
<1> QED BY <1>1, <1>2

LEMMA AtVisit ==
    ASSUME ListType, DateInv, NEW from, Visit(from)
    PROVE  /\ at \in Ids /\ at <= added /\ at \in listed /\ listed \subseteq Ids
           /\ UNCHANGED <<now, added, listed, copy>> /\ stage = from
           /\ alarm[at] \in AnyInfo /\ alarm[at].date \in Nat /\ now \in Nat /\ seen \in Int
           /\ added \in Int
<1>1. at \in listed /\ listed \subseteq Ids /\ at <= added /\ added \in Int
  BY IdsFacts DEF Visit, ListType
<1> QED BY <1>1 DEF Visit, listVars, DateInv, DateType, AnyInfo

\* The date is that of this second or the last.
LEMMA TestOnce ==
    ASSUME ListType, DateInv, Test
    PROVE  DateInv'
<1> DEFINE d == alarm[at].date
<1>1. /\ at \in Ids /\ at <= added /\ at \in listed /\ UNCHANGED <<now, added, listed, copy>>
      /\ stage = "test" /\ d \in Nat /\ now \in Nat
  BY AtVisit DEF Test
<1>2. UNCHANGED <<alarm, fired, again>>
  BY DEF Test
<1>3. NotYet'
  BY <1>1, <1>2 DEF DateInv, NotYet
<1>4. CASE InWindow(d)
  <2>1. /\ stage' = IF alarm[at].type = "PER" THEN "move" ELSE "call"
        /\ seen' = d /\ at' = at
    BY <1>4 DEF Test
  <2>2. d <= now /\ now <= d + 1
    BY <1>1, <1>4 DEF InWindow
  <2>3. DateType'
    BY <1>1, <1>2, <2>1 DEF DateInv, DateType
  <2>4. \A e \in fired[at] : e <= d + 1
    BY <1>1, <2>2 DEF DateInv, DateType, NotYet
  <2>5. alarm[at].running => d \notin fired[at]
    BY <1>1 DEF DateInv, NotYet
  <2>6. FoundDue'
    BY <1>1, <1>2, <2>1, <2>2, <2>4, <2>5 DEF FoundDue
  <2> QED BY <1>3, <2>3, <2>6 DEF DateInv
<1>5. CASE ~InWindow(d)
  <2>1. Leave
    BY <1>5 DEF Test
  <2> QED BY <1>1, <1>2, <1>3, <2>1 DEF Leave, None, DateInv, DateType, FoundDue
<1> QED BY <1>4, <1>5

\* A call for the date found due is the first for it.
LEMMA CallOnce ==
    ASSUME ListType, DateInv, NEW from \in {"call", "ring"}, Visit(from), Trigger, alarm' = alarm
    PROVE  /\ again' = FALSE /\ fired' \in [Ids -> SUBSET Int]
           /\ \A j \in Ids : j # at => fired'[j] = fired[j]
           /\ \A j \in Ids : \A e \in fired'[j] : e <= now /\ j <= added
           /\ \A e \in fired'[at] : e \in fired[at] \/ e = seen
           /\ seen = None \/ ~(alarm[at].func /\ alarm[at].running) => fired' = fired
           /\ alarm[at].func /\ alarm[at].running /\ seen # None => seen \in fired'[at]
<1>1. at \in Ids /\ at <= added /\ stage = from /\ alarm[at] \in AnyInfo /\ seen \in Int
  BY AtVisit
<1>2. CASE alarm[at].func /\ alarm[at].running /\ seen # None
  <2>1. fired' = [fired EXCEPT ![at] = @ \cup {seen}] /\ again' = (again \/ seen \in fired[at])
    BY <1>2 DEF Trigger
  <2>2. seen \notin fired[at] /\ seen <= now /\ ~again
    BY <1>1, <1>2 DEF DateInv, FoundDue, NotYet
  <2>3. again' = FALSE
    BY <2>1, <2>2
  <2>4. fired' \in [Ids -> SUBSET Int] /\ fired'[at] = fired[at] \cup {seen}
        /\ \A j \in Ids : j # at => fired'[j] = fired[j]
    BY <1>1, <2>1 DEF DateInv, DateType
  <2>5. \A j \in Ids : \A e \in fired'[j] : e <= now /\ j <= added
    BY <1>1, <2>2, <2>4 DEF DateInv, NotYet
  <2> QED BY <1>2, <2>3, <2>4, <2>5
<1>3. CASE ~(alarm[at].func /\ alarm[at].running /\ seen # None)
  <2>1. fired' = fired /\ again' = again
    BY <1>3 DEF Trigger
  <2> QED BY <1>3, <2>1 DEF DateInv, DateType, NotYet
<1> QED BY <1>2, <1>3

LEMMA TriggerAbsOnce ==
    ASSUME ListType, DateInv, TriggerAbs
    PROVE  DateInv'
<1>1. /\ at \in Ids /\ at <= added /\ at \in listed /\ listed \subseteq Ids
      /\ UNCHANGED <<now, added, listed, copy, alarm>>
      /\ stage = "call" /\ alarm[at] \in AnyInfo
  BY AtVisit DEF TriggerAbs
<1>2. /\ again' = FALSE /\ fired' \in [Ids -> SUBSET Int]
      /\ \A j \in Ids : j # at => fired'[j] = fired[j]
      /\ \A j \in Ids : \A e \in fired'[j] : e <= now /\ j <= added
      /\ seen = None \/ ~(alarm[at].func /\ alarm[at].running) => fired' = fired
      /\ alarm[at].func /\ alarm[at].running /\ seen # None => seen \in fired'[at]
  BY CallOnce DEF TriggerAbs
<1>3. CASE alarm[at].func /\ alarm[at].running
  <2>1. stage' = "idle" /\ UNCHANGED <<at, seen>>
    BY <1>3 DEF TriggerAbs
  <2>2. DateType'
    BY <1>1, <1>2, <2>1 DEF DateInv, DateType
  <2>3. NotYet'
    BY <1>1, <1>2, <2>1 DEF DateInv, NotYet
  <2>4. FoundDue'
    BY <1>1, <1>2, <1>3, <2>1 DEF DateInv, FoundDue, None
  <2> QED BY <2>2, <2>3, <2>4 DEF DateInv
<1>4. CASE ~(alarm[at].func /\ alarm[at].running)
  <2>1. Leave /\ fired' = fired
    BY <1>2, <1>4 DEF TriggerAbs
  <2>2. NotYet'
    BY <1>1, <1>2, <2>1 DEF DateInv, NotYet, Leave
  <2> QED BY <1>1, <1>2, <2>1, <2>2 DEF Leave, None, DateInv, DateType, FoundDue
<1> QED BY <1>3, <1>4

LEMMA SetIdleOnce ==
    ASSUME ListType, DateInv, SetIdle
    PROVE  DateInv'
<1>1. /\ at \in Ids /\ at \in listed /\ listed \subseteq Ids /\ UNCHANGED <<now, added, listed, copy, fired, again>>
      /\ stage = "idle" /\ alarm[at] \in AnyInfo
  BY AtVisit DEF SetIdle
<1>2. Leave /\ alarm' = [alarm EXCEPT ![at].running = FALSE]
  BY DEF SetIdle
<1>3. alarm' \in [Ids -> AnyInfo] /\ alarm'[at].running = FALSE /\ \A j \in Ids : j # at => alarm'[j] = alarm[j]
  BY <1>1, <1>2 DEF DateInv, DateType, AnyInfo
<1>4. NotYet'
  BY <1>1, <1>2, <1>3 DEF DateInv, NotYet, Leave
<1> QED BY <1>1, <1>2, <1>3, <1>4 DEF Leave, None, DateInv, DateType, FoundDue

\* The next date of a periodic alarm is after all that it was called for.
LEMMA MoveOnce ==
    ASSUME ListType, DateInv, updatePerAlarm
    PROVE  DateInv'
<1> DEFINE e == alarm[at].date + Per
<1>1. /\ at \in Ids /\ at <= added /\ at \in listed /\ listed \subseteq Ids
      /\ UNCHANGED <<now, added, listed, copy>>
      /\ stage = "move" /\ alarm[at] \in AnyInfo /\ alarm[at].date \in Nat /\ seen \in Int
  BY AtVisit DEF updatePerAlarm
<1>2. /\ alarm' = [alarm EXCEPT ![at].date = e] /\ stage' = "ring" /\ UNCHANGED <<at, seen, again>>
      /\ fired' = [fired EXCEPT ![at] = IF seen = None THEN @ \ {e} ELSE @]
  BY DEF updatePerAlarm
<1>3. e \in Nat
  BY <1>1, AlarmAssumption
<1>4. alarm' \in [Ids -> AnyInfo] /\ alarm'[at].date = e /\ alarm'[at].running = alarm[at].running
      /\ \A j \in Ids : j # at => alarm'[j] = alarm[j]
  BY <1>1, <1>2, <1>3 DEF DateInv, DateType, AnyInfo
<1>5. fired' \in [Ids -> SUBSET Int] /\ fired'[at] = (IF seen = None THEN fired[at] \ {e} ELSE fired[at])
      /\ \A j \in Ids : j # at => fired'[j] = fired[j]
  BY <1>1, <1>2 DEF DateInv, DateType
<1>6. e \notin fired'[at]
  <2>1. CASE seen = None
    BY <1>5, <2>1
  <2>2. CASE seen # None
    <3>1. alarm[at].date = seen /\ \A f \in fired[at] : f <= seen + 1
      BY <1>1, <2>2 DEF DateInv, FoundDue
    <3>2. ~(e <= seen + 1)
      BY <1>1, <3>1, AlarmAssumption
    <3> QED BY <1>5, <2>2, <3>1, <3>2
  <2> QED BY <2>1, <2>2
<1>7. DateType'
  BY <1>1, <1>2, <1>4, <1>5 DEF DateInv, DateType
<1>8. NotYet'
  <2>1. \A j \in Ids : \A f \in fired'[j] : f \in fired[j]
    BY <1>1, <1>5
  <2>2. \A j \in Ids : \A f \in fired'[j] : f <= now' /\ j <= added'
    BY <1>1, <2>1 DEF DateInv, NotYet
  <2>3. \A j \in listed : alarm'[j].running /\ ~(at' = j /\ stage' = "idle") => alarm'[j].date \notin fired'[j]
    BY <1>1, <1>2, <1>4, <1>5, <1>6 DEF DateInv, NotYet
  <2> QED BY <1>1, <1>2, <2>2, <2>3 DEF DateInv, NotYet
<1>9. FoundDue'
  <2>1. CASE seen = None
    BY <1>2, <2>1 DEF FoundDue, None
  <2>2. CASE seen # None
    <3>1. alarm[at].date = seen /\ seen <= now /\ (alarm[at].running => seen \notin fired[at])
      BY <1>1, <2>2 DEF DateInv, FoundDue
    <3>2. e # seen
      BY <1>1, <3>1, AlarmAssumption
    <3> QED BY <1>1, <1>2, <1>4, <1>5, <2>2, <3>1, <3>2 DEF FoundDue
  <2> QED BY <2>1, <2>2
<1> QED BY <1>7, <1>8, <1>9 DEF DateInv

LEMMA TriggerPerOnce ==
    ASSUME ListType, DateInv, TriggerPer
    PROVE  DateInv'
<1>1. /\ at \in Ids /\ at <= added /\ at \in listed /\ listed \subseteq Ids
      /\ UNCHANGED <<now, added, listed, copy, alarm>> /\ stage = "ring"
  BY AtVisit DEF TriggerPer
<1>2. /\ again' = FALSE /\ fired' \in [Ids -> SUBSET Int]
      /\ \A j \in Ids : j # at => fired'[j] = fired[j]
      /\ \A j \in Ids : \A e \in fired'[j] : e <= now /\ j <= added
      /\ \A e \in fired'[at] : e \in fired[at] \/ e = seen
      /\ seen = None => fired' = fired
  BY CallOnce DEF TriggerPer
<1>3. Leave
  BY DEF TriggerPer
<1>4. alarm[at].running => alarm[at].date \notin fired'[at]
  <2>1. alarm[at].running => alarm[at].date \notin fired[at]
    BY <1>1 DEF DateInv, NotYet
  <2>2. seen # None => alarm[at].date # seen
    BY <1>1 DEF DateInv, FoundDue
  <2> QED BY <1>2, <2>1, <2>2
<1>5. NotYet'
  BY <1>1, <1>2, <1>3, <1>4 DEF DateInv, NotYet, Leave
<1> QED BY <1>1, <1>2, <1>3, <1>5 DEF Leave, None, DateInv, DateType, FoundDue

\* A new alarm has a handle that no trigger has seen.
LEMMA AddOnce ==
    ASSUME ListType, DateInv, NEW type \in {"ABS", "PER"}, NEW date \in Nat, esp_alarm_add(type, date)
    PROVE  DateInv'
<1> DEFINE n == added + 1
<1>1. n \in Ids /\ n \in Int /\ added \in Int /\ added' = n /\ listed' = listed \cup {n} /\ listed \subseteq Ids
  BY AlarmAssumption DEF esp_alarm_add, ListType, Ids
<1>2. alarm' = [alarm EXCEPT ![n] = [type |-> type, date |-> date, running |-> TRUE, func |-> FALSE]]
  BY <1>1 DEF esp_alarm_add
<1>3. alarm' \in [Ids -> AnyInfo]
  BY <1>1, <1>2 DEF DateInv, DateType, AnyInfo
<1>4. \A j \in Ids : j # n => alarm'[j] = alarm[j]
  BY <1>2 DEF DateInv, DateType
<1>5. fired' = fired /\ now' = now /\ copy' = copy /\ again' = again /\ UNCHANGED <<at, stage, seen>>
  BY DEF esp_alarm_add, pollVars
<1>6. fired[n] = {}
  BY <1>1 DEF DateInv, DateType, NotYet
<1>7. \A j \in Ids : \A e \in fired'[j] : e <= now' /\ j <= added'
  BY <1>1, <1>5 DEF DateInv, NotYet, Ids
<1>8. \A j \in listed' : alarm'[j].running /\ ~(at' = j /\ stage' = "idle") => alarm'[j].date \notin fired'[j]
  BY <1>1, <1>4, <1>5, <1>6 DEF DateInv, NotYet
<1>9. stage # "test" => at # n /\ at \in Ids /\ at <= n
  BY <1>1 DEF DateInv, DateType, Ids
<1>10. FoundDue'
  BY <1>4, <1>5, <1>9, DueAlike DEF DateInv, DateType
<1> QED BY <1>1, <1>3, <1>5, <1>7, <1>8, <1>9, <1>10 DEF DateInv, DateType, NotYet

\* An edited alarm may be triggered for the date it is given.
LEMMA EditOnce ==
    ASSUME ListType, DateInv, NEW date \in Nat, copy.id \in Ids, esp_alarm_edit(date)
    PROVE  DateInv'
<1> DEFINE i == copy.id
<1>1. alarm' = [alarm EXCEPT ![i] = [copy.info EXCEPT !.date = date]]
  BY DEF esp_alarm_edit
<1>2. fired' = [fired EXCEPT ![i] = @ \ {date}]
  BY DEF esp_alarm_edit
<1>3. [copy.info EXCEPT !.date = date] \in AnyInfo
  BY DEF DateInv, DateType, AnyInfo
<1>4. alarm' \in [Ids -> AnyInfo] /\ fired' \in [Ids -> SUBSET Int]
  BY <1>1, <1>2, <1>3 DEF DateInv, DateType
<1>5. \A j \in Ids : j # i => alarm'[j] = alarm[j] /\ fired'[j] = fired[j]
  BY <1>1, <1>2 DEF DateInv, DateType
<1>6. alarm'[i].date = date /\ fired'[i] = fired[i] \ {date}
  BY <1>1, <1>2 DEF DateInv, DateType, AnyInfo
<1>7. /\ now' = now /\ copy' = copy /\ again' = again /\ added' = added /\ listed' = listed
      /\ UNCHANGED <<at, stage>> /\ seen' = IF at = i THEN None ELSE seen
  BY DEF esp_alarm_edit
<1>8. \A j \in Ids : \A e \in fired'[j] : e <= now' /\ j <= added'
  BY <1>5, <1>6, <1>7 DEF DateInv, NotYet
<1>9. \A j \in listed' : alarm'[j].running /\ ~(at' = j /\ stage' = "idle") => alarm'[j].date \notin fired'[j]
  <2>1. listed \subseteq Ids
    BY IdsFacts DEF ListType
  <2> QED BY <1>5, <1>6, <1>7, <2>1 DEF DateInv, NotYet
<1>10. FoundDue'
  <2>1. CASE at = i
    BY <1>7, <2>1 DEF FoundDue, None
  <2>2. CASE at # i
    BY <1>5, <1>7, <2>2, DueAlike DEF DateInv, DateType
  <2> QED BY <2>1, <2>2
<1> QED BY <1>4, <1>7, <1>8, <1>9, <1>10 DEF DateInv, DateType, NotYet, None

LEMMA NextDateInv == ListInv /\ DateInv /\ [Next]_vars => DateInv'
<1> SUFFICES ASSUME ListInv, DateInv, [Next]_vars PROVE DateInv'
  OBVIOUS
<1>0. ListType /\ listed \subseteq Ids /\ now \in Nat
  BY IdsFacts DEF ListInv, ListType, DateInv, DateType
<1>1. ASSUME NEW type \in {"ABS", "PER"}, NEW date \in now..now + MaxAhead, esp_alarm_add(type, date)
      PROVE  DateInv'
  <2>1. date \in Nat
    BY <1>0, AlarmAssumption
  <2> QED BY <1>0, <1>1, <2>1, AddOnce
<1>2. ASSUME NEW i \in Ids, esp_alarm_register_trigger_func(i) PROVE DateInv'
  <2>1. alarm' = [alarm EXCEPT ![i].func = TRUE] /\ UNCHANGED <<now, added, listed, copy, fired, again, at, stage, seen>>
    BY <1>2 DEF esp_alarm_register_trigger_func, listVars, pollVars
  <2>2. alarm' \in [Ids -> AnyInfo]
    BY <2>1 DEF DateInv, DateType, AnyInfo
  <2>3. \A j \in Ids : alarm'[j].running = alarm[j].running /\ alarm'[j].date = alarm[j].date
                       /\ alarm'[j].type = alarm[j].type
    BY <2>1 DEF DateInv, DateType, AnyInfo
  <2>4. FoundDue'
    BY <2>1, <2>3, DueAlike DEF DateInv, DateType
  <2> QED BY <1>0, <2>1, <2>2, <2>3, <2>4 DEF DateInv, DateType, NotYet
<1>3. ASSUME NEW i \in Ids, esp_get_alarm_info(i) PROVE DateInv'
  <2>1. copy'.info = alarm[i] /\ UNCHANGED <<now, added, listed, alarm, fired, again, at, stage, seen>>
    BY <1>3 DEF esp_get_alarm_info, listVars, pollVars
  <2>2. copy'.info \in AnyInfo
    BY <2>1 DEF DateInv, DateType
  <2> QED BY <2>1, <2>2 DEF DateInv, DateType, NotYet, FoundDue
<1>4. ASSUME NEW date \in 0..MaxTime + MaxAhead, esp_alarm_edit(date)
      PROVE  DateInv'
  <2>1. date \in Nat
    BY AlarmAssumption
  <2>2. copy.id \in Ids
    BY <1>0, <1>4 DEF esp_alarm_edit
  <2> QED BY <1>0, <1>4, <2>1, <2>2, EditOnce
<1>5. CASE Second
  <2>1. now' = now + 1 /\ UNCHANGED <<added, listed, copy, alarm, fired, again, at, stage, seen>>
    BY <1>5 DEF Second, listVars, pollVars
  <2>2. FoundDue'
    BY <1>0, <2>1, DueAlike
  <2> QED BY <1>0, <2>1, <2>2 DEF DateInv, DateType, NotYet
<1>6. CASE VisitEntry
  BY <1>0, <1>6, TestOnce, TriggerAbsOnce, SetIdleOnce, MoveOnce, TriggerPerOnce DEF VisitEntry
<1>7. ASSUME NEW i \in Ids, esp_alarm_delete(i) PROVE DateInv'
  <2>1. UNCHANGED <<now, added, copy, alarm, fired, again, at, stage, seen>> /\ listed' \subseteq listed
    BY <1>7 DEF esp_alarm_delete, pollVars
  <2> QED BY <2>1 DEF DateInv, DateType, NotYet, FoundDue
<1>8. CASE Poll
  <2>1. UNCHANGED <<now, added, listed, copy, alarm, fired, again, stage, seen>> /\ at = Head
    BY <1>8 DEF Poll, PollEvery, listVars
  <2>2. stage = "test"
    BY <2>1, IdsFacts DEF DateInv, DateType
  <2> QED BY <2>1, <2>2 DEF DateInv, DateType, NotYet, FoundDue
<1>9. CASE VisitFreed
  <2>1. UNCHANGED <<now, added, listed, copy, alarm, fired, again>> /\ stage' = "test" /\ seen' = None
        /\ at \notin listed
    BY <1>9 DEF VisitFreed, listVars
  <2> QED BY <2>1 DEF DateInv, DateType, NotYet, FoundDue, None
<1>10. CASE UNCHANGED vars
  BY <1>10 DEF vars, pollVars, listVars, DateInv, DateType, NotYet, FoundDue
<1> QED BY <1>1, <1>2, <1>3, <1>4, <1>5, <1>6, <1>7, <1>8, <1>9, <1>10 DEF Next, User

LEMMA InitDateInv == Init => DateInv
<1> SUFFICES ASSUME Init PROVE DateInv
  OBVIOUS
<1>1. NoInfo \in AnyInfo
  BY DEF NoInfo, AnyInfo
<1>2. now \in Nat /\ alarm \in [Ids -> AnyInfo] /\ fired \in [Ids -> SUBSET Int]
  BY <1>1 DEF Init
<1>3. copy.info \in AnyInfo
  BY <1>1 DEF Init, NoCopy
<1>4. NotYet
  BY DEF Init, NotYet
<1>5. FoundDue /\ seen \in Int /\ stage = "test"
  BY DEF Init, FoundDue, None
<1> QED BY <1>2, <1>3, <1>4, <1>5 DEF DateInv, DateType

\* For every number of alarms, every period of two seconds or more, however
\* late the polls are and whatever the user edits, no alarm is triggered twice
\* for one date (AlarmService.c, PollTimerCallback; alarm.c, alarmTrigger).
THEOREM OncePerDateHolds == Spec => []OncePerDate
<1>1. Init => ListInv
  BY InitListInv
<1>2. Init => DateInv
  BY InitDateInv
<1>3. DateInv => OncePerDate
  BY DEF DateInv, NotYet, OncePerDate
<1> QED BY <1>1, <1>2, <1>3, NextListInv, NextDateInv, PTL DEF Spec

-----------------------------------------------------------------------------
(* No date is missed.  The timer of two seconds meets the window of two: an   *)
(* alarm whose date is this second has a poll due by the next, one whose date *)
(* was the last second by now, or the poll stands before it.  That a poll     *)
(* that stands before an entry will come to it needs the order of the list:   *)
(* no entry is left out between one and the next.                             *)

Ordered == \A i \in listed : i <= next[Head] /\ \A k \in listed : i < k => i <= next[k]

\* The poll has still to look at the entry, or has found it due.
Ahead(i) == at > i \/ (at = i /\ stage # "ring")

OnTime(i) ==
    /\ alarm[i].type = "PER" \/ alarm[i].date \notin fired[i] => alarm[i].running = TRUE /\ alarm[i].func = TRUE
    /\ alarm[i].date \notin fired[i] =>
          /\ alarm[i].date >= now - 1
          /\ alarm[i].date = now - 1 => due <= 0 \/ Ahead(i)
          /\ alarm[i].date = now => due <= 1 \/ Ahead(i)
    /\ Under(i) => seen # None

PollType == due \in Int /\ due <= 2 /\ at \in Ids \cup {Head}
PollInv == ~spliced => Ordered /\ \A i \in listed \ (unready \cup risked) : OnTime(i)

\* Entries are inserted at the head and removed between their neighbours.
LEMMA NextOrdered ==
    ASSUME ListInv, Ordered, ~spliced, [Next]_vars, ~spliced'
    PROVE  Ordered'
<1>0. Linked /\ ListType /\ listed \subseteq Ids /\ Head = 0 /\ Head \notin Ids /\ added \in Nat
  BY IdsFacts DEF ListInv, ListType, Head
<1>1. ASSUME NEW type, NEW date, esp_alarm_add(type, date) PROVE Ordered'
  <2> DEFINE n == added + 1
  <2>1. added' = n /\ listed' = listed \cup {n} /\ Insert(n) /\ n \in Ids
    BY <1>0, <1>1, AlarmAssumption DEF esp_alarm_add, Ids
  <2>2. \A i \in listed : i < n /\ i # n /\ i \in Nat
    BY <1>0 DEF ListType
  <2>3. /\ next'[Head] = n /\ next'[n] = next[Head]
        /\ \A j \in listed : next'[j] = next[j]
    BY <1>0, <2>1, <2>2 DEF Insert, ListType
  <2> QED BY <1>0, <2>1, <2>2, <2>3 DEF Ordered
<1>2. ASSUME NEW i \in Ids, esp_alarm_delete(i) PROVE Ordered'
  <2>1. i \in listed /\ listed' = listed \ {i} /\ next' = [next EXCEPT ![prev[i]] = next[i]]
    BY <1>2 DEF esp_alarm_delete, Remove
  <2>2. next[prev[i]] = i /\ \A k \in listed \cup {Head} : next'[k] = IF k = prev[i] THEN next[i] ELSE next[k]
    BY <1>0, <2>1 DEF Linked, ListType
  <2>3. \A j \in listed : j \in Nat
    BY <1>0 DEF Ids
  <2>4. ASSUME NEW j \in listed, j # i PROVE j <= next'[Head]
    <3>1. CASE prev[i] = Head
      BY <2>1, <2>2, <2>3, <2>4, <3>1 DEF Ordered
    <3>2. CASE prev[i] # Head
      BY <2>2, <3>2 DEF Ordered
    <3> QED BY <3>1, <3>2
  <2>5. ASSUME NEW j \in listed, j # i, NEW k \in listed, k # i, j < k PROVE j <= next'[k]
    <3>1. CASE k = prev[i]
      <4>1. j <= i /\ next'[k] = next[i]
        BY <2>2, <2>5, <3>1 DEF Ordered
      <4>2. j < i
        BY <2>1, <2>3, <2>5, <4>1
      <4> QED BY <2>1, <4>1, <4>2 DEF Ordered
    <3>2. CASE k # prev[i]
      BY <2>2, <2>5, <3>2 DEF Ordered
    <3> QED BY <3>1, <3>2
  <2> QED BY <2>1, <2>4, <2>5 DEF Ordered
<1>3. ASSUME NEW date, esp_alarm_edit(date) PROVE Ordered'
  <2>1. copy.next = next[copy.id] /\ copy.prev = prev[copy.id]
    BY <1>3 DEF esp_alarm_edit
  <2>2. next' = next /\ listed' = listed
    BY <1>0, <1>3, <2>1 DEF esp_alarm_edit, ListType
  <2> QED BY <2>2 DEF Ordered
<1>4. ASSUME UNCHANGED listVars PROVE Ordered'
  BY <1>4 DEF listVars, Ordered
<1>5. ASSUME NEW i \in Ids, esp_alarm_register_trigger_func(i) \/ esp_get_alarm_info(i) PROVE Ordered'
  BY <1>4, <1>5 DEF esp_alarm_register_trigger_func, esp_get_alarm_info
<1>6. CASE Second \/ Poll \/ VisitEntry \/ VisitFreed \/ UNCHANGED vars
  BY <1>4, <1>6 DEF Second, Poll, PollEvery, VisitEntry, Test, TriggerAbs, SetIdle, updatePerAlarm, TriggerPer,
     Visit, VisitFreed, vars
<1> QED BY <1>1, <1>2, <1>3, <1>5, <1>6 DEF Next, User

LEMMA NextPollType == ListInv /\ PollType /\ [Next]_vars => PollType'
<1> SUFFICES ASSUME ListInv, PollType, [Next]_vars PROVE PollType'
  OBVIOUS
<1>1. next \in [Ids \cup {Head} -> Ids \cup {Head}] /\ listed \subseteq Ids
  BY IdsFacts DEF ListInv, ListType
<1>2. CASE User
  <2>1. ASSUME NEW type, NEW date, esp_alarm_add(type, date) PROVE due' = 2 /\ at' = at
    BY <2>1 DEF esp_alarm_add, Postpone, pollVars
  <2>2. ASSUME NEW i \in Ids, esp_alarm_delete(i) PROVE UNCHANGED <<due, at>>
    BY <2>2 DEF esp_alarm_delete, pollVars
  <2>3. ASSUME NEW i \in Ids, esp_alarm_register_trigger_func(i) \/ esp_get_alarm_info(i)
        PROVE  UNCHANGED <<due, at>>
    BY <2>3 DEF esp_alarm_register_trigger_func, esp_get_alarm_info, pollVars
  <2>4. ASSUME NEW date, esp_alarm_edit(date) PROVE UNCHANGED <<due, at>>
    BY <2>4 DEF esp_alarm_edit
  <2>5. at' = at /\ (due' = 2 \/ due' = due)
    BY <1>2, <2>1, <2>2, <2>3, <2>4 DEF User
  <2> QED BY <2>5 DEF PollType
<1>3. CASE Second
  BY <1>3 DEF Second, PollType, pollVars
<1>4. CASE Poll
  BY <1>1, <1>4 DEF Poll, PollEvery, PollType
<1>5. CASE VisitEntry \/ VisitFreed \/ UNCHANGED vars
  <2>1. due' = due /\ at' \in {at, next[at], Head}
    BY <1>5 DEF VisitEntry, Test, TriggerAbs, SetIdle, updatePerAlarm, TriggerPer, Leave, Visit, VisitFreed, vars,
       pollVars
  <2> QED BY <1>1, <2>1 DEF PollType
<1> QED BY <1>2, <1>3, <1>4, <1>5 DEF Next

\* The visit of an entry that is due serves its date, or moves it on.
LEMMA VisitOnTime ==
    ASSUME ListType, DateInv, PollType, NEW i \in listed, at = i, OnTime(i), VisitEntry
    PROVE  OnTime(i)'
<1>1. /\ i \in Ids /\ alarm[i] \in AnyInfo /\ alarm[i].date \in Nat /\ now \in Nat /\ alarm \in [Ids -> AnyInfo]
      /\ seen \in Int
  BY IdsFacts DEF ListType, DateInv, DateType, AnyInfo
<1>2. CASE Test
  <2>1. UNCHANGED <<alarm, fired, now, due>>
    BY <1>2 DEF Test, Visit
  <2>2. CASE InWindow(alarm[i].date)
    <3>1. at' = at /\ stage' \in {"move", "call"} /\ seen' = alarm[i].date
      BY <1>2, <2>2 DEF Test
    <3> QED BY <1>1, <2>1, <3>1 DEF OnTime, Ahead, Under, None
  <2>3. CASE ~InWindow(alarm[i].date)
    <3>1. stage' = "test" /\ alarm[i].date # now /\ alarm[i].date # now - 1
      BY <1>1, <1>2, <2>3 DEF Test, Leave, InWindow
    <3> QED BY <1>1, <2>1, <3>1 DEF OnTime, Under
  <2> QED BY <2>2, <2>3
<1>3. CASE TriggerAbs
  <2>1. UNCHANGED <<alarm, now, due>> /\ stage = "call" /\ Visit("call") /\ Trigger
    BY <1>3 DEF TriggerAbs, Visit
  <2>2. seen # None /\ alarm[i].type # "PER" /\ alarm[i].date = seen
    BY <2>1 DEF OnTime, Under, DateInv, FoundDue
  <2>3. CASE alarm[i].func /\ alarm[i].running
    <3>1. seen' = seen /\ seen \in fired'[i]
      BY <1>3, <2>1, <2>2, <2>3, CallOnce DEF TriggerAbs
    <3> QED BY <2>1, <2>2, <3>1 DEF OnTime
  <2>4. CASE ~(alarm[i].func /\ alarm[i].running)
    <3>1. alarm[i].date \in fired[i] /\ fired' = fired /\ stage' = "test"
      BY <1>3, <2>1, <2>2, <2>4 DEF OnTime, Trigger, TriggerAbs, Leave
    <3> QED BY <2>1, <2>2, <3>1 DEF OnTime, Under
  <2> QED BY <2>3, <2>4
<1>4. CASE SetIdle
  <2>1. stage = "idle" /\ stage' = "test" /\ fired' = fired /\ alarm' = [alarm EXCEPT ![i].running = FALSE]
    BY <1>4 DEF SetIdle, Visit, Leave
  <2>2. seen # None /\ alarm[i].type # "PER" /\ alarm[i].date = seen /\ seen \in fired[i]
    BY <2>1 DEF OnTime, Under, DateInv, FoundDue
  <2>3. alarm'[i].type = alarm[i].type /\ alarm'[i].date = alarm[i].date
    BY <1>1, <2>1 DEF AnyInfo
  <2> QED BY <2>1, <2>2, <2>3 DEF OnTime, Under
<1>5. CASE updatePerAlarm
  <2> DEFINE e == alarm[i].date + Per
  <2>1. /\ stage = "move" /\ stage' = "ring" /\ alarm' = [alarm EXCEPT ![i].date = e] /\ now' = now
        /\ fired' = [fired EXCEPT ![i] = IF seen = None THEN @ \ {e} ELSE @]
    BY <1>5 DEF updatePerAlarm, Visit
  <2>2. seen # None /\ alarm[i].type = "PER" /\ alarm[i].date = seen /\ (alarm[i].running => seen \notin fired[i])
    BY <2>1 DEF OnTime, Under, DateInv, FoundDue
  <2>3. alarm[i].running = TRUE /\ alarm[i].func = TRUE /\ alarm[i].date >= now - 1
    BY <2>2 DEF OnTime
  <2>4. e \in Nat /\ e > now
    BY <1>1, <2>3, AlarmAssumption
  <2>5. alarm'[i].date = e /\ alarm'[i].running = TRUE /\ alarm'[i].func = TRUE
    BY <1>1, <2>1, <2>3 DEF AnyInfo
  <2> QED BY <1>1, <2>1, <2>4, <2>5 DEF OnTime, Under
<1>6. CASE TriggerPer
  <2>1. UNCHANGED <<alarm, now, due>> /\ stage = "ring" /\ stage' = "test" /\ Visit("ring") /\ Trigger
    BY <1>6 DEF TriggerPer, Visit, Leave
  <2>2. \A e \in fired[i] : e \in fired'[i]
    BY <1>1, <2>1 DEF Trigger, DateInv, DateType
  <2>3. ~Ahead(i)
    BY <1>1, <2>1 DEF Ahead, Ids
  <2> QED BY <1>1, <2>1, <2>2, <2>3 DEF OnTime, Under
<1> QED BY <1>2, <1>3, <1>4, <1>5, <1>6 DEF VisitEntry

LEMMA NextPoll == ListInv /\ DateInv /\ PollType /\ PollInv /\ [Next]_vars => PollInv'
<1> SUFFICES ASSUME ListInv, DateInv, PollType, PollInv, [Next]_vars, ~spliced'
             PROVE  Ordered' /\ \A i \in listed' \ (unready' \cup risked') : OnTime(i)'
  BY DEF PollInv
<1>1. ~spliced
  BY DEF Next, User, esp_alarm_add, esp_alarm_delete, esp_alarm_register_trigger_func, esp_get_alarm_info,
         esp_alarm_edit, Second, Poll, PollEvery, VisitEntry, Test, TriggerAbs, SetIdle, updatePerAlarm, TriggerPer,
         Visit, VisitFreed, vars
<1>2. Ordered'
  BY <1>1, NextOrdered DEF PollInv
<1>3. /\ Ordered /\ \A i \in listed \ (unready \cup risked) : OnTime(i)
      /\ listed \subseteq Ids /\ Head = 0 /\ \A i \in Ids \cup {Head} : i \in Nat
      /\ now \in Int /\ \A i \in Ids : alarm[i].date \in Int
      /\ due \in Int /\ due <= 2 /\ at \in Nat
  BY <1>1, IdsFacts DEF PollInv, ListInv, ListType, DateInv, DateType, AnyInfo, PollType, Ids, Head
<1> SUFFICES ASSUME NEW i \in listed', i \notin unready', i \notin risked' PROVE OnTime(i)'
  BY <1>2
<1>4. ASSUME i \in listed, i \notin unready, i \notin risked,
             alarm'[i] = alarm[i], fired'[i] = fired[i], now' = now, due' = due, at' = at, stage' = stage,
             at = i => seen' = seen
      PROVE  OnTime(i)'
  BY <1>3, <1>4 DEF OnTime, Ahead, Under
<1>5. ASSUME NEW type, NEW date, esp_alarm_add(type, date) PROVE OnTime(i)'
  <2>1. /\ i # added + 1 /\ i \in listed /\ i \notin unready /\ i \notin risked
        /\ alarm[i].date \notin {now - 1, now}
    BY <1>5 DEF esp_alarm_add, Postpone, Risk
  <2>2. alarm'[i] = alarm[i] /\ fired' = fired /\ now' = now /\ UNCHANGED pollVars
    BY <1>3, <1>5, <2>1 DEF esp_alarm_add, DateInv, DateType
  <2> QED BY <1>3, <2>1, <2>2 DEF OnTime, Under, pollVars
<1>6. ASSUME NEW k \in Ids, esp_alarm_delete(k) \/ esp_get_alarm_info(k) PROVE OnTime(i)'
  BY <1>4, <1>6 DEF esp_alarm_delete, esp_get_alarm_info, listVars, pollVars
<1>7. ASSUME NEW k \in Ids, esp_alarm_register_trigger_func(k) PROVE OnTime(i)'
  <2>1. /\ alarm' = [alarm EXCEPT ![k].func = TRUE]
        /\ unready' = IF now < alarm[k].date /\ alarm[k].running /\ ~Under(k) THEN unready \ {k} ELSE unready
        /\ UNCHANGED <<now, due, at, stage, seen, listed, fired, risked>>
    BY <1>7 DEF esp_alarm_register_trigger_func, listVars, pollVars
  <2>2. i \in Ids /\ alarm \in [Ids -> AnyInfo]
    BY <1>3, <2>1 DEF DateInv, DateType
  <2>3. CASE i # k
    <3>1. alarm'[i] = alarm[i]
      BY <2>1, <2>2, <2>3
    <3> QED BY <1>4, <2>1, <2>3, <3>1
  <2>4. CASE i = k
    <3>1. alarm'[i].func = TRUE /\ alarm'[i].date = alarm[i].date /\ alarm'[i].type = alarm[i].type
          /\ alarm'[i].running = alarm[i].running
      BY <2>1, <2>2, <2>4 DEF AnyInfo
    <3>2. CASE now < alarm[i].date /\ alarm[i].running /\ ~Under(i)
      <4>1. alarm'[i].running = TRUE
        BY <2>2, <3>1, <3>2 DEF AnyInfo
      <4>2. alarm'[i].date >= now' - 1 /\ alarm'[i].date # now' - 1 /\ alarm'[i].date # now'
        BY <1>3, <2>1, <2>2, <3>1, <3>2
      <4> QED BY <2>1, <3>1, <3>2, <4>1, <4>2 DEF OnTime, Under
    <3>3. CASE ~(now < alarm[i].date /\ alarm[i].running /\ ~Under(i))
      <4>1. OnTime(i)
        BY <1>3, <2>1, <2>4, <3>3
      <4> QED BY <2>1, <3>1, <4>1 DEF OnTime, Ahead, Under
    <3> QED BY <3>2, <3>3
  <2> QED BY <2>3, <2>4
<1>8. ASSUME NEW date \in 0..MaxTime + MaxAhead, esp_alarm_edit(date) PROVE OnTime(i)'
  <2> DEFINE k == copy.id
             ready == now < date /\ copy.info.running /\ copy.info.func /\ ~Under(k)
  <2>1. /\ k \in listed /\ alarm' = [alarm EXCEPT ![k] = [copy.info EXCEPT !.date = date]]
        /\ fired' = [fired EXCEPT ![k] = @ \ {date}]
        /\ unready' = IF ready THEN unready \ {k} ELSE unready \cup {k}
        /\ UNCHANGED <<now, due, at, stage, listed, risked>> /\ seen' = IF at = k THEN None ELSE seen
    BY <1>8 DEF esp_alarm_edit
  <2>2. i \in Ids /\ alarm \in [Ids -> AnyInfo] /\ copy.info \in AnyInfo /\ date \in Int
    BY <1>3, <2>1, AlarmAssumption DEF DateInv, DateType, AnyInfo
  <2>3. CASE i # k
    <3>1. alarm'[i] = alarm[i] /\ fired'[i] = fired[i] /\ (at = i => seen' = seen)
      BY <2>1, <2>2, <2>3 DEF DateInv, DateType
    <3> QED BY <1>4, <2>1, <2>3, <3>1
  <2>4. CASE i = k
    <3>1. ready
      BY <2>1, <2>4
    <3>2. alarm'[i].date = date /\ alarm'[i].running = TRUE /\ alarm'[i].func = TRUE
      BY <2>1, <2>2, <2>4, <3>1 DEF AnyInfo
    <3>3. alarm'[i].date >= now' - 1 /\ alarm'[i].date # now' - 1 /\ alarm'[i].date # now'
      BY <1>3, <2>1, <2>2, <3>1, <3>2
    <3> QED BY <2>1, <2>4, <3>1, <3>2, <3>3 DEF OnTime, Under
  <2> QED BY <2>3, <2>4
<1>9. CASE Second
  <2>1. /\ now' = now + 1 /\ UNCHANGED <<at, stage, seen, listed, alarm, fired, unready>>
        /\ due' = IF added = 0 THEN due ELSE due - 1
        /\ (due <= 0 \/ at # Head) => risked' = risked \cup {j \in listed : alarm[j].date = now - 1}
        /\ (due <= 0 \/ at # Head) \/ risked' = risked
    BY <1>9 DEF Second, listVars, pollVars
  <2>2. i \in listed /\ i >= 1 /\ due' = due - 1 /\ OnTime(i)
    BY <1>3, <2>1 DEF ListInv, ListType, Ids
  <2>3. alarm[i].date \notin fired[i] => alarm[i].date # now - 1
    BY <1>3, <2>1, <2>2 DEF OnTime, Ahead
  <2> QED BY <1>3, <2>1, <2>2, <2>3 DEF OnTime, Ahead, Under
<1>10. CASE Poll
  <2>1. due' = due + 2 /\ at' = next[Head] /\ UNCHANGED <<now, stage, seen, listed, alarm, fired, unready, risked>>
        /\ at = Head
    BY <1>10 DEF Poll, PollEvery, listVars
  <2>2. i <= at'
    BY <1>3, <2>1 DEF Ordered
  <2>3. at' \in Nat
    BY <1>3, <2>1 DEF ListInv, ListType
  <2>4. stage = "test"
    BY <2>1, IdsFacts DEF DateInv, DateType
  <2> QED BY <1>3, <2>1, <2>2, <2>3, <2>4 DEF OnTime, Ahead, Under
<1>11. CASE VisitEntry
  <2>1. /\ at \in listed /\ UNCHANGED <<now, due, listed, unready, risked>>
        /\ Leave \/ at' = at
    BY <1>11 DEF VisitEntry, Test, TriggerAbs, SetIdle, updatePerAlarm, TriggerPer, Visit, listVars
  <2>2. i \in listed /\ OnTime(i) /\ i \in Ids /\ next[at] \in Nat
    BY <1>3, <2>1 DEF ListInv, ListType
  <2>3. CASE i # at
    <3>1. alarm'[i] = alarm[i] /\ fired'[i] = fired[i]
      BY <1>11, <2>2, <2>3 DEF VisitEntry, Test, TriggerAbs, SetIdle, updatePerAlarm, TriggerPer, Trigger, DateInv,
         DateType
    <3>2. CASE Leave
      <4>1. at > i => next[at] >= i
        BY <1>3, <2>1, <2>2 DEF Ordered
      <4>2. Ahead(i) => Ahead(i)'
        BY <1>3, <2>2, <2>3, <3>2, <4>1 DEF Ahead, Leave
      <4>3. ~Under(i)'
        BY <3>2 DEF Under, Leave
      <4> QED BY <1>3, <2>1, <2>2, <3>1, <4>2, <4>3 DEF OnTime
    <3>3. CASE at' = at
      <4>1. (Ahead(i) => Ahead(i)') /\ ~Under(i)'
        BY <2>3, <3>3 DEF Ahead, Under
      <4> QED BY <1>3, <2>1, <2>2, <3>1, <4>1 DEF OnTime
    <3> QED BY <2>1, <3>2, <3>3
  <2>4. CASE i = at
    BY <1>11, <2>1, <2>2, <2>4, VisitOnTime DEF ListInv
  <2> QED BY <2>3, <2>4
<1>12. CASE VisitFreed
  <2>1. /\ i \in listed /\ i \notin unready /\ i \notin risked /\ alarm[i].date \notin {now - 1, now}
        /\ UNCHANGED <<now, due, alarm, fired>> /\ stage' = "test"
    BY <1>12 DEF VisitFreed, Risk, listVars
  <2> QED BY <1>3, <2>1 DEF OnTime, Under
<1>13. CASE UNCHANGED vars
  BY <1>4, <1>13 DEF vars, listVars, pollVars
<1> QED
  BY <1>5, <1>6, <1>7, <1>8, <1>9, <1>10, <1>11, <1>12, <1>13 DEF Next, User

\* For every number of alarms, any period of two seconds or more and polls
\* however late: each date of an alarm whose function was registered before it
\* has one trigger, none and no two, the named exceptions apart.
THEOREM TriggeredOnceHolds == Spec => []TriggeredOnce
<1>1. Init => PollType /\ PollInv
  BY DEF Init, PollType, PollInv, Ordered, Head
<1>2. ListInv /\ DateInv /\ PollInv => TriggeredOnce
  <2> SUFFICES ASSUME ListInv, DateInv, PollInv, ~spliced, NEW i \in listed, Missed(i), i \notin unready \cup risked
               PROVE  FALSE
    BY DEF TriggeredOnce, NotMissed, OncePerDate, DateInv, NotYet
  <2>1. OnTime(i) /\ alarm[i].date \notin fired[i] /\ now > alarm[i].date + 1
    BY DEF PollInv, Missed
  <2>2. i \in Ids
    BY IdsFacts DEF ListInv, ListType
  <2>3. alarm[i].date \in Int /\ now \in Int
    BY <2>2 DEF DateInv, DateType, AnyInfo
  <2>4. alarm[i].date >= now - 1
    BY <2>1 DEF OnTime
  <2> DEFINE d == alarm[i].date
  <2>5. d \in Int /\ d >= now - 1 /\ now > d + 1
    BY <2>1, <2>3, <2>4
  <2> HIDE DEF d
  <2> QED BY <2>3, <2>5
<1> QED
  BY <1>1, <1>2, InitListInv, InitDateInv, NextListInv, NextDateInv, NextPollType, NextPoll, PTL DEF Spec

-----------------------------------------------------------------------------
(* Types, with the bounds of the clock: a date is never further ahead than a *)
(* call may set it or a trigger move it.                                     *)

Timing == now \in 0..MaxTime /\ due \in (-MaxLate)..2
Noted ==
    /\ seen \in Dates \cup {None}
    /\ stage = "move" => alarm[at].date <= MaxTime + MaxAhead
Contents == alarm \in [Ids -> Infos] /\ copy \in Copies /\ fired \in [Ids -> SUBSET Dates]
Histories == unready \subseteq Ids /\ risked \subseteq Ids
Types == Timing /\ Contents /\ Histories /\ Noted

LEMMA DateBounds ==
    ASSUME now \in 0..MaxTime
    PROVE  /\ now..now + MaxAhead \subseteq Dates
           /\ \A date \in Dates : date <= now => date + Per \in Dates
BY AlarmAssumption DEF Dates

LEMMA UserTypes == ListInv /\ DateInv /\ Types /\ User => Types'
<1> SUFFICES ASSUME ListInv, DateInv, Types, User PROVE Types'
    OBVIOUS
<1> USE DEF Types, Histories
<1>0. listed \subseteq Ids /\ next \in [Ids \cup {Head} -> Ids \cup {Head}] /\ prev \in [Ids -> Ids \cup {Head}]
  BY IdsFacts DEF ListInv, ListType
<1>a. ASSUME UNCHANGED <<stage, seen, at>>, stage = "move" => alarm'[at].date = alarm[at].date PROVE Noted'
  BY <1>a DEF Noted
<1>1. ASSUME NEW type \in {"ABS", "PER"}, NEW date \in now..now + MaxAhead, esp_alarm_add(type, date)
      PROVE  Types'
  <2>1. date \in Dates /\ added + 1 \in Ids /\ 2 \in (-MaxLate)..2
    BY <1>1, DateBounds, AlarmAssumption DEF esp_alarm_add, Timing, ListInv, ListType, Ids
  <2>2. [type |-> type, date |-> date, running |-> TRUE, func |-> FALSE] \in Infos
    BY <2>1 DEF Infos
  <2>3. Contents'
    BY <1>1, <2>1, <2>2 DEF esp_alarm_add, Contents
  <2>4. Timing' /\ Histories'
    BY <1>0, <1>1, <2>1 DEF esp_alarm_add, Postpone, Risk, Timing
  <2>5. stage = "move" => at \in Ids /\ at # added + 1
    BY <2>1 DEF DateInv, DateType, ListInv, ListType, Ids
  <2>6. Noted'
    BY <1>1, <1>a, <2>1, <2>5 DEF esp_alarm_add, Contents, pollVars
  <2> QED BY <2>3, <2>4, <2>6
<1>2. ASSUME NEW i \in Ids, esp_alarm_delete(i) PROVE Types'
  BY <1>2 DEF esp_alarm_delete, Timing, Contents, Noted, pollVars
<1>3. ASSUME NEW i \in Ids, esp_alarm_register_trigger_func(i) PROVE Types'
  <2>1. alarm' \in [Ids -> Infos]
    BY <1>3 DEF esp_alarm_register_trigger_func, Contents, Infos
  <2>2. stage = "move" => at \in Ids
    BY DEF DateInv, DateType
  <2>3. Noted'
    BY <1>3, <1>a, <2>2 DEF esp_alarm_register_trigger_func, Contents, Infos, pollVars
  <2> QED BY <1>3, <2>1, <2>3 DEF esp_alarm_register_trigger_func, Timing, Contents
<1>4. ASSUME NEW i \in Ids, esp_get_alarm_info(i) PROVE Types'
  <2>1. copy' \in Copies
    BY <1>0, <1>4 DEF esp_get_alarm_info, Contents, Copies
  <2> QED BY <1>4, <2>1 DEF esp_get_alarm_info, Timing, Contents, Noted, pollVars
<1>5. ASSUME NEW date \in 0..MaxTime + MaxAhead, esp_alarm_edit(date) PROVE Types'
  <2>1. copy.info \in Infos /\ copy.id \in Ids
    BY <1>0, <1>5 DEF esp_alarm_edit, Contents, Copies
  <2>2. date \in Dates /\ date <= MaxTime + MaxAhead
    BY AlarmAssumption DEF Dates
  <2>3. [copy.info EXCEPT !.date = date] \in Infos
    BY <2>1, <2>2 DEF Infos
  <2>4. alarm' \in [Ids -> Infos]
    BY <1>5, <2>1, <2>3 DEF esp_alarm_edit, Contents
  <2>5. fired' \in [Ids -> SUBSET Dates]
    BY <1>5, <2>1 DEF esp_alarm_edit, Contents
  <2>6. unready' \subseteq Ids
    BY <1>5, <2>1 DEF esp_alarm_edit
  <2>7. stage = "move" => at \in Ids
    BY DEF DateInv, DateType
  <2>8. alarm'[copy.id].date = date /\ \A j \in Ids : j # copy.id => alarm'[j] = alarm[j]
    BY <1>5, <2>1 DEF esp_alarm_edit, Contents, Infos
  <2>9. Noted'
    BY <1>5, <2>2, <2>7, <2>8 DEF esp_alarm_edit, Noted
  <2> QED BY <1>5, <2>4, <2>5, <2>6, <2>9 DEF esp_alarm_edit, Timing, Contents
<1> QED BY <1>1, <1>2, <1>3, <1>4, <1>5 DEF User

LEMMA ClockTypes == ListInv /\ DateInv /\ Types /\ (Second \/ Poll) => Types'
<1> SUFFICES ASSUME ListInv, DateInv, Types, Second \/ Poll PROVE Types'
    OBVIOUS
<1> USE DEF Types
<1>0. listed \subseteq Ids
  BY IdsFacts DEF ListInv, ListType
<1>1. CASE Second
  <2>1. now' \in 0..MaxTime
    BY <1>1, AlarmAssumption DEF Second, Timing
  <2>2. due' \in (-MaxLate)..2
    <3>1. due' = due \/ (due' = due - 1 /\ (due <= 0 => due > -MaxLate))
      BY <1>1 DEF Second
    <3> QED BY <3>1, AlarmAssumption DEF Timing
  <2>3. Histories'
    BY <1>0, <1>1 DEF Second, Histories
  <2> QED BY <1>1, <2>1, <2>2, <2>3 DEF Second, Timing, Contents, Noted, pollVars
<1>2. CASE Poll
  <2>1. due <= 0 /\ due' = due + 2
    BY <1>2 DEF Poll, PollEvery
  <2>2. due' \in (-MaxLate)..2
    BY <2>1, AlarmAssumption DEF Timing
  <2>3. stage # "move"
    BY <1>2, IdsFacts DEF Poll, PollEvery, DateInv, DateType
  <2> QED BY <1>2, <2>2, <2>3 DEF Poll, PollEvery, Timing, Contents, Histories, Noted
<1> QED BY <1>1, <1>2

\* The visit moves a date that the user has set, or that was due.
LEMMA VisitTypes == ListInv /\ DateInv /\ Types /\ (VisitEntry \/ VisitFreed) => Types'
<1> SUFFICES ASSUME ListInv, DateInv, Types, VisitEntry \/ VisitFreed PROVE Types'
    OBVIOUS
<1> USE DEF Types
<1>0. listed \subseteq Ids
  BY IdsFacts DEF ListInv, ListType
<1>1. CASE VisitFreed
  BY <1>0, <1>1 DEF VisitFreed, Risk, Timing, Contents, Histories, Noted
<1>2. ASSUME NEW from, Visit(from)
      PROVE  at \in Ids /\ alarm[at] \in Infos /\ Timing' /\ Histories'
  BY <1>0, <1>2 DEF Visit, Timing, Contents, Histories
<1>3. CASE Test
  <2>1. at \in Ids /\ alarm[at] \in Infos /\ Timing' /\ Histories' /\ Contents'
    BY <1>2, <1>3 DEF Test, Visit, Contents
  <2> DEFINE d == alarm[at].date
  <2>2. d \in Dates
    BY <2>1 DEF Infos
  <2>3. CASE InWindow(d)
    <3>1. d <= now
      BY <2>2, <2>3, AlarmAssumption DEF InWindow, Timing, Dates
    <3>2. d <= MaxTime + MaxAhead
      BY <2>2, <3>1, AlarmAssumption DEF Timing, Dates
    <3>3. seen' = d /\ at' = at /\ alarm' = alarm
      BY <1>3, <2>3 DEF Test
    <3> QED BY <2>1, <2>2, <3>2, <3>3 DEF Noted
  <2>4. CASE ~InWindow(d)
    BY <1>3, <2>1, <2>4 DEF Test, Leave, Noted
  <2> QED BY <2>3, <2>4
<1>4. CASE TriggerAbs \/ TriggerPer
  <2>1. at \in Ids /\ alarm' = alarm /\ Timing' /\ Histories' /\ Trigger /\ copy' = copy
        /\ (Leave \/ (stage' = "idle" /\ seen' = seen))
    BY <1>2, <1>4 DEF TriggerAbs, TriggerPer, Visit
  <2>2. fired' \in [Ids -> SUBSET Dates]
    <3>1. CASE seen = None
      BY <2>1, <3>1 DEF Trigger, Contents
    <3>2. CASE seen # None
      <4>1. seen \in Dates
        BY <3>2 DEF Noted
      <4> QED BY <2>1, <4>1 DEF Trigger, Contents
    <3> QED BY <3>1, <3>2
  <2>3. Noted'
    BY <2>1 DEF Noted, Leave
  <2> QED BY <2>1, <2>2, <2>3 DEF Contents
<1>5. CASE SetIdle
  <2>1. at \in Ids /\ alarm[at] \in Infos /\ Timing' /\ Histories' /\ UNCHANGED <<copy, fired>> /\ Leave
    BY <1>2, <1>5 DEF SetIdle, Visit
  <2>2. alarm' \in [Ids -> Infos]
    BY <1>5, <2>1 DEF SetIdle, Contents, Infos
  <2> QED BY <2>1, <2>2 DEF Contents, Noted, Leave
<1>6. CASE updatePerAlarm
  <2> DEFINE e == alarm[at].date + Per
  <2>1. at \in Ids /\ alarm[at] \in Infos /\ Timing' /\ Histories' /\ copy' = copy /\ seen' = seen
        /\ stage = "move" /\ stage' = "ring"
    BY <1>2, <1>6 DEF updatePerAlarm, Visit
  <2>2. e \in Dates
    BY <2>1, AlarmAssumption DEF Noted, Infos, Dates
  <2>3. alarm' \in [Ids -> Infos]
    BY <1>6, <2>1, <2>2 DEF updatePerAlarm, Contents, Infos
  <2>4. fired' \in [Ids -> SUBSET Dates]
    BY <1>6, <2>1 DEF updatePerAlarm, Contents
  <2> QED BY <2>1, <2>3, <2>4 DEF Contents, Noted
<1> QED BY <1>1, <1>3, <1>4, <1>5, <1>6 DEF VisitEntry

\* For any number of alarms, period and bounds of the clock: entries, links and
\* dates stay well typed.
THEOREM TypeCorrect == Spec => []TypeOK
<1>1. Init => PollType /\ Types
  <2> SUFFICES ASSUME Init PROVE PollType /\ Types
    OBVIOUS
  <2>1. NoInfo \in Infos
    BY AlarmAssumption DEF NoInfo, Infos, Dates
  <2>2. NoCopy \in Copies
    BY <2>1 DEF NoCopy, Copies
  <2>3. Contents /\ Histories
    BY <2>1, <2>2 DEF Init, Contents, Histories
  <2>4. Timing /\ PollType /\ Noted
    BY AlarmAssumption DEF Init, Timing, PollType, Noted
  <2> QED BY <2>3, <2>4 DEF Types
<1>2. ListInv /\ DateInv /\ Types /\ [Next]_vars => Types'
  <2> SUFFICES ASSUME ListInv, DateInv, Types, UNCHANGED vars PROVE Types'
    BY UserTypes, ClockTypes, VisitTypes DEF Next
  <2> QED BY DEF vars, pollVars, Types, Timing, Contents, Histories, Noted
<1>3. ListInv /\ DateInv /\ PollType /\ Types => TypeOK
  BY DEF TypeOK, ListInv, ListType, DateInv, DateType, NotYet, PollType, Types, Timing, Contents, Histories, Noted
<1> QED
  BY <1>1, <1>2, <1>3, InitListInv, InitDateInv, NextListInv, NextDateInv, NextPollType, PTL DEF Spec
=============================================================================
