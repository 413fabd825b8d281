-------------------------------- MODULE Alarm --------------------------------
(***************************************************************************)
(* The alarm service (src/components/AlarmService): a linked list of       *)
(* alarms, the calls that change it, and the timer that polls it every two *)
(* seconds for an alarm whose time has come.                               *)
(*                                                                         *)
(* The clock counts seconds and has been set.  A user task makes one call  *)
(* at a time; the timer task walks the list and cuts its visit of an entry *)
(* wherever it reads or writes it.  Neither takes a lock.                  *)
(***************************************************************************)
EXTENDS Integers

CONSTANTS
    MaxAdds,    \* bound: alarms added
    MaxTime,    \* bound: the last second
    MaxAhead,   \* bound: how many seconds ahead an alarm is set
    MaxLate,    \* bound: by how many seconds a poll may be late
    Per         \* the period of a periodic alarm, in seconds

\* A period of one second is missed (see NotMissed), a negative one hangs add.
ASSUME AlarmAssumption == {MaxAdds, MaxTime, MaxAhead, MaxLate} \subseteq Nat /\ Per \in Nat \ {0, 1}

Ids == 1..MaxAdds   \* handles, from g_esp_alarm_last_handle
Head == 0           \* g_esp_alarm_info_head, and the end of the list

VARIABLES
    now,        \* time(), in seconds
    due,        \* seconds until the poll timer expires; the first add creates it
    at,         \* PollTimerCallback: the entry it stands at, Head outside the loop
    stage,      \* and what it does next with that entry
    seen,       \* history: the date it found due, None once an edit has replaced it
    added,      \* g_esp_alarm_last_handle
    listed,     \* entries allocated and in the list
    next, prev, \* the links of each entry, and of the head
    alarm,      \* alarm_info, status and trigger_func of each entry
    copy,       \* the esp_alarm_info that the user got last, with its links
    fired,      \* history: the dates for which each alarm was triggered
    again,      \* history: an alarm was triggered twice for one date
    unready,    \* history: alarms not running, with a function, before their date,
                \* or edited under the poll
    risked,     \* history: alarms that a late or postponed poll may miss
    spliced     \* history: an edit put links back that had changed

listVars == <<added, listed, next, prev>>
pollVars == <<at, stage, seen>>
vars == <<now, due, pollVars, listVars, alarm, copy, fired, again, unready, risked, spliced>>

Dates == 0..MaxTime + MaxAhead + Per
Infos == [type : {"ABS", "PER"}, date : Dates, running : BOOLEAN, func : BOOLEAN]
None == -1
NoInfo == [type |-> "ABS", date |-> 0, running |-> FALSE, func |-> FALSE]
Copies == [id : Ids \cup {Head}, info : Infos, next : Ids \cup {Head}, prev : Ids \cup {Head}]
NoCopy == [id |-> Head, info |-> NoInfo, next |-> Head, prev |-> Head]

TypeOK ==
    /\ now \in 0..MaxTime
    /\ due \in (-MaxLate)..2
    /\ at \in Ids \cup {Head}
    /\ stage \in {"test", "call", "idle", "move", "ring"} /\ seen \in Dates \cup {None}
    /\ added \in 0..MaxAdds
    /\ listed \subseteq 1..added
    /\ next \in [Ids \cup {Head} -> Ids \cup {Head}] /\ prev \in [Ids -> Ids \cup {Head}]
    /\ alarm \in [Ids -> Infos]
    /\ copy \in Copies
    /\ fired \in [Ids -> SUBSET Dates]
    /\ again \in BOOLEAN /\ spliced \in BOOLEAN
    /\ unready \subseteq Ids /\ risked \subseteq Ids

Init ==
    /\ now = 0 /\ due = 2
    /\ at = Head /\ stage = "test" /\ seen = None
    /\ added = 0 /\ listed = {}
    /\ next = [i \in Ids \cup {Head} |-> Head] /\ prev = [i \in Ids |-> Head]
    /\ alarm = [i \in Ids |-> NoInfo]
    /\ copy = NoCopy
    /\ fired = [i \in Ids |-> {}] /\ again = FALSE /\ unready = {} /\ risked = {} /\ spliced = FALSE

-----------------------------------------------------------------------------
(* The user's calls.                                                       *)

\* diffTime(alarm) > 0 is refused: seconds since date - 1.
Accepted(date) == now - (date - 1) <= 0

\* The poll leaves out alarms of this second or the last that it has not seen.
Risk == risked' = risked \cup {i \in listed : alarm[i].date \in {now - 1, now}}

\* xTimerReset: the next poll is two seconds away.
Postpone == due' = 2 /\ Risk

\* LIST_INSERT_HEAD
Insert(i) ==
    /\ next' = [next EXCEPT ![i] = next[Head], ![Head] = i]
    /\ prev' = [j \in Ids |-> IF j = i THEN Head ELSE IF j = next[Head] THEN i ELSE prev[j]]

\* parseAlarm moves a periodic alarm on until its date is accepted.
esp_alarm_add(type, date) ==
    /\ added < MaxAdds /\ Accepted(date)
    /\ added' = added + 1
    /\ listed' = listed \cup {added'}
    /\ Insert(added')
    /\ alarm' = [alarm EXCEPT ![added'] =
                     [type |-> type, date |-> date, running |-> TRUE, func |-> FALSE]]
    /\ Postpone
    /\ unready' = unready \cup {added'}
    /\ UNCHANGED <<now, pollVars, copy, fired, again, spliced>>

RemoveForwards(i) ==    \* mutated form: le_prev of the next entry is not set
    /\ next' = [next EXCEPT ![prev[i]] = next[i]]
    /\ UNCHANGED prev

\* LIST_REMOVE
Remove(i) ==
    /\ next' = [next EXCEPT ![prev[i]] = next[i]]
    /\ prev' = [j \in Ids |-> IF j = next[i] THEN prev[i] ELSE prev[j]]

esp_alarm_delete(i) ==
    /\ i \in listed
    /\ Remove(i)
    /\ listed' = listed \ {i}
    /\ UNCHANGED <<now, due, pollVars, added, alarm, copy, fired, again, unready, risked, spliced>>

\* The poll is about to change the entry: it overwrites what an edit writes.
Under(i) == at = i /\ stage \in {"call", "idle", "move"}

esp_alarm_register_trigger_func(i) ==
    LET ready == now < alarm[i].date /\ alarm[i].running /\ ~Under(i) IN
    /\ i \in listed
    /\ alarm' = [alarm EXCEPT ![i].func = TRUE]
    /\ unready' = IF ready THEN unready \ {i} ELSE unready
    /\ UNCHANGED <<now, due, pollVars, listVars, copy, fired, again, risked, spliced>>

esp_get_alarm_info(i) ==
    /\ i \in listed
    /\ copy' = [id |-> i, info |-> alarm[i], next |-> next[i], prev |-> prev[i]]
    /\ UNCHANGED <<now, due, pollVars, listVars, alarm, fired, again, unready, risked, spliced>>

\* The user changes the date in its copy, and all of the entry is overwritten,
\* the links included.  The loop does not break: it ends at NULL, NOTFOUND is
\* returned, and the timer is not reset.
esp_alarm_edit(date) ==
    LET i == copy.id
        ready == now < date /\ copy.info.running /\ copy.info.func /\ ~Under(i)
    IN /\ i \in listed
       /\ date = copy.info.date \/ Accepted(date)
       /\ alarm' = [alarm EXCEPT ![i] = [copy.info EXCEPT !.date = date]]
       /\ next' = [next EXCEPT ![i] = copy.next]
       /\ prev' = [prev EXCEPT ![i] = copy.prev]
       /\ spliced' = (spliced \/ copy.next # next[i] \/ copy.prev # prev[i])
       /\ fired' = [fired EXCEPT ![i] = @ \ {date}]
       /\ seen' = IF at = i THEN None ELSE seen
       /\ unready' = IF ready THEN unready \ {i} ELSE unready \cup {i}
       /\ UNCHANGED <<now, due, at, stage, added, listed, copy, again, risked>>

-----------------------------------------------------------------------------
(* The clock and the poll.                                                 *)

\* A poll that is late, or that the second ends under, may miss the alarms
\* of the last second.
Second ==
    /\ now < MaxTime
    /\ now' = now + 1
    /\ due' = IF added = 0 THEN due ELSE due - 1
    /\ IF due <= 0 \/ at # Head
       THEN /\ due > -MaxLate /\ MaxLate > 0
            /\ risked' = risked \cup {i \in listed : alarm[i].date = now - 1}
       ELSE UNCHANGED risked
    /\ UNCHANGED <<pollVars, listVars, alarm, copy, fired, again, unready, spliced>>

PollEvery(seconds) ==
    /\ at = Head
    /\ due <= 0
    /\ due' = due + seconds
    /\ at' = next[Head]
    /\ UNCHANGED <<now, stage, seen, listVars, alarm, copy, fired, again, unready, risked, spliced>>

PollSlowly == PollEvery(3)    \* mutated form: a period of three seconds

\* The timer reloads itself.
Poll == PollEvery(2)

InWindowShort(date) == now - (date - 1) \in 1..1    \* mutated form: < 2

\* alarmTrigger: 0 < difference < 3
InWindow(date) == now - (date - 1) \in 1..2

Visit(from) ==
    /\ stage = from
    /\ at \in listed
    /\ UNCHANGED <<now, due, listVars, copy, unready, risked, spliced>>

Leave == at' = next[at] /\ stage' = "test" /\ seen' = None

Test ==
    /\ Visit("test")
    /\ IF InWindow(alarm[at].date)
       THEN /\ stage' = (IF alarm[at].type = "PER" THEN "move" ELSE "call")
            /\ seen' = alarm[at].date
            /\ UNCHANGED at
       ELSE Leave
    /\ UNCHANGED <<alarm, fired, again>>

\* trigger_func is called for the date that was found due.
Trigger ==
    IF alarm[at].func /\ alarm[at].running /\ seen # None
    THEN /\ fired' = [fired EXCEPT ![at] = @ \cup {seen}]
         /\ again' = (again \/ seen \in fired[at])
    ELSE UNCHANGED <<fired, again>>

\* A single alarm that was called is done.
TriggerAbs ==
    /\ Visit("call")
    /\ Trigger
    /\ IF alarm[at].func /\ alarm[at].running
       THEN stage' = "idle" /\ UNCHANGED <<at, seen>>
       ELSE Leave
    /\ UNCHANGED alarm

SetIdle ==
    /\ Visit("idle")
    /\ alarm' = [alarm EXCEPT ![at].running = FALSE]
    /\ Leave
    /\ UNCHANGED <<fired, again>>

\* A periodic alarm moves on, called or not, by a period from whatever date it
\* has now; one that was edited may be called for the date this makes.
updatePerAlarm ==
    LET date == alarm[at].date + Per IN
    /\ Visit("move")
    /\ alarm' = [alarm EXCEPT ![at].date = date]
    /\ fired' = [fired EXCEPT ![at] = IF seen = None THEN @ \ {date} ELSE @]
    /\ stage' = "ring"
    /\ UNCHANGED <<at, seen, again>>

TriggerPer ==
    /\ Visit("ring")
    /\ Trigger
    /\ Leave
    /\ UNCHANGED alarm

\* The entry has been deleted and freed: what is read there is anything; the
\* loop follows the old link or ends.  What it writes there is left out.
VisitFreed ==
    /\ at \in Ids \ listed
    /\ at' \in {next[at], Head} /\ stage' = "test" /\ seen' = None
    /\ Risk
    /\ UNCHANGED <<now, due, listVars, alarm, copy, fired, again, unready, spliced>>

User ==
    \/ \E type \in {"ABS", "PER"}, date \in now..now + MaxAhead : esp_alarm_add(type, date)
    \/ \E i \in Ids :
           \/ esp_alarm_delete(i) \/ esp_alarm_register_trigger_func(i) \/ esp_get_alarm_info(i)
    \/ \E date \in ({copy.info.date} \cup now..now + MaxAhead) \cap 0..MaxTime + MaxAhead :
           esp_alarm_edit(date)

VisitEntry == Test \/ TriggerAbs \/ SetIdle \/ updatePerAlarm \/ TriggerPer

Next == User \/ Second \/ Poll \/ VisitEntry \/ VisitFreed

Spec == Init /\ [][Next]_vars

-----------------------------------------------------------------------------
(* Properties.                                                             *)

\* The list holds each entry once, in the order of insertion, with its links
\* right in both directions, unless an edit wrote old links back.
ListIntact ==
    ~spliced =>
        /\ next[Head] \in listed \cup {Head}
        /\ next[Head] # Head => prev[next[Head]] = Head
        /\ \A i \in listed :
              /\ next[i] \in {j \in listed : j < i} \cup {Head}
              /\ next[i] # Head => prev[next[i]] = i
              /\ prev[i] \in {j \in listed : j > i} \cup {Head}
              /\ next[prev[i]] = i

Missed(i) == now > alarm[i].date + 1 /\ alarm[i].date \notin fired[i]

\* An alarm whose function was registered before its date is triggered: no poll
\* skips its window of two seconds, and no periodic alarm is left behind.  The
\* exceptions are polls that come late, alarms due in the second, or in the one
\* before, in which another is added or the entry under the poll deleted, and
\* alarms edited between the poll's test of their date and its last write to
\* them: the poll then stops them (AlarmService.c:74) or moves the new date on
\* (alarm.c:85).
NotMissed == ~spliced => \A i \in listed : Missed(i) => i \in unready \cup risked

\* No alarm is triggered twice for one date, also when a late poll is followed
\* by one that is in time; a call for a date that an edit has replaced since it
\* was found due is not one for the date of the alarm.
OncePerDate == ~again

\* So each date of a registered alarm has one trigger, not none and not two.
TriggeredOnce == NotMissed /\ OncePerDate
=============================================================================
