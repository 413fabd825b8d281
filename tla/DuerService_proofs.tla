------------------------ MODULE DuerService_proofs -------------------------
(***************************************************************************)
(* What holds of the DuerOS service for every length of its queues: the    *)
(* engine is never started a second time while it runs.  The state that    *)
(* dueros_task keeps lags behind the engine, so the invariant is about     *)
(* what is still in the queue: once the engine has stopped, nothing more   *)
(* of that session follows its QUIT, and the task is idle only after it    *)
(* has taken that QUIT out.                                                *)
(***************************************************************************)
EXTENDS DuerService, WellFoundedInduction, TLAPS

QueueType == queue \in Seq(Cmds)

\* Commands that tell of a session of the engine.
Session == {"CONNECTED", "QUIT"}

\* An idle task: the engine has stopped, and all it said has been read.
IdleMeansStopped ==
    duerState = "IDLE" =>
        /\ engine = "stopped"
        /\ \A i \in 1..Len(queue) : queue[i] \notin Session

\* QUIT is the last word of a session.
QuitIsLast ==
    \A i \in 1..Len(queue) : queue[i] = "QUIT" =>
        /\ engine = "stopped"
        /\ \A j \in 1..Len(queue) : j > i => queue[j] \notin Session

\* While voice is sent the task is not idle.
TalkingIsBusy == task \in {"open", "stream", "close"} => duerState # "IDLE"

IInv ==
    /\ QueueType
    /\ IdleMeansStopped
    /\ QuitIsLast
    /\ TalkingIsBusy
    /\ NoSecondStart

-----------------------------------------------------------------------------
\* Sending a command that tells of no session.
LEMMA SendOther ==
    ASSUME IInv, NEW cmd \in Cmds \ Session, Send(cmd),
           (engine' = engine) \/ (engine # "stopped" /\ engine' = "stopping"),
           UNCHANGED <<duerState, task, restarted>>
    PROVE  IInv'
<1>1. CASE Len(queue) < QueueLen /\ queue' = Append(queue, cmd)
  <2>1. QueueType'
    BY <1>1 DEF IInv, QueueType
  <2>2. /\ Len(queue') = Len(queue) + 1
        /\ \A i \in 1..Len(queue) : queue'[i] = queue[i]
        /\ queue'[Len(queue) + 1] = cmd
    BY <1>1 DEF IInv, QueueType
  <2>3. Len(queue) \in Nat
    BY DEF IInv, QueueType
  <2>4. \A i \in 1..Len(queue') : queue'[i] \in Session =>
            i \in 1..Len(queue) /\ queue[i] = queue'[i]
    BY <2>2, <2>3
  <2>5. IdleMeansStopped'
    BY <2>4 DEF IInv, IdleMeansStopped
  <2>6. QuitIsLast'
    BY <2>4 DEF IInv, QuitIsLast, Session
  <2>7. TalkingIsBusy' /\ NoSecondStart'
    BY DEF IInv, TalkingIsBusy, NoSecondStart
  <2> QED
    BY <2>1, <2>5, <2>6, <2>7 DEF IInv
<1>2. CASE UNCHANGED queue
  <2>1. QueueType' /\ IdleMeansStopped' /\ QuitIsLast'
    BY <1>2 DEF IInv, QueueType, IdleMeansStopped, QuitIsLast
  <2>2. TalkingIsBusy' /\ NoSecondStart'
    BY DEF IInv, TalkingIsBusy, NoSecondStart
  <2> QED
    BY <2>1, <2>2 DEF IInv
<1> QED
  BY <1>1, <1>2 DEF Send

\* A step that touches neither the queue nor what the task believes: the
\* engine stays or is told to stop.
LEMMA Elsewhere ==
    ASSUME IInv, UNCHANGED <<queue, duerState, task, restarted>>,
           (engine' = engine) \/ (engine # "stopped" /\ engine' = "stopping")
    PROVE  IInv'
<1>1. QueueType' /\ IdleMeansStopped' /\ QuitIsLast'
  BY DEF IInv, QueueType, IdleMeansStopped, QuitIsLast
<1>2. TalkingIsBusy' /\ NoSecondStart'
  BY DEF IInv, TalkingIsBusy, NoSecondStart
<1> QED
  BY <1>1, <1>2 DEF IInv

\* What the engine says of its session: only an engine that has not stopped
\* says anything, so no QUIT is waiting.
LEMMA EngineSpeaks ==
    ASSUME IInv, engine # "stopped", NEW cmd \in Session, Send(cmd),
           cmd = "QUIT" => engine' = "stopped",
           UNCHANGED <<duerState, task, restarted>>
    PROVE  IInv'
<1>1. duerState # "IDLE" /\ \A i \in 1..Len(queue) : queue[i] # "QUIT"
  BY DEF IInv, IdleMeansStopped, QuitIsLast
<1>2. IdleMeansStopped'
  BY <1>1 DEF IdleMeansStopped
<1>3. TalkingIsBusy' /\ NoSecondStart'
  BY DEF IInv, TalkingIsBusy, NoSecondStart
<1>4. CASE queue' = Append(queue, cmd)
  <2>1. QueueType'
    BY <1>4 DEF IInv, QueueType, Session, Cmds
  <2>2. /\ Len(queue') = Len(queue) + 1
        /\ \A i \in 1..Len(queue) : queue'[i] = queue[i]
        /\ queue'[Len(queue) + 1] = cmd
        /\ Len(queue) \in Nat
    BY <1>4 DEF IInv, QueueType, Session, Cmds
  <2>3. \A i \in 1..Len(queue') : queue'[i] = "QUIT" =>
            i = Len(queue) + 1 /\ cmd = "QUIT"
    BY <1>1, <2>2
  <2>4. QuitIsLast'
    BY <2>2, <2>3 DEF QuitIsLast
  <2> QED
    BY <1>2, <1>3, <2>1, <2>4 DEF IInv
<1>5. CASE UNCHANGED queue
  <2>1. QueueType' /\ QuitIsLast'
    BY <1>1, <1>5 DEF IInv, QueueType, QuitIsLast
  <2> QED
    BY <1>2, <1>3, <2>1 DEF IInv
<1> QED
  BY <1>4, <1>5 DEF Send

\* Taking a command out of the queue moves the others up.
LEMMA Received ==
    ASSUME IInv, NEW cmd, NEW to, Receive(cmd, to)
    PROVE  /\ QueueType'
           /\ Len(queue') = Len(queue) - 1
           /\ Len(queue) \in Nat
           /\ Len(queue) > 0
           /\ queue[1] = cmd
           /\ \A i \in 1..Len(queue') : queue'[i] = queue[i + 1] /\ i + 1 \in 1..Len(queue)
  BY DEF IInv, QueueType, Receive

\* The rest of the queue still ends with its QUIT.
LEMMA ReceivedQuitIsLast ==
    ASSUME IInv, NEW cmd, NEW to, Receive(cmd, to), UNCHANGED engine
    PROVE  QuitIsLast'
<1>1. /\ Len(queue') = Len(queue) - 1
      /\ Len(queue) \in Nat
      /\ \A i \in 1..Len(queue') : queue'[i] = queue[i + 1] /\ i + 1 \in 1..Len(queue)
  BY Received
<1>2. SUFFICES ASSUME NEW i \in 1..Len(queue'), queue'[i] = "QUIT",
                      NEW j \in 1..Len(queue'), j > i
               PROVE  queue'[j] \notin Session
  <2>1. ASSUME NEW i \in 1..Len(queue'), queue'[i] = "QUIT" PROVE engine' = "stopped"
    BY <1>1, <2>1 DEF IInv, QuitIsLast
  <2> QED
    BY <2>1 DEF QuitIsLast
<1>3. queue[i + 1] = "QUIT" /\ i + 1 \in 1..Len(queue) /\ j + 1 \in 1..Len(queue) /\ j + 1 > i + 1
  BY <1>1, <1>2
<1>4. queue[j + 1] \notin Session
  BY <1>3 DEF IInv, QuitIsLast
<1> QED
  BY <1>1, <1>4

\* A command that leaves the task in its state, or moves it to one that is
\* not idle, and leaves the engine alone.
LEMMA ReceivedOther ==
    ASSUME IInv, NEW cmd, NEW to, Receive(cmd, to),
           UNCHANGED <<engine, restarted>>,
           duerState' = duerState \/ duerState' # "IDLE",
           to = "receive" \/ duerState' # "IDLE"
    PROVE  IInv'
<1>1. QueueType' /\ QuitIsLast'
  BY Received, ReceivedQuitIsLast
<1>2. IdleMeansStopped'
  BY Received DEF IInv, IdleMeansStopped
<1>3. TalkingIsBusy' /\ NoSecondStart'
  BY DEF IInv, TalkingIsBusy, NoSecondStart, Receive
<1> QED
  BY <1>1, <1>2, <1>3 DEF IInv

\* QUIT makes the task idle: it was the last word.
LEMMA ReceivedQuit ==
    ASSUME IInv, NEW to \in {"receive", "gone"}, Receive("QUIT", to),
           UNCHANGED <<engine, restarted>>, duerState' = "IDLE"
    PROVE  IInv'
<1>1. QueueType' /\ QuitIsLast'
  BY Received, ReceivedQuitIsLast
<1>2. /\ Len(queue) \in Nat /\ Len(queue) > 0 /\ queue[1] = "QUIT"
      /\ \A i \in 1..Len(queue') : queue'[i] = queue[i + 1] /\ i + 1 \in 1..Len(queue)
      /\ Len(queue') = Len(queue) - 1
  BY Received
<1>3. engine = "stopped" /\ \A j \in 1..Len(queue) : j > 1 => queue[j] \notin Session
  <2>1. 1 \in 1..Len(queue)
    BY <1>2
  <2> QED
    BY <1>2, <2>1 DEF IInv, QuitIsLast
<1>4. IdleMeansStopped'
  BY <1>2, <1>3 DEF IdleMeansStopped
<1>5. TalkingIsBusy' /\ NoSecondStart'
  BY DEF IInv, TalkingIsBusy, NoSecondStart, Receive
<1> QED
  BY <1>1, <1>4, <1>5 DEF IInv

-----------------------------------------------------------------------------
LEMMA InitInv == Init => IInv
  BY DEF Init, IInv, QueueType, Cmds, IdleMeansStopped, QuitIsLast, TalkingIsBusy, NoSecondStart

\* The engine's own steps, and the notifications.
LEMMA OutsideSteps ==
    ASSUME IInv, EngineStarted \/ EngineStopped \/ Notifications \/ FinishNotification
    PROVE  IInv'
<1>1. CASE EngineStarted
  BY <1>1, EngineSpeaks DEF EngineStarted, cloudVars, Session
<1>2. CASE EngineStopped
  BY <1>2, EngineSpeaks DEF EngineStopped, cloudVars, Session
<1>3. CASE GotIp
  BY <1>3, SendOther DEF GotIp, Note, cloudVars, Session, Cmds
<1>4. CASE LinkLost \/ WifiKey
  BY <1>4, Elsewhere DEF LinkLost, WifiKey, Note, Touch, DuerStop, SendNothing, cloudVars
<1>5. CASE FinishNotification
  BY <1>5, Elsewhere
  DEF FinishNotification, GotIpFlags, LinkLostFlag, WifiKeyFlag, Note, Touch, SendNothing,
      cloudVars
<1> QED
  BY <1>1, <1>2, <1>3, <1>4, <1>5 DEF Notifications

\* The recorder's callback sends START or STOP or nothing.
LEMMA RecorderSteps ==
    ASSUME IInv, RecorderEvents \/ FinishEvent
    PROVE  IInv'
<1>1. CASE VadStart
  BY <1>1, SendOther, Elsewhere DEF VadStart, Recorder, SendNothing, cloudVars, Session, Cmds
<1>2. CASE VadStop \/ WakeUpEnd
  BY <1>2, SendOther, Elsewhere
  DEF VadStop, WakeUpEnd, SendStop, Recorder, SendNothing, cloudVars, Session, Cmds
<1>3. CASE WakeUp \/ FinishEvent
  BY <1>3, Elsewhere
  DEF WakeUp, FinishEvent, ClearSentStop, RaiseSentStop, Recorder, SendNothing, cloudVars
<1> QED
  BY <1>1, <1>2, <1>3 DEF RecorderEvents

LEMMA TimerTaskSteps ==
    ASSUME IInv, TimerSteps
    PROVE  IInv'
<1>1. CASE RetryLogin
  BY <1>1, SendOther DEF RetryLogin, TimerTask, cloudVars, Session, Cmds
<1>2. CASE TimerFires \/ StopTimer \/ TimerCommand
  BY <1>2, Elsewhere DEF TimerFires, StopTimer, TimerCommand, TimerTask, SendNothing, cloudVars
<1> QED
  BY <1>1, <1>2 DEF TimerSteps

\* LOGIN is the one command that may start the engine, and an idle task knows
\* that it has stopped.
LEMMA LoginStep ==
    ASSUME IInv, Login
    PROVE  IInv'
<1>1. engine = "stopped" /\ \A i \in 1..Len(queue) : queue[i] \notin Session
  BY DEF Login, IInv, IdleMeansStopped
<1>2. Receive("LOGIN", "receive") /\ duerState' = "CONNECTING"
  BY DEF Login
<1>3. QueueType'
  BY <1>2, Received
<1>4. \A i \in 1..Len(queue') : queue'[i] \notin Session
  BY <1>1, <1>2, Received
<1>5. QuitIsLast' /\ IdleMeansStopped'
  BY <1>2, <1>4 DEF QuitIsLast, IdleMeansStopped, Session
<1>6. TalkingIsBusy'
  BY <1>2 DEF TalkingIsBusy, Receive
<1>7. NoSecondStart'
  BY <1>1 DEF Login, IInv, NoSecondStart
<1> QED
  BY <1>3, <1>5, <1>6, <1>7 DEF IInv

LEMMA DuerTaskSteps ==
    ASSUME IInv, DuerTask
    PROVE  IInv'
<1>1. CASE Login
  BY <1>1, LoginStep
<1>2. CASE RefuseLogin \/ Connected
  BY <1>2, ReceivedOther DEF RefuseLogin, Connected
<1>3. CASE StartVoice
  BY <1>3, ReceivedOther DEF StartVoice
<1>4. CASE StopVoice
  BY <1>4, ReceivedOther DEF StopVoice
<1>5. CASE VoiceStarted \/ StreamEnds \/ VoiceStopped
  <2>1. QueueType' /\ QuitIsLast' /\ NoSecondStart'
    BY <1>5
    DEF VoiceStarted, StreamEnds, VoiceStopped, Talk, SendNothing, IInv, QueueType, QuitIsLast,
        NoSecondStart
  <2>2. IdleMeansStopped' /\ TalkingIsBusy'
    BY <1>5
    DEF VoiceStarted, StreamEnds, VoiceStopped, Talk, SendNothing, IInv, IdleMeansStopped,
        TalkingIsBusy
  <2> QED
    BY <2>1, <2>2 DEF IInv
<1>6. CASE QuitForSetting \/ QuitAndRetry \/ QuitForGood
  BY <1>6, ReceivedQuit DEF QuitForSetting, QuitAndRetry, QuitForGood
<1> QED
  BY <1>1, <1>2, <1>3, <1>4, <1>5, <1>6 DEF DuerTask

LEMMA NextInv == IInv /\ [Next]_vars => IInv'
<1> SUFFICES ASSUME IInv, [Next]_vars
             PROVE  IInv'
  OBVIOUS
<1>1. CASE Next
  BY <1>1, OutsideSteps, RecorderSteps, TimerTaskSteps, DuerTaskSteps DEF Next
<1>2. CASE UNCHANGED vars
  BY <1>2, Elsewhere DEF vars, cloudVars
<1> QED
  BY <1>1, <1>2

\* Whatever commands are lost and however late the others are handled,
\* duer_start is never called on an engine that has not stopped
\* (DuerAppService.c:369-376, 248-281).
THEOREM NoSecondStartHolds == Spec => []NoSecondStart
<1>1. IInv => NoSecondStart
  BY DEF IInv
<1> QED
  BY InitInv, NextInv, <1>1, PTL DEF Spec

-----------------------------------------------------------------------------
(* The flag of the recorder.  STOP is sent before it is raised, START before *)
(* it is cleared: while it is up, or about to be, every START that waits has *)
(* a STOP behind it, and so have a voice that is being opened and one that   *)
(* is being sent; unless a STOP was lost.                                    *)

FlagUp ==
    /\ recorder = "raise" \/ (sentStop = TRUE /\ recorder = "idle")
    /\ "STOP" \notin dropped

StartHasStop ==
    \A i \in DOMAIN queue : queue[i] = "START" =>
        \E j \in DOMAIN queue : j > i /\ queue[j] = "STOP"

StopInv ==
    /\ sentStop \in BOOLEAN
    /\ FlagUp => /\ StartHasStop
                 /\ task = "open" => Pending("STOP")
                 /\ duerState = "START" => Pending("STOP") \/ task = "close"

\* What a send leaves in the queue.
LEMMA Sent ==
    ASSUME QueueType, NEW cmd \in Cmds, Send(cmd)
    PROVE  /\ \A i \in DOMAIN queue : i \in DOMAIN queue' /\ queue'[i] = queue[i]
           /\ \A i \in DOMAIN queue' : i \in DOMAIN queue \/ queue'[i] = cmd
           /\ "STOP" \notin dropped' => "STOP" \notin dropped
<1>1. CASE Len(queue) < QueueLen
  BY <1>1 DEF QueueType, Send
<1>2. CASE ~(Len(queue) < QueueLen)
  BY <1>2 DEF QueueType, Send
<1> QED BY <1>1, <1>2

\* A STOP that is sent follows every START, or is lost.
LEMMA SentStop ==
    ASSUME QueueType, Send("STOP"), "STOP" \notin dropped'
    PROVE  StartHasStop' /\ Pending("STOP")'
<1>1. Len(queue) < QueueLen /\ queue' = Append(queue, "STOP")
  BY DEF Send
<1>2. /\ Len(queue) + 1 \in DOMAIN queue' /\ queue'[Len(queue) + 1] = "STOP"
      /\ \A i \in DOMAIN queue' : i < Len(queue) + 1 \/ queue'[i] = "STOP"
  BY <1>1 DEF QueueType, Cmds
<1>3. Pending("STOP")'
  BY <1>2 DEF Pending
<1> QED BY <1>2, <1>3 DEF StartHasStop

\* Other sends put no START in the queue.
LEMMA SentOther ==
    ASSUME QueueType, StopInv, NEW cmd \in Cmds \ {"START"}, Send(cmd),
           UNCHANGED <<sentStop, recorder, task, duerState>>
    PROVE  StopInv'
<1>1. /\ \A i \in DOMAIN queue : i \in DOMAIN queue' /\ queue'[i] = queue[i]
      /\ \A i \in DOMAIN queue' : i \in DOMAIN queue \/ queue'[i] = cmd
      /\ "STOP" \notin dropped' => "STOP" \notin dropped
  BY Sent
<1>2. FlagUp' => FlagUp
  BY <1>1 DEF FlagUp
<1>3. Pending("STOP") => Pending("STOP")'
  BY <1>1 DEF Pending
<1>4. StartHasStop => StartHasStop'
  BY <1>1 DEF StartHasStop
<1> QED BY <1>2, <1>3, <1>4 DEF StopInv

LEMMA NothingSent ==
    ASSUME StopInv, UNCHANGED <<queue, dropped, sentStop, recorder, task, duerState>>
    PROVE  StopInv'
BY DEF StopInv, FlagUp, StartHasStop, Pending

LEMMA RecorderStop ==
    ASSUME QueueType, StopInv, RecorderEvents \/ FinishEvent
    PROVE  StopInv'
<1>1. CASE WakeUp
  BY <1>1, NothingSent DEF WakeUp, Recorder, SendNothing, cloudVars
<1>2. CASE VadStart
  <2>1. CASE wifiConnected
    BY <1>2, <2>1 DEF VadStart, Recorder, StopInv, FlagUp
  <2>2. CASE ~wifiConnected
    BY <1>2, <2>2, NothingSent DEF VadStart, Recorder, SendNothing, cloudVars
  <2> QED BY <2>1, <2>2
<1>3. CASE VadStop \/ WakeUpEnd
  <2>1. SendStop("idle") /\ UNCHANGED sentStop
    BY <1>3 DEF VadStop, WakeUpEnd
  <2>2. CASE Recorder("idle", "raise") /\ Send("STOP")
    <3>1. FlagUp' => StartHasStop' /\ Pending("STOP")'
      BY <2>2, SentStop DEF FlagUp
    <3> QED BY <2>1, <3>1 DEF StopInv
  <2>3. CASE Recorder("idle", "idle") /\ SendNothing
    BY <2>1, <2>3, NothingSent DEF Recorder, SendNothing, cloudVars
  <2> QED BY <2>1, <2>2, <2>3 DEF SendStop
<1>4. CASE ClearSentStop
  BY <1>4 DEF ClearSentStop, Recorder, StopInv, FlagUp
<1>5. CASE RaiseSentStop
  <2>1. UNCHANGED <<queue, dropped, task, duerState>> /\ recorder = "raise" /\ sentStop' = TRUE
    BY <1>5 DEF RaiseSentStop, Recorder, SendNothing, cloudVars
  <2> QED BY <2>1 DEF StopInv, FlagUp, StartHasStop, Pending
<1> QED BY <1>1, <1>2, <1>3, <1>4, <1>5 DEF RecorderEvents, FinishEvent

\* A command that is taken was before all others.
LEMMA TakenStop ==
    ASSUME IInv, StopInv, NEW cmd, NEW to, Receive(cmd, to)
    PROVE  /\ UNCHANGED <<dropped, sentStop, recorder>> /\ task = "receive" /\ task' = to
           /\ StartHasStop => StartHasStop'
           /\ cmd # "STOP" /\ Pending("STOP") => Pending("STOP")'
           /\ cmd = "START" /\ StartHasStop => Pending("STOP")'
<1>1. /\ Len(queue) \in Nat /\ Len(queue) > 0 /\ queue[1] = cmd
      /\ Len(queue') = Len(queue) - 1
      /\ \A i \in 1..Len(queue') : queue'[i] = queue[i + 1] /\ i + 1 \in 1..Len(queue)
      /\ queue \in Seq(Cmds) /\ queue' \in Seq(Cmds)
  BY Received DEF IInv, QueueType
<1>2. /\ DOMAIN queue = 1..Len(queue) /\ DOMAIN queue' = 1..Len(queue')
      /\ \A j \in DOMAIN queue : j # 1 => j - 1 \in DOMAIN queue' /\ queue'[j - 1] = queue[j]
  <2>1. DOMAIN queue = 1..Len(queue) /\ DOMAIN queue' = 1..Len(queue')
    BY <1>1
  <2>2. ASSUME NEW j \in DOMAIN queue, j # 1
        PROVE  j - 1 \in DOMAIN queue' /\ queue'[j - 1] = queue[j]
    <3>1. j - 1 \in 1..Len(queue') /\ (j - 1) + 1 = j
      BY <1>1, <2>1, <2>2
    <3> QED BY <1>1, <2>1, <3>1
  <2> QED BY <2>1, <2>2
<1>3. ASSUME StartHasStop PROVE StartHasStop'
  <2> SUFFICES ASSUME NEW i \in DOMAIN queue', queue'[i] = "START"
               PROVE  \E j \in DOMAIN queue' : j > i /\ queue'[j] = "STOP"
    BY DEF StartHasStop
  <2>1. i \in Nat /\ i >= 1 /\ i + 1 \in DOMAIN queue /\ queue[i + 1] = "START"
    BY <1>1, <1>2
  <2>2. PICK j \in DOMAIN queue : j > i + 1 /\ queue[j] = "STOP"
    BY <1>3, <2>1 DEF StartHasStop
  <2>3. j # 1 /\ j - 1 > i
    BY <1>1, <1>2, <2>1, <2>2
  <2> QED BY <1>2, <2>2, <2>3
<1>4. ASSUME cmd # "STOP", Pending("STOP") PROVE Pending("STOP")'
  <2>1. PICK j \in DOMAIN queue : queue[j] = "STOP"
    BY <1>4 DEF Pending
  <2>2. j # 1
    BY <1>1, <1>4, <2>1
  <2> QED BY <1>2, <2>1, <2>2 DEF Pending
<1>5. ASSUME cmd = "START", StartHasStop PROVE Pending("STOP")'
  <2>1. 1 \in DOMAIN queue /\ queue[1] = "START"
    BY <1>1, <1>2, <1>5
  <2>2. PICK j \in DOMAIN queue : j > 1 /\ queue[j] = "STOP"
    BY <1>5, <2>1 DEF StartHasStop
  <2>3. j # 1
    BY <1>1, <1>2, <2>2
  <2> QED BY <1>2, <2>2, <2>3 DEF Pending
<1> QED BY <1>3, <1>4, <1>5 DEF Receive, recorderVars

LEMMA TaskStop ==
    ASSUME IInv, StopInv, DuerTask
    PROVE  StopInv'
<1>1. ASSUME NEW cmd \in Cmds \ {"START", "STOP"}, NEW to \in {"receive", "gone"}, Receive(cmd, to),
             duerState' = duerState \/ duerState' # "START"
      PROVE  StopInv'
  BY <1>1, TakenStop DEF StopInv, FlagUp
<1>2. CASE Login \/ RefuseLogin \/ Connected \/ QuitForSetting \/ QuitAndRetry \/ QuitForGood
  BY <1>1, <1>2 DEF Login, RefuseLogin, Connected, QuitForSetting, QuitAndRetry, QuitForGood, Cmds
<1>3. CASE StartVoice
  <2>1. PICK to \in {"receive", "open"} : Receive("START", to)
    BY <1>3 DEF StartVoice
  <2>2. duerState' = duerState
    BY <1>3 DEF StartVoice
  <2> QED BY <2>1, <2>2, TakenStop DEF StopInv, FlagUp
<1>4. CASE StopVoice
  <2>1. PICK to \in {"receive", "close"} : Receive("STOP", to) /\ (duerState = "START" => to = "close")
    BY <1>4 DEF StopVoice
  <2>2. duerState' = duerState
    BY <1>4 DEF StopVoice
  <2> QED BY <2>1, <2>2, TakenStop DEF StopInv, FlagUp
<1>5. CASE VoiceStarted \/ StreamEnds \/ VoiceStopped
  BY <1>5 DEF VoiceStarted, StreamEnds, VoiceStopped, Talk, SendNothing, recorderVars,
              StopInv, FlagUp, StartHasStop, Pending
<1> QED BY <1>2, <1>3, <1>4, <1>5 DEF DuerTask

LEMMA OthersStop ==
    ASSUME QueueType, StopInv,
           EngineStarted \/ EngineStopped \/ Notifications \/ FinishNotification \/ TimerSteps
    PROVE  StopInv'
<1>1. CASE EngineStarted \/ EngineStopped
  BY <1>1, SentOther DEF EngineStarted, EngineStopped, cloudVars, recorderVars, Cmds
<1>2. CASE GotIp \/ RetryLogin
  BY <1>2, SentOther DEF GotIp, Note, RetryLogin, TimerTask, cloudVars, recorderVars, Cmds
<1>3. CASE LinkLost \/ WifiKey \/ FinishNotification
  BY <1>3, NothingSent
  DEF LinkLost, WifiKey, FinishNotification, GotIpFlags, LinkLostFlag, WifiKeyFlag, Note, Touch,
      SendNothing, cloudVars, recorderVars
<1>4. CASE TimerFires \/ StopTimer \/ TimerCommand
  BY <1>4, NothingSent
  DEF TimerFires, StopTimer, TimerCommand, TimerTask, SendNothing, cloudVars, recorderVars
<1> QED BY <1>1, <1>2, <1>3, <1>4 DEF Notifications, TimerSteps

\* For every length of the queues: the flag that keeps a second STOP from being
\* sent is only up while the first is still to be handled, or was lost
\* (DuerAppService.c:151-167).
THEOREM StopFlagHonestHolds == Spec => []StopFlagHonest
<1>1. Init => StopInv
  BY DEF Init, StopInv, FlagUp
<1>2. IInv /\ StopInv /\ [Next]_vars => StopInv'
  <2> SUFFICES ASSUME IInv, StopInv, [Next]_vars PROVE StopInv'
    OBVIOUS
  <2>1. QueueType
    BY DEF IInv
  <2>2. CASE Next
    BY <2>1, <2>2, RecorderStop, TaskStop, OthersStop DEF Next
  <2>3. CASE UNCHANGED vars
    BY <2>3, NothingSent DEF vars, cloudVars, recorderVars
  <2> QED BY <2>2, <2>3
<1>3. StopInv => StopFlagHonest
  BY DEF StopInv, FlagUp, StopFlagHonest
<1> QED
  BY InitInv, NextInv, <1>1, <1>2, <1>3, PTL DEF Spec

-----------------------------------------------------------------------------
(* Types.                                                                    *)

CloudTypes ==
    /\ duerState \in DuerStates
    /\ retryNum \in 1..(2 * MaxRetryNum)
    /\ task \in {"receive", "open", "stream", "close", "gone"}
    /\ engine \in {"stopped", "starting", "started", "stopping"}
    /\ restarted \in BOOLEAN
    /\ ended \in 0..EndCap
    /\ missed \in BOOLEAN

QueueTypes ==
    /\ queue \in Seq(Cmds) /\ Len(queue) <= QueueLen
    /\ timerq \in Seq({"start", "stop"}) /\ Len(timerq) <= TimerQueueLen
    /\ dropped \subseteq Cmds

TaskTypes ==
    /\ setWifiFlag \in BOOLEAN /\ wifiConnected \in BOOLEAN /\ sentStop \in BOOLEAN
    /\ timer \in BOOLEAN
    /\ timerTask \in {"idle", "login", "stop"}
    /\ notifier \in {"idle", "gotip", "lost"}
    /\ touch \in {"idle", "flag"}
    /\ notes \in 0..MaxNotes
    /\ awake \in BOOLEAN /\ voice \in BOOLEAN
    /\ recorder \in {"idle", "clear", "raise"}

LEMMA CloudTypesInit == Init => CloudTypes
<1>1. 1 \in 1..(2 * MaxRetryNum) /\ 0 \in 0..(2 * MaxRetryNum)
  BY ServiceAssumption
<1> QED
  BY <1>1 DEF Init, CloudTypes, DuerStates, EndCap

LEMMA CloudTypesStep ==
    ASSUME CloudTypes, [Next]_vars
    PROVE  CloudTypes'
<1> USE ServiceAssumption DEF CloudTypes, DuerStates, EndCap, sessionVars
<1>1. CASE DuerTask
  <2>1. CASE Login
    BY <2>1 DEF Login, Receive
  <2>2. CASE RefuseLogin \/ Connected \/ StartVoice \/ StopVoice
    BY <2>2 DEF RefuseLogin, Connected, StartVoice, StopVoice, Receive
  <2>3. CASE VoiceStarted \/ StreamEnds \/ VoiceStopped
    BY <2>3 DEF VoiceStarted, StreamEnds, VoiceStopped, Talk
  <2>4. CASE QuitForSetting \/ QuitAndRetry \/ QuitForGood
    BY <2>4 DEF QuitForSetting, QuitAndRetry, QuitForGood, Receive
  <2> QED
    BY <1>1, <2>1, <2>2, <2>3, <2>4 DEF DuerTask
<1>2. CASE EngineStarted \/ EngineStopped \/ Notifications \/ FinishNotification
  <2>1. CASE EngineStarted
    <3>1. missed' \in BOOLEAN
      BY <2>1 DEF EngineStarted
    <3> QED BY <2>1, <3>1 DEF EngineStarted, cloudVars
  <2>2. CASE EngineStopped
    BY <2>2 DEF EngineStopped, cloudVars
  <2>3. CASE Notifications \/ FinishNotification
    BY <2>3 DEF Notifications, FinishNotification, GotIp, GotIpFlags, LinkLost, LinkLostFlag, WifiKey,
       WifiKeyFlag, Note, Touch, DuerStop, cloudVars
  <2> QED BY <1>2, <2>1, <2>2, <2>3
<1>3. CASE RecorderEvents \/ FinishEvent \/ TimerSteps \/ UNCHANGED vars
  <2>1. UNCHANGED <<cloudVars, engine, sessionVars>>
    BY <1>3 DEF RecorderEvents, FinishEvent, TimerSteps, WakeUp, VadStart, VadStop, WakeUpEnd,
       SendStop, ClearSentStop, RaiseSentStop, Recorder, TimerFires, RetryLogin, StopTimer,
       TimerCommand, TimerTask, vars
  <2> QED
    BY <2>1 DEF cloudVars
<1> QED
  BY <1>1, <1>2, <1>3 DEF Next

LEMMA QueueTypesStep ==
    ASSUME QueueTypes, [Next]_vars
    PROVE  QueueTypes'
<1>1. ASSUME NEW cmd \in Cmds, Send(cmd) PROVE queue' \in Seq(Cmds) /\ Len(queue') <= QueueLen /\ dropped' \subseteq Cmds
  <2>1. queue \in Seq(Cmds) /\ Len(queue) <= QueueLen /\ dropped \subseteq Cmds
    BY DEF QueueTypes
  <2>2. CASE Len(queue) < QueueLen
    <3>1. queue' = Append(queue, cmd) /\ dropped' = dropped
      BY <1>1, <2>2 DEF Send
    <3>2. queue' \in Seq(Cmds) /\ Len(queue') = Len(queue) + 1 /\ Len(queue) \in Nat
      BY <2>1, <3>1
    <3> QED BY <2>1, <2>2, <3>1, <3>2, ServiceAssumption
  <2>3. CASE ~(Len(queue) < QueueLen)
    <3>1. queue' = queue /\ dropped' = dropped \cup {cmd}
      BY <1>1, <2>3 DEF Send
    <3> QED BY <2>1, <3>1
  <2> QED BY <2>2, <2>3
<1>2. SendNothing => queue' \in Seq(Cmds) /\ Len(queue') <= QueueLen /\ dropped' \subseteq Cmds
  BY DEF SendNothing, QueueTypes
<1>3. ASSUME NEW cmd, NEW to, Receive(cmd, to)
      PROVE  queue' \in Seq(Cmds) /\ Len(queue') <= QueueLen /\ dropped' \subseteq Cmds
  BY <1>3, ServiceAssumption DEF Receive, QueueTypes
<1>4. queue' \in Seq(Cmds) /\ Len(queue') <= QueueLen /\ dropped' \subseteq Cmds
  <2>1. CASE EngineStarted \/ EngineStopped \/ Notifications \/ FinishNotification
    BY <1>1, <1>2, <2>1 DEF EngineStarted, EngineStopped, Notifications, FinishNotification, GotIp,
       GotIpFlags, LinkLost, LinkLostFlag, WifiKey, WifiKeyFlag, Touch, Cmds
  <2>2. CASE RecorderEvents \/ FinishEvent
    BY <1>1, <1>2, <2>2 DEF RecorderEvents, FinishEvent, WakeUp, VadStart, VadStop, WakeUpEnd,
       SendStop, ClearSentStop, RaiseSentStop, Cmds
  <2>3. CASE TimerSteps
    BY <1>1, <1>2, <2>3 DEF TimerSteps, TimerFires, RetryLogin, StopTimer, TimerCommand, Cmds
  <2>4. CASE DuerTask
    BY <1>2, <1>3, <2>4 DEF DuerTask, Login, RefuseLogin, Connected, StartVoice, StopVoice,
       VoiceStarted, StreamEnds, VoiceStopped, Talk, QuitForSetting, QuitAndRetry, QuitForGood
  <2>5. CASE UNCHANGED vars
    BY <2>5 DEF vars, QueueTypes
  <2> QED
    BY <2>1, <2>2, <2>3, <2>4, <2>5 DEF Next
<1>5. timerq' \in Seq({"start", "stop"}) /\ Len(timerq') <= TimerQueueLen
  <2>1. CASE UNCHANGED timerq
    BY <2>1 DEF QueueTypes
  <2>2. CASE StopTimer
    BY <2>2, ServiceAssumption DEF StopTimer, QueueTypes
  <2>3. CASE TimerCommand
    BY <2>3, ServiceAssumption DEF TimerCommand, QueueTypes
  <2>4. CASE QuitAndRetry \/ QuitForGood
    <3>1. Len(timerq) < TimerQueueLen /\ \E c \in {"start", "stop"} : timerq' = Append(timerq, c)
      BY <2>4 DEF QuitAndRetry, QuitForGood
    <3> QED
      BY <3>1, ServiceAssumption DEF QueueTypes
  <2>5. EngineStarted \/ EngineStopped \/ Notifications \/ FinishNotification => UNCHANGED timerq
    BY DEF EngineStarted, EngineStopped, Notifications, FinishNotification, GotIp,
       GotIpFlags, LinkLost, LinkLostFlag, WifiKey, WifiKeyFlag, Note, Touch
  <2>6. RecorderEvents \/ FinishEvent => UNCHANGED timerq
    BY DEF RecorderEvents, FinishEvent, WakeUp, VadStart, VadStop, WakeUpEnd, SendStop,
       ClearSentStop, RaiseSentStop, Recorder
  <2>7. TimerFires \/ RetryLogin \/ UNCHANGED vars => UNCHANGED timerq
    BY DEF TimerFires, RetryLogin, vars
  <2>8. DuerTask => UNCHANGED timerq \/ QuitAndRetry \/ QuitForGood
    BY DEF DuerTask, Login, RefuseLogin, Connected, StartVoice, StopVoice, VoiceStarted,
       StreamEnds, VoiceStopped, Talk, QuitForSetting
  <2> QED
    BY <2>1, <2>2, <2>3, <2>4, <2>5, <2>6, <2>7, <2>8 DEF Next, TimerSteps
<1> QED
  BY <1>4, <1>5 DEF QueueTypes

LEMMA TaskTypesStep ==
    ASSUME TaskTypes, [Next]_vars
    PROVE  TaskTypes'
<1> USE ServiceAssumption DEF TaskTypes
<1>1. CASE UNCHANGED <<flagVars, timerVars, noteVars, recorderVars>>
  BY <1>1 DEF flagVars, timerVars, noteVars, recorderVars
<1>2. CASE Notifications \/ FinishNotification
  <2>1. UNCHANGED <<timerVars, recorderVars>>
    BY <1>2 DEF Notifications, FinishNotification, GotIp, GotIpFlags, LinkLost, LinkLostFlag,
       WifiKey, WifiKeyFlag, Note, Touch
  <2>2. notes' \in 0..MaxNotes
    BY <1>2 DEF Notifications, FinishNotification, GotIp, GotIpFlags, LinkLost, LinkLostFlag,
       WifiKey, WifiKeyFlag
  <2>3. setWifiFlag' \in BOOLEAN /\ wifiConnected' \in BOOLEAN
    BY <1>2 DEF Notifications, FinishNotification, GotIp, GotIpFlags, LinkLost, LinkLostFlag,
       WifiKey, WifiKeyFlag, Touch, flagVars
  <2>4. notifier' \in {"idle", "gotip", "lost"} /\ touch' \in {"idle", "flag"}
    BY <1>2 DEF Notifications, FinishNotification, GotIp, GotIpFlags, LinkLost, LinkLostFlag,
       WifiKey, WifiKeyFlag, Note, Touch
  <2> QED
    BY <2>1, <2>2, <2>3, <2>4 DEF timerVars, recorderVars
<1>3. CASE RecorderEvents \/ FinishEvent
  <2>1. UNCHANGED <<flagVars, timerVars, noteVars>>
    BY <1>3 DEF RecorderEvents, FinishEvent, WakeUp, VadStart, VadStop, WakeUpEnd, SendStop,
       ClearSentStop, RaiseSentStop, Recorder
  <2>2. recorder' \in {"idle", "clear", "raise"}
    BY <1>3 DEF RecorderEvents, FinishEvent, WakeUp, VadStart, VadStop, WakeUpEnd, SendStop,
       ClearSentStop, RaiseSentStop, Recorder
  <2>3. {awake', voice', sentStop'} \subseteq BOOLEAN
    BY <1>3 DEF RecorderEvents, FinishEvent, WakeUp, VadStart, VadStop, WakeUpEnd, ClearSentStop,
       RaiseSentStop
  <2> QED
    BY <2>1, <2>2, <2>3 DEF flagVars, timerVars, noteVars
<1>4. CASE TimerSteps
  BY <1>4 DEF TimerSteps, TimerFires, RetryLogin, StopTimer, TimerCommand, TimerTask, flagVars,
     noteVars, recorderVars
<1>5. EngineStarted \/ EngineStopped \/ DuerTask \/ UNCHANGED vars
      => UNCHANGED <<flagVars, timerVars, noteVars, recorderVars>>
  BY DEF EngineStarted, EngineStopped, DuerTask, Login, RefuseLogin, Connected, StartVoice,
     StopVoice, Receive, VoiceStarted, StreamEnds, VoiceStopped, Talk, QuitForSetting,
     QuitAndRetry, QuitForGood, vars
<1> QED
  BY <1>1, <1>2, <1>3, <1>4, <1>5 DEF Next

\* The queues keep to their lengths, the retry period to its limit and the
\* places of the tasks to those of the code, for every length and limit.
THEOREM TypeCorrect == Spec => []TypeOK
<1>1. Init => CloudTypes /\ QueueTypes /\ TaskTypes
  <2>1. Init => CloudTypes
    BY CloudTypesInit
  <2>2. Init => QueueTypes
    BY ServiceAssumption DEF Init, QueueTypes
  <2>3. Init => TaskTypes
    <3>1. 0 \in 0..MaxNotes
      BY ServiceAssumption
    <3> QED
      BY <3>1 DEF Init, TaskTypes
  <2> QED
    BY <2>1, <2>2, <2>3
<1>2. CloudTypes /\ QueueTypes /\ TaskTypes /\ [Next]_vars => (CloudTypes /\ QueueTypes /\ TaskTypes)'
  BY CloudTypesStep, QueueTypesStep, TaskTypesStep
<1>3. CloudTypes /\ QueueTypes /\ TaskTypes => TypeOK
  BY DEF CloudTypes, QueueTypes, TaskTypes, TypeOK
<1> QED
  BY <1>1, <1>2, <1>3, PTL DEF Spec

-----------------------------------------------------------------------------
(* Giving up.  The library's induction takes its statement as an operator,   *)
(* so induction is by the least number for which a statement fails.          *)

\* A nonempty set of natural numbers has a least member: with it, a statement
\* that fails for a number fails for a least one.
LEMMA LeastOfNats == ASSUME NEW S \in SUBSET Nat, S # {} PROVE \E x \in S : \A y \in S : x <= y
<1> DEFINE R == {ss \in Nat \X Nat : ss[1] < ss[2]}
<1>1. IsWellFoundedOn(R, Nat)
  BY NatLessThanWellFounded DEF OpToRel
<1>2. PICK x \in S : \A y \in S : <<y, x>> \notin R
  <2> HIDE DEF R
  <2> QED BY <1>1, WFMin
<1>3. \A y \in S : x <= y
  <2> SUFFICES ASSUME NEW y \in S PROVE ~(y < x)
    OBVIOUS
  <2>1. y < x => <<y, x>> \in R
    OBVIOUS
  <2> HIDE DEF R
  <2> QED BY <1>2, <2>1
<1> QED BY <1>3

\* The first periods, one after the other.
Doubles(g, n) == g \in [0..n -> Nat] /\ \A i \in 0..n : g[i] = IF i = 0 THEN 1 ELSE 2 * g[i - 1]

LEMMA DoublesExist == ASSUME NEW n \in Nat PROVE \E g : Doubles(g, n)
<1> DEFINE S == {m \in Nat : ~ \E g : Doubles(g, m)}
<1>1. CASE n \in S
  <2>1. PICK x \in S : \A y \in S : x <= y
    <3> HIDE DEF S
    <3>1. S \in SUBSET Nat
      BY DEF S
    <3> QED BY <1>1, <3>1, LeastOfNats
  <2>2. x \in Nat /\ ~ \E g : Doubles(g, x)
    OBVIOUS
  <2>3. x # 0
    <3>1. Doubles([i \in 0..0 |-> 1], 0)
      BY DEF Doubles
    <3> QED BY <2>2, <3>1
  <2>4. PICK g : Doubles(g, x - 1)
    <3>1. x - 1 \in Nat /\ ~(x <= x - 1)
      BY <2>2, <2>3
    <3> QED BY <2>1, <3>1
  <2>5. g \in [0..(x - 1) -> Nat] /\ \A i \in 0..(x - 1) : g[i] = IF i = 0 THEN 1 ELSE 2 * g[i - 1]
    BY <2>4 DEF Doubles
  <2> DEFINE h == [i \in 0..x |-> IF i = x THEN 2 * g[x - 1] ELSE g[i]]
  <2>6. h \in [0..x -> Nat]
    BY <2>2, <2>3, <2>5
  <2>7. ASSUME NEW i \in 0..x PROVE h[i] = IF i = 0 THEN 1 ELSE 2 * h[i - 1]
    <3>1. CASE i = x
      BY <2>2, <2>3, <3>1
    <3>2. CASE i # x
      <4>1. i \in 0..(x - 1) /\ h[i] = g[i]
        BY <2>2, <3>2
      <4>2. i # 0 => h[i - 1] = g[i - 1]
        BY <2>2, <3>2
      <4> QED BY <2>5, <4>1, <4>2
    <3> QED BY <3>1, <3>2
  <2>8. Doubles(h, x)
    BY <2>6, <2>7 DEF Doubles
  <2> QED BY <2>2, <2>8
<1>2. CASE n \notin S
  BY <1>2
<1> QED BY <1>1, <1>2

LEMMA DoublesAgree ==
    ASSUME NEW m \in Nat, NEW n \in Nat, NEW g, NEW h, Doubles(g, m), Doubles(h, n),
           NEW k \in 0..m, k \in 0..n
    PROVE  g[k] = h[k]
<1> DEFINE S == {i \in Nat : i \in 0..m /\ i \in 0..n /\ g[i] # h[i]}
<1>1. CASE k \in S
  <2>1. PICK x \in S : \A y \in S : x <= y
    <3> HIDE DEF S
    <3>1. S \in SUBSET Nat
      BY DEF S
    <3> QED BY <1>1, <3>1, LeastOfNats
  <2>2. x \in Nat /\ x \in 0..m /\ x \in 0..n /\ g[x] # h[x]
    OBVIOUS
  <2>3. g[x] = (IF x = 0 THEN 1 ELSE 2 * g[x - 1]) /\ h[x] = (IF x = 0 THEN 1 ELSE 2 * h[x - 1])
    BY <2>2 DEF Doubles
  <2>4. x # 0
    BY <2>2, <2>3
  <2>5. x - 1 \in Nat /\ x - 1 \in 0..m /\ x - 1 \in 0..n /\ ~(x <= x - 1)
    BY <2>2, <2>4
  <2>6. g[x - 1] = h[x - 1]
    BY <2>1, <2>5
  <2> QED BY <2>2, <2>3, <2>4, <2>6
<1>2. CASE k \notin S
  <2>1. k \in Nat
    OBVIOUS
  <2> QED BY <1>2, <2>1
<1> QED BY <1>1, <1>2

\* There is one function that doubles from each number to the next.
LEMMA PeriodIs ==
    /\ PeriodAfter \in [Nat -> Nat]
    /\ PeriodAfter[0] = 1
    /\ \A n \in Nat : PeriodAfter[n + 1] = 2 * PeriodAfter[n]
<1> DEFINE G(n) == CHOOSE g : Doubles(g, n)
           F == [n \in Nat |-> G(n)[n]]
<1>1. \A n \in Nat : Doubles(G(n), n)
  BY DoublesExist
<1>2. \A n \in Nat : F[n] = G(n)[n]
  OBVIOUS
<1> HIDE DEF G
<1>3. ASSUME NEW n \in Nat PROVE F[n] \in Nat /\ F[n] = IF n = 0 THEN 1 ELSE 2 * F[n - 1]
  <2>1. n \in 0..n /\ Doubles(G(n), n)
    BY <1>1
  <2>2. G(n)[n] \in Nat /\ G(n)[n] = IF n = 0 THEN 1 ELSE 2 * G(n)[n - 1]
    BY <2>1 DEF Doubles
  <2>3. n # 0 => G(n)[n - 1] = G(n - 1)[n - 1]
    <3> SUFFICES ASSUME n # 0 PROVE G(n)[n - 1] = G(n - 1)[n - 1]
      OBVIOUS
    <3>1. n - 1 \in Nat /\ n - 1 \in 0..n /\ n - 1 \in 0..(n - 1)
      OBVIOUS
    <3>2. Doubles(G(n - 1), n - 1)
      BY <1>1, <3>1
    <3> QED BY <2>1, <3>1, <3>2, DoublesAgree
  <2>4. n # 0 => n - 1 \in Nat
    OBVIOUS
  <2> QED BY <1>2, <2>2, <2>3, <2>4
<1>4. F = [n \in Nat |-> IF n = 0 THEN 1 ELSE 2 * F[n - 1]]
  BY <1>3
<1>5. PeriodAfter = [n \in Nat |-> IF n = 0 THEN 1 ELSE 2 * PeriodAfter[n - 1]]
  <2> HIDE DEF F
  <2> QED BY <1>4 DEF PeriodAfter
<1>6. \A n \in Nat : PeriodAfter[n] = IF n = 0 THEN 1 ELSE 2 * PeriodAfter[n - 1]
  BY <1>5
<1>7. ASSUME NEW n \in Nat PROVE PeriodAfter[n] \in Nat
  <2> DEFINE S == {m \in Nat : PeriodAfter[m] \notin Nat}
  <2>1. CASE n \in S
    <3>1. PICK x \in S : \A y \in S : x <= y
      <4> HIDE DEF S
      <4>1. S \in SUBSET Nat
        BY DEF S
      <4> QED BY <2>1, <4>1, LeastOfNats
    <3>2. x \in Nat /\ PeriodAfter[x] \notin Nat /\ x # 0
      BY <1>6
    <3>3. x - 1 \in Nat /\ ~(x <= x - 1)
      BY <3>2
    <3>4. PeriodAfter[x - 1] \in Nat
      BY <3>1, <3>3
    <3> QED BY <1>6, <3>2, <3>4
  <2>2. CASE n \notin S
    BY <2>2
  <2> QED BY <2>1, <2>2
<1>8. PeriodAfter \in [Nat -> Nat]
  BY <1>5, <1>7
<1>9. ASSUME NEW n \in Nat PROVE PeriodAfter[n + 1] = 2 * PeriodAfter[n]
  <2>1. n + 1 \in Nat /\ n + 1 # 0 /\ n + 1 - 1 = n
    OBVIOUS
  <2> QED BY <1>6, <2>1
<1> QED BY <1>6, <1>8, <1>9

\* It never falls, and outgrows every number.
LEMMA PeriodGrows ==
    ASSUME NEW n \in Nat
    PROVE  PeriodAfter[n] \in Nat /\ PeriodAfter[n + 1] >= PeriodAfter[n] /\ PeriodAfter[n] >= n + 1
<1> DEFINE Over(m) == PeriodAfter[m] >= m + 1
           S == {m \in Nat : ~Over(m)}
<1>1. \A m \in Nat : PeriodAfter[m] \in Nat /\ PeriodAfter[m + 1] = 2 * PeriodAfter[m]
  BY PeriodIs
<1>2. PeriodAfter[n] \in Nat /\ PeriodAfter[n + 1] >= PeriodAfter[n]
  BY <1>1
<1>3. CASE n \in S
  <2>1. PICK x \in S : \A y \in S : x <= y
    <3> HIDE DEF S
    <3>1. S \in SUBSET Nat
      BY DEF S
    <3> QED BY <1>3, <3>1, LeastOfNats
  <2>2. x \in Nat /\ ~(PeriodAfter[x] >= x + 1) /\ x # 0
    BY PeriodIs
  <2>3. x - 1 \in Nat /\ ~(x <= x - 1) /\ x - 1 + 1 = x
    BY <2>2
  <2>4. PeriodAfter[x - 1] >= x
    BY <2>1, <2>3
  <2>5. PeriodAfter[x] = 2 * PeriodAfter[x - 1] /\ PeriodAfter[x - 1] \in Nat
    BY <1>1, <2>3
  <2> QED BY <2>2, <2>4, <2>5
<1>4. CASE n \notin S
  <2>1. Over(n)
    <3> HIDE DEF Over
    <3> QED BY <1>4
  <2> QED BY <1>2, <2>1
<1> QED BY <1>2, <1>3, <1>4

\* The sessions ended whose QUIT the task has handled, or was never sent.
Counted == IF Pending("QUIT") THEN ended - 1 ELSE ended

\* Once the task knows that the engine was connected, retry_num is no more than
\* the sessions that have ended since have made of it; when the task gives up,
\* one of them found it at the limit.
RetryInv ==
    /\ Pending("QUIT") => ended > 0
    /\ ~missed /\ ~Pending("CONNECTED") => retryNum <= PeriodAfter[Counted]
    /\ task = "gone" => duerState = "IDLE"
    /\ task = "gone" => (missed \/ (ended > 0 /\ PeriodAfter[ended - 1] >= MaxRetryNum))

\* The period after a session more covers what a QUIT makes of retry_num.
LEMMA EndedPeriod ==
    ASSUME CloudTypes
    PROVE  /\ PeriodAfter[ended] \in Nat
           /\ ended > 0 => /\ PeriodAfter[ended - 1] \in Nat
                          /\ PeriodAfter[ended] = 2 * PeriodAfter[ended - 1]
           /\ ended = EndCap => (ended > 0 /\ PeriodAfter[ended - 1] >= 2 * MaxRetryNum)
<1>1. ended \in Nat /\ MaxRetryNum \in Nat /\ MaxRetryNum > 0
  BY ServiceAssumption DEF CloudTypes, EndCap
<1>2. CASE ended = 0
  BY <1>1, <1>2, PeriodIs DEF EndCap
<1>3. CASE ended > 0
  <2>1. ended - 1 \in Nat /\ ended - 1 + 1 = ended
    BY <1>1, <1>3
  <2>2. PeriodAfter[ended - 1] \in Nat /\ PeriodAfter[ended - 1] >= ended
    BY <2>1, PeriodGrows
  <2>3. PeriodAfter[ended] = 2 * PeriodAfter[ended - 1]
    BY <2>1, PeriodIs
  <2> QED BY <1>1, <1>3, <2>2, <2>3 DEF EndCap
<1> QED BY <1>1, <1>2, <1>3

\* Steps that leave the session words in the queue, the count and the task alone.
LEMMA RetryAlike ==
    ASSUME RetryInv, UNCHANGED <<retryNum, ended, missed>>,
           Pending("QUIT")' <=> Pending("QUIT"), Pending("CONNECTED")' <=> Pending("CONNECTED"),
           task' = "gone" => task = "gone" /\ duerState' = duerState
    PROVE  RetryInv'
  BY DEF RetryInv, Counted

LEMMA SentPending ==
    ASSUME IInv, NEW cmd \in Cmds, Send(cmd), NEW word \in Session
    PROVE  /\ word # cmd => (Pending(word)' <=> Pending(word))
           /\ Pending(word) => Pending(word)'
           /\ Len(queue) < QueueLen => Pending(cmd)'
           /\ ~(Len(queue) < QueueLen) => UNCHANGED queue
<1>1. queue \in Seq(Cmds) /\ Len(queue) \in Nat
  BY DEF IInv, QueueType
<1>2. CASE Len(queue) < QueueLen
  <2>1. queue' = Append(queue, cmd)
    BY <1>2 DEF Send
  <2>2. /\ DOMAIN queue' = 1..(Len(queue) + 1) /\ DOMAIN queue = 1..Len(queue)
        /\ \A i \in 1..Len(queue) : queue'[i] = queue[i]
        /\ queue'[Len(queue) + 1] = cmd
    BY <1>1, <2>1
  <2>3. word # cmd => (Pending(word)' => Pending(word))
    BY <1>1, <2>2 DEF Pending
  <2>4. Pending(word) => Pending(word)'
    BY <1>1, <2>2 DEF Pending
  <2>5. Pending(cmd)'
    BY <1>1, <2>2 DEF Pending
  <2> QED BY <1>2, <2>3, <2>4, <2>5
<1>3. CASE ~(Len(queue) < QueueLen)
  <2>1. queue' = queue
    BY <1>3 DEF Send
  <2> QED BY <1>3, <2>1 DEF Pending
<1> QED BY <1>2, <1>3

LEMMA TakenPending ==
    ASSUME IInv, NEW cmd, NEW to, Receive(cmd, to), NEW word \in Session
    PROVE  /\ word # cmd => (Pending(word)' <=> Pending(word))
           /\ Pending(word)' => Pending(word)
           /\ Pending(cmd)
<1>1. queue \in Seq(Cmds) /\ queue' \in Seq(Cmds) /\ Len(queue) \in Nat
  BY Received DEF IInv, QueueType
<1>2. /\ Len(queue') = Len(queue) - 1 /\ Len(queue) > 0 /\ queue[1] = cmd
      /\ \A i \in 1..Len(queue') : queue'[i] = queue[i + 1] /\ i + 1 \in 1..Len(queue)
  BY Received
<1>3. DOMAIN queue = 1..Len(queue) /\ DOMAIN queue' = 1..Len(queue')
  BY <1>1
<1>4. Pending(cmd)
  BY <1>1, <1>2, <1>3 DEF Pending
<1>5. Pending(word)' => Pending(word)
  BY <1>2, <1>3 DEF Pending
<1>6. ASSUME word # cmd, Pending(word) PROVE Pending(word)'
  <2>1. PICK i \in 1..Len(queue) : queue[i] = word
    BY <1>3, <1>6 DEF Pending
  <2>2. i # 1 /\ i - 1 \in 1..Len(queue')
    BY <1>1, <1>2, <1>6, <2>1
  <2>3. queue'[i - 1] = word
    BY <1>2, <2>1, <2>2
  <2> QED BY <1>3, <2>2, <2>3 DEF Pending
<1> QED BY <1>4, <1>5, <1>6

\* A task that is idle has read all the engine said, and an engine that has not
\* stopped has said no QUIT.
LEMMA SessionWords ==
    ASSUME IInv
    PROVE  /\ duerState = "IDLE" => (engine = "stopped" /\ ~Pending("CONNECTED") /\ ~Pending("QUIT"))
           /\ Pending("QUIT") => engine = "stopped"
<1>1. DOMAIN queue = 1..Len(queue)
  BY DEF IInv, QueueType
<1> QED BY <1>1 DEF IInv, IdleMeansStopped, QuitIsLast, Pending, Session

\* A QUIT leaves retry_num or doubles it.
LEMMA QuitRetry ==
    ASSUME CloudTypes, CloudTypes', IInv, IInv', RetryInv, NEW to, Receive("QUIT", to),
           duerState' = "IDLE", retryNum' \in {retryNum, 2 * retryNum},
           to = "gone" => retryNum >= MaxRetryNum
    PROVE  RetryInv'
<1>1. /\ ended \in Nat /\ retryNum \in Nat /\ retryNum' \in Nat /\ MaxRetryNum \in Nat
  BY ServiceAssumption DEF CloudTypes, EndCap
<1>2. UNCHANGED <<ended, missed>> /\ task' = to
  BY DEF Receive, sessionVars
<1>3. Pending("QUIT") /\ ~Pending("QUIT")' /\ ~Pending("CONNECTED")'
  <2>1. /\ Len(queue') = Len(queue) - 1 /\ Len(queue) \in Nat /\ Len(queue) > 0 /\ queue[1] = "QUIT"
        /\ \A i \in 1..Len(queue') : queue'[i] = queue[i + 1] /\ i + 1 \in 1..Len(queue)
    BY Received
  <2>2. 1 \in 1..Len(queue) /\ \A j \in 1..Len(queue) : j > 1 => queue[j] \notin Session
    BY <2>1 DEF IInv, QuitIsLast
  <2>3. \A i \in 1..Len(queue') : queue'[i] \notin Session
    BY <2>1, <2>2
  <2>4. DOMAIN queue' = 1..Len(queue') /\ Pending("QUIT")
    BY TakenPending DEF IInv, QueueType, Session
  <2> QED BY <2>3, <2>4 DEF Pending, Session
<1>4. ~Pending("CONNECTED")
  BY <1>3, TakenPending DEF Session
<1>5. ended > 0 /\ (~missed => retryNum <= PeriodAfter[ended - 1])
  BY <1>3, <1>4 DEF RetryInv, Counted
<1>6. PeriodAfter[ended - 1] \in Nat /\ PeriodAfter[ended] = 2 * PeriodAfter[ended - 1]
  BY <1>5, EndedPeriod
<1>7. ~missed => retryNum' <= PeriodAfter[ended]
  BY <1>1, <1>5, <1>6
<1>8. to = "gone" => missed \/ PeriodAfter[ended - 1] >= MaxRetryNum
  BY <1>1, <1>5, <1>6
<1> QED BY <1>2, <1>3, <1>5, <1>7, <1>8 DEF RetryInv, Counted

LEMMA NextRetry ==
    ASSUME CloudTypes, CloudTypes', QueueTypes, IInv, IInv', RetryInv, [Next]_vars
    PROVE  RetryInv'
<1>1. CASE EngineStarted
  <2>1. /\ engine # "stopped" /\ Send("CONNECTED") /\ ended' = 0 /\ missed' = (Len(queue) = QueueLen)
        /\ UNCHANGED <<duerState, retryNum, task>>
    BY <1>1 DEF EngineStarted, cloudVars
  <2>2. ~Pending("QUIT") /\ ~Pending("QUIT")' /\ duerState # "IDLE"
    BY <2>1, SessionWords, SentPending DEF Session, Cmds
  <2>3. task # "gone"
    BY <2>2 DEF RetryInv
  <2>4. missed' \/ Pending("CONNECTED")'
    <3>1. CASE Len(queue) < QueueLen
      BY <2>1, <3>1, SentPending DEF Session, Cmds
    <3>2. CASE ~(Len(queue) < QueueLen)
      <4>1. Len(queue) = QueueLen
        BY <3>2, ServiceAssumption DEF QueueTypes
      <4> QED BY <2>1, <4>1
    <3> QED BY <3>1, <3>2
  <2> QED BY <2>1, <2>2, <2>3, <2>4 DEF RetryInv
<1>2. CASE EngineStopped
  <2>1. /\ engine # "stopped" /\ Send("QUIT") /\ UNCHANGED <<duerState, retryNum, task, missed>>
        /\ ended' = IF ended < EndCap THEN ended + 1 ELSE ended
    BY <1>2 DEF EngineStopped, cloudVars
  <2>2. ~Pending("QUIT") /\ duerState # "IDLE" /\ task # "gone"
    BY <2>1, SessionWords DEF RetryInv
  <2>3. Pending("CONNECTED")' <=> Pending("CONNECTED")
    BY <2>1, SentPending DEF Session, Cmds
  <2>4. ended \in 0..EndCap /\ EndCap \in Nat /\ EndCap > 0 /\ retryNum \in Nat /\ retryNum <= EndCap
        /\ EndCap = 2 * MaxRetryNum
    BY ServiceAssumption DEF CloudTypes, EndCap
  <2>5. ended' > 0
    BY <2>1, <2>4
  <2>6. /\ PeriodAfter[ended'] \in Nat /\ PeriodAfter[ended' - 1] \in Nat
        /\ PeriodAfter[ended'] = 2 * PeriodAfter[ended' - 1]
    <3>1. ended' - 1 \in Nat /\ ended' - 1 + 1 = ended' /\ ended' \in Nat
      BY <2>1, <2>4
    <3> QED BY <3>1, PeriodIs
  <2>7. ASSUME ~missed, ~Pending("CONNECTED")
        PROVE  retryNum <= PeriodAfter[ended' - 1]
    <3>1. retryNum <= PeriodAfter[ended]
      BY <2>2, <2>7 DEF RetryInv, Counted
    <3>2. CASE ended < EndCap
      <4>1. ended' - 1 = ended
        BY <2>1, <2>4, <3>2
      <4> QED BY <3>1, <4>1
    <3>3. CASE ended = EndCap
      <4>1. PeriodAfter[ended - 1] >= 2 * MaxRetryNum
        BY <3>3, EndedPeriod
      <4>2. ended' = ended
        BY <2>1, <2>4, <3>3
      <4> QED BY <2>4, <2>6, <4>1, <4>2
    <3> QED BY <2>4, <3>2, <3>3
  <2>8. ASSUME ~missed, ~Pending("CONNECTED")
        PROVE  retryNum <= PeriodAfter[ended']
    BY <2>4, <2>6, <2>7, <2>8
  <2>9. ~missed' /\ ~Pending("CONNECTED")' => retryNum' <= PeriodAfter[Counted']
    BY <2>1, <2>3, <2>7, <2>8 DEF Counted
  <2> QED BY <2>1, <2>2, <2>5, <2>9 DEF RetryInv
<1>3. CASE DuerTask
  <2>1. CASE Login \/ RefuseLogin \/ StartVoice \/ StopVoice
    <3>1. /\ UNCHANGED <<retryNum, ended, missed>> /\ task' # "gone"
          /\ \E cmd \in {"LOGIN", "START", "STOP"} : \E to : Receive(cmd, to)
      BY <2>1 DEF Login, RefuseLogin, StartVoice, StopVoice, Receive, sessionVars
    <3>2. Pending("QUIT")' <=> Pending("QUIT")
      BY <3>1, TakenPending DEF Session
    <3>3. Pending("CONNECTED")' <=> Pending("CONNECTED")
      BY <3>1, TakenPending DEF Session
    <3> QED BY <3>1, <3>2, <3>3, RetryAlike
  <2>2. CASE VoiceStarted \/ StreamEnds \/ VoiceStopped
    BY <2>2, RetryAlike DEF VoiceStarted, StreamEnds, VoiceStopped, Talk, SendNothing, Pending, sessionVars
  <2>3. CASE Connected
    <3>1. /\ Receive("CONNECTED", "receive") /\ retryNum' = 1 /\ UNCHANGED <<ended, missed>>
          /\ task' = "receive"
      BY <2>3 DEF Connected, Receive, sessionVars
    <3>2. Pending("QUIT")' <=> Pending("QUIT")
      BY <3>1, TakenPending DEF Session
    <3>3. Counted' \in Nat
      BY <3>1, <3>2 DEF RetryInv, Counted, CloudTypes, EndCap
    <3>4. retryNum' <= PeriodAfter[Counted']
      BY <3>1, <3>3, PeriodGrows
    <3> QED BY <3>1, <3>2, <3>4 DEF RetryInv
  <2>4. CASE QuitForSetting
    BY <2>4, QuitRetry DEF QuitForSetting
  <2>5. CASE QuitAndRetry
    BY <2>5, QuitRetry DEF QuitAndRetry
  <2>6. CASE QuitForGood
    BY <2>6, QuitRetry DEF QuitForGood
  <2> QED BY <1>3, <2>1, <2>2, <2>3, <2>4, <2>5, <2>6 DEF DuerTask
<1>4. ASSUME UNCHANGED <<cloudVars, sessionVars>>, UNCHANGED queue \/ \E cmd \in Cmds \ Session : Send(cmd)
      PROVE  RetryInv'
  <2>1. Pending("QUIT")' <=> Pending("QUIT")
    BY <1>4, SentPending DEF Session, Pending
  <2>2. Pending("CONNECTED")' <=> Pending("CONNECTED")
    BY <1>4, SentPending DEF Session, Pending
  <2> QED BY <1>4, <2>1, <2>2, RetryAlike DEF cloudVars, sessionVars
<1>5. CASE Notifications \/ FinishNotification
  BY <1>4, <1>5 DEF Notifications, FinishNotification, GotIp, GotIpFlags, LinkLost, LinkLostFlag, WifiKey,
     WifiKeyFlag, Note, Touch, SendNothing, Cmds, Session
<1>6. CASE RecorderEvents \/ FinishEvent
  BY <1>4, <1>6 DEF RecorderEvents, FinishEvent, WakeUp, VadStart, VadStop, WakeUpEnd, SendStop,
     ClearSentStop, RaiseSentStop, Recorder, SendNothing, Cmds, Session
<1>7. CASE TimerSteps
  BY <1>4, <1>7 DEF TimerSteps, TimerFires, RetryLogin, StopTimer, TimerCommand, TimerTask, SendNothing,
     Cmds, Session
<1>8. CASE UNCHANGED vars
  BY <1>4, <1>8 DEF vars
<1> QED BY <1>1, <1>2, <1>3, <1>5, <1>6, <1>7, <1>8 DEF Next

\* For every limit: dueros_task ends for ever only after so many sessions have
\* ended since the engine last connected that the period, doubled from 1 with
\* each, had reached the limit (DuerAppService.c:418), unless that CONNECTED was
\* lost; however often the Wi-Fi was set or lost meanwhile.
THEOREM GivesUpLateHolds == Spec => []GivesUpLate
<1>1. Init => CloudTypes /\ RetryInv
  <2> SUFFICES ASSUME Init PROVE CloudTypes /\ RetryInv
    OBVIOUS
  <2>1. CloudTypes
    BY CloudTypesInit
  <2>2. RetryInv
    BY PeriodIs DEF Init, RetryInv, Counted, Pending
  <2> QED BY <2>1, <2>2
<1>2. IInv /\ IInv' /\ TypeOK /\ CloudTypes /\ RetryInv /\ [Next]_vars => (CloudTypes /\ RetryInv)'
  BY CloudTypesStep, NextRetry DEF TypeOK, QueueTypes
<1>3. RetryInv => GivesUpLate
  BY DEF RetryInv, GivesUpLate
<1> QED BY InitInv, NextInv, <1>1, <1>2, <1>3, TypeCorrect, PTL DEF Spec
=============================================================================
