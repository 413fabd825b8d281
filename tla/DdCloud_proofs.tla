---------------------------- MODULE DdCloud_proofs ----------------------------
(* Proofs about DdCloud: whatever is lost between the two tasks, a response   *)
(* is parsed on its own, its answer has an event under way until the next     *)
(* recording is posted, posts are in step with recordings, and each answer is *)
(* spoken once but for those that were overtaken.                             *)
EXTENDS DdCloud, FiniteSetTheorems, TLAPS

\* From the parsing of an answer to the next post, state and text are those of
\* this answer, and ddhttp_task, which tests the one and reads the other, finds
\* them so; before the parsing no post counts as answered.
Inv ==
  /\ cloudPc \in {"idle", "read", "post", "response", "parse", "event"}
  /\ httpPc \in {"idle", "encode", "perform"}
  /\ post \in Nat /\ ttsEvents \in Nat /\ json \subseteq {post}
  /\ \A n \in answered : n \in Nat /\ n <= post
  /\ cloudPc \in {"response", "parse"} => post \notin answered
  /\ post \in answered => state = "finish" /\ text = post
  /\ cloudPc = "parse" => state = "finish"
  /\ spoken \in Seq(Nat) /\ text \in Nat
  /\ AnswerAwaitsEvent

LEMMA InitInv == Init => Inv
BY DEF Init, Inv, AnswerAwaitsEvent

\* What the tasks do with a recording does not touch the answer.
LEMMA RecordKeeps ==
    ASSUME Engine \/ Record
    PROVE  /\ UNCHANGED <<textVars, httpVars>>
           /\ cloudPc \in {"idle", "read", "post", "response", "parse", "event"} =>
                 cloudPc' \in {"idle", "read", "post", "response", "parse", "event"}
           /\ cloudPc' # cloudPc => {cloudPc, cloudPc'} \subseteq {"idle", "read", "post"}
BY Zenon DEF Engine, Record, StartRecording, Speak, EndRecording, Wakeup, ReadBlock, ReadTimeout, ReadEnd, Save

LEMMA NextInv == Inv /\ [Next]_vars => Inv'
<1> SUFFICES ASSUME Inv, [Next]_vars PROVE Inv'
  OBVIOUS
<1> USE DEF Inv, AnswerAwaitsEvent, Pending
<1>1. CASE Engine \/ Record
  BY <1>1, RecordKeeps DEF textVars, httpVars
<1>2. CASE Start
  BY <1>2 DEF Start, tts_text_start, httpVars
<1>3. CASE Push
  BY <1>3 DEF Push, httpVars
<1>4. CASE PostFails
  BY <1>4 DEF PostFails, Posted, textVars, httpVars
<1>5. CASE Finish
  BY <1>5 DEF Finish, httpVars
<1>6. ASSUME NEW ok \in BOOLEAN, Parse(ok) PROVE Inv'
  BY <1>6 DEF Parse, StateAfter, httpVars
<1>7. CASE Send
  BY <1>7, DdCloudAssumption DEF Send, Posted, textVars
<1>8. CASE TakeEvent
  BY <1>8 DEF TakeEvent, Speakable, textVars
<1>9. CASE Encode
  BY <1>9 DEF Encode, textVars
<1>10. CASE Performed
  BY <1>10 DEF Performed, textVars
<1>11. CASE UNCHANGED vars
  BY <1>11 DEF vars, textVars, httpVars
<1> QED
  BY <1>1, <1>2, <1>3, <1>4, <1>5, <1>6, <1>7, <1>8, <1>9, <1>10, <1>11 DEF Next, PostIt, DdhttpTask

\* For every length of queues and buffer and any number of recordings, a
\* response is parsed without a byte of another (tts_text_start).
THEOREM OneResponseHolds == Spec => []OneResponse
<1>1. Inv => OneResponse
  BY DEF Inv, OneResponse
<1> QED BY <1>1, InitInv, NextInv, PTL DEF Spec

\* For every length of queues and buffer, the answer to the last post has been
\* spoken, or an event that will find it is pending, until the next post.
THEOREM AnswerAwaitsEventHolds == Spec => []AnswerAwaitsEvent
<1>1. Inv => AnswerAwaitsEvent
  BY DEF Inv
<1> QED BY <1>1, InitInv, NextInv, PTL DEF Spec

-----------------------------------------------------------------------------
(* PostedInStep.  The blocks that are not read carry the recordings in order, *)
(* LAST leading from one to the next: f[i] is the recording to which the i-th  *)
(* block belongs, and f[Len(f)] that of a block that would come now.  The      *)
(* first is the one being read, or the next to be; WAKEUPs follow in step.     *)

Oldest == IF cloudPc = "read" THEN turn ELSE turn + 1
Newest == IF recording = TRUE THEN session ELSE session + 1

Labelled(f) ==
  /\ f \in Seq(Nat) /\ Len(f) = Len(voice) + 1
  /\ f[1] = Oldest /\ f[Len(f)] = Newest
  /\ \A i, j \in 1..Len(f) : i <= j => f[i] <= f[j]
  /\ \A i \in 1..Len(voice) : IF voice[i] = LAST THEN f[i + 1] = f[i] + 1
                                                 ELSE voice[i] = f[i] /\ f[i + 1] = f[i]

InStep ==
  /\ turn <= session /\ Len(wakeups) = session - turn
  /\ \A i \in 1..Len(wakeups) : wakeups[i] = turn + i
  /\ \E f \in Seq(Nat) : Labelled(f)
  /\ voiceData <= turn /\ \A i \in Places : mic[i] <= turn
  /\ cloudPc = "idle" => mic = Blank

StepType ==
  /\ turn \in Nat /\ session \in 0..MaxSessions /\ voiceData \in Nat
  /\ behind \in BOOLEAN /\ dropped \in BOOLEAN /\ recording \in BOOLEAN
  /\ voice \in Seq(Nat) /\ wakeups \in Seq(Nat) /\ mic \in [Places -> Nat]

StepInv == StepType /\ (behind = FALSE /\ dropped = FALSE => InStep)

LEMMA LastIsNat == LAST \in Nat /\ MaxSessions \in Nat /\ LAST > MaxSessions
BY DdCloudAssumption DEF LAST

\* Appending to the sequences and taking their heads, by index.
LEMMA Appended ==
    ASSUME NEW s \in Seq(Nat), NEW e \in Nat
    PROVE  /\ Append(s, e) \in Seq(Nat) /\ Len(Append(s, e)) = Len(s) + 1 /\ Len(s) \in Nat
           /\ Append(s, e)[Len(s) + 1] = e
           /\ \A i \in 1..Len(s) : Append(s, e)[i] = s[i]
OBVIOUS

LEMMA EmptySeq == <<>> \in Seq(Nat) /\ Len(<<>>) = 0
OBVIOUS

LEMMA TailTaken ==
    ASSUME NEW s \in Seq(Nat), s # <<>>
    PROVE  /\ Tail(s) \in Seq(Nat) /\ Len(Tail(s)) = Len(s) - 1 /\ Len(s) \in Nat /\ Len(s) >= 1
           /\ Head(s) = s[1] /\ s[1] \in Nat
           /\ \A i \in 1..Len(s) - 1 : Tail(s)[i] = s[i + 1]
OBVIOUS

\* A block of the recording that runs, or the LAST that ends it.
LEMMA LabelAppended ==
    ASSUME StepType, NEW f \in Seq(Nat), Labelled(f), recording = TRUE,
           NEW b \in {session, LAST}, voice' = Append(voice, b),
           recording' = IF b = LAST THEN FALSE ELSE TRUE,
           UNCHANGED <<cloudPc, turn, session>>
    PROVE  \E g \in Seq(Nat) : Labelled(g)'
<1> PICK e \in Nat : e = IF b = LAST THEN session + 1 ELSE session
  BY DEF StepType
<1> PICK g \in Seq(Nat) : g = Append(f, e)
  BY Appended
<1>1. e \in Nat /\ b \in Nat /\ f[Len(f)] = session /\ session # LAST
  BY LastIsNat DEF StepType, Labelled, Newest
<1>2. /\ g \in Seq(Nat) /\ Len(g) = Len(f) + 1 /\ Len(f) \in Nat /\ Len(f) = Len(voice) + 1
      /\ g[Len(f) + 1] = e /\ \A i \in 1..Len(f) : g[i] = f[i]
  BY <1>1, Appended DEF Labelled
<1>3. /\ Len(voice') = Len(voice) + 1 /\ Len(voice) \in Nat
      /\ voice'[Len(voice) + 1] = b /\ \A i \in 1..Len(voice) : voice'[i] = voice[i]
  BY <1>1, Appended DEF StepType
<1>4. g[1] = Oldest' /\ g[Len(g)] = Newest'
  BY <1>1, <1>2 DEF Labelled, Oldest, Newest, StepType
<1>5. \A i, j \in 1..Len(g) : i <= j => g[i] <= g[j]
  <2> SUFFICES ASSUME NEW i \in 1..Len(g), NEW j \in 1..Len(g), i <= j PROVE g[i] <= g[j]
    OBVIOUS
  <2>1. i \in 1..Len(f) => f[i] <= f[Len(f)] /\ f[i] \in Nat
    BY <1>2 DEF Labelled
  <2>2. CASE j = Len(f) + 1
    <3>1. g[j] = e /\ session <= e
      BY <1>1, <1>2, <2>2 DEF StepType
    <3>2. CASE i = j
      BY <1>1, <3>1, <3>2
    <3>3. CASE i # j
      <4>1. i \in 1..Len(f)
        BY <1>2, <2>2, <3>3
      <4>2. g[i] = f[i]
        BY <1>2, <4>1
      <4>3. f[i] \in Nat /\ f[i] <= session /\ session \in Nat
        BY <1>1, <2>1, <4>1, LastIsNat DEF StepType
      <4> QED BY <3>1, <4>2, <4>3
    <3> QED BY <3>2, <3>3
  <2>3. CASE j # Len(f) + 1
    <3>1. i \in 1..Len(f) /\ j \in 1..Len(f)
      BY <1>2, <2>3
    <3>2. g[i] = f[i] /\ g[j] = f[j]
      BY <1>2, <3>1
    <3> QED BY <3>1, <3>2 DEF Labelled
  <2> QED BY <2>2, <2>3
<1>6. \A i \in 1..Len(voice') : IF voice'[i] = LAST THEN g[i + 1] = g[i] + 1
                                                    ELSE voice'[i] = g[i] /\ g[i + 1] = g[i]
  <2> SUFFICES ASSUME NEW i \in 1..Len(voice')
               PROVE  IF voice'[i] = LAST THEN g[i + 1] = g[i] + 1
                                          ELSE voice'[i] = g[i] /\ g[i + 1] = g[i]
    OBVIOUS
  <2>1. CASE i = Len(voice) + 1
    BY <1>1, <1>2, <1>3, <2>1
  <2>2. CASE i # Len(voice) + 1
    <3>1. i \in 1..Len(voice) /\ i \in 1..Len(f) /\ i + 1 \in 1..Len(f)
      BY <1>2, <1>3, <2>2
    <3>2. voice'[i] = voice[i] /\ g[i] = f[i] /\ g[i + 1] = f[i + 1]
      BY <1>2, <1>3, <3>1
    <3> QED BY <3>1, <3>2 DEF Labelled
  <2> QED BY <2>1, <2>2
<1>7. LAST' = LAST
  BY DEF LAST
<1>8. Len(g) = Len(voice') + 1
  BY <1>2, <1>3
<1>9. Labelled(g)'
  BY <1>2, <1>4, <1>5, <1>6, <1>7, <1>8 DEF Labelled
<1> QED BY <1>2, <1>9

\* The oldest block is taken: the next is of the same recording, or, behind
\* LAST, of the next one.
LEMMA LabelTaken ==
    ASSUME StepType, NEW f \in Seq(Nat), Labelled(f), cloudPc = "read",
           voice # <<>>, voice' = Tail(voice), UNCHANGED <<recording, turn, session>>,
           IF Head(voice) = LAST THEN cloudPc' # "read" ELSE cloudPc' = "read"
    PROVE  /\ \E g \in Seq(Nat) : Labelled(g)'
           /\ Head(voice) # LAST => Head(voice) = turn
<1>0. f # <<>> /\ Len(f) = Len(voice) + 1
  BY DEF Labelled, StepType
<1> PICK g \in Seq(Nat) : g = Tail(f)
  BY <1>0, TailTaken
<1>1. /\ voice' \in Seq(Nat) /\ Len(voice') = Len(voice) - 1 /\ Len(voice) \in Nat /\ Len(voice) >= 1
      /\ Head(voice) = voice[1] /\ \A i \in 1..Len(voice) - 1 : voice'[i] = voice[i + 1]
  BY TailTaken DEF StepType
<1>2. /\ g \in Seq(Nat) /\ Len(g) = Len(f) - 1 /\ Len(f) = Len(voice) + 1
      /\ \A i \in 1..Len(f) - 1 : g[i] = f[i + 1]
  BY <1>0, TailTaken
<1>3. f[1] = turn /\ 1 \in 1..Len(voice)
  BY <1>1 DEF Labelled, Oldest
<1>4. g[1] = Oldest' /\ g[Len(g)] = Newest'
  <2>0. /\ 1 \in 1..Len(f) - 1 /\ 1 + 1 = 2
        /\ Len(g) \in 1..Len(f) - 1 /\ Len(g) + 1 = Len(f)
    BY <1>1, <1>2
  <2>1. g[1] = f[2] /\ g[Len(g)] = f[Len(f)]
    BY <1>2, <2>0
  <2>2. f[2] = IF voice[1] = LAST THEN turn + 1 ELSE turn
    BY <1>3 DEF Labelled
  <2>3. Newest' = Newest
    BY DEF Newest
  <2> QED BY <1>1, <2>1, <2>2, <2>3 DEF Labelled, Oldest
<1>5. \A i, j \in 1..Len(g) : i <= j => g[i] <= g[j]
  <2> SUFFICES ASSUME NEW i \in 1..Len(g), NEW j \in 1..Len(g), i <= j PROVE g[i] <= g[j]
    OBVIOUS
  <2>0. i \in 1..Len(f) - 1 /\ j \in 1..Len(f) - 1 /\ Len(f) \in Nat
    BY <1>1, <1>2
  <2>1. i + 1 \in 1..Len(f) /\ j + 1 \in 1..Len(f) /\ i + 1 <= j + 1 /\ g[i] = f[i + 1] /\ g[j] = f[j + 1]
    BY <1>2, <2>0
  <2> QED BY <2>1 DEF Labelled
<1>6. \A i \in 1..Len(voice') : IF voice'[i] = LAST THEN g[i + 1] = g[i] + 1
                                                    ELSE voice'[i] = g[i] /\ g[i + 1] = g[i]
  <2> SUFFICES ASSUME NEW i \in 1..Len(voice')
               PROVE  IF voice'[i] = LAST THEN g[i + 1] = g[i] + 1
                                          ELSE voice'[i] = g[i] /\ g[i + 1] = g[i]
    OBVIOUS
  <2>0. /\ i \in 1..Len(voice) - 1 /\ i + 1 \in 1..Len(voice)
        /\ i \in 1..Len(f) - 1 /\ i + 1 \in 1..Len(f) - 1
    BY <1>1, <1>2
  <2>1. voice'[i] = voice[i + 1]
    BY <1>1, <2>0
  <2>2. g[i] = f[i + 1] /\ g[i + 1] = f[(i + 1) + 1]
    BY <1>2, <2>0
  <2> QED BY <2>0, <2>1, <2>2 DEF Labelled
<1>7. LAST' = LAST /\ Len(g) = Len(voice') + 1
  BY <1>1, <1>2 DEF LAST
<1>8. Labelled(g)'
  BY <1>2, <1>4, <1>5, <1>6, <1>7 DEF Labelled
<1>9. Head(voice) # LAST => Head(voice) = turn
  BY <1>1, <1>3 DEF Labelled
<1> QED BY <1>2, <1>8, <1>9

LEMMA SameLabels ==
    ASSUME NEW f \in Seq(Nat), Labelled(f), UNCHANGED voice, Oldest' = Oldest, Newest' = Newest
    PROVE  Labelled(f)'
BY DEF Labelled, LAST

LEMMA EngineInStep ==
    ASSUME StepInv, Engine
    PROVE  StepInv'
<1> USE DEF StepInv
<1>1. CASE StartRecording
  <2>1. /\ session' = session + 1 /\ session + 1 \in 0..MaxSessions /\ session + 1 \in Nat
        /\ UNCHANGED <<voice, turn, voiceData, mic, behind, cloudPc>>
        /\ recording = FALSE /\ recording' = TRUE
    BY <1>1, LastIsNat DEF StartRecording, StepType, micVars
  <2>2. CASE Len(wakeups) < QueueLen
    <3>1. wakeups' = Append(wakeups, session + 1) /\ dropped' = dropped
      BY <1>1, <2>2 DEF StartRecording, WakeupSent
    <3>2. /\ wakeups' \in Seq(Nat) /\ Len(wakeups') = Len(wakeups) + 1 /\ Len(wakeups) \in Nat
          /\ wakeups'[Len(wakeups) + 1] = session + 1
          /\ \A i \in 1..Len(wakeups) : wakeups'[i] = wakeups[i]
      BY <2>1, <3>1, Appended DEF StepType
    <3>3. ASSUME InStep PROVE InStep'
      <4>1. PICK f \in Seq(Nat) : Labelled(f)
        BY <3>3 DEF InStep
      <4>2. Labelled(f)'
        BY <2>1, <4>1, SameLabels DEF Oldest, Newest
      <4>3. turn <= session' /\ Len(wakeups') = session' - turn
        BY <2>1, <3>2, <3>3 DEF InStep, StepType
      <4>4. ASSUME NEW i \in 1..Len(wakeups') PROVE wakeups'[i] = turn + i
        <5>1. CASE i = Len(wakeups) + 1
          BY <2>1, <3>2, <3>3, <5>1 DEF InStep, StepType
        <5>2. CASE i # Len(wakeups) + 1
          <6>1. i \in 1..Len(wakeups)
            BY <3>2, <5>2
          <6>2. wakeups'[i] = wakeups[i] /\ wakeups[i] = turn + i
            BY <3>2, <3>3, <6>1 DEF InStep
          <6> QED BY <2>1, <6>2
        <5> QED BY <5>1, <5>2
      <4> QED BY <2>1, <3>3, <4>2, <4>3, <4>4 DEF InStep
    <3> QED BY <2>1, <3>1, <3>2, <3>3 DEF StepType
  <2>3. CASE ~(Len(wakeups) < QueueLen)
    BY <1>1, <2>1, <2>3 DEF StartRecording, StepType
  <2> QED BY <2>2, <2>3
<1>2. ASSUME NEW b \in {session, LAST}, voice' = Append(voice, b), recording = TRUE,
             recording' = IF b = LAST THEN FALSE ELSE TRUE,
             UNCHANGED <<session, recVars, cloudPc>>
      PROVE  StepInv'
  <2>1. b \in Nat /\ UNCHANGED <<wakeups, dropped, turn, voiceData, mic, behind, session, cloudPc>>
    BY <1>2, LastIsNat DEF StepType, recVars, micVars
  <2>2. StepType'
    BY <1>2, <2>1, Appended DEF StepType
  <2>3. ASSUME InStep PROVE InStep'
    <3>1. PICK f \in Seq(Nat) : Labelled(f)
      BY <2>3 DEF InStep
    <3>2. \E g \in Seq(Nat) : Labelled(g)'
      BY <1>2, <2>1, <3>1, LabelAppended
    <3> QED BY <2>1, <2>3, <3>2 DEF InStep
  <2> QED BY <2>1, <2>2, <2>3
<1>3. session # LAST
  BY LastIsNat DEF StepType
<1>4. CASE Speak
  BY <1>2, <1>3, <1>4 DEF Speak, StepType
<1>5. CASE EndRecording
  BY <1>2, <1>5 DEF EndRecording, StepType
<1> QED BY <1>1, <1>4, <1>5 DEF Engine

\* The WAKEUP that is taken is the next recording's.
LEMMA WakeupInStep ==
    ASSUME StepInv, Wakeup
    PROVE  StepInv'
<1> USE DEF StepInv
<1>1. /\ UNCHANGED <<dropped, voiceData, mic, behind, session, recording, voice>>
      /\ cloudPc = "idle" /\ cloudPc' = "read" /\ wakeups # <<>>
      /\ turn' = Head(wakeups) /\ wakeups' = Tail(wakeups)
  BY DEF Wakeup, engineVars, micVars
<1>2. /\ wakeups' \in Seq(Nat) /\ Len(wakeups') = Len(wakeups) - 1 /\ Len(wakeups) \in Nat
      /\ Len(wakeups) >= 1 /\ turn' = wakeups[1] /\ turn' \in Nat
      /\ \A i \in 1..Len(wakeups) - 1 : wakeups'[i] = wakeups[i + 1]
  BY <1>1, TailTaken DEF StepType
<1>3. ASSUME InStep PROVE InStep'
  <2>1. turn' = turn + 1 /\ turn' <= session /\ Len(wakeups') = session - turn'
    BY <1>2, <1>3 DEF InStep, StepType
  <2>2. ASSUME NEW i \in 1..Len(wakeups') PROVE wakeups'[i] = turn' + i
    <3>1. i \in 1..Len(wakeups) - 1 /\ i + 1 \in 1..Len(wakeups)
      BY <1>2
    <3>2. wakeups'[i] = wakeups[i + 1] /\ wakeups[i + 1] = turn + (i + 1)
      BY <1>2, <1>3, <3>1 DEF InStep
    <3> QED BY <2>1, <3>2 DEF StepType
  <2>3. PICK f \in Seq(Nat) : Labelled(f)
    BY <1>3 DEF InStep
  <2>4. Labelled(f)'
    BY <1>1, <2>1, <2>3, SameLabels DEF Oldest, Newest
  <2>5. voiceData' <= turn' /\ mic' = Blank
    BY <1>1, <1>3, <2>1 DEF InStep, StepType
  <2>6. \A i \in Places : mic'[i] <= turn'
    BY <2>1, <2>5 DEF Blank, StepType
  <2> QED BY <1>1, <2>1, <2>2, <2>4, <2>5, <2>6 DEF InStep
<1> QED BY <1>1, <1>2, <1>3 DEF StepType

\* A block of this recording is saved, or the recording left behind.
LEMMA SaveInStep ==
    ASSUME StepInv, cloudPc = "read", NEW b \in Nat, NEW opened, Save(b, opened),
           voice' \in Seq(Nat), UNCHANGED <<session, recording>>,
           InStep => b <= turn /\ (cloudPc' = "read" => \E f \in Seq(Nat) : Labelled(f)')
    PROVE  StepInv'
<1> USE DEF StepInv
<1>1. UNCHANGED <<wakeups, dropped, turn>> /\ voiceData' = b
  BY DEF Save
<1>2. CASE (UNCHANGED micVars \/ Copy(b)) /\ cloudPc' = cloudPc /\ behind' = behind
  <2>1. StepType'
    <3>1. mic' \in [Places -> Nat]
      BY <1>2 DEF Copy, micVars, StepType
    <3> QED BY <1>1, <1>2, <3>1 DEF StepType
  <2>2. ASSUME InStep PROVE \A i \in Places : mic'[i] <= turn
    BY <1>2, <2>2 DEF Copy, micVars, InStep
  <2>3. InStep => InStep'
    BY <1>1, <1>2, <2>2 DEF InStep
  <2> QED BY <1>1, <1>2, <2>1, <2>3
<1>3. CASE cloudPc' = "idle" /\ behind' = TRUE /\ mic' = mic
  BY <1>1, <1>3 DEF StepType
<1> QED BY <1>2, <1>3, Zenon DEF Save, micVars

LEMMA ReadInStep ==
    ASSUME StepInv, ReadEnd \/ \E opened \in BOOLEAN : ReadBlock(opened) \/ ReadTimeout(opened)
    PROVE  StepInv'
<1> USE DEF StepInv
<1>1. ASSUME NEW opened \in BOOLEAN, ReadBlock(opened) PROVE StepInv'
  <2>1. /\ cloudPc = "read" /\ voice # <<>> /\ Head(voice) # LAST /\ voice' = Tail(voice)
        /\ Save(Head(voice), opened) /\ UNCHANGED <<session, recording, turn>>
    BY <1>1 DEF ReadBlock, Save
  <2>2. voice' \in Seq(Nat) /\ Head(voice) \in Nat
    BY <2>1, TailTaken DEF StepType
  <2>3. ASSUME InStep
        PROVE  Head(voice) <= turn /\ (cloudPc' = "read" => \E f \in Seq(Nat) : Labelled(f)')
    <3>1. PICK f \in Seq(Nat) : Labelled(f)
      BY <2>3 DEF InStep
    <3>2. Head(voice) = turn
      <4>1. 1 \in 1..Len(voice) /\ Head(voice) = voice[1]
        BY <2>1, TailTaken DEF StepType
      <4> QED BY <2>1, <3>1, <4>1 DEF Labelled, Oldest
    <3>3. cloudPc' = "read" => \E g \in Seq(Nat) : Labelled(g)'
      BY <2>1, <3>1, LabelTaken
    <3> QED BY <3>2, <3>3 DEF StepType
  <2> QED BY <2>1, <2>2, <2>3, SaveInStep
<1>2. ASSUME NEW opened \in BOOLEAN, ReadTimeout(opened) PROVE StepInv'
  <2>1. /\ cloudPc = "read" /\ Save(voiceData, opened)
        /\ UNCHANGED <<session, recording, turn, voice>>
    BY <1>2 DEF ReadTimeout, Save, engineVars
  <2>2. ASSUME InStep
        PROVE  voiceData <= turn /\ (cloudPc' = "read" => \E f \in Seq(Nat) : Labelled(f)')
    <3>1. PICK f \in Seq(Nat) : Labelled(f)
      BY <2>2 DEF InStep
    <3>2. cloudPc' = "read" => Labelled(f)'
      BY <2>1, <3>1, SameLabels DEF Oldest, Newest
    <3> QED BY <2>2, <3>2 DEF InStep
  <2> QED BY <2>1, <2>2, SaveInStep DEF StepType
<1>3. CASE ReadEnd
  <2>1. /\ cloudPc = "read" /\ cloudPc' \in {"post", "idle"}
        /\ mic' = mic \/ mic' = Blank
        /\ UNCHANGED <<session, recording, wakeups, dropped, turn, voiceData, behind>>
    BY <1>3 DEF ReadEnd, Clear, micVars
  <2>2. mic' \in [Places -> Nat] /\ (mic' = mic \/ \A i \in Places : mic'[i] = 0)
    BY <2>1 DEF StepType, Blank
  <2>3. CASE voice = <<>>
    <3>1. voice' = voice /\ recording = FALSE
      BY <1>3, <2>3 DEF ReadEnd, StepType
    <3>2. ASSUME InStep PROVE FALSE
      <4>1. PICK f \in Seq(Nat) : Labelled(f)
        BY <3>2 DEF InStep
      <4>2. Len(f) = 1 /\ f[1] = turn /\ f[1] = session + 1
        BY <2>1, <2>3, <3>1, <4>1 DEF Labelled, Oldest, Newest
      <4> QED BY <3>2, <4>2 DEF InStep, StepType
    <3> QED BY <2>1, <2>2, <3>1, <3>2 DEF StepType
  <2>4. CASE voice # <<>>
    <3>1. voice' = Tail(voice) /\ Head(voice) = LAST
      BY <1>3, <2>4 DEF ReadEnd
    <3>2. voice' \in Seq(Nat)
      BY <2>4, <3>1, TailTaken DEF StepType
    <3>3. ASSUME InStep PROVE InStep'
      <4>1. PICK f \in Seq(Nat) : Labelled(f)
        BY <3>3 DEF InStep
      <4>2. \E g \in Seq(Nat) : Labelled(g)'
        BY <2>1, <2>4, <3>1, <4>1, LabelTaken
      <4>3. \A i \in Places : mic'[i] <= turn
        BY <2>2, <3>3 DEF InStep, StepType
      <4>4. cloudPc' = "idle" => mic' = Blank
        BY <1>3 DEF ReadEnd, Clear
      <4> QED BY <2>1, <3>3, <4>2, <4>3, <4>4 DEF InStep
    <3> QED BY <2>1, <2>2, <3>2, <3>3 DEF StepType
  <2> QED BY <2>3, <2>4
<1> QED BY <1>1, <1>2, <1>3

\* Posting and speaking read no block.
LEMMA PostInStep ==
    ASSUME StepInv, PostIt \/ DdhttpTask \/ UNCHANGED vars
    PROVE  StepInv'
<1> USE DEF StepInv
<1>1. /\ UNCHANGED <<session, recording, voice, wakeups, dropped, turn, voiceData, behind>>
      /\ mic' = Blank \/ (mic' = mic /\ (cloudPc' = "idle" => cloudPc = "idle"))
      /\ cloudPc' = "read" <=> cloudPc = "read"
  <2>1. CASE PostIt
    BY <2>1 DEF PostIt, Start, Push, PostFails, Finish, Parse, Send, Posted, Clear, engineVars, recVars, micVars
  <2>2. CASE DdhttpTask \/ UNCHANGED vars
    BY <2>2 DEF DdhttpTask, TakeEvent, Encode, Performed, vars, engineVars, recVars, micVars
  <2> QED BY <2>1, <2>2
<1>2. mic' \in [Places -> Nat] /\ (mic' = mic \/ \A i \in Places : mic'[i] = 0)
  BY <1>1 DEF StepType, Blank
<1>3. ASSUME InStep PROVE InStep'
  <2>1. PICK f \in Seq(Nat) : Labelled(f)
    BY <1>3 DEF InStep
  <2>2. Labelled(f)'
    BY <1>1, <2>1, SameLabels DEF Oldest, Newest
  <2>3. \A i \in Places : mic'[i] <= turn
    BY <1>2, <1>3 DEF InStep, StepType
  <2> QED BY <1>1, <1>3, <2>2, <2>3 DEF InStep
<1> QED BY <1>1, <1>2, <1>3 DEF StepType

\* For every number and length of recordings and of queues and buffer: what is
\* posted was said in the recording whose WAKEUP is served, or before, and
\* nothing of that one has been left unread, unless a file failed to open or a
\* WAKEUP was dropped (dd_cloud_service.c, ddcloud_task).
THEOREM PostedInStepHolds == Spec => []PostedInStep
<1>1. Init => StepInv
  <2> SUFFICES ASSUME Init PROVE StepInv
    OBVIOUS
  <2>1. StepType
    <3>1. voice \in Seq(Nat) /\ wakeups \in Seq(Nat) /\ mic \in [Places -> Nat]
      BY EmptySeq DEF Init, Blank
    <3>2. turn \in Nat /\ session \in 0..MaxSessions /\ voiceData \in Nat
      BY LastIsNat DEF Init
    <3> QED BY <3>1, <3>2 DEF Init, StepType
  <2>2. PICK f \in Seq(Nat) : f = <<1>>
    <3>1. <<1>> \in Seq(Nat)
      OBVIOUS
    <3> QED BY <3>1
  <2>3. Labelled(f)
    BY <2>2 DEF Init, Labelled, Oldest, Newest
  <2>4. InStep
    BY <2>3 DEF Init, InStep, Blank
  <2> QED BY <2>1, <2>4 DEF StepInv
<1>2. StepInv /\ [Next]_vars => StepInv'
  BY EngineInStep, WakeupInStep, ReadInStep, PostInStep DEF Next, Record
<1>3. StepInv => PostedInStep
  <2> SUFFICES ASSUME StepInv, cloudPc \in {"read", "post"}, behind = FALSE, dropped = FALSE
               PROVE  /\ \A i \in DOMAIN mic : mic[i] <= turn
                      /\ cloudPc = "read" => \A i \in DOMAIN voice : voice[i] >= turn
    BY DEF PostedInStep, StepInv, StepType
  <2>1. \A i \in DOMAIN mic : mic[i] <= turn
    BY DEF StepInv, StepType, InStep
  <2>2. ASSUME cloudPc = "read", NEW i \in DOMAIN voice PROVE voice[i] >= turn
    <3>1. PICK f \in Seq(Nat) : Labelled(f)
      BY DEF StepInv, InStep
    <3>2. /\ i \in 1..Len(voice) /\ i \in 1..Len(f) /\ 1 \in 1..Len(f) /\ 1 <= i
          /\ f[i] \in Nat /\ turn \in Nat
      BY <2>2, <3>1 DEF Labelled, StepInv, StepType
    <3>3. f[1] = turn /\ f[1] <= f[i]
      BY <2>2, <3>1, <3>2 DEF Labelled, Oldest
    <3>4. CASE voice[i] = LAST
      BY <3>4, LastIsNat DEF StepInv, StepType, InStep
    <3>5. CASE voice[i] # LAST
      BY <3>1, <3>2, <3>3, <3>5 DEF Labelled
    <3> QED BY <3>4, <3>5
  <2> QED BY <2>1, <2>2
<1> QED
  BY <1>1, <1>2, <1>3, PTL DEF Spec

-----------------------------------------------------------------------------
(* Types.  A recording that runs has a number other than 0, so that what is    *)
(* said carries it; the block that is saved is none that ends a recording.     *)

RecordTypes ==
  /\ recording \in BOOLEAN /\ dropped \in BOOLEAN /\ fileOpen \in BOOLEAN /\ behind \in BOOLEAN
  /\ recording = TRUE => session # 0
  /\ session \in Posts /\ said \in 0..MaxBlocks
  /\ voice \in Seq(1..LAST) /\ wakeups \in Seq(Posts) /\ Len(wakeups) <= QueueLen /\ turn \in Posts
  /\ voiceData \in Posts /\ mic \in [Places -> Posts] /\ micSize \in 0..Capacity
  /\ overrun \in BOOLEAN /\ (overrun = TRUE <=> micSize = Capacity)

AnswerTypes ==
  /\ cloudPc \in {"idle", "read", "post", "response", "parse", "event"} /\ httpPc \in {"idle", "encode", "perform"}
  /\ post \in Nat /\ state \in States /\ text \in Nat /\ ttsEvents \in 0..QueueLen

LEMMA QueueOf ==
    ASSUME NEW S, NEW q \in Seq(S)
    PROVE  /\ \A e \in S : Append(q, e) \in Seq(S) /\ Len(Append(q, e)) = Len(q) + 1
           /\ <<>> \in Seq(S) /\ Len(<<>>) = 0
           /\ q # <<>> => Head(q) \in S /\ Tail(q) \in Seq(S) /\ Len(Tail(q)) = Len(q) - 1
           /\ Len(q) \in Nat
OBVIOUS

LEMMA BlankFits == ASSUME Clear PROVE /\ mic' \in [Places -> Posts] /\ micSize' \in 0..Capacity
                                      /\ overrun' \in BOOLEAN /\ (overrun' = TRUE <=> micSize' = Capacity)
<1>1. Capacity \in Nat \ {0} /\ MaxSessions \in Nat
  BY DdCloudAssumption
<1>2. mic' \in [Places -> Posts]
  BY <1>1 DEF Clear, Blank, Posts
<1>3. micSize' = 0 /\ overrun' = FALSE
  BY DEF Clear
<1>4. micSize' \in 0..Capacity /\ micSize' # Capacity
  BY <1>1, <1>3
<1> QED BY <1>2, <1>3, <1>4, Zenon

LEMMA SaveTypes ==
    ASSUME RecordTypes, NEW b \in Posts, NEW opened \in BOOLEAN, Save(b, opened), UNCHANGED <<session, recording, said>>,
           voice' \in Seq(1..LAST)
    PROVE  RecordTypes'
<1>1. /\ mic' \in [Places -> Posts] /\ micSize' \in 0..Capacity
      /\ overrun' \in BOOLEAN /\ (overrun' = TRUE <=> micSize' = Capacity)
  <2>1. UNCHANGED micVars \/ (Fits /\ Copy(b))
    BY Zenon DEF Save, micVars
  <2>2. CASE UNCHANGED micVars
    BY <2>2 DEF micVars, RecordTypes
  <2>3. CASE Fits /\ Copy(b)
    <3>1. mic' \in [Places -> Posts]
      BY <2>3 DEF Copy, RecordTypes
    <3>2. micSize \in 0..Capacity /\ micSize # Capacity /\ overrun = FALSE /\ micSize' = micSize + 1
      BY <2>3, DdCloudAssumption DEF Fits, Copy, RecordTypes
    <3>3. Capacity \in Nat /\ micSize' \in 0..Capacity
      BY <2>3, <3>2, DdCloudAssumption DEF Fits
    <3>4. overrun' = (micSize' = Capacity)
      BY <2>3, <3>2 DEF Copy
    <3> QED BY <3>1, <3>3, <3>4
  <2> QED BY <2>1, <2>2, <2>3
<1>2. recording' \in BOOLEAN /\ dropped' \in BOOLEAN /\ fileOpen' \in BOOLEAN /\ behind' \in BOOLEAN
  BY DEF Save, RecordTypes
<1>3. session' \in Posts /\ (recording' = TRUE => session' # 0) /\ said' \in 0..MaxBlocks
  BY DEF RecordTypes
<1>4. wakeups' \in Seq(Posts) /\ Len(wakeups') <= QueueLen /\ turn' \in Posts /\ voiceData' \in Posts
  BY DEF RecordTypes, Save
<1> QED BY <1>1, <1>2, <1>3, <1>4 DEF RecordTypes

LEMMA EngineTypes == ASSUME RecordTypes, Engine PROVE RecordTypes'
<1>1. CASE StartRecording
  <2>1. session' \in Posts /\ session' # 0
    BY <1>1, DdCloudAssumption DEF StartRecording, RecordTypes, Posts
  <2>2. wakeups' \in Seq(Posts) /\ Len(wakeups') <= QueueLen
    <3>1. wakeups \in Seq(Posts) /\ Len(wakeups) <= QueueLen
      BY DEF RecordTypes
    <3>2. wakeups' = wakeups \/ (Len(wakeups) < QueueLen /\ wakeups' = Append(wakeups, session'))
      BY <1>1 DEF StartRecording, WakeupSent
    <3>3. Append(wakeups, session') \in Seq(Posts) /\ Len(Append(wakeups, session')) = Len(wakeups) + 1
      BY <2>1, <3>1, QueueOf
    <3> QED BY <3>1, <3>2, <3>3, QueueOf, DdCloudAssumption
  <2>3. recording' \in BOOLEAN /\ dropped' \in BOOLEAN /\ fileOpen' \in BOOLEAN /\ behind' \in BOOLEAN
    BY <1>1 DEF StartRecording, RecordTypes
  <2> QED BY <1>1, <2>1, <2>2, <2>3, DdCloudAssumption DEF StartRecording, RecordTypes, micVars
<1>2. CASE Speak
  <2>1. session \in 1..LAST
    BY <1>2, DdCloudAssumption DEF Speak, RecordTypes, Posts, LAST
  <2>2. voice' \in Seq(1..LAST) /\ said' \in 0..MaxBlocks
    BY <1>2, <2>1, DdCloudAssumption DEF Speak, RecordTypes
  <2> QED BY <1>2, <2>2 DEF Speak, RecordTypes, recVars, micVars
<1>3. CASE EndRecording
  <2>1. voice' \in Seq(1..LAST)
    BY <1>3, DdCloudAssumption DEF EndRecording, RecordTypes, LAST
  <2> QED BY <1>3, <2>1 DEF EndRecording, RecordTypes, recVars, micVars
<1> QED BY <1>1, <1>2, <1>3 DEF Engine

LEMMA RecordTypesStep == ASSUME RecordTypes, [Next]_vars PROVE RecordTypes'
<1>1. CASE Wakeup
  <2>1. /\ wakeups # <<>> /\ turn' = Head(wakeups) /\ wakeups' = Tail(wakeups)
        /\ UNCHANGED <<session, recording, said, voice, dropped, voiceData, fileOpen, behind, mic, micSize, overrun>>
    BY <1>1 DEF Wakeup, engineVars, micVars
  <2>2. turn' \in Posts /\ wakeups' \in Seq(Posts) /\ Len(wakeups') <= QueueLen
    <3>1. wakeups \in Seq(Posts) /\ Len(wakeups) <= QueueLen
      BY DEF RecordTypes
    <3>2. Head(wakeups) \in Posts /\ Tail(wakeups) \in Seq(Posts) /\ Len(Tail(wakeups)) = Len(wakeups) - 1
      BY <2>1, <3>1, QueueOf
    <3> QED BY <2>1, <3>1, <3>2, QueueOf, DdCloudAssumption
  <2> QED BY <2>1, <2>2 DEF RecordTypes
<1>2. ASSUME NEW opened \in BOOLEAN, ReadBlock(opened) PROVE RecordTypes'
  <2>1. Head(voice) \in Posts /\ voice' \in Seq(1..LAST)
    <3>1. voice # <<>> /\ Head(voice) # LAST /\ voice' = Tail(voice) /\ voice \in Seq(1..LAST)
      BY <1>2 DEF ReadBlock, RecordTypes
    <3>2. Head(voice) \in 1..LAST /\ Tail(voice) \in Seq(1..LAST)
      BY <3>1, QueueOf
    <3> QED BY <3>1, <3>2, DdCloudAssumption DEF Posts, LAST
  <2>2. Save(Head(voice), opened) /\ UNCHANGED <<session, recording, said>>
    BY <1>2 DEF ReadBlock
  <2> QED BY <2>1, <2>2, SaveTypes
<1>3. ASSUME NEW opened \in BOOLEAN, ReadTimeout(opened) PROVE RecordTypes'
  <2>1. Save(voiceData, opened) /\ UNCHANGED <<session, recording, said, voice>>
    BY <1>3 DEF ReadTimeout, engineVars
  <2>2. voiceData \in Posts /\ voice \in Seq(1..LAST)
    BY DEF RecordTypes
  <2> QED BY <2>1, <2>2, SaveTypes
<1>4. CASE ReadEnd
  <2>1. /\ mic' \in [Places -> Posts] /\ micSize' \in 0..Capacity /\ voice' \in Seq(1..LAST)
        /\ overrun' \in BOOLEAN /\ (overrun' = TRUE <=> micSize' = Capacity)
    <3>1. /\ voice \in Seq(1..LAST)
          /\ UNCHANGED micVars \/ Clear
          /\ voice' = voice \/ (voice # <<>> /\ voice' = Tail(voice))
      BY <1>4 DEF ReadEnd, RecordTypes
    <3>2. voice # <<>> => Tail(voice) \in Seq(1..LAST)
      BY <3>1, QueueOf
    <3>3. CASE UNCHANGED micVars
      BY <3>1, <3>2, <3>3 DEF micVars, RecordTypes
    <3> QED BY <3>1, <3>2, <3>3, BlankFits
  <2>2. fileOpen' \in BOOLEAN /\ UNCHANGED <<session, recording, said, wakeups, dropped, turn, voiceData, behind>>
    BY <1>4 DEF ReadEnd
  <2> QED BY <2>1, <2>2 DEF RecordTypes
<1>5. CASE PostIt
  <2>1. /\ UNCHANGED <<session, recording, said, voice, wakeups, dropped, turn, voiceData, fileOpen, behind>>
        /\ UNCHANGED micVars \/ Clear
    BY <1>5 DEF PostIt, Start, Push, PostFails, Finish, Send, Parse, Posted, engineVars, recVars
  <2>2. /\ mic' \in [Places -> Posts] /\ micSize' \in 0..Capacity
        /\ overrun' \in BOOLEAN /\ (overrun' = TRUE <=> micSize' = Capacity)
    <3>1. CASE UNCHANGED micVars
      BY <3>1 DEF micVars, RecordTypes
    <3> QED BY <2>1, <3>1, BlankFits
  <2> QED BY <2>1, <2>2 DEF RecordTypes
<1>6. CASE DdhttpTask \/ UNCHANGED vars
  <2>1. UNCHANGED <<engineVars, recVars>>
    BY <1>6 DEF DdhttpTask, TakeEvent, Encode, Performed, vars
  <2> QED BY <2>1 DEF engineVars, recVars, micVars, RecordTypes
<1> QED BY EngineTypes, <1>1, <1>2, <1>3, <1>4, <1>5, <1>6 DEF Next, Record

LEMMA AnswerTypesStep == ASSUME AnswerTypes, [Next]_vars PROVE AnswerTypes'
<1> USE DEF AnswerTypes, States
<1>1. CASE Engine \/ Record
  BY <1>1, RecordKeeps DEF textVars, httpVars
<1>2. CASE Start \/ Push \/ PostFails \/ Finish
  BY <1>2 DEF Start, Push, PostFails, Finish, tts_text_start, Posted, textVars, httpVars
<1>3. ASSUME NEW ok \in BOOLEAN, Parse(ok) PROVE AnswerTypes'
  BY <1>3 DEF Parse, StateAfter, httpVars
<1>4. CASE Send
  BY <1>4, DdCloudAssumption DEF Send, Posted, textVars
<1>5. CASE TakeEvent \/ Encode \/ Performed
  BY <1>5, DdCloudAssumption DEF TakeEvent, Encode, Performed, textVars
<1>6. CASE UNCHANGED vars
  BY <1>6 DEF vars, textVars, httpVars
<1> QED BY <1>1, <1>2, <1>3, <1>4, <1>5, <1>6 DEF Next, PostIt, DdhttpTask

\* For every length of queues and buffer: they keep to their lengths, and only
\* numbers of recordings are saved, queued and served.
THEOREM TypeCorrect == Spec => []TypeOK
<1>1. Init => RecordTypes
  <2>1. Init => /\ session \in Posts /\ said \in 0..MaxBlocks /\ Len(wakeups) <= QueueLen /\ turn \in Posts
                /\ voiceData \in Posts /\ micSize \in 0..Capacity /\ micSize # Capacity
    BY DdCloudAssumption DEF Init, Posts
  <2>2. Init => /\ recording = FALSE /\ dropped = FALSE /\ fileOpen = FALSE /\ behind = FALSE
                /\ voice \in Seq(1..LAST) /\ wakeups \in Seq(Posts) /\ overrun = FALSE
    BY SMT DEF Init
  <2>3. Init => mic \in [Places -> Posts]
    BY DdCloudAssumption DEF Init, Blank, Posts
  <2> QED BY <2>1, <2>2, <2>3 DEF RecordTypes
<1>2. Init => AnswerTypes
  BY DdCloudAssumption DEF Init, AnswerTypes, States
<1>3. RecordTypes /\ AnswerTypes /\ [Next]_vars => (RecordTypes /\ AnswerTypes)'
  BY RecordTypesStep, AnswerTypesStep
<1>4. RecordTypes /\ AnswerTypes => TypeOK
  BY DEF RecordTypes, AnswerTypes, TypeOK
<1> QED BY <1>1, <1>2, <1>3, <1>4, PTL DEF Spec

-----------------------------------------------------------------------------
(* EachOnce.  Every text but 0 is an answer of its own, so that what counts is *)
(* the events.  An event that is pending at a post costs an overtaken answer;  *)
(* between posts one event may be under way that no answer has paid for yet.   *)

Heard == {spoken[i] : i \in DOMAIN spoken} \ {0}
Posting == cloudPc \in {"response", "parse", "event"}
Under == ttsEvents + (IF httpPc = "encode" THEN 1 ELSE 0)
Owed == IF post \in answered THEN Under > 0 /\ post \notin Heard ELSE ttsEvents > 0
Spoke == IF Posting /\ post \in Heard THEN 1 ELSE 0
Credit == IF ~Posting /\ Owed THEN 1 ELSE 0

AnswerFacts ==
  /\ IsFiniteSet(Heard) /\ IsFiniteSet(overtaken)
  /\ \A n \in overtaken : n \in Nat /\ n < post
  /\ \A n \in Heard : n \in Nat /\ n <= post
  /\ \A n \in answered : n # 0
  /\ Posting => post # 0
  /\ post \in Heard => post \in answered
  /\ post \notin answered => text = 0
  /\ post \notin answered /\ cloudPc # "parse" => state # "finish"
  /\ \A n \in answered : n = post \/ n \in overtaken \/ n \in Heard

Counted == Len(spoken) + Under + Spoke <= Cardinality(Heard) + Cardinality(overtaken) + Credit

OnceInv == Inv /\ AnswerFacts /\ Counted

LEMMA HeardNext ==
    ASSUME Inv, spoken' = Append(spoken, text)
    PROVE  Heard' = Heard \cup ({text} \ {0}) /\ Len(spoken') = Len(spoken) + 1
<1>1. /\ spoken \in Seq(Nat) /\ text \in Nat /\ Len(spoken) \in Nat /\ Len(spoken') = Len(spoken) + 1
      /\ DOMAIN spoken = 1..Len(spoken) /\ DOMAIN spoken' = 1..(Len(spoken) + 1)
      /\ \A i \in 1..Len(spoken) : spoken'[i] = spoken[i]
      /\ spoken'[Len(spoken) + 1] = text
  BY DEF Inv
<1>2. \A i \in DOMAIN spoken' : i \in DOMAIN spoken \/ i = Len(spoken) + 1
  BY <1>1
<1>3. DOMAIN spoken \subseteq DOMAIN spoken' /\ Len(spoken) + 1 \in DOMAIN spoken'
  BY <1>1
<1>4. Heard' = Heard \cup ({text} \ {0})
  BY <1>1, <1>2, <1>3, Zenon DEF Heard
<1> QED BY <1>1, <1>4

LEMMA Numbers ==
    ASSUME Inv, AnswerFacts
    PROVE  /\ Len(spoken) \in Nat /\ Under \in Nat /\ ttsEvents \in Nat
           /\ Cardinality(Heard) \in Nat /\ Cardinality(overtaken) \in Nat
           /\ Spoke \in {0, 1} /\ Credit \in {0, 1}
<1>1. Len(spoken) \in Nat /\ ttsEvents \in Nat /\ Under \in Nat
  BY DEF Inv, Under
<1>2. Cardinality(Heard) \in Nat /\ Cardinality(overtaken) \in Nat
  BY FS_CardinalityType DEF AnswerFacts
<1>3. Spoke \in {0, 1} /\ Credit \in {0, 1}
  BY Zenon DEF Spoke, Credit
<1> QED BY <1>1, <1>2, <1>3

\* The steps that neither speak nor send, take or overtake an event, nor leave
\* the request.
LEMMA QuietOnce ==
    ASSUME OnceInv, UNCHANGED <<spoken, ttsEvents, post, overtaken>>, Under' = Under, (Posting' <=> Posting),
           (post \notin answered /\ cloudPc # "parse" => state # "finish")',
           \/ text' = text /\ answered' = answered
           \/ Posting /\ post \notin answered /\ text' = post /\ answered' = answered \cup {post}
    PROVE  AnswerFacts' /\ Counted'
<1>1. Heard' = Heard
  BY DEF Heard
<1>2. AnswerFacts'
  BY <1>1 DEF OnceInv, Inv, AnswerFacts
<1>3. Spoke' = Spoke /\ Credit' = Credit
  BY <1>1, Zenon DEF Spoke, Credit, Owed, OnceInv
<1> QED BY <1>1, <1>2, <1>3 DEF OnceInv, Counted

LEMMA StartOnce == ASSUME OnceInv, Start PROVE AnswerFacts' /\ Counted'
<1>1. /\ cloudPc = "post" /\ cloudPc' = "response" /\ post' = post + 1 /\ state' = "start" /\ text' = 0
      /\ overtaken' = (IF Pending THEN overtaken \cup {post} ELSE overtaken)
      /\ UNCHANGED <<answered, ttsEvents, httpPc, spoken>>
  BY DEF Start, tts_text_start, httpVars
<1>2. Heard' = Heard /\ Under' = Under /\ Posting' /\ ~Posting
  BY <1>1 DEF Heard, Under, Posting
<1>3. /\ post \in Nat /\ post' \notin Heard /\ post' \notin answered /\ post \notin overtaken
      /\ \A n \in Heard : n \in Nat /\ n <= post'
      /\ \A n \in overtaken' : n \in Nat /\ n < post'
  BY <1>1, SMT DEF OnceInv, Inv, AnswerFacts
<1>4. \A n \in answered : n \in overtaken' \/ n \in Heard
  <2>1. post \in answered => Pending \/ post \in Heard
    BY <1>1 DEF OnceInv, Inv, AnswerAwaitsEvent, AnswerFacts, Heard
  <2> QED BY <1>1, <2>1 DEF OnceInv, AnswerFacts
<1>5. IsFiniteSet(overtaken') /\ Cardinality(overtaken') = (IF Pending THEN Cardinality(overtaken) + 1
                                                                       ELSE Cardinality(overtaken))
  BY <1>1, <1>3, FS_AddElement DEF OnceInv, AnswerFacts
<1>6. AnswerFacts'
  BY <1>1, <1>2, <1>3, <1>4, <1>5 DEF OnceInv, AnswerFacts, Inv
<1>7. Spoke' = 0 /\ Spoke = 0 /\ Credit' = 0
  BY <1>2, <1>3, Zenon DEF Spoke, Credit
<1>8. CASE Pending
  <2>1. Cardinality(overtaken') = Cardinality(overtaken) + 1
    BY <1>5, <1>8
  <2> QED BY <1>1, <1>2, <1>6, <1>7, <2>1, Numbers DEF OnceInv, Counted
<1>9. CASE ~Pending
  <2>1. Cardinality(overtaken') = Cardinality(overtaken)
    BY <1>5, <1>9
  <2>2. ttsEvents = 0 /\ Under = 0
    BY <1>9 DEF Pending, Under, OnceInv, Inv
  <2>3. Credit = 0
    BY <2>2 DEF Credit, Owed
  <2> QED BY <1>1, <1>2, <1>6, <1>7, <2>1, <2>3, Numbers DEF OnceInv, Counted
<1> QED BY <1>8, <1>9

\* A response ends: unless its answer has been spoken, its event is owed nothing.
LEMMA PostedOnce ==
    ASSUME OnceInv, Posting, ~Posting', UNCHANGED <<spoken, post, overtaken, text, answered, state, httpPc>>,
           post \notin answered => state # "finish",
           ttsEvents' \in {ttsEvents, ttsEvents + 1}
    PROVE  AnswerFacts' /\ Counted'
<1>1. Heard' = Heard /\ Len(spoken') = Len(spoken)
  BY DEF Heard
<1>2. AnswerFacts'
  BY <1>1 DEF OnceInv, AnswerFacts
<1>3. Under' = Under \/ (Under' = Under + 1 /\ ttsEvents' > 0 /\ Under' > 0)
  <2>1. ttsEvents \in Nat /\ httpPc' = httpPc
    BY DEF OnceInv, Inv
  <2>2. ttsEvents' = ttsEvents \/ ttsEvents' = ttsEvents + 1
    OBVIOUS
  <2>3. CASE ttsEvents' = ttsEvents
    BY <2>1, <2>3 DEF Under
  <2>4. CASE ttsEvents' = ttsEvents + 1
    BY <2>1, <2>4 DEF Under
  <2> QED BY <2>2, <2>3, <2>4
<1>4. Credit = 0 /\ Spoke' = 0 /\ Credit' \in {0, 1}
  BY Zenon DEF Credit, Spoke
<1>5. post \in Heard => Spoke = 1
  BY Zenon DEF Spoke
<1>6. post \notin Heard /\ Under' = Under + 1 => Credit' = 1
  BY <1>1, <1>3, Numbers DEF Credit, Owed, OnceInv
<1>7. Counted'
  <2>1. Cardinality(Heard') = Cardinality(Heard) /\ Cardinality(overtaken') = Cardinality(overtaken)
    BY <1>1
  <2>2. CASE post \in Heard
    BY <1>1, <1>3, <1>4, <1>5, <2>1, <2>2, Numbers DEF OnceInv, Counted
  <2>3. CASE post \notin Heard
    BY <1>1, <1>3, <1>4, <1>6, <2>1, <2>3, Numbers DEF OnceInv, Counted
  <2> QED BY <2>2, <2>3
<1> QED BY <1>2, <1>7

LEMMA TakeOnce == ASSUME OnceInv, TakeEvent PROVE AnswerFacts' /\ Counted'
<1>1. /\ httpPc = "idle" /\ ttsEvents > 0 /\ ttsEvents' = ttsEvents - 1
      /\ httpPc' = IF state = "finish" THEN "encode" ELSE "idle"
      /\ UNCHANGED <<spoken, cloudPc, post, state, text, answered, overtaken>>
  BY DEF TakeEvent, Speakable, textVars
<1>2. Heard' = Heard /\ (Posting' <=> Posting) /\ Len(spoken') = Len(spoken)
  BY <1>1 DEF Heard, Posting
<1>3. AnswerFacts'
  BY <1>1, <1>2 DEF OnceInv, AnswerFacts
<1>4. Spoke' = Spoke
  BY <1>1, <1>2, Zenon DEF Spoke
<1>5. Cardinality(Heard') = Cardinality(Heard) /\ Cardinality(overtaken') = Cardinality(overtaken)
  BY <1>1, <1>2
<1>6. CASE state = "finish"
  <2>1. Under' = Under
    BY <1>1, <1>6 DEF Under, OnceInv, Inv
  <2>2. ~Posting => post \in answered
    BY <1>6 DEF OnceInv, AnswerFacts, Posting
  <2>3. Credit' = Credit
    BY <1>1, <1>2, <2>1, <2>2, Zenon DEF Credit, Owed
  <2> QED BY <1>2, <1>3, <1>4, <1>5, <2>1, <2>3, Numbers DEF OnceInv, Counted
<1>7. CASE state # "finish"
  <2>1. Under' = Under - 1
    BY <1>1, <1>7 DEF Under, OnceInv, Inv
  <2>2. Credit' \in {0, 1}
    BY Zenon DEF Credit
  <2>3. Counted'
    <3>1. /\ Len(spoken) \in Nat /\ Under \in Nat /\ Spoke \in {0, 1} /\ Credit \in {0, 1}
          /\ Cardinality(Heard) \in Nat /\ Cardinality(overtaken) \in Nat
      BY Numbers DEF OnceInv
    <3>2. Len(spoken) + Under + Spoke <= Cardinality(Heard) + Cardinality(overtaken) + Credit
      BY DEF OnceInv, Counted
    <3>3. Len(spoken') + Under' + Spoke' <= Cardinality(Heard') + Cardinality(overtaken') + Credit'
      BY <1>2, <1>4, <1>5, <2>1, <2>2, <3>1, <3>2
    <3> QED BY <3>3 DEF Counted
  <2> QED BY <1>3, <2>3
<1> QED BY <1>6, <1>7

LEMMA EncodeOnce == ASSUME OnceInv, Encode PROVE AnswerFacts' /\ Counted'
<1>1. /\ httpPc = "encode" /\ httpPc' = "perform" /\ spoken' = Append(spoken, text)
      /\ UNCHANGED <<ttsEvents, cloudPc, post, state, text, answered, overtaken>>
  BY DEF Encode, textVars
<1>2. Heard' = Heard \cup ({text} \ {0}) /\ (Posting' <=> Posting)
  BY <1>1, HeardNext DEF OnceInv, Posting
<1>3. /\ Len(spoken') = Len(spoken) + 1 /\ Len(spoken) \in Nat /\ Under = Under' + 1 /\ Under' \in Nat
      /\ Cardinality(overtaken') = Cardinality(overtaken) /\ Cardinality(overtaken) \in Nat /\ Cardinality(Heard) \in Nat
  <2>1. ttsEvents \in Nat
    BY DEF OnceInv, Inv
  <2>2. Under = Under' + 1 /\ Under' \in Nat
    BY <1>1, <2>1 DEF Under
  <2> QED BY <1>1, <2>2, HeardNext, Numbers DEF OnceInv
<1>4. Spoke \in {0, 1} /\ Credit \in {0, 1} /\ Counted
  BY Numbers DEF OnceInv
<1>5. CASE post \notin answered
  <2>1. Heard' = Heard
    BY <1>2, <1>5 DEF OnceInv, AnswerFacts
  <2>2. AnswerFacts'
    BY <1>1, <1>2, <2>1 DEF OnceInv, AnswerFacts
  <2>3. Spoke' = Spoke /\ Credit' = Credit
    BY <1>1, <1>2, <1>5, <2>1, Zenon DEF Spoke, Credit, Owed
  <2>4. Cardinality(Heard') = Cardinality(Heard)
    BY <2>1
  <2>5. Counted'
    BY <1>3, <1>4, <2>3, <2>4 DEF Counted
  <2> QED BY <2>2, <2>5
<1>6. CASE post \in answered
  <2>1. text = post /\ post # 0 /\ post \in Nat /\ Heard' = Heard \cup {post}
    BY <1>2, <1>6 DEF OnceInv, Inv, AnswerFacts
  <2>2. IsFiniteSet(Heard') /\ Cardinality(Heard') = IF post \in Heard THEN Cardinality(Heard) ELSE Cardinality(Heard) + 1
    BY <2>1, FS_AddElement DEF OnceInv, AnswerFacts
  <2>3. AnswerFacts'
    <3>1. IsFiniteSet(overtaken') /\ \A n \in overtaken' : n \in Nat /\ n < post'
      BY <1>1 DEF OnceInv, AnswerFacts
    <3>2. \A n \in Heard' : n \in Nat /\ n <= post'
      BY <1>1, <2>1 DEF OnceInv, AnswerFacts
    <3>3. /\ \A n \in answered' : n # 0
          /\ Posting' => post' # 0
          /\ post' \in Heard' => post' \in answered'
          /\ post' \notin answered' => text' = 0
          /\ post' \notin answered' /\ cloudPc' # "parse" => state' # "finish"
          /\ \A n \in answered' : n = post' \/ n \in overtaken' \/ n \in Heard'
      BY <1>1, <1>6, <2>1, Zenon DEF OnceInv, AnswerFacts
    <3> QED BY <2>2, <3>1, <3>2, <3>3 DEF AnswerFacts
  <2>4. Credit' = 0
    BY <1>1, <1>6, <2>1, Zenon DEF Credit, Owed
  <2>5. CASE post \in Heard
    <3>1. Heard' = Heard
      BY <2>1, <2>5
    <3>2. Spoke' = Spoke /\ Credit = 0
      BY <1>1, <1>2, <1>6, <2>5, <3>1, Zenon DEF Spoke, Credit, Owed
    <3>3. Cardinality(Heard') = Cardinality(Heard)
      BY <3>1
    <3>4. Counted'
      BY <1>3, <1>4, <2>4, <3>2, <3>3 DEF Counted
    <3> QED BY <2>3, <3>4
  <2>6. CASE post \notin Heard
    <3>1. Cardinality(Heard') = Cardinality(Heard) + 1
      BY <2>2, <2>6
    <3>2. Spoke = 0
      BY <2>6, Zenon DEF Spoke
    <3>3. (Spoke' = 0 /\ Credit \in {0, 1}) \/ (Spoke' \in {0, 1} /\ Credit = 0)
      BY <1>2, Zenon DEF Spoke, Credit
    <3>4. Counted'
      BY <1>3, <1>4, <2>4, <3>1, <3>2, <3>3 DEF Counted
    <3> QED BY <2>3, <3>4
  <2> QED BY <2>5, <2>6
<1> QED BY <1>5, <1>6

LEMMA OnceStep == ASSUME OnceInv, [Next]_vars PROVE OnceInv'
<1> SUFFICES AnswerFacts' /\ Counted'
  BY NextInv DEF OnceInv
<1>1. ASSUME UNCHANGED <<textVars, spoken, ttsEvents>>, (Posting' <=> Posting), cloudPc' = "parse" <=> cloudPc = "parse",
             httpPc' = httpPc \/ {httpPc, httpPc'} \subseteq {"idle", "perform"}
      PROVE  AnswerFacts' /\ Counted'
  <2>1. Under' = Under
    BY <1>1 DEF Under
  <2>2. (post \notin answered /\ cloudPc # "parse" => state # "finish")'
    BY <1>1 DEF OnceInv, AnswerFacts, textVars
  <2> QED BY <1>1, <2>1, <2>2, QuietOnce DEF textVars
<1>2. CASE Engine \/ Record
  <2>1. (Posting' <=> Posting) /\ (cloudPc' = "parse" <=> cloudPc = "parse")
    BY <1>2, RecordKeeps DEF Posting
  <2> QED BY <1>1, <1>2, <2>1, RecordKeeps DEF httpVars
<1>3. CASE Push \/ Finish
  <2>1. /\ UNCHANGED <<post, text, answered, overtaken, spoken, ttsEvents, httpPc>> /\ Posting /\ (Posting' <=> Posting)
    BY <1>3 DEF Push, Finish, httpVars, Posting
  <2>2. Under' = Under
    BY <2>1 DEF Under
  <2>3. cloudPc' = "parse" \/ state' # "finish"
    BY <1>3 DEF Push, Finish
  <2> QED BY <2>1, <2>2, <2>3, QuietOnce
<1>4. ASSUME NEW ok \in BOOLEAN, Parse(ok) PROVE AnswerFacts' /\ Counted'
  <2>1. /\ UNCHANGED <<post, overtaken, spoken, ttsEvents, httpPc>> /\ Posting /\ (Posting' <=> Posting)
        /\ post \notin answered
        /\ (text' = text /\ answered' = answered) \/ (text' = post /\ answered' = answered \cup {post})
    BY <1>4 DEF Parse, httpVars, Posting, OnceInv, Inv
  <2>2. Under' = Under
    BY <2>1 DEF Under
  <2>3. post' \in answered' \/ state' # "finish"
    BY <1>4 DEF Parse, StateAfter
  <2> QED BY <2>1, <2>2, <2>3, QuietOnce
<1>5. CASE PostFails
  <2>1. /\ UNCHANGED <<spoken, post, overtaken, text, answered, state, httpPc, ttsEvents>> /\ Posting /\ ~Posting'
    BY <1>5 DEF PostFails, Posted, Posting, httpVars, textVars
  <2>2. post \notin answered /\ state # "finish"
    BY <1>5 DEF PostFails, OnceInv, Inv, AnswerFacts
  <2> QED BY <2>1, <2>2, PostedOnce
<1>6. CASE Send
  <2>1. /\ UNCHANGED <<spoken, post, overtaken, text, answered, state, httpPc>> /\ Posting /\ ~Posting'
        /\ ttsEvents' \in {ttsEvents, ttsEvents + 1}
    BY <1>6 DEF Send, Posted, Posting, textVars
  <2>2. post \notin answered => state # "finish"
    BY <1>6 DEF Send, OnceInv, Inv, AnswerFacts
  <2> QED BY <2>1, <2>2, PostedOnce
<1>7. CASE Performed
  BY <1>1, <1>7 DEF Performed, Posting
<1>8. CASE UNCHANGED vars
  BY <1>1, <1>8 DEF vars, httpVars, Posting
<1> QED
  BY <1>2, <1>3, <1>4, <1>5, <1>6, <1>7, <1>8, StartOnce, TakeOnce, EncodeOnce DEF Next, PostIt, DdhttpTask

\* For every length of queues and buffer and any number of recordings: an
\* answer is lost only if its event was pending at the next post, and whatever
\* else is spoken, twice or as nothing, is paid for by such a loss.
THEOREM EachOnceHolds == Spec => []EachOnce
<1>1. Init => OnceInv
  <2> SUFFICES ASSUME Init PROVE OnceInv
    OBVIOUS
  <2>1. Heard = {} /\ overtaken = {} /\ answered = {} /\ post = 0 /\ text = 0 /\ state = "start" /\ ~Posting
    BY DEF Init, Heard, Posting
  <2>2. AnswerFacts
    BY <2>1, FS_EmptySet DEF AnswerFacts
  <2>3. Spoke = 0 /\ Credit = 0
    BY <2>1 DEF Init, Spoke, Credit, Owed
  <2>4. Under = 0 /\ Len(spoken) = 0
    BY DEF Init, Under
  <2>5. Counted
    BY <2>1, <2>3, <2>4, FS_EmptySet DEF Counted
  <2> QED BY <2>2, <2>5, InitInv DEF OnceInv
<1>2. OnceInv /\ [Next]_vars => OnceInv'
  BY OnceStep
<1>3. OnceInv => EachOnce
  <2> SUFFICES ASSUME OnceInv PROVE EachOnce
    OBVIOUS
  <2>1. \A n \in answered : n = post \/ n \in overtaken \/ \E i \in DOMAIN spoken : spoken[i] = n
    BY Zenon DEF OnceInv, AnswerFacts, Heard
  <2>2. Len(spoken) <= Cardinality(Heard) + Cardinality(overtaken)
    <3>1. /\ Len(spoken) \in Nat /\ Under \in Nat /\ Spoke \in {0, 1} /\ Credit \in {0, 1} /\ Counted
          /\ Cardinality(Heard) \in Nat /\ Cardinality(overtaken) \in Nat
      BY Numbers DEF OnceInv
    <3>2. Credit = 1 => Under > 0
      <4>1. ttsEvents > 0 => Under > 0
        BY DEF Under, OnceInv, Inv
      <4>2. Owed => Under > 0
        BY <4>1, Zenon DEF Owed
      <4>3. ~Owed => Credit = 0
        BY Zenon DEF Credit
      <4> QED BY <4>2, <4>3
    <3> QED BY <3>1, <3>2 DEF Counted
  <2> QED BY <2>1, <2>2 DEF EachOnce, Heard
<1> QED BY <1>1, <1>2, <1>3, PTL DEF Spec
=============================================================================
