------------------------------- MODULE DdCloud -------------------------------
(***************************************************************************)
(* A dialogue of the device with its cloud (src/main/dd_cloud_service.c    *)
(* and dd_http.c).  ddcloud_task reads a recording block by block from the *)
(* recorder engine, posts it, and takes the answer out of the response;    *)
(* ddhttp_task has the answer spoken.  The two share the state and the     *)
(* text of the answer without a lock, and a queue of events without        *)
(* content.                                                                *)
(*                                                                         *)
(* Recordings (sessions) and posts are numbered; the number stands for the *)
(* sound, the response, the answer.  0 is silence and the empty text.      *)
(***************************************************************************)
EXTENDS Naturals, Sequences, FiniteSets

CONSTANTS QueueLen,      \* length of both queues (5 in the code)
          Capacity,      \* blocks that mic_save_buffer holds (MIC_SAVE_BUFFER_SIZE)
          MinBlocks,     \* a recording of no more blocks is not posted
          MaxSessions, MaxBlocks   \* bounds of the model: recordings, blocks of a recording
ASSUME DdCloudAssumption ==
  /\ {QueueLen, Capacity, MaxSessions, MaxBlocks} \subseteq Nat \ {0} /\ MinBlocks \in Nat

VARIABLES
  session, recording, said,   \* the engine: number of the last recording, whether it runs, its blocks so far
  voice,                      \* the engine: blocks not read, a number each; LAST ends a recording
  wakeups, dropped,           \* service->que: the recording of each WAKEUP; history: some WAKEUP was dropped
  cloudPc, turn,              \* place of ddcloud_task, the recording of the WAKEUP it serves
  voiceData, fileOpen, behind, \* its block, its file; history: a recording was left unread
  mic, micSize, overrun,      \* mic_save_buffer, the blocks counted into it; history: this recording wrote past its end
  post, json,                 \* number of the last post, whose data tts_text_json holds
  state, text,                \* tts_text_state, tts_text_nlp_txt
  ttsEvents, httpPc,          \* queue and place of ddhttp_task
  spoken, answered, overtaken \* history: texts spoken, posts answered, posts whose event was pending at the next post
engineVars == <<session, recording, said, voice>>
micVars == <<mic, micSize, overrun>>
recVars == <<wakeups, dropped, turn, voiceData, fileOpen, behind, micVars>>
textVars == <<post, json, state, text, answered, overtaken>>
httpVars == <<ttsEvents, httpPc, spoken>>
vars == <<engineVars, recVars, cloudPc, textVars, httpVars>>

LAST == MaxSessions + 1
States == {"start", "run", "finish", "err"}

Places == 0..(Capacity - 1)     \* of mic_save_buffer, in blocks
Blank == [i \in Places |-> 0]

Init ==
  /\ session = 0 /\ recording = FALSE /\ said = 0 /\ voice = <<>>
  /\ wakeups = <<>> /\ dropped = FALSE /\ turn = 0
  /\ voiceData = 0 /\ fileOpen = FALSE /\ behind = FALSE
  /\ mic = Blank /\ micSize = 0 /\ overrun = FALSE
  /\ cloudPc = "idle"
  /\ post = 0 /\ json = {} /\ state = "start" /\ text = 0 /\ answered = {} /\ overtaken = {}
  /\ ttsEvents = 0 /\ httpPc = "idle" /\ spoken = <<>>

-----------------------------------------------------------------------------
(* The recorder engine: a recording starts (key or wake word) with the     *)
(* event REC_EVENT_WAKEUP_START, goes on, and ends with a last block.      *)
\* Mutant: ddOSEvtSend called with dir = 1.
WakeupToFront(s) == <<s>> \o wakeups
WakeupSent(s) == Append(wakeups, s)
StartRecording ==
  /\ ~recording /\ session < MaxSessions
  /\ session' = session + 1 /\ recording' = TRUE /\ said' = 0
  /\ IF Len(wakeups) < QueueLen THEN wakeups' = WakeupSent(session') /\ UNCHANGED dropped
                                ELSE dropped' = TRUE /\ UNCHANGED wakeups
  /\ UNCHANGED <<voice, turn, voiceData, fileOpen, behind, micVars, cloudPc, textVars, httpVars>>
Speak ==
  /\ recording /\ said < MaxBlocks
  /\ said' = said + 1 /\ voice' = Append(voice, session)
  /\ UNCHANGED <<session, recording, recVars, cloudPc, textVars, httpVars>>
EndRecording ==
  /\ recording /\ recording' = FALSE /\ voice' = Append(voice, LAST)
  /\ UNCHANGED <<session, said, recVars, cloudPc, textVars, httpVars>>

-----------------------------------------------------------------------------
(* ddcloud_task: recording. *)
Wakeup ==
  /\ cloudPc = "idle" /\ wakeups # <<>>
  /\ turn' = Head(wakeups) /\ wakeups' = Tail(wakeups) /\ cloudPc' = "read"
  /\ UNCHANGED <<dropped, voiceData, fileOpen, behind, micVars, engineVars, textVars, httpVars>>

\* Mutant: the block that fills the buffer is not counted.
FitsOneMore == micSize <= Capacity
Fits == micSize + 1 <= Capacity
\* The size is advanced before the copy, so that each block lands one place
\* further: the first place stays blank, and the block that fills the buffer
\* is copied past its end (what it overwrites there is not modelled).
Copy(b) ==
  /\ micSize' = micSize + 1
  /\ mic' = [i \in Places |-> IF i = micSize' THEN b ELSE mic[i]]
  /\ overrun' = (overrun \/ micSize' = Capacity)
Clear == mic' = Blank /\ micSize' = 0 /\ overrun' = FALSE

\* A block is saved while it fits; the first of a recording opens its debug
\* file, and if that fails the task goes back to its queue, the recording unread.
Save(b, opened) ==
  /\ voiceData' = b
  /\ IF fileOpen \/ opened
     THEN /\ fileOpen' = TRUE /\ IF Fits THEN Copy(b) ELSE UNCHANGED micVars
          /\ UNCHANGED <<cloudPc, behind>>
     ELSE cloudPc' = "idle" /\ behind' = TRUE /\ UNCHANGED <<fileOpen, micVars>>
  /\ UNCHANGED <<wakeups, dropped, turn>>

ReadBlock(opened) ==
  /\ cloudPc = "read" /\ voice # <<>> /\ Head(voice) # LAST
  /\ voice' = Tail(voice) /\ Save(Head(voice), opened)
  /\ UNCHANGED <<session, recording, said, textVars, httpVars>>

\* A timeout (-2) is neither 0 nor -1: the old contents of voiceData are saved again.
ReadTimeout(opened) ==
  /\ cloudPc = "read" /\ voice = <<>> /\ recording /\ Fits
  /\ Save(voiceData, opened)
  /\ UNCHANGED <<engineVars, textVars, httpVars>>

\* The last block (0), or no recording (-1): what was saved is posted, or dropped.
ReadEnd ==
  /\ cloudPc = "read" /\ IF voice = <<>> THEN ~recording ELSE Head(voice) = LAST
  /\ voice' = (IF voice = <<>> THEN voice ELSE Tail(voice)) /\ fileOpen' = FALSE
  /\ IF micSize > MinBlocks THEN cloudPc' = "post" /\ UNCHANGED micVars
                            ELSE cloudPc' = "idle" /\ Clear
  /\ UNCHANGED <<session, recording, said, wakeups, dropped, turn, voiceData, behind, textVars, httpVars>>

-----------------------------------------------------------------------------
(* ddcloud_task: the post and its response (ddcloud_http_data_post). *)
Pending == ttsEvents > 0 \/ httpPc = "encode"
tts_text_start == state' = "start" /\ json' = {} /\ text' = 0
Start ==
  /\ cloudPc = "post" /\ cloudPc' = "response" /\ post' = post + 1
  /\ tts_text_start
  /\ overtaken' = (IF Pending THEN overtaken \cup {post} ELSE overtaken)
  /\ UNCHANGED <<answered, engineVars, recVars, httpVars>>

\* HTTP_EVENT_ON_DATA: tts_text_push.
Push ==
  /\ cloudPc = "response" /\ json' = json \cup {post} /\ state' = "run"
  /\ UNCHANGED <<cloudPc, post, text, answered, overtaken, engineVars, recVars, httpVars>>

\* The request fails before HTTP_EVENT_ON_FINISH: no event is sent.
Posted == cloudPc' = "idle" /\ Clear
PostFails ==
  /\ cloudPc = "response" /\ Posted
  /\ UNCHANGED <<wakeups, dropped, turn, voiceData, fileOpen, behind, engineVars, textVars, httpVars>>

\* HTTP_EVENT_ON_FINISH: tts_text_finish says finish, then parses, copies the
\* answer, and sends the event; without an answer it says err and sends it too.
Finish ==
  /\ cloudPc = "response" /\ cloudPc' = "parse" /\ state' = "finish"
  /\ UNCHANGED <<post, json, text, answered, overtaken, engineVars, recVars, httpVars>>
\* What tts_text_finish leaves in tts_text_state.
\* Mutants: the return of a complete answer forgotten; err not said.
StateFallsThrough(ok) == "err"
StateNoErr(ok) == state
StateAfter(ok) == IF ok THEN state ELSE "err"
Parse(ok) ==
  /\ cloudPc = "parse" /\ cloudPc' = "event"
  /\ ok => json = {post}
  /\ text' = (IF ok THEN post ELSE text) /\ answered' = (IF ok THEN answered \cup {post} ELSE answered)
  /\ state' = StateAfter(ok)
  /\ UNCHANGED <<post, json, overtaken, engineVars, recVars, httpVars>>
Send ==
  /\ cloudPc = "event" /\ Posted
  /\ ttsEvents' = IF ttsEvents < QueueLen THEN ttsEvents + 1 ELSE ttsEvents
  /\ UNCHANGED <<wakeups, dropped, turn, voiceData, fileOpen, behind, engineVars, textVars, httpPc, spoken>>

-----------------------------------------------------------------------------
(* ddhttp_task: the state is tested when the event is taken, the text read   *)
(* when it is encoded into the request.                                      *)
\* Mutant: the state of a response that has not ended.
SpeakableEarly == state = "run"
Speakable == state = "finish"
TakeEvent ==
  /\ httpPc = "idle" /\ ttsEvents > 0 /\ ttsEvents' = ttsEvents - 1
  /\ httpPc' = IF Speakable THEN "encode" ELSE "idle"
  /\ UNCHANGED <<spoken, cloudPc, engineVars, recVars, textVars>>
Encode ==
  /\ httpPc = "encode" /\ httpPc' = "perform" /\ spoken' = Append(spoken, text)
  /\ UNCHANGED <<ttsEvents, cloudPc, engineVars, recVars, textVars>>
Performed ==
  /\ httpPc = "perform" /\ httpPc' = "idle"
  /\ UNCHANGED <<ttsEvents, spoken, cloudPc, engineVars, recVars, textVars>>

Engine == StartRecording \/ Speak \/ EndRecording
Record == Wakeup \/ ReadEnd \/ \E opened \in BOOLEAN : ReadBlock(opened) \/ ReadTimeout(opened)
PostIt == Start \/ Push \/ PostFails \/ Finish \/ Send \/ \E ok \in BOOLEAN : Parse(ok)
DdhttpTask == TakeEvent \/ Encode \/ Performed
Next == Engine \/ Record \/ PostIt \/ DdhttpTask
Spec == Init /\ [][Next]_vars /\ WF_vars(DdhttpTask)

-----------------------------------------------------------------------------
Posts == 0..MaxSessions
(* Types and lengths.  The size that is posted stays within mic_save_buffer,   *)
(* the copy does not: a recording that fills it is written past its end.       *)
TypeOK ==
  /\ session \in Posts /\ {recording, dropped, fileOpen, behind, overrun} \subseteq BOOLEAN /\ said \in 0..MaxBlocks
  /\ voice \in Seq(1..LAST) /\ wakeups \in Seq(Posts) /\ Len(wakeups) <= QueueLen /\ turn \in Posts
  /\ cloudPc \in {"idle", "read", "post", "response", "parse", "event"} /\ httpPc \in {"idle", "encode", "perform"}
  /\ voiceData \in Posts /\ mic \in [Places -> Posts] /\ micSize \in 0..Capacity
  /\ post \in Nat /\ state \in States /\ text \in Nat /\ ttsEvents \in 0..QueueLen
  /\ overrun <=> micSize = Capacity

(* A response is parsed on its own: nothing of an earlier one, or of one that  *)
(* failed half way, is left in the buffer (tts_text_start at each post).       *)
OneResponse == json \subseteq {post}

(* The recording that is posted is the one whose WAKEUP is served, as long as  *)
(* no file failed to open and no WAKEUP was dropped: after either, its blocks  *)
(* are left to the next WAKEUP.  (Blocks repeated by a timeout apart.)         *)
PostedInStep ==
  cloudPc \in {"read", "post"} /\ ~behind /\ ~dropped =>
    /\ \A i \in DOMAIN mic : mic[i] <= turn
    /\ cloudPc = "read" => \A i \in DOMAIN voice : voice[i] >= turn

(* The last answer is spoken or about to be, until the next recording is       *)
(* posted: its event is queued, or the text is being read.                     *)
AnswerAwaitsEvent ==
  post \in answered /\ cloudPc \in {"idle", "read", "post"} =>
    Pending \/ \E i \in DOMAIN spoken : spoken[i] = post

(* An earlier answer is missing only if its event was pending when the next    *)
(* post began, and no other event makes the device speak twice or say nothing. *)
EachOnce ==
  /\ \A n \in answered : n = post \/ n \in overtaken \/ \E i \in DOMAIN spoken : spoken[i] = n
  /\ Len(spoken) <= Cardinality({spoken[i] : i \in DOMAIN spoken} \ {0}) + Cardinality(overtaken)

(* An answer whose event is sent is spoken, unless the next post comes first. *)
AnswerIsSpoken ==
  \A n \in 1..MaxSessions :
    (n \in answered /\ cloudPc # "event") ~> (n \in overtaken \/ \E i \in DOMAIN spoken : spoken[i] = n)
=============================================================================
