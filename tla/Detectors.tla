------------------------------ MODULE Detectors ------------------------------
(***************************************************************************)
(* The three detectors of the device controller (SDCardManager.c and       *)
(* SDCardConfig.c, AuxInManager.c and auxinconfig.c, HeadphoneConfig.c)    *)
(* and the key task (TouchControlService.c) that the line input blocks.    *)
(*                                                                         *)
(* The card and the line-in detectors are tasks with a queue of one, which *)
(* an interrupt on either edge fills.  A task PEEKS, works, and receives   *)
(* at the end, so an edge that finds the queue full is not queued: it is   *)
(* seen if the task has yet to read the level, and lost (late) if not.     *)
(* The headphone detector restarts a one-shot timer on each edge.          *)
(***************************************************************************)
EXTENDS Naturals, Sequences

CONSTANTS Cards,        \* the memory cards a user owns
          NoCard,       \* an empty slot, no mounted card
          KeyQueueLen   \* length of xQueueTouchService
ASSUME DetectorsAssumption == NoCard \notin Cards /\ KeyQueueLen \in Nat \ {0}

VARIABLES
  slot, mounted,      \* the card in the slot; the card of the mounted file system
  cardQ, cardPc, lastState, cardMsg, told,   \* queue, task, its locals; what the playlist manager was told last
  cardLate, cardFailed,  \* history: an edge came after the look; the last (un)mount failed
  cardForgot,         \* history: the card was taken between the mount and the task's first look
  plug, codec, blocking,      \* the socket, CODEC_MODE_LINE_IN, _blocking of the key service
  auxQ, auxTask, auxPc, auxSeen, auxLate,
  hpLevel, hpTimer, pa,       \* the headphone pin, its timer, the amplifier
  keys, touchPc, held,        \* queue of the key task, its place, the record key
  recFlag, raw, answer,       \* recodingFlg, the player records, a RAW status in syncQ
  playing,                    \* the player plays
  early,                      \* history: the keys were not blocked when the key task took the key it serves
  starter,                    \* history: who started the player after the pause of a round, or under the line input
  quitLost, vain              \* history, see the properties
cardVars == <<slot, mounted, cardQ, cardPc, lastState, cardMsg, told, cardLate, cardFailed, cardForgot>>
auxVars == <<plug, codec, blocking, auxQ, auxTask, auxPc, auxSeen, auxLate>>
hpVars == <<hpLevel, hpTimer, pa>>
keyVars == <<keys, touchPc, held, recFlag, raw, answer, early, quitLost, vain>>
playVars == <<playing, starter>>
vars == <<cardVars, auxVars, hpVars, keyVars, playVars>>

Slots == Cards \cup {NoCard}
CardPcs == {"active", "first", "begin", "peek", "unmount", "detect", "mount", "tell", "receive"}
AuxPcs == {"peek", "detect", "pause", "codec", "tell", "receive"}
CardMsgs == {"UNDEFINED", "MOUNTED", "UNMOUNTED", "MOUNT_FAILED"}
Keys == {"NEXT", "PLAY", "REC", "REC_QUIT"}
Starters == {"nobody", "early key", "other"}

\* The player is paused, or ends.
Silent == playing' = FALSE /\ starter' = "nobody"

Init ==
  /\ slot \in Slots /\ mounted = NoCard /\ cardQ = FALSE /\ cardPc = "active" /\ lastState = FALSE
  /\ cardMsg = "UNDEFINED" /\ told = "UNDEFINED"
  /\ cardLate = FALSE /\ cardFailed = FALSE /\ cardForgot = FALSE
  /\ plug \in BOOLEAN /\ codec = FALSE /\ blocking = FALSE
  /\ auxQ = FALSE /\ auxTask = FALSE /\ auxPc = "detect" /\ auxSeen = FALSE /\ auxLate = FALSE
  /\ hpLevel \in BOOLEAN /\ hpTimer = TRUE /\ pa = TRUE
  /\ keys = <<>> /\ touchPc = "idle" /\ held = FALSE
  /\ recFlag = FALSE /\ raw = FALSE /\ answer = FALSE /\ quitLost = FALSE /\ vain = FALSE
  /\ early = FALSE /\ playing = FALSE /\ starter = "nobody"

-----------------------------------------------------------------------------
(* The card.  An edge: the interrupt's send finds the queue free, or is dropped. *)
SwapCard(c) ==
  /\ c # slot /\ (slot = NoCard \/ c = NoCard) /\ slot' = c
  /\ cardQ' = TRUE
  /\ cardLate' = (cardLate \/ (cardQ /\ cardPc \in {"mount", "tell", "receive"}))
  /\ UNCHANGED <<mounted, cardPc, lastState, cardMsg, told, cardFailed, cardForgot, auxVars, hpVars, keyVars, playVars>>

\* sd_card_mount of what is in the slot when it runs: a card can be unreadable.
\* With a file system mounted it is ESP_ERR_INVALID_STATE, which the callers accept.
Mount(ok) ==
  /\ IF mounted # NoCard THEN ok ELSE ok => slot # NoCard
  /\ mounted' = IF ok /\ mounted = NoCard THEN slot ELSE mounted

\* SDCardManagerActive: the first look, and the mount it leads to; a failed one
\* is followed by an unmount, of nothing.
CardActive ==
  /\ cardPc = "active" /\ cardPc' = IF slot # NoCard THEN "first" ELSE "begin"
  /\ UNCHANGED <<slot, mounted, cardQ, lastState, cardMsg, told, cardLate, cardFailed, cardForgot, auxVars, hpVars, keyVars, playVars>>
CardFirst(ok) ==
  /\ cardPc = "first" /\ cardPc' = "begin"
  /\ Mount(ok) /\ cardFailed' = ~ok /\ told' = IF ok THEN "MOUNTED" ELSE "UNMOUNTED"
  /\ UNCHANGED <<slot, cardQ, lastState, cardMsg, cardLate, cardForgot, auxVars, hpVars, keyVars, playVars>>

\* Mutant: the task starts without a look.
CardBeginBlank ==
  /\ cardPc = "begin" /\ cardPc' = "peek" /\ lastState' = FALSE
  /\ cardForgot' = (slot = NoCard /\ mounted # NoCard)
  /\ UNCHANGED <<slot, mounted, cardQ, cardMsg, told, cardLate, cardFailed, auxVars, hpVars, keyVars, playVars>>
\* The task starts: it looks again and takes an inserted card for a mounted one.
CardBegin ==
  /\ cardPc = "begin" /\ cardPc' = "peek" /\ lastState' = (slot # NoCard)
  /\ cardForgot' = (slot = NoCard /\ mounted # NoCard)
  /\ UNCHANGED <<slot, mounted, cardQ, cardMsg, told, cardLate, cardFailed, auxVars, hpVars, keyVars, playVars>>

CardPeek ==
  /\ cardPc = "peek" /\ cardQ
  /\ cardPc' = IF lastState THEN "unmount" ELSE "detect"
  /\ cardMsg' = "UNDEFINED" /\ cardFailed' = FALSE /\ Silent
  /\ UNCHANGED <<slot, mounted, cardQ, lastState, told, cardLate, cardForgot, auxVars, hpVars, keyVars>>

Unmount(ok) ==
  /\ cardPc = "unmount" /\ cardPc' = "detect"
  /\ IF ok THEN mounted' = NoCard /\ lastState' = FALSE /\ cardMsg' = "UNMOUNTED"
                /\ cardForgot' = FALSE /\ UNCHANGED cardFailed
           ELSE cardFailed' = TRUE /\ UNCHANGED <<mounted, lastState, cardMsg, cardForgot>>
  /\ UNCHANGED <<slot, cardQ, told, cardLate, auxVars, hpVars, keyVars, playVars>>

CardDetect ==
  /\ cardPc = "detect" /\ cardLate' = FALSE
  /\ cardPc' = IF slot # NoCard /\ ~lastState THEN "mount" ELSE "tell"
  /\ UNCHANGED <<slot, mounted, cardQ, lastState, cardMsg, told, cardFailed, cardForgot, auxVars, hpVars, keyVars, playVars>>

CardMount(ok) ==
  /\ cardPc = "mount" /\ cardPc' = "tell"
  /\ Mount(ok) /\ lastState' = ok /\ cardFailed' = ~ok
  /\ cardMsg' = IF ok THEN "MOUNTED" ELSE "MOUNT_FAILED"
  /\ UNCHANGED <<slot, cardQ, told, cardLate, cardForgot, auxVars, hpVars, keyVars, playVars>>

\* The playlist manager takes no notice of UNDEFINED.
CardTell ==
  /\ cardPc = "tell" /\ cardPc' = "receive" /\ told' = IF cardMsg = "UNDEFINED" THEN told ELSE cardMsg
  /\ UNCHANGED <<slot, mounted, cardQ, lastState, cardMsg, cardLate, cardFailed, cardForgot, auxVars, hpVars, keyVars, playVars>>
CardReceive ==
  /\ cardPc = "receive" /\ cardPc' = "peek" /\ cardQ' = FALSE
  /\ UNCHANGED <<slot, mounted, lastState, cardMsg, told, cardLate, cardFailed, cardForgot, auxVars, hpVars, keyVars, playVars>>

CardTask == \/ CardActive \/ CardBegin \/ CardPeek \/ CardDetect \/ CardTell \/ CardReceive
            \/ \E ok \in BOOLEAN : CardFirst(ok) \/ Unmount(ok) \/ CardMount(ok)
CardNext == CardTask \/ \E c \in Slots : SwapCard(c)

-----------------------------------------------------------------------------
(* The line input.  AuxInManagerActive runs the first round (without       *)
(* receive, and only if a cable is in), the task all later ones.           *)
SwapPlug ==
  /\ plug' = ~plug /\ auxQ' = TRUE
  /\ auxLate' = (auxLate \/ (auxQ /\ auxTask /\ auxPc \in {"pause", "codec", "tell", "receive"}))
  /\ UNCHANGED <<codec, blocking, auxTask, auxPc, auxSeen, cardVars, hpVars, keyVars, playVars>>

AuxPeek ==
  /\ auxPc = "peek" /\ auxQ /\ auxPc' = "detect"
  /\ UNCHANGED <<plug, codec, blocking, auxQ, auxTask, auxSeen, auxLate, cardVars, hpVars, keyVars, playVars>>
AuxDetect ==
  /\ auxPc = "detect" /\ auxSeen' = plug /\ auxLate' = FALSE
  /\ IF auxTask \/ plug THEN auxPc' = "pause" /\ UNCHANGED auxTask
                        ELSE auxPc' = "peek" /\ auxTask' = TRUE
  /\ UNCHANGED <<plug, codec, blocking, auxQ, cardVars, hpVars, keyVars, playVars>>
AuxPause ==
  /\ auxPc = "pause" /\ auxPc' = "codec" /\ Silent
  /\ UNCHANGED <<plug, codec, blocking, auxQ, auxTask, auxSeen, auxLate, cardVars, hpVars, keyVars>>
AuxCodec ==
  /\ auxPc = "codec" /\ auxPc' = "tell" /\ codec' = auxSeen
  /\ UNCHANGED <<plug, blocking, auxQ, auxTask, auxSeen, auxLate, cardVars, hpVars, keyVars, playVars>>

\* Mutant: a cable that is in at the start is not notified.
AuxTellLater ==
  /\ auxPc = "tell" /\ blocking' = (IF auxTask THEN auxSeen ELSE blocking)
  /\ auxPc' = (IF auxTask THEN "receive" ELSE "peek") /\ auxTask' = TRUE
  /\ UNCHANGED <<plug, codec, auxQ, auxSeen, auxLate, cardVars, hpVars, keyVars, playVars>>
\* AuxInEvtNotify; DeviceEvtNotifiedToTouch sets or clears _blocking.
AuxTell ==
  /\ auxPc = "tell" /\ blocking' = auxSeen
  /\ auxPc' = (IF auxTask THEN "receive" ELSE "peek") /\ auxTask' = TRUE
  /\ UNCHANGED <<plug, codec, auxQ, auxSeen, auxLate, cardVars, hpVars, keyVars, playVars>>
AuxReceive ==
  /\ auxPc = "receive" /\ auxPc' = "peek" /\ auxQ' = FALSE
  /\ UNCHANGED <<plug, codec, blocking, auxTask, auxSeen, auxLate, cardVars, hpVars, keyVars, playVars>>
AuxNext == SwapPlug \/ AuxPeek \/ AuxDetect \/ AuxPause \/ AuxCodec \/ AuxTell \/ AuxReceive

-----------------------------------------------------------------------------
(* The headphones: the callback of the timer reads the level again. *)
\* Mutant: the interrupt is on one edge only.
SwapPhonesRising ==
  /\ hpLevel' = ~hpLevel /\ hpTimer' = (hpTimer \/ hpLevel')
  /\ UNCHANGED <<pa, cardVars, auxVars, keyVars, playVars>>
SwapPhones ==
  /\ hpLevel' = ~hpLevel /\ hpTimer' = TRUE
  /\ UNCHANGED <<pa, cardVars, auxVars, keyVars, playVars>>
hp_timer_cb ==
  /\ hpTimer /\ hpTimer' = FALSE /\ pa' = hpLevel
  /\ UNCHANGED <<hpLevel, cardVars, auxVars, keyVars, playVars>>

-----------------------------------------------------------------------------
(* The keys.  The user presses keys and holds the record key while speaking. *)
Queued(k) == \E i \in DOMAIN keys : keys[i] = k
\* Mutant: the key service's queue takes every key.
PostAlways(k) == keys' = Append(keys, k)
Post(k) == keys' = IF Len(keys) < KeyQueueLen THEN Append(keys, k) ELSE keys
PressKey(k) ==
  /\ k \in {"NEXT", "PLAY"} /\ Post(k)
  /\ UNCHANGED <<touchPc, held, recFlag, raw, answer, early, quitLost, vain, cardVars, auxVars, hpVars, playVars>>
HoldRec ==
  /\ ~held /\ held' = TRUE /\ Post("REC")
  /\ UNCHANGED <<touchPc, recFlag, raw, answer, early, quitLost, vain, cardVars, auxVars, hpVars, playVars>>
ReleaseRec ==
  /\ held /\ held' = FALSE /\ Post("REC_QUIT")
  /\ quitLost' = (quitLost \/ Len(keys) = KeyQueueLen)
  /\ UNCHANGED <<touchPc, recFlag, raw, answer, early, vain, cardVars, auxVars, hpVars, playVars>>

\* From the pause of a round until the keys are free again nobody should start
\* the player: who did is remembered if it had an excuse.  A start can also fail.
Paused == blocking \/ auxPc \in {"codec", "tell"}
Started(who) == playing' = TRUE /\ starter' = IF Paused THEN who ELSE "nobody"
StartPlaying(who) == Started(who) \/ UNCHANGED playVars
KeyStarts == StartPlaying(IF early THEN "early key" ELSE "nobody")

Take(k) == touchPc = "idle" /\ keys # <<>> /\ k = Head(keys) /\ keys' = Tail(keys)
Early == early' = (touchPc' # "idle" /\ ~blocking)

\* Mutant: next and previous are served under the line input too.
TakeNextBlocked ==
  /\ Take("NEXT") /\ touchPc' = "play" /\ Early
  /\ UNCHANGED <<held, recFlag, raw, answer, quitLost, vain, cardVars, auxVars, hpVars, playVars>>
\* Next and previous: _blocking is tested, then the player is called.
TakeNext ==
  /\ Take("NEXT") /\ touchPc' = (IF blocking THEN "idle" ELSE "play") /\ Early
  /\ UNCHANGED <<held, recFlag, raw, answer, quitLost, vain, cardVars, auxVars, hpVars, playVars>>
PlayNext ==
  /\ touchPc = "play" /\ touchPc' = "idle" /\ early' = FALSE /\ KeyStarts
  /\ UNCHANGED <<keys, held, recFlag, raw, answer, quitLost, vain, cardVars, auxVars, hpVars>>

\* Play: a playing player is paused; otherwise the cloud is asked to play, and
\* its answer starts the player later (OthersPlay).
TakePlay ==
  /\ Take("PLAY") /\ IF blocking THEN UNCHANGED playVars ELSE Silent
  /\ UNCHANGED <<touchPc, held, recFlag, raw, answer, early, quitLost, vain, cardVars, auxVars, hpVars>>

\* What rawStart returns is not looked at: ok says whether it succeeded.
TakeRec(ok) ==
  /\ Take("REC")
  /\ recFlag' = (recFlag \/ ~blocking) /\ raw' = (raw \/ (ok /\ ~blocking))
  /\ UNCHANGED <<touchPc, held, answer, early, quitLost, vain, cardVars, auxVars, hpVars, playVars>>

Honoured == ~blocking /\ recFlag
\* syncQ is reset first, so that a later status is the answer to rawStop.
ResetSync == answer' = FALSE
TakeQuit ==
  /\ Take("REC_QUIT")
  /\ IF Honoured
     THEN ResetSync /\ touchPc' = "quit" /\ vain' = ~raw /\ quitLost' = (quitLost /\ Queued("REC"))
     ELSE quitLost' = (quitLost \/ recFlag) /\ UNCHANGED <<answer, touchPc, vain>>
  /\ Early
  /\ UNCHANGED <<held, recFlag, raw, cardVars, auxVars, hpVars, playVars>>

\* rawStop; the player tells its end later (RawEnds).
\* Mutant: syncQ is reset after rawStop.
StopRawThenReset == answer' = FALSE
StopRaw == UNCHANGED answer
QuitStops ==
  /\ touchPc = "quit" /\ touchPc' = "wait" /\ StopRaw
  /\ UNCHANGED <<keys, held, recFlag, raw, early, quitLost, vain, cardVars, auxVars, hpVars, playVars>>
\* Mutant: the wait ends with any status of the player.
QuitPlaysAny ==
  /\ touchPc = "wait" /\ answer' = FALSE
  /\ touchPc' = "idle" /\ early' = FALSE /\ recFlag' = FALSE /\ KeyStarts
  /\ UNCHANGED <<keys, held, raw, quitLost, vain, cardVars, auxVars, hpVars>>
QuitPlays ==
  /\ touchPc = "wait" /\ answer /\ answer' = FALSE
  /\ touchPc' = "idle" /\ early' = FALSE /\ recFlag' = FALSE /\ KeyStarts
  /\ UNCHANGED <<keys, held, raw, quitLost, vain, cardVars, auxVars, hpVars>>
TouchTask == TakeNext \/ PlayNext \/ TakePlay \/ (\E ok \in BOOLEAN : TakeRec(ok)) \/ TakeQuit \/ QuitStops \/ QuitPlays

\* The player ends a recording: stopped, or taken by another service, with a
\* status the wait accepts (STOP, FINISHED), or without: with ERROR (a write that
\* fails, the card pulled), or with a status that finds syncQ full.
Ending == touchPc \in {"quit", "wait"}
RawEnds(accepted) ==
  /\ raw /\ raw' = FALSE /\ answer' = (answer \/ accepted)
  /\ vain' = (vain \/ (Ending /\ ~accepted))
  /\ UNCHANGED <<keys, touchPc, held, recFlag, early, quitLost, cardVars, auxVars, hpVars, playVars>>
\* DEVICE_NOTIFY_WIFI_GOT_IP resumes the player, _blocking or not.
GotIp ==
  /\ StartPlaying("other") /\ UNCHANGED <<cardVars, auxVars, hpVars, keyVars>>
\* The cloud's directives (speech, alerts, the music a key asked for) and the
\* tones start the player without a look at _blocking; what plays also ends.
OthersPlay ==
  /\ StartPlaying("other") /\ UNCHANGED <<cardVars, auxVars, hpVars, keyVars>>
PlayEnds ==
  /\ playing /\ Silent /\ UNCHANGED <<cardVars, auxVars, hpVars, keyVars>>
KeyNext == \/ (\E k \in Keys : PressKey(k)) \/ HoldRec \/ ReleaseRec \/ TouchTask
           \/ (\E accepted \in BOOLEAN : RawEnds(accepted)) \/ GotIp \/ OthersPlay \/ PlayEnds

Next == CardNext \/ AuxNext \/ SwapPhones \/ hp_timer_cb \/ KeyNext
Spec == Init /\ [][Next]_vars /\ WF_vars(hp_timer_cb)

-----------------------------------------------------------------------------
TypeOK ==
  /\ slot \in Slots /\ mounted \in Slots /\ cardPc \in CardPcs /\ cardMsg \in CardMsgs /\ told \in CardMsgs
  /\ {cardQ, lastState, cardLate, cardFailed, cardForgot, plug, codec, blocking, auxQ, auxTask, auxSeen, auxLate,
      hpLevel, hpTimer, pa, held, recFlag, raw, answer, early, playing, quitLost, vain} \subseteq BOOLEAN
  /\ auxPc \in AuxPcs /\ touchPc \in {"idle", "play", "quit", "wait"} /\ starter \in Starters
  /\ keys \in Seq(Keys) /\ Len(keys) <= KeyQueueLen

(* SDCardManager.c promises a mirror: while a look is due (an edge queued, a   *)
(* round under way, an edge that came after the look, a failed mount) the      *)
(* mounted card may differ from the card in the slot, and only then.           *)
Card == INSTANCE Mirror WITH in <- slot, out <- mounted,
                             due <- (cardQ \/ cardLate \/ cardFailed \/ cardForgot \/ cardPc # "peek")
CardMirrored == Card!Safety

(* AuxInManager.c promises one for the routing of the codec and the blocking   *)
(* of the keys, both at once, with the same exception for an edge that came    *)
(* between the look and the receive, which nothing ever looks at.              *)
Line == INSTANCE Mirror WITH in <- <<plug, plug>>, out <- <<codec, blocking>>,
                             due <- (auxQ \/ auxLate \/ auxPc # "peek")
LineMirrored == Line!Safety

(* HeadphoneConfig.c implements the mirror with no exception and its liveness: *)
(* each edge restarts the timer, and the callback reads the level.             *)
Phones == INSTANCE Mirror WITH in <- hpLevel, out <- pa, due <- hpTimer
PhonesMirrored == Phones!Spec

(* Between two rounds the playlist manager believes a card to be mounted      *)
(* exactly if one is, whatever was swapped, failed or lost on the way; and a   *)
(* file system that the task believes unmounted is unmounted.                  *)
ToldIsMounted ==
  cardPc = "peek" => /\ told = "MOUNTED" <=> mounted # NoCard
                     /\ mounted # NoCard => lastState \/ cardForgot

(* While the line input is routed and the keys are blocked, nothing plays that *)
(* a key started, unless the key was taken before the blocking and ran after    *)
(* the pause.  Who never looks at _blocking may play: the resume of a Wi-Fi     *)
(* connection, and the cloud's directives and tones.                            *)
LineInIsQuiet == auxPc = "peek" /\ codec /\ playing => starter \in {"early key", "other"}

(* A recording that runs has its end coming: the key is held, its release is   *)
(* queued or being served; or the release was lost, dropped by a full queue or *)
(* ignored because a cable was plugged in meanwhile.                           *)
RecordingEnds ==
  raw => held \/ touchPc \in {"quit", "wait"} \/ quitLost \/ Queued("REC_QUIT")

(* The key task, which waits for ever for the player's answer, gets it: the    *)
(* recording still runs and will end, or its end is in syncQ; unless the wait   *)
(* is in vain: there was no recording to stop (rawStart had failed, or another  *)
(* service had ended it), or it ended in a status that the wait does not accept *)
(* (ERROR) or that found syncQ full; then no key is ever served again.          *)
WaitIsAnswered == Ending => raw \/ answer \/ vain
=============================================================================
