--------------------------- MODULE Detectors_proofs ---------------------------
(***************************************************************************)
(* The detectors implement Mirror: initial states map to initial states    *)
(* and each step maps to a step or a stutter, for any set of cards and any *)
(* length of the key queue.  (The fairness of the headphones' mirror is    *)
(* only model-checked.)  Then: the card that is told, the quiet line       *)
(* input, recordings that end, and the types.                              *)
(***************************************************************************)
EXTENDS Detectors, TLAPS

\* The steps of the card detector while a look is under way.
Rounds == {"unmount", "detect", "mount", "tell", "receive"}

\* What makes a look that is no longer due an honest one.
CardInv ==
  /\ cardPc \in CardPcs
  /\ cardPc \in Rounds => cardQ = TRUE
  /\ cardPc \in {"active", "first"} => mounted = NoCard
  /\ cardPc = "begin" => cardQ = TRUE \/ cardFailed = TRUE \/ mounted = slot
  /\ cardPc \in Rounds \cup {"peek"} => mounted = NoCard \/ lastState = TRUE \/ cardForgot = TRUE
  /\ cardPc = "detect" => lastState = FALSE \/ cardFailed = TRUE
  /\ cardPc = "mount" => lastState = FALSE
  /\ cardPc \in {"tell", "receive"} => cardLate = TRUE \/ cardFailed = TRUE \/ cardForgot = TRUE \/ mounted = slot
  /\ cardPc = "peek" => cardQ = TRUE \/ cardLate = TRUE \/ cardFailed = TRUE \/ cardForgot = TRUE \/ mounted = slot

(* The other detectors and the keys leave the card alone. *)
LEMMA CardOrNot == [Next]_vars => CardNext \/ UNCHANGED cardVars
<1>1. AuxNext => UNCHANGED cardVars
  BY DEF AuxNext, SwapPlug, AuxPeek, AuxDetect, AuxPause, AuxCodec, AuxTell, AuxReceive
<1>2. SwapPhones \/ hp_timer_cb => UNCHANGED cardVars
  BY DEF SwapPhones, hp_timer_cb
<1>3. KeyNext => UNCHANGED cardVars
  <2>1. (\E k \in Keys : PressKey(k)) \/ HoldRec \/ ReleaseRec \/ (\E a \in BOOLEAN : RawEnds(a)) \/ GotIp \/ OthersPlay \/ PlayEnds => UNCHANGED cardVars
    BY DEF PressKey, HoldRec, ReleaseRec, RawEnds, GotIp, OthersPlay, PlayEnds
  <2>2. TouchTask => UNCHANGED cardVars
    BY DEF TouchTask, TakeNext, PlayNext, TakePlay, TakeRec, TakeQuit, QuitStops, QuitPlays
  <2> QED BY <2>1, <2>2 DEF KeyNext
<1> QED BY <1>1, <1>2, <1>3 DEF Next, vars

(* CardInv is inductive. *)
LEMMA CardInvInit == Init => CardInv
BY DEF Init, CardInv, CardPcs, Rounds

LEMMA CardInvStep == CardInv /\ [Next]_vars => CardInv'
<1> SUFFICES ASSUME CardInv, [Next]_vars PROVE CardInv'
  OBVIOUS
<1>0. CASE UNCHANGED cardVars
  BY <1>0 DEF CardInv, cardVars
<1>1. ASSUME NEW c \in Slots, SwapCard(c) PROVE CardInv'
  BY <1>1 DEF CardInv, SwapCard, CardPcs, Rounds
<1>2. CASE CardActive
  BY <1>2 DEF CardInv, CardActive, CardPcs, Rounds
<1>3. ASSUME NEW ok \in BOOLEAN, CardFirst(ok) PROVE CardInv'
  BY <1>3 DEF CardInv, CardFirst, Mount, CardPcs, Rounds
<1>4. CASE CardBegin
  BY <1>4 DEF CardInv, CardBegin, CardPcs, Rounds
<1>5. CASE CardPeek
  BY <1>5 DEF CardInv, CardPeek, CardPcs, Rounds
<1>6. ASSUME NEW ok \in BOOLEAN, Unmount(ok) PROVE CardInv'
  BY <1>6 DEF CardInv, Unmount, CardPcs, Rounds
<1>7. CASE CardDetect
  BY <1>7 DEF CardInv, CardDetect, CardPcs, Rounds
<1>8. ASSUME NEW ok \in BOOLEAN, CardMount(ok) PROVE CardInv'
  BY <1>8 DEF CardInv, CardMount, Mount, CardPcs, Rounds
<1>9. CASE CardTell
  BY <1>9 DEF CardInv, CardTell, CardPcs, Rounds
<1>10. CASE CardReceive
  BY <1>10 DEF CardInv, CardReceive, CardPcs, Rounds
<1> QED
  BY <1>0, <1>1, <1>2, <1>3, <1>4, <1>5, <1>6, <1>7, <1>8, <1>9, <1>10, CardOrNot DEF CardNext, CardTask

(* A step of the card detector is a step of its mirror. *)
LEMMA CardStep == CardInv /\ CardInv' /\ [Next]_vars => [Card!Next]_(Card!vars)
<1> SUFFICES ASSUME CardInv, CardInv', [Next]_vars PROVE [Card!Next]_(Card!vars)
  OBVIOUS
<1> USE DEF Card!Next, Card!vars
<1>0. CASE UNCHANGED cardVars
  BY <1>0 DEF cardVars
<1>1. ASSUME NEW c \in Slots, SwapCard(c) PROVE Card!Turn
  BY <1>1 DEF SwapCard, Card!Turn
<1>2. CASE CardActive
  BY <1>2 DEF CardActive
<1>3. ASSUME NEW ok \in BOOLEAN, CardFirst(ok) PROVE [Card!Drive]_(Card!vars)
  BY <1>3 DEF CardFirst, Mount, Card!Drive
<1>4. CASE CardBegin
  BY <1>4 DEF CardBegin, CardInv, Card!Settle
<1>5. CASE CardPeek
  BY <1>5 DEF CardPeek
<1>6. ASSUME NEW ok \in BOOLEAN, Unmount(ok) PROVE [Card!Drive]_(Card!vars)
  BY <1>6 DEF Unmount, Card!Drive
<1>7. CASE CardDetect
  BY <1>7 DEF CardDetect
<1>8. ASSUME NEW ok \in BOOLEAN, CardMount(ok) PROVE [Card!Drive]_(Card!vars)
  BY <1>8 DEF CardMount, Mount, Card!Drive
<1>9. CASE CardTell
  BY <1>9 DEF CardTell
<1>10. CASE CardReceive
  BY <1>10 DEF CardReceive, CardInv, Card!Settle
<1> QED
  BY <1>0, <1>1, <1>2, <1>3, <1>4, <1>5, <1>6, <1>7, <1>8, <1>9, <1>10, CardOrNot DEF CardNext, CardTask

(* SDCardManager.c implements Mirror: whatever is swapped, fails or comes late, *)
(* the mounted card is the one in the slot unless a look is due or one of the   *)
(* named exceptions holds.                                                      *)
THEOREM CardMirroredHolds == Spec => CardMirrored
<1>1. Init => Card!Init
  BY DEF Init, Card!Init
<1> QED
  BY <1>1, CardInvInit, CardInvStep, CardStep, PTL DEF Spec, CardMirrored, Card!Safety

-----------------------------------------------------------------------------
\* The same for the line input: what was seen is the level, or the round was late;
\* before the task runs, an edge is still queued instead.
Seen == auxSeen = plug \/ IF auxTask = TRUE THEN auxLate = TRUE ELSE auxQ = TRUE
AuxInv ==
  /\ auxPc \in AuxPcs /\ plug \in BOOLEAN /\ auxTask \in BOOLEAN
  /\ auxTask = TRUE /\ auxPc # "peek" => auxQ = TRUE
  /\ auxPc \in {"peek", "receive"} => auxTask = TRUE
  /\ auxPc \in {"pause", "codec", "tell", "receive"} => Seen
  /\ auxPc \in {"tell", "receive"} => codec = auxSeen
  /\ auxPc = "receive" => blocking = auxSeen
  /\ auxTask = FALSE => blocking = FALSE
  /\ auxTask = FALSE /\ auxPc = "detect" => codec = FALSE
  /\ auxPc = "peek" => auxQ = TRUE \/ auxLate = TRUE \/ (codec = plug /\ blocking = plug)

(* The other detectors and the keys leave the line input alone. *)
LEMMA AuxOrNot == [Next]_vars => AuxNext \/ UNCHANGED auxVars
<1>1. CardNext => UNCHANGED auxVars
  BY DEF CardNext, CardTask, SwapCard, CardActive, CardFirst, CardBegin, CardPeek, Unmount, CardDetect, CardMount, CardTell, CardReceive
<1>2. SwapPhones \/ hp_timer_cb => UNCHANGED auxVars
  BY DEF SwapPhones, hp_timer_cb
<1>3. KeyNext => UNCHANGED auxVars
  <2>1. (\E k \in Keys : PressKey(k)) \/ HoldRec \/ ReleaseRec \/ (\E a \in BOOLEAN : RawEnds(a)) \/ GotIp \/ OthersPlay \/ PlayEnds => UNCHANGED auxVars
    BY DEF PressKey, HoldRec, ReleaseRec, RawEnds, GotIp, OthersPlay, PlayEnds
  <2>2. TouchTask => UNCHANGED auxVars
    BY DEF TouchTask, TakeNext, PlayNext, TakePlay, TakeRec, TakeQuit, QuitStops, QuitPlays
  <2> QED BY <2>1, <2>2 DEF KeyNext
<1> QED BY <1>1, <1>2, <1>3 DEF Next, vars

(* AuxInv is inductive. *)
LEMMA AuxInvInit == Init => AuxInv
BY DEF Init, AuxInv, AuxPcs

LEMMA AuxInvStep == AuxInv /\ [Next]_vars => AuxInv'
<1> SUFFICES ASSUME AuxInv, [Next]_vars PROVE AuxInv'
  OBVIOUS
<1> USE DEF AuxInv, Seen, AuxPcs
<1>0. CASE UNCHANGED auxVars
  BY <1>0 DEF auxVars
<1>1. CASE SwapPlug
  BY <1>1 DEF SwapPlug
<1>2. CASE AuxPeek
  BY <1>2 DEF AuxPeek
<1>3. CASE AuxDetect
  BY <1>3 DEF AuxDetect
<1>4. CASE AuxPause
  BY <1>4 DEF AuxPause
<1>5. CASE AuxCodec
  BY <1>5 DEF AuxCodec
<1>6. CASE AuxTell
  BY <1>6 DEF AuxTell
<1>7. CASE AuxReceive
  BY <1>7 DEF AuxReceive
<1> QED
  BY <1>0, <1>1, <1>2, <1>3, <1>4, <1>5, <1>6, <1>7, AuxOrNot DEF AuxNext

(* A step of the line-in detector is a step of its mirror. *)
LEMMA AuxStep == AuxInv /\ AuxInv' /\ [Next]_vars => [Line!Next]_(Line!vars)
<1> SUFFICES ASSUME AuxInv, AuxInv', [Next]_vars PROVE [Line!Next]_(Line!vars)
  OBVIOUS
<1> USE DEF Line!Next, Line!vars
<1>0. CASE UNCHANGED auxVars
  BY <1>0 DEF auxVars
<1>1. CASE SwapPlug
  BY <1>1 DEF SwapPlug, Line!Turn, AuxInv
<1>2. CASE AuxPeek
  BY <1>2 DEF AuxPeek
<1>3. CASE AuxDetect
  BY <1>3 DEF AuxDetect, Line!Settle, AuxInv
<1>4. CASE AuxPause
  BY <1>4 DEF AuxPause
<1>5. CASE AuxCodec
  BY <1>5 DEF AuxCodec, Line!Drive
<1>6. CASE AuxTell
  BY <1>6 DEF AuxTell, Line!Drive, Line!Settle, AuxInv
<1>7. CASE AuxReceive
  BY <1>7 DEF AuxReceive, Line!Settle, AuxInv, Seen
<1> QED
  BY <1>0, <1>1, <1>2, <1>3, <1>4, <1>5, <1>6, <1>7, AuxOrNot DEF AuxNext

(* AuxInManager.c implements Mirror: the codec and the blocking of the keys    *)
(* follow the cable together, unless a look is due or an edge came too late.   *)
THEOREM LineMirroredHolds == Spec => LineMirrored
<1>1. Init => Line!Init
  BY DEF Init, Line!Init
<1> QED
  BY <1>1, AuxInvInit, AuxInvStep, AuxStep, PTL DEF Spec, LineMirrored, Line!Safety

-----------------------------------------------------------------------------
(* HeadphoneConfig.c implements the safety of Mirror without any exception:   *)
(* no edge is lost, and with no timer running the amplifier is the pin.        *)
THEOREM PhonesMirroredSafely == Spec => Phones!Safety
<1>1. Init => Phones!Init
  BY DEF Init, Phones!Init
<1>2. hpLevel \in BOOLEAN /\ [Next]_vars => [Phones!Next]_(Phones!vars) /\ (hpLevel \in BOOLEAN)'
  <2> SUFFICES ASSUME hpLevel \in BOOLEAN, [Next]_vars
               PROVE [Phones!Next]_(Phones!vars) /\ (hpLevel \in BOOLEAN)'
    OBVIOUS
  <2>1. CASE SwapPhones
    BY <2>1 DEF SwapPhones, Phones!Next, Phones!Turn
  <2>2. CASE hp_timer_cb
    BY <2>2 DEF hp_timer_cb, Phones!Next, Phones!Settle
  <2>3. CASE CardNext
    BY <2>3 DEF CardNext, CardTask, SwapCard, CardActive, CardFirst, CardBegin, CardPeek, Unmount, CardDetect,
                CardMount, CardTell, CardReceive, hpVars, Phones!vars
  <2>4. CASE AuxNext
    BY <2>4 DEF AuxNext, SwapPlug, AuxPeek, AuxDetect, AuxPause, AuxCodec, AuxTell, AuxReceive, hpVars, Phones!vars
  <2>5. CASE TouchTask
    BY <2>5 DEF TouchTask, TakeNext, PlayNext, TakePlay, TakeRec, TakeQuit, QuitStops, QuitPlays, hpVars, Phones!vars
  <2>6. CASE (\E k \in Keys : PressKey(k)) \/ HoldRec \/ ReleaseRec \/ (\E a \in BOOLEAN : RawEnds(a)) \/ GotIp \/ OthersPlay \/ PlayEnds
    BY <2>6 DEF PressKey, HoldRec, ReleaseRec, RawEnds, GotIp, OthersPlay, PlayEnds, hpVars, Phones!vars
  <2>7. CASE UNCHANGED vars
    BY <2>7 DEF vars, hpVars, Phones!vars
  <2> QED BY <2>1, <2>2, <2>3, <2>4, <2>5, <2>6, <2>7 DEF Next, KeyNext
<1>3. Init => hpLevel \in BOOLEAN
  BY DEF Init
<1> QED
  BY <1>1, <1>2, <1>3, PTL DEF Spec, Phones!Safety

-----------------------------------------------------------------------------
\* What the playlist manager knows, or is about to be told in this round.
Telling == IF cardMsg = "UNDEFINED" THEN told ELSE cardMsg
ToldInv ==
  /\ cardPc \in {"active", "first"} => told = "UNDEFINED"
  /\ cardPc \in {"active", "first", "begin"} => cardMsg = "UNDEFINED"
  /\ cardPc = "unmount" => cardMsg = "UNDEFINED"
  /\ cardPc \in {"active", "begin", "peek", "unmount", "receive"} => (told = "MOUNTED" <=> mounted # NoCard)
  /\ cardPc \in {"unmount", "detect", "mount", "tell"} => (Telling = "MOUNTED" <=> mounted # NoCard)

LEMMA ToldInvStep == CardInv /\ ToldInv /\ [Next]_vars => ToldInv'
<1> SUFFICES ASSUME CardInv, ToldInv, [Next]_vars PROVE ToldInv'
  OBVIOUS
<1> USE DEF ToldInv, Telling
<1>0. CASE UNCHANGED cardVars
  BY <1>0 DEF cardVars
<1>1. ASSUME NEW c \in Slots, SwapCard(c) PROVE ToldInv'
  BY <1>1 DEF SwapCard
<1>2. CASE CardActive
  BY <1>2 DEF CardActive
<1>3. ASSUME NEW ok \in BOOLEAN, CardFirst(ok) PROVE ToldInv'
  BY <1>3 DEF CardFirst, Mount, CardInv
<1>4. CASE CardBegin
  BY <1>4 DEF CardBegin
<1>5. CASE CardPeek
  BY <1>5 DEF CardPeek
<1>6. ASSUME NEW ok \in BOOLEAN, Unmount(ok) PROVE ToldInv'
  BY <1>6 DEF Unmount
<1>7. CASE CardDetect
  BY <1>7 DEF CardDetect
<1>8. ASSUME NEW ok \in BOOLEAN, CardMount(ok) PROVE ToldInv'
  BY <1>8 DEF CardMount, Mount
<1>9. CASE CardTell
  BY <1>9 DEF CardTell
<1>10. CASE CardReceive
  BY <1>10 DEF CardReceive
<1> QED
  BY <1>0, <1>1, <1>2, <1>3, <1>4, <1>5, <1>6, <1>7, <1>8, <1>9, <1>10, CardOrNot DEF CardNext, CardTask

(* The playlist manager is never wrong between two rounds. *)
THEOREM ToldIsMountedHolds == Spec => []ToldIsMounted
<1>1. Init => ToldInv
  BY DEF Init, ToldInv, Telling
<1>2. CardInv /\ ToldInv => ToldIsMounted
  BY DEF CardInv, ToldInv, ToldIsMounted, Rounds
<1> QED
  BY <1>1, <1>2, CardInvInit, CardInvStep, ToldInvStep, PTL DEF Spec

-----------------------------------------------------------------------------
(* The key task is answered unless it waits in vain: reset before stop. *)
THEOREM WaitIsAnsweredHolds == Spec => []WaitIsAnswered
<1>1. Init => WaitIsAnswered
  BY DEF Init, WaitIsAnswered, Ending
<1>2. WaitIsAnswered /\ [Next]_vars => WaitIsAnswered'
  <2> SUFFICES ASSUME WaitIsAnswered, [Next]_vars PROVE WaitIsAnswered'
    OBVIOUS
  <2> USE DEF WaitIsAnswered, Ending
  <2>1. CASE TakeNext \/ PlayNext \/ TakePlay \/ (\E ok \in BOOLEAN : TakeRec(ok))
    BY <2>1 DEF TakeNext, PlayNext, TakePlay, TakeRec, Take
  <2>2. CASE TakeQuit
    BY <2>2 DEF TakeQuit, Take
  <2>3. CASE QuitStops \/ QuitPlays
    BY <2>3 DEF QuitStops, QuitPlays, StopRaw
  <2>4. ASSUME NEW accepted \in BOOLEAN, RawEnds(accepted) PROVE WaitIsAnswered'
    BY <2>4 DEF RawEnds
  <2>5. CASE (\E k \in Keys : PressKey(k)) \/ HoldRec \/ ReleaseRec \/ GotIp \/ OthersPlay \/ PlayEnds
    BY <2>5 DEF PressKey, HoldRec, ReleaseRec, GotIp, OthersPlay, PlayEnds, keyVars
  <2>6. CASE UNCHANGED keyVars
    BY <2>6 DEF keyVars
  <2>7. CardNext \/ AuxNext \/ SwapPhones \/ hp_timer_cb \/ UNCHANGED vars => UNCHANGED keyVars
    BY DEF CardNext, CardTask, SwapCard, CardActive, CardFirst, CardBegin, CardPeek, Unmount, CardDetect, CardMount,
           CardTell, CardReceive, AuxNext, SwapPlug, AuxPeek, AuxDetect, AuxPause, AuxCodec, AuxTell, AuxReceive,
           SwapPhones, hp_timer_cb, vars
  <2> QED BY <2>1, <2>2, <2>3, <2>4, <2>5, <2>6, <2>7 DEF Next, KeyNext, TouchTask
<1> QED
  BY <1>1, <1>2, PTL DEF Spec

-----------------------------------------------------------------------------
\* Who plays while a round has paused the player has an excuse; a key that the
\* task is serving was taken before the blocking; the codec is on the line input
\* only while the keys are blocked or about to be.
QuietInv ==
  /\ playing \in BOOLEAN /\ starter \in Starters /\ plug \in BOOLEAN /\ early \in BOOLEAN
  /\ codec \in BOOLEAN /\ blocking \in BOOLEAN /\ auxSeen \in BOOLEAN
  /\ touchPc # "idle" => early = TRUE
  /\ (auxPc \in {"codec", "tell"} \/ blocking = TRUE) /\ playing = TRUE => starter \in {"early key", "other"}
  /\ auxPc # "tell" /\ codec = TRUE => blocking = TRUE
  /\ auxPc = "tell" => codec = auxSeen

(* Under the line input no key starts the player, but in the gap. *)
THEOREM LineInIsQuietHolds == Spec => []LineInIsQuiet
<1>1. Init => QuietInv
  BY DEF Init, QuietInv, Starters
<1>2. QuietInv /\ [Next]_vars => QuietInv'
  <2> SUFFICES ASSUME QuietInv, [Next]_vars PROVE QuietInv'
    OBVIOUS
  <2> USE DEF QuietInv, Starters
  <2>1. CASE CardNext
    <3>1. UNCHANGED <<auxVars, keyVars>> /\ (UNCHANGED playVars \/ Silent)
      BY <2>1 DEF CardNext, CardTask, SwapCard, CardActive, CardFirst, CardBegin, CardPeek, Unmount, CardDetect,
                  CardMount, CardTell, CardReceive
    <3> QED BY <3>1 DEF auxVars, keyVars, playVars, Silent
  <2>2. CASE AuxNext
    BY <2>2 DEF AuxNext, SwapPlug, AuxPeek, AuxDetect, AuxPause, AuxCodec, AuxTell, AuxReceive, Silent, keyVars, playVars
  <2>3. CASE SwapPhones \/ hp_timer_cb
    BY <2>3 DEF SwapPhones, hp_timer_cb, auxVars, keyVars, playVars
  <2>4. CASE PlayNext \/ QuitPlays
    BY <2>4 DEF PlayNext, QuitPlays, KeyStarts, StartPlaying, Started, Paused, auxVars, playVars
  <2>5. CASE GotIp \/ OthersPlay \/ PlayEnds
    BY <2>5 DEF GotIp, OthersPlay, PlayEnds, StartPlaying, Started, Silent, Paused, auxVars, keyVars, playVars
  <2>6. CASE TakeNext \/ TakePlay \/ (\E ok \in BOOLEAN : TakeRec(ok)) \/ TakeQuit \/ QuitStops
    <3>1. UNCHANGED auxVars /\ (UNCHANGED playVars \/ Silent)
      BY <2>6 DEF TakeNext, TakePlay, TakeRec, TakeQuit, QuitStops
    <3>2. CASE TakeNext
      BY <3>1, <3>2 DEF TakeNext, Early, auxVars, playVars, Silent
    <3>3. CASE TakeQuit
      <4>1. touchPc' # "idle" => blocking = FALSE
        BY <3>3 DEF TakeQuit, Take, Honoured
      <4>2. early' \in BOOLEAN /\ (touchPc' # "idle" => early' = TRUE)
        BY <3>3, <4>1 DEF TakeQuit, Early
      <4> QED BY <3>1, <4>2 DEF auxVars, playVars, Silent
    <3>4. CASE TakePlay \/ (\E ok \in BOOLEAN : TakeRec(ok)) \/ QuitStops
      BY <3>1, <3>4 DEF TakePlay, TakeRec, Take, QuitStops, auxVars, playVars, Silent
    <3> QED BY <2>6, <3>2, <3>3, <3>4
  <2>7. CASE (\E k \in Keys : PressKey(k)) \/ HoldRec \/ ReleaseRec \/ (\E a \in BOOLEAN : RawEnds(a))
    BY <2>7 DEF PressKey, HoldRec, ReleaseRec, RawEnds, auxVars, playVars
  <2>8. CASE UNCHANGED vars
    BY <2>8 DEF vars, auxVars, keyVars, playVars
  <2> QED BY <2>1, <2>2, <2>3, <2>4, <2>5, <2>6, <2>7, <2>8 DEF Next, KeyNext, TouchTask
<1>3. QuietInv => LineInIsQuiet
  BY DEF QuietInv, LineInIsQuiet
<1> QED
  BY <1>1, <1>2, <1>3, PTL DEF Spec

-----------------------------------------------------------------------------
\* A press of the record key in the queue has its release behind it, unless the
\* key is still held or the release was lost.
PressHasRelease ==
  \A i \in DOMAIN keys : keys[i] = "REC" =>
    held = TRUE \/ quitLost = TRUE \/ \E j \in DOMAIN keys : j > i /\ keys[j] = "REC_QUIT"

\* A recording that the key task is about to end is not over before it is told.
RecordInv ==
  /\ keys \in Seq(Keys) /\ Len(keys) <= KeyQueueLen
  /\ held \in BOOLEAN /\ recFlag \in BOOLEAN /\ raw \in BOOLEAN
  /\ answer \in BOOLEAN /\ quitLost \in BOOLEAN
  /\ PressHasRelease
  /\ raw = TRUE => recFlag = TRUE
  /\ touchPc \in {"quit", "wait"} => raw = FALSE \/ answer = FALSE
  /\ raw = TRUE => held = TRUE \/ touchPc \in {"quit", "wait"} \/ quitLost = TRUE \/ Queued("REC_QUIT")

\* A key that is posted, or dropped by the full queue.
LEMMA PostKeepsKeys ==
  ASSUME keys \in Seq(Keys), NEW k \in Keys, Post(k)
  PROVE  /\ keys' \in Seq(Keys)
         /\ \A i \in DOMAIN keys : i \in DOMAIN keys' /\ keys'[i] = keys[i]
         /\ \A i \in DOMAIN keys' : i \in DOMAIN keys \/ keys'[i] = k
         /\ Len(keys) <= KeyQueueLen => Len(keys') <= KeyQueueLen
         /\ Len(keys) # KeyQueueLen /\ Len(keys) <= KeyQueueLen =>
              /\ keys'[Len(keys) + 1] = k /\ Len(keys) + 1 \in DOMAIN keys'
              /\ \A i \in DOMAIN keys : i < Len(keys) + 1
BY DetectorsAssumption DEF Post

\* The head of the queue is taken, the others move up.
LEMMA TakeKeepsKeys ==
  ASSUME keys \in Seq(Keys), NEW k, Take(k)
  PROVE  /\ keys' \in Seq(Keys) /\ Len(keys') = Len(keys) - 1
         /\ 1 \in DOMAIN keys /\ keys[1] = k
         /\ \A i \in DOMAIN keys' : i + 1 \in DOMAIN keys /\ keys'[i] = keys[i + 1]
         /\ \A i \in DOMAIN keys : i # 1 => i - 1 \in DOMAIN keys' /\ keys'[i - 1] = keys[i]
BY DEF Take

LEMMA TakeKeepsLength ==
  ASSUME keys \in Seq(Keys), Len(keys) <= KeyQueueLen, NEW k, Take(k)
  PROVE  keys' \in Seq(Keys) /\ Len(keys') <= KeyQueueLen
<1>1. keys' \in Seq(Keys) /\ Len(keys') = Len(keys) - 1 /\ Len(keys) \in Nat
  BY TakeKeepsKeys
<1> QED BY <1>1, DetectorsAssumption

\* A release that is queued stays so when another key is posted.
LEMMA PostKeepsRelease ==
  ASSUME keys \in Seq(Keys), NEW k \in Keys, Post(k)
  PROVE  /\ Queued("REC_QUIT") => Queued("REC_QUIT")'
         /\ k # "REC" /\ PressHasRelease /\ held' = held /\ quitLost' = quitLost => PressHasRelease'
<1>1. Queued("REC_QUIT") => Queued("REC_QUIT")'
  BY PostKeepsKeys DEF Queued
<1>2. ASSUME k # "REC", PressHasRelease, held' = held, quitLost' = quitLost PROVE PressHasRelease'
  <2> SUFFICES ASSUME NEW i \in DOMAIN keys', keys'[i] = "REC", held # TRUE, quitLost # TRUE
               PROVE \E j \in DOMAIN keys' : j > i /\ keys'[j] = "REC_QUIT"
    BY <1>2 DEF PressHasRelease
  <2>1. i \in DOMAIN keys /\ keys[i] = "REC"
    BY <1>2, PostKeepsKeys
  <2>2. PICK j \in DOMAIN keys : j > i /\ keys[j] = "REC_QUIT"
    BY <1>2, <2>1 DEF PressHasRelease
  <2>3. j \in DOMAIN keys' /\ keys'[j] = keys[j]
    BY PostKeepsKeys
  <2> QED BY <2>2, <2>3
<1> QED BY <1>1, <1>2

LEMMA PressKeepsRecord ==
  ASSUME RecordInv, (\E k \in Keys : PressKey(k)) \/ HoldRec \/ ReleaseRec
  PROVE  RecordInv'
<1> USE DEF RecordInv
<1>1. CASE \E k \in Keys : PressKey(k)
  <2> PICK k \in Keys : PressKey(k)
    BY <1>1
  <2>1. Post(k) /\ k # "REC" /\ held' = held /\ quitLost' = quitLost
    BY DEF PressKey
  <2>2. /\ keys' \in Seq(Keys) /\ Len(keys') <= KeyQueueLen /\ PressHasRelease'
        /\ Queued("REC_QUIT") => Queued("REC_QUIT")'
    BY <2>1, PostKeepsKeys, PostKeepsRelease
  <2> QED BY <2>1, <2>2 DEF PressKey
<1>2. CASE HoldRec
  <2>1. Post("REC") /\ "REC" \in Keys
    BY <1>2 DEF HoldRec, Keys
  <2>2. /\ keys' \in Seq(Keys) /\ Len(keys') <= KeyQueueLen
    BY <2>1, PostKeepsKeys
  <2> QED BY <1>2, <2>2 DEF HoldRec, PressHasRelease
<1>3. CASE ReleaseRec
  <2>1. Post("REC_QUIT") /\ "REC_QUIT" \in Keys
    BY <1>3 DEF ReleaseRec, Keys
  <2>2. /\ keys' \in Seq(Keys) /\ Len(keys') <= KeyQueueLen
        /\ \A i \in DOMAIN keys' : i \in DOMAIN keys \/ keys'[i] = "REC_QUIT"
    BY <2>1, PostKeepsKeys
  <2>3. CASE Len(keys) = KeyQueueLen
    BY <1>3, <2>2, <2>3 DEF ReleaseRec, PressHasRelease
  <2>4. CASE Len(keys) # KeyQueueLen
    <3>1. keys'[Len(keys) + 1] = "REC_QUIT" /\ Len(keys) + 1 \in DOMAIN keys'
          /\ \A i \in DOMAIN keys : i < Len(keys) + 1
      BY <2>1, <2>4, PostKeepsKeys
    <3>2. PressHasRelease'
      BY <2>2, <3>1 DEF PressHasRelease
    <3>3. Queued("REC_QUIT")'
      BY <3>1 DEF Queued
    <3> QED BY <1>3, <2>2, <3>2, <3>3 DEF ReleaseRec
  <2> QED BY <2>3, <2>4
<1> QED BY <1>1, <1>2, <1>3

\* Taking a key takes no release, unless it is the release, from behind a press.
LEMMA TakeKeepsRelease ==
  ASSUME keys \in Seq(Keys), NEW k, Take(k)
  PROVE  /\ k # "REC_QUIT" /\ Queued("REC_QUIT") => Queued("REC_QUIT")'
         /\ k = "REC" /\ PressHasRelease => held = TRUE \/ quitLost = TRUE \/ Queued("REC_QUIT")'
         /\ PressHasRelease /\ held' = held /\ quitLost' = quitLost => PressHasRelease'
         /\ ~Queued("REC") => PressHasRelease'
<1>1. k # "REC_QUIT" /\ Queued("REC_QUIT") => Queued("REC_QUIT")'
  BY TakeKeepsKeys DEF Queued
<1>2. ASSUME k = "REC", PressHasRelease, held # TRUE, quitLost # TRUE PROVE Queued("REC_QUIT")'
  <2>1. 1 \in DOMAIN keys /\ keys[1] = "REC"
    BY <1>2, TakeKeepsKeys
  <2>2. PICK j \in DOMAIN keys : j > 1 /\ keys[j] = "REC_QUIT"
    BY <1>2, <2>1 DEF PressHasRelease
  <2>3. j - 1 \in DOMAIN keys' /\ keys'[j - 1] = "REC_QUIT"
    BY <2>2, TakeKeepsKeys
  <2> QED BY <2>3 DEF Queued
<1>3. ASSUME PressHasRelease, held' = held, quitLost' = quitLost PROVE PressHasRelease'
  <2> SUFFICES ASSUME NEW i \in DOMAIN keys', keys'[i] = "REC", held # TRUE, quitLost # TRUE
               PROVE \E j \in DOMAIN keys' : j > i /\ keys'[j] = "REC_QUIT"
    BY <1>3 DEF PressHasRelease
  <2>1. i + 1 \in DOMAIN keys /\ keys[i + 1] = "REC" /\ i \in Nat
    BY TakeKeepsKeys
  <2>2. PICK j \in DOMAIN keys : j > i + 1 /\ keys[j] = "REC_QUIT"
    BY <1>3, <2>1 DEF PressHasRelease
  <2>3. j # 1 /\ j \in Nat /\ j - 1 > i
    BY <2>1, <2>2
  <2>4. j - 1 \in DOMAIN keys' /\ keys'[j - 1] = keys[j]
    BY <2>3, TakeKeepsKeys
  <2> QED BY <2>2, <2>3, <2>4
<1>4. ASSUME ~Queued("REC") PROVE PressHasRelease'
  <2> SUFFICES ASSUME NEW i \in DOMAIN keys', keys'[i] = "REC" PROVE FALSE
    BY DEF PressHasRelease
  <2>1. i + 1 \in DOMAIN keys /\ keys[i + 1] = "REC"
    BY TakeKeepsKeys
  <2> QED BY <2>1, <1>4 DEF Queued
<1> QED BY <1>1, <1>2, <1>3, <1>4

LEMMA ServeKeepsRecord ==
  ASSUME RecordInv, TouchTask
  PROVE  RecordInv'
<1> USE DEF RecordInv
<1>1. CASE TakeNext \/ TakePlay
  <2>1. PICK k \in {"NEXT", "PLAY"} : Take(k)
    BY <1>1 DEF TakeNext, TakePlay
  <2>2. held' = held /\ quitLost' = quitLost
    BY <1>1 DEF TakeNext, TakePlay
  <2>3. /\ keys' \in Seq(Keys) /\ Len(keys') <= KeyQueueLen
    BY <2>1, TakeKeepsLength
  <2>4. PressHasRelease' /\ (Queued("REC_QUIT") => Queued("REC_QUIT")')
    BY <2>1, <2>2, TakeKeepsRelease
  <2>5. touchPc = "idle" /\ touchPc' \in {"idle", "play"}
    BY <1>1 DEF TakeNext, TakePlay, Take
  <2>6. recFlag' = recFlag /\ raw' = raw /\ answer' = answer
    BY <1>1 DEF TakeNext, TakePlay
  <2> QED BY <2>2, <2>3, <2>4, <2>5, <2>6
<1>2. CASE \E ok \in BOOLEAN : TakeRec(ok)
  <2>1. Take("REC") /\ held' = held /\ quitLost' = quitLost
    BY <1>2 DEF TakeRec
  <2>2. /\ keys' \in Seq(Keys) /\ Len(keys') <= KeyQueueLen
    BY <2>1, TakeKeepsLength
  <2>3. PressHasRelease'
    BY <2>1, TakeKeepsRelease
  <2>4. held = TRUE \/ quitLost = TRUE \/ Queued("REC_QUIT")'
    BY <2>1, TakeKeepsRelease
  <2> QED BY <1>2, <2>1, <2>2, <2>3, <2>4 DEF TakeRec, Take
<1>3. CASE TakeQuit
  <2>1. Take("REC_QUIT") /\ held' = held
    BY <1>3 DEF TakeQuit
  <2>2. keys' \in Seq(Keys) /\ Len(keys') <= KeyQueueLen
    BY <2>1, TakeKeepsLength
  <2>3. CASE Honoured
    <3>1. /\ answer' = FALSE /\ touchPc' = "quit" /\ recFlag' = recFlag /\ raw' = raw
          /\ quitLost' = (quitLost /\ Queued("REC"))
      BY <1>3, <2>3 DEF TakeQuit, ResetSync
    <3>2. PressHasRelease'
      <4>1. CASE Queued("REC")
        BY <2>1, <3>1, <4>1, TakeKeepsRelease
      <4>2. CASE ~Queued("REC")
        BY <2>1, <4>2, TakeKeepsRelease
      <4> QED BY <4>1, <4>2
    <3> QED BY <2>1, <2>2, <3>1, <3>2
  <2>4. CASE ~Honoured
    <3>1. /\ quitLost' = (quitLost \/ recFlag) /\ recFlag' = recFlag /\ raw' = raw
          /\ answer' = answer /\ touchPc' = touchPc
      BY <1>3, <2>4 DEF TakeQuit
    <3>2. PressHasRelease'
      <4>1. CASE recFlag = TRUE
        BY <3>1, <4>1 DEF PressHasRelease
      <4>2. CASE recFlag = FALSE
        BY <2>1, <3>1, <4>2, TakeKeepsRelease
      <4> QED BY <4>1, <4>2
    <3> QED BY <2>1, <2>2, <3>1, <3>2 DEF Take
  <2> QED BY <2>3, <2>4
<1>4. CASE PlayNext \/ QuitStops \/ QuitPlays
  <2>1. keys' = keys /\ held' = held /\ quitLost' = quitLost
    BY <1>4 DEF PlayNext, QuitStops, QuitPlays
  <2>2. PressHasRelease' /\ (Queued("REC_QUIT") <=> Queued("REC_QUIT")')
    BY <2>1 DEF PressHasRelease, Queued
  <2> QED BY <1>4, <2>1, <2>2 DEF PlayNext, QuitStops, QuitPlays, StopRaw
<1> QED BY <1>1, <1>2, <1>3, <1>4 DEF TouchTask

(* A recording that runs has its end coming, or its release was lost. *)
THEOREM RecordingEndsHolds == Spec => []RecordingEnds
<1>1. Init => RecordInv
  <2> SUFFICES ASSUME Init PROVE RecordInv
    OBVIOUS
  <2>1. keys = <<>>
    BY DEF Init
  <2>2. keys \in Seq(Keys) /\ Len(keys) <= KeyQueueLen
    BY <2>1, DetectorsAssumption
  <2>3. PressHasRelease
    BY <2>1 DEF PressHasRelease
  <2> QED BY <2>2, <2>3 DEF Init, RecordInv
<1>2. RecordInv /\ [Next]_vars => RecordInv'
  <2> SUFFICES ASSUME RecordInv, [Next]_vars PROVE RecordInv'
    OBVIOUS
  <2>1. CASE UNCHANGED keyVars
    BY <2>1 DEF keyVars, RecordInv, PressHasRelease, Queued
  <2>2. ASSUME NEW accepted \in BOOLEAN, RawEnds(accepted) PROVE RecordInv'
    BY <2>2 DEF RawEnds, RecordInv, PressHasRelease, Queued
  <2>3. CardNext \/ AuxNext \/ SwapPhones \/ hp_timer_cb \/ GotIp \/ OthersPlay \/ PlayEnds \/ UNCHANGED vars
          => UNCHANGED keyVars
    BY DEF CardNext, CardTask, SwapCard, CardActive, CardFirst, CardBegin, CardPeek, Unmount, CardDetect, CardMount,
           CardTell, CardReceive, AuxNext, SwapPlug, AuxPeek, AuxDetect, AuxPause, AuxCodec, AuxTell, AuxReceive,
           SwapPhones, hp_timer_cb, GotIp, OthersPlay, PlayEnds, vars
  <2> QED BY <2>1, <2>2, <2>3, PressKeepsRecord, ServeKeepsRecord DEF Next, KeyNext
<1>3. RecordInv => RecordingEnds
  BY DEF RecordInv, RecordingEnds
<1> QED
  BY <1>1, <1>2, <1>3, PTL DEF Spec
-----------------------------------------------------------------------------
(* Types, detector by detector. *)
CardType ==
  /\ slot \in Slots /\ mounted \in Slots /\ cardPc \in CardPcs /\ cardMsg \in CardMsgs /\ told \in CardMsgs
  /\ {cardQ, lastState, cardLate, cardFailed, cardForgot} \subseteq BOOLEAN
AuxType ==
  /\ auxPc \in AuxPcs
  /\ {plug, codec, blocking, auxQ, auxTask, auxSeen, auxLate, playing} \subseteq BOOLEAN
  /\ starter \in Starters
HpType == {hpLevel, hpTimer, pa} \subseteq BOOLEAN
KeyType ==
  /\ touchPc \in {"idle", "play", "quit", "wait"}
  /\ {held, recFlag, raw, answer, early, quitLost, vain} \subseteq BOOLEAN
QueueType == keys \in Seq(Keys) /\ Len(keys) <= KeyQueueLen

LEMMA CardTypeStep == CardType /\ [Next]_vars => CardType'
<1> SUFFICES ASSUME CardType, [Next]_vars PROVE CardType'
  OBVIOUS
<1> USE DEF CardType
<1>1. CASE UNCHANGED cardVars
  BY <1>1 DEF cardVars
<1>2. ASSUME NEW c \in Slots, SwapCard(c) PROVE CardType'
  BY <1>2 DEF SwapCard
<1>3. CASE CardActive \/ CardBegin \/ CardPeek
  BY <1>3 DEF CardActive, CardBegin, CardPeek, CardPcs, CardMsgs
<1>4. CASE CardDetect \/ CardTell \/ CardReceive
  BY <1>4 DEF CardDetect, CardTell, CardReceive, CardPcs, CardMsgs
<1>5. ASSUME NEW ok \in BOOLEAN, CardFirst(ok) \/ CardMount(ok) PROVE CardType'
  BY <1>5 DEF CardFirst, CardMount, Mount, CardPcs, CardMsgs
<1>6. ASSUME NEW ok \in BOOLEAN, Unmount(ok) PROVE CardType'
  BY <1>6 DEF Unmount, Slots, CardPcs, CardMsgs
<1> QED
  BY <1>1, <1>2, <1>3, <1>4, <1>5, <1>6, CardOrNot DEF CardNext, CardTask

LEMMA AuxTypeStep == AuxType /\ [Next]_vars => AuxType'
<1> SUFFICES ASSUME AuxType, [Next]_vars PROVE AuxType'
  OBVIOUS
<1> USE DEF AuxType
<1>1. CASE SwapPlug \/ AuxPeek \/ AuxDetect \/ AuxReceive
  BY <1>1 DEF SwapPlug, AuxPeek, AuxDetect, AuxReceive, AuxPcs, playVars
<1>2. CASE AuxPause \/ AuxCodec \/ AuxTell
  BY <1>2 DEF AuxPause, AuxCodec, AuxTell, AuxPcs, Silent, Starters, playVars
<1>3. CASE CardNext
  <2>1. UNCHANGED auxVars /\ (UNCHANGED playVars \/ Silent)
    BY <1>3 DEF CardNext, CardTask, SwapCard, CardActive, CardFirst, CardBegin, CardPeek, Unmount, CardDetect,
                CardMount, CardTell, CardReceive
  <2> QED BY <2>1 DEF Silent, Starters, auxVars, playVars
<1>4. CASE PlayNext \/ QuitPlays \/ GotIp \/ OthersPlay \/ PlayEnds
  BY <1>4 DEF PlayNext, QuitPlays, GotIp, OthersPlay, PlayEnds, KeyStarts, StartPlaying, Started, Silent, Starters, auxVars, playVars
<1>5. CASE TakePlay
  BY <1>5 DEF TakePlay, Silent, Starters, auxVars, playVars
<1>6. CASE TakeNext \/ (\E ok \in BOOLEAN : TakeRec(ok)) \/ TakeQuit \/ QuitStops
  BY <1>6 DEF TakeNext, TakeRec, TakeQuit, QuitStops, auxVars, playVars
<1>7. CASE (\E k \in Keys : PressKey(k)) \/ HoldRec \/ ReleaseRec \/ (\E a \in BOOLEAN : RawEnds(a))
  BY <1>7 DEF PressKey, HoldRec, ReleaseRec, RawEnds, auxVars, playVars
<1>8. CASE SwapPhones \/ hp_timer_cb \/ UNCHANGED vars
  BY <1>8 DEF SwapPhones, hp_timer_cb, vars, auxVars, playVars
<1> QED
  BY <1>1, <1>2, <1>3, <1>4, <1>5, <1>6, <1>7, <1>8 DEF Next, AuxNext, KeyNext, TouchTask

LEMMA OthersKeepKeys == CardNext \/ AuxNext \/ SwapPhones \/ hp_timer_cb \/ UNCHANGED vars => UNCHANGED keyVars
BY DEF CardNext, CardTask, SwapCard, CardActive, CardFirst, CardBegin, CardPeek, Unmount, CardDetect, CardMount,
       CardTell, CardReceive, AuxNext, SwapPlug, AuxPeek, AuxDetect, AuxPause, AuxCodec, AuxTell, AuxReceive,
       SwapPhones, hp_timer_cb, vars

LEMMA KeyTypeStep == AuxType /\ KeyType /\ [Next]_vars => KeyType'
<1> SUFFICES ASSUME AuxType, KeyType, [Next]_vars PROVE KeyType'
  OBVIOUS
<1> USE DEF KeyType
<1>1. CASE TakeNext \/ PlayNext \/ TakePlay
  BY <1>1 DEF TakeNext, PlayNext, TakePlay, Early, AuxType
<1>2. ASSUME NEW ok \in BOOLEAN, TakeRec(ok) PROVE KeyType'
  BY <1>2 DEF TakeRec, AuxType
<1>3. CASE TakeQuit
  <2>1. touchPc' \in {"idle", "play", "quit", "wait"} /\ {held', recFlag', raw', answer', early', vain'} \subseteq BOOLEAN
    BY <1>3 DEF TakeQuit, Early, ResetSync, AuxType
  <2>2. quitLost' = (quitLost /\ Queued("REC")) \/ quitLost' = (quitLost \/ recFlag)
    BY <1>3 DEF TakeQuit
  <2>3. quitLost' \in BOOLEAN
    BY <2>2, Zenon
  <2> QED BY <2>1, <2>3
<1>4. CASE QuitStops \/ QuitPlays \/ (\E a \in BOOLEAN : RawEnds(a))
  BY <1>4 DEF QuitStops, StopRaw, QuitPlays, RawEnds
<1>5. CASE (\E k \in Keys : PressKey(k)) \/ HoldRec \/ GotIp \/ OthersPlay \/ PlayEnds
  BY <1>5 DEF PressKey, HoldRec, GotIp, OthersPlay, PlayEnds, keyVars
<1>6. CASE ReleaseRec
  <2>1. quitLost' = (quitLost \/ Len(keys) = KeyQueueLen)
    BY <1>6 DEF ReleaseRec
  <2>2. quitLost' \in BOOLEAN
    BY <2>1, Zenon
  <2> QED BY <1>6, <2>2 DEF ReleaseRec
<1>7. CASE UNCHANGED keyVars
  BY <1>7 DEF keyVars
<1> QED
  BY <1>1, <1>2, <1>3, <1>4, <1>5, <1>6, <1>7, OthersKeepKeys DEF Next, KeyNext, TouchTask

LEMMA QueueTypeStep == QueueType /\ [Next]_vars => QueueType'
<1> SUFFICES ASSUME QueueType, [Next]_vars PROVE QueueType'
  OBVIOUS
<1> USE DEF QueueType
<1>1. ASSUME NEW k \in Keys, Post(k) PROVE QueueType'
  BY <1>1, DetectorsAssumption DEF Post
<1>2. ASSUME NEW k, Take(k) PROVE QueueType'
  BY <1>2, DetectorsAssumption DEF Take
<1>3. CASE (\E k \in Keys : PressKey(k)) \/ HoldRec \/ ReleaseRec
  BY <1>1, <1>3 DEF PressKey, HoldRec, ReleaseRec, Keys
<1>4. CASE TakeNext \/ TakePlay \/ (\E ok \in BOOLEAN : TakeRec(ok)) \/ TakeQuit
  BY <1>2, <1>4 DEF TakeNext, TakePlay, TakeRec, TakeQuit
<1>5. CASE PlayNext \/ QuitStops \/ QuitPlays \/ (\E a \in BOOLEAN : RawEnds(a)) \/ GotIp \/ OthersPlay \/ PlayEnds
  BY <1>5 DEF PlayNext, QuitStops, QuitPlays, RawEnds, GotIp, OthersPlay, PlayEnds, keyVars
<1>6. CASE UNCHANGED keyVars
  BY <1>6 DEF keyVars
<1> QED
  BY <1>3, <1>4, <1>5, <1>6, OthersKeepKeys DEF Next, KeyNext, TouchTask

LEMMA HpTypeStep == HpType /\ [Next]_vars => HpType'
<1> SUFFICES ASSUME HpType, [Next]_vars PROVE HpType'
  OBVIOUS
<1> USE DEF HpType
<1>1. CASE SwapPhones \/ hp_timer_cb
  BY <1>1 DEF SwapPhones, hp_timer_cb
<1>2. CASE CardNext
  BY <1>2 DEF CardNext, CardTask, SwapCard, CardActive, CardFirst, CardBegin, CardPeek, Unmount, CardDetect,
              CardMount, CardTell, CardReceive, hpVars
<1>3. CASE AuxNext
  BY <1>3 DEF AuxNext, SwapPlug, AuxPeek, AuxDetect, AuxPause, AuxCodec, AuxTell, AuxReceive, hpVars
<1>4. CASE KeyNext
  BY <1>4 DEF KeyNext, TouchTask, TakeNext, PlayNext, TakePlay, TakeRec, TakeQuit, QuitStops, QuitPlays,
              PressKey, HoldRec, ReleaseRec, RawEnds, GotIp, OthersPlay, PlayEnds, hpVars
<1>5. CASE UNCHANGED vars
  BY <1>5 DEF vars, hpVars
<1> QED BY <1>1, <1>2, <1>3, <1>4, <1>5 DEF Next

(* For any set of cards and any length of xQueueTouchService, the state stays  *)
(* well typed and the queue within its length.                                 *)
THEOREM TypeCorrect == Spec => []TypeOK
<1>1. Init => CardType /\ AuxType /\ HpType /\ KeyType
  BY DEF Init, CardType, AuxType, HpType, KeyType, Slots, Starters, CardPcs, CardMsgs, AuxPcs
<1>2. Init => QueueType
  BY DetectorsAssumption DEF Init, QueueType
<1>3. CardType /\ AuxType /\ HpType /\ KeyType /\ QueueType => TypeOK
  BY DEF TypeOK, CardType, AuxType, HpType, KeyType, QueueType
<1> QED
  BY <1>1, <1>2, <1>3, CardTypeStep, AuxTypeStep, HpTypeStep, KeyTypeStep, QueueTypeStep, PTL DEF Spec
=============================================================================
