\* Two cards, a key queue of two (five in the code); nothing else is bounded.
SPECIFICATION MCSpec
CONSTANTS
  card1 = card1
  card2 = card2
  Cards <- MCCards
  NoCard = NoCard
  KeyQueueLen = 2
INVARIANTS TypeOK LineInIsQuiet RecordingEnds WaitIsAnswered
PROPERTIES CardMirrored LineMirrored PhonesMirrored
