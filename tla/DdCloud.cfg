\* Four recordings of up to two blocks, a buffer of two, queues of two.
\* The recordings are bounded, so the system may stop.
SPECIFICATION Spec
CONSTANTS
  QueueLen = 2
  Capacity = 2
  MinBlocks = 0
  MaxSessions = 4
  MaxBlocks = 2
CHECK_DEADLOCK FALSE
INVARIANTS TypeOK PostedInStep AnswerAwaitsEvent EachOnce
PROPERTY AnswerIsSpoken
