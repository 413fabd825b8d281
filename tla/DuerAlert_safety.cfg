SPECIFICATION Spec
CONSTANTS
 Alerts = {a1, a2}
 Cells = {c1, c2}
 Threads = {t1}
 Null = Null
 LoopCounts = {2}
 ToneCounts = {2}
 LoopWidth = 4
 OtherTypes = {"SPEECH"}
 StatusLen = 1
SYMMETRY AlertSymmetry
INVARIANTS
 TypeOK
 NothingDangles
PROPERTIES
 TurnsAreKept
 ReportedInOrder
\* Once every alert was set and is over, nothing need happen.
CHECK_DEADLOCK FALSE
