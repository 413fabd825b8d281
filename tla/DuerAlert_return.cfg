SPECIFICATION FairSpec
CONSTANTS
 Alerts = {a1, a2}
 Cells = {c1, c2}
 Threads = {t1, t2}
 Null = Null
 LoopCounts = {1}
 ToneCounts = {0}
 LoopWidth = 4
 OtherTypes = {}
 StatusLen = 1
PROPERTY SetReturns
CHECK_DEADLOCK FALSE
