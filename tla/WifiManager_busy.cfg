SPECIFICATION Spec
CONSTANTS
 Tasks = {t1, t2}
 NoTask = NoTask
 FirstTask = t1
 Deleted = Deleted
 RetryTimes = 2
 EvtQueueLen = 2
 SysQueueLen = 2
 MaxRequests = 2
INVARIANT BusyMeansSession
CHECK_DEADLOCK FALSE
SYMMETRY TaskSymmetry
