\* Two presses of the key; queues of one (the safety properties are proved for
\* any lengths).  No symmetry, because of the liveness properties.
SPECIFICATION MCSpec
CONSTANTS
 Tasks = {t1, t2}
 NoTask = NoTask
 FirstTask = t1
 Deleted = Deleted
 RetryTimes = 2
 EvtQueueLen = 1
 SysQueueLen = 1
 MaxRequests = 2
INVARIANTS
 TypeOK
 OneSession
 ServicesFollowLink
PROPERTIES
 ConfigTaskEnds
 LostLinkIsRetried
\* The touch task may have deleted itself and the station be out of retries.
CHECK_DEADLOCK FALSE
