\* Two workers, the goals of one of which call the library, and a host thread.
SPECIFICATION Spec
CONSTANTS
  w1 = w1
  w2 = w2
  host = host
  c1 = c1
  Worker <- TwoWorkers
  Client <- Hosts
  GoalCaller <- OneWorker
  Awaiter <- None
  Callback <- OneCallback
  MaxFutures = 2
  Backlog = 1
INVARIANTS TypeOK ThreadFactIsWorker PendingIsAccounted CallbackIsAccounted CancelReachesChildren
PROPERTIES KeepsPromises InterruptHitsCancelled
CHECK_DEADLOCK FALSE
