\* One worker, two Futures and a host that awaits, under fairness.
SPECIFICATION FairSpec
CONSTANTS
  w1 = w1
  w2 = w2
  host = host
  c1 = c1
  Worker <- OneWorker
  Client <- Hosts
  GoalCaller <- OneWorker
  Awaiter <- Hosts
  Callback <- OneCallback
  MaxFutures = 2
  Backlog = 1
PROPERTIES TasksSettle CallbacksAreCalled AwaitsReturn
CHECK_DEADLOCK FALSE
