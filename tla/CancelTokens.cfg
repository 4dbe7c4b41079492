\* Two pool threads at graphs, which share a token and nest, at a plan graph and at a
\* completion without nested ones.
SPECIFICATION FairSpec
CONSTANTS
  graph = graph
  plan = plan
  completion = completion
  Worker = {w1, w2}
  Client = {c1}
  Token <- SomeTokens
  Kind <- SomeKinds
  Shared = {graph}
  Nesting = {graph}
  Task = {r1, r2}
  MaxDepth = 2
  MaxCancels = 2
INVARIANT RegistrationsEnd
PROPERTIES CancelFindsItsRuns CancelledRunsEnd
CHECK_DEADLOCK FALSE
