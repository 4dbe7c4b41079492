\* A completion whose typed plan has a model step, on one pool thread.
SPECIFICATION Spec
CONSTANTS
  graph = graph
  plan = plan
  completion = completion
  Worker = {w1}
  Client = {c1}
  Token <- OneToken
  Kind <- OneKind
  Shared = {}
  Nesting = {completion}
  Task = {r1}
  MaxDepth = 2
  MaxCancels = 1
PROPERTY CancelFindsItsRuns
CHECK_DEADLOCK FALSE
