\* Two executors and a host that prunes, over two epochs and a crash.
SPECIFICATION Spec
CONSTANTS
    Executor = {e1, e2}
    Host = host
    Nobody = nobody
    Observation = {o1}
    NoObservation = none
    Mode = {}
    MaxEpoch = 2
    MaxRetries = 0
    MaxCrashes = 1
SYMMETRY Symmetry
INVARIANTS HistoryIsRecoverable EpochsAreSettled ObservedHasObservation
CHECK_DEADLOCK FALSE
