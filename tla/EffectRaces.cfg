\* Two executors race for one operation and its retry, with a host that decides.
SPECIFICATION Spec
CONSTANTS
    Executor = {e1, e2}
    Host = host
    Nobody = nobody
    Observation = {o1, o2}
    NoObservation = none
    Mode = {"retry"}
    MaxEpoch = 1
    MaxRetries = 1
    MaxCrashes = 0
SYMMETRY Symmetry
INVARIANTS SubmittedOnce RetryIsLicensed
PROPERTY KeepsEffects
CHECK_DEADLOCK FALSE
