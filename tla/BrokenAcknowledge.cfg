SPECIFICATION Spec
CONSTANTS
    Requests = {r1, r2}
    Keys = {k1}
    NoRequest = NoRequest
    MaxCrashes = 1
INVARIANT AcknowledgedHasWorkflow
CHECK_DEADLOCK FALSE
