SPECIFICATION FairSpec
CONSTANTS
    Requests = {r1, r2, r3}
    Keys = {k1, k2}
    NoRequest = NoRequest
    MaxCrashes = 1
INVARIANTS TypeOK OneWorkflowPerKey SameCaseForSameKey WorkflowHasRow
PROPERTIES EveryDeliveryEnds ImplementsIntake
CHECK_DEADLOCK FALSE
