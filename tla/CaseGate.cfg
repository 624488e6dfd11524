SPECIFICATION Spec
CONSTANTS
    Scenarios <- RepresentativeScenarios
    ForceScenarios <- AllForced
    RunbookActions <- CorpusActions
    AuthoredActions <- HumanActions
    RegisteredActions <- CorpusActions
    MAXIMUM_ATTEMPTS = 2
    MAX_APPROVAL_ESCALATIONS = 1
    MAX_REINVESTIGATION_ATTEMPTS = 1
    MaxLate = 0
INVARIANTS TypeOK HumanGate UnattendedIsSafe FraudActionIsBlind OneEffectPerAttempt AttemptsAreBounded
PROPERTIES FollowsLifecycle FollowsRecord EveryStepCounts
CHECK_DEADLOCK FALSE
