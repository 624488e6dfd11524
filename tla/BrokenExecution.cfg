SPECIFICATION Spec
CONSTANTS
    Scenarios <- UnattendedScenario
    ForceScenarios = {"none"}
    RunbookActions <- CorpusActions
    AuthoredActions = {}
    RegisteredActions <- CorpusActions
    MAXIMUM_ATTEMPTS = 3
    MAX_APPROVAL_ESCALATIONS = 1
    MAX_REINVESTIGATION_ATTEMPTS = 1
    MaxLate = 0
INVARIANT FailedExecutionEscalates
CHECK_DEADLOCK FALSE
