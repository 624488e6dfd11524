SPECIFICATION FairSpec
CONSTANTS
    Scenarios <- TwoScenarios
    ForceScenarios = {"none", "verification_not_resolved"}
    RunbookActions <- CorpusActions
    AuthoredActions <- HumanActions
    RegisteredActions <- CorpusActions
    MAXIMUM_ATTEMPTS = 2
    MAX_APPROVAL_ESCALATIONS = 1
    MAX_REINVESTIGATION_ATTEMPTS = 1
    MaxLate = 0
PROPERTIES ApprovalWaitEnds CaseSettles
CHECK_DEADLOCK FALSE
