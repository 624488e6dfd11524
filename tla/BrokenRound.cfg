SPECIFICATION Spec
CONSTANTS
    Scenarios <- TwoScenarios
    ForceScenarios = {"verification_not_resolved"}
    RunbookActions <- CorpusActions
    AuthoredActions = {}
    RegisteredActions <- CorpusActions
    MAXIMUM_ATTEMPTS = 2
    MAX_APPROVAL_ESCALATIONS = 1
    MAX_REINVESTIGATION_ATTEMPTS = 1
    MaxLate = 0
INVARIANT OneApprovalPerRound
CHECK_DEADLOCK FALSE
