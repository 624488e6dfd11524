SPECIFICATION Spec
CONSTANTS
    Scenarios <- UnattendedScenario
    ForceScenarios = {"none", "verification_not_resolved"}
    RunbookActions <- CorpusActions
    AuthoredActions = {}
    RegisteredActions <- CorpusActions
    MAXIMUM_ATTEMPTS = 2
    MAX_APPROVAL_ESCALATIONS = 0
    MAX_REINVESTIGATION_ATTEMPTS = 1
    MaxLate = 1
INVARIANTS RowKeepsUp PacketNamesTheAction TablesTellWhatRan EndIsOnRecord
PROPERTY TrailIsContiguous
CHECK_DEADLOCK FALSE
