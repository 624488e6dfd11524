SPECIFICATION FairSpec
CONSTANT Cases = {c1, c2}
INVARIANTS TypeOK OutcomeIsLastDecision
PROPERTY VerdictEndsReview
CHECK_DEADLOCK FALSE
