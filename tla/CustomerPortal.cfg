SPECIFICATION FairSpec
CONSTANTS
    Clicks = {c1, c2}
    NoCase = NoCase
    Packets = {"retry_payment", "issue_refund"}
    NoPacket = "none"
    MAX_REINVESTIGATION_ATTEMPTS = 0
INVARIANTS TypeOK OnePoll ShownIsWatched ResolvedIsTrue
PROPERTIES LeavesWhenOver CustomerLearns
CHECK_DEADLOCK FALSE
