SPECIFICATION FairSpec
CONSTANTS
    Entries = {1, 2, 3, 4}
    Situations <- Texts
    Releases <- ThreeReleases
    Category <- TwoCategories
    Scores = {0, 1, 2, 3}
    Similarities <- AroundTheFirst
    MAXIMUM_ATTEMPTS = 2
    MaxSeedings = 2
INVARIANTS TypeOK WholeCorporaOnly LookupsSucceed DecideMeansClearWinner
PROPERTIES EvaluationCarriesOver RetrievalEnds
CHECK_DEADLOCK FALSE
