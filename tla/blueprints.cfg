CONSTANTS
    Lower <- MCLower
    Characters <- MCCharacters
    Rank <- MCRank
    Bodies <- MCBodies
    Current <- MCCurrent

SPECIFICATION Spec
CHECK_DEADLOCK FALSE
INVARIANTS
    AcceptedIsClosed
    SamplesAreJudged
    ComparisonIsExact
