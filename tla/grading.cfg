\* Two criteria at most; every answer of the provider at every call.
SPECIFICATION FairSpec
CONSTANTS
    m1 = m1  m2 = m2  k1 = k1  k2 = k2  k3 = k3  k4 = k4  b1 = b1
    Models = {m1, m2}
    Keys = {k1, k2, k3, k4, b1}
    Requested = m1
    Fallbacks <- MCFallbacks
    EnvKeys <- MCEnvKeys
    MaxAttempts = 2
    NoKey = NoKey
    Rubrics <- MCRubrics
    Configs <- MCConfigs
    KeyChoices <- MCKeyChoices
    Scores <- MCScores
    NoScore = NoScore
INVARIANTS KeysMatch CallsBounded FailsOnlyExhausted AcceptedIsCertified BetterNeverWorse
PROPERTY AlwaysDecided
CHECK_DEADLOCK FALSE
