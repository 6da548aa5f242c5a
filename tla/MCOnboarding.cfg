CONSTANTS
    i1 = i1
    i2 = i2
    NoId = NoId
    Ids <- TwoIds
SPECIFICATION Spec
INVARIANT LinkSurvivesOnboarding
SYMMETRY Symmetry
CHECK_DEADLOCK FALSE
