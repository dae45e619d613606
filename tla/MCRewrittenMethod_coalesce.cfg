SPECIFICATION FairSpec
CONSTANTS
    FastPathCount = 2
    MaxChoices = 4
    Methods <- Coalescing
INVARIANT
    SameBehaviour
