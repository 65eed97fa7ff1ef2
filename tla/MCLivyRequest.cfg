SPECIFICATION Spec
CONSTANTS
    maxRequestAttempts = 5
    RetryAfters = {0, 1, 20}
INVARIANTS
    SuccessIsReal
    OnlyDoubtsRepeat
PROPERTIES
    DecisionsAreFinal
