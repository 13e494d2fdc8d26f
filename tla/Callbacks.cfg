SPECIFICATION Spec
CONSTANTS
    Request = {"r1", "r2", "r3"}
    Capacity = 1
INVARIANTS TokenMeansConsent LoneCallbackNeverBlocks
