SPECIFICATION Spec
CONSTANTS
    Word <- MCWord
    Fold <- MCFold
    Role <- MCRole
    Rates = {50, 70, 80}
    Days = {1, 3}
    Dates = {1, 2}
    Keyword = {"night"}
    Contract = {"ukeoi", "haken"}
    Profiles <- MCProfiles
INVARIANTS TypeOK IdealGetsAll
PROPERTIES UnknownCountsForNothing BetterIsNeverWorse
