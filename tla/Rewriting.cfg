SPECIFICATION Spec
CONSTANTS
    Word <- MCWord
    Canonical <- MCCanonical
    Yen = {60, 70}
    Date = {1, 2}
    Proc = {p1, p2}
    p1 = p1
    p2 = p2
    Texts <- MCTexts
    MaxMessages = 3
    MaxFaults = 1
SYMMETRY Commands
INVARIANTS UpdateShowsChange LinesAreTrue SilenceMeansTold LastWordIsCurrent
