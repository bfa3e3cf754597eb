SPECIFICATION ClassificationSpec
CONSTANTS
    r1 = r1
    r2 = r2
    a1 = a1
    a2 = a2
    c1 = c1
    full = full
    empty = empty
    huge = huge
    NoValue = NoValue
    Requests = {r1, r2}
    Actors = {a1, a2}
    Configs = {c1}
    Inputs = {full, empty, huge}
    NoContext = {empty}
    TooLarge = {huge}
    Lifetime = 2
SYMMETRY RequestSymmetry
INVARIANTS OneCallPerIdentity FinishedOnce SuggestionIsFresh
PROPERTIES FinishedIsFinal ImplementsOperations
