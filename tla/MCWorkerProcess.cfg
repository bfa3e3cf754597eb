\* One worker, started with each of some seventy settings.
SPECIFICATION WorkerSpec
CONSTANTS
    Sizes = {2, 3}
    Waits = {0, 1}
    StreamLimit = 2
    ReplyLimit = 2
    Candidates <- Tried
    Pids = {p1, p2}
    AgeCap = 7
    None = None
SYMMETRY Symmetry
INVARIANTS
    ScanIsBounded
    LimitsInOrder
    ClientsAccounted
    PeersVerified
PROPERTIES
    CleanIsEarned
