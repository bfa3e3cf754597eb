\* Two workers, one relay and the operator on one uploaded version.
SPECIFICATION FairSpec
CONSTANTS
    v1 = v1
    v2 = v2
    w1 = w1
    w2 = w2
    r1 = r1
    r2 = r2
    None = None
    Versions = {v1}
    Legacy = {}
    Workers = {w1, w2}
    Relays = {r1}
    MaxRetries = 1
    MaxPublications = 1
    MaxRecoveries = 1
    MaxGrants = 1
    LeaseSeconds = 1
    RecoverySeconds = 1
    ExtractingSeconds = 1
    MaxBackoff = 2
    RetentionSeconds = 1
    MaxSkew = 0
    LockCanDrop = FALSE
INVARIANTS
    AttemptBudget
    ClaimStillHeld
PROPERTIES
    ImplementsLifecycle
    EventuallyAccounted
