\* A live worker may lose the connection that holds its advisory lock, so two
\* deliveries of one version can overlap.
SPECIFICATION Spec
CONSTANTS
    v1 = v1
    v2 = v2
    w1 = w1
    w2 = w2
    r1 = r1
    r2 = r2
    None = None
    Versions = {v1}
    Legacy = {}
    Workers = {w1, w2}
    Relays = {r1}
    MaxRetries = 1
    MaxPublications = 1
    MaxRecoveries = 1
    MaxGrants = 0
    LeaseSeconds = 1
    RecoverySeconds = 1
    ExtractingSeconds = 1
    MaxBackoff = 2
    RetentionSeconds = 1
    MaxSkew = 0
    LockCanDrop = TRUE
SYMMETRY WorkerSymmetry
INVARIANTS
    AuditMatchesStatus
    OwnedWhileExtracting
PROPERTIES
    OutcomeIsFinal
