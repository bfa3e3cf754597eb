\* Two relays and the operator on a version of the release before the outbox,
\* whose own message may still be in the broker, with a clock that may be skewed.
SPECIFICATION Spec
CONSTANTS
    v1 = v1
    v2 = v2
    w1 = w1
    w2 = w2
    r1 = r1
    r2 = r2
    None = None
    Versions = {v1}
    Legacy = {v1}
    Workers = {w1}
    Relays = {r1, r2}
    MaxRetries = 0
    MaxPublications = 3
    MaxRecoveries = 1
    MaxGrants = 1
    LeaseSeconds = 1
    RecoverySeconds = 1
    ExtractingSeconds = 2
    MaxBackoff = 2
    RetentionSeconds = 1
    MaxSkew = 1
    LockCanDrop = FALSE
SYMMETRY RelaySymmetry
INVARIANTS
    UnresolvedIsExplained
    NoIntentForgotten
    PublicationBudget
PROPERTIES
    LiveLeaseIsRespected
