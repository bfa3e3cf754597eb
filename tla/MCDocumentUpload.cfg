\* One upload, whose commit may take effect unacknowledged.
SPECIFICATION UploadSpec
CONSTANTS
    v1 = v1
    w1 = w1
    r1 = r1
    None = None
    Versions = {v1}
    Legacy = {}
    Workers = {w1}
    Relays = {r1}
    MaxRetries = 1
    MaxPublications = 2
    MaxRecoveries = 1
    MaxGrants = 0
    LeaseSeconds = 1
    RecoverySeconds = 1
    ExtractingSeconds = 1
    MaxBackoff = 1
    RetentionSeconds = 1
    MaxSkew = 0
    LockCanDrop = FALSE
INVARIANTS
    AcceptedHasObject
    OnlyFailedUploadLacksObject
PROPERTIES
    ImplementsIngestion
