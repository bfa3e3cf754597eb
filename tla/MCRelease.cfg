\* Three runs, each a deploy or a rollback, of images with different heads.
SPECIFICATION ReleaseSpec
CONSTANTS
    d1 = d1
    d2 = d2
    RunIds = {r1, r2, r3}
    Digests = {d1, d2}
    HeadOf <- Heads
    Shell = Shell
    Placeholder = Placeholder
    None = None
SYMMETRY Symmetry
INVARIANTS
    SchemaCoversServices
    EvidenceIsOneRelease
    EvidenceIsServing
PROPERTIES
    MixedNeedsBootstrap
    ReplacesWhatItRecorded
\* All runs of the bound may be over.
CHECK_DEADLOCK FALSE
