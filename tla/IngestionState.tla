--------------------------- MODULE IngestionState ---------------------------
(***************************************************************************)
(* State shared by the parts of the document-ingestion pipeline: the       *)
(* PostgreSQL rows (document_versions, document_ingestion_outbox, the      *)
(* audit events), the Celery broker queue, the advisory locks, and the     *)
(* program counters of the worker and relay processes.                     *)
(*                                                                         *)
(* A timestamp column is kept as the time that is left until it passes on  *)
(* the database clock, clipped at zero, and None is SQL NULL: "available_at *)
(* <= now" is available_at = 0 and "lease_expires_at > now" is             *)
(* lease_expires_at > 0.  Only Tick (module Ingestion) moves time.         *)
(***************************************************************************)
EXTENDS Integers

CONSTANTS
    Versions,           \* identities of document versions
    Legacy,             \* versions accepted by the release before the outbox
    Workers,            \* Celery worker processes (one task at a time each)
    Relays,             \* outbox relay processes
    None,               \* SQL NULL, and "no row"
    MaxRetries,         \* document_ingestion_max_retries
    MaxPublications,    \* RelayPolicy.max_publications
    MaxRecoveries,      \* RelayPolicy.max_recoveries
    MaxGrants,          \* the operator's limit of recovery grants
    LeaseSeconds,       \* RelayPolicy.lease_seconds
    RecoverySeconds,    \* RelayPolicy.recovery_seconds
    ExtractingSeconds,  \* RelayPolicy.extracting_seconds
    MaxBackoff,         \* the cap on the delay after a failed publication
    RetentionSeconds,   \* the seven days a settled intent is kept
    MaxSkew,            \* bound on worker clock minus database clock
    LockCanDrop         \* may a live worker lose its lock connection?

ASSUME ConstantsAssumption ==
    /\ Legacy \subseteq Versions
    /\ MaxRetries \in Nat /\ MaxPublications \in Nat /\ MaxRecoveries \in Nat
    /\ MaxGrants \in Nat
    /\ LeaseSeconds \in Nat \ {0} /\ RecoverySeconds \in Nat
    /\ ExtractingSeconds \in Nat /\ MaxBackoff \in Nat
    /\ RetentionSeconds \in Nat
    /\ MaxSkew \in 0..ExtractingSeconds
    /\ LockCanDrop \in BOOLEAN

VARIABLES
    version,    \* document_versions: a row, or None before the upload commits
    intent,     \* document_ingestion_outbox: the version's row, or None
    audit,      \* audit events written about each version, counted by kind
    queue,      \* the set of messages waiting in the broker (see Redeliver)
    lock,       \* holder of each version's session advisory lock, or None
    worker,     \* each worker's program counter and the message it runs
    relay       \* each relay's program counter and the publication it holds

vars == <<version, intent, audit, queue, lock, worker, relay>>

MaxAttempts == MaxRetries + 1

(***************************************************************************)
(* Rows.                                                                   *)
(***************************************************************************)
Status == {"queued", "extracting", "ready", "failed"}

TerminalStatus == {"ready", "failed"}

\* The identity a delivery runs under: the one the intent persisted, or the
\* one an older release sent with its own message.
TaskIds == {"outbox", "legacy"}

\* Error codes by what they mean to the pipeline: a dependency was unavailable
\* (database, storage, scanner), the content was rejected (malware, extraction
\* failure or limit), or the retries ran out.
ErrorCodes == {"unavailable", "rejected", "retry_exhausted"}

IntentErrors == {"publish_unavailable", "attempts_exhausted", "ownership_ambiguous"}

VersionRow ==
    [status             : Status,
     attempt_count      : Nat,
     processing_task_id : TaskIds \cup {None},
     safe_after         : Nat \cup {None},  \* processing_started_at + extracting_seconds
     error_code         : ErrorCodes \cup {None}]

IntentRow ==
    [task_id           : TaskIds,
     available_at      : Nat,
     published         : BOOLEAN,              \* published_at is not null
     settled_at        : Nat \cup {None},      \* retention left once settled
     unresolved        : BOOLEAN,              \* unresolved_at is not null
     lease_token       : Nat \cup {None},
     lease_expires_at  : Nat \cup {None},
     publish_attempts  : Nat,
     recovery_attempts : Nat,
     recovery_grants   : Nat,
     last_error        : IntentErrors \cup {None}]

AuditEvents == {"uploaded", "ready", "failed", "rearmed"}

\* A Celery message: the version's id as argument, the task id and the retry
\* count as headers.
Message == [version : Versions, task_id : TaskIds, retries : Nat]

Publication == [version : Versions, task_id : TaskIds, token : Nat, retries : Nat]

WorkerPC == {"idle", "claim", "work", "mark_ready", "mark_failed",
             "retry", "republish", "unlock"}

RelayPC == {"settle", "claim", "publish", "finish_ok", "finish_failed", "cleanup"}

ASSUME NoneAssumption ==
    /\ None \notin Nat /\ None \notin Workers /\ None \notin TaskIds
    /\ None \notin ErrorCodes /\ None \notin IntentErrors
    /\ None \notin VersionRow /\ None \notin IntentRow
    /\ None \notin Message /\ None \notin Publication

Terminal(row) == row.status \in TerminalStatus

LeaseLive(i) == i.lease_expires_at # None /\ i.lease_expires_at > 0

\* _is_owned_extraction: the row is being extracted under this task's identity.
OwnedExtraction(row, task) ==
    row.status = "extracting" /\ row.processing_task_id = task

\* The row stage_upload_with_intent accepts for a new upload.
NewVersion ==
    [status |-> "queued", attempt_count |-> 0, processing_task_id |-> None,
     safe_after |-> None, error_code |-> None]

\* A fresh intent: every column but the task id is a server default.
NewIntent(task) ==
    [task_id |-> task, available_at |-> 0, published |-> FALSE,
     settled_at |-> None, unresolved |-> FALSE, lease_token |-> None,
     lease_expires_at |-> None, publish_attempts |-> 0, recovery_attempts |-> 0,
     recovery_grants |-> 0, last_error |-> None]

\* One audit event about v, in the transaction of the action that writes it.
Audited(v, event) == [audit EXCEPT ![v][event] = @ + 1]

(***************************************************************************)
(* The type of the state.                                                  *)
(***************************************************************************)
WorkerState == [pc : WorkerPC, job : Message \cup {None}]

RelayState == [pc : RelayPC, job : Publication \cup {None}]

IngestionTypeOK ==
    /\ version \in [Versions -> VersionRow \cup {None}]
    /\ intent \in [Versions -> IntentRow \cup {None}]
    /\ audit \in [Versions -> [AuditEvents -> Nat]]
    /\ queue \subseteq Message
    /\ lock \in [Versions -> Workers \cup {None}]
    /\ worker \in [Workers -> WorkerState]
    /\ relay \in [Relays -> RelayState]
=============================================================================
