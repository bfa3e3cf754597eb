--------------------------- MODULE WorkerProcess ---------------------------
(***************************************************************************)
(* One Celery worker (app/worker.py, documents/worker_runtime.py,          *)
(* documents/composition.py): it starts when its settings are accepted,    *)
(* keeps one child process at a time (--concurrency=1), and the child      *)
(* builds its clients when it starts or, if that failed, at a delivery.    *)
(* A delivery gets the service, stages the document, scans it (Scanner)    *)
(* and extracts it; what it writes to the rows is module Ingestion's.      *)
(* Celery raises the soft limit's exception in the child and kills the     *)
(* child at the hard limit.                                                *)
(*                                                                         *)
(* The parent never asks for the service, so a child inherits an empty     *)
(* runtime; the storage has a client of its own only in S3 mode.           *)
(***************************************************************************)
EXTENDS Scanner

CONSTANTS Candidates,  \* the settings that a process may be started with
          Pids,        \* process ids, which the system uses again
          AgeCap,      \* definitions older than this are not told apart
          None

ASSUME WorkerAssumption ==
    /\ Candidates \subseteq SettingsRow
    /\ AgeCap \in Nat /\ None \notin Pids
    /\ \A s \in Candidates : AgeCap > s.maxAge + s.scanTimeout

VARIABLES worker,   \* starting, up or refused
          pid,      \* the child process, or None
          runtime,  \* the child's DocumentWorkerRuntime
          open      \* the clients that the child has open, by kind

workerVars == <<settings, worker, pid, runtime, open, task, age>>

RuntimeRow == [owner : Pids \cup {None}, engine : BOOLEAN, storage : BOOLEAN,
               service : BOOLEAN]

NoRuntime == [owner |-> None, engine |-> FALSE, storage |-> FALSE, service |-> FALSE]

NoClients == [engine |-> 0, storage |-> 0]

WorkerTypeOK ==
    /\ settings \in Candidates
    /\ worker \in {"starting", "up", "refused"}
    /\ pid \in Pids \cup {None}
    /\ runtime \in RuntimeRow
    /\ open \in [engine : Nat, storage : Nat]
    /\ task \in TaskRow
    /\ age \in Int /\ age <= AgeCap

WorkerInit ==
    /\ settings \in Candidates
    /\ worker = "starting"
    /\ pid = None /\ runtime = NoRuntime /\ open = NoClients
    /\ task = Idle
    /\ age \in {- settings.skew - 1, settings.maxAge}

-----------------------------------------------------------------------------
\* Settings() raises, and the process ends, unless the settings are accepted;
\* create_celery builds no worker client.
StartWorker ==
    /\ worker = "starting"
    /\ worker' = IF Accepted(settings) THEN "up" ELSE "refused"
    /\ UNCHANGED <<settings, pid, runtime, open, task, age>>

\* The container is started again.
RestartWorker ==
    /\ worker = "refused"
    /\ worker' = "starting"
    /\ UNCHANGED <<settings, pid, runtime, open, task, age>>

S3Client == IF settings.storage = "s3" THEN 1 ELSE 0

\* The clients that shutdown_child closes, storage and engine alike, whether
\* or not closing the storage fails.
AfterShutdown == [engine |-> open.engine - (IF runtime.engine THEN 1 ELSE 0),
                  storage |-> open.storage - (IF runtime.storage THEN S3Client ELSE 0)]

\* What initialize_child leaves: a service with its clients, or nothing more
\* than there was when a client could not be built.
Ready(p) == runtime.service /\ runtime.owner = p

Buildable == settings.scanner # "external"

Rebuilt(p) == [owner |-> p, engine |-> TRUE, storage |-> TRUE, service |-> TRUE]

BaseClients == IF runtime.service THEN AfterShutdown ELSE open

BaseRuntime == IF runtime.service THEN NoRuntime ELSE runtime

InitializeChild(p) ==
    IF Ready(p) THEN UNCHANGED <<runtime, open>>
    ELSE /\ Buildable
         /\ runtime' = Rebuilt(p)
         /\ open' = [engine |-> BaseClients.engine + 1,
                     storage |-> BaseClients.storage + S3Client]

\* Mutation of InitializeFails: the storage that was built stays open.
InitializeFailsOpen(p, storageBuilt) ==
    /\ ~ Ready(p)
    /\ storageBuilt => Buildable
    /\ runtime' = BaseRuntime
    /\ open' = IF storageBuilt THEN [BaseClients EXCEPT !.storage = @ + S3Client]
               ELSE BaseClients

\* The scanner or the storage cannot be built, or the engine after them; then
\* the storage is closed again.  (Nothing after build_engine can fail, so a
\* close that raises skips the disposal only where there is no engine yet.)
InitializeFails(p, storageBuilt) ==
    /\ ~ Ready(p)
    /\ storageBuilt => Buildable
    /\ runtime' = BaseRuntime
    /\ open' = BaseClients

\* A child starts with the parent's runtime, and worker_process_init is sent;
\* Celery only logs the handler's exception.
Fork(p) ==
    /\ worker = "up" /\ pid = None
    /\ pid' = p
    /\ \/ InitializeChild(p)
       \/ \E storageBuilt \in BOOLEAN : InitializeFails(p, storageBuilt)
    /\ UNCHANGED <<settings, worker, task, age>>

\* The child takes a message that its worker fetched some time before: the
\* parent prefetches one message, and holds a retry until its countdown is over.
TakeDelivery(size, waited) ==
    /\ pid # None /\ task.pc = "idle"
    /\ task' = [Idle EXCEPT !.pc = "service", !.size = size, !.waited = waited]
    /\ UNCHANGED <<settings, worker, pid, runtime, open, age>>

\* get_service: its exception ends the delivery.
GetService ==
    /\ task.pc = "service"
    /\ \/ InitializeChild(pid) /\ task' = [task EXCEPT !.pc = "stage"]
       \/ /\ \E storageBuilt \in BOOLEAN : InitializeFails(pid, storageBuilt)
          /\ task' = [task EXCEPT !.pc = "end"]
    /\ UNCHANGED <<settings, worker, pid, age>>

\* The row is claimed and the verified copy staged, or not.
Stage ==
    /\ task.pc = "stage"
    /\ task' \in {ScanBegins(task), [task EXCEPT !.pc = "end"]}
    /\ UNCHANGED <<settings, worker, pid, runtime, open, age>>

Scan ==
    /\ ScanStep
    /\ UNCHANGED <<worker, pid, runtime, open>>

Extract ==
    /\ task.pc = "extract"
    /\ task' = [task EXCEPT !.pc = "end"]
    /\ UNCHANGED <<settings, worker, pid, runtime, open, age>>

EndDelivery ==
    /\ task.pc = "end"
    /\ task' = Idle
    /\ UNCHANGED <<settings, worker, pid, runtime, open, age>>

\* The soft limit: a scan it interrupts counts as unavailable (_scan).
SoftLimit ==
    /\ task.pc # "idle" /\ task.at >= settings.softLimit /\ ~ task.warned
    /\ task' = [task EXCEPT !.warned = TRUE, !.pc = "end", !.until = 0,
                            !.verdict = IF Scanning THEN "unavailable" ELSE @]
    /\ UNCHANGED <<settings, worker, pid, runtime, open, age>>

\* The child is gone, and with it what it had open.
ChildGone ==
    /\ pid' = None /\ runtime' = NoRuntime /\ open' = NoClients /\ task' = Idle
    /\ UNCHANGED <<settings, worker, age>>

\* The hard limit.
HardLimit == task.pc # "idle" /\ task.at >= settings.hardLimit /\ ChildGone

\* worker_process_shutdown: shutdown_child, and the process stays a moment.
ShutdownChild ==
    /\ pid # None /\ task.pc = "idle" /\ runtime.service
    /\ runtime' = NoRuntime /\ open' = AfterShutdown
    /\ UNCHANGED <<settings, worker, pid, task, age>>

ChildExits == pid # None /\ task.pc = "idle" /\ ~ runtime.service /\ ChildGone

\* A second passes, unless a limit or the timeout of a call has come.
Tick ==
    /\ worker = "up"
    /\ task.pc # "idle" => /\ task.at < settings.hardLimit
                           /\ task.at < settings.softLimit \/ task.warned
    /\ Scanning => task.at < task.until
    /\ task' = IF task.pc = "idle" THEN task ELSE [task EXCEPT !.at = @ + 1]
    /\ age' = Lower(age + 1, AgeCap)
    /\ UNCHANGED <<settings, worker, pid, runtime, open>>

\* The daemon loads newer definitions.
ReloadDefinitions ==
    /\ worker = "up" /\ settings.scanner = "clamd" /\ age > settings.maxAge
    /\ age' = settings.maxAge
    /\ UNCHANGED <<settings, worker, pid, runtime, open, task>>

WorkerNext ==
    \/ StartWorker \/ RestartWorker
    \/ \E p \in Pids : Fork(p)
    \/ \E size \in Sizes, waited \in Waits : TakeDelivery(size, waited)
    \/ GetService \/ Stage \/ Scan \/ Extract \/ EndDelivery
    \/ SoftLimit \/ HardLimit \/ ShutdownChild \/ ChildExits
    \/ Tick \/ ReloadDefinitions

WorkerSpec == WorkerInit /\ [][WorkerNext]_workerVars

-----------------------------------------------------------------------------
\* In a deployed environment a document is found clean only after its whole
\* stream was sent to the daemon, within the limit, and by definitions that
\* were fresh at most one scan timeout before: however the daemon's answers are
\* split, delayed or lost, and whichever settings were accepted ("fail-closed",
\* ClamdDocumentSafetyScanner; "fake ... forbidden in staging and production").
CleanIsEarned ==
    [][task.verdict # "clean" /\ task'.verdict = "clean" /\ Deployed(settings) =>
         /\ task.exchange = "INSTREAM"
         /\ task.sent = task.size /\ task.size <= StreamLimit
         /\ - settings.skew <= age /\ age <= settings.maxAge + settings.scanTimeout]_workerVars

\* A scan is over within two connection timeouts (PING, VERSION) and one scan
\* timeout, however slowly the daemon takes chunks and sends its replies piece
\* by piece (_set_remaining_timeout before each call).
ScanIsBounded ==
    Scanning /\ settings.scanner = "clamd" =>
        task.at - task.begun <= 2 * settings.connectTimeout + settings.scanTimeout

\* Accepted settings put the limits in order for a running delivery: the soft
\* limit was raised before the hard one kills the child, and where it is
\* deployed a message whose visibility timeout, counted from its fetch, runs out
\* while the child is still at it had waited in the worker for at least what the
\* timeout leaves beyond the hard limit (the time limits and the visibility
\* timeout of the validator, which knows nothing of such waits).
LimitsInOrder ==
    task.pc # "idle" =>
        /\ task.at >= settings.hardLimit => task.warned
        /\ Deployed(settings) /\ task.waited + task.at >= settings.visibility =>
             task.waited > 0 /\ task.waited + settings.hardLimit >= settings.visibility

\* A child has open exactly the clients that its runtime can close, after any
\* number of failed and repeated initialisations, and a delivery past
\* get_service works with a service that this very process built
\* (initialize_child, shutdown_child).
ClientsAccounted ==
    /\ open = IF pid = None THEN NoClients
              ELSE [engine |-> IF runtime.engine THEN 1 ELSE 0,
                    storage |-> IF runtime.storage THEN S3Client ELSE 0]
    /\ Scanning \/ task.pc \in {"stage", "extract"} => Ready(pid)

\* With accepted settings of a deployed environment every connection verifies
\* its peer: what the validator lets a URL leave unsaid, the client built from
\* it adds (create_celery_client, build_engine, build_redis_client).
PeersVerified ==
    worker = "up" /\ Deployed(settings) =>
        /\ DatabaseVerified(settings) /\ RedisVerified(settings)
        /\ CeleryVerified(settings) /\ StorageVerified(settings)
=============================================================================
