-------------------------- MODULE IngestionWorker --------------------------
(***************************************************************************)
(* The Celery worker: ingest_document_version and run_delivery in          *)
(* app/documents/tasks.py, driving DocumentIngestionService in             *)
(* app/documents/ingestion.py.                                             *)
(*                                                                         *)
(* Every database transaction of the service is one atomic step, because   *)
(* _load_locked takes the version's row lock first.  Between two of them   *)
(* anything else may happen.  A transaction that fails may have committed  *)
(* (the acknowledgement was lost) or not; both lead to the retry path.     *)
(***************************************************************************)
EXTENDS IngestionState

WorkerFrame == UNCHANGED <<intent, relay>>

Job(w) == worker[w].job

Goto(w, pc) == worker' = [worker EXCEPT ![w].pc = pc]

\* The delivery ends: its message is acknowledged unless the caller puts it
\* back, and its lock connection is gone.
EndDelivery(w) ==
    /\ worker' = [worker EXCEPT ![w] = [pc |-> "idle", job |-> None]]
    /\ lock' = [lock EXCEPT ![Job(w).version] = IF @ = w THEN None ELSE @]

(***************************************************************************)
(* Transitions of the version row.                                         *)
(***************************************************************************)
Extracting(row, task, left) ==
    [row EXCEPT !.status = "extracting", !.processing_task_id = task,
                !.attempt_count = @ + 1, !.error_code = None, !.safe_after = left]

Ready(row) ==
    [row EXCEPT !.status = "ready", !.error_code = None,
                !.processing_task_id = None, !.safe_after = None]

Failed(row, code) ==
    [row EXCEPT !.status = "failed", !.error_code = code,
                !.processing_task_id = None, !.safe_after = None]

\* Mutation of Requeued: prepare_retry keeps the owner.
RequeuedKeepingOwner(row) ==
    [row EXCEPT !.status = "queued", !.error_code = "unavailable"]

Requeued(row) ==
    [row EXCEPT !.status = "queued", !.error_code = "unavailable",
                !.processing_task_id = None, !.safe_after = None]

(***************************************************************************)
(* A delivery arrives.  delivery_lock tries the version's advisory lock on *)
(* a dedicated connection; a delivery that finds it taken returns, which   *)
(* acknowledges its message.                                               *)
(***************************************************************************)
\* Mutation of Deliver: the delivery does not look at the lock.
DeliverUnlocked(w, m) ==
    /\ worker[w].pc = "idle" /\ m \in queue
    /\ queue' = queue \ {m}
    /\ lock' = [lock EXCEPT ![m.version] = w]
    /\ worker' = [worker EXCEPT ![w] = [pc |-> "claim", job |-> m]]
    /\ UNCHANGED <<version, audit>> /\ WorkerFrame

Deliver(w, m) ==
    /\ worker[w].pc = "idle" /\ m \in queue
    /\ lock[m.version] = None
    /\ queue' = queue \ {m}
    /\ lock' = [lock EXCEPT ![m.version] = w]
    /\ worker' = [worker EXCEPT ![w] = [pc |-> "claim", job |-> m]]
    /\ UNCHANGED <<version, audit>> /\ WorkerFrame

DeliverBusy(w, m) ==
    /\ worker[w].pc = "idle" /\ m \in queue
    /\ lock[m.version] # None
    /\ queue' = queue \ {m}
    /\ UNCHANGED <<version, audit, lock, worker>> /\ WorkerFrame

(***************************************************************************)
(* _claim.  Each branch is one of the early returns of the transaction;    *)
(* "reported" is FALSE when the commit succeeded but its answer was lost.  *)
(***************************************************************************)
\* A terminal version, or one that another task is extracting, is left alone.
ClaimRefused(w) ==
    LET row == version[Job(w).version] IN
    /\ worker[w].pc = "claim"
    /\ \/ Terminal(row)
       \/ row.status = "extracting" /\ row.processing_task_id # Job(w).task_id
    /\ Goto(w, "unlock")
    /\ UNCHANGED <<version, audit, queue, lock>> /\ WorkerFrame

\* The same task finds its own extraction: a redelivery resumes it, and the
\* attempt is not counted again.
ClaimResumes(w) ==
    /\ worker[w].pc = "claim"
    /\ OwnedExtraction(version[Job(w).version], Job(w).task_id)
    /\ Goto(w, "work")
    /\ UNCHANGED <<version, audit, queue, lock>> /\ WorkerFrame

ClaimExhausted(w, reported) ==
    LET v == Job(w).version IN
    /\ worker[w].pc = "claim"
    /\ version[v].status = "queued" /\ version[v].attempt_count >= MaxAttempts
    /\ version' = [version EXCEPT ![v] = Failed(@, "retry_exhausted")]
    /\ audit' = Audited(v, "failed")
    /\ Goto(w, IF reported THEN "unlock" ELSE "retry")
    /\ UNCHANGED <<queue, lock>> /\ WorkerFrame

\* Mutation of ClaimStarts: off by one in the attempt budget.
ClaimStartsOneMore(w, left, reported) ==
    LET v == Job(w).version IN
    /\ worker[w].pc = "claim"
    /\ version[v].status = "queued" /\ version[v].attempt_count <= MaxAttempts
    /\ version' = [version EXCEPT ![v] = Extracting(@, Job(w).task_id, left)]
    /\ Goto(w, IF reported THEN "work" ELSE "retry")
    /\ UNCHANGED <<audit, queue, lock>> /\ WorkerFrame

\* processing_started_at is the worker's clock, the relay compares it with the
\* database's: left ranges over what the two can make of it.
ClaimStarts(w, left, reported) ==
    LET v == Job(w).version IN
    /\ worker[w].pc = "claim"
    /\ version[v].status = "queued" /\ version[v].attempt_count < MaxAttempts
    /\ version' = [version EXCEPT ![v] = Extracting(@, Job(w).task_id, left)]
    /\ Goto(w, IF reported THEN "work" ELSE "retry")
    /\ UNCHANGED <<audit, queue, lock>> /\ WorkerFrame

(***************************************************************************)
(* _stage_verified_source, _scan and _extract, outside any transaction.    *)
(* The object is read back, checked, scanned and extracted; or storage or  *)
(* the scanner is unavailable (a soft time limit there counts as such); or *)
(* the content is rejected (an extraction that times out counts as such).  *)
(***************************************************************************)
Work(w, next) ==
    /\ worker[w].pc = "work"
    /\ next \in {"mark_ready", "mark_failed", "retry"}
    /\ Goto(w, next)
    /\ UNCHANGED <<version, audit, queue, lock>> /\ WorkerFrame

(***************************************************************************)
(* _mark_ready and _mark_failed: they write only if the task still owns    *)
(* the extraction.                                                         *)
(***************************************************************************)
\* Mutation of MarkReady: the final update does not check who owns the row.
MarkReadyUnchecked(w, reported) ==
    LET v == Job(w).version IN
    /\ worker[w].pc = "mark_ready"
    /\ version' = [version EXCEPT ![v] = Ready(@)]
    /\ audit' = Audited(v, "ready")
    /\ Goto(w, IF reported THEN "unlock" ELSE "retry")
    /\ UNCHANGED <<queue, lock>> /\ WorkerFrame

MarkReady(w, reported) ==
    LET v == Job(w).version IN
    /\ worker[w].pc = "mark_ready"
    /\ \/ /\ OwnedExtraction(version[v], Job(w).task_id)
          /\ version' = [version EXCEPT ![v] = Ready(@)]
          /\ audit' = Audited(v, "ready")
       \/ /\ ~ OwnedExtraction(version[v], Job(w).task_id)
          /\ UNCHANGED <<version, audit>>
    /\ Goto(w, IF reported THEN "unlock" ELSE "retry")
    /\ UNCHANGED <<queue, lock>> /\ WorkerFrame

MarkFailed(w, reported) ==
    LET v == Job(w).version IN
    /\ worker[w].pc = "mark_failed"
    /\ \/ /\ OwnedExtraction(version[v], Job(w).task_id)
          /\ version' = [version EXCEPT ![v] = Failed(@, "rejected")]
          /\ audit' = Audited(v, "failed")
       \/ /\ ~ OwnedExtraction(version[v], Job(w).task_id)
          /\ UNCHANGED <<version, audit>>
    /\ Goto(w, IF reported THEN "unlock" ELSE "retry")
    /\ UNCHANGED <<queue, lock>> /\ WorkerFrame

\* A transaction of process that rolls back: RetryableIngestionError.
DatabaseFault(w) ==
    /\ worker[w].pc \in {"claim", "mark_ready", "mark_failed"}
    /\ Goto(w, "retry")
    /\ UNCHANGED <<version, audit, queue, lock>> /\ WorkerFrame

(***************************************************************************)
(* run_delivery's handler of RetryableIngestionError.                      *)
(***************************************************************************)
\* mark_retry_exhausted.  When its own transaction fails the exception leaves
\* the task (WorkerAborted).
MarkRetryExhausted(w) ==
    LET v == Job(w).version IN
    /\ worker[w].pc = "retry" /\ Job(w).retries >= MaxRetries
    /\ \/ /\ OwnedExtraction(version[v], Job(w).task_id)
          /\ version' = [version EXCEPT ![v] = Failed(@, "retry_exhausted")]
          /\ audit' = Audited(v, "failed")
       \/ /\ ~ OwnedExtraction(version[v], Job(w).task_id)
          /\ UNCHANGED <<version, audit>>
    /\ Goto(w, "unlock")
    /\ UNCHANGED <<queue, lock>> /\ WorkerFrame

\* Mutation of PrepareRetry: it does not check who owns the row.
PrepareRetryUnchecked(w) ==
    LET v == Job(w).version IN
    /\ worker[w].pc = "retry" /\ Job(w).retries < MaxRetries
    /\ version' = [version EXCEPT ![v] = Requeued(@)]
    /\ Goto(w, "republish")
    /\ UNCHANGED <<audit, queue, lock>> /\ WorkerFrame

\* prepare_retry gives an owned extraction back to the queue.
PrepareRetry(w) ==
    LET v == Job(w).version IN
    /\ worker[w].pc = "retry" /\ Job(w).retries < MaxRetries
    /\ version' = [version EXCEPT ![v] =
                     IF OwnedExtraction(@, Job(w).task_id) THEN Requeued(@) ELSE @]
    /\ Goto(w, "republish")
    /\ UNCHANGED <<audit, queue, lock>> /\ WorkerFrame

\* prepare_retry failed; run_delivery swallows it and retries all the same.
PrepareRetryFault(w) ==
    /\ worker[w].pc = "retry" /\ Job(w).retries < MaxRetries
    /\ Goto(w, "republish")
    /\ UNCHANGED <<version, audit, queue, lock>> /\ WorkerFrame

\* task.retry publishes the same task with one more retry, under the lock.
Republish(w) ==
    /\ worker[w].pc = "republish"
    /\ queue' = queue \cup {[Job(w) EXCEPT !.retries = @ + 1]}
    /\ Goto(w, "unlock")
    /\ UNCHANGED <<version, audit, lock>> /\ WorkerFrame

Unlock(w) ==
    /\ worker[w].pc = "unlock"
    /\ EndDelivery(w)
    /\ UNCHANGED <<version, audit, queue>> /\ WorkerFrame

(***************************************************************************)
(* Failures of the process and of its lock connection.                     *)
(***************************************************************************)
\* The process dies: acks_late and reject_on_worker_lost put the message back.
WorkerLost(w) ==
    /\ worker[w].pc # "idle"
    /\ EndDelivery(w)
    /\ queue' = queue \cup {Job(w)}
    /\ UNCHANGED <<version, audit>> /\ WorkerFrame

\* The task ends by an exception nothing catches, or at the hard time limit:
\* Celery acknowledges its message.
WorkerAborted(w) ==
    /\ worker[w].pc # "idle"
    /\ EndDelivery(w)
    /\ UNCHANGED <<version, audit, queue>> /\ WorkerFrame

\* The server closes the connection that holds the lock; the worker goes on.
LockDropped(w) ==
    /\ LockCanDrop
    /\ worker[w].pc # "idle" /\ lock[Job(w).version] = w
    /\ lock' = [lock EXCEPT ![Job(w).version] = None]
    /\ UNCHANGED <<version, audit, queue, worker>> /\ WorkerFrame

SkewedDeadlines == (ExtractingSeconds - MaxSkew)..(ExtractingSeconds + MaxSkew)

WorkerNext ==
    \E w \in Workers :
        \/ \E m \in queue : Deliver(w, m) \/ DeliverBusy(w, m)
        \/ ClaimRefused(w) \/ ClaimResumes(w)
        \/ \E reported \in BOOLEAN :
              \/ ClaimExhausted(w, reported)
              \/ \E left \in SkewedDeadlines : ClaimStarts(w, left, reported)
              \/ MarkReady(w, reported) \/ MarkFailed(w, reported)
        \/ \E next \in WorkerPC : Work(w, next)
        \/ DatabaseFault(w)
        \/ MarkRetryExhausted(w) \/ PrepareRetry(w) \/ PrepareRetryFault(w)
        \/ Republish(w) \/ Unlock(w)
        \/ WorkerLost(w) \/ WorkerAborted(w) \/ LockDropped(w)
=============================================================================
