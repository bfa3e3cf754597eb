--------------------------- MODULE DocumentUpload ---------------------------
(***************************************************************************)
(* The upload of a document (create_upload in app/documents/service.py)    *)
(* with the private object it stores, composed with the ingestion          *)
(* pipeline that reads the object back.  The object is put before the rows *)
(* are committed and deleted again when the commit fails; storage and      *)
(* database share no transaction, so anything may happen between two       *)
(* steps, and each of them may take effect and still report an error.      *)
(***************************************************************************)
EXTENDS Ingestion

VARIABLES stored,  \* is the version's object in storage?
          upload   \* progress of the request that uploads the version

uploadVars == <<version, intent, audit, queue, lock, worker, relay, stored, upload>>

\* What the request ended with: 202, 413 or 422, 503, 409, or no answer
\* ("died_rejecting": after its compensation).
Answer == {"accepted", "invalid", "storage_unavailable", "persistence_failed",
           "died", "died_rejecting"}

UploadPC == {"none", "put", "commit", "compensate", "reject"} \cup Answer

UploadInit ==
    /\ Init
    /\ stored = [v \in Versions |-> v \in Legacy]
    /\ upload = [v \in Versions |-> IF v \in Legacy THEN "accepted" ELSE "none"]

UploadGoto(v, pc) == upload' = [upload EXCEPT ![v] = pc]

\* stage_document_upload: an invalid upload is refused before any effect.
Stage(v, valid) ==
    /\ upload[v] = "none"
    /\ UploadGoto(v, IF valid THEN "put" ELSE "invalid")
    /\ UNCHANGED <<vars, stored>>

\* storage.put: replaces the object atomically, or fails; a failed put may
\* have stored it all the same, and nothing deletes it then.
Put(v, effect, reported) ==
    /\ upload[v] = "put"
    /\ reported => effect
    /\ stored' = [stored EXCEPT ![v] = effect]
    /\ UploadGoto(v, IF reported THEN "commit" ELSE "storage_unavailable")
    /\ UNCHANGED vars

\* Mutation of Commit: the rows are committed before the object is put.
CommitFirst(v, reported) ==
    /\ upload[v] = "put"
    /\ Upload(v)
    /\ UploadGoto(v, IF reported THEN "accepted" ELSE "compensate")
    /\ UNCHANGED stored

\* Mutation of Commit: the version is committed without its outbox intent.
CommitWithoutIntent(v, reported) ==
    /\ upload[v] = "commit"
    /\ version[v] = None
    /\ version' = [version EXCEPT ![v] = NewVersion]
    /\ UploadGoto(v, IF reported THEN "accepted" ELSE "compensate")
    /\ UNCHANGED <<intent, audit, queue, lock, worker, relay, stored>>

\* stage_upload_with_intent and the commit of its transaction, which may take
\* effect and report an error.
Commit(v, reported) ==
    /\ upload[v] = "commit"
    /\ Upload(v)
    /\ UploadGoto(v, IF reported THEN "accepted" ELSE "compensate")
    /\ UNCHANGED stored

CommitFails(v) ==
    /\ upload[v] = "commit"
    /\ UploadGoto(v, "compensate")
    /\ UNCHANGED <<vars, stored>>

\* Mutation of Compensate: the object of a finished upload is deleted too.
CompensateAlways(v, effect) ==
    /\ upload[v] \in {"compensate", "accepted"}
    /\ stored' = [stored EXCEPT ![v] = @ /\ ~ effect]
    /\ UploadGoto(v, IF upload[v] = "accepted" THEN "accepted" ELSE "reject")
    /\ UNCHANGED vars

\* _delete_after_failed_persistence: an error of the delete is only logged.
Compensate(v, effect) ==
    /\ upload[v] = "compensate"
    /\ stored' = [stored EXCEPT ![v] = @ /\ ~ effect]
    /\ UploadGoto(v, "reject")
    /\ UNCHANGED vars

\* DocumentPersistenceError is raised and answered.
Reject(v) ==
    /\ upload[v] = "reject"
    /\ UploadGoto(v, "persistence_failed")
    /\ UNCHANGED <<vars, stored>>

\* The API process dies during the request, or the rollback before the
\* compensation raises.  (A death between the commit and the answer 202 leaves
\* what a commit that was not acknowledged leaves, followed by this step.)
ApiDies(v) ==
    /\ upload[v] \in {"put", "commit", "compensate", "reject"}
    /\ UploadGoto(v, IF upload[v] = "reject" THEN "died_rejecting" ELSE "died")
    /\ UNCHANGED <<vars, stored>>

\* _stage_verified_source: an object that is not there cannot be opened, which
\* counts as unavailable storage; the work then ends in a retry.
ReadsObject ==
    \A w \in Workers :
        worker[w].pc = "work" /\ worker'[w].pc \in {"mark_ready", "mark_failed"} =>
            stored[Job(w).version]

PipelineStep ==
    /\ \/ WorkerNext /\ ReadsObject
       \/ RelayNext
       \/ \E w \in Workers : Redeliver(w)
       \/ \E m \in queue : LoseMessage(m)
       \/ Tick
    /\ UNCHANGED <<stored, upload>>

UploadStep(v) ==
    \/ \E valid \in BOOLEAN : Stage(v, valid)
    \/ \E effect, reported \in BOOLEAN : Put(v, effect, reported)
    \/ \E reported \in BOOLEAN : Commit(v, reported)
    \/ CommitFails(v)
    \/ \E effect \in BOOLEAN : Compensate(v, effect)
    \/ Reject(v)
    \/ ApiDies(v)

UploadNext == PipelineStep \/ \E v \in Versions : UploadStep(v)

UploadSpec == UploadInit /\ [][UploadNext]_uploadVars

-----------------------------------------------------------------------------
\* An accepted upload is durable and keeps its object (create_upload): whoever
\* was told 202 has a version, and its object is there whenever a worker, now
\* or after any number of crashes and recoveries, comes to read it.
AcceptedHasObject ==
    \A v \in Versions : upload[v] = "accepted" => version[v] # None /\ stored[v]

\* The uploads that came through their compensation, answered or not.
Compensated == {"reject", "persistence_failed", "died_rejecting"}

\* A version is without its object only when a commit of its rows reported an
\* error and the object was deleted for it (create_upload puts the object first,
\* _delete_after_failed_persistence is its only delete): never while its upload
\* still runs towards the commit, and not when the API died before the deletion.
OnlyFailedUploadLacksObject ==
    \A v \in Versions : version[v] # None /\ ~ stored[v] => upload[v] \in Compensated

\* The composition is an ingestion pipeline: storage only takes choices away
\* from it, so what Spec promises holds with uploads and storage too.
ImplementsIngestion == Spec

\* "DB failure rolls back all DB rows and compensates storage", says
\* docs/r1-integration-review.md.  An upload that was answered with
\* document_persistence_failed may have committed.
FailedUploadIsRolledBack ==
    \A v \in Versions : upload[v] = "persistence_failed" => version[v] = None
=============================================================================
