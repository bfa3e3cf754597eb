----------------------------- MODULE Ingestion -----------------------------
(***************************************************************************)
(* The document-ingestion pipeline: uploads, workers, relays, the operator *)
(* and their environment (broker and clock), with the properties that make *)
(* it correct.                                                             *)
(***************************************************************************)
EXTENDS IngestionWorker, IngestionRelay

LegacyMessages == [version : Legacy, task_id : {"legacy"}, retries : {0}]

\* Before the first upload.  A legacy version is already queued, without an
\* intent, and its own message may or may not still be in the broker.
Init ==
    /\ version = [v \in Versions |-> IF v \in Legacy THEN NewVersion ELSE None]
    /\ intent = [v \in Versions |-> None]
    /\ audit = [v \in Versions |->
                  [e \in AuditEvents |->
                     IF v \in Legacy /\ e = "uploaded" THEN 1 ELSE 0]]
    /\ queue \in SUBSET LegacyMessages
    /\ lock = [v \in Versions |-> None]
    /\ worker = [w \in Workers |-> [pc |-> "idle", job |-> None]]
    /\ relay = [r \in Relays |-> [pc |-> "settle", job |-> None]]

\* The commit of create_upload: version, audit event and intent together.
Upload(v) ==
    /\ version[v] = None
    /\ version' = [version EXCEPT ![v] = NewVersion]
    /\ intent' = [intent EXCEPT ![v] = NewIntent("outbox")]
    /\ audit' = Audited(v, "uploaded")
    /\ UNCHANGED <<queue, lock, worker, relay>>

(***************************************************************************)
(* The broker.  It is a set: a second copy of a message in it would only   *)
(* matter after the first was taken, and Redeliver can bring that copy     *)
(* back at any time until the delivery ends.                               *)
(***************************************************************************)
\* The visibility timeout passes while a worker still runs the message.
Redeliver(w) ==
    /\ worker[w].pc # "idle"
    /\ queue' = queue \cup {Job(w)}
    /\ UNCHANGED <<version, intent, audit, lock, worker, relay>>

\* Redis restarts or is flushed; a delivery's lock query fails.
LoseMessage(m) ==
    /\ m \in queue
    /\ queue' = queue \ {m}
    /\ UNCHANGED <<version, intent, audit, lock, worker, relay>>

(***************************************************************************)
(* Time.                                                                   *)
(***************************************************************************)
Left(t) == IF t = None \/ t = 0 THEN t ELSE t - 1

VersionLater(row) ==
    IF row = None THEN None ELSE [row EXCEPT !.safe_after = Left(@)]

IntentLater(i) ==
    IF i = None THEN None
    ELSE [i EXCEPT !.available_at = Left(@), !.settled_at = Left(@),
                   !.lease_expires_at = Left(@)]

Tick ==
    /\ version' = [v \in Versions |-> VersionLater(version[v])]
    /\ intent' = [v \in Versions |-> IntentLater(intent[v])]
    /\ UNCHANGED <<audit, queue, lock, worker, relay>>

Next ==
    \/ \E v \in Versions : Upload(v)
    \/ WorkerNext
    \/ RelayNext
    \/ \E w \in Workers : Redeliver(w)
    \/ \E m \in queue : LoseMessage(m)
    \/ Tick

Spec == Init /\ [][Next]_vars

(***************************************************************************)
(* Fairness: time passes; the relay's loop goes on; and a transaction that *)
(* is tried again at every poll does not fail at every poll.  Nothing is   *)
(* assumed of workers, of the broker, or of publications.                  *)
(***************************************************************************)
SettleAll(r) == SettleTerminal(r, {v \in Versions : Settleable(v)})

Fairness ==
    /\ WF_vars(Tick)
    /\ \A r \in Relays :
          /\ WF_vars(RelayStep(r))
          /\ SF_vars(SettleAll(r))
          /\ SF_vars(\E v \in Versions : ClaimSome(r, v))

FairSpec == Spec /\ Fairness

(***************************************************************************)
(* Properties.                                                             *)
(***************************************************************************)
\* The rows, the messages and the processes' states have their types.
TypeOK == IngestionTypeOK

\* Exactly one outcome is audited, and it is the one the version has:
\* redeliveries, retries, lost commits and repeated deliveries never write a
\* second one.  A grant is audited once.
AuditMatchesStatus ==
    \A v \in Versions : version[v] # None =>
        /\ audit[v]["ready"] = (IF version[v].status = "ready" THEN 1 ELSE 0)
        /\ audit[v]["failed"] = (IF version[v].status = "failed" THEN 1 ELSE 0)
        /\ intent[v] # None => audit[v]["rearmed"] = intent[v].recovery_grants

\* A version has an owner and a start time exactly while it is extracted: what
\* _claim, prepare_retry and the relay's ownership test rely on.
OwnedWhileExtracting ==
    \A v \in Versions : version[v] # None =>
        /\ version[v].status = "extracting" <=> version[v].processing_task_id # None
        /\ version[v].status = "extracting" <=> version[v].safe_after # None

\* The persisted attempt count never passes max_retries + 1, and no message or
\* publication carries a retry header beyond it, however often the version is
\* published again, redelivered, or granted recovery.
AttemptBudget ==
    /\ \A v \in Versions : version[v] # None => version[v].attempt_count <= MaxAttempts
    /\ \A m \in queue : m.retries <= MaxAttempts
    /\ \A r \in Relays : relay[r].job # None => relay[r].job.retries <= MaxAttempts

\* An accepted version that has no outcome keeps an intent that is not settled:
\* neither settle_terminal, claim nor cleanup can forget it.
NoIntentForgotten ==
    \A v \in Versions :
        /\ intent[v] # None /\ intent[v].settled_at # None =>
              version[v] # None /\ Terminal(version[v])
        /\ version[v] # None /\ v \notin Legacy /\ intent[v] = None =>
              Terminal(version[v])

\* Each grant buys one publication and one recovery, never more.
PublicationBudget ==
    \A v \in Versions : intent[v] # None =>
        /\ intent[v].publish_attempts <= MaxPublications + intent[v].recovery_grants
        /\ intent[v].recovery_attempts <= MaxRecoveries + intent[v].recovery_grants
        /\ intent[v].recovery_grants <= MaxGrants

\* The relay gives up on an intent only for a reason the row still shows: its
\* budget is spent, or a task that is not the intent's took the version.  An
\* intent it gave up on holds no lease and is not settled.
UnresolvedIsExplained ==
    \A v \in Versions : intent[v] # None /\ intent[v].unresolved =>
        /\ intent[v].lease_token = None /\ intent[v].settled_at = None
        /\ \/ intent[v].last_error = "attempts_exhausted" /\ BudgetSpent(intent[v])
           \/ intent[v].last_error = "ownership_ambiguous" /\ v \in Legacy

\* Under the advisory lock a worker that claimed a version still owns it when
\* it comes to write the outcome: no other delivery, retry or recovery took it
\* away or decided it in between.
ClaimStillHeld ==
    \A w \in Workers : worker[w].pc \in {"work", "mark_ready", "mark_failed"} =>
        OwnedExtraction(version[Job(w).version], Job(w).task_id)

\* A live lease ends early only by the finish of the relay that holds it.
LiveLeaseIsRespected ==
    [][\A v \in Versions :
          intent[v] # None /\ LeaseLive(intent[v]) =>
             /\ intent'[v] # None
             /\ \/ intent'[v].lease_token = intent[v].lease_token
                \/ \E r \in Relays :
                      /\ relay[r].pc \in {"finish_ok", "finish_failed"}
                      /\ Holds(r).version = v
                      /\ Holds(r).token = intent[v].lease_token
                      /\ relay'[r].job = None]_vars

\* Counters are never reset, and an outcome is final: no later step, of this or
\* of any other delivery, changes a decided version's row.
OutcomeIsFinal ==
    [][\A v \in Versions :
          /\ version[v] # None =>
                /\ version'[v] # None
                /\ version'[v].attempt_count >= version[v].attempt_count
                /\ Terminal(version[v]) => version'[v] = version[v]
          /\ intent[v] # None /\ intent'[v] # None =>
                /\ intent'[v].publish_attempts >= intent[v].publish_attempts
                /\ intent'[v].recovery_attempts >= intent[v].recovery_attempts
                /\ intent'[v].recovery_grants >= intent[v].recovery_grants]_vars

(***************************************************************************)
(* The pipeline implements the version lifecycle.                          *)
(***************************************************************************)
Lifecycle == INSTANCE VersionLifecycle WITH
    Attempts <- MaxAttempts,
    status   <- [v \in Versions |->
                   IF version[v] = None THEN "absent" ELSE version[v].status],
    attempts <- [v \in Versions |->
                   IF version[v] = None THEN 0 ELSE version[v].attempt_count],
    outcomes <- [v \in Versions |-> audit[v]["ready"] + audit[v]["failed"]]

\* Every step of the pipeline is a step of the abstract state machine, or
\* leaves it alone.
ImplementsLifecycle == Lifecycle!LifecycleSpec

(***************************************************************************)
(* Liveness.                                                               *)
(***************************************************************************)
Accounted(v) ==
    \/ intent[v] = None /\ version[v] # None /\ Terminal(version[v])
    \/ intent[v] # None /\ (intent[v].settled_at # None \/ intent[v].unresolved)

\* Every intent ends, for good, settled or surfaced as unresolved, whatever
\* workers and broker do: nothing stays silently pending.
EventuallyAccounted ==
    \A v \in Versions : intent[v] # None ~> []Accounted(v)
=============================================================================
