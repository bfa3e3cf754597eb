--------------------------- MODULE IngestionRelay ---------------------------
(***************************************************************************)
(* The transactional outbox: the relay's poll loop (app/documents/relay.py *)
(* and relay_runtime.py), the operator's rearm (recovery.py) and the       *)
(* one-off backfill.                                                       *)
(*                                                                         *)
(* One poll is settle_terminal, claim, publish, finish, cleanup; each but  *)
(* publish is one transaction.  SKIP LOCKED and the batch limits mean that *)
(* a transaction may pass over rows it could have taken, so a step works   *)
(* on any subset of the eligible rows.  An exception anywhere abandons the *)
(* poll, and the next one starts from the beginning.                       *)
(***************************************************************************)
EXTENDS IngestionState

RelayFrame == UNCHANGED <<version, lock, worker>>

Holds(r) == relay[r].job

RelayGoto(r, pc) == relay' = [relay EXCEPT ![r].pc = pc]

\* The rest of the poll is cleanup; a publication, if any, is done with.
EndTick(r) == relay' = [relay EXCEPT ![r] = [pc |-> "cleanup", job |-> None]]

Unleased(i) == [i EXCEPT !.lease_token = None, !.lease_expires_at = None]

Settled(i) == [Unleased(i) EXCEPT !.settled_at = RetentionSeconds]

\* Mutation of Settleable: an intent is settled whatever its version's status.
SettleableAny(v) ==
    /\ intent[v] # None
    /\ intent[v].settled_at = None /\ ~ LeaseLive(intent[v])

\* The intents settle_terminal may take.
Settleable(v) ==
    /\ intent[v] # None
    /\ intent[v].settled_at = None /\ ~ LeaseLive(intent[v])
    /\ Terminal(version[v])

\* Late worker completion settles even an unresolved intent.
SettleTerminal(r, taken) ==
    /\ relay[r].pc = "settle"
    /\ intent' = [v \in Versions |->
                    IF v \in taken
                      THEN [Settled(intent[v]) EXCEPT !.unresolved = FALSE,
                                                      !.last_error = None]
                      ELSE intent[v]]
    /\ RelayGoto(r, "claim")
    /\ UNCHANGED <<audit, queue>> /\ RelayFrame

(***************************************************************************)
(* claim: one due intent, decided by what its version's row says.          *)
(***************************************************************************)
Due(v) ==
    /\ intent[v] # None
    /\ intent[v].settled_at = None /\ ~ intent[v].unresolved
    /\ intent[v].available_at = 0 /\ ~ LeaseLive(intent[v])

\* The row is owned by a task that is not the intent's.
OwnershipAmbiguous(i, row) ==
    IF row.status = "extracting"
      THEN row.processing_task_id # i.task_id \/ row.safe_after = None
      ELSE row.processing_task_id \notin {None, i.task_id}

\* An extraction that may still be running.
StillExtracting(row) == row.status = "extracting" /\ row.safe_after # 0

\* Mutation of BudgetSpent: only failed publications are bounded.
BudgetSpentNoRecoveries(i) ==
    i.publish_attempts >= MaxPublications + i.recovery_grants

BudgetSpent(i) ==
    \/ i.publish_attempts >= MaxPublications + i.recovery_grants
    \/ i.recovery_attempts >= MaxRecoveries + i.recovery_grants

\* Mutation of Unresolved: the row keeps its old lease.
UnresolvedLeased(i, error) ==
    [i EXCEPT !.unresolved = TRUE, !.last_error = error]

\* Mutation of Unresolved: the reason is written, the mark is not.
UnresolvedUnmarked(i, error) ==
    [Unleased(i) EXCEPT !.last_error = error]

Unresolved(i, error) ==
    [Unleased(i) EXCEPT !.unresolved = TRUE, !.last_error = error]

\* A fresh lease.  publish_attempts never repeats a value, so the new count
\* stands for the random token.
Leased(i) ==
    [i EXCEPT !.recovery_attempts = IF i.published THEN @ + 1 ELSE @,
              !.publish_attempts = @ + 1,
              !.lease_token = i.publish_attempts + 1,
              !.lease_expires_at = LeaseSeconds,
              !.available_at = LeaseSeconds]

\* The retry header of a publication continues the persisted attempt count.
RetriesOf(row) ==
    IF row.status = "extracting" /\ row.attempt_count > 0
      THEN row.attempt_count - 1
      ELSE row.attempt_count

\* No due intent, or every one of them is locked.
ClaimNothing(r) ==
    /\ relay[r].pc = "claim"
    /\ EndTick(r)
    /\ UNCHANGED <<intent, audit, queue>> /\ RelayFrame

ClaimSettles(r, v) ==
    /\ relay[r].pc = "claim" /\ Due(v)
    /\ Terminal(version[v])
    /\ intent' = [intent EXCEPT ![v] = Settled(@)]
    /\ EndTick(r)
    /\ UNCHANGED <<audit, queue>> /\ RelayFrame

ClaimAmbiguous(r, v) ==
    /\ relay[r].pc = "claim" /\ Due(v)
    /\ ~ Terminal(version[v]) /\ OwnershipAmbiguous(intent[v], version[v])
    /\ intent' = [intent EXCEPT ![v] = Unresolved(@, "ownership_ambiguous")]
    /\ EndTick(r)
    /\ UNCHANGED <<audit, queue>> /\ RelayFrame

ClaimPostpones(r, v) ==
    /\ relay[r].pc = "claim" /\ Due(v)
    /\ ~ Terminal(version[v]) /\ ~ OwnershipAmbiguous(intent[v], version[v])
    /\ StillExtracting(version[v])
    /\ intent' = [intent EXCEPT ![v] =
                    [Unleased(@) EXCEPT !.available_at = version[v].safe_after]]
    /\ EndTick(r)
    /\ UNCHANGED <<audit, queue>> /\ RelayFrame

ClaimExhausts(r, v) ==
    /\ relay[r].pc = "claim" /\ Due(v)
    /\ ~ Terminal(version[v]) /\ ~ OwnershipAmbiguous(intent[v], version[v])
    /\ ~ StillExtracting(version[v]) /\ BudgetSpent(intent[v])
    /\ intent' = [intent EXCEPT ![v] = Unresolved(@, "attempts_exhausted")]
    /\ EndTick(r)
    /\ UNCHANGED <<audit, queue>> /\ RelayFrame

ClaimPublishes(r, v) ==
    /\ relay[r].pc = "claim" /\ Due(v)
    /\ ~ Terminal(version[v]) /\ ~ OwnershipAmbiguous(intent[v], version[v])
    /\ ~ StillExtracting(version[v]) /\ ~ BudgetSpent(intent[v])
    /\ intent' = [intent EXCEPT ![v] = Leased(@)]
    /\ relay' = [relay EXCEPT ![r] =
                   [pc |-> "publish",
                    job |-> [version |-> v, task_id |-> intent[v].task_id,
                             token |-> intent[v].publish_attempts + 1,
                             retries |-> RetriesOf(version[v])]]]
    /\ UNCHANGED <<audit, queue>> /\ RelayFrame

ClaimSome(r, v) ==
    \/ ClaimSettles(r, v) \/ ClaimAmbiguous(r, v) \/ ClaimPostpones(r, v)
    \/ ClaimExhausts(r, v) \/ ClaimPublishes(r, v)

(***************************************************************************)
(* publish, outside any transaction, and finish.                           *)
(***************************************************************************)
PublishedMessage(job) ==
    [version |-> job.version, task_id |-> job.task_id, retries |-> job.retries]

Publish(r) ==
    /\ relay[r].pc = "publish"
    /\ queue' = queue \cup {PublishedMessage(Holds(r))}
    /\ RelayGoto(r, "finish_ok")
    /\ UNCHANGED <<intent, audit>> /\ RelayFrame

\* send_task raised; the broker may have the message nevertheless.
PublishFault(r, sent) ==
    /\ relay[r].pc = "publish"
    /\ queue' = IF sent THEN queue \cup {PublishedMessage(Holds(r))} ELSE queue
    /\ RelayGoto(r, "finish_failed")
    /\ UNCHANGED <<intent, audit>> /\ RelayFrame

\* min(60, 2 ** min(publish_attempts, 6))
Backoff(attempts) ==
    LET power == <<2, 4, 8, 16, 32, 64>>
        delay == power[IF attempts < 6 THEN attempts ELSE 6]
    IN  IF delay < MaxBackoff THEN delay ELSE MaxBackoff

\* Mutation of HoldsLease: the token is not compared.
HoldsLeaseAnyToken(i, token) == i # None /\ LeaseLive(i)

HoldsLease(i, token) == i # None /\ i.lease_token = token /\ LeaseLive(i)

Finished(i, success) ==
    [Unleased(i) EXCEPT !.last_error = IF success THEN None ELSE "publish_unavailable",
                        !.published = success \/ @,
                        !.available_at = IF success THEN RecoverySeconds
                                         ELSE Backoff(i.publish_attempts)]

\* finish records the result only under the lease the publication was made with.
Finish(r) ==
    LET v == Holds(r).version IN
    /\ relay[r].pc \in {"finish_ok", "finish_failed"}
    /\ intent' = [intent EXCEPT ![v] =
                    IF HoldsLease(@, Holds(r).token)
                      THEN Finished(@, relay[r].pc = "finish_ok") ELSE @]
    /\ EndTick(r)
    /\ UNCHANGED <<audit, queue>> /\ RelayFrame

(***************************************************************************)
(* cleanup deletes settled intents after their retention.                  *)
(***************************************************************************)
Expired(v) ==
    /\ intent[v] # None
    /\ intent[v].settled_at = 0
    /\ ~ intent[v].unresolved /\ intent[v].lease_token = None

Cleanup(r, taken) ==
    /\ relay[r].pc = "cleanup"
    /\ intent' = [v \in Versions |-> IF v \in taken THEN None ELSE intent[v]]
    /\ RelayGoto(r, "settle")
    /\ UNCHANGED <<audit, queue>> /\ RelayFrame

\* An exception, or the death and restart of the relay: the poll is abandoned,
\* with whatever its transactions committed.
RelayAborted(r) ==
    /\ relay[r].pc # "settle"
    /\ relay' = [relay EXCEPT ![r] = [pc |-> "settle", job |-> None]]
    /\ UNCHANGED <<intent, audit, queue>> /\ RelayFrame

(***************************************************************************)
(* The operator's commands.                                                *)
(***************************************************************************)
Rearmable(i, row) ==
    /\ i.unresolved /\ i.last_error = "attempts_exhausted" /\ i.settled_at = None
    /\ ~ LeaseLive(i) /\ i.recovery_grants < MaxGrants
    /\ ~ Terminal(row) /\ ~ OwnershipAmbiguous(i, row) /\ ~ StillExtracting(row)
    /\ row.status = "queued" => row.attempt_count < MaxAttempts

Rearmed(i) ==
    [Unleased(i) EXCEPT !.recovery_grants = @ + 1, !.unresolved = FALSE,
                        !.last_error = None, !.available_at = 0]

\* rearm_intent grants one more publication, while no delivery holds the
\* version's advisory lock, and audits it.
Rearm(v) ==
    /\ intent[v] # None /\ Rearmable(intent[v], version[v])
    /\ lock[v] = None
    /\ intent' = [intent EXCEPT ![v] = Rearmed(@)]
    /\ audit' = Audited(v, "rearmed")
    /\ UNCHANGED <<queue, relay>> /\ RelayFrame

\* backfill inserts an intent for a queued version that has none.  It reuses
\* the persisted owner, if there is one, as the task's identity.
Backfill(v) ==
    /\ version[v] # None /\ version[v].status = "queued" /\ intent[v] = None
    /\ intent' = [intent EXCEPT ![v] =
                    NewIntent(IF version[v].processing_task_id = None THEN "outbox"
                              ELSE version[v].processing_task_id)]
    /\ UNCHANGED <<audit, queue, relay>> /\ RelayFrame

RelayStep(r) ==
    \/ \E taken \in SUBSET {v \in Versions : Settleable(v)} : SettleTerminal(r, taken)
    \/ ClaimNothing(r)
    \/ \E v \in Versions : ClaimSome(r, v)
    \/ Publish(r) \/ (\E sent \in BOOLEAN : PublishFault(r, sent))
    \/ Finish(r)
    \/ \E taken \in SUBSET {v \in Versions : Expired(v)} : Cleanup(r, taken)

RelayNext ==
    \/ \E r \in Relays : RelayStep(r) \/ RelayAborted(r)
    \/ \E v \in Versions : Rearm(v) \/ Backfill(v)
=============================================================================
