-------------------------- MODULE IngestionProofs --------------------------
(***************************************************************************)
(* Machine-checked proofs about the ingestion pipeline, for every set of   *)
(* versions, workers and relays and every value of the limits.             *)
(***************************************************************************)
EXTENDS Ingestion, TLAPS

(***************************************************************************)
(* The inductive invariant.  VersionOK and IntentOK speak of one row,      *)
(* Agreement of the rows of one version, MessageOK of whatever can start a *)
(* delivery: a message in the broker, in a worker, or about to be sent.    *)
(***************************************************************************)
VersionOK(v, row) ==
    /\ row.status = "extracting" <=> row.processing_task_id # None
    /\ row.status = "extracting" <=> row.safe_after # None
    /\ row.attempt_count <= MaxAttempts
    /\ v \notin Legacy => row.processing_task_id \in {None, "outbox"}

IntentOK(v, i) ==
    /\ i.task_id = "outbox"
    /\ i.lease_token = None <=> i.lease_expires_at = None
    /\ i.lease_token # None => i.publish_attempts > 0
    /\ i.publish_attempts <= MaxPublications + i.recovery_grants
    /\ i.recovery_attempts <= MaxRecoveries + i.recovery_grants
    /\ i.recovery_grants <= MaxGrants
    /\ i.unresolved =>
          /\ i.lease_token = None /\ i.settled_at = None
          /\ \/ i.last_error = "attempts_exhausted" /\ BudgetSpent(i)
             \/ i.last_error = "ownership_ambiguous" /\ v \in Legacy

Rows ==
    \A v \in Versions :
        /\ version[v] # None => VersionOK(v, version[v])
        /\ intent[v] # None => version[v] # None /\ IntentOK(v, intent[v])

Agreement ==
    \A v \in Versions : 
        /\ version[v] # None =>
              /\ audit[v]["ready"] = (IF version[v].status = "ready" THEN 1 ELSE 0)
              /\ audit[v]["failed"] = (IF version[v].status = "failed" THEN 1 ELSE 0)
              /\ intent[v] # None => audit[v]["rearmed"] = intent[v].recovery_grants
              /\ v \notin Legacy /\ intent[v] = None => Terminal(version[v])
              /\ intent[v] # None /\ intent[v].settled_at # None => Terminal(version[v])
              /\ intent[v] = None /\ ~ Terminal(version[v]) => audit[v]["rearmed"] = 0
        /\ version[v] = None =>
              \A e \in {"ready", "failed", "rearmed"} : audit[v][e] = 0

MessageOK(m) ==
    /\ version[m.version] # None
    /\ m.retries <= MaxAttempts
    /\ m.version \notin Legacy => m.task_id = "outbox"

WorkerOK(s) ==
    /\ s.pc # "idle" => s.job # None
    /\ s.job # None => MessageOK(s.job)
    /\ s.pc = "republish" => s.job.retries < MaxRetries

RelayOK(s) ==
    /\ s.pc \in {"publish", "finish_ok", "finish_failed"} => s.job # None
    /\ s.job # None => MessageOK(s.job)

Deliveries ==
    /\ \A m \in queue : MessageOK(m)
    /\ \A w \in Workers : WorkerOK(worker[w])
    /\ \A r \in Relays : RelayOK(relay[r])

IInv == TypeOK /\ Rows /\ Agreement /\ Deliveries

(***************************************************************************)
(* What the row operations of the worker produce.                          *)
(***************************************************************************)
\* A claim below the attempt budget yields a consistent, owned row.
LEMMA ExtractingOK ==
    ASSUME NEW v, NEW row \in VersionRow, NEW task \in TaskIds, NEW left \in Nat,
           row.attempt_count < MaxAttempts, v \notin Legacy => task = "outbox"
    PROVE  /\ Extracting(row, task, left) \in VersionRow
           /\ VersionOK(v, Extracting(row, task, left))
           /\ Extracting(row, task, left).status = "extracting"
<1> DEFINE n == row.attempt_count + 1
<1>1. n \in Nat /\ n <= MaxAttempts
  BY ConstantsAssumption DEF VersionRow, MaxAttempts
<1>2. task # None /\ left # None
  BY NoneAssumption
<1> HIDE DEF n
<1> DEFINE new == [row EXCEPT !.status = "extracting", !.processing_task_id = task,
                              !.attempt_count = n, !.error_code = None,
                              !.safe_after = left]
<1>3. /\ new \in VersionRow
      /\ new.status = "extracting" /\ new.processing_task_id = task
      /\ new.attempt_count = n /\ new.safe_after = left
  BY <1>1 DEF VersionRow, Status
<1>4. new = Extracting(row, task, left)
  BY DEF Extracting, n
<1> HIDE DEF new
<1>. QED BY <1>1, <1>2, <1>3, <1>4 DEF VersionOK

\* An outcome or a retry releases the row's owner and keeps its attempts.
LEMMA ReleasedOK ==
    ASSUME NEW v, NEW row \in VersionRow, NEW code \in ErrorCodes, VersionOK(v, row),
           NEW new \in {Ready(row), Failed(row, code), Requeued(row)}
    PROVE  /\ new \in VersionRow
           /\ VersionOK(v, new)
           /\ new.attempt_count = row.attempt_count
           /\ new = Ready(row) => new.status = "ready"
           /\ new = Failed(row, code) => new.status = "failed"
           /\ new = Requeued(row) => new.status = "queued"
<1>1. /\ new \in VersionRow /\ new.status # "extracting"
      /\ new.processing_task_id = None /\ new.safe_after = None
      /\ new.attempt_count = row.attempt_count
      /\ new = Ready(row) => new.status = "ready"
      /\ new = Failed(row, code) => new.status = "failed"
      /\ new = Requeued(row) => new.status = "queued"
  BY DEF VersionRow, Ready, Failed, Requeued, Status, ErrorCodes
<1>. QED BY <1>1 DEF VersionOK

\* A countdown stays a countdown, and a NULL stays NULL.
LEMMA LeftType ==
    ASSUME NEW t \in Nat \cup {None}
    PROVE  /\ Left(t) \in Nat \cup {None}
           /\ t \in Nat => Left(t) \in Nat
           /\ Left(t) = None <=> t = None
BY NoneAssumption DEF Left

\* Time changes nothing of a version's row but the countdown.
LEMMA VersionLaterOK ==
    ASSUME NEW v, NEW row \in VersionRow
    PROVE  /\ VersionLater(row) \in VersionRow
           /\ VersionLater(row).status = row.status
           /\ VersionLater(row).attempt_count = row.attempt_count
           /\ VersionLater(row).error_code = row.error_code
           /\ VersionLater(row).processing_task_id = row.processing_task_id
           /\ row.safe_after = None => VersionLater(row) = row
           /\ VersionOK(v, row) => VersionOK(v, VersionLater(row))
<1> DEFINE t == Left(row.safe_after)
           new == [row EXCEPT !.safe_after = t]
<1>1. t \in Nat \cup {None} /\ (t = None <=> row.safe_after = None)
  BY LeftType DEF VersionRow
<1>2. VersionLater(row) = new
  BY NoneAssumption DEF VersionLater
<1> HIDE DEF t
<1>3. /\ new \in VersionRow /\ new.safe_after = t
      /\ new.status = row.status /\ new.attempt_count = row.attempt_count
      /\ new.error_code = row.error_code
      /\ new.processing_task_id = row.processing_task_id
      /\ t = row.safe_after => new = row
  BY <1>1 DEF VersionRow
<1>4. row.safe_after = None => t = row.safe_after
  BY <1>1
<1> HIDE DEF new
<1>. QED BY <1>1, <1>2, <1>3, <1>4 DEF VersionOK

(***************************************************************************)
(* What the row operations of the relay and the operator produce.          *)
(***************************************************************************)
\* Releasing the lease changes nothing else.
LEMMA UnleasedOK ==
    ASSUME NEW i \in IntentRow
    PROVE  /\ Unleased(i) \in IntentRow
           /\ Unleased(i).lease_token = None /\ Unleased(i).lease_expires_at = None
           /\ Unleased(i).task_id = i.task_id
           /\ Unleased(i).settled_at = i.settled_at
           /\ Unleased(i).unresolved = i.unresolved
           /\ Unleased(i).last_error = i.last_error
           /\ Unleased(i).published = i.published
           /\ Unleased(i).publish_attempts = i.publish_attempts
           /\ Unleased(i).recovery_attempts = i.recovery_attempts
           /\ Unleased(i).recovery_grants = i.recovery_grants
BY DEF IntentRow, Unleased

\* settle_terminal's and claim's settlement of an intent.
LEMMA SettledOK ==
    ASSUME NEW v, NEW i \in IntentRow, IntentOK(v, i),
           NEW new \in {Settled(i), [Settled(i) EXCEPT !.unresolved = FALSE,
                                                       !.last_error = None]},
           new = Settled(i) => ~ i.unresolved
    PROVE  /\ new \in IntentRow
           /\ IntentOK(v, new)
           /\ new.settled_at # None
           /\ new.publish_attempts = i.publish_attempts
           /\ new.recovery_attempts = i.recovery_attempts
           /\ new.recovery_grants = i.recovery_grants
<1> DEFINE u == Unleased(i)
<1>1. /\ new \in IntentRow /\ new.settled_at = RetentionSeconds
      /\ new.lease_token = None /\ new.lease_expires_at = None
      /\ new.task_id = u.task_id /\ new.publish_attempts = u.publish_attempts
      /\ new.recovery_attempts = u.recovery_attempts
      /\ new.recovery_grants = u.recovery_grants
      /\ new = Settled(i) => new.unresolved = u.unresolved
      /\ new # Settled(i) => new.unresolved = FALSE
  <2>1. u \in IntentRow /\ u.lease_token = None /\ u.lease_expires_at = None
    BY UnleasedOK
  <2> HIDE DEF u
  <2>2. Settled(i) = [u EXCEPT !.settled_at = RetentionSeconds]
    BY DEF Settled, u
  <2>3. RetentionSeconds \in Nat
    BY ConstantsAssumption
  <2>4. CASE new = Settled(i)
    BY <2>1, <2>2, <2>3, <2>4 DEF IntentRow
  <2>5. CASE new # Settled(i)
    <3>1. new = [[u EXCEPT !.settled_at = RetentionSeconds]
                   EXCEPT !.unresolved = FALSE, !.last_error = None]
      BY <2>2, <2>5
    <3>. QED BY <2>1, <2>3, <2>5, <3>1 DEF IntentRow
  <2>. QED BY <2>4, <2>5
<1>2. ~ new.unresolved
  <2>1. CASE new = Settled(i)
    BY <1>1, <2>1, UnleasedOK
  <2>2. CASE new # Settled(i)
    BY <1>1, <2>2
  <2>. QED BY <2>1, <2>2
<1>3. RetentionSeconds # None
  BY ConstantsAssumption, NoneAssumption
<1>. QED BY <1>1, <1>2, <1>3, UnleasedOK DEF IntentOK

\* Giving up on an intent that has a reason to be given up.
LEMMA UnresolvedOK ==
    ASSUME NEW v, NEW i \in IntentRow, IntentOK(v, i), i.settled_at = None,
           NEW error \in IntentErrors,
           \/ error = "attempts_exhausted" /\ BudgetSpent(i)
           \/ error = "ownership_ambiguous" /\ v \in Legacy
    PROVE  LET new == Unresolved(i, error) IN
           /\ new \in IntentRow /\ IntentOK(v, new)
           /\ new.settled_at = None
           /\ new.publish_attempts = i.publish_attempts
           /\ new.recovery_attempts = i.recovery_attempts
           /\ new.recovery_grants = i.recovery_grants
<1> DEFINE u == Unleased(i)
           new == Unresolved(i, error)
<1>1. u \in IntentRow
  BY UnleasedOK
<1>2. /\ new \in IntentRow /\ new.unresolved = TRUE /\ new.last_error = error
      /\ new.lease_token = u.lease_token /\ new.lease_expires_at = u.lease_expires_at
      /\ new.task_id = u.task_id /\ new.settled_at = u.settled_at
      /\ new.publish_attempts = u.publish_attempts
      /\ new.recovery_attempts = u.recovery_attempts
      /\ new.recovery_grants = u.recovery_grants
  <2> HIDE DEF u
  <2>1. new = [u EXCEPT !.unresolved = TRUE, !.last_error = error]
    BY DEF Unresolved, u
  <2>. QED BY <1>1, <2>1 DEF IntentRow
<1> HIDE DEF new
<1>3. BudgetSpent(i) => BudgetSpent(new)
  BY <1>2, UnleasedOK DEF BudgetSpent
<1>4. IntentOK(v, new)
  BY <1>2, <1>3, UnleasedOK DEF IntentOK
<1>5. /\ new.settled_at = None /\ new.publish_attempts = i.publish_attempts
      /\ new.recovery_attempts = i.recovery_attempts
      /\ new.recovery_grants = i.recovery_grants
  BY <1>2, UnleasedOK
<1>. QED BY <1>2, <1>4, <1>5 DEF new

\* A lease within the budget.
LEMMA LeasedOK ==
    ASSUME NEW v, NEW i \in IntentRow, IntentOK(v, i), ~ i.unresolved,
           i.settled_at = None, ~ BudgetSpent(i)
    PROVE  LET new == Leased(i) IN
           /\ new \in IntentRow /\ IntentOK(v, new)
           /\ new.settled_at = None
           /\ new.publish_attempts >= i.publish_attempts
           /\ new.recovery_attempts >= i.recovery_attempts
           /\ new.recovery_grants = i.recovery_grants
<1> DEFINE p == i.publish_attempts + 1
           q == IF i.published THEN i.recovery_attempts + 1 ELSE i.recovery_attempts
           new == Leased(i)
<1>0. /\ i.publish_attempts \in Nat /\ i.recovery_attempts \in Nat
      /\ i.recovery_grants \in Nat
  BY DEF IntentRow
<1>1. /\ p \in Nat \ {0} /\ q \in Nat
      /\ p <= MaxPublications + i.recovery_grants
      /\ q <= MaxRecoveries + i.recovery_grants
      /\ p >= i.publish_attempts /\ q >= i.recovery_attempts
  BY <1>0, ConstantsAssumption DEF BudgetSpent
<1>2. new = [i EXCEPT !.recovery_attempts = q, !.publish_attempts = p,
                      !.lease_token = p, !.lease_expires_at = LeaseSeconds,
                      !.available_at = LeaseSeconds]
  BY DEF Leased
<1> HIDE DEF p, q, new
<1>3. LeaseSeconds \in Nat
  BY ConstantsAssumption
<1>4. /\ new \in IntentRow
      /\ new.recovery_attempts = q /\ new.publish_attempts = p
      /\ new.lease_token = p /\ new.lease_expires_at = LeaseSeconds
      /\ new.unresolved = i.unresolved /\ new.settled_at = i.settled_at
      /\ new.recovery_grants = i.recovery_grants /\ new.task_id = i.task_id
  BY <1>1, <1>2, <1>3 DEF IntentRow
<1>5. ~ new.unresolved
  BY <1>4
<1>6. p # None /\ LeaseSeconds # None
  BY <1>1, <1>3, NoneAssumption
<1>7. IntentOK(v, new)
  BY <1>1, <1>4, <1>5, <1>6 DEF IntentOK
<1>. QED BY <1>1, <1>4, <1>7 DEF new

\* The delay after a counted publication is a number.
LEMMA BackoffType ==
    ASSUME NEW n \in Nat \ {0}
    PROVE  Backoff(n) \in Nat
<1> DEFINE k == IF n < 6 THEN n ELSE 6
<1>1. k \in 1..6
  OBVIOUS
<1> HIDE DEF k
<1>2. <<2, 4, 8, 16, 32, 64>>[k] \in Nat
  BY <1>1
<1>. QED BY <1>2, ConstantsAssumption DEF Backoff, k

\* finish under the lease it was made with.
LEMMA FinishedOK ==
    ASSUME NEW v, NEW i \in IntentRow, IntentOK(v, i), NEW success \in BOOLEAN,
           i.lease_token # None
    PROVE  LET new == Finished(i, success) IN
           /\ new \in IntentRow /\ IntentOK(v, new)
           /\ new.settled_at = i.settled_at
           /\ new.publish_attempts = i.publish_attempts
           /\ new.recovery_attempts = i.recovery_attempts
           /\ new.recovery_grants = i.recovery_grants
<1> DEFINE u == Unleased(i)
           e == IF success THEN None ELSE "publish_unavailable"
           b == success \/ u.published
           t == IF success THEN RecoverySeconds ELSE Backoff(i.publish_attempts)
           new == Finished(i, success)
<1>1. u \in IntentRow
  BY UnleasedOK
<1>2. e \in IntentErrors \cup {None}
  BY DEF IntentErrors
<1>3. b \in BOOLEAN
  OBVIOUS
<1>4. t \in Nat
  <2>1. i.publish_attempts \in Nat \ {0}
    BY DEF IntentRow, IntentOK
  <2>. QED BY <2>1, BackoffType, ConstantsAssumption
<1>5. new = [u EXCEPT !.last_error = e, !.published = b, !.available_at = t]
  BY DEF Finished
<1>6. /\ new \in IntentRow
      /\ new.lease_token = u.lease_token /\ new.lease_expires_at = u.lease_expires_at
      /\ new.task_id = u.task_id /\ new.settled_at = u.settled_at
      /\ new.unresolved = u.unresolved
      /\ new.publish_attempts = u.publish_attempts
      /\ new.recovery_attempts = u.recovery_attempts
      /\ new.recovery_grants = u.recovery_grants
  <2> HIDE DEF u, e, b, t, new
  <2>. QED BY <1>1, <1>2, <1>3, <1>4, <1>5 DEF IntentRow
<1> HIDE DEF new
<1>7. ~ i.unresolved
  BY DEF IntentOK
<1>8. ~ new.unresolved
  BY <1>6, <1>7, UnleasedOK
<1>9. IntentOK(v, new)
  BY <1>6, <1>8, UnleasedOK DEF IntentOK
<1>. QED BY <1>6, <1>9, UnleasedOK DEF new

\* A postponed or rearmed intent.
LEMMA ReadiedOK ==
    ASSUME NEW v, NEW i \in IntentRow, IntentOK(v, i), NEW left \in Nat
    PROVE  /\ LET new == [Unleased(i) EXCEPT !.available_at = left] IN
              /\ new \in IntentRow /\ (~ i.unresolved => IntentOK(v, new))
              /\ new.settled_at = i.settled_at
              /\ new.publish_attempts = i.publish_attempts
              /\ new.recovery_attempts = i.recovery_attempts
              /\ new.recovery_grants = i.recovery_grants
           /\ LET new == Rearmed(i) IN
              /\ new \in IntentRow
              /\ i.recovery_grants < MaxGrants => IntentOK(v, new)
              /\ new.settled_at = i.settled_at
              /\ new.publish_attempts = i.publish_attempts
              /\ new.recovery_attempts = i.recovery_attempts
              /\ new.recovery_grants = i.recovery_grants + 1
<1> DEFINE u == Unleased(i)
           g == u.recovery_grants + 1
           post == [u EXCEPT !.available_at = left]
           arm == [u EXCEPT !.recovery_grants = g, !.unresolved = FALSE,
                            !.last_error = None, !.available_at = 0]
<1>1. u \in IntentRow
  BY UnleasedOK
<1>2. /\ g \in Nat /\ g = i.recovery_grants + 1
      /\ i.recovery_grants \in Nat /\ i.publish_attempts \in Nat
      /\ i.recovery_attempts \in Nat
  BY <1>1, UnleasedOK DEF IntentRow
<1> HIDE DEF u, g
<1>3. /\ post \in IntentRow
      /\ post.lease_token = u.lease_token /\ post.lease_expires_at = u.lease_expires_at
      /\ post.task_id = u.task_id /\ post.settled_at = u.settled_at
      /\ post.unresolved = u.unresolved
      /\ post.publish_attempts = u.publish_attempts
      /\ post.recovery_attempts = u.recovery_attempts
      /\ post.recovery_grants = u.recovery_grants
  BY <1>1 DEF IntentRow
<1>4. /\ arm \in IntentRow
      /\ arm.lease_token = u.lease_token /\ arm.lease_expires_at = u.lease_expires_at
      /\ arm.task_id = u.task_id /\ arm.settled_at = u.settled_at
      /\ arm.unresolved = FALSE
      /\ arm.publish_attempts = u.publish_attempts
      /\ arm.recovery_attempts = u.recovery_attempts
      /\ arm.recovery_grants = g
  BY <1>1, <1>2 DEF IntentRow
<1> HIDE DEF post, arm
<1>5. ~ i.unresolved => IntentOK(v, post)
  <2> SUFFICES ASSUME ~ i.unresolved PROVE IntentOK(v, post)
    OBVIOUS
  <2>1. ~ post.unresolved
    BY <1>3, UnleasedOK DEF u
  <2>. QED BY <1>3, <2>1, UnleasedOK DEF IntentOK, u
<1>6. i.recovery_grants < MaxGrants => IntentOK(v, arm)
  <2> SUFFICES ASSUME i.recovery_grants < MaxGrants PROVE IntentOK(v, arm)
    OBVIOUS
  <2>1. ~ arm.unresolved
    BY <1>4
  <2>2. /\ g <= MaxGrants /\ i.publish_attempts <= MaxPublications + g
        /\ i.recovery_attempts <= MaxRecoveries + g
    BY <1>2, ConstantsAssumption DEF IntentOK
  <2>. QED BY <1>4, <2>1, <2>2, UnleasedOK DEF IntentOK, u
<1>. QED BY <1>2, <1>3, <1>4, <1>5, <1>6, UnleasedOK DEF post, arm, u, g, Rearmed

\* Time changes nothing of an intent but its countdowns.
LEMMA IntentLaterOK ==
    ASSUME NEW v, NEW i \in IntentRow, IntentOK(v, i)
    PROVE  LET new == IntentLater(i) IN
           /\ new \in IntentRow /\ IntentOK(v, new)
           /\ new.settled_at = None <=> i.settled_at = None
           /\ new.lease_token = i.lease_token
           /\ new.publish_attempts = i.publish_attempts
           /\ new.recovery_attempts = i.recovery_attempts
           /\ new.recovery_grants = i.recovery_grants
<1> DEFINE a == Left(i.available_at)
           s == Left(i.settled_at)
           l == Left(i.lease_expires_at)
           new == IntentLater(i)
<1>1. /\ a \in Nat /\ s \in Nat \cup {None} /\ l \in Nat \cup {None}
      /\ s = None <=> i.settled_at = None
      /\ l = None <=> i.lease_expires_at = None
  <2>1. /\ i.available_at \in Nat /\ i.settled_at \in Nat \cup {None}
        /\ i.lease_expires_at \in Nat \cup {None}
    BY DEF IntentRow
  <2>. QED BY <2>1, LeftType
<1>2. new = [i EXCEPT !.available_at = a, !.settled_at = s, !.lease_expires_at = l]
  BY NoneAssumption DEF IntentLater
<1> HIDE DEF a, s, l, new
<1>3. /\ new \in IntentRow
      /\ new.settled_at = s /\ new.lease_expires_at = l
      /\ new.lease_token = i.lease_token /\ new.task_id = i.task_id
      /\ new.unresolved = i.unresolved /\ new.last_error = i.last_error
      /\ new.publish_attempts = i.publish_attempts
      /\ new.recovery_attempts = i.recovery_attempts
      /\ new.recovery_grants = i.recovery_grants
  BY <1>1, <1>2 DEF IntentRow
<1>4. IntentOK(v, new)
  BY <1>1, <1>3 DEF IntentOK, BudgetSpent
<1>. QED BY <1>1, <1>3, <1>4 DEF new

\* A new intent.
LEMMA NewIntentOK ==
    ASSUME NEW v
    PROVE  LET new == NewIntent("outbox") IN
           /\ new \in IntentRow /\ IntentOK(v, new)
           /\ new.settled_at = None /\ new.recovery_grants = 0
BY ConstantsAssumption DEF NewIntent, IntentRow, IntentOK, TaskIds

(***************************************************************************)
(* Steps: one version's row, one intent, one process at a time.            *)
(***************************************************************************)
\* An audit event is counted for its version and its kind, and nothing else.
LEMMA AuditedOK ==
    ASSUME audit \in [Versions -> [AuditEvents -> Nat]],
           NEW v \in Versions, NEW e \in AuditEvents, audit' = Audited(v, e)
    PROVE  /\ audit' \in [Versions -> [AuditEvents -> Nat]]
           /\ \A x \in Versions : x # v => audit'[x] = audit[x]
           /\ audit'[v][e] = audit[v][e] + 1
           /\ \A f \in AuditEvents : f # e => audit'[v][f] = audit[v][f]
<1> DEFINE n == audit[v][e] + 1
           g == [audit[v] EXCEPT ![e] = n]
<1>1. n \in Nat
  OBVIOUS
<1>2. audit' = [audit EXCEPT ![v] = g]
  BY DEF Audited
<1> HIDE DEF n
<1>3. /\ g \in [AuditEvents -> Nat] /\ g[e] = n
      /\ \A f \in AuditEvents : f # e => g[f] = audit[v][f]
  BY <1>1
<1> HIDE DEF g
<1>. QED BY <1>2, <1>3 DEF n

\* A transition of one undecided version, with the event its outcome needs,
\* keeps the rows consistent.
LEMMA VersionStep ==
    ASSUME IInv, NEW v \in Versions, version[v] # None, ~ Terminal(version[v]),
           NEW row \in VersionRow, VersionOK(v, row),
           version' = [version EXCEPT ![v] = row], intent' = intent,
           audit' = IF row.status \in TerminalStatus THEN Audited(v, row.status)
                    ELSE audit
    PROVE  /\ version' \in [Versions -> VersionRow \cup {None}]
           /\ intent' \in [Versions -> IntentRow \cup {None}]
           /\ audit' \in [Versions -> [AuditEvents -> Nat]]
           /\ Rows' /\ Agreement'
           /\ \A x \in Versions : version[x] # None => version'[x] # None
<1>1. /\ version \in [Versions -> VersionRow \cup {None}]
      /\ intent \in [Versions -> IntentRow \cup {None}]
      /\ audit \in [Versions -> [AuditEvents -> Nat]]
  BY DEF IInv, TypeOK, IngestionTypeOK
<1>2. row # None
  BY NoneAssumption
<1>3. /\ version' \in [Versions -> VersionRow \cup {None}]
      /\ version'[v] = row
      /\ \A x \in Versions : x # v => version'[x] = version[x]
  BY <1>1
<1>4. /\ audit' \in [Versions -> [AuditEvents -> Nat]]
      /\ \A x \in Versions : x # v => audit'[x] = audit[x]
      /\ audit'[v]["rearmed"] = audit[v]["rearmed"]
      /\ audit'[v]["ready"] = audit[v]["ready"] + (IF row.status = "ready" THEN 1 ELSE 0)
      /\ audit'[v]["failed"] = audit[v]["failed"] + (IF row.status = "failed" THEN 1 ELSE 0)
  <2>0. /\ audit[v] \in [AuditEvents -> Nat]
        /\ audit[v]["ready"] \in Nat /\ audit[v]["failed"] \in Nat
        /\ "ready" \in AuditEvents /\ "failed" \in AuditEvents
        /\ "rearmed" \in AuditEvents
    BY <1>1 DEF AuditEvents
  <2>1. CASE row.status = "ready"
    <3>1. audit' = Audited(v, "ready")
      BY <2>1 DEF TerminalStatus
    <3>2. /\ audit' \in [Versions -> [AuditEvents -> Nat]]
          /\ \A x \in Versions : x # v => audit'[x] = audit[x]
          /\ audit'[v]["ready"] = audit[v]["ready"] + 1
          /\ \A f \in AuditEvents : f # "ready" => audit'[v][f] = audit[v][f]
      BY <1>1, <2>0, <3>1, AuditedOK
    <3>. QED BY <2>0, <2>1, <3>2
  <2>2. CASE row.status = "failed"
    <3>1. audit' = Audited(v, "failed")
      BY <2>2 DEF TerminalStatus
    <3>2. /\ audit' \in [Versions -> [AuditEvents -> Nat]]
          /\ \A x \in Versions : x # v => audit'[x] = audit[x]
          /\ audit'[v]["failed"] = audit[v]["failed"] + 1
          /\ \A f \in AuditEvents : f # "failed" => audit'[v][f] = audit[v][f]
      BY <1>1, <2>0, <3>1, AuditedOK
    <3>. QED BY <2>0, <2>2, <3>2
  <2>3. CASE row.status \notin TerminalStatus
    BY <1>1, <2>0, <2>3 DEF TerminalStatus
  <2>. QED BY <2>1, <2>2, <2>3 DEF TerminalStatus
<1>5. Rows'
  BY <1>2, <1>3 DEF IInv, Rows
<1>6. Agreement'
  <2> SUFFICES ASSUME NEW x \in Versions
               PROVE  Agreement!(x)'
    BY DEF Agreement
  <2>1. CASE x # v
    BY <1>3, <1>4, <2>1 DEF IInv, Agreement, Terminal
  <2>2. CASE x = v
    <3>1. /\ audit[v]["ready"] = 0 /\ audit[v]["failed"] = 0
          /\ intent[v] # None => intent[v].settled_at = None
          /\ intent[v] # None => audit[v]["rearmed"] = intent[v].recovery_grants
          /\ v \in Legacy \/ intent[v] # None
          /\ intent[v] = None => audit[v]["rearmed"] = 0
      BY DEF IInv, Agreement, Terminal, TerminalStatus
    <3>. QED BY <1>2, <1>3, <1>4, <2>2, <3>1 DEF Terminal
  <2>. QED BY <2>1, <2>2
<1>. QED BY <1>1, <1>2, <1>3, <1>4, <1>5, <1>6

\* A change of one intent that keeps its grants in step with the audit.
LEMMA IntentStep ==
    ASSUME IInv, NEW v \in Versions, version[v] # None,
           NEW i \in IntentRow, IntentOK(v, i),
           i.settled_at # None => Terminal(version[v]),
           version' = version, intent' = [intent EXCEPT ![v] = i],
           \/ /\ intent[v] # None /\ i.recovery_grants = intent[v].recovery_grants
              /\ audit' = audit
           \/ /\ intent[v] # None /\ i.recovery_grants = intent[v].recovery_grants + 1
              /\ audit' = Audited(v, "rearmed")
           \/ /\ intent[v] = None /\ i.recovery_grants = 0
              /\ ~ Terminal(version[v]) /\ audit' = audit
    PROVE  /\ version' \in [Versions -> VersionRow \cup {None}]
           /\ intent' \in [Versions -> IntentRow \cup {None}]
           /\ audit' \in [Versions -> [AuditEvents -> Nat]]
           /\ Rows' /\ Agreement'
<1>1. /\ version \in [Versions -> VersionRow \cup {None}]
      /\ intent \in [Versions -> IntentRow \cup {None}]
      /\ audit \in [Versions -> [AuditEvents -> Nat]]
  BY DEF IInv, TypeOK, IngestionTypeOK
<1>2. i # None
  BY NoneAssumption
<1>3. /\ intent' \in [Versions -> IntentRow \cup {None}]
      /\ intent'[v] = i
      /\ \A x \in Versions : x # v => intent'[x] = intent[x]
  BY <1>1
<1>4. /\ audit' \in [Versions -> [AuditEvents -> Nat]]
      /\ \A x \in Versions : x # v => audit'[x] = audit[x]
      /\ audit'[v]["ready"] = audit[v]["ready"]
      /\ audit'[v]["failed"] = audit[v]["failed"]
      /\ audit'[v]["rearmed"] = i.recovery_grants
  <2>0. /\ audit[v] \in [AuditEvents -> Nat]
        /\ audit[v]["rearmed"] \in Nat
        /\ "ready" \in AuditEvents /\ "failed" \in AuditEvents
        /\ "rearmed" \in AuditEvents
    BY <1>1 DEF AuditEvents
  <2>1. CASE audit' = Audited(v, "rearmed") /\ intent[v] # None
             /\ i.recovery_grants = intent[v].recovery_grants + 1
    <3>1. audit[v]["rearmed"] = intent[v].recovery_grants
      BY <2>1 DEF IInv, Agreement
    <3>2. /\ audit' \in [Versions -> [AuditEvents -> Nat]]
          /\ \A x \in Versions : x # v => audit'[x] = audit[x]
          /\ audit'[v]["rearmed"] = audit[v]["rearmed"] + 1
          /\ \A f \in AuditEvents : f # "rearmed" => audit'[v][f] = audit[v][f]
      BY <1>1, <2>0, <2>1, AuditedOK
    <3>. QED BY <2>0, <2>1, <3>1, <3>2
  <2>2. CASE audit' = audit /\ intent[v] # None
             /\ i.recovery_grants = intent[v].recovery_grants
    BY <1>1, <2>2 DEF IInv, Agreement
  <2>3. CASE audit' = audit /\ intent[v] = None /\ i.recovery_grants = 0
             /\ ~ Terminal(version[v])
    BY <1>1, <2>3 DEF IInv, Agreement
  <2>. QED BY <2>1, <2>2, <2>3
<1>5. Rows'
  BY <1>2, <1>3 DEF IInv, Rows
<1>6. Agreement'
  <2> SUFFICES ASSUME NEW x \in Versions
               PROVE  Agreement!(x)'
    BY DEF Agreement
  <2>1. CASE x # v
    BY <1>3, <1>4, <2>1 DEF IInv, Agreement, Terminal
  <2>2. CASE x = v
    BY <1>2, <1>3, <1>4, <2>2 DEF IInv, Agreement, Terminal
  <2>. QED BY <2>1, <2>2
<1>. QED BY <1>1, <1>3, <1>4, <1>5, <1>6

\* Accepted versions stay accepted, so what may be delivered stays deliverable.
LEMMA MessageKept ==
    ASSUME NEW m, m.version \in Versions, MessageOK(m),
           \A x \in Versions : version[x] # None => version'[x] # None
    PROVE  MessageOK(m)'
BY DEF MessageOK

\* A step of one worker.
LEMMA WorkerStep ==
    ASSUME IInv, NEW w \in Workers, NEW s \in WorkerState, WorkerOK(s),
           worker' = [worker EXCEPT ![w] = s], relay' = relay,
           queue' \subseteq Message, \A m \in queue' : MessageOK(m),
           \A x \in Versions : version[x] # None => version'[x] # None
    PROVE  worker' \in [Workers -> WorkerState] /\ Deliveries'
<1>1. worker \in [Workers -> WorkerState] /\ relay \in [Relays -> RelayState]
  BY DEF IInv, TypeOK, IngestionTypeOK
<1>2. /\ worker' \in [Workers -> WorkerState] /\ worker'[w] = s
      /\ \A x \in Workers : x # w => worker'[x] = worker[x]
  BY <1>1
<1>3. \A m \in queue' : MessageOK(m)'
  BY MessageKept DEF Message
<1>4. ASSUME NEW x \in Workers PROVE WorkerOK(worker[x])'
  <2>1. WorkerOK(worker'[x]) /\ worker'[x] \in WorkerState
    BY <1>2 DEF IInv, Deliveries
  <2>2. worker'[x].job # None => MessageOK(worker[x].job)'
    <3> SUFFICES ASSUME worker'[x].job # None PROVE MessageOK(worker[x].job)'
      OBVIOUS
    <3>1. worker'[x].job.version \in Versions
      BY <2>1 DEF WorkerState, Message
    <3>. QED BY <2>1, <3>1 DEF WorkerOK, MessageOK
  <2>. QED BY <2>1, <2>2 DEF WorkerOK
<1>5. ASSUME NEW x \in Relays PROVE RelayOK(relay[x])'
  <2>1. RelayOK(relay[x]) /\ relay[x] \in RelayState /\ relay'[x] = relay[x]
    BY <1>1 DEF IInv, Deliveries
  <2>2. relay[x].job # None => relay[x].job.version \in Versions
    BY <2>1 DEF RelayState, Publication
  <2>. QED BY <2>1, <2>2 DEF RelayOK, MessageOK
<1>. QED BY <1>2, <1>3, <1>4, <1>5 DEF Deliveries

\* A step of one relay.
LEMMA RelayProcessStep ==
    ASSUME IInv, NEW r \in Relays, NEW s \in RelayState, RelayOK(s),
           relay' = [relay EXCEPT ![r] = s], worker' = worker, version' = version,
           queue' \subseteq Message, \A m \in queue' : MessageOK(m)
    PROVE  relay' \in [Relays -> RelayState] /\ Deliveries'
<1>1. worker \in [Workers -> WorkerState] /\ relay \in [Relays -> RelayState]
  BY DEF IInv, TypeOK, IngestionTypeOK
<1>2. /\ relay' \in [Relays -> RelayState] /\ relay'[r] = s
      /\ \A x \in Relays : x # r => relay'[x] = relay[x]
  BY <1>1
<1>. QED BY <1>2 DEF IInv, Deliveries, WorkerOK, RelayOK, MessageOK

\* What a worker in a delivery knows of its message and of the version.
LEMMA JobFacts ==
    ASSUME IInv, NEW w \in Workers, worker[w].pc # "idle"
    PROVE  /\ Job(w) \in Message /\ MessageOK(Job(w))
           /\ Job(w).version \in Versions /\ Job(w).task_id \in TaskIds
           /\ version[Job(w).version] \in VersionRow
           /\ version[Job(w).version] # None
           /\ VersionOK(Job(w).version, version[Job(w).version])
<1>1. worker[w] \in WorkerState /\ worker[w].job # None /\ MessageOK(worker[w].job)
  BY DEF IInv, TypeOK, IngestionTypeOK, Deliveries, WorkerOK
<1>2. Job(w) \in Message
  BY <1>1 DEF WorkerState, Job
<1>3. Job(w).version \in Versions /\ Job(w).task_id \in TaskIds
  BY <1>2 DEF Message
<1>. QED BY <1>1, <1>2, <1>3 DEF IInv, TypeOK, IngestionTypeOK, Rows, MessageOK, Job

\* A worker moves on within its delivery.
LEMMA GotoOK ==
    ASSUME IInv, NEW w \in Workers, worker[w].pc # "idle",
           NEW pc \in WorkerPC, pc = "republish" => Job(w).retries < MaxRetries,
           Goto(w, pc), relay' = relay,
           queue' \subseteq Message, \A m \in queue' : MessageOK(m),
           \A x \in Versions : version[x] # None => version'[x] # None
    PROVE  worker' \in [Workers -> WorkerState] /\ Deliveries'
<1> DEFINE s == [worker[w] EXCEPT !.pc = pc]
<1>1. /\ worker \in [Workers -> WorkerState] /\ worker[w] \in WorkerState
      /\ worker[w].job # None /\ MessageOK(worker[w].job)
  BY DEF IInv, TypeOK, IngestionTypeOK, Deliveries, WorkerOK
<1>2. s \in WorkerState /\ s.pc = pc /\ s.job = worker[w].job
  BY <1>1 DEF WorkerState
<1>3. worker' = [worker EXCEPT ![w] = s]
  BY DEF Goto
<1>4. WorkerOK(s)
  BY <1>1, <1>2 DEF WorkerOK, Job
<1> HIDE DEF s
<1>. QED BY <1>2, <1>3, <1>4, WorkerStep

\* A delivery ends.
LEMMA EndDeliveryOK ==
    ASSUME IInv, NEW w \in Workers, worker[w].pc # "idle", EndDelivery(w),
           relay' = relay, version' = version,
           queue' \subseteq Message, \A m \in queue' : MessageOK(m)
    PROVE  /\ worker' \in [Workers -> WorkerState] /\ Deliveries'
           /\ lock' \in [Versions -> Workers \cup {None}]
<1> DEFINE s == [pc |-> "idle", job |-> None]
<1>1. s \in WorkerState /\ WorkerOK(s)
  BY DEF WorkerState, WorkerOK, WorkerPC
<1>2. worker' = [worker EXCEPT ![w] = s]
  BY DEF EndDelivery
<1> HIDE DEF s
<1>3. worker' \in [Workers -> WorkerState] /\ Deliveries'
  BY <1>1, <1>2, WorkerStep
<1>4. lock' \in [Versions -> Workers \cup {None}]
  BY DEF EndDelivery, IInv, TypeOK, IngestionTypeOK
<1>. QED BY <1>3, <1>4

\* A step that touches no row keeps the rows consistent.
LEMMA RowsUnchanged ==
    ASSUME IInv, version' = version, intent' = intent, audit' = audit
    PROVE  /\ version' \in [Versions -> VersionRow \cup {None}]
           /\ intent' \in [Versions -> IntentRow \cup {None}]
           /\ audit' \in [Versions -> [AuditEvents -> Nat]]
           /\ Rows' /\ Agreement'
BY DEF IInv, TypeOK, IngestionTypeOK, Rows, Agreement, VersionOK, IntentOK

\* An outcome written by the owner, or nothing when the task owns nothing.
LEMMA OutcomeStep ==
    ASSUME IInv, NEW w \in Workers, worker[w].pc # "idle", NEW code \in ErrorCodes,
           NEW pc \in WorkerPC \ {"republish"}, Goto(w, pc),
           queue' = queue, lock' = lock, intent' = intent, relay' = relay,
           \/ /\ ~ Terminal(version[Job(w).version])
              /\ \/ /\ version' = [version EXCEPT ![Job(w).version] = Ready(@)]
                    /\ audit' = Audited(Job(w).version, "ready")
                 \/ /\ version' = [version EXCEPT ![Job(w).version] = Failed(@, code)]
                    /\ audit' = Audited(Job(w).version, "failed")
           \/ UNCHANGED <<version, audit>>
    PROVE  IInv'
<1> DEFINE v == Job(w).version
           row == version[v]
<1>1. /\ v \in Versions /\ row \in VersionRow /\ row # None /\ VersionOK(v, row)
  BY JobFacts
<1>2. /\ queue' \subseteq Message /\ \A m \in queue' : MessageOK(m)
      /\ lock' \in [Versions -> Workers \cup {None}]
      /\ relay' \in [Relays -> RelayState]
  BY DEF IInv, TypeOK, IngestionTypeOK, Deliveries
<1>3. /\ version' \in [Versions -> VersionRow \cup {None}]
      /\ intent' \in [Versions -> IntentRow \cup {None}]
      /\ audit' \in [Versions -> [AuditEvents -> Nat]]
      /\ Rows' /\ Agreement'
      /\ \A x \in Versions : version[x] # None => version'[x] # None
  <2>1. CASE UNCHANGED <<version, audit>>
    BY <2>1, RowsUnchanged
  <2>2. CASE /\ ~ Terminal(row) /\ version' = [version EXCEPT ![v] = Ready(row)]
             /\ audit' = Audited(v, "ready")
    <3>1. /\ Ready(row) \in VersionRow /\ VersionOK(v, Ready(row))
          /\ Ready(row).status = "ready"
      BY <1>1, ReleasedOK
    <3>. QED BY <1>1, <2>2, <3>1, VersionStep DEF TerminalStatus
  <2>3. CASE /\ ~ Terminal(row) /\ version' = [version EXCEPT ![v] = Failed(row, code)]
             /\ audit' = Audited(v, "failed")
    <3>1. /\ Failed(row, code) \in VersionRow /\ VersionOK(v, Failed(row, code))
          /\ Failed(row, code).status = "failed"
      BY <1>1, ReleasedOK
    <3>. QED BY <1>1, <2>3, <3>1, VersionStep DEF TerminalStatus
  <2>. QED BY <2>1, <2>2, <2>3
<1>4. worker' \in [Workers -> WorkerState] /\ Deliveries'
  BY <1>2, <1>3, GotoOK
<1>. QED BY <1>2, <1>3, <1>4 DEF IInv, TypeOK, IngestionTypeOK

(***************************************************************************)
(* Every action preserves the invariant.                                   *)
(***************************************************************************)
\* The worker's steps.
LEMMA WorkerInductive ==
    ASSUME IInv, WorkerNext
    PROVE  IInv'
<1> USE DEF WorkerFrame
<1>0. PICK w \in Workers :
        \/ \E m \in queue : Deliver(w, m) \/ DeliverBusy(w, m)
        \/ ClaimRefused(w) \/ ClaimResumes(w)
        \/ \E reported \in BOOLEAN :
              \/ ClaimExhausted(w, reported)
              \/ \E left \in SkewedDeadlines : ClaimStarts(w, left, reported)
              \/ MarkReady(w, reported) \/ MarkFailed(w, reported)
        \/ \E next \in WorkerPC : Work(w, next)
        \/ DatabaseFault(w)
        \/ MarkRetryExhausted(w) \/ PrepareRetry(w) \/ PrepareRetryFault(w)
        \/ Republish(w) \/ Unlock(w)
        \/ WorkerLost(w) \/ WorkerAborted(w) \/ LockDropped(w)
  BY DEF WorkerNext
<1> DEFINE v == Job(w).version
           task == Job(w).task_id
           row == version[v]
<1>t. /\ queue \subseteq Message /\ \A m \in queue : MessageOK(m)
      /\ lock \in [Versions -> Workers \cup {None}]
      /\ worker \in [Workers -> WorkerState]
      /\ relay \in [Relays -> RelayState] /\ worker[w] \in WorkerState
  BY DEF IInv, TypeOK, IngestionTypeOK, Deliveries
<1>1. ASSUME NEW m \in queue, Deliver(w, m) PROVE IInv'
  <2> DEFINE s == [pc |-> "claim", job |-> m]
  <2>1. s \in WorkerState /\ WorkerOK(s)
    <3>1. m \in Message /\ MessageOK(m) /\ m # None
      BY <1>t, NoneAssumption
    <3>. QED BY <3>1 DEF WorkerState, WorkerPC, WorkerOK
  <2>2. /\ worker' = [worker EXCEPT ![w] = s] /\ queue' = queue \ {m}
        /\ lock' = [lock EXCEPT ![m.version] = w]
        /\ version' = version /\ audit' = audit /\ intent' = intent /\ relay' = relay
    BY <1>1 DEF Deliver
  <2> HIDE DEF s
  <2>3. worker' \in [Workers -> WorkerState] /\ Deliveries'
    BY <1>t, <2>1, <2>2, WorkerStep
  <2>4. lock' \in [Versions -> Workers \cup {None}]
    BY <1>t, <2>2
  <2>. QED BY <1>t, <2>2, <2>3, <2>4, RowsUnchanged DEF IInv, TypeOK, IngestionTypeOK
<1>2. ASSUME NEW m \in queue, DeliverBusy(w, m) PROVE IInv'
  <2>0. /\ worker' = worker /\ queue' \subseteq queue
        /\ lock' = lock /\ version' = version /\ audit' = audit
        /\ intent' = intent /\ relay' = relay
    BY <1>2 DEF DeliverBusy
  <2>1. worker' = [worker EXCEPT ![w] = worker[w]]
    BY <1>t, <2>0
  <2>2. WorkerOK(worker[w])
    BY DEF IInv, Deliveries
  <2>3. worker' \in [Workers -> WorkerState] /\ Deliveries'
    BY <1>t, <2>0, <2>1, <2>2, WorkerStep
  <2>. QED BY <1>t, <2>0, <2>3, RowsUnchanged DEF IInv, TypeOK, IngestionTypeOK
<1>3. ASSUME NEW pc \in WorkerPC, worker[w].pc # "idle", Goto(w, pc),
             pc = "republish" => Job(w).retries < MaxRetries,
             UNCHANGED <<version, audit, queue, lock, intent, relay>>
      PROVE IInv'
  <2>1. worker' \in [Workers -> WorkerState] /\ Deliveries'
    BY <1>3, <1>t, GotoOK
  <2>. QED BY <1>3, <1>t, <2>1, RowsUnchanged DEF IInv, TypeOK, IngestionTypeOK
<1>4. CASE ClaimRefused(w)
  BY <1>3, <1>4 DEF ClaimRefused, WorkerPC
<1>5. CASE ClaimResumes(w)
  BY <1>3, <1>5 DEF ClaimResumes, WorkerPC
<1>6. ASSUME NEW reported \in BOOLEAN, ClaimExhausted(w, reported) PROVE IInv'
  <2>1. /\ worker[w].pc # "idle" /\ ~ Terminal(row)
        /\ Goto(w, IF reported THEN "unlock" ELSE "retry")
    BY <1>6 DEF ClaimExhausted, Terminal, TerminalStatus
  <2>2. (IF reported THEN "unlock" ELSE "retry") \in WorkerPC \ {"republish"}
    BY DEF WorkerPC
  <2>3. "retry_exhausted" \in ErrorCodes
    BY DEF ErrorCodes
  <2>. QED BY <1>6, <2>1, <2>2, <2>3, OutcomeStep DEF ClaimExhausted
<1>7. ASSUME NEW reported \in BOOLEAN, NEW left \in SkewedDeadlines,
             ClaimStarts(w, left, reported)
      PROVE IInv'
  <2> DEFINE new == Extracting(row, task, left)
             pc == IF reported THEN "work" ELSE "retry"
  <2>1. /\ worker[w].pc # "idle" /\ ~ Terminal(row) /\ row.attempt_count < MaxAttempts
        /\ Goto(w, pc) /\ version' = [version EXCEPT ![v] = new]
        /\ audit' = audit /\ queue' = queue /\ lock' = lock
        /\ intent' = intent /\ relay' = relay
    BY <1>7 DEF ClaimStarts, Terminal, TerminalStatus
  <2>2. /\ v \in Versions /\ row \in VersionRow /\ row # None /\ task \in TaskIds
        /\ v \notin Legacy => task = "outbox"
    BY <2>1, JobFacts DEF MessageOK
  <2>3. left \in Nat
    BY ConstantsAssumption DEF SkewedDeadlines
  <2>4. new \in VersionRow /\ VersionOK(v, new) /\ new.status \notin TerminalStatus
    BY <2>1, <2>2, <2>3, ExtractingOK DEF TerminalStatus
  <2>5. pc \in WorkerPC /\ pc # "republish"
    BY DEF WorkerPC
  <2> HIDE DEF new, pc
  <2>6. /\ version' \in [Versions -> VersionRow \cup {None}]
        /\ intent' \in [Versions -> IntentRow \cup {None}]
        /\ audit' \in [Versions -> [AuditEvents -> Nat]]
        /\ Rows' /\ Agreement'
        /\ \A x \in Versions : version[x] # None => version'[x] # None
    BY <2>1, <2>2, <2>4, VersionStep
  <2>7. worker' \in [Workers -> WorkerState] /\ Deliveries'
    BY <1>t, <2>1, <2>5, <2>6, GotoOK
  <2>. QED BY <1>t, <2>1, <2>6, <2>7 DEF IInv, TypeOK, IngestionTypeOK
<1>8. ASSUME NEW reported \in BOOLEAN, MarkReady(w, reported) \/ MarkFailed(w, reported)
      PROVE IInv'
  <2>1. (IF reported THEN "unlock" ELSE "retry") \in WorkerPC \ {"republish"}
    BY DEF WorkerPC
  <2>2. "rejected" \in ErrorCodes
    BY DEF ErrorCodes
  <2>3. OwnedExtraction(row, task) => ~ Terminal(row)
    BY DEF OwnedExtraction, Terminal, TerminalStatus
  <2>. QED BY <1>8, <2>1, <2>2, <2>3, OutcomeStep DEF MarkReady, MarkFailed
<1>9. ASSUME NEW next \in WorkerPC, Work(w, next) PROVE IInv'
  BY <1>3, <1>9 DEF Work
<1>10. CASE DatabaseFault(w)
  BY <1>3, <1>10 DEF DatabaseFault, WorkerPC
<1>11. CASE MarkRetryExhausted(w)
  <2>1. "unlock" \in WorkerPC \ {"republish"} /\ "retry_exhausted" \in ErrorCodes
    BY DEF WorkerPC, ErrorCodes
  <2>2. OwnedExtraction(row, task) => ~ Terminal(row)
    BY DEF OwnedExtraction, Terminal, TerminalStatus
  <2>. QED BY <1>11, <2>1, <2>2, OutcomeStep DEF MarkRetryExhausted
<1>12. CASE PrepareRetry(w)
  <2>1. /\ worker[w].pc # "idle" /\ Job(w).retries < MaxRetries
        /\ Goto(w, "republish") /\ audit' = audit /\ queue' = queue /\ lock' = lock
        /\ intent' = intent /\ relay' = relay /\ "republish" \in WorkerPC
        /\ version' = [version EXCEPT ![v] =
                         IF OwnedExtraction(row, task) THEN Requeued(row) ELSE row]
    BY <1>12 DEF PrepareRetry, WorkerPC
  <2>2. /\ v \in Versions /\ row \in VersionRow /\ row # None /\ VersionOK(v, row)
    BY <2>1, JobFacts
  <2>3. CASE OwnedExtraction(row, task)
    <3>0. PICK code \in ErrorCodes : TRUE
      BY DEF ErrorCodes
    <3>1. /\ Requeued(row) \in VersionRow /\ VersionOK(v, Requeued(row))
          /\ Requeued(row).status = "queued"
      BY <2>2, <3>0, ReleasedOK
    <3>2. ~ Terminal(row) /\ Requeued(row).status \notin TerminalStatus
      BY <2>3, <3>1 DEF OwnedExtraction, Terminal, TerminalStatus
    <3>3. version' = [version EXCEPT ![v] = Requeued(row)]
      BY <2>1, <2>3
    <3>4. /\ version' \in [Versions -> VersionRow \cup {None}]
          /\ intent' \in [Versions -> IntentRow \cup {None}]
          /\ audit' \in [Versions -> [AuditEvents -> Nat]]
          /\ Rows' /\ Agreement'
          /\ \A x \in Versions : version[x] # None => version'[x] # None
      BY <2>1, <2>2, <3>1, <3>2, <3>3, VersionStep
    <3>5. worker' \in [Workers -> WorkerState] /\ Deliveries'
      BY <1>t, <2>1, <3>4, GotoOK
    <3>. QED BY <1>t, <2>1, <3>4, <3>5 DEF IInv, TypeOK, IngestionTypeOK
  <2>4. CASE ~ OwnedExtraction(row, task)
    <3>1. version' = version
      BY <2>1, <2>2, <2>4 DEF IInv, TypeOK, IngestionTypeOK
    <3>. QED BY <1>3, <2>1, <3>1
  <2>. QED BY <2>3, <2>4
<1>13. CASE PrepareRetryFault(w)
  BY <1>3, <1>13 DEF PrepareRetryFault, WorkerPC
<1>14. CASE Republish(w)
  <2> DEFINE m == [Job(w) EXCEPT !.retries = Job(w).retries + 1]
  <2>1. /\ worker[w].pc = "republish" /\ Goto(w, "unlock") /\ "unlock" \in WorkerPC
        /\ queue' = queue \cup {m} /\ lock' = lock /\ relay' = relay
        /\ version' = version /\ audit' = audit /\ intent' = intent
    BY <1>14 DEF Republish, WorkerPC
  <2>2. Job(w) \in Message /\ MessageOK(Job(w)) /\ Job(w).retries < MaxRetries
    BY <2>1, JobFacts DEF IInv, Deliveries, WorkerOK, Job
  <2>3. Job(w).retries + 1 \in Nat /\ Job(w).retries + 1 <= MaxAttempts
    BY <2>2, ConstantsAssumption DEF Message, MaxAttempts
  <2>4. /\ m \in Message /\ m.version = Job(w).version /\ m.task_id = Job(w).task_id
        /\ m.retries = Job(w).retries + 1
    BY <2>2, <2>3 DEF Message
  <2> HIDE DEF m
  <2>5. MessageOK(m)
    BY <2>2, <2>3, <2>4 DEF MessageOK
  <2>6. queue' \subseteq Message /\ \A x \in queue' : MessageOK(x)
    BY <1>t, <2>1, <2>4, <2>5
  <2>7. worker' \in [Workers -> WorkerState] /\ Deliveries'
    BY <2>1, <2>6, GotoOK
  <2>. QED BY <1>t, <2>1, <2>6, <2>7, RowsUnchanged DEF IInv, TypeOK, IngestionTypeOK
<1>15. CASE Unlock(w) \/ WorkerLost(w) \/ WorkerAborted(w)
  <2>1. /\ worker[w].pc # "idle" /\ EndDelivery(w)
        /\ version' = version /\ audit' = audit /\ intent' = intent /\ relay' = relay
        /\ queue' \subseteq queue \cup {Job(w)}
    BY <1>15 DEF Unlock, WorkerLost, WorkerAborted
  <2>2. queue' \subseteq Message /\ \A x \in queue' : MessageOK(x)
    BY <1>t, <2>1, JobFacts
  <2>3. /\ worker' \in [Workers -> WorkerState] /\ Deliveries'
        /\ lock' \in [Versions -> Workers \cup {None}]
    BY <2>1, <2>2, EndDeliveryOK
  <2>. QED BY <1>t, <2>1, <2>2, <2>3, RowsUnchanged DEF IInv, TypeOK, IngestionTypeOK
<1>16. CASE LockDropped(w)
  <2>1. /\ version' = version /\ audit' = audit /\ intent' = intent /\ relay' = relay
        /\ queue' = queue /\ worker' = worker
        /\ lock' \in [Versions -> Workers \cup {None}]
    BY <1>t, <1>16 DEF LockDropped
  <2>2. Deliveries'
    BY <2>1 DEF IInv, Deliveries, WorkerOK, RelayOK, MessageOK
  <2>. QED BY <1>t, <2>1, <2>2, RowsUnchanged DEF IInv, TypeOK, IngestionTypeOK
<1>. QED
  BY <1>0, <1>1, <1>2, <1>4, <1>5, <1>6, <1>7, <1>8, <1>9, <1>10, <1>11, <1>12,
     <1>13, <1>14, <1>15, <1>16

\* Setting a relay's program counter and publication.
LEMMA RelayMove ==
    ASSUME IInv, NEW r \in Relays, NEW pc \in RelayPC,
           \/ relay' = [relay EXCEPT ![r] = [pc |-> pc, job |-> None]]
              /\ pc \notin {"publish", "finish_ok", "finish_failed"}
           \/ RelayGoto(r, pc)
              /\ (pc \in {"publish", "finish_ok", "finish_failed"} => relay[r].job # None),
           worker' = worker, version' = version,
           queue' \subseteq Message, \A m \in queue' : MessageOK(m)
    PROVE  relay' \in [Relays -> RelayState] /\ Deliveries'
<1>t. relay \in [Relays -> RelayState] /\ relay[r] \in RelayState /\ RelayOK(relay[r])
  BY DEF IInv, TypeOK, IngestionTypeOK, Deliveries
<1>1. CASE relay' = [relay EXCEPT ![r] = [pc |-> pc, job |-> None]]
           /\ pc \notin {"publish", "finish_ok", "finish_failed"}
  <2> DEFINE s == [pc |-> pc, job |-> None]
  <2>1. s \in RelayState /\ RelayOK(s)
    BY <1>1 DEF RelayState, RelayOK
  <2> HIDE DEF s
  <2>2. relay' = [relay EXCEPT ![r] = s]
    BY <1>1 DEF s
  <2>. QED BY <2>1, <2>2, RelayProcessStep
<1>2. CASE RelayGoto(r, pc)
           /\ (pc \in {"publish", "finish_ok", "finish_failed"} => relay[r].job # None)
  <2> DEFINE s == [relay[r] EXCEPT !.pc = pc]
  <2>1. s \in RelayState /\ s.pc = pc /\ s.job = relay[r].job
    BY <1>t DEF RelayState
  <2>2. relay' = [relay EXCEPT ![r] = s]
    BY <1>2 DEF RelayGoto
  <2> HIDE DEF s
  <2>3. RelayOK(s)
    BY <1>t, <1>2, <2>1 DEF RelayOK
  <2>. QED BY <2>1, <2>2, <2>3, RelayProcessStep
<1>. QED BY <1>1, <1>2

\* What a due intent and its version look like.
LEMMA DueFacts ==
    ASSUME IInv, NEW v \in Versions, intent[v] # None
    PROVE  /\ intent[v] \in IntentRow /\ IntentOK(v, intent[v])
           /\ version[v] # None /\ version[v] \in VersionRow
           /\ VersionOK(v, version[v])
           /\ OwnershipAmbiguous(intent[v], version[v]) => v \in Legacy
<1>1. /\ intent[v] \in IntentRow /\ IntentOK(v, intent[v])
      /\ version[v] # None /\ version[v] \in VersionRow
      /\ VersionOK(v, version[v])
  BY DEF IInv, TypeOK, IngestionTypeOK, Rows
<1>2. OwnershipAmbiguous(intent[v], version[v]) => v \in Legacy
  BY <1>1 DEF OwnershipAmbiguous, VersionOK, IntentOK
<1>. QED BY <1>1, <1>2

\* The branches of claim.
LEMMA ClaimInductive ==
    ASSUME IInv, NEW r \in Relays, NEW v \in Versions, ClaimSome(r, v)
    PROVE  IInv'
<1> USE DEF RelayFrame
<1> DEFINE i == intent[v]
           row == version[v]
<1>d. Due(v)
  BY DEF ClaimSome, ClaimSettles, ClaimAmbiguous, ClaimPostpones, ClaimExhausts,
     ClaimPublishes
<1>f. /\ i # None /\ i \in IntentRow /\ IntentOK(v, i)
      /\ i.settled_at = None /\ ~ i.unresolved
      /\ row # None /\ row \in VersionRow /\ VersionOK(v, row)
      /\ OwnershipAmbiguous(i, row) => v \in Legacy
  BY <1>d, DueFacts DEF Due
<1>t. /\ queue \subseteq Message /\ \A m \in queue : MessageOK(m)
      /\ lock \in [Versions -> Workers \cup {None}]
      /\ worker \in [Workers -> WorkerState] /\ relay \in [Relays -> RelayState]
  BY DEF IInv, TypeOK, IngestionTypeOK, Deliveries
<1>u. /\ version' = version /\ lock' = lock /\ worker' = worker
      /\ audit' = audit /\ queue' = queue
  BY DEF ClaimSome, ClaimSettles, ClaimAmbiguous, ClaimPostpones, ClaimExhausts,
     ClaimPublishes
<1>g. ASSUME NEW new \in IntentRow, IntentOK(v, new),
             new.settled_at # None => Terminal(row),
             new.recovery_grants = i.recovery_grants,
             intent' = [intent EXCEPT ![v] = new],
             relay' \in [Relays -> RelayState], Deliveries'
      PROVE  IInv'
  <2>1. /\ version' \in [Versions -> VersionRow \cup {None}]
        /\ intent' \in [Versions -> IntentRow \cup {None}]
        /\ audit' \in [Versions -> [AuditEvents -> Nat]]
        /\ Rows' /\ Agreement'
    BY <1>f, <1>u, <1>g, IntentStep
  <2>. QED BY <1>t, <1>u, <1>g, <2>1 DEF IInv, TypeOK, IngestionTypeOK
<1>e. ASSUME EndTick(r) PROVE relay' \in [Relays -> RelayState] /\ Deliveries'
  <2>1. "cleanup" \in RelayPC /\ "cleanup" \notin {"publish", "finish_ok", "finish_failed"}
    BY DEF RelayPC
  <2>2. relay' = [relay EXCEPT ![r] = [pc |-> "cleanup", job |-> None]]
    BY <1>e DEF EndTick
  <2>. QED BY <1>t, <1>u, <2>1, <2>2, RelayMove
<1>1. CASE ClaimSettles(r, v)
  <2>1. intent' = [intent EXCEPT ![v] = Settled(i)] /\ EndTick(r) /\ Terminal(row)
    BY <1>1 DEF ClaimSettles
  <2>2. /\ Settled(i) \in IntentRow /\ IntentOK(v, Settled(i))
        /\ Settled(i).recovery_grants = i.recovery_grants
    BY <1>f, SettledOK
  <2>. QED BY <1>e, <1>g, <2>1, <2>2
<1>2. CASE ClaimAmbiguous(r, v)
  <2>1. /\ intent' = [intent EXCEPT ![v] = Unresolved(i, "ownership_ambiguous")]
        /\ EndTick(r) /\ v \in Legacy /\ "ownership_ambiguous" \in IntentErrors
    BY <1>2, <1>f DEF ClaimAmbiguous, IntentErrors
  <2> DEFINE new == Unresolved(i, "ownership_ambiguous")
  <2>2. /\ new \in IntentRow /\ IntentOK(v, new) /\ new.settled_at = None
        /\ new.recovery_grants = i.recovery_grants
    BY <1>f, <2>1, UnresolvedOK
  <2>. QED BY <1>e, <1>g, <2>1, <2>2
<1>3. CASE ClaimPostpones(r, v)
  <2> DEFINE new == [Unleased(i) EXCEPT !.available_at = row.safe_after]
  <2>1. /\ intent' = [intent EXCEPT ![v] = new] /\ EndTick(r)
        /\ row.status = "extracting"
    BY <1>3 DEF ClaimPostpones, StillExtracting
  <2>2. row.safe_after \in Nat
    BY <1>f, <2>1 DEF VersionOK, VersionRow
  <2>3. /\ new \in IntentRow /\ IntentOK(v, new) /\ new.settled_at = None
        /\ new.recovery_grants = i.recovery_grants
    BY <1>f, <2>2, ReadiedOK
  <2>. QED BY <1>e, <1>g, <2>1, <2>3
<1>4. CASE ClaimExhausts(r, v)
  <2>1. /\ intent' = [intent EXCEPT ![v] = Unresolved(i, "attempts_exhausted")]
        /\ EndTick(r) /\ BudgetSpent(i) /\ "attempts_exhausted" \in IntentErrors
    BY <1>4 DEF ClaimExhausts, IntentErrors
  <2> DEFINE new == Unresolved(i, "attempts_exhausted")
  <2>2. /\ new \in IntentRow /\ IntentOK(v, new) /\ new.settled_at = None
        /\ new.recovery_grants = i.recovery_grants
    BY <1>f, <2>1, UnresolvedOK
  <2>. QED BY <1>e, <1>g, <2>1, <2>2
<1>5. CASE ClaimPublishes(r, v)
  <2> DEFINE n == RetriesOf(row)
             p == i.publish_attempts + 1
             j == [version |-> v, task_id |-> i.task_id, token |-> p, retries |-> n]
             s == [pc |-> "publish", job |-> j]
  <2>1. /\ intent' = [intent EXCEPT ![v] = Leased(i)] /\ ~ BudgetSpent(i)
        /\ relay' = [relay EXCEPT ![r] = s]
    BY <1>5 DEF ClaimPublishes
  <2>2. /\ Leased(i) \in IntentRow /\ IntentOK(v, Leased(i))
        /\ Leased(i).settled_at = None
        /\ Leased(i).recovery_grants = i.recovery_grants
    BY <1>f, <2>1, LeasedOK
  <2>3. /\ n \in Nat /\ n <= MaxAttempts /\ p \in Nat
        /\ i.task_id \in TaskIds /\ i.task_id = "outbox"
    BY <1>f, ConstantsAssumption
       DEF RetriesOf, VersionOK, VersionRow, IntentRow, IntentOK, MaxAttempts
  <2> HIDE DEF n, p
  <2>4. j \in Publication /\ MessageOK(j)
    BY <1>f, <2>3 DEF Publication, MessageOK
  <2>5. j # None
    BY <2>4, NoneAssumption
  <2> HIDE DEF j
  <2>6. s \in RelayState /\ RelayOK(s)
    BY <2>4, <2>5 DEF RelayState, RelayPC, RelayOK
  <2> HIDE DEF s
  <2>7. relay' \in [Relays -> RelayState] /\ Deliveries'
    BY <1>t, <1>u, <2>1, <2>6, RelayProcessStep
  <2>. QED BY <1>g, <2>1, <2>2, <2>7
<1>. QED BY <1>1, <1>2, <1>3, <1>4, <1>5 DEF ClaimSome

\* settle_terminal and cleanup work on many intents at once, of versions whose
\* outcome is decided.
LEMMA BatchStep ==
    ASSUME IInv, version' = version, audit' = audit,
           intent' \in [Versions -> IntentRow \cup {None}],
           \A x \in Versions :
              \/ intent'[x] = intent[x]
              \/ /\ intent[x] # None /\ Terminal(version[x])
                 /\ intent'[x] # None =>
                       /\ IntentOK(x, intent'[x])
                       /\ intent'[x].recovery_grants = intent[x].recovery_grants
    PROVE  Rows' /\ Agreement'
<1>1. Rows'
  BY DEF IInv, Rows
<1>2. Agreement'
  <2> SUFFICES ASSUME NEW x \in Versions PROVE Agreement!(x)'
    BY DEF Agreement
  <2>1. version[x] # None \/ intent[x] = None
    BY DEF IInv, Rows
  <2>2. CASE intent'[x] = intent[x]
    BY <2>2 DEF IInv, Agreement
  <2>3. CASE /\ intent[x] # None /\ Terminal(version[x])
             /\ intent'[x] # None =>
                   intent'[x].recovery_grants = intent[x].recovery_grants
    BY <2>1, <2>3 DEF IInv, Agreement
  <2>. QED BY <2>2, <2>3
<1>. QED BY <1>1, <1>2

\* The relay's and the operator's steps.
LEMMA RelayInductive ==
    ASSUME IInv, RelayNext
    PROVE  IInv'
<1> USE DEF RelayFrame
<1>t. /\ queue \subseteq Message /\ \A m \in queue : MessageOK(m)
      /\ lock \in [Versions -> Workers \cup {None}]
      /\ worker \in [Workers -> WorkerState] /\ relay \in [Relays -> RelayState]
      /\ intent \in [Versions -> IntentRow \cup {None}]
      /\ version \in [Versions -> VersionRow \cup {None}]
      /\ audit \in [Versions -> [AuditEvents -> Nat]]
  BY DEF IInv, TypeOK, IngestionTypeOK, Deliveries
<1>p. /\ {"settle", "claim", "finish_ok", "finish_failed", "cleanup"} \subseteq RelayPC
      /\ {"settle", "claim", "cleanup"} \cap {"publish", "finish_ok", "finish_failed"} = {}
  BY DEF RelayPC
<1>1. ASSUME NEW r \in Relays, NEW taken \in SUBSET {v \in Versions : Settleable(v)},
             SettleTerminal(r, taken)
      PROVE  IInv'
  <2> DEFINE new(x) == [Settled(intent[x]) EXCEPT !.unresolved = FALSE, !.last_error = None]
  <2>1. /\ \A x \in Versions : intent'[x] = IF x \in taken THEN new(x) ELSE intent[x]
        /\ intent' = [x \in Versions |-> IF x \in taken THEN new(x) ELSE intent[x]]
        /\ RelayGoto(r, "claim") /\ version' = version /\ audit' = audit
        /\ queue' = queue /\ lock' = lock /\ worker' = worker
    BY <1>1 DEF SettleTerminal
  <2>2. ASSUME NEW x \in Versions, x \in taken
        PROVE  /\ intent[x] # None /\ Terminal(version[x])
               /\ new(x) \in IntentRow /\ IntentOK(x, new(x))
               /\ new(x).recovery_grants = intent[x].recovery_grants
    <3>1. intent[x] # None /\ Terminal(version[x])
      BY <2>2 DEF Settleable
    <3>2. intent[x] \in IntentRow /\ IntentOK(x, intent[x])
      BY <3>1, DueFacts
    <3>4. /\ new(x) \in IntentRow
          /\ new(x) = Settled(intent[x]) => new(x).unresolved = FALSE
      <4>1. Settled(intent[x]) \in IntentRow
        <5>1. Unleased(intent[x]) \in IntentRow
          BY <3>2, UnleasedOK
        <5>. QED BY <5>1, ConstantsAssumption DEF Settled, IntentRow
      <4>. QED BY <4>1 DEF IntentRow
    <3>5. new(x) = Settled(intent[x]) => ~ intent[x].unresolved
      <4>1. Settled(intent[x]).unresolved = Unleased(intent[x]).unresolved
        <5>1. Unleased(intent[x]) \in IntentRow
          BY <3>2, UnleasedOK
        <5>. QED BY <5>1 DEF Settled, IntentRow
      <4>. QED BY <3>2, <3>4, <4>1, UnleasedOK
    <3>. QED BY <3>1, <3>2, <3>5, SettledOK
  <2> HIDE DEF new
  <2>3. intent' \in [Versions -> IntentRow \cup {None}]
    BY <1>t, <2>1, <2>2
  <2>4. Rows' /\ Agreement'
    BY <2>1, <2>2, <2>3, BatchStep
  <2>5. relay' \in [Relays -> RelayState] /\ Deliveries'
    BY <1>t, <1>p, <2>1, RelayMove
  <2>. QED BY <1>t, <2>1, <2>3, <2>4, <2>5 DEF IInv, TypeOK, IngestionTypeOK
<1>2. ASSUME NEW r \in Relays, ClaimNothing(r) \/ RelayAborted(r) PROVE IInv'
  <2>1. /\ UNCHANGED <<version, intent, audit, queue, lock, worker>>
        /\ \E pc \in {"settle", "cleanup"} :
              relay' = [relay EXCEPT ![r] = [pc |-> pc, job |-> None]]
    BY <1>2 DEF ClaimNothing, RelayAborted, EndTick
  <2>2. relay' \in [Relays -> RelayState] /\ Deliveries'
    BY <1>t, <1>p, <2>1, RelayMove
  <2>. QED BY <1>t, <2>1, <2>2, RowsUnchanged DEF IInv, TypeOK, IngestionTypeOK
<1>3. ASSUME NEW r \in Relays, Publish(r) \/ (\E sent \in BOOLEAN : PublishFault(r, sent))
      PROVE  IInv'
  <2> DEFINE m == PublishedMessage(Holds(r))
  <2>1. /\ relay[r].pc = "publish" /\ queue' \subseteq queue \cup {m}
        /\ UNCHANGED <<version, intent, audit, lock, worker>>
        /\ \E pc \in {"finish_ok", "finish_failed"} : RelayGoto(r, pc)
    BY <1>3 DEF Publish, PublishFault
  <2>2. relay[r].job # None /\ relay[r] \in RelayState /\ MessageOK(relay[r].job)
    BY <1>t, <2>1 DEF IInv, Deliveries, RelayOK
  <2>3. m \in Message /\ MessageOK(m)
    BY <2>2 DEF PublishedMessage, Holds, RelayState, Publication, Message, MessageOK
  <2> HIDE DEF m
  <2>4. queue' \subseteq Message /\ \A x \in queue' : MessageOK(x)
    BY <1>t, <2>1, <2>3
  <2>5. relay' \in [Relays -> RelayState] /\ Deliveries'
    BY <1>p, <2>1, <2>2, <2>4, RelayMove
  <2>. QED BY <1>t, <2>1, <2>4, <2>5, RowsUnchanged DEF IInv, TypeOK, IngestionTypeOK
<1>4. ASSUME NEW r \in Relays, Finish(r) PROVE IInv'
  <2> DEFINE v == Holds(r).version
             i == intent[v]
             ok == relay[r].pc = "finish_ok"
  <2>1. /\ relay[r].pc \in {"finish_ok", "finish_failed"} /\ EndTick(r)
        /\ intent' = [intent EXCEPT ![v] =
                        IF HoldsLease(i, Holds(r).token) THEN Finished(i, ok) ELSE i]
        /\ UNCHANGED <<version, audit, queue, lock, worker>>
    BY <1>4 DEF Finish
  <2>2. /\ relay[r].job # None /\ relay[r] \in RelayState
    BY <1>t, <2>1 DEF IInv, Deliveries, RelayOK
  <2>3. v \in Versions /\ Holds(r).token \in Nat
    BY <2>2 DEF Holds, RelayState, Publication
  <2>4. relay' \in [Relays -> RelayState] /\ Deliveries'
    BY <1>t, <1>p, <2>1, RelayMove DEF EndTick
  <2>5. CASE HoldsLease(i, Holds(r).token)
    <3>1. i # None /\ i.lease_token # None
      BY <2>3, <2>5, NoneAssumption DEF HoldsLease
    <3>2. i \in IntentRow /\ IntentOK(v, i) /\ version[v] # None
      BY <2>3, <3>1, DueFacts
    <3>3. ok \in BOOLEAN
      OBVIOUS
    <3> HIDE DEF ok
    <3>4. /\ Finished(i, ok) \in IntentRow /\ IntentOK(v, Finished(i, ok))
          /\ Finished(i, ok).settled_at = i.settled_at
          /\ Finished(i, ok).recovery_grants = i.recovery_grants
      BY <3>1, <3>2, <3>3, FinishedOK
    <3>5. intent' = [intent EXCEPT ![v] = Finished(i, ok)]
      BY <2>1, <2>5
    <3>6. i.settled_at # None => Terminal(version[v])
      BY <2>3, <3>1, <3>2 DEF IInv, Agreement
    <3>7. /\ intent' \in [Versions -> IntentRow \cup {None}]
          /\ Rows' /\ Agreement'
      BY <2>1, <2>3, <3>1, <3>2, <3>4, <3>5, <3>6, IntentStep
    <3>. QED BY <1>t, <2>1, <2>4, <3>7 DEF IInv, TypeOK, IngestionTypeOK
  <2>6. CASE ~ HoldsLease(i, Holds(r).token)
    <3>1. intent' = intent
      BY <1>t, <2>1, <2>3, <2>6
    <3>. QED BY <1>t, <2>1, <2>4, <3>1, RowsUnchanged DEF IInv, TypeOK, IngestionTypeOK
  <2>. QED BY <2>5, <2>6
<1>5. ASSUME NEW r \in Relays, NEW taken \in SUBSET {v \in Versions : Expired(v)},
             Cleanup(r, taken)
      PROVE  IInv'
  <2>1. /\ intent' = [x \in Versions |-> IF x \in taken THEN None ELSE intent[x]]
        /\ RelayGoto(r, "settle")
        /\ UNCHANGED <<version, audit, queue, lock, worker>>
    BY <1>5 DEF Cleanup
  <2>2. intent' \in [Versions -> IntentRow \cup {None}]
    BY <1>t, <2>1
  <2>3. ASSUME NEW x \in Versions, x \in taken
        PROVE  intent[x] # None /\ Terminal(version[x])
    <3>1. intent[x] # None /\ intent[x].settled_at # None
      BY <2>3, NoneAssumption DEF Expired
    <3>. QED BY <3>1 DEF IInv, Rows, Agreement
  <2>4. Rows' /\ Agreement'
    BY <2>1, <2>2, <2>3, BatchStep
  <2>5. relay' \in [Relays -> RelayState] /\ Deliveries'
    BY <1>t, <1>p, <2>1, RelayMove
  <2>. QED BY <1>t, <2>1, <2>2, <2>4, <2>5 DEF IInv, TypeOK, IngestionTypeOK
<1>6. ASSUME NEW v \in Versions, Rearm(v) PROVE IInv'
  <2> DEFINE i == intent[v]
             new == Rearmed(i)
  <2>1. /\ i # None /\ i.recovery_grants < MaxGrants /\ i.settled_at = None
        /\ intent' = [intent EXCEPT ![v] = new] /\ audit' = Audited(v, "rearmed")
        /\ UNCHANGED <<version, queue, lock, worker, relay>>
    BY <1>6 DEF Rearm, Rearmable
  <2>2. i \in IntentRow /\ IntentOK(v, i) /\ version[v] # None
    BY <2>1, DueFacts
  <2>3. /\ new \in IntentRow /\ IntentOK(v, new) /\ new.settled_at = None
        /\ new.recovery_grants = i.recovery_grants + 1
    BY <2>1, <2>2, ReadiedOK
  <2> HIDE DEF new
  <2>4. /\ intent' \in [Versions -> IntentRow \cup {None}]
        /\ audit' \in [Versions -> [AuditEvents -> Nat]]
        /\ Rows' /\ Agreement'
    BY <2>1, <2>2, <2>3, IntentStep
  <2>5. Deliveries'
    BY <2>1 DEF IInv, Deliveries, WorkerOK, RelayOK, MessageOK
  <2>. QED BY <1>t, <2>1, <2>4, <2>5 DEF IInv, TypeOK, IngestionTypeOK
<1>7. ASSUME NEW v \in Versions, Backfill(v) PROVE IInv'
  <2>1. /\ version[v] # None /\ version[v].status = "queued" /\ intent[v] = None
        /\ UNCHANGED <<version, audit, queue, lock, worker, relay>>
    BY <1>7 DEF Backfill
  <2>2. version[v].processing_task_id = None
    BY <2>1 DEF IInv, Rows, VersionOK
  <2>3. intent' = [intent EXCEPT ![v] = NewIntent("outbox")]
    BY <1>7, <2>2 DEF Backfill
  <2>4. /\ NewIntent("outbox") \in IntentRow /\ IntentOK(v, NewIntent("outbox"))
        /\ NewIntent("outbox").settled_at = None
        /\ NewIntent("outbox").recovery_grants = 0
    BY NewIntentOK
  <2>5. ~ Terminal(version[v])
    BY <2>1 DEF Terminal, TerminalStatus
  <2>6. intent' \in [Versions -> IntentRow \cup {None}] /\ Rows' /\ Agreement'
    BY <2>1, <2>3, <2>4, <2>5, IntentStep
  <2>7. Deliveries'
    BY <2>1 DEF IInv, Deliveries, WorkerOK, RelayOK, MessageOK
  <2>. QED BY <1>t, <2>1, <2>6, <2>7 DEF IInv, TypeOK, IngestionTypeOK
<1>. QED
  BY <1>1, <1>2, <1>3, <1>4, <1>5, <1>6, <1>7, ClaimInductive DEF RelayNext, RelayStep

\* Uploads, the broker and time.
LEMMA EnvironmentInductive ==
    ASSUME IInv,
           \/ \E v \in Versions : Upload(v)
           \/ \E w \in Workers : Redeliver(w)
           \/ \E m \in queue : LoseMessage(m)
           \/ Tick
    PROVE  IInv'
<1>t. /\ queue \subseteq Message /\ \A m \in queue : MessageOK(m)
      /\ lock \in [Versions -> Workers \cup {None}]
      /\ worker \in [Workers -> WorkerState] /\ relay \in [Relays -> RelayState]
      /\ intent \in [Versions -> IntentRow \cup {None}]
      /\ version \in [Versions -> VersionRow \cup {None}]
      /\ audit \in [Versions -> [AuditEvents -> Nat]]
  BY DEF IInv, TypeOK, IngestionTypeOK, Deliveries
<1>k. ASSUME \A x \in Versions : version[x] # None => version'[x] # None,
             worker' = worker, relay' = relay, queue' \subseteq Message,
             \A m \in queue' : MessageOK(m)
      PROVE  Deliveries'
  <2>1. \A m \in queue' : MessageOK(m)'
    BY <1>k, MessageKept DEF Message
  <2>2. ASSUME NEW w \in Workers PROVE WorkerOK(worker[w])'
    <3>1. worker[w].job # None => worker[w].job.version \in Versions
      BY <1>t DEF WorkerState, Message
    <3>. QED BY <1>k, <3>1 DEF IInv, Deliveries, WorkerOK, MessageOK
  <2>3. ASSUME NEW r \in Relays PROVE RelayOK(relay[r])'
    <3>1. relay[r].job # None => relay[r].job.version \in Versions
      BY <1>t DEF RelayState, Publication
    <3>. QED BY <1>k, <3>1 DEF IInv, Deliveries, RelayOK, MessageOK
  <2>. QED BY <2>1, <2>2, <2>3 DEF Deliveries
<1>1. ASSUME NEW v \in Versions, Upload(v) PROVE IInv'
  <2>1. /\ version[v] = None /\ version' = [version EXCEPT ![v] = NewVersion]
        /\ intent' = [intent EXCEPT ![v] = NewIntent("outbox")]
        /\ audit' = Audited(v, "uploaded")
        /\ UNCHANGED <<queue, lock, worker, relay>>
    BY <1>1 DEF Upload
  <2>2. /\ NewVersion \in VersionRow /\ VersionOK(v, NewVersion) /\ NewVersion # None
        /\ NewVersion.status = "queued"
    <3>1. /\ NewVersion \in VersionRow /\ VersionOK(v, NewVersion)
          /\ NewVersion.status = "queued"
      BY ConstantsAssumption DEF NewVersion, VersionRow, VersionOK, Status, MaxAttempts
    <3>. QED BY <3>1, NoneAssumption
  <2>3. /\ NewIntent("outbox") \in IntentRow /\ IntentOK(v, NewIntent("outbox"))
        /\ NewIntent("outbox").settled_at = None /\ NewIntent("outbox") # None
        /\ NewIntent("outbox").recovery_grants = 0
    BY NewIntentOK, NoneAssumption
  <2>4. /\ audit' \in [Versions -> [AuditEvents -> Nat]]
        /\ \A x \in Versions : x # v => audit'[x] = audit[x]
        /\ \A f \in AuditEvents : f # "uploaded" => audit'[v][f] = audit[v][f]
    <3>1. "uploaded" \in AuditEvents
      BY DEF AuditEvents
    <3>. QED BY <1>t, <2>1, <3>1, AuditedOK
  <2>5. \A e \in {"ready", "failed", "rearmed"} : audit'[v][e] = 0
    BY <2>1, <2>4 DEF IInv, Agreement, AuditEvents
  <2>6. /\ version' \in [Versions -> VersionRow \cup {None}] /\ version'[v] = NewVersion
        /\ intent' \in [Versions -> IntentRow \cup {None}]
        /\ intent'[v] = NewIntent("outbox")
        /\ \A x \in Versions : x # v => version'[x] = version[x] /\ intent'[x] = intent[x]
    BY <1>t, <2>1, <2>2, <2>3
  <2>7. Rows'
    BY <2>2, <2>3, <2>6 DEF IInv, Rows
  <2>8. Agreement'
    <3> SUFFICES ASSUME NEW x \in Versions PROVE Agreement!(x)'
      BY DEF Agreement
    <3>1. CASE x # v
      BY <2>4, <2>6, <3>1 DEF IInv, Agreement, Terminal
    <3>2. CASE x = v
      BY <2>2, <2>3, <2>5, <2>6, <3>2 DEF Terminal
    <3>. QED BY <3>1, <3>2
  <2>9. Deliveries'
    BY <1>k, <1>t, <2>1, <2>2, <2>6
  <2>. QED BY <1>t, <2>1, <2>4, <2>6, <2>7, <2>8, <2>9 DEF IInv, TypeOK, IngestionTypeOK
<1>2. ASSUME NEW w \in Workers, Redeliver(w) PROVE IInv'
  <2>1. /\ worker[w].pc # "idle" /\ queue' = queue \cup {Job(w)}
        /\ UNCHANGED <<version, intent, audit, lock, worker, relay>>
    BY <1>2 DEF Redeliver
  <2>2. queue' \subseteq Message /\ \A m \in queue' : MessageOK(m)
    BY <1>t, <2>1, JobFacts
  <2>3. Deliveries'
    BY <1>k, <2>1, <2>2
  <2>. QED BY <1>t, <2>1, <2>2, <2>3, RowsUnchanged DEF IInv, TypeOK, IngestionTypeOK
<1>3. ASSUME NEW m \in queue, LoseMessage(m) PROVE IInv'
  <2>1. /\ queue' = queue \ {m} /\ UNCHANGED <<version, intent, audit, lock, worker, relay>>
    BY <1>3 DEF LoseMessage
  <2>2. Deliveries'
    BY <1>k, <1>t, <2>1
  <2>. QED BY <1>t, <2>1, <2>2, RowsUnchanged DEF IInv, TypeOK, IngestionTypeOK
<1>4. CASE Tick
  <2>1. /\ version' = [v \in Versions |-> VersionLater(version[v])]
        /\ intent' = [v \in Versions |-> IntentLater(intent[v])]
        /\ UNCHANGED <<audit, queue, lock, worker, relay>>
    BY <1>4 DEF Tick
  <2>2. ASSUME NEW x \in Versions
        PROVE  /\ version'[x] \in VersionRow \cup {None}
               /\ version'[x] = None <=> version[x] = None
               /\ version[x] # None =>
                     /\ VersionOK(x, version'[x])
                     /\ version'[x].status = version[x].status
    <3>1. CASE version[x] = None
      BY <2>1, <3>1 DEF VersionLater
    <3>2. CASE version[x] # None
      <4>1. version[x] \in VersionRow /\ VersionOK(x, version[x])
        BY <1>t, <3>2 DEF IInv, Rows
      <4>. QED BY <2>1, <3>2, <4>1, VersionLaterOK, NoneAssumption
    <3>. QED BY <3>1, <3>2
  <2>3. ASSUME NEW x \in Versions
        PROVE  /\ intent'[x] \in IntentRow \cup {None}
               /\ intent'[x] = None <=> intent[x] = None
               /\ intent[x] # None =>
                     /\ IntentOK(x, intent'[x])
                     /\ intent'[x].settled_at = None <=> intent[x].settled_at = None
                     /\ intent'[x].recovery_grants = intent[x].recovery_grants
    <3>1. CASE intent[x] = None
      BY <2>1, <3>1 DEF IntentLater
    <3>2. CASE intent[x] # None
      <4>1. intent[x] \in IntentRow /\ IntentOK(x, intent[x])
        BY <3>2, DueFacts
      <4>. QED BY <2>1, <3>2, <4>1, IntentLaterOK, NoneAssumption
    <3>. QED BY <3>1, <3>2
  <2>4. /\ version' \in [Versions -> VersionRow \cup {None}]
        /\ intent' \in [Versions -> IntentRow \cup {None}]
    BY <2>1, <2>2, <2>3
  <2>5. Rows'
    BY <2>2, <2>3 DEF IInv, Rows
  <2>6. Agreement'
    <3> SUFFICES ASSUME NEW x \in Versions PROVE Agreement!(x)'
      BY DEF Agreement
    <3>. QED BY <2>1, <2>2, <2>3 DEF IInv, Agreement, Rows, Terminal
  <2>7. Deliveries'
    BY <1>k, <1>t, <2>1, <2>2
  <2>. QED BY <1>t, <2>1, <2>4, <2>5, <2>6, <2>7 DEF IInv, TypeOK, IngestionTypeOK
<1>. QED BY <1>1, <1>2, <1>3, <1>4

\* The initial states satisfy the invariant.
LEMMA InitInvariant == Init => IInv
<1> SUFFICES ASSUME Init PROVE IInv
  OBVIOUS
<1>1. NewVersion \in VersionRow /\ NewVersion # None /\ NewVersion.status = "queued"
      /\ \A v : VersionOK(v, NewVersion)
  <2>1. /\ NewVersion \in VersionRow /\ NewVersion.status = "queued"
        /\ \A v : VersionOK(v, NewVersion)
    BY ConstantsAssumption DEF NewVersion, VersionRow, VersionOK, Status, MaxAttempts
  <2>. QED BY <2>1, NoneAssumption
<1>2. TypeOK
  <2>1. LegacyMessages \subseteq Message
    BY ConstantsAssumption DEF LegacyMessages, Message, TaskIds
  <2>. QED BY <1>1, <2>1 DEF Init, TypeOK, IngestionTypeOK, WorkerState, RelayState,
                             WorkerPC, RelayPC, AuditEvents
<1>3. Rows
  BY <1>1 DEF Init, Rows
<1>4. Agreement
  BY <1>1 DEF Init, Agreement, AuditEvents, Terminal, TerminalStatus
<1>5. Deliveries
  <2>1. \A m \in queue : MessageOK(m)
    BY <1>1, ConstantsAssumption DEF Init, LegacyMessages, MessageOK, MaxAttempts
  <2>. QED BY <2>1 DEF Init, Deliveries, WorkerOK, RelayOK
<1>. QED BY <1>2, <1>3, <1>4, <1>5 DEF IInv

\* The invariant is inductive: it holds in every reachable state.
THEOREM Invariant == Spec => []IInv
<1>1. IInv /\ [Next]_vars => IInv'
  <2> SUFFICES ASSUME IInv, [Next]_vars PROVE IInv'
    OBVIOUS
  <2>1. CASE Next
    BY <2>1, WorkerInductive, RelayInductive, EnvironmentInductive DEF Next
  <2>2. CASE UNCHANGED vars
    <3>1. /\ version' = version /\ intent' = intent /\ audit' = audit
          /\ queue' = queue /\ lock' = lock /\ worker' = worker /\ relay' = relay
      BY <2>2 DEF vars
    <3>2. Deliveries'
      BY <3>1 DEF IInv, Deliveries, WorkerOK, RelayOK, MessageOK
    <3>. QED BY <3>1, <3>2, RowsUnchanged DEF IInv, TypeOK, IngestionTypeOK
  <2>. QED BY <2>1, <2>2
<1>. QED BY <1>1, InitInvariant, PTL DEF Spec

\* Rows, messages and processes keep their types in every reachable state.
THEOREM TypeCorrect == Spec => []TypeOK
<1>1. IInv => TypeOK
  BY DEF IInv
<1>. QED BY <1>1, Invariant, PTL

\* However deliveries interleave, fail or repeat, each version has exactly the
\* outcome event its status shows, and each grant is audited once.
THEOREM AuditCorrect == Spec => []AuditMatchesStatus
<1>1. IInv => AuditMatchesStatus
  BY DEF IInv, Agreement, AuditMatchesStatus
<1>. QED BY <1>1, Invariant, PTL

\* A version has an owner and a start time exactly while it is extracted.
THEOREM OwnershipCorrect == Spec => []OwnedWhileExtracting
<1>1. IInv => OwnedWhileExtracting
  BY DEF IInv, Rows, VersionOK, OwnedWhileExtracting
<1>. QED BY <1>1, Invariant, PTL

\* Neither attempts nor retry headers pass max_retries + 1.
THEOREM AttemptsBounded == Spec => []AttemptBudget
<1>1. IInv => AttemptBudget
  BY DEF IInv, Rows, VersionOK, Deliveries, RelayOK, MessageOK, AttemptBudget
<1>. QED BY <1>1, Invariant, PTL

\* No accepted version without an outcome loses its pending intent.
THEOREM NothingForgotten == Spec => []NoIntentForgotten
<1>1. IInv => NoIntentForgotten
  BY DEF IInv, Rows, Agreement, NoIntentForgotten
<1>. QED BY <1>1, Invariant, PTL

\* Publications and recoveries stay within the policy plus the grants.
THEOREM PublicationsBounded == Spec => []PublicationBudget
<1>1. IInv => PublicationBudget
  BY DEF IInv, Rows, IntentOK, PublicationBudget
<1>. QED BY <1>1, Invariant, PTL

\* The relay gives up only for a reason the intent's row shows.
THEOREM UnresolvedExplained == Spec => []UnresolvedIsExplained
<1>1. IInv => UnresolvedIsExplained
  BY DEF IInv, Rows, IntentOK, UnresolvedIsExplained
<1>. QED BY <1>1, Invariant, PTL
=============================================================================
