------------------------ MODULE IngestionStepProofs ------------------------
(***************************************************************************)
(* What a step of the ingestion pipeline may do: the refinement of the     *)
(* version lifecycle, the finality of outcomes, the fencing of leases, and *)
(* what the advisory lock adds.                                            *)
(***************************************************************************)
EXTENDS DocumentUpload, IngestionProofs

(***************************************************************************)
(* The effect of a step on versions and outcome events.                    *)
(***************************************************************************)
SameOutcomes ==
    \A v \in Versions : /\ audit'[v]["ready"] = audit[v]["ready"]
                        /\ audit'[v]["failed"] = audit[v]["failed"]

\* Nothing the lifecycle shows changes, and decided rows do not change at all.
Quiet ==
    /\ SameOutcomes
    /\ \A v \in Versions :
          /\ version'[v] = None <=> version[v] = None
          /\ version[v] # None =>
                /\ version'[v].status = version[v].status
                /\ version'[v].attempt_count = version[v].attempt_count
                /\ Terminal(version[v]) => version'[v] = version[v]

Accepts(v) ==
    /\ SameOutcomes
    /\ version[v] = None /\ version' = [version EXCEPT ![v] = NewVersion]

Starts(v, row) ==
    /\ SameOutcomes
    /\ version[v].status = "queued" /\ row.status = "extracting"
    /\ version[v].attempt_count < MaxAttempts
    /\ row.attempt_count = version[v].attempt_count + 1

GivesBack(v, row) ==
    /\ SameOutcomes
    /\ version[v].status = "extracting" /\ row.status = "queued"
    /\ row.attempt_count = version[v].attempt_count

Decides(v, row) ==
    /\ \/ version[v].status = "extracting" /\ row.status \in TerminalStatus
       \/ /\ version[v].status = "queued" /\ row.status = "failed"
          /\ version[v].attempt_count >= MaxAttempts
    /\ row.attempt_count = version[v].attempt_count
    /\ audit' = Audited(v, row.status)

Moves(v, row) ==
    /\ version[v] # None
    /\ version' = [version EXCEPT ![v] = row]
    /\ Starts(v, row) \/ GivesBack(v, row) \/ Decides(v, row)

Progress ==
    \/ Quiet
    \/ \E v \in Versions : \E row \in VersionRow : Moves(v, row)

Effect == Progress \/ \E v \in Versions : Accepts(v)

\* An outcome event about another subject is no outcome.
LEMMA OtherEvent ==
    ASSUME IInv, NEW v \in Versions, NEW e \in {"uploaded", "rearmed"},
           audit' = Audited(v, e)
    PROVE  SameOutcomes
<1>1. e \in AuditEvents /\ "ready" \in AuditEvents /\ "failed" \in AuditEvents
      /\ e # "ready" /\ e # "failed"
  BY DEF AuditEvents
<1>2. /\ \A x \in Versions : x # v => audit'[x] = audit[x]
      /\ \A f \in AuditEvents : f # e => audit'[v][f] = audit[v][f]
  BY <1>1, AuditedOK DEF IInv, TypeOK, IngestionTypeOK
<1>. QED BY <1>1, <1>2 DEF SameOutcomes

\* Each of the worker's steps is one move of the version it delivers, or none.
LEMMA WorkerEffect ==
    ASSUME IInv, WorkerNext
    PROVE  Progress
<1> USE DEF WorkerFrame
<1>0. PICK w \in Workers :
        \/ \E m \in queue : Deliver(w, m) \/ DeliverBusy(w, m)
        \/ ClaimRefused(w) \/ ClaimResumes(w)
        \/ \E reported \in BOOLEAN :
              \/ ClaimExhausted(w, reported)
              \/ \E left \in SkewedDeadlines : ClaimStarts(w, left, reported)
              \/ MarkReady(w, reported) \/ MarkFailed(w, reported)
        \/ \E next \in WorkerPC : Work(w, next)
        \/ DatabaseFault(w)
        \/ MarkRetryExhausted(w) \/ PrepareRetry(w) \/ PrepareRetryFault(w)
        \/ Republish(w) \/ Unlock(w)
        \/ WorkerLost(w) \/ WorkerAborted(w) \/ LockDropped(w)
  BY DEF WorkerNext
<1> DEFINE v == Job(w).version
           task == Job(w).task_id
           row == version[v]
<1>q. ASSUME version' = version, audit' = audit PROVE Progress
  BY <1>q DEF Progress, Quiet, SameOutcomes
<1>o. ASSUME worker[w].pc # "idle", NEW code \in ErrorCodes,
             \/ version' = [version EXCEPT ![v] = Ready(row)] /\ audit' = Audited(v, "ready")
                /\ row.status = "extracting"
             \/ version' = [version EXCEPT ![v] = Failed(row, code)]
                /\ audit' = Audited(v, "failed")
                /\ \/ row.status = "extracting"
                   \/ row.status = "queued" /\ row.attempt_count >= MaxAttempts
      PROVE  Progress
  <2>1. /\ v \in Versions /\ row \in VersionRow /\ row # None /\ VersionOK(v, row)
    BY <1>o, JobFacts
  <2>2. CASE version' = [version EXCEPT ![v] = Ready(row)] /\ audit' = Audited(v, "ready")
             /\ row.status = "extracting"
    <3>1. /\ Ready(row) \in VersionRow /\ Ready(row).status = "ready"
          /\ Ready(row).attempt_count = row.attempt_count
      BY <2>1, ReleasedOK
    <3>2. Moves(v, Ready(row))
      BY <2>1, <2>2, <3>1 DEF Moves, Decides, TerminalStatus
    <3>. QED BY <2>1, <3>1, <3>2 DEF Progress
  <2>3. CASE version' = [version EXCEPT ![v] = Failed(row, code)]
             /\ audit' = Audited(v, "failed")
             /\ \/ row.status = "extracting"
                \/ row.status = "queued" /\ row.attempt_count >= MaxAttempts
    <3>1. /\ Failed(row, code) \in VersionRow /\ Failed(row, code).status = "failed"
          /\ Failed(row, code).attempt_count = row.attempt_count
      BY <2>1, ReleasedOK
    <3>2. Moves(v, Failed(row, code))
      BY <2>1, <2>3, <3>1 DEF Moves, Decides, TerminalStatus
    <3>. QED BY <2>1, <3>1, <3>2 DEF Progress
  <2>. QED BY <1>o, <2>2, <2>3
<1>c. {"rejected", "retry_exhausted"} \subseteq ErrorCodes
  BY DEF ErrorCodes
<1>1. ASSUME NEW m \in queue, Deliver(w, m) \/ DeliverBusy(w, m) PROVE Progress
  BY <1>1, <1>q DEF Deliver, DeliverBusy
<1>2. CASE \/ ClaimRefused(w) \/ ClaimResumes(w) \/ (\E next \in WorkerPC : Work(w, next))
           \/ DatabaseFault(w) \/ PrepareRetryFault(w) \/ Republish(w) \/ Unlock(w)
           \/ WorkerLost(w) \/ WorkerAborted(w) \/ LockDropped(w)
  BY <1>2, <1>q DEF ClaimRefused, ClaimResumes, Work, DatabaseFault, PrepareRetryFault,
     Republish, Unlock, WorkerLost, WorkerAborted, LockDropped
<1>3. ASSUME NEW reported \in BOOLEAN, ClaimExhausted(w, reported) PROVE Progress
  BY <1>3, <1>c, <1>o DEF ClaimExhausted
<1>4. ASSUME NEW reported \in BOOLEAN, NEW left \in SkewedDeadlines,
             ClaimStarts(w, left, reported)
      PROVE  Progress
  <2> DEFINE new == Extracting(row, task, left)
  <2>1. /\ worker[w].pc # "idle" /\ row.status = "queued"
        /\ row.attempt_count < MaxAttempts
        /\ version' = [version EXCEPT ![v] = new] /\ audit' = audit
    BY <1>4 DEF ClaimStarts
  <2>2. /\ v \in Versions /\ row \in VersionRow /\ row # None /\ task \in TaskIds
        /\ v \notin Legacy => task = "outbox"
    BY <2>1, JobFacts DEF MessageOK
  <2>3. left \in Nat
    BY ConstantsAssumption DEF SkewedDeadlines
  <2>4. new \in VersionRow /\ new.status = "extracting"
    BY <2>1, <2>2, <2>3, ExtractingOK
  <2>5. new.attempt_count = row.attempt_count + 1
    BY <2>2 DEF Extracting, VersionRow
  <2> HIDE DEF new
  <2>6. Moves(v, new)
    BY <2>1, <2>2, <2>4, <2>5 DEF Moves, Starts, SameOutcomes
  <2>. QED BY <2>2, <2>4, <2>6 DEF Progress
<1>5. ASSUME NEW reported \in BOOLEAN, MarkReady(w, reported) \/ MarkFailed(w, reported)
      PROVE  Progress
  BY <1>5, <1>c, <1>o, <1>q DEF MarkReady, MarkFailed, OwnedExtraction
<1>6. CASE MarkRetryExhausted(w)
  BY <1>6, <1>c, <1>o, <1>q DEF MarkRetryExhausted, OwnedExtraction
<1>7. CASE PrepareRetry(w)
  <2>1. /\ worker[w].pc # "idle" /\ audit' = audit
        /\ version' = [version EXCEPT ![v] =
                         IF OwnedExtraction(row, task) THEN Requeued(row) ELSE row]
    BY <1>7 DEF PrepareRetry
  <2>2. /\ v \in Versions /\ row \in VersionRow /\ row # None /\ VersionOK(v, row)
    BY <2>1, JobFacts
  <2>3. CASE OwnedExtraction(row, task)
    <3>1. /\ Requeued(row) \in VersionRow /\ Requeued(row).status = "queued"
          /\ Requeued(row).attempt_count = row.attempt_count
      BY <1>c, <2>2, ReleasedOK
    <3>2. Moves(v, Requeued(row))
      BY <2>1, <2>2, <2>3, <3>1 DEF Moves, GivesBack, SameOutcomes, OwnedExtraction
    <3>. QED BY <2>2, <3>1, <3>2 DEF Progress
  <2>4. CASE ~ OwnedExtraction(row, task)
    <3>1. version' = version
      BY <2>1, <2>2, <2>4 DEF IInv, TypeOK, IngestionTypeOK
    <3>. QED BY <1>q, <2>1, <3>1
  <2>. QED BY <2>3, <2>4
<1>. QED BY <1>0, <1>1, <1>2, <1>3, <1>4, <1>5, <1>6, <1>7

\* The relay, the operator, the broker and time move no version; an upload
\* accepts one.
LEMMA StepEffect ==
    ASSUME IInv, [Next]_vars
    PROVE  Effect
<1>q. ASSUME version' = version, SameOutcomes PROVE Effect
  BY <1>q DEF Effect, Progress, Quiet
<1>a. audit' = audit => SameOutcomes
  BY DEF SameOutcomes
<1>1. CASE RelayNext
  <2>1. ASSUME NEW r \in Relays, RelayStep(r) \/ RelayAborted(r) PROVE Effect
    <3>1. version' = version /\ audit' = audit
      BY <2>1 DEF RelayStep, RelayAborted, SettleTerminal, ClaimNothing, ClaimSome,
         ClaimSettles, ClaimAmbiguous, ClaimPostpones, ClaimExhausts, ClaimPublishes,
         Publish, PublishFault, Finish, Cleanup, RelayFrame
    <3>. QED BY <1>a, <1>q, <3>1
  <2>2. ASSUME NEW v \in Versions, Rearm(v) PROVE Effect
    BY <1>q, <2>2, OtherEvent DEF Rearm, RelayFrame
  <2>3. ASSUME NEW v \in Versions, Backfill(v) PROVE Effect
    BY <1>a, <1>q, <2>3 DEF Backfill, RelayFrame
  <2>. QED BY <1>1, <2>1, <2>2, <2>3 DEF RelayNext
<1>2. ASSUME NEW v \in Versions, Upload(v) PROVE Effect
  <2>1. SameOutcomes
    BY <1>2, OtherEvent DEF Upload
  <2>. QED BY <1>2, <2>1 DEF Effect, Progress, Accepts, Upload
<1>3. CASE Tick
  <2>1. version' = [v \in Versions |-> VersionLater(version[v])] /\ audit' = audit
    BY <1>3 DEF Tick
  <2>2. ASSUME NEW v \in Versions
        PROVE  /\ version'[v] = None <=> version[v] = None
               /\ version[v] # None =>
                     /\ version'[v].status = version[v].status
                     /\ version'[v].attempt_count = version[v].attempt_count
                     /\ Terminal(version[v]) => version'[v] = version[v]
    <3>1. CASE version[v] = None
      BY <2>1, <3>1 DEF VersionLater
    <3>2. CASE version[v] # None
      <4>1. version[v] \in VersionRow /\ VersionOK(v, version[v])
        BY <3>2 DEF IInv, TypeOK, IngestionTypeOK, Rows
      <4>2. Terminal(version[v]) => version[v].safe_after = None
        BY <4>1 DEF VersionOK, Terminal, TerminalStatus
      <4>. QED BY <2>1, <3>2, <4>1, <4>2, VersionLaterOK, NoneAssumption
    <3>. QED BY <3>1, <3>2
  <2>. QED BY <1>a, <2>1, <2>2 DEF Effect, Progress, Quiet
<1>4. CASE (\E w \in Workers : Redeliver(w)) \/ (\E m \in queue : LoseMessage(m))
           \/ UNCHANGED vars
  BY <1>4, <1>a, <1>q DEF Redeliver, LoseMessage, vars
<1>. QED BY <1>1, <1>2, <1>3, <1>4, WorkerEffect DEF Next, Effect

(***************************************************************************)
(* Refinement.                                                             *)
(***************************************************************************)
\* A move of one version is a step of the lifecycle.
LEMMA EffectIsLifecycleStep ==
    ASSUME IInv, Effect
    PROVE  Lifecycle!LifecycleNext \/ UNCHANGED Lifecycle!lifecycle
<1> DEFINE st == [v \in Versions |-> IF version[v] = None THEN "absent" ELSE version[v].status]
           at == [v \in Versions |-> IF version[v] = None THEN 0 ELSE version[v].attempt_count]
           oc == [v \in Versions |-> audit[v]["ready"] + audit[v]["failed"]]
<1>t. /\ version \in [Versions -> VersionRow \cup {None}]
      /\ audit \in [Versions -> [AuditEvents -> Nat]]
  BY DEF IInv, TypeOK, IngestionTypeOK
<1>o. SameOutcomes => oc' = oc
  BY DEF SameOutcomes
<1>1. CASE Quiet
  <2>1. st' = st /\ at' = at /\ oc' = oc
    BY <1>1, <1>o DEF Quiet
  <2>. QED BY <2>1 DEF Lifecycle!lifecycle
<1>2. ASSUME NEW v \in Versions, Accepts(v) PROVE Lifecycle!LifecycleNext
  <2>1. NewVersion.status = "queued" /\ NewVersion.attempt_count = 0 /\ NewVersion # None
    <3>1. NewVersion.status = "queued" /\ NewVersion.attempt_count = 0
      BY DEF NewVersion
    <3>2. NewVersion \in VersionRow
      BY DEF NewVersion, VersionRow, Status
    <3>. QED BY <3>1, <3>2, NoneAssumption
  <2>2. /\ version[v] = None /\ version'[v] = NewVersion
        /\ \A x \in Versions : x # v => version'[x] = version[x]
    BY <1>2, <1>t DEF Accepts
  <2>3. /\ st[v] = "absent" /\ st' = [st EXCEPT ![v] = "queued"]
        /\ at' = at /\ oc' = oc
    <3>1. st[v] = "absent" /\ st' = [st EXCEPT ![v] = "queued"]
      BY <2>1, <2>2
    <3>2. at' = at
      BY <2>1, <2>2
    <3>3. oc' = oc
      BY <1>2, <1>o DEF Accepts
    <3>. QED BY <3>1, <3>2, <3>3
  <2>. QED BY <2>3 DEF Lifecycle!LifecycleNext, Lifecycle!Accept, Lifecycle!Move
<1>3. ASSUME NEW v \in Versions, NEW row \in VersionRow, Moves(v, row)
      PROVE  Lifecycle!LifecycleNext
  <2>1. row # None /\ row.attempt_count \in Nat
    BY NoneAssumption DEF VersionRow
  <2>2. /\ version[v] # None /\ version'[v] = row
        /\ \A x \in Versions : x # v => version'[x] = version[x]
    BY <1>3, <1>t DEF Moves
  <2>3. /\ st[v] = version[v].status /\ at[v] = version[v].attempt_count
        /\ st' = [st EXCEPT ![v] = row.status]
        /\ at' = [at EXCEPT ![v] = row.attempt_count]
    BY <2>1, <2>2
  <2>4. CASE Starts(v, row)
    <3>1. /\ st[v] = "queued" /\ at[v] < MaxAttempts
          /\ st' = [st EXCEPT ![v] = "extracting"]
          /\ at' = [at EXCEPT ![v] = at[v] + 1] /\ oc' = oc
      BY <1>o, <2>3, <2>4 DEF Starts
    <3>. QED BY <3>1 DEF Lifecycle!LifecycleNext, Lifecycle!Start, Lifecycle!Move
  <2>5. CASE GivesBack(v, row)
    <3>1. /\ st[v] = "extracting" /\ st' = [st EXCEPT ![v] = "queued"]
          /\ at' = at /\ oc' = oc
      BY <1>o, <2>3, <2>5 DEF GivesBack
    <3>. QED BY <3>1 DEF Lifecycle!LifecycleNext, Lifecycle!GiveBack, Lifecycle!Move
  <2>6. CASE Decides(v, row)
    <3>1. row.status \in AuditEvents /\ row.status \in {"ready", "failed"}
      BY <2>6 DEF Decides, TerminalStatus, AuditEvents
    <3>2. /\ \A x \in Versions : x # v => audit'[x] = audit[x]
          /\ audit'[v][row.status] = audit[v][row.status] + 1
          /\ \A f \in AuditEvents : f # row.status => audit'[v][f] = audit[v][f]
      BY <1>t, <2>6, <3>1, AuditedOK DEF Decides
    <3>3. audit[v]["ready"] \in Nat /\ audit[v]["failed"] \in Nat
      BY <1>t DEF AuditEvents
    <3>4. audit'[v]["ready"] + audit'[v]["failed"] = audit[v]["ready"] + audit[v]["failed"] + 1
      <4>1. CASE row.status = "ready"
        BY <3>2, <3>3, <4>1 DEF AuditEvents
      <4>2. CASE row.status = "failed"
        BY <3>2, <3>3, <4>2 DEF AuditEvents
      <4>. QED BY <3>1, <4>1, <4>2
    <3>5. oc' = [oc EXCEPT ![v] = oc[v] + 1]
      BY <3>2, <3>4
    <3>6. at' = at
      BY <2>3, <2>6 DEF Decides
    <3>7. \/ st[v] = "extracting" /\ st' = [st EXCEPT ![v] = "ready"]
          \/ st[v] = "extracting" /\ st' = [st EXCEPT ![v] = "failed"]
          \/ st[v] = "queued" /\ st' = [st EXCEPT ![v] = "failed"] /\ at[v] >= MaxAttempts
      BY <2>3, <2>6 DEF Decides, TerminalStatus
    <3>. QED BY <3>5, <3>6, <3>7 DEF Lifecycle!LifecycleNext, Lifecycle!Decide, Lifecycle!Move
  <2>. QED BY <1>3, <2>4, <2>5, <2>6 DEF Moves
<1>. QED BY <1>1, <1>2, <1>3 DEF Effect, Progress

\* The pipeline implements the version lifecycle: every behaviour of uploads,
\* workers, relays, operator and broker is, seen through the version rows and
\* the audit events, a behaviour of ADR 0005's state machine.
THEOREM Refinement == Spec => ImplementsLifecycle
<1>1. Init => Lifecycle!LifecycleInit
  <2> SUFFICES ASSUME Init PROVE Lifecycle!LifecycleInit
    OBVIOUS
  <2>1. \A v \in Versions : version[v] = (IF v \in Legacy THEN NewVersion ELSE None)
    BY DEF Init
  <2>2. /\ NewVersion.status = "queued" /\ NewVersion.attempt_count = 0
    BY DEF NewVersion
  <2>3. \A v \in Versions : audit[v]["ready"] + audit[v]["failed"] = 0
    <3>1. "ready" \in AuditEvents /\ "failed" \in AuditEvents
      BY DEF AuditEvents
    <3> SUFFICES ASSUME NEW v \in Versions
                 PROVE  audit[v]["ready"] + audit[v]["failed"] = 0
      OBVIOUS
    <3>2. audit[v]["ready"] = 0 /\ audit[v]["failed"] = 0
      BY <3>1 DEF Init
    <3>. QED BY <3>2
  <2>. QED BY <2>1, <2>2, <2>3 DEF Lifecycle!LifecycleInit
<1>2. IInv /\ [Next]_vars => [Lifecycle!LifecycleNext]_(Lifecycle!lifecycle)
  BY StepEffect, EffectIsLifecycleStep
<1>. QED BY <1>1, <1>2, Invariant, PTL DEF Spec, ImplementsLifecycle, Lifecycle!LifecycleSpec

(***************************************************************************)
(* Counters, final outcomes and leases.                                    *)
(***************************************************************************)
\* The counters of the intent before and after a step.
Counting(i, j) ==
    /\ j.publish_attempts >= i.publish_attempts
    /\ j.recovery_attempts >= i.recovery_attempts
    /\ j.recovery_grants >= i.recovery_grants

\* The holder of v's lease finishes its publication in this step.
HolderFinishes(v) ==
    \E r \in Relays :
        /\ relay[r].pc \in {"finish_ok", "finish_failed"}
        /\ Holds(r).version = v
        /\ Holds(r).token = intent[v].lease_token
        /\ relay'[r].job = None

\* What a step may do to an existing intent.
LEMMA IntentEffect ==
    ASSUME IInv, [Next]_vars, NEW v \in Versions, intent[v] # None
    PROVE  /\ intent'[v] # None => Counting(intent[v], intent'[v])
           /\ LeaseLive(intent[v]) =>
                 /\ intent'[v] # None
                 /\ \/ intent'[v].lease_token = intent[v].lease_token
                    \/ HolderFinishes(v)
<1> DEFINE i == intent[v]
           Goal == /\ intent'[v] # None => Counting(i, intent'[v])
                   /\ LeaseLive(i) =>
                         /\ intent'[v] # None
                         /\ intent'[v].lease_token = i.lease_token \/ HolderFinishes(v)
<1>t. intent \in [Versions -> IntentRow \cup {None}] /\ relay \in [Relays -> RelayState]
  BY DEF IInv, TypeOK, IngestionTypeOK
<1>i. /\ i \in IntentRow /\ IntentOK(v, i)
      /\ i.publish_attempts \in Nat /\ i.recovery_attempts \in Nat
      /\ i.recovery_grants \in Nat
  BY DueFacts DEF IntentRow
<1>s. ASSUME intent'[v] = i PROVE Goal
  BY <1>s, <1>i DEF Counting
<1>1. CASE WorkerNext
  BY <1>1, <1>s DEF WorkerNext, WorkerFrame, Deliver, DeliverBusy, ClaimRefused,
     ClaimResumes, ClaimExhausted, ClaimStarts, Work, MarkReady, MarkFailed,
     DatabaseFault, MarkRetryExhausted, PrepareRetry, PrepareRetryFault, Republish,
     Unlock, WorkerLost, WorkerAborted, LockDropped
<1>2. ASSUME NEW r \in Relays, NEW taken \in SUBSET {x \in Versions : Settleable(x)},
             SettleTerminal(r, taken)
      PROVE  Goal
  <2>1. CASE v \in taken
    <3> DEFINE new == [Settled(i) EXCEPT !.unresolved = FALSE, !.last_error = None]
    <3>1. intent'[v] = new /\ ~ LeaseLive(i)
      BY <1>2, <2>1 DEF SettleTerminal, Settleable
    <3>2. /\ new.publish_attempts = i.publish_attempts
          /\ new.recovery_attempts = i.recovery_attempts
          /\ new.recovery_grants = i.recovery_grants
      BY <1>i DEF Settled, Unleased, IntentRow
    <3> HIDE DEF new
    <3>. QED BY <1>i, <3>1, <3>2 DEF Counting
  <2>2. CASE v \notin taken
    BY <1>2, <1>s, <2>2 DEF SettleTerminal
  <2>. QED BY <2>1, <2>2
<1>3. ASSUME NEW r \in Relays, NEW x \in Versions, ClaimSome(r, x) PROVE Goal
  <2>1. CASE x # v
    <3>1. intent'[v] = intent[v]
      BY <1>3, <1>t, <2>1 DEF ClaimSome, ClaimSettles, ClaimAmbiguous, ClaimPostpones,
         ClaimExhausts, ClaimPublishes
    <3>. QED BY <1>s, <3>1
  <2>2. CASE x = v
    <3>1. ~ LeaseLive(i) /\ i.settled_at = None /\ ~ i.unresolved
      BY <1>3, <2>2 DEF ClaimSome, ClaimSettles, ClaimAmbiguous, ClaimPostpones,
         ClaimExhausts, ClaimPublishes, Due
    <3>2. CASE ClaimSettles(r, v)
      <4>1. intent'[v] = Settled(i)
        BY <1>t, <3>2 DEF ClaimSettles
      <4>2. /\ Settled(i).publish_attempts = i.publish_attempts
            /\ Settled(i).recovery_attempts = i.recovery_attempts
            /\ Settled(i).recovery_grants = i.recovery_grants
        BY <1>i, <3>1, SettledOK
      <4>. QED BY <1>i, <3>1, <4>1, <4>2 DEF Counting
    <3>3. CASE ClaimAmbiguous(r, v) \/ ClaimExhausts(r, v)
      <4>1. PICK e \in IntentErrors : intent'[v] = Unresolved(i, e)
        BY <1>t, <3>3 DEF ClaimAmbiguous, ClaimExhausts, IntentErrors
      <4>2. /\ Unresolved(i, e).publish_attempts = i.publish_attempts
            /\ Unresolved(i, e).recovery_attempts = i.recovery_attempts
            /\ Unresolved(i, e).recovery_grants = i.recovery_grants
        BY <1>i DEF Unresolved, Unleased, IntentRow
      <4>. QED BY <1>i, <3>1, <4>1, <4>2 DEF Counting
    <3>4. CASE ClaimPostpones(r, v)
      <4> DEFINE new == [Unleased(i) EXCEPT !.available_at = version[v].safe_after]
      <4>1. intent'[v] = new
        BY <1>t, <3>4 DEF ClaimPostpones
      <4>2. /\ new.publish_attempts = i.publish_attempts
            /\ new.recovery_attempts = i.recovery_attempts
            /\ new.recovery_grants = i.recovery_grants
        BY <1>i DEF Unleased, IntentRow
      <4> HIDE DEF new
      <4>. QED BY <1>i, <3>1, <4>1, <4>2 DEF Counting
    <3>5. CASE ClaimPublishes(r, v)
      <4>1. intent'[v] = Leased(i) /\ ~ BudgetSpent(i)
        BY <1>t, <3>5 DEF ClaimPublishes
      <4>2. /\ Leased(i).publish_attempts >= i.publish_attempts
            /\ Leased(i).recovery_attempts >= i.recovery_attempts
            /\ Leased(i).recovery_grants = i.recovery_grants
        BY <1>i, <3>1, <4>1, LeasedOK
      <4>. QED BY <1>i, <3>1, <4>1, <4>2 DEF Counting
    <3>. QED BY <1>3, <2>2, <3>2, <3>3, <3>4, <3>5 DEF ClaimSome
  <2>. QED BY <2>1, <2>2
<1>4. ASSUME NEW r \in Relays,
             \/ ClaimNothing(r) \/ RelayAborted(r) \/ Publish(r)
             \/ \E sent \in BOOLEAN : PublishFault(r, sent)
      PROVE  Goal
  BY <1>4, <1>s DEF ClaimNothing, RelayAborted, Publish, PublishFault
<1>5. ASSUME NEW r \in Relays, Finish(r) PROVE Goal
  <2> DEFINE ok == relay[r].pc = "finish_ok"
  <2>1. CASE Holds(r).version = v /\ HoldsLease(i, Holds(r).token)
    <3>1. intent'[v] = Finished(i, ok)
      BY <1>5, <1>t, <2>1 DEF Finish
    <3>2. /\ Finished(i, ok).publish_attempts = i.publish_attempts
          /\ Finished(i, ok).recovery_attempts = i.recovery_attempts
          /\ Finished(i, ok).recovery_grants = i.recovery_grants
      <4> HIDE DEF ok
      <4>. QED BY <1>i DEF Finished, Unleased, IntentRow
    <3>3. HolderFinishes(v)
      <4>1. relay'[r].job = None
        BY <1>5, <1>t DEF Finish, EndTick
      <4>. QED BY <1>5, <2>1, <4>1 DEF HolderFinishes, HoldsLease, Finish
    <3>4. Finished(i, ok) # None
      <4>1. i.lease_token # None
        BY <1>i, <2>1 DEF HoldsLease, LeaseLive, IntentOK
      <4>2. ok \in BOOLEAN
        OBVIOUS
      <4> HIDE DEF ok
      <4>. QED BY <1>i, <4>1, <4>2, FinishedOK, NoneAssumption
    <3>. QED BY <1>i, <3>1, <3>2, <3>3, <3>4 DEF Counting
  <2>2. CASE ~ (Holds(r).version = v /\ HoldsLease(i, Holds(r).token))
    <3>1. intent'[v] = i
      BY <1>5, <1>t, <2>2 DEF Finish
    <3>. QED BY <1>s, <3>1
  <2>. QED BY <2>1, <2>2
<1>6. ASSUME NEW r \in Relays, NEW taken \in SUBSET {x \in Versions : Expired(x)},
             Cleanup(r, taken)
      PROVE  Goal
  <2>1. CASE v \in taken
    <3>1. intent'[v] = None /\ i.lease_token = None
      BY <1>6, <2>1 DEF Cleanup, Expired
    <3>2. ~ LeaseLive(i)
      BY <1>i, <3>1 DEF IntentOK, LeaseLive
    <3>. QED BY <3>1, <3>2
  <2>2. CASE v \notin taken
    BY <1>6, <1>s, <2>2 DEF Cleanup
  <2>. QED BY <2>1, <2>2
<1>7. ASSUME NEW x \in Versions, Rearm(x) PROVE Goal
  <2>1. CASE x = v
    <3>1. intent'[v] = Rearmed(i) /\ ~ LeaseLive(i)
      BY <1>7, <1>t, <2>1 DEF Rearm, Rearmable
    <3>2. /\ Rearmed(i).publish_attempts = i.publish_attempts
          /\ Rearmed(i).recovery_attempts = i.recovery_attempts
          /\ Rearmed(i).recovery_grants = i.recovery_grants + 1
      BY <1>i, ReadiedOK
    <3>. QED BY <1>i, <3>1, <3>2 DEF Counting
  <2>2. CASE x # v
    BY <1>7, <1>t, <1>s, <2>2 DEF Rearm
  <2>. QED BY <2>1, <2>2
<1>8. ASSUME NEW x \in Versions, Backfill(x) PROVE Goal
  BY <1>8, <1>t, <1>s DEF Backfill
<1>9. ASSUME NEW x \in Versions, Upload(x) PROVE Goal
  <2>1. version[v] # None
    BY DueFacts
  <2>2. intent'[v] = i
    BY <1>9, <1>t, <2>1 DEF Upload
  <2>. QED BY <1>s, <2>2
<1>10. CASE (\E w \in Workers : Redeliver(w)) \/ (\E m \in queue : LoseMessage(m))
            \/ UNCHANGED vars
  BY <1>10, <1>s DEF Redeliver, LoseMessage, vars
<1>11. CASE Tick
  <2>1. intent'[v] = IntentLater(i)
    BY <1>11 DEF Tick
  <2>2. /\ IntentLater(i) \in IntentRow /\ IntentLater(i).lease_token = i.lease_token
        /\ IntentLater(i).publish_attempts = i.publish_attempts
        /\ IntentLater(i).recovery_attempts = i.recovery_attempts
        /\ IntentLater(i).recovery_grants = i.recovery_grants
    BY <1>i, IntentLaterOK
  <2>3. IntentLater(i) # None
    BY <2>2, NoneAssumption
  <2>. QED BY <1>i, <2>1, <2>2, <2>3 DEF Counting
<1>. QED
  <2>1. Goal
    BY <1>1, <1>2, <1>3, <1>4, <1>5, <1>6, <1>7, <1>8, <1>9, <1>10, <1>11
       DEF Next, RelayNext, RelayStep
  <2>. QED BY <2>1

\* What a step may do to an existing version.
LEMMA VersionEffect ==
    ASSUME IInv, [Next]_vars, NEW v \in Versions, version[v] # None
    PROVE  /\ version'[v] # None
           /\ version'[v].attempt_count >= version[v].attempt_count
           /\ Terminal(version[v]) => version'[v] = version[v]
<1>t. version \in [Versions -> VersionRow \cup {None}]
  BY DEF IInv, TypeOK, IngestionTypeOK
<1>0. version[v].attempt_count \in Nat
  BY <1>t DEF VersionRow
<1>1. CASE Quiet
  BY <1>0, <1>1 DEF Quiet
<1>2. ASSUME NEW x \in Versions, Accepts(x)
      PROVE  version'[v] = version[v]
  BY <1>t, <1>2 DEF Accepts
<1>3. ASSUME NEW x \in Versions, NEW row \in VersionRow, Moves(x, row), x # v
      PROVE  version'[v] = version[v]
  BY <1>t, <1>3 DEF Moves
<1>4. ASSUME NEW row \in VersionRow, Moves(v, row)
      PROVE  /\ version'[v] # None
             /\ version'[v].attempt_count >= version[v].attempt_count
             /\ ~ Terminal(version[v])
  <2>1. version'[v] = row /\ row # None
    BY <1>t, <1>4, NoneAssumption DEF Moves
  <2>2. row.attempt_count >= version[v].attempt_count /\ ~ Terminal(version[v])
    BY <1>0, <1>4 DEF Moves, Starts, GivesBack, Decides, Terminal, TerminalStatus
  <2>. QED BY <2>1, <2>2
<1>5. Effect
  BY StepEffect
<1>. QED BY <1>0, <1>1, <1>2, <1>3, <1>4, <1>5 DEF Effect, Progress

\* Outcomes are final, and neither attempts nor any counter of an intent is
\* ever reset.
THEOREM Finality == Spec => OutcomeIsFinal
<1>1. IInv /\ [Next]_vars => [\A v \in Versions :
          /\ version[v] # None =>
                /\ version'[v] # None
                /\ version'[v].attempt_count >= version[v].attempt_count
                /\ Terminal(version[v]) => version'[v] = version[v]
          /\ intent[v] # None /\ intent'[v] # None =>
                /\ intent'[v].publish_attempts >= intent[v].publish_attempts
                /\ intent'[v].recovery_attempts >= intent[v].recovery_attempts
                /\ intent'[v].recovery_grants >= intent[v].recovery_grants]_vars
  BY VersionEffect, IntentEffect DEF Counting
<1>. QED BY <1>1, Invariant, PTL DEF Spec, OutcomeIsFinal

\* Fencing: a live lease ends early only by the finish of the relay holding it.
THEOREM LeaseFencing == Spec => LiveLeaseIsRespected
<1>1. IInv /\ [Next]_vars => [\A v \in Versions :
          intent[v] # None /\ LeaseLive(intent[v]) =>
             /\ intent'[v] # None
             /\ \/ intent'[v].lease_token = intent[v].lease_token
                \/ \E r \in Relays :
                      /\ relay[r].pc \in {"finish_ok", "finish_failed"}
                      /\ Holds(r).version = v
                      /\ Holds(r).token = intent[v].lease_token
                      /\ relay'[r].job = None]_vars
  BY IntentEffect DEF HolderFinishes
<1>. QED BY <1>1, Invariant, PTL DEF Spec, LiveLeaseIsRespected

(***************************************************************************)
(* What is accounted for stays so.  That every intent comes to be          *)
(* accounted for is liveness (EventuallyAccounted); that it then remains   *)
(* so is safety, up to the grants of the operator, which are limited.      *)
(***************************************************************************)
\* The operator grants v's exhausted intent one more publication, with no
\* delivery holding v's lock, and the grant is audited (rearm_intent).
Granted(v) ==
    /\ intent[v] # None /\ intent[v].unresolved
    /\ intent[v].last_error = "attempts_exhausted"
    /\ intent[v].recovery_grants < MaxGrants
    /\ ~ Terminal(version[v]) /\ lock[v] = None
    /\ intent'[v].recovery_grants = intent[v].recovery_grants + 1
    /\ audit'[v]["rearmed"] = audit[v]["rearmed"] + 1

\* An intent that was deleted is not brought back by anyone.
LEMMA DeletedStaysDeleted ==
    ASSUME IInv, [Next]_vars, NEW v \in Versions,
           intent[v] = None, version[v] # None, Terminal(version[v])
    PROVE  intent'[v] = None
<1>t. intent \in [Versions -> IntentRow \cup {None}]
  BY DEF IInv, TypeOK, IngestionTypeOK
<1>1. CASE WorkerNext
  BY <1>1 DEF WorkerNext, WorkerFrame, Deliver, DeliverBusy, ClaimRefused,
     ClaimResumes, ClaimExhausted, ClaimStarts, Work, MarkReady, MarkFailed,
     DatabaseFault, MarkRetryExhausted, PrepareRetry, PrepareRetryFault, Republish,
     Unlock, WorkerLost, WorkerAborted, LockDropped
<1>2. ASSUME NEW r \in Relays, NEW taken \in SUBSET {x \in Versions : Settleable(x)},
             SettleTerminal(r, taken)
      PROVE  intent'[v] = None
  BY <1>2 DEF SettleTerminal, Settleable
<1>3. ASSUME NEW r \in Relays, NEW x \in Versions, ClaimSome(r, x)
      PROVE  intent'[v] = None
  BY <1>3, <1>t DEF ClaimSome, ClaimSettles, ClaimAmbiguous, ClaimPostpones,
     ClaimExhausts, ClaimPublishes, Due
<1>4. ASSUME NEW r \in Relays,
             \/ ClaimNothing(r) \/ RelayAborted(r) \/ Publish(r)
             \/ \E sent \in BOOLEAN : PublishFault(r, sent)
      PROVE  intent'[v] = None
  BY <1>4 DEF ClaimNothing, RelayAborted, Publish, PublishFault
<1>5. ASSUME NEW r \in Relays, Finish(r) PROVE intent'[v] = None
  BY <1>5, <1>t DEF Finish, HoldsLease
<1>6. ASSUME NEW r \in Relays, NEW taken \in SUBSET {x \in Versions : Expired(x)},
             Cleanup(r, taken)
      PROVE  intent'[v] = None
  BY <1>6 DEF Cleanup
<1>7. ASSUME NEW x \in Versions, Rearm(x) \/ Backfill(x) \/ Upload(x)
      PROVE  intent'[v] = None
  BY <1>7, <1>t DEF Rearm, Backfill, Upload, Terminal, TerminalStatus
<1>8. CASE (\E w \in Workers : Redeliver(w)) \/ (\E m \in queue : LoseMessage(m))
           \/ UNCHANGED vars
  BY <1>8 DEF Redeliver, LoseMessage, vars
<1>9. CASE Tick
  BY <1>9 DEF Tick, IntentLater
<1>. QED
  BY <1>1, <1>2, <1>3, <1>4, <1>5, <1>6, <1>7, <1>8, <1>9
     DEF Next, RelayNext, RelayStep

\* A settled intent stays settled until it is deleted, and an unresolved one
\* stays unresolved until it is settled or granted a recovery.
LEMMA IntentStaysAccounted ==
    ASSUME IInv, [Next]_vars, NEW v \in Versions, intent[v] # None,
           intent[v].settled_at # None \/ intent[v].unresolved
    PROVE  \/ intent'[v] = None /\ intent[v].settled_at # None
           \/ intent'[v] # None /\ (intent'[v].settled_at # None \/ intent'[v].unresolved)
           \/ Granted(v)
<1> DEFINE i == intent[v]
           Goal == \/ intent'[v] = None /\ i.settled_at # None
                   \/ /\ intent'[v] # None
                      /\ intent'[v].settled_at # None \/ intent'[v].unresolved
                   \/ Granted(v)
<1>t. /\ intent \in [Versions -> IntentRow \cup {None}]
      /\ audit \in [Versions -> [AuditEvents -> Nat]]
  BY DEF IInv, TypeOK, IngestionTypeOK
<1>i. i \in IntentRow /\ IntentOK(v, i)
  BY DueFacts
<1>s. ASSUME intent'[v] = i PROVE Goal
  BY <1>s
<1>1. CASE WorkerNext
  BY <1>1, <1>s DEF WorkerNext, WorkerFrame, Deliver, DeliverBusy, ClaimRefused,
     ClaimResumes, ClaimExhausted, ClaimStarts, Work, MarkReady, MarkFailed,
     DatabaseFault, MarkRetryExhausted, PrepareRetry, PrepareRetryFault, Republish,
     Unlock, WorkerLost, WorkerAborted, LockDropped
<1>2. ASSUME NEW r \in Relays, NEW taken \in SUBSET {x \in Versions : Settleable(x)},
             SettleTerminal(r, taken)
      PROVE  Goal
  <2>1. CASE v \in taken
    <3> DEFINE new == [Settled(i) EXCEPT !.unresolved = FALSE, !.last_error = None]
    <3>1. intent'[v] = new /\ i.settled_at = None
      BY <1>2, <2>1 DEF SettleTerminal, Settleable
    <3>2. Settled(i).settled_at = RetentionSeconds /\ new.settled_at = Settled(i).settled_at
      BY <1>i DEF Settled, Unleased, IntentRow
    <3>3. new \in IntentRow
      <4>1. i.unresolved /\ ~ Settled(i).unresolved => FALSE
        BY <1>i, UnleasedOK DEF Settled, IntentRow
      <4>2. new.unresolved = FALSE
        BY <1>i DEF Settled, Unleased, IntentRow
      <4>3. new # Settled(i)
        BY <3>1, <4>1, <4>2
      <4>. QED BY <1>i, <4>3, SettledOK
    <3> HIDE DEF new
    <3>. QED BY <3>1, <3>2, <3>3, ConstantsAssumption, NoneAssumption
  <2>2. CASE v \notin taken
    BY <1>2, <1>s, <2>2 DEF SettleTerminal
  <2>. QED BY <2>1, <2>2
<1>3. ASSUME NEW r \in Relays, NEW x \in Versions, ClaimSome(r, x) PROVE Goal
  <2>1. x # v
    BY <1>3 DEF ClaimSome, ClaimSettles, ClaimAmbiguous, ClaimPostpones,
       ClaimExhausts, ClaimPublishes, Due
  <2>2. intent'[v] = intent[v]
    BY <1>3, <1>t, <2>1 DEF ClaimSome, ClaimSettles, ClaimAmbiguous, ClaimPostpones,
       ClaimExhausts, ClaimPublishes
  <2>. QED BY <1>s, <2>2
<1>4. ASSUME NEW r \in Relays,
             \/ ClaimNothing(r) \/ RelayAborted(r) \/ Publish(r)
             \/ \E sent \in BOOLEAN : PublishFault(r, sent)
      PROVE  Goal
  BY <1>4, <1>s DEF ClaimNothing, RelayAborted, Publish, PublishFault
<1>5. ASSUME NEW r \in Relays, Finish(r) PROVE Goal
  <2> DEFINE ok == relay[r].pc = "finish_ok"
  <2>1. CASE Holds(r).version = v /\ HoldsLease(i, Holds(r).token)
    <3>1. intent'[v] = Finished(i, ok)
      BY <1>5, <1>t, <2>1 DEF Finish
    <3>2. i.lease_token # None
      BY <1>i, <2>1 DEF HoldsLease, LeaseLive, IntentOK
    <3>3. i.settled_at # None
      BY <1>i, <3>2 DEF IntentOK
    <3>4. Finished(i, ok).settled_at = i.settled_at /\ Finished(i, ok) # None
      <4>1. ok \in BOOLEAN
        OBVIOUS
      <4> HIDE DEF ok
      <4>2. Finished(i, ok).settled_at = i.settled_at
        BY <1>i DEF Finished, Unleased, IntentRow
      <4>. QED BY <1>i, <3>2, <4>1, <4>2, FinishedOK, NoneAssumption
    <3>. QED BY <3>1, <3>3, <3>4
  <2>2. CASE ~ (Holds(r).version = v /\ HoldsLease(i, Holds(r).token))
    <3>1. intent'[v] = i
      BY <1>5, <1>t, <2>2 DEF Finish
    <3>. QED BY <1>s, <3>1
  <2>. QED BY <2>1, <2>2
<1>6. ASSUME NEW r \in Relays, NEW taken \in SUBSET {x \in Versions : Expired(x)},
             Cleanup(r, taken)
      PROVE  Goal
  <2>1. CASE v \in taken
    <3>1. intent'[v] = None /\ i.settled_at # None
      BY <1>6, <2>1, NoneAssumption DEF Cleanup, Expired
    <3>. QED BY <3>1
  <2>2. CASE v \notin taken
    BY <1>6, <1>s, <2>2 DEF Cleanup
  <2>. QED BY <2>1, <2>2
<1>7. ASSUME NEW x \in Versions, Rearm(x) PROVE Goal
  <2>1. CASE x = v
    <3>1. /\ intent'[v] = Rearmed(i) /\ Rearmable(i, version[v]) /\ lock[v] = None
          /\ audit'[v]["rearmed"] = audit[v]["rearmed"] + 1
      BY <1>7, <1>t, <2>1 DEF Rearm, Audited, AuditEvents
    <3>2. Rearmed(i).recovery_grants = i.recovery_grants + 1
      BY <1>i, ReadiedOK
    <3>. QED BY <3>1, <3>2 DEF Granted, Rearmable
  <2>2. CASE x # v
    BY <1>7, <1>t, <1>s, <2>2 DEF Rearm
  <2>. QED BY <2>1, <2>2
<1>8. ASSUME NEW x \in Versions, Backfill(x) \/ Upload(x) PROVE Goal
  <2>1. version[v] # None
    BY DueFacts
  <2>2. intent'[v] = i
    BY <1>8, <1>t, <2>1 DEF Upload, Backfill
  <2>. QED BY <1>s, <2>2
<1>9. CASE (\E w \in Workers : Redeliver(w)) \/ (\E m \in queue : LoseMessage(m))
           \/ UNCHANGED vars
  BY <1>9, <1>s DEF Redeliver, LoseMessage, vars
<1>10. CASE Tick
  <2>1. intent'[v] = IntentLater(i)
    BY <1>10 DEF Tick
  <2>2. /\ IntentLater(i) \in IntentRow
        /\ IntentLater(i).settled_at = None <=> i.settled_at = None
    BY <1>i, IntentLaterOK
  <2>3. IntentLater(i).unresolved = i.unresolved
    BY <1>i, NoneAssumption DEF IntentLater, IntentRow
  <2>. QED BY <2>1, <2>2, <2>3, NoneAssumption
<1>. QED
  <2>1. Goal
    BY <1>1, <1>2, <1>3, <1>4, <1>5, <1>6, <1>7, <1>8, <1>9, <1>10
       DEF Next, RelayNext, RelayStep
  <2>. QED BY <2>1

\* An intent that was settled, given up on or deleted after its retention
\* never silently becomes pending again: the one thing that takes it back into
\* the relay's care is a grant of the operator, which is audited, needs an
\* exhausted intent of an undecided version that no delivery holds, and can be
\* had MaxGrants times only (settle_terminal, claim, finish, cleanup,
\* rearm_intent, backfill).
THEOREM AccountedUnlessGranted ==
    Spec => [][\A v \in Versions : Accounted(v) => Accounted(v)' \/ Granted(v)]_vars
<1>1. ASSUME IInv, [Next]_vars, NEW v \in Versions, Accounted(v)
      PROVE  Accounted(v)' \/ Granted(v)
  <2>1. CASE intent[v] = None
    <3>1. version[v] # None /\ Terminal(version[v])
      BY <1>1, <2>1 DEF Accounted
    <3>2. intent'[v] = None /\ version'[v] = version[v]
      BY <1>1, <2>1, <3>1, DeletedStaysDeleted, VersionEffect
    <3>. QED BY <3>1, <3>2 DEF Accounted, Terminal
  <2>2. CASE intent[v] # None
    <3>1. intent[v].settled_at # None \/ intent[v].unresolved
      BY <1>1, <2>2 DEF Accounted
    <3>2. CASE intent'[v] = None /\ intent[v].settled_at # None
      <4>1. version[v] # None /\ Terminal(version[v])
        BY <1>1, <2>2, <3>2, DueFacts DEF IInv, Agreement
      <4>2. version'[v] = version[v]
        BY <1>1, <4>1, VersionEffect
      <4>. QED BY <3>2, <4>1, <4>2 DEF Accounted, Terminal
    <3>3. CASE intent'[v] # None /\ (intent'[v].settled_at # None \/ intent'[v].unresolved)
      BY <3>3 DEF Accounted
    <3>. QED BY <1>1, <2>2, <3>1, <3>2, <3>3, IntentStaysAccounted
  <2>. QED BY <2>1, <2>2
<1>2. IInv /\ [Next]_vars =>
         [\A v \in Versions : Accounted(v) => Accounted(v)' \/ Granted(v)]_vars
  BY <1>1
<1>. QED BY <1>2, Invariant, PTL DEF Spec

(***************************************************************************)
(* The advisory lock.  While its connection holds, a delivery runs alone   *)
(* on its version from the moment it has the lock to the moment it ends.   *)
(***************************************************************************)
LockHeld == \A w \in Workers : worker[w].pc # "idle" => lock[Job(w).version] = w

\* What the version's row and the rest of the state look like to a delivery
\* when another process takes a step: the row keeps status and owner.
SameOwner(v) ==
    /\ version'[v].status = version[v].status
    /\ version'[v].processing_task_id = version[v].processing_task_id

\* A worker's step concerns its own position, and the lock and the row of the
\* version it delivers.
LEMMA WorkerLocality ==
    ASSUME LockCanDrop = FALSE, IInv, LockHeld, WorkerNext
    PROVE  /\ LockHeld'
           /\ ClaimStillHeld => ClaimStillHeld'
<1> USE DEF WorkerFrame
<1>0. PICK w \in Workers :
        \/ \E m \in queue : Deliver(w, m) \/ DeliverBusy(w, m)
        \/ ClaimRefused(w) \/ ClaimResumes(w)
        \/ \E reported \in BOOLEAN :
              \/ ClaimExhausted(w, reported)
              \/ \E left \in SkewedDeadlines : ClaimStarts(w, left, reported)
              \/ MarkReady(w, reported) \/ MarkFailed(w, reported)
        \/ \E next \in WorkerPC : Work(w, next)
        \/ DatabaseFault(w)
        \/ MarkRetryExhausted(w) \/ PrepareRetry(w) \/ PrepareRetryFault(w)
        \/ Republish(w) \/ Unlock(w)
        \/ WorkerLost(w) \/ WorkerAborted(w) \/ LockDropped(w)
  BY DEF WorkerNext
<1> DEFINE Late == {"work", "mark_ready", "mark_failed"}
           v == Job(w).version
<1>t. /\ worker \in [Workers -> WorkerState] /\ lock \in [Versions -> Workers \cup {None}]
      /\ version \in [Versions -> VersionRow \cup {None}]
  BY DEF IInv, TypeOK, IngestionTypeOK
<1>j. \A x \in Workers : worker[x].pc # "idle" => Job(x).version \in Versions
  BY JobFacts
\* A delivery goes on: the others are busy with other versions.
<1>g. ASSUME NEW pc, worker[w].pc # "idle", Goto(w, pc), lock' = lock,
             \A x \in Versions : x # v => version'[x] = version[x],
             pc \in Late => OwnedExtraction(version'[v], Job(w).task_id) \/ ~ ClaimStillHeld
      PROVE  LockHeld' /\ (ClaimStillHeld => ClaimStillHeld')
  <2>1. /\ worker'[w].pc = pc /\ worker'[w].job = worker[w].job
        /\ \A x \in Workers : x # w => worker'[x] = worker[x]
    BY <1>g, <1>t DEF Goto, WorkerState
  <2>2. LockHeld'
    BY <1>g, <2>1 DEF LockHeld, Job
  <2>3. ASSUME ClaimStillHeld, NEW x \in Workers, worker'[x].pc \in Late
        PROVE  OwnedExtraction(version'[worker'[x].job.version], worker'[x].job.task_id)
    <3>1. CASE x = w
      BY <1>g, <2>1, <2>3, <3>1 DEF Job
    <3>2. CASE x # w
      <4>1. worker'[x] = worker[x] /\ worker[x].pc # "idle"
        BY <2>1, <2>3, <3>2
      <4>2. Job(x).version # v /\ Job(x).version \in Versions
        BY <1>g, <1>j, <3>2, <4>1 DEF LockHeld
      <4>. QED BY <1>g, <2>3, <4>1, <4>2 DEF ClaimStillHeld, Job
    <3>. QED BY <3>1, <3>2
  <2>. QED BY <2>2, <2>3 DEF ClaimStillHeld, Job
\* A delivery ends and gives its lock back.
<1>e. ASSUME worker[w].pc # "idle", EndDelivery(w), version' = version
      PROVE  LockHeld' /\ (ClaimStillHeld => ClaimStillHeld')
  <2>1. /\ worker'[w].pc = "idle"
        /\ \A x \in Workers : x # w => worker'[x] = worker[x]
        /\ \A x \in Versions : x # v => lock'[x] = lock[x]
    BY <1>e, <1>t DEF EndDelivery
  <2>2. \A x \in Workers : x # w /\ worker[x].pc # "idle" => Job(x).version # v
    BY <1>e DEF LockHeld
  <2>3. LockHeld'
    BY <1>j, <2>1, <2>2 DEF LockHeld, Job
  <2>4. ClaimStillHeld => ClaimStillHeld'
    BY <1>e, <2>1 DEF ClaimStillHeld, Job
  <2>. QED BY <2>3, <2>4
<1>1. ASSUME NEW m \in queue, Deliver(w, m)
      PROVE  LockHeld' /\ (ClaimStillHeld => ClaimStillHeld')
  <2>1. /\ worker'[w].pc = "claim" /\ worker'[w].job = m /\ m \in Message
        /\ \A x \in Workers : x # w => worker'[x] = worker[x]
        /\ m.version \in Versions /\ lock[m.version] = None /\ lock'[m.version] = w
        /\ \A x \in Versions : x # m.version => lock'[x] = lock[x]
        /\ version' = version
    BY <1>1, <1>t DEF Deliver, IInv, TypeOK, IngestionTypeOK, Message
  <2>2. \A x \in Workers : worker[x].pc # "idle" => Job(x).version # m.version
    BY <2>1, NoneAssumption DEF LockHeld
  <2>3. LockHeld'
    BY <1>j, <2>1, <2>2 DEF LockHeld, Job
  <2>4. ClaimStillHeld => ClaimStillHeld'
    BY <2>1 DEF ClaimStillHeld, Job
  <2>. QED BY <2>3, <2>4
<1>2. ASSUME NEW m \in queue, DeliverBusy(w, m)
      PROVE  LockHeld' /\ (ClaimStillHeld => ClaimStillHeld')
  BY <1>2 DEF DeliverBusy, LockHeld, ClaimStillHeld, Job
<1>3. CASE Unlock(w) \/ WorkerLost(w) \/ WorkerAborted(w)
  BY <1>3, <1>e DEF Unlock, WorkerLost, WorkerAborted
<1>4. CASE ClaimRefused(w) \/ DatabaseFault(w) \/ PrepareRetryFault(w) \/ Republish(w)
  BY <1>4, <1>g DEF ClaimRefused, DatabaseFault, PrepareRetryFault, Republish
<1>5. CASE ClaimResumes(w)
  BY <1>5, <1>g DEF ClaimResumes
<1>6. ASSUME NEW next \in WorkerPC, Work(w, next)
      PROVE  LockHeld' /\ (ClaimStillHeld => ClaimStillHeld')
  BY <1>6, <1>g DEF Work, ClaimStillHeld
<1>7. ASSUME NEW reported \in BOOLEAN,
             ClaimExhausted(w, reported) \/ MarkReady(w, reported) \/ MarkFailed(w, reported)
      PROVE  LockHeld' /\ (ClaimStillHeld => ClaimStillHeld')
  <2>1. /\ worker[w].pc # "idle" /\ lock' = lock
        /\ Goto(w, IF reported THEN "unlock" ELSE "retry")
        /\ \A x \in Versions : x # v => version'[x] = version[x]
    BY <1>7, <1>t DEF ClaimExhausted, MarkReady, MarkFailed
  <2>. QED BY <1>g, <2>1
<1>8. CASE MarkRetryExhausted(w) \/ PrepareRetry(w)
  <2>1. /\ worker[w].pc # "idle" /\ lock' = lock
        /\ Goto(w, "unlock") \/ Goto(w, "republish")
        /\ \A x \in Versions : x # v => version'[x] = version[x]
    BY <1>8, <1>t DEF MarkRetryExhausted, PrepareRetry
  <2>. QED BY <1>g, <2>1
<1>9. ASSUME NEW reported \in BOOLEAN, NEW left \in SkewedDeadlines,
             ClaimStarts(w, left, reported)
      PROVE  LockHeld' /\ (ClaimStillHeld => ClaimStillHeld')
  <2> DEFINE new == Extracting(version[v], Job(w).task_id, left)
  <2>1. /\ worker[w].pc # "idle" /\ lock' = lock
        /\ Goto(w, IF reported THEN "work" ELSE "retry")
        /\ version' = [version EXCEPT ![v] = new]
    BY <1>9 DEF ClaimStarts
  <2>2. v \in Versions /\ version[v] \in VersionRow
    BY <2>1, JobFacts
  <2>3. OwnedExtraction(new, Job(w).task_id)
    BY <2>2 DEF Extracting, OwnedExtraction, VersionRow
  <2> HIDE DEF new
  <2>4. version'[v] = new /\ \A x \in Versions : x # v => version'[x] = version[x]
    BY <1>t, <2>1, <2>2
  <2>. QED BY <1>g, <2>1, <2>3, <2>4
<1>10. ~ LockDropped(w)
  BY DEF LockDropped
<1>. QED BY <1>0, <1>1, <1>2, <1>3, <1>4, <1>5, <1>6, <1>7, <1>8, <1>9, <1>10

\* The relay, the operator, uploads, the broker and time leave the lock, the
\* deliveries and the owner of a version alone.
LEMMA OthersKeepOwner ==
    ASSUME IInv, [Next]_vars, ~ WorkerNext
    PROVE  /\ worker' = worker /\ lock' = lock
           /\ \A v \in Versions : version[v] # None => SameOwner(v)
<1>t. version \in [Versions -> VersionRow \cup {None}]
  BY DEF IInv, TypeOK, IngestionTypeOK
<1>1. CASE RelayNext
  BY <1>1 DEF RelayNext, RelayStep, RelayAborted, SettleTerminal, ClaimNothing,
     ClaimSome, ClaimSettles, ClaimAmbiguous, ClaimPostpones, ClaimExhausts,
     ClaimPublishes, Publish, PublishFault, Finish, Cleanup, Rearm, Backfill,
     RelayFrame, SameOwner
<1>2. ASSUME NEW v \in Versions, Upload(v)
      PROVE  /\ worker' = worker /\ lock' = lock
             /\ \A x \in Versions : version[x] # None => SameOwner(x)
  <2>1. /\ version[v] = None /\ version' = [version EXCEPT ![v] = NewVersion]
        /\ worker' = worker /\ lock' = lock
    BY <1>2 DEF Upload
  <2>. QED BY <1>t, <2>1 DEF SameOwner
<1>3. CASE Tick
  <2>1. /\ worker' = worker /\ lock' = lock
        /\ \A v \in Versions : version'[v] = VersionLater(version[v])
    BY <1>3 DEF Tick
  <2>2. ASSUME NEW v \in Versions, version[v] # None PROVE SameOwner(v)
    <3>1. version[v] \in VersionRow
      BY <1>t, <2>2
    <3>. QED BY <2>1, <3>1, VersionLaterOK DEF SameOwner
  <2>. QED BY <2>1, <2>2
<1>4. CASE (\E w \in Workers : Redeliver(w)) \/ (\E m \in queue : LoseMessage(m))
           \/ UNCHANGED vars
  BY <1>4 DEF Redeliver, LoseMessage, vars, SameOwner
<1>. QED BY <1>1, <1>2, <1>3, <1>4 DEF Next

\* While the lock's connection holds (delivery_lock), a worker that writes an
\* outcome still owns the extraction it claimed, whatever was delivered,
\* published or recovered in the meantime.
THEOREM ClaimsHeld ==
    ASSUME LockCanDrop = FALSE
    PROVE  Spec => []ClaimStillHeld
<1>1. ASSUME Init PROVE LockHeld /\ ClaimStillHeld
  <2>1. ASSUME NEW w \in Workers PROVE worker[w].pc = "idle"
    <3>1. worker[w] = [pc |-> "idle", job |-> None]
      BY <1>1 DEF Init
    <3>. QED BY <3>1
  <2>2. LockHeld
    BY <2>1 DEF LockHeld
  <2>3. ClaimStillHeld
    BY <2>1 DEF ClaimStillHeld
  <2>. QED BY <2>2, <2>3
<1>2. ASSUME IInv, LockHeld, ClaimStillHeld, [Next]_vars
      PROVE  LockHeld' /\ ClaimStillHeld'
  <2>1. CASE WorkerNext
    BY <1>2, <2>1, WorkerLocality
  <2>2. CASE ~ WorkerNext
    <3>1. /\ worker' = worker /\ lock' = lock
          /\ \A v \in Versions : version[v] # None => SameOwner(v)
      BY <1>2, <2>2, OthersKeepOwner
    <3>2. LockHeld'
      BY <1>2, <3>1 DEF LockHeld, Job
    <3>3. ASSUME NEW w \in Workers, worker'[w].pc \in {"work", "mark_ready", "mark_failed"}
          PROVE  OwnedExtraction(version'[worker'[w].job.version], worker'[w].job.task_id)
      <4>1. /\ Job(w).version \in Versions /\ version[Job(w).version] # None
            /\ OwnedExtraction(version[Job(w).version], Job(w).task_id)
        BY <1>2, <3>1, <3>3, JobFacts DEF ClaimStillHeld
      <4>. QED BY <3>1, <4>1 DEF OwnedExtraction, SameOwner, Job
    <3>. QED BY <3>2, <3>3 DEF ClaimStillHeld, Job
  <2>. QED BY <2>1, <2>2
<1>. QED BY <1>1, <1>2, Invariant, PTL DEF Spec

(***************************************************************************)
(* Uploads composed with the pipeline: the composition implements the      *)
(* pipeline, so the theorems about it carry over, and a version keeps the  *)
(* object it was uploaded with.                                            *)
(***************************************************************************)
LEMMA UploadStepIsPipelineStep ==
    [UploadNext]_uploadVars => [Next]_vars
<1>1. CASE UNCHANGED uploadVars
  BY <1>1 DEF uploadVars, vars
<1>2. CASE PipelineStep
  BY <1>2 DEF PipelineStep, Next
<1>3. ASSUME NEW v \in Versions, UploadStep(v) PROVE [Next]_vars
  BY <1>3 DEF UploadStep, Stage, Put, Commit, CommitFails, Compensate, Reject, ApiDies,
              Next
<1>. QED BY <1>1, <1>2, <1>3 DEF UploadNext

\* Every behaviour of the composition (create_upload, storage, workers, relays)
\* is a behaviour of the pipeline.
THEOREM UploadRefinement == UploadSpec => ImplementsIngestion
<1>1. UploadInit => Init
  BY DEF UploadInit
<1>. QED BY <1>1, UploadStepIsPipelineStep, PTL DEF UploadSpec, Spec, ImplementsIngestion

LEMMA NewVersionOK == NewVersion # None
BY NoneAssumption DEF NewVersion, VersionRow, Status, TaskIds, ErrorCodes

\* Only an upload brings a version into being, and nothing removes one.
LEMMA VersionsStay ==
    ASSUME IInv, PipelineStep, NEW v \in Versions
    PROVE  version'[v] = None <=> version[v] = None
<1>1. CASE WorkerNext
  <2>1. CASE Quiet
    BY <2>1 DEF Quiet
  <2>2. ASSUME NEW x \in Versions, NEW row \in VersionRow, Moves(x, row)
        PROVE  version'[v] = None <=> version[v] = None
    <3>1. version \in [Versions -> VersionRow \cup {None}] /\ row # None
      BY NoneAssumption DEF IInv, TypeOK, IngestionTypeOK
    <3>. QED BY <2>2, <3>1 DEF Moves
  <2>. QED BY <1>1, <2>1, <2>2, WorkerEffect DEF Progress
<1>2. CASE RelayNext
  <2>1. version' = version
    BY <1>2 DEF RelayNext, RelayStep, RelayAborted, SettleTerminal, ClaimNothing,
       ClaimSome, ClaimSettles, ClaimAmbiguous, ClaimPostpones, ClaimExhausts,
       ClaimPublishes, Publish, PublishFault, Finish, Cleanup, Rearm, Backfill,
       RelayFrame
  <2>. QED BY <2>1
<1>3. CASE (\E w \in Workers : Redeliver(w)) \/ (\E m \in queue : LoseMessage(m))
  BY <1>3 DEF Redeliver, LoseMessage
<1>4. CASE Tick
  <2>1. version'[v] = VersionLater(version[v])
    BY <1>4 DEF Tick
  <2>2. CASE version[v] = None
    BY <2>1, <2>2 DEF VersionLater
  <2>3. CASE version[v] # None
    <3>1. version[v] \in VersionRow /\ VersionOK(v, version[v])
      BY <2>3 DEF IInv, TypeOK, IngestionTypeOK, Rows
    <3>. QED BY <2>1, <2>3, <3>1, VersionLaterOK, NoneAssumption
  <2>. QED BY <2>2, <2>3
<1>. QED BY <1>1, <1>2, <1>3, <1>4 DEF PipelineStep

(***************************************************************************)
(* The inductive invariant: there is no version before the commit, and its *)
(* object is there from the put on, unless the upload came to its          *)
(* compensation.                                                           *)
(***************************************************************************)
UploadInv ==
    /\ stored \in [Versions -> BOOLEAN]
    /\ upload \in [Versions -> UploadPC]
    /\ \A v \in Versions :
          /\ upload[v] = "commit" => stored[v]
          /\ upload[v] = "accepted" => version[v] # None /\ stored[v]
          /\ upload[v] \in {"none", "put", "commit"} => version[v] = None
          /\ version[v] # None /\ ~ stored[v] => upload[v] \in Compensated

LEMMA UploadInvInit == UploadInit => UploadInv
<1> SUFFICES ASSUME UploadInit PROVE UploadInv
  OBVIOUS
<1>1. \A v \in Versions : version[v] = (IF v \in Legacy THEN NewVersion ELSE None)
  BY DEF UploadInit, Init
<1>2. NewVersion # None
  BY NewVersionOK
<1>3. stored \in [Versions -> BOOLEAN] /\ upload \in [Versions -> UploadPC]
  BY DEF UploadInit, UploadPC, Answer
<1>4. ASSUME NEW v \in Versions
      PROVE  /\ upload[v] = "commit" => stored[v]
             /\ upload[v] = "accepted" => version[v] # None /\ stored[v]
             /\ upload[v] \in {"none", "put", "commit"} => version[v] = None
             /\ version[v] # None => stored[v]
  BY <1>1, <1>2, <1>4 DEF UploadInit
<1>. QED BY <1>3, <1>4 DEF UploadInv

LEMMA UploadInvStep ==
    ASSUME IInv, UploadInv, [UploadNext]_uploadVars
    PROVE  UploadInv'
<1>t. /\ stored \in [Versions -> BOOLEAN] /\ upload \in [Versions -> UploadPC]
      /\ version \in [Versions -> VersionRow \cup {None}]
  BY DEF UploadInv, IInv, TypeOK, IngestionTypeOK
<1>1. CASE UNCHANGED uploadVars
  BY <1>1 DEF UploadInv, uploadVars
<1>2. CASE PipelineStep
  <2>1. stored' = stored /\ upload' = upload
    BY <1>2 DEF PipelineStep
  <2>2. \A v \in Versions : version'[v] = None <=> version[v] = None
    BY <1>2, VersionsStay
  <2>. QED BY <2>1, <2>2 DEF UploadInv
<1>3. ASSUME NEW v \in Versions, UploadStep(v) PROVE UploadInv'
  <2>1. ASSUME NEW valid \in BOOLEAN, Stage(v, valid) PROVE UploadInv'
    BY <1>t, <2>1 DEF Stage, UploadGoto, UploadInv, UploadPC, Answer, Compensated,
                      vars
  <2>2. ASSUME NEW effect \in BOOLEAN, NEW reported \in BOOLEAN,
               Put(v, effect, reported)
        PROVE  UploadInv'
    BY <1>t, <2>2 DEF Put, UploadGoto, UploadInv, UploadPC, Answer, Compensated,
                      vars
  <2>3. ASSUME NEW reported \in BOOLEAN, Commit(v, reported) PROVE UploadInv'
    <3>1. /\ version' = [version EXCEPT ![v] = NewVersion] /\ NewVersion # None
          /\ upload[v] = "commit" /\ stored' = stored
          /\ upload' = [upload EXCEPT ![v] =
                          IF reported THEN "accepted" ELSE "compensate"]
      BY <2>3, NewVersionOK DEF Commit, Upload, UploadGoto
    <3>. QED BY <1>t, <3>1 DEF UploadInv, UploadPC, Answer, Compensated
  <2>4. CASE CommitFails(v) \/ Reject(v) \/ ApiDies(v)
    BY <1>t, <2>4 DEF CommitFails, Reject, ApiDies, UploadGoto, UploadInv, UploadPC,
                      Answer, Compensated, vars
  <2>5. ASSUME NEW effect \in BOOLEAN, Compensate(v, effect) PROVE UploadInv'
    BY <1>t, <2>5 DEF Compensate, UploadGoto, UploadInv, UploadPC, Answer, Compensated,
                      vars
  <2>. QED BY <1>3, <2>1, <2>2, <2>3, <2>4, <2>5 DEF UploadStep
<1>. QED BY <1>1, <1>2, <1>3 DEF UploadNext

\* The invariant of the composition, with that of the pipeline.
THEOREM UploadInvariant == UploadSpec => [](IInv /\ UploadInv)
<1>1. UploadSpec => []IInv
  BY UploadRefinement, Invariant, PTL DEF ImplementsIngestion
<1>2. UploadSpec => [][UploadNext]_uploadVars /\ UploadInit
  BY PTL DEF UploadSpec
<1>. QED BY <1>1, <1>2, UploadInvInit, UploadInvStep, PTL

\* An upload answered with 202 has its version and its object, for ever
\* (create_upload): also when commits and answers of others are lost.
THEOREM AcceptedKeepsObject == UploadSpec => []AcceptedHasObject
<1>1. UploadInv => AcceptedHasObject
  BY DEF UploadInv, AcceptedHasObject
<1>. QED BY <1>1, UploadInvariant, PTL

\* Only an upload whose commit reported an error and that came through its
\* compensation can have left a version without its object (create_upload,
\* _delete_after_failed_persistence): a crash anywhere else leaves the object.
THEOREM VersionKeepsObject == UploadSpec => []OnlyFailedUploadLacksObject
<1>1. UploadInv => OnlyFailedUploadLacksObject
  BY DEF UploadInv, OnlyFailedUploadLacksObject
<1>. QED BY <1>1, UploadInvariant, PTL

\* Whatever the pipeline promises, it promises with uploads that fail, die or
\* are answered wrongly, and with objects that are missing or cannot be read.
THEOREM PipelineWithUploads ==
    UploadSpec => /\ [](AuditMatchesStatus /\ OwnedWhileExtracting /\ AttemptBudget)
                  /\ [](NoIntentForgotten /\ PublicationBudget /\ UnresolvedIsExplained)
                  /\ OutcomeIsFinal /\ LiveLeaseIsRespected /\ ImplementsLifecycle
<1>1. UploadSpec => Spec
  BY UploadRefinement DEF ImplementsIngestion
<1>. QED
  BY <1>1, AuditCorrect, OwnershipCorrect, AttemptsBounded, NothingForgotten,
     PublicationsBounded, UnresolvedExplained, Finality, LeaseFencing, Refinement, PTL

\* Whoever was told 202 is never forgotten (create_upload, the relay and the
\* worker together): the version either has its outcome, audited once, or has
\* an intent that is not settled and that the relay is working on or has
\* surfaced as unresolved; and its object can be read.
THEOREM AcceptedNeverForgotten ==
    UploadSpec => [](\A v \in Versions : upload[v] = "accepted" /\ v \notin Legacy =>
        /\ version[v] # None /\ stored[v]
        /\ \/ Terminal(version[v]) /\ audit[v]["ready"] + audit[v]["failed"] = 1
           \/ intent[v] # None /\ intent[v].settled_at = None)
<1> DEFINE Kept(v) ==
        /\ version[v] # None /\ stored[v]
        /\ \/ Terminal(version[v]) /\ audit[v]["ready"] + audit[v]["failed"] = 1
           \/ intent[v] # None /\ intent[v].settled_at = None
<1>1. ASSUME IInv, UploadInv, NEW v \in Versions, upload[v] = "accepted", v \notin Legacy
      PROVE  Kept(v)
  <2>1. version[v] # None /\ stored[v]
    BY <1>1 DEF UploadInv
  <2>2. CASE Terminal(version[v])
    <3>1. /\ audit[v]["ready"] = (IF version[v].status = "ready" THEN 1 ELSE 0)
          /\ audit[v]["failed"] = (IF version[v].status = "failed" THEN 1 ELSE 0)
      BY <1>1, <2>1 DEF IInv, Agreement
    <3>. QED BY <2>1, <2>2, <3>1 DEF Terminal, TerminalStatus
  <2>3. CASE ~ Terminal(version[v])
    BY <1>1, <2>1, <2>3 DEF IInv, Agreement
  <2>. QED BY <2>2, <2>3
<1>2. IInv /\ UploadInv =>
         \A v \in Versions : upload[v] = "accepted" /\ v \notin Legacy => Kept(v)
  BY <1>1
<1>. QED BY <1>2, UploadInvariant, PTL

(***************************************************************************)
(* The roll-back the review promises, FailedUploadIsRolledBack, does not   *)
(* hold.  What breaks it is the commit that takes effect and reports an    *)
(* error, and nothing else: with honest commits it holds.                  *)
(***************************************************************************)
\* No commit that reported an error took effect in this step.
HonestCommit ==
    \A v \in Versions :
        upload[v] = "commit" /\ upload'[v] = "compensate" => version'[v] = None

NoRowsToCompensate ==
    \A v \in Versions :
        upload[v] \in {"compensate"} \cup Compensated => version[v] = None

LEMMA NoRowsStep ==
    ASSUME IInv, UploadInv, NoRowsToCompensate, [UploadNext]_uploadVars,
           [HonestCommit]_uploadVars
    PROVE  NoRowsToCompensate'
<1>t. /\ upload \in [Versions -> UploadPC]
      /\ version \in [Versions -> VersionRow \cup {None}]
  BY DEF UploadInv, IInv, TypeOK, IngestionTypeOK
<1>1. CASE UNCHANGED uploadVars
  BY <1>1 DEF NoRowsToCompensate, uploadVars
<1>2. CASE PipelineStep
  <2>1. upload' = upload
    BY <1>2 DEF PipelineStep
  <2>2. \A v \in Versions : version'[v] = None <=> version[v] = None
    BY <1>2, VersionsStay
  <2>. QED BY <2>1, <2>2 DEF NoRowsToCompensate
<1>3. ASSUME NEW v \in Versions, UploadStep(v) PROVE NoRowsToCompensate'
  <2>1. CASE \/ (\E valid \in BOOLEAN : Stage(v, valid))
             \/ (\E effect, reported \in BOOLEAN : Put(v, effect, reported))
             \/ (\E effect \in BOOLEAN : Compensate(v, effect))
             \/ Reject(v)
             \/ ApiDies(v)
    BY <1>t, <2>1 DEF Stage, Put, Compensate, Reject, ApiDies, UploadGoto,
       NoRowsToCompensate, Compensated, vars
  <2>2. CASE CommitFails(v)
    BY <1>t, <2>2 DEF CommitFails, UploadGoto, NoRowsToCompensate, Compensated,
                      UploadInv, vars
  <2>3. ASSUME NEW reported \in BOOLEAN, Commit(v, reported)
        PROVE  NoRowsToCompensate'
    <3>1. /\ version' = [version EXCEPT ![v] = NewVersion] /\ NewVersion # None
          /\ upload[v] = "commit"
          /\ upload' = [upload EXCEPT ![v] =
                          IF reported THEN "accepted" ELSE "compensate"]
      BY <2>3, NewVersionOK DEF Commit, Upload, UploadGoto
    <3>2. version'[v] # None /\ upload' # upload
      BY <1>t, <3>1
    <3>3. HonestCommit
      BY <3>2 DEF uploadVars
    <3>4. reported
      BY <1>t, <3>1, <3>2, <3>3 DEF HonestCommit
    <3>. QED BY <1>t, <3>1, <3>4 DEF NoRowsToCompensate, Compensated
  <2>. QED BY <1>3, <2>1, <2>2, <2>3 DEF UploadStep
<1>. QED BY <1>1, <1>2, <1>3 DEF UploadNext

\* "DB failure rolls back all DB rows" holds whenever no commit takes effect
\* and reports an error: crashes, failed deletes and every interleaving with
\* the pipeline are harmless (create_upload, _delete_after_failed_persistence).
THEOREM RolledBackUnlessUnacknowledged ==
    UploadSpec /\ [][HonestCommit]_uploadVars => []FailedUploadIsRolledBack
<1>1. UploadInit => NoRowsToCompensate
  BY DEF UploadInit, NoRowsToCompensate, Compensated
<1>2. NoRowsToCompensate => FailedUploadIsRolledBack
  BY DEF NoRowsToCompensate, Compensated, FailedUploadIsRolledBack
<1>3. UploadSpec => UploadInit /\ [][UploadNext]_uploadVars
  BY PTL DEF UploadSpec
<1>. QED BY <1>1, <1>2, <1>3, NoRowsStep, UploadInvariant, PTL
=============================================================================
