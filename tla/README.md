# Verification of SupportFlow AI

TLA+ models of the parts of SupportFlow in which steps of several actors meet:
the document-ingestion pipeline (an outbox, a relay, Celery workers, an
operator) with the upload and its storage, the ticket workflow, on-demand ticket
classification, the browser sessions of the agent UI, registration with the
membership of organizations, the worker process with its settings and its safety
scan, and the release workflow that puts all of this into service. TLC model-checks
them on small instances; TLAPS proves their safety properties for every instance. `PROJECT.json` maps every definition to the lines it models.

## The system

SupportFlow is a multi-tenant FastAPI application over PostgreSQL and Redis,
with a Celery worker and a relay process beside the API.

| Part | State it keeps | Operations | Meets others through |
|---|---|---|---|
| Upload (`documents/service.py`, `outbox.py`) | object in storage; rows `documents`, `document_versions`, `document_ingestion_outbox`; audit event | `create_upload` | one transaction; the intent is what the relay reads |
| Relay (`documents/relay.py`, `relay_runtime.py`) | leases and budgets in the intents | `settle_terminal`, `claim`, `publish`, `finish`, `cleanup`, `backfill` | row locks with SKIP LOCKED; messages to the broker |
| Recovery (`documents/recovery.py`) | grants in the intents, audit event | `rearm_intent` | row locks |
| Worker (`documents/ingestion.py`, `tasks.py`) | status, owner, attempts of a version; audit event | `delivery_lock`, `process` (`_claim`, stage, scan, extract, `_mark_ready`, `_mark_failed`), `prepare_retry`, `mark_retry_exhausted`, `task.retry` | advisory lock per version; row locks; broker |
| Broker (Redis, Celery; external) | messages, visibility timeout | deliver, redeliver, lose | `acks_late`, `reject_on_worker_lost` |
| Tickets (`tickets/service.py`) | ticket status, messages, audit events | `create_ticket`, `append_agent_message`, `transition_ticket` | READ COMMITTED sessions |
| Classification (`classification/application.py`) | operations by identity, audit events | `classify` (claim, provider call, settle), `read` | share locks on the membership, row lock on the ticket |
| Browser sessions (`ui/session.py`, `ui/router.py`) | sessions in Redis | resolve, rotate, invalidate | Redis pipeline |
| Identity, authentication (`identity`, `auth`) | users, organizations, memberships | register, authenticate, add a member | unique constraints |
| Storage, validation, extraction | objects; nothing | put/open/delete; validate; extract | called by upload and worker |
| Settings and clients (`config.py`, `infrastructure`, `worker.py`) | settings of a process | validate; build engine, Redis and Celery clients, storage, scanner | environment variables |
| Worker runtime (`documents/worker_runtime.py`) | the clients of a child process | `initialize_child`, `get_service`, `shutdown_child` | Celery's process signals and time limits |
| Safety scanner (`documents/clamd.py`, `ports.py`) | connections with deadlines | `scan` (PING, VERSION, INSTREAM) | the ClamD daemon beside the worker |
| Release workflow (`aws-deploy.yml`, `scripts/aws`) | task definitions, services, schema revision, evidence | deploy, rollback | ECS, the database, the evidence an operator reads |

### What is hard in it

* **Several owners of one version.** The broker may deliver a message twice, a
  relay may publish it again, and both run under the *same* task id, so the
  ownership column cannot tell them apart. An advisory lock held on a
  connection of its own does, until that connection drops.
* **Commits without an answer.** Each transaction may take effect and still
  report an error. The worker then prepares a retry for a version that is
  already decided.
* **Leases against a clock.** A relay publishes outside its transaction; its
  lease may run out first. The extraction deadline compares the worker's clock
  with the database's.
* **Budgets in three places**: the attempt count of the row, the retry header
  of the message, and the publication and recovery counters of the intent, which
  operator grants extend.
* **Something must eventually happen**: messages that meet a busy lock are
  acknowledged and dropped, so only the relay guarantees that an upload is not
  forgotten.
* **Reads without locks** in the ticket transition, and a **provider call
  between two transactions** in classification, during which access, the input
  and the claim's lifetime may end.
* **Storage and database share no transaction**: an upload puts its object,
  commits its rows and deletes the object again if the commit fails, or seems to.
* **A session read before an await**: the UI's handlers resolve their cookie once
  and go on with what they read while other tabs log out, log in and rotate.
* **Constraints that decide a race**: registration and the addition of a member
  check nothing, or check without a lock, and rely on the tables' unique
  constraints at the commit.
* **A verdict made of three connections**: the daemon's health, the age of its
  definitions and the document itself go over separate connections, each with its
  deadline, inside a delivery with two limits of its own.
* **A signal handler that may fail unseen**: Celery only logs an exception of
  `initialize_child`; the child goes on without a service and builds it at a delivery.
* **A release that stops anywhere**: between two `update-service` calls, or with its
  migration task still running; the next run, or a rollback put together from
  evidence, has to cope with what it finds.

`PROJECT.json` lists these as hazards, each at its line with the properties
that would catch it.

## The modules

### The ingestion pipeline

* `IngestionState` has the constants, the variables and the rows. `version` and
  `intent` are the tables (`None` for no row), `audit` counts the audit events
  of each version by kind, `queue` is the broker, `lock` the advisory locks,
  `worker` and `relay` the processes with the message or publication they hold.
  Timestamps are kept as the time left until a deadline; `Tick` lets it pass.
* `IngestionWorker` has one action per transaction of a delivery. Each outcome
  transaction takes a `reported` flag: the commit took effect, and the worker
  learned of it or got an error. `Work` stands for staging, scanning and
  extraction, which only choose between ready, rejected, unavailable. `WorkerLost` is a
  crash (the message comes back), `WorkerAborted` an exception that leaves the
  task (the message is acknowledged), `LockDropped` the loss of the lock's
  connection.
* `IngestionRelay` has the poll loop of any number of relays (settle, claim,
  publish, finish, cleanup; a failing poll starts over), and the operator's
  `Rearm` and `Backfill`. `claim` is split by what it decides about the row it
  locked.
* `Ingestion` composes them with the upload, the broker and the clock, and states
  the properties and the fairness.
* `VersionLifecycle` is the abstract specification: a version is accepted, started
  at most `max_retries + 1` times, given back, decided once, and each decision has
  one audit event. `Ingestion!Lifecycle` instantiates it with
  the status and attempt count of the rows and the number of outcome events.

* `DocumentUpload` extends the pipeline with the request that uploads a version
  (`upload`: validate, put, commit, compensate, answer, each a step of its own, with the
  death of the API process before each of them) and with the version's
  object (`stored`). The pipeline's action `Upload` is the commit. A worker
  finishes its work only if it could read the object; otherwise it retries.

### Tickets

`TicketWorkflow`. A transition is three steps: its transaction begins with the query that
loads the user (`Begin`), the row is read without a lock and checked (`CheckTransition`), and
status and event are flushed and committed (`autoflush=False`), whatever the row holds by then
(`CommitTransition`). `append_agent_message` locks the row and is one step.

An audit event's `created_at` is PostgreSQL's `now()`, the start of its transaction, and
`list_events` orders by it. `changes` has the events in the order of their commits, each with
its `created_at`; the properties about a listing use only the latter. Events of the same time
are listed by a random id, hence in any order.

### Classification

`Classification`, for one ticket. `classify` is a claiming step, a provider
call, a settling step; each transaction locks what it decides on and is therefore one
step. Between them requests are lost, time passes, and the input and the
actor's access change.

`OperationLifecycle` is its abstract specification: an identity is claimed once, its provider
is asked at most once, and it finishes once with one audit event; a claim that readers see
as overdue can still finish as unknown or failed, never with a suggestion.
`Classification!Operations` instantiates it with what `_view` shows of an operation
(`Phase`), the calls and the audit events. A claimant that is late may call its provider
after another request has given its claim up as unknown; the abstract machine allows that,
because the code does.

### Browser sessions

`BrowserSession`. `session` is the store, one row per session id that is drawn;
`cookie` and `pages` are the browser's cookie and the tokens on the pages it
shows; `request` has a request per tab with what its handler has read so far. A
handler is split where it waits: Redis (`Resolve`, `Revoke`, `Rotate`,
`Invalidate`, each of which may fail, or take effect and report an error), the database
(`Context`, `Credentials`), the form (`CheckForm`). `Respond` is the browser's
part, in any order, and `Lost` a response that never comes. A row that was
deleted keeps its user, and a request remembers whether its session had ended
when it was sent; both are history for the properties, no step of a handler reads them.

### Registration and membership

`Membership`. `user`, `organization` and `member` are the tables, `audit` the actors of the
`organization_member.created` events. `Register` is one transaction. A request to add
an agent goes through the steps in which the code reads: the token's user
(`CurrentUser`), the organization and the role (`Context`), the target and its
membership (`LookUp`), then its commit, which takes effect (`AddCommits`, also when its
acknowledgement is lost) or not (`AddFails`). Between any two, accounts, organizations and
memberships are disabled or enabled; the application has no operation for that, so
those actions are external. `Normalize` is what `strip().lower()` does to the spellings of
an address, any idempotent function in the proofs.

`Tenancy` is the abstract specification: a newcomer founds an organization, an admin
adds somebody who is registered as an agent, each in one step with its event, and no role is
ever changed. `Membership!Tenants` instantiates it with the roles of the memberships
(`RoleOf`, whether or not they are disabled) and the audit events: a request that checks its
actor, reads its target and commits at three different times acts as if at once.

### The worker process, its settings and its scan

* `Settings` says which settings `Settings()` accepts (`Accepted`) and what each client makes
  of them. A URL is what it says about verification: another scheme or no host
  (`plain`), nothing, full verification, less.
* `Scanner` is one scan on the clock of its delivery. `until` is the timeout of the socket
  call that blocks, `deadline` that of the exchange. The daemon may answer in any
  pieces, at any time, or refuse; its definitions age, and it reloads them.
* `WorkerProcess` has the process around it: start, fork, the child's runtime (`runtime`) and
  the clients that are really open (`open`), a delivery with its limits, and the ends of a
  child. What a delivery writes to the rows is `Ingestion`'s `Work`, whose outcomes
  are those of this module. Process ids are used again.

`maxAge` has no lower bound in the model; the code has sixty seconds. `waited` is how long
a message had been fetched before its task began (a retry's countdown, a busy child): the
broker's visibility timeout counts from the fetch, the time limits from the start. When
`initialize_child` fails and closing the storage fails too, in the `except` block, the
engine is not disposed there: that changes nothing the model has, as the statements after
`build_engine` in the `try` block build objects in memory and do not fail, so a failure
comes before there is an engine.

### Releases

`Release`. `run` has the workflow's runs with the step they stand at, `defs` the image in each
task definition, `target`, `desired` and `serving` the two services, `task` the migration
tasks, `schema` the revision. Every step is a state of its own, since a run may stop before
it; `Stop` stands for a failed check or call, the time limit and the loss of the
runner. Migration tasks and services (`Converge`, ECS) go on by themselves. A migration
commits only on the revision it has read, a task with nothing to migrate succeeds whatever
happened meanwhile, and an image cannot migrate from a revision it does
not know. A rollback's inputs are any recorded in the evidence of runs that finished, each from
a different one if the operator mixes them up, as the documentation of the
pipeline takes them from there (docs/aws-deployment-pipeline.md:92-95); an operator who
invents a definition is not modelled. A migration head is a number, as the revisions of
`alembic/versions` form one chain.

## The runs

| Run | Instance | What it shows |
|---|---|---|
| `ingestion` | 1 version, 2 workers, 1 relay, `FairSpec` | `AttemptBudget`, `ClaimStillHeld`, refinement of `VersionLifecycle`, `EventuallyAccounted` |
| `relays` | 1 version of an older release, 2 relays, 1 worker, leases of 1 tick, clock skew of 1 tick | `PublicationBudget`, `LiveLeaseIsRespected`, `UnresolvedIsExplained`, `NoIntentForgotten` |
| `lock_lost` | as `ingestion`, and the lock's connection can drop | `AuditMatchesStatus`, `OwnedWhileExtracting`, `OutcomeIsFinal` hold by the row checks alone |
| `tickets` | 1 ticket, 2 agents, up to 6 status changes | `RacesRepeatTransitions`, `AuditEndsAtStatus` |
| `ticket_reverse` | 1 ticket, 2 agents | `NoReverse` is **violated**, see below |
| `classification` | 2 requests, 2 actors, 3 inputs (normal, without context, too large) | `OneCallPerIdentity`, `FinishedOnce`, `FinishedIsFinal`, `SuggestionIsFresh`, refinement of `OperationLifecycle` |
| `upload` | 1 version, 1 worker, 1 relay; commits may be unacknowledged | `AcceptedHasObject`, `OnlyFailedUploadLacksObject`, and every step is one of the pipeline (`ImplementsIngestion`) |
| `upload_rolled_back` | as `upload` | `FailedUploadIsRolledBack` is **violated**, see below |
| `sessions` | 2 tabs, 2 users, 3 session ids | `EndedSessionIsUseless`, `LoginReplacesSession`, `FormActsForItsUser`, `SessionLifecycle`, `OnlyLogoutEndsLogin`, `AnswerTakesOnlyDeadCookie` |
| `membership` | 2 users, 2 organizations, 2 requests, 2 addresses of which one has 2 spellings | `ActorsAreAdmins`, `RegistrationIsWhole`, refinement of `Tenancy` |
| `release` | 3 runs, 2 images with different migration heads | `SchemaCoversServices`, `EvidenceIsOneRelease`, `EvidenceIsServing`, `MixedNeedsBootstrap`, `ReplacesWhatItRecorded` |
| `worker_process` | about 70 settings one step away from a staging and a local worker, documents below and above the stream limit, 2 process ids | `CleanIsEarned`, `ScanIsBounded`, `LimitsInOrder`, `ClientsAccounted`, `PeersVerified` |

**Bounds.** One version is enough for the pipeline because no transaction
touches the rows, the lock or the messages of two versions: `settle_terminal` and
`cleanup` take sets of rows, and a set of one or none covers what they do to
each. Two workers, or two relays, give every pair of concurrent actors; a third would
repeat the part of the second. Budgets are the smallest that let a retry, a
recovery and a grant happen and then run out; deadlines are one or two ticks,
so that they expire before, during and after the step they race with. Session ids
are never drawn twice, so their number bounds the logins: three are an anonymous
and an authenticated session and one more, for a second login or a login page opened
during the first. The run's constraint `Explored` keeps two requests at once to
the states with two ids in use. Three releases are a first one, one that stops anywhere, and
the upgrade or rollback that finds what it left; two heads make a newer and an older
image. The times of `worker_process` are a few seconds, so that each limit and deadline comes
before and after each other one; settings that differ from an accepted one in a single
value are both sides of every check of the validator. Releases may all be over, so that run
does not check for deadlock either. Tickets
are bounded by the status changes and the messages recorded (`MaxEvents`, `MaxMessages`) and by
the time at which requests still begin (`MaxNow`); two agents and one ticket suffice, as
transitions of two tickets share nothing, and six changes are the workflow's four and two
that a race adds. A ticket run does
not check for deadlock: a ticket that is closed and at its bounds has nothing left to do.

**Fairness.** `FairSpec` assumes that time passes, that the relay's loop goes
on (`relay_runtime.main` catches every exception of a poll and polls again), and
that a transaction tried at every poll does not fail at every poll (strong
fairness of settlement and claim). Nothing is assumed of the workers, of the broker,
or of the publication, which may fail each time.

**What the violated runs show.** `ticket_reverse`: two ADRs say that reverse transitions are
rejected (0002, line 161; 0003, line 136). `transition_ticket` checks a status it
read without `FOR UPDATE`: an agent who checked `open` and commits after another
agent moved the ticket two steps on writes `processing` back. The same race can skip a status: if the second agent
had by then checked `waiting_for_agent` for its next transition, it commits `resolved` on
the row that now says `processing`. What the code does guarantee is proved: each race that
misplaces a ticket leaves a transition recorded twice (`RacesRepeatTransitions`), a listing
that goes forward is complete and ends at the status of the row (`AuditEndsAtStatus`), and
without overlapping transitions of one ticket, as under a row lock, no status is skipped and
none undone (`WorkflowWithoutRaces`). In the race the newest event of a listing need not be
the last change of the row, because listings are ordered by the start of transactions.

`upload_rolled_back`: `docs/r1-integration-review.md`, line 9, says that a
database failure rolls back all rows and compensates storage. `create_upload` takes any
error of the commit for a rollback. If the commit took effect and only its
acknowledgement was lost, the client is told that the document could not be
created, its object is deleted, and the version stays: it is published and
retried until its attempts are spent. `AcceptedHasObject` (an upload answered with 202
is whole) holds all the same and is proved. So is that the unacknowledged
commit is the only cause: with commits that report what they did the roll-back is
complete, whatever else fails or dies (`RolledBackUnlessUnacknowledged`).

**Types.** Each component has one type invariant. All of them are proved (below), for every
instance, and the runs do not repeat them; the same holds for `OneEventPerAgent` of
`Membership`, which the refinement of `Tenancy` covers on its instance.

**Mutants.** Each property of a passing run is paired with a plausible slip in the code
(a dropped check, a counter left out, an owner not cleared) that TLC shows it
to catch; the mutated definitions stand before the ones they replace.

## The theorems

Proved for every set of versions, workers, relays, tickets, agents, requests,
actors, inputs, users and sessions, and for every budget and deadline the ASSUMEs allow.

* `IngestionProofs`: `Spec => []IInv` and from it all state invariants but
  `ClaimStillHeld`. `IInv` strengthens them where they are not inductive: a message,
  publication or delivery names an accepted version and a task id that is the intent's
  or the legacy one; a worker's job carries at most the attempts of its budget; leases have
  a token and a deadline together. The proof that a step keeps `IInv` has
  one lemma per action.
* `IngestionStepProofs`: the refinement of `VersionLifecycle` (initial states
  map to initial states, each action to a step or a stutter), `OutcomeIsFinal` and
  `LiveLeaseIsRespected`, from `IInv`; and `ClaimStillHeld` when the lock's
  connection holds, from the further invariant `LockHeld`: a delivery that is past
  `Deliver` has the lock of its version, so no other delivery of it is.
  It also has the upload: each step of an upload is a step of the pipeline or none, hence
  `ImplementsIngestion`, and `IInv` carries over; `UploadInv` ties the position of the
  request (before its commit, waiting for its compensation, past it, or dead at one of
  these points) to the row and the object. `PipelineWithUploads` states what carries over, and
  `AcceptedNeverForgotten` puts upload, relay and worker together: an uploader who was told
  202 has the object and either the one audited outcome or an intent that is not settled.
  `AccountedUnlessGranted` is the safety half of `EventuallyAccounted`: an intent that is
  settled, unresolved or deleted never becomes pending again, except by a grant of the
  operator, and of those there are at most `MaxGrants`.
* `ReleaseProofs`: `RInv` says of each run, at every step it may stop at, what it has
  registered (its image, in all three families), that its promotion comes after a migration
  that succeeded or after targets with one digest, and that what it recorded is what the
  services are set to until it replaces it. The schema never goes back, so what
  it covered once it covers still.
* `WorkerProofs`: `WInv` adds to the types that a runtime is empty or all of the child's own
  making, and, for a scan, how much of its time each exchange may have used when it ends,
  and that the definitions can have aged, since they were found fresh, only by the
  time that the stream has taken. `CleanIsEarned` follows by looking at every step that can
  set the verdict.
* `SessionProofs`: `SInv` says what stays true of what a handler has read: its session was
  drawn and has the user that was read; if it was gone when the request was sent it is
  gone; a login's session, and that of a login page about to rotate, is not an
  authenticated one that lives.
* `MembershipProofs`: `MembershipInv` adds what a request has checked and the
  services never undo: its actor is an admin of its organization and its target
  is a user, active or not by now; and that stored emails are normalized, which is
  what makes the unique constraint one on addresses. One lemma per kind of step. The
  refinement of `Tenancy` (`TenancyRefinement`) rests on it: only `Register` and `AddCommits`
  change what the abstract machine sees, and at the commit the invariant still gives the
  actor's role and the target's registration, which were read before.
* `TicketProofs`: `TInv` adds to the types that the row has what its last committed event
  says, that a ticket without a repeated transition has gone through the workflow in step, and
  that what a session has checked is an allowed transition from a status the ticket had; so a
  commit from a stale check repeats one that is recorded. Both properties follow without
  induction. `WorkflowWithoutRaces` has the assumption `[]Serial` (no two sessions in flight
  on one ticket) and the invariant `UpToDate`, which fails without it.
* `ClassificationProofs`: `CInv` adds that a request that has not
  called the provider yet belongs to an operation without calls, and that no two requests
  run for one identity. `OperationRefinement` is the refinement of `OperationLifecycle`:
  a success needs a call that was made (`CallMade`), and `Settled` looks at the lifetime
  again before it writes a result, which is why an overdue claim cannot succeed.

Two theorems have a hypothesis about behaviours beside the specification:
`WorkflowWithoutRaces` and `RolledBackUnlessUnacknowledged`. The code does not establish it (the
violated runs show behaviours without it); many behaviours satisfy it, among them those of one
agent at a time, or of a database that never loses an answer.

Only model-checked: `EventuallyAccounted` (liveness under fairness is out of the
prover's reach; that it is for good is proved, as said above).

## Not modelled

Data no property tells apart (names, sizes, hashes, texts, log lines, response
bodies, status codes), the bytes of validation and extraction, the HTTP layer and the
readiness probe (reads), the definitions inside a migration, the offline evaluation of
classification, the test drivers, measurements and document generators among the
scripts, and the Terraform configuration, of which `Release` takes the first state.
Classification has one clock for all its processes. Four things that the models show and no
document promises otherwise: a version can be left without its object by an upload that
nobody answered (the API dies after the compensation of an unacknowledged commit); a late
answer of one request may replace the newer cookie of another, a login's by a login page's;
the validator compares the scan timeout with the soft limit, although a scan may take two
connection timeouts more (the soft limit then interrupts it, and it counts as unavailable);
and the scanner mode
`external` is accepted where it is deployed, although a worker has no adapter for it and
ends each delivery at `get_service`.
Worker loss is not counted as an
attempt, as in the code: a message whose worker dies is delivered again with the
same header and resumes the claim.

## Plan

The pipeline came first (the state, the worker, the relay, their composition),
then tickets and classification, upload and storage on top of the pipeline, the
browser sessions, registration with membership, the worker process with its scan, and
the releases; each with its proofs. What could follow:

1. Liveness of classification (a claim is never left running without an end that a
   reader sees) and of the upload (an accepted upload is decided or surfaced).
2. The scan of `WorkerProcess` in place of `Work` in the pipeline, as a refinement.
3. Abstract specifications of the browser sessions (who is logged in, by tab) and of the
   releases (which image serves on which schema), and their refinements.
