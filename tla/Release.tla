------------------------------ MODULE Release ------------------------------
(***************************************************************************)
(* The release workflow (.github/workflows/aws-deploy.yml) and the checks  *)
(* it calls (scripts/aws/release_contract.py, smoke.py and the log scan),  *)
(* against one ECS environment: an API and a worker service, a database    *)
(* schema, and migration tasks.  A run may stop before any of its steps,   *)
(* by a failed check, a failed call, its time limit or the loss of the     *)
(* runner; the task definitions, the services and the migration task it    *)
(* started stay as they are, and the task goes on by itself.               *)
(*                                                                         *)
(* A task definition is named by its family and by the run that registered *)
(* it; of its contents only the application container's image matters.     *)
(***************************************************************************)
EXTENDS Naturals

CONSTANTS RunIds,       \* the workflow runs, each started at most once
          Digests,      \* the images that main's commits build
          HeadOf,       \* the migration head inside each image
          Shell,        \* the task definition Terraform registers in a family
          Placeholder,  \* the image of a shell, which has no digest
          None

Services == {"api", "worker"}

Families == Services \cup {"migration"}

ASSUME ReleaseAssumption ==
    /\ HeadOf \in [Digests -> Nat]
    /\ {Shell, None} \cap RunIds = {} /\ Shell # None
    /\ {Placeholder, None} \cap Digests = {} /\ Placeholder # None

VARIABLES run,      \* each run's step, its inputs and what its steps produced
          latest,   \* the run that started last
          defs,     \* the image in each family's task definitions
          target,   \* each service's task definition
          serving,  \* the definition whose tasks serve
          desired,  \* each service's desired count
          task,     \* each run's migration task
          schema    \* the database's migration revision

releaseVars == <<run, latest, defs, target, serving, desired, task, schema>>

\* The steps of the two jobs, in the order of the file.
Steps == {"validate", "capture", "build", "register_api", "register_worker",
          "register_migration", "parity", "migrate", "await", "targets",
          "update_api", "update_worker", "stable", "smoke", "poll", "scan", "evidence"}

Refs == RunIds \cup {Shell}

\* def and image are what the run promotes, prev and prevImage what it found.
RunRow == [pc : Steps \cup {"new", "done", "stopped"},
           op : {"deploy", "rollback"}, mode : {"bootstrap", "upgrade"},
           image : Digests \cup {None}, def : [Services -> Refs \cup {None}],
           prev : [Services -> Refs \cup {None}], prevImage : Digests \cup {None}]

\* base is the revision the task's transaction read.
TaskRow == [status : {"none", "pending", "running", "stopped"},
            base : Nat, exited : BOOLEAN, code : {0, 1}]

NoRefs == [s \in Services |-> None]

ReleaseTypeOK ==
    /\ run \in [RunIds -> RunRow]
    /\ latest \in RunIds \cup {None}
    /\ defs \in [Families -> [Refs -> Digests \cup {Placeholder, None}]]
    /\ target \in [Services -> Refs]
    /\ serving \in [Services -> Refs \cup {None}]
    /\ desired \in [Services -> {0, 1}]
    /\ task \in [RunIds -> TaskRow]
    /\ schema \in Nat

\* The environment Terraform has just applied.
ReleaseInit ==
    /\ run = [r \in RunIds |->
                [pc |-> "new", op |-> "deploy", mode |-> "upgrade", image |-> None,
                 def |-> NoRefs, prev |-> NoRefs, prevImage |-> None]]
    /\ latest = None
    /\ defs = [f \in Families |-> [x \in Refs |-> IF x = Shell THEN Placeholder ELSE None]]
    /\ target = [s \in Services |-> Shell]
    /\ serving = NoRefs
    /\ desired = [s \in Services |-> 0]
    /\ task = [r \in RunIds |->
                 [status |-> "none", base |-> 0, exited |-> FALSE, code |-> 1]]
    /\ schema = 0

-----------------------------------------------------------------------------
InProgress(r) == run[r].pc \in Steps

\* Runs whose evidence is uploaded, and what an operator can read there.
Done == {r \in RunIds : run[r].pc = "done"}

RecordedDefs(s) == UNION {{run[r].def[s], run[r].prev[s]} : r \in Done}

RecordedImages == UNION {{run[r].image, run[r].prevImage} : r \in Done}

\* validate_image_uri: only an image named by its digest is a release.
Immutable(image) == image \in Digests

\* The digest in the application container of a definition.
ImageOf(f, ref) == defs[f][ref]

\* assert_task_definition_digest.
SameDigest(f, ref, image) == Immutable(ImageOf(f, ref)) /\ ImageOf(f, ref) = image

\* A command that returns 0 lets the job go on.
Proceed(r, pc) == run' = [run EXCEPT ![r].pc = pc]

\* Mutation of Start: the runs of an environment are not kept apart.
StartUnserialized(r, op, mode, image, def) ==
    /\ run[r].pc = "new"
    /\ run' = [run EXCEPT ![r].pc = "validate", ![r].op = op, ![r].mode = mode,
                          ![r].image = image, ![r].def = def]
    /\ latest' = r
    /\ UNCHANGED <<defs, target, serving, desired, task, schema>>

\* A dispatched run starts when no other run of its concurrency group is in
\* progress.  A rollback gets its definitions and its image from the operator,
\* each taken from the evidence of some run, or left out.
Start(r, op, mode, image, def) ==
    /\ run[r].pc = "new"
    /\ \A other \in RunIds : ~ InProgress(other)
    /\ run' = [run EXCEPT ![r].pc = "validate", ![r].op = op, ![r].mode = mode,
                          ![r].image = image, ![r].def = def]
    /\ latest' = r
    /\ UNCHANGED <<defs, target, serving, desired, task, schema>>

\* ReleaseConfig.from_env and the tests after it; the inputs that only have to
\* be there and well-formed stop the run when they are not.
Contract(r) ==
    run[r].op = "rollback" =>
        /\ run[r].mode = "upgrade"
        /\ Immutable(run[r].image)
        /\ \A s \in Services : run[r].def[s] # None

ValidateConfig(r) ==
    /\ run[r].pc = "validate"
    /\ Contract(r)
    /\ Proceed(r, IF run[r].mode = "bootstrap" THEN "build" ELSE "capture")
    /\ UNCHANGED <<latest, defs, target, serving, desired, task, schema>>

\* Mutation of CaptureRelease: the API's digest stands for both.
CaptureReleaseOfApi(r) ==
    LET image == ImageOf("api", target["api"])
    IN  /\ run[r].pc = "capture"
        /\ Immutable(image)
        /\ run' = [run EXCEPT ![r].pc = IF run[r].op = "deploy" THEN "build" ELSE "targets",
                              ![r].prev = target, ![r].prevImage = image]
        /\ UNCHANGED <<latest, defs, target, serving, desired, task, schema>>

\* What the services are set to run, whether or not it ever served, provided
\* both have the same digest.
CaptureRelease(r) ==
    LET image == ImageOf("api", target["api"])
    IN  /\ run[r].pc = "capture"
        /\ Immutable(image) /\ ImageOf("worker", target["worker"]) = image
        /\ run' = [run EXCEPT ![r].pc = IF run[r].op = "deploy" THEN "build" ELSE "targets",
                              ![r].prev = target, ![r].prevImage = image]
        /\ UNCHANGED <<latest, defs, target, serving, desired, task, schema>>

\* The commit is built and pushed, and its digest and migration head are read;
\* a run may be of any commit, a run that is started again of an old one.
BuildImage(r, image) ==
    /\ run[r].pc = "build"
    /\ run' = [run EXCEPT ![r].pc = "register_api", ![r].image = image,
                          ![r].def = [s \in Services |-> r]]
    /\ UNCHANGED <<latest, defs, target, serving, desired, task, schema>>

\* render_task_definition puts the image into a copy of the family's latest
\* definition.
Rendered(r, f) == [defs EXCEPT ![f][r] = run[r].image]

RegisterStep(f) ==
    IF f = "api" THEN "register_api"
    ELSE IF f = "worker" THEN "register_worker" ELSE "register_migration"

AfterRegister(f) ==
    IF f = "api" THEN "register_worker"
    ELSE IF f = "worker" THEN "register_migration" ELSE "parity"

RegisterDefinition(r, f) ==
    /\ run[r].pc = RegisterStep(f)
    /\ defs' = Rendered(r, f)
    /\ Proceed(r, AfterRegister(f))
    /\ UNCHANGED <<latest, target, serving, desired, task, schema>>

VerifyParity(r) ==
    /\ run[r].pc = "parity"
    /\ \A f \in Families : SameDigest(f, r, run[r].image)
    /\ Proceed(r, "migrate")
    /\ UNCHANGED <<latest, defs, target, serving, desired, task, schema>>

\* run-task, whose answer names exactly one task (run_task_arn).
RunMigration(r) ==
    /\ run[r].pc = "migrate"
    /\ task' = [task EXCEPT ![r].status = "pending"]
    /\ Proceed(r, "await")
    /\ UNCHANGED <<latest, defs, target, serving, desired, schema>>

\* validate_migration_task_result.
MigrationSucceeded(r) == task[r].status = "stopped" /\ task[r].exited /\ task[r].code = 0

\* Mutation of AwaitMigration: a stopped task is good enough.
AwaitMigrationStopped(r) ==
    /\ run[r].pc = "await"
    /\ task[r].status = "stopped"
    /\ Proceed(r, "update_api")
    /\ UNCHANGED <<latest, defs, target, serving, desired, task, schema>>

AwaitMigration(r) ==
    /\ run[r].pc = "await"
    /\ MigrationSucceeded(r)
    /\ Proceed(r, "update_api")
    /\ UNCHANGED <<latest, defs, target, serving, desired, task, schema>>

\* Mutation of ValidateTargets: only the families of the definitions are checked.
ValidateTargetsExist(r) ==
    /\ run[r].pc = "targets"
    /\ \A s \in Services : Immutable(ImageOf(s, run[r].def[s]))
    /\ Proceed(r, "update_api")
    /\ UNCHANGED <<latest, defs, target, serving, desired, task, schema>>

\* Rollback: both definitions hold the image that the operator named.
ValidateTargets(r) ==
    /\ run[r].pc = "targets"
    /\ \A s \in Services : SameDigest(s, run[r].def[s], run[r].image)
    /\ Proceed(r, "update_api")
    /\ UNCHANGED <<latest, defs, target, serving, desired, task, schema>>

UpdateStep(s) == IF s = "api" THEN "update_api" ELSE "update_worker"

\* update-service; only a bootstrap sets the desired count.
UpdateService(r, s) ==
    /\ run[r].pc = UpdateStep(s)
    /\ target' = [target EXCEPT ![s] = run[r].def[s]]
    /\ desired' = [desired EXCEPT ![s] = IF run[r].mode = "bootstrap" THEN 1 ELSE @]
    /\ Proceed(r, IF s = "api" THEN "update_worker" ELSE "stable")
    /\ UNCHANGED <<latest, defs, serving, task, schema>>

\* Mutation of WaitStable: the API is all that is waited for.
WaitStableApi(r) ==
    /\ run[r].pc = "stable"
    /\ desired["api"] = 1 => serving["api"] = target["api"]
    /\ Proceed(r, "smoke")
    /\ UNCHANGED <<latest, defs, target, serving, desired, task, schema>>

\* A service without tasks that should have none is stable too.
WaitStable(r) ==
    /\ run[r].pc = "stable"
    /\ \A s \in Services : desired[s] = 1 => serving[s] = target[s]
    /\ Proceed(r, "smoke")
    /\ UNCHANGED <<latest, defs, target, serving, desired, task, schema>>

\* Readiness, login, ticket, message and upload, answered by whichever tasks
\* serve.
SmokeRequests(r) ==
    /\ run[r].pc = "smoke"
    /\ serving["api"] # None
    /\ Proceed(r, "poll")
    /\ UNCHANGED <<latest, defs, target, serving, desired, task, schema>>

\* The uploaded document gets ready before the deadline.
PollDocument(r) ==
    /\ run[r].pc = "poll"
    /\ serving["api"] # None /\ serving["worker"] # None
    /\ Proceed(r, "scan")
    /\ UNCHANGED <<latest, defs, target, serving, desired, task, schema>>

\* Nothing sensitive is found in the logs.
ScanLogs(r) ==
    /\ run[r].pc = "scan"
    /\ Proceed(r, "evidence")
    /\ UNCHANGED <<latest, defs, target, serving, desired, task, schema>>

\* build_release_evidence.
EvidenceAccepted(r) ==
    /\ Immutable(run[r].image)
    /\ run[r].op = "rollback" => run[r].mode = "upgrade"
    /\ IF run[r].mode = "bootstrap"
       THEN run[r].prevImage = None /\ run[r].prev = NoRefs
       ELSE Immutable(run[r].prevImage)

\* The evidence is written and uploaded.
WriteEvidence(r) ==
    /\ run[r].pc = "evidence"
    /\ EvidenceAccepted(r)
    /\ Proceed(r, "done")
    /\ UNCHANGED <<latest, defs, target, serving, desired, task, schema>>

\* A check or a call fails, the job reaches its time limit, the runner is lost.
Stop(r) ==
    /\ InProgress(r)
    /\ Proceed(r, "stopped")
    /\ UNCHANGED <<latest, defs, target, serving, desired, task, schema>>

-----------------------------------------------------------------------------
\* alembic upgrade head in the task's own transaction.  It reads the revision;
\* an image that does not know it cannot go on (MigrationEnds).
MigrationBegins(r) ==
    /\ task[r].status = "pending"
    /\ task' = [task EXCEPT ![r].status = "running", ![r].base = schema]
    /\ UNCHANGED <<run, latest, defs, target, serving, desired, schema>>

\* The task stops, having committed or not.  The commit needs the revision it
\* read, since another task's would have changed the same row and tables; a
\* task that says it succeeded has committed.
\* A task that finds its image's revision there has nothing to do and succeeds
\* whatever others do meanwhile; one that migrates moves the revision that it
\* read, and fails when that is no longer the current one.
MigrationEnds(r, exited, code, commits) ==
    LET head == HeadOf[run[r].image]
    IN  /\ task[r].status = "running"
        /\ commits => task[r].base = schema /\ task[r].base <= head
        /\ exited /\ code = 0 => commits \/ task[r].base = head
        /\ task' = [task EXCEPT ![r].status = "stopped", ![r].exited = exited, ![r].code = code]
        /\ schema' = IF commits THEN head ELSE schema
        /\ UNCHANGED <<run, latest, defs, target, serving, desired>>

\* ECS replaces a service's tasks; new tasks that do not get healthy never do.
Converge(s) ==
    /\ desired[s] = 1 /\ serving[s] # target[s]
    /\ serving' = [serving EXCEPT ![s] = target[s]]
    /\ UNCHANGED <<run, latest, defs, target, desired, task, schema>>

RunStep(r) ==
    \/ ValidateConfig(r) \/ CaptureRelease(r)
    \/ \E image \in Digests : BuildImage(r, image)
    \/ \E f \in Families : RegisterDefinition(r, f)
    \/ VerifyParity(r) \/ RunMigration(r) \/ AwaitMigration(r) \/ ValidateTargets(r)
    \/ \E s \in Services : UpdateService(r, s)
    \/ WaitStable(r) \/ SmokeRequests(r) \/ PollDocument(r) \/ ScanLogs(r)
    \/ WriteEvidence(r)

\* The operator dispatches a deploy, or a rollback to what evidence names.
Dispatch(r) ==
    \/ \E mode \in {"bootstrap", "upgrade"} : Start(r, "deploy", mode, None, NoRefs)
    \/ \E mode \in {"bootstrap", "upgrade"}, image \in RecordedImages \cup {None},
          api \in RecordedDefs("api") \cup {None}, worker \in RecordedDefs("worker") \cup {None} :
         Start(r, "rollback", mode, image,
               [s \in Services |-> IF s = "api" THEN api ELSE worker])

ReleaseNext ==
    \/ \E r \in RunIds :
         \/ Dispatch(r) \/ RunStep(r) \/ Stop(r) \/ MigrationBegins(r)
         \/ \E exited \in BOOLEAN, code \in {0, 1}, commits \in BOOLEAN :
              MigrationEnds(r, exited, code, commits)
    \/ \E s \in Services : Converge(s)

ReleaseSpec == ReleaseInit /\ [][ReleaseNext]_releaseVars

-----------------------------------------------------------------------------
\* No service is ever set to, or serves, an image whose migrations the database
\* does not have: whichever run stopped where, whichever migration task outlived
\* its run, and whatever an operator rolls back to out of the evidence ("run
\* migration before service promotion", validate_migration_task_result).
SchemaCoversServices ==
    \A s \in Services : \A x \in {target[s], serving[s]} \cap RunIds :
        ImageOf(s, x) \in Digests /\ HeadOf[ImageOf(s, x)] <= schema

\* Uploaded evidence names one release and, unless it was the first, one before
\* it: both definitions of each hold the image recorded for it, also when the
\* operator put a rollback together from the evidence of different runs
\* (assert_task_definition_digest, build_release_evidence).
EvidenceIsOneRelease ==
    \A r \in Done : \A s \in Services :
        /\ ImageOf(s, run[r].def[s]) = run[r].image
        /\ run[r].mode = "upgrade" => ImageOf(s, run[r].prev[s]) = run[r].prevImage

\* While no later run has started, the release of the last evidence is what both
\* services are set to and what their tasks serve (wait services-stable).
EvidenceIsServing ==
    latest \in Done => \A s \in Services :
        target[s] = run[latest].def[s] /\ serving[s] = run[latest].def[s]

Mixed == ImageOf("api", target["api"]) # ImageOf("worker", target["worker"])

\* A run that stopped between its two update-service calls leaves two images in
\* service, and from there neither an upgrade nor a rollback changes a service:
\* both give up at the captured digests, and only a bootstrap gets through.
MixedNeedsBootstrap ==
    [][Mixed /\ target' # target =>
         \E r \in RunIds : InProgress(r) /\ (run[r].pc = "update_worker" \/ run[r].mode = "bootstrap")]_releaseVars

\* What an upgrade or a rollback replaces is what it recorded as the previous
\* release, however long before (the concurrency group of the workflow).
ReplacesWhatItRecorded ==
    [][\A s \in Services : target'[s] # target[s] =>
         \E r \in RunIds : /\ run[r].pc = UpdateStep(s)
                           /\ run[r].mode = "bootstrap" \/ run[r].prev[s] = target[s]]_releaseVars
=============================================================================
