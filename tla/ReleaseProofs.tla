--------------------------- MODULE ReleaseProofs ---------------------------
(***************************************************************************)
(* Proofs about Release for any number of runs and images.  The invariant  *)
(* says of each run, at whatever step it stands or stopped, what its       *)
(* definitions hold, which schema its migration has reached, and, while no *)
(* later run has started, how the services stand to it.                    *)
(***************************************************************************)
EXTENDS Release, TLAPS

\* Steps before the run has an image of its own, from the build to the end of
\* the migration, of the promotion, and after the previous release is captured.
Early == {"new", "validate", "capture", "build"}

Building == {"build", "register_api", "register_worker", "register_migration",
             "parity", "migrate", "await"}

Verifying == {"smoke", "poll", "scan", "evidence", "done"}

Promoting == {"update_api", "update_worker", "stable"} \cup Verifying

AfterCapture == Building \cup {"targets"} \cup Promoting

\* The database has the migrations of what definition x of service s runs.
Covers(s, x) ==
    x \in RunIds => ImageOf(s, x) \in Digests /\ HeadOf[ImageOf(s, x)] <= schema

\* What holds of run r when its row is q.
IdentityOK(r, q) ==
    /\ q.pc \in Steps => r = latest
    /\ \A f \in Families : defs[f][r] \in {None, q.image}
    /\ q.pc \in Early => task[r].status = "none" /\ \A f \in Families : defs[f][r] = None
    /\ q.pc \in {"migrate", "await"} => \A f \in Families : defs[f][r] = q.image

PathOK(r, q) ==
    /\ q.pc \in AfterCapture \cup {"capture"} /\ q.op = "rollback" => q.mode = "upgrade"
    /\ q.pc \in Building => q.op = "deploy"
    /\ q.pc \in Building \ {"build"} => q.image \in Digests /\ \A s \in Services : q.def[s] = r
    /\ q.pc = "targets" => q.op = "rollback"
    /\ q.pc \in {"capture", "targets"} /\ q.op = "rollback" =>
         \A s \in Services : q.def[s] \in Refs

MigrationOK(r, q) ==
    /\ task[r].status # "none" => q.image \in Digests
    /\ MigrationSucceeded(r) => HeadOf[q.image] <= schema
    /\ task[r].status = "running" => task[r].base <= schema

RecordOK(r, q) ==
    /\ \A s \in Services : Covers(s, q.prev[s]) /\ (q.op = "rollback" => Covers(s, q.def[s]))
    /\ q.pc \in Promoting =>
         /\ q.image \in Digests
         /\ \A s \in Services : /\ q.def[s] \in Refs
                               /\ ImageOf(s, q.def[s]) = q.image /\ Covers(s, q.def[s])
    /\ q.mode = "upgrade" /\ q.pc \in AfterCapture =>
         /\ q.prevImage \in Digests
         /\ \A s \in Services : q.prev[s] \in Refs /\ ImageOf(s, q.prev[s]) = q.prevImage

StandingOK(r, q) ==
    /\ q.mode = "upgrade" /\ q.pc \in Building \cup {"targets", "update_api"} => q.prev = target
    /\ q.mode = "upgrade" /\ q.pc = "update_worker" => q.prev["worker"] = target["worker"]
    /\ r = latest =>
         /\ q.pc \in Promoting \ {"update_api"} => target["api"] = q.def["api"]
         /\ q.pc \in {"stable"} \cup Verifying => target["worker"] = q.def["worker"]
         /\ q.pc \in Verifying => \A s \in Services : desired[s] = 1 => serving[s] = target[s]
         /\ q.pc \in {"scan", "evidence", "done"} => \A s \in Services : serving[s] # None

RowOK(r, q) ==
    IdentityOK(r, q) /\ PathOK(r, q) /\ MigrationOK(r, q) /\ RecordOK(r, q) /\ StandingOK(r, q)

ServicesOK ==
    \A s \in Services : /\ Covers(s, target[s]) /\ Covers(s, serving[s])
                        /\ serving[s] # None => desired[s] = 1

RInv ==
    /\ ReleaseTypeOK
    /\ ServicesOK
    /\ \A r \in RunIds : RowOK(r, run[r])

-----------------------------------------------------------------------------
USE ReleaseAssumption

LEMMA Facts ==
    ASSUME RInv, NEW r \in RunIds
    PROVE  /\ run \in [RunIds -> RunRow] /\ run[r] \in RunRow /\ RowOK(r, run[r])
           /\ defs \in [Families -> [Refs -> Digests \cup {Placeholder, None}]]
           /\ target \in [Services -> Refs] /\ serving \in [Services -> Refs \cup {None}]
           /\ desired \in [Services -> {0, 1}] /\ task \in [RunIds -> TaskRow]
           /\ task[r] \in TaskRow /\ schema \in Nat
  BY DEF RInv, ReleaseTypeOK

\* A step that changes one run and nothing else.
LEMMA OneRun ==
    ASSUME RInv, NEW r \in RunIds, NEW q \in RunRow, run' = [run EXCEPT ![r] = q],
           UNCHANGED <<latest, defs, target, serving, desired, task, schema>>,
           RowOK(r, q)
    PROVE  RInv'
<1>1. run' \in [RunIds -> RunRow]
  BY Facts
<1>2. ReleaseTypeOK'
  BY <1>1 DEF RInv, ReleaseTypeOK
<1>3. ServicesOK'
  BY DEF RInv, ServicesOK, Covers, ImageOf
<1>4. ASSUME NEW x \in RunIds PROVE RowOK(x, run[x])'
  <2>1. RowOK(x, run'[x])
    <3>1. CASE x = r
      BY <3>1, Facts
    <3>2. CASE x # r
      <4>1. run'[x] = run[x]
        BY <3>2, Facts
      <4>. QED BY <4>1, Facts
    <3>. QED BY <3>1, <3>2
  <2>2. IdentityOK(x, run[x])'
    BY <2>1 DEF RowOK, IdentityOK
  <2>3. PathOK(x, run[x])'
    BY <2>1 DEF RowOK, PathOK
  <2>4. MigrationOK(x, run[x])'
    BY <2>1 DEF RowOK, MigrationOK, MigrationSucceeded
  <2>5. RecordOK(x, run[x])'
    BY <2>1 DEF RowOK, RecordOK, Covers, ImageOf
  <2>6. StandingOK(x, run[x])'
    BY <2>1 DEF RowOK, StandingOK
  <2>. QED BY <2>2, <2>3, <2>4, <2>5, <2>6 DEF RowOK
<1>. QED BY <1>2, <1>3, <1>4 DEF RInv

PCs == Steps \cup {"new", "done", "stopped"}

At(r, pc) == [run[r] EXCEPT !.pc = pc]

LEMMA AtIs ==
    ASSUME RInv, NEW r \in RunIds, NEW pc \in PCs
    PROVE  /\ At(r, pc) \in RunRow /\ At(r, pc).pc = pc
           /\ At(r, pc).op = run[r].op /\ At(r, pc).mode = run[r].mode
           /\ At(r, pc).image = run[r].image /\ At(r, pc).def = run[r].def
           /\ At(r, pc).prev = run[r].prev /\ At(r, pc).prevImage = run[r].prevImage
  BY Facts DEF RunRow, At, PCs

LEMMA Proceeds ==
    ASSUME RInv, NEW r \in RunIds, NEW pc \in PCs, Proceed(r, pc), RowOK(r, At(r, pc)),
           UNCHANGED <<latest, defs, target, serving, desired, task, schema>>
    PROVE  RInv'
<1> DEFINE q == At(r, pc)
<1>1. q \in RunRow
  BY AtIs
<1>2. run' = [run EXCEPT ![r] = q]
  BY Facts DEF Proceed, At
<1> HIDE DEF q
<1>3. RowOK(r, q)
  BY DEF q
<1>. QED BY <1>1, <1>2, <1>3, OneRun

LEMMA ValidateOK ==
    ASSUME RInv, NEW r \in RunIds, ValidateConfig(r)
    PROVE  RInv'
<1> DEFINE pc == IF run[r].mode = "bootstrap" THEN "build" ELSE "capture"
<1>1. pc \in PCs /\ Proceed(r, pc) /\ run[r].pc = "validate" /\ Contract(r)
      /\ UNCHANGED <<latest, defs, target, serving, desired, task, schema>>
  BY DEF ValidateConfig, PCs, Steps
<1>2. run[r].op = "rollback" => run[r].mode = "upgrade"
  BY <1>1 DEF Contract
<1>3. run[r] \in RunRow /\ RowOK(r, run[r])
  BY Facts
<1>d. run[r].op = "rollback" => \A s \in Services : run[r].def[s] \in Refs
  BY <1>1, <1>3 DEF Contract, RunRow
<1>4. run[r].op \in {"deploy", "rollback"} /\ run[r].mode \in {"bootstrap", "upgrade"}
  BY <1>3 DEF RunRow
<1> DEFINE q == At(r, pc)
<1>5. /\ q.pc = pc /\ q.op = run[r].op /\ q.mode = run[r].mode
      /\ q.image = run[r].image /\ q.def = run[r].def
      /\ q.prev = run[r].prev /\ q.prevImage = run[r].prevImage
  BY <1>1, AtIs
<1> HIDE DEF q
<1>6. RowOK(r, q)
  <2>1. IdentityOK(r, q)
    BY <1>1, <1>3, <1>5 DEF RowOK, IdentityOK, Steps, Early
  <2>2. PathOK(r, q)
    BY <1>1, <1>2, <1>3, <1>d, <1>4, <1>5 DEF RowOK, PathOK, Building, AfterCapture
  <2>3. MigrationOK(r, q)
    BY <1>3, <1>5 DEF RowOK, MigrationOK
  <2>4. q.pc \in {"build", "capture"} /\ (q.mode = "upgrade" => q.pc = "capture")
    BY <1>5
  <2>5. RecordOK(r, q)
    BY <1>3, <1>5, <2>4 DEF RowOK, RecordOK, Promoting, AfterCapture, Building, Verifying
  <2>6. StandingOK(r, q)
    BY <2>4 DEF StandingOK, Promoting, Building, Verifying
  <2>. QED BY <2>1, <2>2, <2>3, <2>5, <2>6 DEF RowOK
<1>. QED BY <1>1, <1>6, Proceeds DEF q

\* A step between two positions of which nothing more is required.
LEMMA PlainMove ==
    ASSUME RInv, NEW r \in RunIds, NEW pc \in PCs,
           \/ /\ run[r].pc = "parity" /\ pc = "migrate"
              /\ \A f \in Families : defs[f][r] = run[r].image
           \/ run[r].pc = "scan" /\ pc = "evidence"
           \/ run[r].pc = "evidence" /\ pc = "done"
           \/ run[r].pc = "smoke" /\ pc = "poll"
           \/ InProgress(r) /\ pc = "stopped"
    PROVE  RowOK(r, At(r, pc))
<1>1. run[r] \in RunRow /\ RowOK(r, run[r])
  BY Facts
<1> DEFINE q == At(r, pc)
<1>2. /\ q.pc = pc /\ q.op = run[r].op /\ q.mode = run[r].mode
      /\ q.image = run[r].image /\ q.def = run[r].def
      /\ q.prev = run[r].prev /\ q.prevImage = run[r].prevImage
  BY AtIs
<1> HIDE DEF q
<1>3. InProgress(r)
  BY DEF InProgress, Steps
<1>4. IdentityOK(r, q)
  BY <1>1, <1>2, <1>3 DEF RowOK, IdentityOK, Steps, Early, InProgress
<1>5. PathOK(r, q)
  BY <1>1, <1>2 DEF RowOK, PathOK, Building, AfterCapture, Promoting, Verifying
<1>6. MigrationOK(r, q)
  BY <1>1, <1>2 DEF RowOK, MigrationOK
<1>7. RecordOK(r, q)
  BY <1>1, <1>2 DEF RowOK, RecordOK, Promoting, AfterCapture, Building, Verifying
<1>8. StandingOK(r, q)
  BY <1>1, <1>2 DEF RowOK, StandingOK, Promoting, Building, Verifying
<1>. QED BY <1>4, <1>5, <1>6, <1>7, <1>8 DEF RowOK, q

LEMMA PlainSteps ==
    ASSUME RInv, NEW r \in RunIds,
           VerifyParity(r) \/ SmokeRequests(r) \/ ScanLogs(r) \/ WriteEvidence(r) \/ Stop(r)
    PROVE  RInv'
<1>1. PICK pc \in PCs :
        /\ Proceed(r, pc)
        /\ UNCHANGED <<latest, defs, target, serving, desired, task, schema>>
        /\ \/ /\ run[r].pc = "parity" /\ pc = "migrate"
              /\ \A f \in Families : defs[f][r] = run[r].image
           \/ run[r].pc = "scan" /\ pc = "evidence"
           \/ run[r].pc = "evidence" /\ pc = "done"
           \/ run[r].pc = "smoke" /\ pc = "poll"
           \/ InProgress(r) /\ pc = "stopped"
  BY DEF VerifyParity, SmokeRequests, ScanLogs, WriteEvidence, Stop, PCs, Steps,
         SameDigest, ImageOf
<1>. QED BY <1>1, PlainMove, Proceeds

\* The move into the promotion: after the migration, and after the check of the
\* definitions to roll back to.
LEMMA PromotionStarts ==
    ASSUME RInv, NEW r \in RunIds, AwaitMigration(r) \/ ValidateTargets(r)
    PROVE  RInv'
<1>0. /\ Proceed(r, "update_api") /\ run[r].pc \in {"await", "targets"}
      /\ UNCHANGED <<latest, defs, target, serving, desired, task, schema>>
      /\ "update_api" \in PCs
  BY DEF AwaitMigration, ValidateTargets, PCs, Steps
<1>1. run[r] \in RunRow /\ RowOK(r, run[r])
  BY Facts
<1>2. /\ run[r].image \in Digests
      /\ \A s \in Services : /\ run[r].def[s] \in Refs
                            /\ ImageOf(s, run[r].def[s]) = run[r].image
                            /\ Covers(s, run[r].def[s])
  <2>1. CASE AwaitMigration(r)
    <3>1. /\ MigrationSucceeded(r) /\ run[r].pc = "await"
      BY <2>1 DEF AwaitMigration
    <3>2. /\ run[r].image \in Digests /\ HeadOf[run[r].image] <= schema
          /\ \A s \in Services : run[r].def[s] = r
      BY <1>1, <3>1 DEF RowOK, PathOK, MigrationOK, Building
    <3>3. \A s \in Services : ImageOf(s, r) = run[r].image
      BY <1>1, <3>1 DEF RowOK, IdentityOK, ImageOf, Families
    <3>. QED BY <3>2, <3>3 DEF Covers, Refs
  <2>2. CASE ValidateTargets(r)
    <3>1. /\ \A s \in Services : ImageOf(s, run[r].def[s]) = run[r].image
          /\ \A s \in Services : ImageOf(s, run[r].def[s]) \in Digests
          /\ run[r].pc = "targets"
      BY <2>2 DEF ValidateTargets, SameDigest, Immutable
    <3>2. run[r].op = "rollback"
      BY <1>1, <3>1 DEF RowOK, PathOK
    <3>. QED BY <1>1, <3>1, <3>2 DEF RowOK, PathOK, RecordOK, Services
  <2>. QED BY <2>1, <2>2
<1> DEFINE q == At(r, "update_api")
<1>3. /\ q.pc = "update_api" /\ q.op = run[r].op /\ q.mode = run[r].mode
      /\ q.image = run[r].image /\ q.def = run[r].def
      /\ q.prev = run[r].prev /\ q.prevImage = run[r].prevImage
  BY <1>0, AtIs
<1> HIDE DEF q
<1>4. IdentityOK(r, q)
  BY <1>0, <1>1, <1>3 DEF RowOK, IdentityOK, Steps, Early
<1>5. PathOK(r, q)
  BY <1>0, <1>1, <1>3 DEF RowOK, PathOK, Building, AfterCapture, Promoting, Verifying
<1>6. MigrationOK(r, q)
  BY <1>1, <1>3 DEF RowOK, MigrationOK
<1>7. RecordOK(r, q)
  BY <1>0, <1>1, <1>2, <1>3 DEF RowOK, RecordOK, Promoting, AfterCapture, Building, Verifying
<1>8. StandingOK(r, q)
  BY <1>0, <1>1, <1>3 DEF RowOK, StandingOK, Promoting, Building, Verifying
<1>9. RowOK(r, q)
  BY <1>4, <1>5, <1>6, <1>7, <1>8 DEF RowOK
<1>. QED BY <1>0, <1>9, Proceeds DEF q

\* The services are stable; the document of the smoke test got ready.
LEMMA ChecksOK ==
    ASSUME RInv, NEW r \in RunIds, WaitStable(r) \/ PollDocument(r)
    PROVE  RInv'
<1>0. PICK pc \in PCs :
        /\ Proceed(r, pc)
        /\ UNCHANGED <<latest, defs, target, serving, desired, task, schema>>
        /\ \/ /\ run[r].pc = "stable" /\ pc = "smoke"
              /\ \A s \in Services : desired[s] = 1 => serving[s] = target[s]
           \/ /\ run[r].pc = "poll" /\ pc = "scan"
              /\ \A s \in Services : serving[s] # None
  BY DEF WaitStable, PollDocument, PCs, Steps, Services
<1>1. run[r] \in RunRow /\ RowOK(r, run[r])
  BY Facts
<1> DEFINE q == At(r, pc)
<1>3. /\ q.pc = pc /\ q.op = run[r].op /\ q.mode = run[r].mode
      /\ q.image = run[r].image /\ q.def = run[r].def
      /\ q.prev = run[r].prev /\ q.prevImage = run[r].prevImage
  BY <1>0, AtIs
<1> HIDE DEF q
<1>4. IdentityOK(r, q)
  BY <1>0, <1>1, <1>3 DEF RowOK, IdentityOK, Steps, Early
<1>5. PathOK(r, q)
  BY <1>0, <1>1, <1>3 DEF RowOK, PathOK, Building, AfterCapture, Promoting, Verifying
<1>6. MigrationOK(r, q)
  BY <1>1, <1>3 DEF RowOK, MigrationOK
<1>7. RecordOK(r, q)
  BY <1>0, <1>1, <1>3 DEF RowOK, RecordOK, Promoting, AfterCapture, Building, Verifying
<1>8. StandingOK(r, q)
  BY <1>0, <1>1, <1>3 DEF RowOK, StandingOK, Promoting, Building, Verifying
<1>9. RowOK(r, q)
  BY <1>4, <1>5, <1>6, <1>7, <1>8 DEF RowOK
<1>. QED BY <1>0, <1>9, Proceeds DEF q

LEMMA CaptureOK ==
    ASSUME RInv, NEW r \in RunIds, CaptureRelease(r)
    PROVE  RInv'
<1> DEFINE image == ImageOf("api", target["api"])
           pc == IF run[r].op = "deploy" THEN "build" ELSE "targets"
           q == [run[r] EXCEPT !.pc = pc, !.prev = target, !.prevImage = image]
<1>0. /\ run[r].pc = "capture" /\ image \in Digests
      /\ ImageOf("worker", target["worker"]) = image
      /\ UNCHANGED <<latest, defs, target, serving, desired, task, schema>>
  BY DEF CaptureRelease, Immutable
<1>1. /\ run[r] \in RunRow /\ RowOK(r, run[r]) /\ run \in [RunIds -> RunRow]
      /\ target \in [Services -> Refs]
  BY Facts
<1>2. run' = [run EXCEPT ![r] = q]
  BY <1>1 DEF CaptureRelease
<1>3. /\ q.pc = pc /\ q.op = run[r].op /\ q.mode = run[r].mode
      /\ q.image = run[r].image /\ q.def = run[r].def
      /\ q.prev = target /\ q.prevImage = image
  BY <1>1 DEF RunRow
<1>4. q \in RunRow /\ run[r].op \in {"deploy", "rollback"}
  <2>1. pc \in Steps
    BY DEF Steps
  <2>2. target \in [Services -> Refs \cup {None}]
    BY <1>1
  <2> HIDE DEF pc, image
  <2>. QED BY <1>0, <1>1, <2>1, <2>2 DEF RunRow
<1>5. pc \in {"build", "targets"} /\ (pc = "build" <=> run[r].op = "deploy")
  OBVIOUS
<1>6. \A s \in Services : ImageOf(s, target[s]) = image
  BY <1>0 DEF Services
<1> HIDE DEF q, pc, image
<1>7. IdentityOK(r, q)
  BY <1>0, <1>1, <1>3, <1>5 DEF RowOK, IdentityOK, Steps, Early
<1>8. PathOK(r, q)
  BY <1>0, <1>1, <1>3, <1>4, <1>5 DEF RowOK, PathOK, Building, AfterCapture
<1>9. MigrationOK(r, q)
  BY <1>1, <1>3 DEF RowOK, MigrationOK
<1>10. RecordOK(r, q)
  <2>1. \A s \in Services : Covers(s, target[s])
    BY DEF RInv, ServicesOK
  <2>2. q.pc \notin Promoting
    BY <1>3, <1>5 DEF Promoting, Verifying
  <2>3. \A s \in Services : run[r].op = "rollback" => Covers(s, run[r].def[s])
    BY <1>1 DEF RowOK, RecordOK
  <2>. QED BY <1>0, <1>1, <1>3, <1>6, <2>1, <2>2, <2>3 DEF RecordOK
<1>11. StandingOK(r, q)
  BY <1>3, <1>5 DEF StandingOK, Promoting, Building, Verifying
<1>12. RowOK(r, q)
  BY <1>7, <1>8, <1>9, <1>10, <1>11 DEF RowOK
<1>. QED BY <1>0, <1>2, <1>4, <1>12, OneRun

LEMMA BuildOK ==
    ASSUME RInv, NEW r \in RunIds, NEW image \in Digests, BuildImage(r, image)
    PROVE  RInv'
<1> DEFINE own == [s \in Services |-> r]
           q == [run[r] EXCEPT !.pc = "register_api", !.image = image, !.def = own]
<1>0. /\ run[r].pc = "build"
      /\ UNCHANGED <<latest, defs, target, serving, desired, task, schema>>
  BY DEF BuildImage
<1>1. run[r] \in RunRow /\ RowOK(r, run[r]) /\ run \in [RunIds -> RunRow]
  BY Facts
<1>2. run' = [run EXCEPT ![r] = q]
  BY <1>1 DEF BuildImage
<1>3. /\ own \in [Services -> Refs \cup {None}]
      /\ \A s \in Services : own[s] = r
  BY DEF Refs
<1> HIDE DEF own
<1>4. /\ q.pc = "register_api" /\ q.op = run[r].op /\ q.mode = run[r].mode
      /\ q.image = image /\ q.def = own
      /\ q.prev = run[r].prev /\ q.prevImage = run[r].prevImage
  BY <1>1 DEF RunRow
<1>5. q \in RunRow
  BY <1>1, <1>3 DEF RunRow, Steps
<1> HIDE DEF q
<1>6. run[r].op = "deploy" /\ task[r].status = "none"
  BY <1>0, <1>1 DEF RowOK, PathOK, IdentityOK, Building, Early
<1>7. IdentityOK(r, q)
  BY <1>0, <1>1, <1>4 DEF RowOK, IdentityOK, Steps, Early
<1>8. PathOK(r, q)
  BY <1>3, <1>4, <1>6 DEF PathOK, Building, AfterCapture
<1>9. MigrationOK(r, q)
  BY <1>6 DEF MigrationOK, MigrationSucceeded
<1>10. RecordOK(r, q)
  BY <1>0, <1>1, <1>4, <1>6 DEF RowOK, RecordOK, Promoting, Verifying, AfterCapture, Building
<1>11. StandingOK(r, q)
  BY <1>0, <1>1, <1>4 DEF RowOK, StandingOK, Promoting, Verifying, Building
<1>12. RowOK(r, q)
  BY <1>7, <1>8, <1>9, <1>10, <1>11 DEF RowOK
<1>. QED BY <1>0, <1>2, <1>5, <1>12, OneRun

\* The rows of the runs that a step leaves alone: it is enough that definitions
\* with a digest keep it, that the schema does not go back, and that the
\* services change only for a run in progress.
LEMMA OtherRun ==
    ASSUME RInv, NEW x \in RunIds, run'[x] = run[x], schema <= schema', schema' \in Nat,
           run[x].pc \in Steps => latest' = x /\ target' = target,
           x = latest' => x = latest,
           \A f \in Families : defs'[f][x] = defs[f][x],
           \A s \in Services, d \in Refs : ImageOf(s, d) \in Digests => ImageOf(s, d)' = ImageOf(s, d),
           task'[x] = task[x],
           x = latest /\ run[x].pc = "done" =>
               /\ target' = target /\ desired' = desired
               /\ \A s \in Services : serving'[s] \in {serving[s], target[s]},
           x = latest /\ run[x].pc \in Steps =>
               /\ desired' = desired
               /\ \A s \in Services : serving'[s] \in {serving[s], target[s]}
    PROVE  RowOK(x, run[x])'
<1>1. /\ run[x] \in RunRow /\ RowOK(x, run[x]) /\ schema \in Nat
      /\ target \in [Services -> Refs] /\ \A s \in Services : target[s] # None
  BY Facts DEF Refs
<1>2. ASSUME NEW s \in Services, NEW d, Covers(s, d) PROVE Covers(s, d)'
  <2>. SUFFICES ASSUME d \in RunIds
               PROVE  ImageOf(s, d)' \in Digests /\ HeadOf[ImageOf(s, d)'] <= schema'
    BY DEF Covers
  <2>1. ImageOf(s, d) \in Digests /\ HeadOf[ImageOf(s, d)] <= schema
    BY <1>2 DEF Covers
  <2>2. ImageOf(s, d)' = ImageOf(s, d)
    BY <2>1 DEF Refs
  <2>3. HeadOf[ImageOf(s, d)] \in Nat
    BY <2>1
  <2>. QED BY <1>1, <2>1, <2>2, <2>3
<1>3. IdentityOK(x, run[x])'
  BY <1>1 DEF RowOK, IdentityOK
<1>4. PathOK(x, run[x])'
  BY <1>1 DEF RowOK, PathOK
<1>5. MigrationOK(x, run[x])'
  <2>1. MigrationSucceeded(x) => HeadOf[run[x].image] \in Nat /\ HeadOf[run[x].image] <= schema
    BY <1>1 DEF RowOK, MigrationOK, MigrationSucceeded
  <2>2. MigrationSucceeded(x)' => MigrationSucceeded(x)
    BY DEF MigrationSucceeded
  <2>3. task[x].status = "running" => task[x].base \in Nat /\ task[x].base <= schema
    BY <1>1, Facts DEF RowOK, MigrationOK, TaskRow
  <2>4. task'[x].status = "running" => task'[x].base <= schema'
    BY <1>1, <2>3
  <2>5. MigrationSucceeded(x)' => HeadOf[run[x].image] <= schema'
    BY <1>1, <2>1, <2>2
  <2>6. task'[x].status # "none" => run[x].image \in Digests
    BY <1>1 DEF RowOK, MigrationOK
  <2>. QED BY <2>4, <2>5, <2>6 DEF MigrationOK
<1>6. RecordOK(x, run[x])'
  <2>1. RecordOK(x, run[x])
    BY <1>1 DEF RowOK
  <2>2. \A s \in Services : /\ Covers(s, run[x].prev[s])'
                            /\ run[x].op = "rollback" => Covers(s, run[x].def[s])'
    BY <1>2, <2>1 DEF RecordOK
  <2>3. run[x].pc \in Promoting =>
          /\ run[x].image \in Digests
          /\ \A s \in Services : /\ run[x].def[s] \in Refs
                                /\ ImageOf(s, run[x].def[s])' = run[x].image
                                /\ Covers(s, run[x].def[s])'
    BY <1>2, <2>1 DEF RecordOK
  <2>. QED BY <2>1, <2>2, <2>3 DEF RecordOK
<1>7. StandingOK(x, run[x])'
  <2>1. StandingOK(x, run[x])
    BY <1>1 DEF RowOK
  <2>2. \A s \in Services : serving[s] # None /\ serving'[s] \in {serving[s], target[s]} => serving'[s] # None
    BY <1>1
  <2>3. run[x].pc \in Building \cup {"targets"} \cup Promoting => run[x].pc = "done" \/ run[x].pc \in Steps
    BY DEF Building, Promoting, Verifying, Steps
  <2>. QED BY <2>1, <2>2, <2>3 DEF StandingOK, Building, Promoting, Verifying
<1>. QED BY <1>3, <1>4, <1>5, <1>6, <1>7 DEF RowOK

\* The services stay covered when definitions keep their digests, the schema
\* does not go back and what they run does not change.
LEMMA ServicesStay ==
    ASSUME RInv, schema <= schema', schema' \in Nat, UNCHANGED <<target, serving, desired>>,
           \A s \in Services, d \in Refs : ImageOf(s, d) \in Digests => ImageOf(s, d)' = ImageOf(s, d)
    PROVE  ServicesOK'
<1>1. schema \in Nat
  BY DEF RInv, ReleaseTypeOK
<1>2. ASSUME NEW s \in Services, NEW d, Covers(s, d) PROVE Covers(s, d)'
  <2>. SUFFICES ASSUME d \in RunIds
               PROVE  ImageOf(s, d)' \in Digests /\ HeadOf[ImageOf(s, d)'] <= schema'
    BY DEF Covers
  <2>1. ImageOf(s, d) \in Digests /\ HeadOf[ImageOf(s, d)] <= schema
    BY <1>2 DEF Covers
  <2>2. ImageOf(s, d)' = ImageOf(s, d)
    BY <2>1 DEF Refs
  <2>3. HeadOf[ImageOf(s, d)] \in Nat
    BY <2>1
  <2>. QED BY <1>1, <2>1, <2>2, <2>3
<1>. QED BY <1>2 DEF RInv, ServicesOK

LEMMA StartOK ==
    ASSUME RInv, NEW r \in RunIds, NEW op \in {"deploy", "rollback"},
           NEW mode \in {"bootstrap", "upgrade"}, NEW image \in Digests \cup {None},
           NEW def \in [Services -> Refs \cup {None}],
           op = "rollback" => \A s \in Services : Covers(s, def[s]),
           Start(r, op, mode, image, def)
    PROVE  RInv'
<1> DEFINE q == [run[r] EXCEPT !.pc = "validate", !.op = op, !.mode = mode,
                               !.image = image, !.def = def]
<1>0. /\ run[r].pc = "new" /\ latest' = r
      /\ \A x \in RunIds : run[x].pc \notin Steps
      /\ UNCHANGED <<defs, target, serving, desired, task, schema>>
  BY DEF Start, InProgress
<1>1. run[r] \in RunRow /\ RowOK(r, run[r]) /\ run \in [RunIds -> RunRow] /\ schema \in Nat
  BY Facts
<1>2. run' = [run EXCEPT ![r] = q]
  BY <1>1 DEF Start
<1>3. /\ q.pc = "validate" /\ q.op = op /\ q.mode = mode /\ q.image = image /\ q.def = def
      /\ q.prev = run[r].prev /\ q.prevImage = run[r].prevImage
  BY <1>1 DEF RunRow
<1>4. q \in RunRow
  BY <1>1 DEF RunRow, Steps
<1> HIDE DEF q
<1>5. run' \in [RunIds -> RunRow] /\ run'[r] = q
  BY <1>1, <1>2, <1>4
<1>6. ReleaseTypeOK'
  BY <1>0, <1>5 DEF RInv, ReleaseTypeOK
<1>7. ServicesOK'
  BY <1>0, <1>1, ServicesStay DEF ImageOf
<1>8. RowOK(r, run[r])'
  <2>1. task[r].status = "none" /\ \A f \in Families : defs[f][r] = None
    BY <1>0, <1>1 DEF RowOK, IdentityOK, Early
  <2>2. IdentityOK(r, run[r])'
    BY <1>0, <1>3, <1>5, <2>1 DEF IdentityOK, Early
  <2>3. PathOK(r, run[r])'
    BY <1>3, <1>5 DEF PathOK, AfterCapture, Building, Promoting, Verifying
  <2>4. MigrationOK(r, run[r])'
    BY <1>0, <2>1 DEF MigrationOK, MigrationSucceeded
  <2>5. \A s \in Services : Covers(s, run[r].prev[s])
    BY <1>1 DEF RowOK, RecordOK
  <2>6. RecordOK(r, run[r])'
    BY <1>0, <1>3, <1>5, <2>5 DEF RecordOK, Covers, ImageOf, Promoting, Verifying, AfterCapture, Building
  <2>7. StandingOK(r, run[r])'
    BY <1>3, <1>5 DEF StandingOK, Promoting, Verifying, Building
  <2>. QED BY <2>2, <2>3, <2>4, <2>6, <2>7 DEF RowOK
<1>9. ASSUME NEW x \in RunIds, x # r PROVE RowOK(x, run[x])'
  <2>1. run'[x] = run[x]
    BY <1>1, <1>2, <1>9
  <2>. QED BY <1>0, <1>1, <1>9, <2>1, OtherRun DEF ImageOf
<1>. QED BY <1>6, <1>7, <1>8, <1>9 DEF RInv

\* What an operator can put together from evidence.
LEMMA DispatchOK ==
    ASSUME RInv, NEW r \in RunIds, Dispatch(r)
    PROVE  RInv'
<1>1. ASSUME NEW mode \in {"bootstrap", "upgrade"}, Start(r, "deploy", mode, None, NoRefs)
      PROVE  RInv'
  <2>1. NoRefs \in [Services -> Refs \cup {None}]
    BY DEF NoRefs
  <2>. QED BY <1>1, <2>1, StartOK
<1>2. ASSUME NEW x \in Done
      PROVE  /\ run[x] \in RunRow
             /\ \A s \in Services : Covers(s, run[x].def[s]) /\ Covers(s, run[x].prev[s])
  BY Facts DEF Done, RowOK, RecordOK, Promoting, Verifying
<1>3. ASSUME NEW s \in Services, NEW d \in RecordedDefs(s) \cup {None}
      PROVE  d \in Refs \cup {None} /\ Covers(s, d)
  <2>1. CASE d = None
    BY <2>1 DEF Covers
  <2>2. CASE d # None
    <3>1. PICK x \in Done : d \in {run[x].def[s], run[x].prev[s]}
      BY <1>3, <2>2 DEF RecordedDefs
    <3>. QED BY <1>2, <3>1 DEF RunRow
  <2>. QED BY <2>1, <2>2
<1>4. RecordedImages \subseteq Digests \cup {None}
  BY <1>2 DEF RecordedImages, RunRow
<1>5. ASSUME NEW mode \in {"bootstrap", "upgrade"}, NEW image \in RecordedImages \cup {None},
             NEW api \in RecordedDefs("api") \cup {None},
             NEW worker \in RecordedDefs("worker") \cup {None},
             Start(r, "rollback", mode, image,
                   [s \in Services |-> IF s = "api" THEN api ELSE worker])
      PROVE  RInv'
  <2> DEFINE def == [s \in Services |-> IF s = "api" THEN api ELSE worker]
  <2>1. /\ api \in Refs \cup {None} /\ Covers("api", api)
        /\ worker \in Refs \cup {None} /\ Covers("worker", worker)
    BY <1>3 DEF Services
  <2>2. def \in [Services -> Refs \cup {None}]
    BY <2>1
  <2>3. \A s \in Services : Covers(s, def[s])
    BY <2>1 DEF Services
  <2>4. image \in Digests \cup {None}
    BY <1>4
  <2> HIDE DEF def
  <2>5. Start(r, "rollback", mode, image, def)
    BY <1>5 DEF def
  <2>. QED BY <2>2, <2>3, <2>4, <2>5, StartOK
<1>. QED BY <1>1, <1>5 DEF Dispatch

LEMMA RegisterOK ==
    ASSUME RInv, NEW r \in RunIds, NEW f \in Families, RegisterDefinition(r, f)
    PROVE  RInv'
<1> DEFINE pc == AfterRegister(f)
           q == At(r, pc)
<1>0. /\ run[r].pc \in {"register_api", "register_worker", "register_migration"}
      /\ defs' = Rendered(r, f) /\ Proceed(r, pc)
      /\ UNCHANGED <<latest, target, serving, desired, task, schema>>
      /\ pc \in {"register_worker", "register_migration", "parity"} /\ pc \in PCs
  BY DEF RegisterDefinition, RegisterStep, AfterRegister, PCs, Steps
<1>1. /\ run[r] \in RunRow /\ RowOK(r, run[r]) /\ run \in [RunIds -> RunRow] /\ schema \in Nat
      /\ defs \in [Families -> [Refs -> Digests \cup {Placeholder, None}]]
  BY Facts
<1>2. /\ q \in RunRow /\ q.pc = pc /\ q.op = run[r].op /\ q.mode = run[r].mode
      /\ q.image = run[r].image /\ q.def = run[r].def
      /\ q.prev = run[r].prev /\ q.prevImage = run[r].prevImage
  BY <1>0, AtIs
<1>3. run' = [run EXCEPT ![r] = q]
  BY <1>0, <1>1 DEF Proceed, At
<1> HIDE DEF q, pc
<1>4. run' \in [RunIds -> RunRow] /\ run'[r] = q
  BY <1>1, <1>2, <1>3
<1>5. /\ run[r].image \in Digests /\ \A s \in Services : run[r].def[s] = r
      /\ run[r].op = "deploy" /\ r = latest
      /\ \A g \in Families : defs[g][r] \in {None, run[r].image}
  BY <1>0, <1>1 DEF RowOK, PathOK, IdentityOK, Building, Steps
<1>6. r \in Refs
  BY DEF Refs
<1>7. /\ defs' \in [Families -> [Refs -> Digests \cup {Placeholder, None}]]
      /\ \A g \in Families, d \in Refs :
           defs'[g][d] = IF g = f /\ d = r THEN run[r].image ELSE defs[g][d]
  BY <1>0, <1>1, <1>5, <1>6 DEF Rendered
<1>8. \A s \in Services, d \in Refs : ImageOf(s, d) \in Digests => ImageOf(s, d)' = ImageOf(s, d)
  BY <1>5, <1>7 DEF ImageOf, Families
<1>9. ReleaseTypeOK'
  BY <1>0, <1>4, <1>7 DEF RInv, ReleaseTypeOK
<1>10. ServicesOK'
  BY <1>0, <1>1, <1>8, ServicesStay
<1>11. RowOK(r, run[r])'
  <2>1. IdentityOK(r, run[r])'
    BY <1>0, <1>2, <1>4, <1>5, <1>6, <1>7 DEF IdentityOK, Early
  <2>2. PathOK(r, run[r])'
    BY <1>0, <1>2, <1>4, <1>5 DEF PathOK, Building, AfterCapture
  <2>3. MigrationOK(r, run[r])'
    BY <1>0, <1>1, <1>2, <1>4 DEF RowOK, MigrationOK, MigrationSucceeded
  <2>4. RecordOK(r, run[r])
    BY <1>1 DEF RowOK
  <2>5. \A s \in Services : Covers(s, run[r].prev[s])'
    BY <1>0, <1>4, <1>2, <1>8, <2>4 DEF RecordOK, Covers, Refs
  <2>6. run[r].mode = "upgrade" =>
          /\ run[r].prevImage \in Digests
          /\ \A s \in Services : run[r].prev[s] \in Refs /\ ImageOf(s, run[r].prev[s]) = run[r].prevImage
    BY <1>0, <2>4 DEF RecordOK, AfterCapture, Building
  <2>7. q.pc \notin Promoting
    BY <1>0, <1>2 DEF Promoting, Verifying
  <2>8. RecordOK(r, run[r])'
    <3>1. q.mode = "upgrade" =>
          /\ q.prevImage \in Digests
          /\ \A s \in Services : q.prev[s] \in Refs /\ defs'[s][q.prev[s]] = q.prevImage
      BY <1>2, <1>8, <2>6 DEF ImageOf
    <3>. QED BY <1>2, <1>4, <1>5, <2>5, <2>7, <3>1 DEF RecordOK, ImageOf
  <2>9. StandingOK(r, run[r])'
    BY <1>0, <1>1, <1>2, <1>4 DEF RowOK, StandingOK, Building, Promoting, Verifying
  <2>. QED BY <2>1, <2>2, <2>3, <2>8, <2>9 DEF RowOK
<1>12. ASSUME NEW x \in RunIds, x # r PROVE RowOK(x, run[x])'
  <2>1. run'[x] = run[x] /\ run[x].pc \notin Steps
    BY <1>1, <1>3, <1>5, <1>12, Facts DEF RowOK, IdentityOK
  <2>2. \A g \in Families : defs'[g][x] = defs[g][x]
    BY <1>7, <1>12 DEF Refs
  <2>. QED BY <1>0, <1>1, <1>5, <1>8, <1>12, <2>1, <2>2, OtherRun
<1>. QED BY <1>9, <1>10, <1>11, <1>12 DEF RInv

LEMMA RunMigrationOK ==
    ASSUME RInv, NEW r \in RunIds, RunMigration(r)
    PROVE  RInv'
<1> DEFINE q == At(r, "await")
<1>0. /\ run[r].pc = "migrate" /\ Proceed(r, "await") /\ "await" \in PCs
      /\ UNCHANGED <<latest, defs, target, serving, desired, schema>>
  BY DEF RunMigration, PCs, Steps
<1>1. /\ run[r] \in RunRow /\ RowOK(r, run[r]) /\ run \in [RunIds -> RunRow] /\ schema \in Nat
      /\ task \in [RunIds -> TaskRow] /\ task[r] \in TaskRow
  BY Facts
<1>2. /\ q \in RunRow /\ q.pc = "await" /\ q.op = run[r].op /\ q.mode = run[r].mode
      /\ q.image = run[r].image /\ q.def = run[r].def
      /\ q.prev = run[r].prev /\ q.prevImage = run[r].prevImage
  BY <1>0, AtIs
<1>3. run' = [run EXCEPT ![r] = q]
  BY <1>0, <1>1 DEF Proceed, At
<1> HIDE DEF q
<1>4. run' \in [RunIds -> RunRow] /\ run'[r] = q
  BY <1>1, <1>2, <1>3
<1>5. /\ task' \in [RunIds -> TaskRow] /\ task'[r].status = "pending"
      /\ \A x \in RunIds : x # r => task'[x] = task[x]
  <2>1. task' = [task EXCEPT ![r] = [task[r] EXCEPT !.status = "pending"]]
    BY <1>1 DEF RunMigration
  <2>2. [task[r] EXCEPT !.status = "pending"] \in TaskRow /\ [task[r] EXCEPT !.status = "pending"].status = "pending"
    BY <1>1 DEF TaskRow
  <2>. QED BY <1>1, <2>1, <2>2
<1>6. /\ run[r].image \in Digests /\ \A s \in Services : run[r].def[s] = r
      /\ run[r].op = "deploy" /\ r = latest
      /\ \A f \in Families : defs[f][r] = run[r].image
  BY <1>0, <1>1 DEF RowOK, PathOK, IdentityOK, Building, Steps
<1>7. ReleaseTypeOK'
  BY <1>0, <1>4, <1>5 DEF RInv, ReleaseTypeOK
<1>8. ServicesOK'
  BY <1>0, <1>1, ServicesStay DEF ImageOf
<1>9. RowOK(r, run[r])'
  <2>1. IdentityOK(r, run[r])'
    BY <1>0, <1>2, <1>4, <1>6 DEF IdentityOK, Early
  <2>2. PathOK(r, run[r])'
    BY <1>2, <1>4, <1>6 DEF PathOK, Building, AfterCapture
  <2>3. MigrationOK(r, run[r])'
    BY <1>2, <1>4, <1>5, <1>6 DEF MigrationOK, MigrationSucceeded
  <2>4. RecordOK(r, run[r])'
    BY <1>0, <1>1, <1>2, <1>4 DEF RowOK, RecordOK, Covers, ImageOf, Promoting, Verifying, AfterCapture, Building
  <2>5. StandingOK(r, run[r])'
    BY <1>0, <1>1, <1>2, <1>4 DEF RowOK, StandingOK, Building, Promoting, Verifying
  <2>. QED BY <2>1, <2>2, <2>3, <2>4, <2>5 DEF RowOK
<1>10. ASSUME NEW x \in RunIds, x # r PROVE RowOK(x, run[x])'
  <2>1. run'[x] = run[x] /\ run[x].pc \notin Steps
    BY <1>1, <1>3, <1>6, <1>10, Facts DEF RowOK, IdentityOK
  <2>. QED BY <1>0, <1>1, <1>5, <1>6, <1>10, <2>1, OtherRun DEF ImageOf
<1>. QED BY <1>7, <1>8, <1>9, <1>10 DEF RInv

LEMMA UpdateOK ==
    ASSUME RInv, NEW r \in RunIds, NEW s \in Services, UpdateService(r, s)
    PROVE  RInv'
<1> DEFINE pc == IF s = "api" THEN "update_worker" ELSE "stable"
           q == At(r, pc)
<1>0. /\ run[r].pc = UpdateStep(s) /\ Proceed(r, pc) /\ pc \in PCs
      /\ run[r].pc \in {"update_api", "update_worker"}
      /\ s = "api" => run[r].pc = "update_api" /\ pc = "update_worker"
      /\ s = "worker" => run[r].pc = "update_worker" /\ pc = "stable"
      /\ UNCHANGED <<latest, defs, serving, task, schema>>
  BY DEF UpdateService, UpdateStep, PCs, Steps
<1>1. /\ run[r] \in RunRow /\ RowOK(r, run[r]) /\ run \in [RunIds -> RunRow] /\ schema \in Nat
      /\ target \in [Services -> Refs] /\ desired \in [Services -> {0, 1}]
  BY Facts
<1>2. /\ q \in RunRow /\ q.pc = pc /\ q.op = run[r].op /\ q.mode = run[r].mode
      /\ q.image = run[r].image /\ q.def = run[r].def
      /\ q.prev = run[r].prev /\ q.prevImage = run[r].prevImage
  BY <1>0, AtIs
<1>3. run' = [run EXCEPT ![r] = q]
  BY <1>0, <1>1 DEF Proceed, At
<1> HIDE DEF q, pc
<1>4. run' \in [RunIds -> RunRow] /\ run'[r] = q
  BY <1>1, <1>2, <1>3
<1>5. /\ run[r].image \in Digests /\ r = latest
      /\ \A x \in Services : run[r].def[x] \in Refs /\ Covers(x, run[r].def[x])
  BY <1>0, <1>1 DEF RowOK, RecordOK, IdentityOK, Promoting, Steps
<1>6. /\ target' \in [Services -> Refs]
      /\ \A x \in Services : target'[x] = IF x = s THEN run[r].def[s] ELSE target[x]
  BY <1>1, <1>5 DEF UpdateService
<1>7. /\ desired' \in [Services -> {0, 1}]
      /\ \A x \in Services : desired[x] = 1 => desired'[x] = 1
  BY <1>1 DEF UpdateService
<1>8. ReleaseTypeOK'
  BY <1>0, <1>4, <1>6, <1>7 DEF RInv, ReleaseTypeOK
<1>9. ServicesOK'
  <2>1. \A x \in Services : Covers(x, target'[x]) /\ Covers(x, serving[x])
    BY <1>5, <1>6 DEF RInv, ServicesOK
  <2>2. \A x \in Services : serving[x] # None => desired'[x] = 1
    BY <1>7 DEF RInv, ServicesOK
  <2>. QED BY <1>0, <2>1, <2>2 DEF ServicesOK, Covers, ImageOf
<1>10. RowOK(r, run[r])'
  <2>0. pc \in {"update_worker", "stable"}
    BY <1>0 DEF Services
  <2>1. IdentityOK(r, run[r])'
    BY <1>0, <1>1, <1>2, <1>4, <2>0 DEF RowOK, IdentityOK, Early, Steps
  <2>2. PathOK(r, run[r])'
    BY <1>0, <1>1, <1>2, <1>4, <2>0 DEF RowOK, PathOK, Building, AfterCapture, Promoting, Verifying
  <2>3. MigrationOK(r, run[r])'
    BY <1>0, <1>1, <1>2, <1>4 DEF RowOK, MigrationOK, MigrationSucceeded
  <2>4. RecordOK(r, run[r])'
    BY <1>0, <1>1, <1>2, <1>4, <2>0 DEF RowOK, RecordOK, Covers, ImageOf, Promoting, Verifying, AfterCapture, Building
  <2>5. StandingOK(r, run[r])
    BY <1>1 DEF RowOK
  <2>6. "api" \in Services /\ "worker" \in Services /\ "api" # "worker" /\ s \in {"api", "worker"}
    BY DEF Services
  <2>7. /\ target'["api"] = q.def["api"]
        /\ q.pc = "stable" => target'["worker"] = q.def["worker"]
        /\ q.pc = "update_worker" /\ q.mode = "upgrade" => target'["worker"] = q.prev["worker"]
    BY <1>0, <1>2, <1>5, <1>6, <2>5, <2>6 DEF StandingOK, Promoting, Building
  <2>8. StandingOK(r, run[r])'
    BY <1>2, <1>4, <2>0, <2>7 DEF StandingOK, Building, Promoting, Verifying
  <2>. QED BY <2>1, <2>2, <2>3, <2>4, <2>8 DEF RowOK
<1>11. ASSUME NEW x \in RunIds, x # r PROVE RowOK(x, run[x])'
  <2>1. run'[x] = run[x] /\ run[x].pc \notin Steps
    BY <1>1, <1>3, <1>5, <1>11, Facts DEF RowOK, IdentityOK
  <2>. QED BY <1>0, <1>1, <1>5, <1>11, <2>1, OtherRun DEF ImageOf
<1>. QED BY <1>8, <1>9, <1>10, <1>11 DEF RInv

\* The migration tasks, which go on by themselves.
LEMMA MigrationStepsOK ==
    ASSUME RInv, NEW r \in RunIds,
           \/ MigrationBegins(r)
           \/ \E exited \in BOOLEAN, code \in {0, 1}, commits \in BOOLEAN :
                MigrationEnds(r, exited, code, commits)
    PROVE  RInv'
<1>0. /\ UNCHANGED <<run, latest, defs, target, serving, desired>>
      /\ task[r].status \in {"pending", "running"}
  BY DEF MigrationBegins, MigrationEnds
<1>1. /\ run[r] \in RunRow /\ RowOK(r, run[r]) /\ schema \in Nat
      /\ task \in [RunIds -> TaskRow] /\ task[r] \in TaskRow
  BY Facts
<1>2. run[r].image \in Digests /\ HeadOf[run[r].image] \in Nat
  BY <1>0, <1>1 DEF RowOK, MigrationOK
<1>3. PICK row \in TaskRow :
        /\ task' = [task EXCEPT ![r] = row] /\ row.status # "none"
        /\ schema' \in Nat /\ schema <= schema'
        /\ row.status = "stopped" /\ row.exited /\ row.code = 0 => HeadOf[run[r].image] <= schema'
        /\ row.status = "running" => row.base <= schema'
  <2>1. CASE MigrationBegins(r)
    <3> DEFINE row == [task[r] EXCEPT !.status = "running", !.base = schema]
    <3>1. row \in TaskRow /\ row.status = "running" /\ row.base = schema
      BY <1>1 DEF TaskRow
    <3>2. task' = [task EXCEPT ![r] = row] /\ schema' = schema
      BY <1>1, <2>1 DEF MigrationBegins
    <3>3. schema' \in Nat /\ schema <= schema'
      BY <1>1, <3>2
    <3> HIDE DEF row
    <3>. QED BY <3>1, <3>2, <3>3
  <2>2. ASSUME NEW exited \in BOOLEAN, NEW code \in {0, 1}, NEW commits \in BOOLEAN,
               MigrationEnds(r, exited, code, commits)
        PROVE  \E row \in TaskRow :
                 /\ task' = [task EXCEPT ![r] = row] /\ row.status # "none"
                 /\ schema' \in Nat /\ schema <= schema'
                 /\ row.status = "stopped" /\ row.exited /\ row.code = 0 =>
                      HeadOf[run[r].image] <= schema'
                 /\ row.status = "running" => row.base <= schema'
    <3> DEFINE row == [task[r] EXCEPT !.status = "stopped", !.exited = exited, !.code = code]
    <3>1. row \in TaskRow /\ row.status = "stopped" /\ row.exited = exited /\ row.code = code
      BY <1>1 DEF TaskRow
    <3>2. task' = [task EXCEPT ![r] = row]
      BY <1>1, <2>2 DEF MigrationEnds
    <3>3. /\ commits => schema <= HeadOf[run[r].image]
          /\ exited /\ code = 0 => commits \/ task[r].base = HeadOf[run[r].image]
          /\ task[r].status = "running"
          /\ schema' = IF commits THEN HeadOf[run[r].image] ELSE schema
      BY <2>2 DEF MigrationEnds
    <3>4. schema' \in Nat /\ schema <= schema'
      BY <1>1, <1>2, <3>3
    <3>5. exited /\ code = 0 => HeadOf[run[r].image] <= schema'
      <4>1. task[r].base <= schema
        BY <1>1, <3>3 DEF RowOK, MigrationOK
      <4>2. CASE commits
        BY <1>2, <3>3, <4>2
      <4>3. CASE ~ commits
        BY <1>1, <3>3, <4>1, <4>3
      <4>. QED BY <4>2, <4>3
    <3> HIDE DEF row
    <3>. QED BY <3>1, <3>2, <3>4, <3>5
  <2>. QED BY <2>1, <2>2
<1>4. /\ task' \in [RunIds -> TaskRow] /\ task'[r] = row
      /\ \A x \in RunIds : x # r => task'[x] = task[x]
  BY <1>1, <1>3
<1>5. ReleaseTypeOK'
  BY <1>0, <1>3, <1>4 DEF RInv, ReleaseTypeOK
<1>6. ServicesOK'
  BY <1>0, <1>3, ServicesStay DEF ImageOf
<1>7. RowOK(r, run[r])'
  <2>1. ASSUME NEW s \in Services, NEW d, Covers(s, d) PROVE Covers(s, d)'
    <3>. SUFFICES ASSUME d \in RunIds
                 PROVE  ImageOf(s, d)' \in Digests /\ HeadOf[ImageOf(s, d)'] <= schema'
      BY DEF Covers
    <3>1. /\ ImageOf(s, d) \in Digests /\ HeadOf[ImageOf(s, d)] <= schema
          /\ ImageOf(s, d)' = ImageOf(s, d) /\ HeadOf[ImageOf(s, d)] \in Nat
      BY <1>0, <2>1 DEF Covers, ImageOf
    <3>. QED BY <1>1, <1>3, <3>1
  <2>2. IdentityOK(r, run[r])'
    BY <1>0, <1>1 DEF RowOK, IdentityOK
  <2>3. PathOK(r, run[r])'
    BY <1>0, <1>1 DEF RowOK, PathOK
  <2>4. MigrationOK(r, run[r])'
    BY <1>0, <1>2, <1>3, <1>4 DEF MigrationOK, MigrationSucceeded
  <2>5. RecordOK(r, run[r])'
    <3>1. RecordOK(r, run[r])
      BY <1>1 DEF RowOK
    <3>2. \A s \in Services : /\ Covers(s, run[r].prev[s])'
                              /\ run[r].op = "rollback" => Covers(s, run[r].def[s])'
                              /\ run[r].pc \in Promoting => Covers(s, run[r].def[s])'
      BY <1>0, <2>1, <3>1 DEF RecordOK
    <3>. QED BY <1>0, <3>1, <3>2 DEF RecordOK, ImageOf
  <2>6. StandingOK(r, run[r])'
    BY <1>0, <1>1 DEF RowOK, StandingOK
  <2>. QED BY <2>2, <2>3, <2>4, <2>5, <2>6 DEF RowOK
<1>8. ASSUME NEW x \in RunIds, x # r PROVE RowOK(x, run[x])'
  <2>1. run[x].pc \in Steps => latest = x
    BY Facts DEF RowOK, IdentityOK
  <2>. QED BY <1>0, <1>3, <1>4, <1>8, <2>1, OtherRun DEF ImageOf
<1>. QED BY <1>5, <1>6, <1>7, <1>8 DEF RInv

LEMMA ConvergeOK ==
    ASSUME RInv, NEW s \in Services, Converge(s)
    PROVE  RInv'
<1>0. /\ UNCHANGED <<run, latest, defs, target, desired, task, schema>> /\ desired[s] = 1
  BY DEF Converge
<1>1. /\ target \in [Services -> Refs] /\ serving \in [Services -> Refs \cup {None}]
      /\ schema \in Nat
  BY DEF RInv, ReleaseTypeOK
<1>2. /\ serving' \in [Services -> Refs \cup {None}]
      /\ \A x \in Services : serving'[x] = IF x = s THEN target[s] ELSE serving[x]
  BY <1>1 DEF Converge
<1>3. ReleaseTypeOK'
  BY <1>0, <1>2 DEF RInv, ReleaseTypeOK
<1>4. ServicesOK'
  <2>1. \A x \in Services : /\ Covers(x, target[x]) /\ Covers(x, serving'[x])
                            /\ serving'[x] # None => desired[x] = 1
    BY <1>0, <1>2 DEF RInv, ServicesOK
  <2>. QED BY <1>0, <2>1 DEF ServicesOK, Covers, ImageOf
<1>5. ASSUME NEW x \in RunIds PROVE RowOK(x, run[x])'
  <2>1. run[x].pc \in Steps => latest = x
    BY Facts DEF RowOK, IdentityOK
  <2>2. \A y \in Services : serving'[y] \in {serving[y], target[y]}
    BY <1>2
  <2>. QED BY <1>0, <1>1, <2>1, <2>2, OtherRun DEF ImageOf
<1>. QED BY <1>3, <1>4, <1>5 DEF RInv

LEMMA StutterOK ==
    ASSUME RInv, UNCHANGED releaseVars
    PROVE  RInv'
<1>0. UNCHANGED <<run, latest, defs, target, serving, desired, task, schema>>
  BY DEF releaseVars
<1>1. schema \in Nat
  BY DEF RInv, ReleaseTypeOK
<1>2. ASSUME NEW x \in RunIds PROVE RowOK(x, run[x])'
  <2>1. run[x].pc \in Steps => latest = x
    BY Facts DEF RowOK, IdentityOK
  <2>. QED BY <1>0, <1>1, <2>1, OtherRun DEF ImageOf
<1>3. ServicesOK'
  BY <1>0, <1>1, ServicesStay DEF ImageOf
<1>4. ReleaseTypeOK'
  BY <1>0 DEF RInv, ReleaseTypeOK
<1>. QED BY <1>2, <1>3, <1>4 DEF RInv

LEMMA StepKeepsRInv ==
    ASSUME RInv, [ReleaseNext]_releaseVars
    PROVE  RInv'
<1>1. ASSUME NEW r \in RunIds, RunStep(r) PROVE RInv'
  BY <1>1, ValidateOK, CaptureOK, BuildOK, RegisterOK, PlainSteps, RunMigrationOK,
     PromotionStarts, UpdateOK, ChecksOK DEF RunStep
<1>2. ASSUME NEW r \in RunIds,
             \/ Dispatch(r) \/ Stop(r) \/ MigrationBegins(r)
             \/ \E exited \in BOOLEAN, code \in {0, 1}, commits \in BOOLEAN :
                  MigrationEnds(r, exited, code, commits)
      PROVE  RInv'
  BY <1>2, DispatchOK, PlainSteps, MigrationStepsOK
<1>3. ASSUME NEW s \in Services, Converge(s) PROVE RInv'
  BY <1>3, ConvergeOK
<1>. QED BY <1>1, <1>2, <1>3, StutterOK DEF ReleaseNext

LEMMA InitRInv ==
    ASSUME ReleaseInit PROVE RInv
<1>1. ReleaseTypeOK
  <2>1. NoRefs \in [Services -> Refs \cup {None}]
    BY DEF NoRefs
  <2>2. \A f \in Families : [x \in Refs |-> IF x = Shell THEN Placeholder ELSE None] \in
                             [Refs -> Digests \cup {Placeholder, None}]
    OBVIOUS
  <2>3. run \in [RunIds -> RunRow]
    BY <2>1 DEF ReleaseInit, RunRow
  <2>4. defs \in [Families -> [Refs -> Digests \cup {Placeholder, None}]]
    BY <2>2 DEF ReleaseInit
  <2>5. task \in [RunIds -> TaskRow]
    BY DEF ReleaseInit, TaskRow
  <2>6. target \in [Services -> Refs] /\ serving \in [Services -> Refs \cup {None}]
    BY <2>1 DEF ReleaseInit, Refs
  <2>. QED BY <2>3, <2>4, <2>5, <2>6 DEF ReleaseInit, ReleaseTypeOK
<1>2. ServicesOK
  BY DEF ReleaseInit, ServicesOK, Covers, NoRefs
<1>3. ASSUME NEW r \in RunIds PROVE RowOK(r, run[r])
  <2>1. /\ run[r].pc = "new" /\ run[r].op = "deploy" /\ run[r].prev = NoRefs
        /\ task[r].status = "none"
    BY DEF ReleaseInit
  <2>2. \A f \in Families : defs[f][r] = None
    BY DEF ReleaseInit, Refs
  <2>3. IdentityOK(r, run[r])
    BY <2>1, <2>2 DEF IdentityOK, Steps
  <2>4. PathOK(r, run[r])
    BY <2>1 DEF PathOK, AfterCapture, Building, Promoting, Verifying
  <2>5. MigrationOK(r, run[r])
    BY <2>1 DEF MigrationOK, MigrationSucceeded
  <2>6. RecordOK(r, run[r])
    BY <2>1 DEF RecordOK, Covers, NoRefs, AfterCapture, Building, Promoting, Verifying
  <2>7. StandingOK(r, run[r])
    BY <2>1 DEF StandingOK, Building, Promoting, Verifying
  <2>. QED BY <2>3, <2>4, <2>5, <2>6, <2>7 DEF RowOK
<1>. QED BY <1>1, <1>2, <1>3 DEF RInv

-----------------------------------------------------------------------------
\* The inductive invariant: what each run of the workflow has registered,
\* migrated, recorded and promoted, wherever it stands or stopped.
THEOREM ReleaseInvariant == ReleaseSpec => []RInv
<1>1. RInv /\ [ReleaseNext]_releaseVars => RInv'
  BY StepKeepsRInv
<1>. QED BY InitRInv, <1>1, PTL DEF ReleaseSpec

\* Types hold: a release is only ever an image with a digest, whatever the
\* services ran before (release_contract.py).
THEOREM ReleaseTypes == ReleaseSpec => []ReleaseTypeOK
<1>1. RInv => ReleaseTypeOK
  BY DEF RInv
<1>. QED BY <1>1, ReleaseInvariant, PTL

\* The database has the migrations of whatever the services are set to and
\* serve (the migration step before the promotion).
THEOREM SchemaCovers == ReleaseSpec => []SchemaCoversServices
<1>1. RInv => SchemaCoversServices
  BY DEF RInv, ServicesOK, SchemaCoversServices, Covers
<1>. QED BY <1>1, ReleaseInvariant, PTL

\* Evidence names one release, and one before it (build_release_evidence).
THEOREM EvidenceNamesOneRelease == ReleaseSpec => []EvidenceIsOneRelease
<1>1. RInv => EvidenceIsOneRelease
  BY Facts DEF EvidenceIsOneRelease, Done, RowOK, RecordOK, Promoting, AfterCapture, Verifying
<1>. QED BY <1>1, ReleaseInvariant, PTL

\* The last evidence's release is what both services serve (wait
\* services-stable and the smoke test before the evidence).
THEOREM EvidenceServes == ReleaseSpec => []EvidenceIsServing
<1>1. ASSUME RInv, latest \in Done, NEW s \in Services
      PROVE  target[s] = run[latest].def[s] /\ serving[s] = run[latest].def[s]
  <2>1. latest \in RunIds /\ run[latest].pc = "done"
    BY <1>1 DEF Done
  <2>2. StandingOK(latest, run[latest])
    BY <1>1, <2>1, Facts DEF RowOK
  <2>3. /\ \A x \in Services : target[x] = run[latest].def[x]
        /\ desired[s] = 1 => serving[s] = target[s]
        /\ serving[s] # None
    BY <2>1, <2>2 DEF StandingOK, Promoting, Verifying, Services
  <2>4. desired[s] = 1
    BY <1>1, <2>3 DEF RInv, ServicesOK
  <2>. QED BY <2>3, <2>4
<1>2. RInv => EvidenceIsServing
  BY <1>1 DEF EvidenceIsServing
<1>. QED BY <1>2, ReleaseInvariant, PTL

\* Only an update-service call changes what a service is set to.
LEMMA TargetChanges ==
    ASSUME ReleaseNext, target' # target
    PROVE  \E r \in RunIds, s \in Services : UpdateService(r, s)
<1>1. ASSUME NEW r \in RunIds, RunStep(r) PROVE \E s \in Services : UpdateService(r, s)
  BY <1>1 DEF RunStep, ValidateConfig, CaptureRelease, BuildImage, RegisterDefinition,
       VerifyParity, RunMigration, AwaitMigration, ValidateTargets, WaitStable,
       SmokeRequests, PollDocument, ScanLogs, WriteEvidence
<1>2. ASSUME NEW r \in RunIds
      PROVE  ~ Dispatch(r) /\ ~ Stop(r) /\ ~ MigrationBegins(r)
             /\ \A exited, code, commits : ~ MigrationEnds(r, exited, code, commits)
  BY DEF Dispatch, Start, Stop, MigrationBegins, MigrationEnds
<1>3. \A s : ~ Converge(s)
  BY DEF Converge
<1>. QED BY <1>1, <1>2, <1>3 DEF ReleaseNext

\* What an upgrade or a rollback replaces is what it recorded (the workflow's
\* concurrency group).
THEOREM RecordedIsReplaced == ReleaseSpec => ReplacesWhatItRecorded
<1>1. ASSUME RInv, ReleaseNext, NEW s \in Services, target'[s] # target[s]
      PROVE  \E r \in RunIds : /\ run[r].pc = UpdateStep(s)
                               /\ run[r].mode = "bootstrap" \/ run[r].prev[s] = target[s]
  <2>1. PICK r \in RunIds, x \in Services : UpdateService(r, x)
    BY <1>1, TargetChanges
  <2>2. x = s
    <3>1. target \in [Services -> Refs]
      BY <1>1, <2>1, Facts
    <3>. QED BY <1>1, <2>1, <3>1 DEF UpdateService
  <2>3. run[r].pc = UpdateStep(s) /\ run[r] \in RunRow /\ StandingOK(r, run[r])
    BY <1>1, <2>1, <2>2, Facts DEF UpdateService, RowOK
  <2>4. run[r].mode \in {"bootstrap", "upgrade"} /\ s \in {"api", "worker"}
    BY <2>3 DEF RunRow, Services
  <2>. QED BY <2>3, <2>4 DEF StandingOK, UpdateStep
<1>2. ASSUME RInv, [ReleaseNext]_releaseVars
      PROVE  [\A s \in Services : target'[s] # target[s] =>
                \E r \in RunIds : /\ run[r].pc = UpdateStep(s)
                                  /\ run[r].mode = "bootstrap" \/ run[r].prev[s] = target[s]]_releaseVars
  BY <1>1, <1>2
<1>. QED BY <1>2, ReleaseInvariant, PTL DEF ReleaseSpec, ReplacesWhatItRecorded

\* From two images in service only a bootstrap, or the run that is about to
\* update the second service, gets on (the captured digests must be equal).
THEOREM BootstrapEndsMixture == ReleaseSpec => MixedNeedsBootstrap
<1>1. ASSUME RInv, ReleaseNext, Mixed, target' # target
      PROVE  \E r \in RunIds : InProgress(r) /\ (run[r].pc = "update_worker" \/ run[r].mode = "bootstrap")
  <2>1. PICK r \in RunIds, x \in Services : UpdateService(r, x)
    BY <1>1, TargetChanges
  <2>2. /\ run[r].pc \in {"update_api", "update_worker"} /\ run[r] \in RunRow
        /\ RowOK(r, run[r])
    BY <1>1, <2>1, Facts DEF UpdateService, UpdateStep
  <2>3. InProgress(r) /\ run[r].mode \in {"bootstrap", "upgrade"}
    BY <2>2 DEF InProgress, Steps, RunRow
  <2>4. run[r].pc = "update_api" /\ run[r].mode = "upgrade" => ~ Mixed
    <3>. SUFFICES ASSUME run[r].pc = "update_api", run[r].mode = "upgrade" PROVE ~ Mixed
      OBVIOUS
    <3>1. run[r].prev = target
      BY <2>2 DEF RowOK, StandingOK
    <3>2. \A s \in Services : ImageOf(s, run[r].prev[s]) = run[r].prevImage
      BY <2>2 DEF RowOK, RecordOK, AfterCapture, Promoting
    <3>. QED BY <3>1, <3>2 DEF Mixed, Services
  <2>. QED BY <1>1, <2>2, <2>3, <2>4
<1>2. ASSUME RInv, [ReleaseNext]_releaseVars
      PROVE  [Mixed /\ target' # target =>
                \E r \in RunIds :
                  InProgress(r) /\ (run[r].pc = "update_worker" \/ run[r].mode = "bootstrap")]_releaseVars
  BY <1>1, <1>2
<1>. QED BY <1>2, ReleaseInvariant, PTL DEF ReleaseSpec, MixedNeedsBootstrap
=============================================================================
