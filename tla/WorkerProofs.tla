--------------------------- MODULE WorkerProofs ---------------------------
(***************************************************************************)
(* Proofs about module WorkerProcess, for every set of candidate settings, *)
(* document sizes and limits.  The invariant keeps, for the child, that    *)
(* its runtime is empty or all of its own making, and, for a scan, the     *)
(* budget that each exchange leaves to the next.                           *)
(***************************************************************************)
EXTENDS WorkerProcess, TLAPS

\* The clients that a runtime can close.
Held(r) == [engine |-> IF r.engine THEN 1 ELSE 0,
            storage |-> IF r.storage THEN S3Client ELSE 0]

ChildOK ==
    /\ pid # None => worker = "up"
    /\ worker = "up" => Accepted(settings)
    /\ runtime = NoRuntime \/ (pid # None /\ runtime = Rebuilt(pid) /\ Buildable)
    /\ open = Held(runtime)

\* A delivery runs in a child, past get_service with a service of its own.
PlaceOK(t) ==
    /\ t.pc # "idle" => pid # None
    /\ t.pc \in {"stage", "gate", "connect", "send", "recv", "extract"} =>
         runtime = Rebuilt(pid)

\* The limits of a delivery.
TimesOK(t) ==
    /\ t.at <= settings.hardLimit
    /\ t.at > settings.softLimit => t.warned

\* What the exchanges may have used of the scan's time when this one ends.
Allowed(exchange) ==
    IF exchange = "PING" THEN settings.connectTimeout
    ELSE IF exchange = "VERSION" THEN 2 * settings.connectTimeout
         ELSE 2 * settings.connectTimeout + settings.scanTimeout

Talking == {"connect", "send", "recv"}

ExchangeOK(t) ==
    t.pc \in Talking =>
        /\ settings.scanner = "clamd" /\ t.exchange \in Exchanges
        /\ t.begun <= t.at /\ t.at <= t.until /\ t.until <= t.deadline
        /\ t.deadline <= t.begun + Allowed(t.exchange)

\* The stream: how much of it went, and how old the definitions may be.
StreamOK(t, a) ==
    t.pc \in Talking /\ t.exchange = "INSTREAM" =>
        /\ t.sent <= StreamLimit
        /\ t.pc = "recv" => t.sent = t.size
        /\ t.deadline <= t.at + settings.scanTimeout
        /\ - settings.skew <= a
        /\ a <= settings.maxAge + settings.scanTimeout - (t.deadline - t.at)

GateOK(t) == t.pc = "gate" => settings.gate /\ settings.scanner # "clamd"

TaskOK(t, a) == PlaceOK(t) /\ TimesOK(t) /\ ExchangeOK(t) /\ StreamOK(t, a) /\ GateOK(t)

WInv == WorkerTypeOK /\ ChildOK /\ TaskOK(task, age)

-----------------------------------------------------------------------------
\* The settings of a worker are numbers and flags of the declared types.
LEMMA SettingsTypes ==
    ASSUME WorkerTypeOK
    PROVE  /\ settings \in SettingsRow
           /\ settings.connectTimeout \in Nat /\ settings.scanTimeout \in Nat
           /\ settings.gateTimeout \in Nat /\ settings.maxAge \in Nat
           /\ settings.skew \in Nat /\ settings.softLimit \in Nat
           /\ settings.hardLimit \in Nat /\ settings.visibility \in Nat
           /\ settings.gate \in BOOLEAN /\ AgeCap \in Nat
<1>1. settings \in SettingsRow /\ AgeCap \in Nat
  BY WorkerAssumption DEF WorkerTypeOK
<1>. QED BY <1>1 DEF SettingsRow

\* A row's fields have their types.
LEMMA RowTypes ==
    ASSUME NEW t \in TaskRow
    PROVE  /\ t.at \in Nat /\ t.waited \in Nat /\ t.begun \in Nat /\ t.sent \in Nat /\ t.deadline \in Nat
           /\ t.until \in Nat /\ t.pieces \in Nat /\ t.warned \in BOOLEAN
           /\ t.size \in Sizes \cup {0} /\ t.exchange \in Exchanges \cup {"none"}
           /\ t.verdict \in Verdicts \cup {"none"}
  BY DEF TaskRow

\* Begun gives an exchange its time and keeps the delivery's clock.
LEMMA BegunFields ==
    ASSUME WorkerTypeOK, NEW t \in TaskRow, NEW x \in Exchanges
    PROVE  /\ Begun(t, x) \in TaskRow
           /\ Begun(t, x).pc = "connect" /\ Begun(t, x).exchange = x
           /\ Begun(t, x).sent = 0
           /\ Begun(t, x).at = t.at /\ Begun(t, x).begun = t.begun
           /\ Begun(t, x).warned = t.warned /\ Begun(t, x).verdict = t.verdict
           /\ Begun(t, x).deadline =
                t.at + (IF x = "INSTREAM" THEN settings.scanTimeout ELSE settings.connectTimeout)
           /\ t.at <= Begun(t, x).until /\ Begun(t, x).until <= Begun(t, x).deadline
<1> DEFINE seconds == IF x = "INSTREAM" THEN settings.scanTimeout ELSE settings.connectTimeout
           d == t.at + seconds
           u == t.at + Lower(settings.connectTimeout, seconds)
           row == Begun(t, x)
<1>1. row = [t EXCEPT !.pc = "connect", !.exchange = x, !.pieces = 0, !.sent = 0,
                      !.deadline = d, !.until = u]
  BY DEF Begun
<1>2. d \in Nat /\ u \in Nat /\ t.at <= u /\ u <= d
  BY SettingsTypes, RowTypes DEF Lower
<1>3. d = t.at + (IF x = "INSTREAM" THEN settings.scanTimeout ELSE settings.connectTimeout)
  OBVIOUS
<1>. SUFFICES /\ row \in TaskRow
              /\ row.pc = "connect" /\ row.exchange = x /\ row.sent = 0
              /\ row.at = t.at /\ row.begun = t.begun /\ row.warned = t.warned
              /\ row.verdict = t.verdict /\ row.deadline = d
              /\ t.at <= row.until /\ row.until <= row.deadline
  BY <1>3
<1> HIDE DEF seconds, d, u, row
<1>. QED BY <1>1, <1>2 DEF TaskRow

\* Judged ends the scan and keeps the delivery's clock.
LEMMA JudgedFields ==
    ASSUME NEW t \in TaskRow, NEW v \in Verdicts
    PROVE  /\ Judged(t, v) \in TaskRow
           /\ Judged(t, v).pc = IF v = "clean" THEN "extract" ELSE "end"
           /\ Judged(t, v).at = t.at /\ Judged(t, v).warned = t.warned
           /\ Judged(t, v).verdict = v
  BY DEF Judged, TaskRow, Verdicts

\* A judged delivery keeps its place and its limits.
LEMMA JudgedOK ==
    ASSUME NEW t \in TaskRow, NEW v \in Verdicts, NEW a, TimesOK(t),
           pid # None, runtime = Rebuilt(pid)
    PROVE  TaskOK(Judged(t, v), a)
<1> DEFINE j == Judged(t, v)
<1>1. j.pc \in {"extract", "end"} /\ j.at = t.at /\ j.warned = t.warned
  BY JudgedFields DEF Verdicts
<1>. SUFFICES TaskOK(j, a)
  OBVIOUS
<1> HIDE DEF j
<1>. QED BY <1>1 DEF TaskOK, PlaceOK, TimesOK, ExchangeOK, StreamOK, GateOK, Talking

\* A row that leaves the scanner keeps its place and its limits.
LEMMA ElsewhereOK ==
    ASSUME NEW t, NEW a, t.pc \in {"idle", "service", "stage", "extract", "end"},
           PlaceOK(t), TimesOK(t)
    PROVE  TaskOK(t, a)
  BY DEF TaskOK, ExchangeOK, StreamOK, GateOK, Talking

\* What WInv says of the delivery and of the settings that run it.
LEMMA TaskFacts ==
    ASSUME WInv
    PROVE  /\ WorkerTypeOK /\ task \in TaskRow /\ age \in Int
           /\ PlaceOK(task) /\ TimesOK(task) /\ ExchangeOK(task)
           /\ StreamOK(task, age) /\ GateOK(task)
           /\ task.pc # "idle" => pid # None /\ worker = "up" /\ Accepted(settings)
  BY DEF WInv, WorkerTypeOK, TaskOK, ChildOK, PlaceOK

\* A new exchange begins within what the last one was allowed.
LEMMA BegunOK ==
    ASSUME WorkerTypeOK, NEW t \in TaskRow, NEW x \in Exchanges, TimesOK(t),
           pid # None, runtime = Rebuilt(pid), settings.scanner = "clamd",
           t.begun <= t.at, age \in Int,
           x = "PING" => t.at = t.begun,
           x = "VERSION" => t.at <= t.begun + settings.connectTimeout,
           x = "INSTREAM" => t.at <= t.begun + 2 * settings.connectTimeout /\ FreshEnough
    PROVE  Begun(t, x) \in TaskRow /\ TaskOK(Begun(t, x), age)
<1> DEFINE row == Begun(t, x)
<1>1. /\ row \in TaskRow
      /\ row.pc = "connect" /\ row.exchange = x /\ row.sent = 0
      /\ row.at = t.at /\ row.begun = t.begun /\ row.warned = t.warned
      /\ row.deadline = t.at + (IF x = "INSTREAM" THEN settings.scanTimeout
                                ELSE settings.connectTimeout)
      /\ t.at <= row.until /\ row.until <= row.deadline
  BY BegunFields
<1>. SUFFICES TaskOK(row, age)
  BY <1>1
<1> HIDE DEF row
<1>2. PlaceOK(row) /\ TimesOK(row) /\ GateOK(row)
  BY <1>1 DEF PlaceOK, TimesOK, GateOK
<1>3. /\ t.at \in Nat /\ t.begun \in Nat /\ settings.connectTimeout \in Nat
      /\ settings.scanTimeout \in Nat /\ settings.maxAge \in Nat /\ settings.skew \in Nat
  BY SettingsTypes, RowTypes
<1>4. row.deadline <= row.begun + Allowed(row.exchange)
  BY <1>1, <1>3 DEF Allowed, Exchanges
<1>5. ExchangeOK(row)
  BY <1>1, <1>4 DEF ExchangeOK
<1>6. StreamOK(row, age)
  BY <1>1, <1>3, ScannerAssumption DEF StreamOK, FreshEnough
<1>. QED BY <1>2, <1>5, <1>6 DEF TaskOK

\* A call within an exchange may take what is left of it.
LEMMA RemainingOK ==
    ASSUME WInv, NEW t \in TaskRow, task.pc \in Talking, InTime,
           t.pc \in Talking, t.exchange = task.exchange, t.at = task.at,
           t.begun = task.begun, t.deadline = task.deadline, t.warned = task.warned,
           t.exchange = "INSTREAM" =>
               t.sent <= StreamLimit /\ (t.pc = "recv" => t.sent = t.size)
    PROVE  Remaining(t) \in TaskRow /\ TaskOK(Remaining(t), age)
<1> DEFINE row == Remaining(t)
<1>1. /\ row \in TaskRow /\ row.pc = t.pc /\ row.exchange = t.exchange
      /\ row.at = t.at /\ row.begun = t.begun /\ row.deadline = t.deadline
      /\ row.until = t.deadline /\ row.warned = t.warned /\ row.sent = t.sent
      /\ row.size = t.size
  BY DEF Remaining, TaskRow
<1>. SUFFICES TaskOK(row, age)
  BY <1>1
<1> HIDE DEF row
<1>2. /\ WorkerTypeOK /\ PlaceOK(task) /\ TimesOK(task) /\ ExchangeOK(task)
      /\ StreamOK(task, age) /\ GateOK(task) /\ task.at \in Nat /\ task.deadline \in Nat
  BY TaskFacts, RowTypes
<1>3. PlaceOK(row) /\ TimesOK(row) /\ GateOK(row)
  BY <1>1, <1>2 DEF PlaceOK, TimesOK, GateOK, Talking
<1>4. ExchangeOK(row)
  BY <1>1, <1>2 DEF ExchangeOK, InTime
<1>5. StreamOK(row, age)
  BY <1>1, <1>2 DEF StreamOK
<1>. QED BY <1>3, <1>4, <1>5 DEF TaskOK

\* The row that a scan begins with.
LEMMA ScanBeginsOK ==
    ASSUME WInv, task.pc = "stage"
    PROVE  ScanBegins(task) \in TaskRow /\ TaskOK(ScanBegins(task), age)
<1> DEFINE s == [task EXCEPT !.begun = task.at]
<1>1. /\ s \in TaskRow /\ s.at = task.at /\ s.begun = task.at /\ s.warned = task.warned
  BY TaskFacts DEF TaskRow
<1>2. pid # None /\ runtime = Rebuilt(pid) /\ TimesOK(s) /\ WorkerTypeOK /\ age \in Int
      /\ task.at \in Nat /\ TimesOK(task)
  BY <1>1, TaskFacts, RowTypes DEF PlaceOK, TimesOK
<1>3. CASE settings.scanner = "clamd"
  <2>1. ScanBegins(task) = Begun(s, "PING")
    BY <1>3 DEF ScanBegins
  <2> HIDE DEF s
  <2>. QED BY <1>1, <1>2, <1>3, <2>1, BegunOK DEF Exchanges
<1>4. CASE settings.scanner # "clamd" /\ ~ settings.gate
  <2>1. ScanBegins(task) = Judged(s, "clean")
    BY <1>4 DEF ScanBegins
  <2> HIDE DEF s
  <2>. QED BY <1>1, <1>2, <2>1, JudgedOK, JudgedFields DEF Verdicts
<1>5. CASE settings.scanner # "clamd" /\ settings.gate
  <2> DEFINE until == task.at + settings.gateTimeout
             row == [s EXCEPT !.pc = "gate", !.deadline = until, !.until = until]
  <2>1. ScanBegins(task) = row
    BY <1>5 DEF ScanBegins
  <2>2. until \in Nat
    BY <1>2, SettingsTypes
  <2> HIDE DEF until, s
  <2>3. row \in TaskRow /\ row.pc = "gate" /\ row.at = task.at /\ row.warned = task.warned
    BY <1>1, <2>2 DEF TaskRow
  <2> HIDE DEF row
  <2>4. TaskOK(row, age)
    BY <1>2, <1>5, <2>3
    DEF TaskOK, PlaceOK, TimesOK, ExchangeOK, StreamOK, GateOK, Talking
  <2>. QED BY <2>1, <2>3, <2>4
<1>. QED BY <1>3, <1>4, <1>5

-----------------------------------------------------------------------------
\* Steps that leave the child and its clients alone, and the row fit.
LEMMA TaskStepOK ==
    ASSUME WInv, UNCHANGED <<settings, worker, pid, runtime, open>>,
           task' \in TaskRow, age' \in Int, age' <= AgeCap, TaskOK(task', age')
    PROVE  WInv'
<1>1. WorkerTypeOK'
  BY DEF WInv, WorkerTypeOK
<1>2. ChildOK'
  BY DEF WInv, ChildOK, Held, S3Client, Rebuilt, Buildable
<1>3. TaskOK(task, age)'
  BY DEF TaskOK, PlaceOK, TimesOK, ExchangeOK, StreamOK, GateOK, Allowed, Rebuilt
<1>. QED BY <1>1, <1>2, <1>3 DEF WInv

\* Every call of a scan.
LEMMA ScanOK ==
    ASSUME WInv, Scan
    PROVE  WInv'
<1>0. /\ task \in TaskRow /\ WorkerTypeOK /\ age \in Int /\ age <= AgeCap
      /\ UNCHANGED <<settings, worker, pid, runtime, open, age>>
      /\ TimesOK(task) /\ ExchangeOK(task) /\ StreamOK(task, age)
  BY TaskFacts DEF Scan, ScanStep, WorkerTypeOK
<1>1. ASSUME Scanning PROVE pid # None /\ runtime = Rebuilt(pid)
  BY <1>1, TaskFacts DEF PlaceOK, Scanning
<1>2. ASSUME NEW v \in Verdicts, Scanning, task' = Judged(task, v) PROVE WInv'
  <2>1. task' \in TaskRow /\ TaskOK(task', age')
    BY <1>0, <1>1, <1>2, JudgedFields, JudgedOK
  <2>. QED BY <1>0, <2>1, TaskStepOK
<1>3. CASE GateOpens \/ GateTimesOut \/ Unavailable
  <2>1. Scanning /\ \E v \in Verdicts : task' = Judged(task, v)
    BY <1>3 DEF GateOpens, GateTimesOut, Unavailable, Scanning, Verdicts
  <2>. QED BY <1>2, <2>1
<1>4. CASE Connected \/ SendChunk \/ CommandSent \/ ReplyContinues
  <2>1. task.pc \in Talking /\ InTime
    BY <1>4 DEF Connected, SendChunk, CommandSent, ReplyContinues, Talking
  <2>2. \E t \in TaskRow :
          /\ task' = Remaining(t)
          /\ t.pc \in Talking /\ t.exchange = task.exchange /\ t.at = task.at
          /\ t.begun = task.begun /\ t.deadline = task.deadline /\ t.warned = task.warned
          /\ t.exchange = "INSTREAM" =>
               t.sent <= StreamLimit /\ (t.pc = "recv" => t.sent = t.size)
    <3>0. task.sent \in Nat /\ StreamLimit \in Nat
          /\ (task.exchange = "INSTREAM" =>
               task.sent <= StreamLimit /\ (task.pc = "recv" => task.sent = task.size))
      BY <1>0, <2>1, RowTypes, ScannerAssumption DEF StreamOK
    <3>1. CASE Connected
      <4> DEFINE t == [task EXCEPT !.pc = "send"]
      <4>1. /\ t \in TaskRow /\ t.pc = "send" /\ t.exchange = task.exchange
            /\ t.at = task.at /\ t.begun = task.begun /\ t.deadline = task.deadline
            /\ t.warned = task.warned /\ t.sent = task.sent
        BY <1>0 DEF TaskRow
      <4>2. task' = Remaining(t)
        BY <3>1 DEF Connected
      <4> HIDE DEF t
      <4>. QED BY <3>0, <4>1, <4>2 DEF Talking
    <3>2. CASE SendChunk
      <4> DEFINE t == [task EXCEPT !.sent = @ + 1]
      <4>1. /\ t \in TaskRow /\ t.pc = "send" /\ t.exchange = task.exchange
            /\ t.at = task.at /\ t.begun = task.begun /\ t.deadline = task.deadline
            /\ t.warned = task.warned /\ t.sent = task.sent + 1
        BY <1>0, <3>2 DEF TaskRow, SendChunk
      <4>2. task' = Remaining(t) /\ task.sent < StreamLimit
        BY <3>2 DEF SendChunk
      <4> HIDE DEF t
      <4>3. t.sent <= StreamLimit
        BY <3>0, <4>1, <4>2
      <4>. QED BY <4>1, <4>2, <4>3 DEF Talking
    <3>3. CASE CommandSent
      <4> DEFINE t == [task EXCEPT !.pc = "recv"]
      <4>1. /\ t \in TaskRow /\ t.pc = "recv" /\ t.exchange = task.exchange
            /\ t.at = task.at /\ t.begun = task.begun /\ t.deadline = task.deadline
            /\ t.warned = task.warned /\ t.sent = task.sent /\ t.size = task.size
        BY <1>0 DEF TaskRow
      <4>2. task' = Remaining(t) /\ (task.exchange = "INSTREAM" => task.sent = task.size)
        BY <3>3 DEF CommandSent
      <4> HIDE DEF t
      <4>. QED BY <3>0, <4>1, <4>2 DEF Talking
    <3>4. CASE ReplyContinues
      <4> DEFINE t == [task EXCEPT !.pieces = @ + 1]
      <4>1. /\ t \in TaskRow /\ t.pc = "recv" /\ t.exchange = task.exchange
            /\ t.at = task.at /\ t.begun = task.begun /\ t.deadline = task.deadline
            /\ t.warned = task.warned /\ t.sent = task.sent /\ t.size = task.size
        BY <1>0, <3>4 DEF TaskRow, ReplyContinues
      <4>2. task' = Remaining(t) /\ task.pc = "recv"
        BY <3>4 DEF ReplyContinues
      <4> HIDE DEF t
      <4>. QED BY <3>0, <4>1, <4>2 DEF Talking
    <3>. QED BY <1>4, <3>1, <3>2, <3>3, <3>4
  <2>3. task' \in TaskRow /\ TaskOK(task', age)
    BY <2>1, <2>2, RemainingOK
  <2>. QED BY <1>0, <2>3, TaskStepOK
<1>5. CASE Answered
  <2>1. task.pc = "recv" /\ Scanning /\ task.pc \in Talking
    BY <1>5 DEF Answered, Scanning, Talking
  <2>2. /\ task.begun <= task.at /\ settings.scanner = "clamd"
        /\ task.at \in Nat /\ task.begun \in Nat
        /\ task.at <= task.begun + Allowed(task.exchange)
        /\ task.exchange \in Exchanges
    <3>1. /\ task.at \in Nat /\ task.begun \in Nat /\ task.until \in Nat
          /\ task.deadline \in Nat /\ Allowed(task.exchange) \in Nat
      BY <1>0, RowTypes, SettingsTypes DEF Allowed
    <3>. QED BY <1>0, <2>1, <3>1 DEF ExchangeOK
  <2>3. CASE task.exchange = "PING"
    <3>1. task' = Begun(task, "VERSION") /\ task.at <= task.begun + settings.connectTimeout
      BY <1>5, <2>2, <2>3 DEF Answered, Allowed
    <3>2. task' \in TaskRow /\ TaskOK(task', age)
      BY <1>0, <1>1, <2>1, <2>2, <3>1, BegunOK DEF Exchanges
    <3>. QED BY <1>0, <3>2, TaskStepOK
  <2>4. CASE task.exchange = "VERSION"
    <3>1. /\ task' = Begun(task, "INSTREAM") /\ FreshEnough
          /\ task.at <= task.begun + 2 * settings.connectTimeout
      BY <1>5, <2>2, <2>4 DEF Answered, Allowed
    <3>2. task' \in TaskRow /\ TaskOK(task', age)
      BY <1>0, <1>1, <2>1, <2>2, <3>1, BegunOK DEF Exchanges
    <3>. QED BY <1>0, <3>2, TaskStepOK
  <2>5. CASE task.exchange = "INSTREAM"
    <3>1. \E v \in Verdicts : task' = Judged(task, v)
      BY <1>5, <2>5 DEF Answered, Verdicts
    <3>. QED BY <1>2, <2>1, <3>1
  <2>. QED BY <2>2, <2>3, <2>4, <2>5 DEF Exchanges
<1>. QED BY <1>3, <1>4, <1>5 DEF Scan, ScanStep

-----------------------------------------------------------------------------
\* The clients of an empty and of a complete runtime.
LEMMA HeldClients ==
    ASSUME NEW p
    PROVE  /\ S3Client \in {0, 1}
           /\ Held(NoRuntime) = [engine |-> 0, storage |-> 0]
           /\ Held(Rebuilt(p)) = [engine |-> 1, storage |-> S3Client]
  BY DEF Held, NoRuntime, Rebuilt, S3Client

\* shutdown_child closes all that a complete runtime has open.
LEMMA ShutdownCloses ==
    ASSUME NEW p, runtime = Rebuilt(p), open = Held(runtime)
    PROVE  AfterShutdown = Held(NoRuntime)
<1>1. open.engine = 1 /\ open.storage = S3Client /\ S3Client \in {0, 1}
  BY HeldClients
<1>2. runtime.engine /\ runtime.storage
  BY DEF Rebuilt
<1>3. AfterShutdown = [engine |-> 0, storage |-> 0]
  BY <1>1, <1>2 DEF AfterShutdown
<1>. QED BY <1>3, HeldClients

\* Before it builds anything, initialize_child has nothing open.
LEMMA BaseIsEmpty ==
    ASSUME WInv
    PROVE  BaseClients = Held(NoRuntime) /\ BaseRuntime = NoRuntime
<1>1. CASE runtime = NoRuntime
  BY <1>1 DEF WInv, ChildOK, BaseClients, BaseRuntime, NoRuntime
<1>2. CASE runtime = Rebuilt(pid)
  <2>1. runtime.service /\ open = Held(runtime)
    BY <1>2 DEF WInv, ChildOK, Rebuilt
  <2>. QED BY <1>2, <2>1, ShutdownCloses DEF BaseClients, BaseRuntime
<1>. QED BY <1>1, <1>2 DEF WInv, ChildOK

\* A complete initialisation leaves one client of each kind.
LEMMA InitializeOK ==
    ASSUME WInv, NEW p \in Pids, InitializeChild(p)
    PROVE  runtime' = Rebuilt(p) /\ Buildable /\ open' = Held(runtime')
<1>1. CASE Ready(p)
  <2>1. runtime.service /\ runtime.owner = p /\ runtime' = runtime /\ open' = open
    BY <1>1 DEF InitializeChild, Ready
  <2>2. runtime = Rebuilt(pid) /\ Buildable /\ open = Held(runtime)
    BY <2>1 DEF WInv, ChildOK, NoRuntime
  <2>3. pid = p
    BY <2>1, <2>2 DEF Rebuilt
  <2>. QED BY <2>1, <2>2, <2>3
<1>2. CASE ~ Ready(p)
  <2>1. /\ Buildable /\ runtime' = Rebuilt(p)
        /\ open' = [engine |-> BaseClients.engine + 1,
                    storage |-> BaseClients.storage + S3Client]
    BY <1>2 DEF InitializeChild
  <2>2. BaseClients.engine = 0 /\ BaseClients.storage = 0 /\ S3Client \in {0, 1}
    BY BaseIsEmpty, HeldClients
  <2>3. open' = [engine |-> 1, storage |-> S3Client]
    BY <2>1, <2>2
  <2>. QED BY <2>1, <2>3, HeldClients
<1>. QED BY <1>1, <1>2

\* A failed one leaves nothing.
LEMMA FailureOK ==
    ASSUME WInv, NEW p \in Pids, NEW b \in BOOLEAN, InitializeFails(p, b)
    PROVE  runtime' = NoRuntime /\ open' = Held(runtime')
  BY BaseIsEmpty DEF InitializeFails

\* Steps after which the child has a complete or an empty runtime.
LEMMA ChildStepOK ==
    ASSUME WInv, UNCHANGED <<settings, worker, age>>,
           pid' \in Pids \cup {None}, pid' # None => worker = "up",
           runtime' = NoRuntime \/ (pid' # None /\ runtime' = Rebuilt(pid') /\ Buildable),
           open' = Held(runtime'),
           task' \in TaskRow, task'.pc \in {"idle", "service", "stage", "end"},
           task'.pc # "idle" => pid' # None, TimesOK(task'),
           task'.pc = "stage" => runtime' = Rebuilt(pid')
    PROVE  WInv'
<1>1. runtime' \in RuntimeRow
  <2>1. NoRuntime \in RuntimeRow
    BY DEF RuntimeRow, NoRuntime
  <2>2. ASSUME NEW p \in Pids PROVE Rebuilt(p) \in RuntimeRow
    BY DEF RuntimeRow, Rebuilt
  <2>. QED BY <2>1, <2>2
<1>2. open' \in [engine : Nat, storage : Nat]
  BY HeldClients
<1>3. WorkerTypeOK'
  BY <1>1, <1>2 DEF WInv, WorkerTypeOK
<1>4. ChildOK'
  BY DEF WInv, ChildOK, Held, S3Client, Rebuilt, Buildable
<1>5. TaskOK(task, age)'
  BY DEF TaskOK, PlaceOK, TimesOK, ExchangeOK, StreamOK, GateOK, Talking, Rebuilt
<1>. QED BY <1>3, <1>4, <1>5 DEF WInv

\* The empty row is fit for any child.
LEMMA IdleOK ==
    ASSUME WorkerTypeOK
    PROVE  /\ Idle \in TaskRow /\ Idle.pc = "idle" /\ TimesOK(Idle)
           /\ Idle.verdict = "none" /\ Idle.at = 0 /\ Idle.warned = FALSE
<1>1. /\ Idle \in TaskRow /\ Idle.pc = "idle" /\ Idle.at = 0 /\ Idle.warned = FALSE
      /\ Idle.verdict = "none"
  BY DEF Idle, TaskRow, Exchanges, Verdicts
<1>2. settings.hardLimit \in Nat /\ settings.softLimit \in Nat
  BY SettingsTypes
<1>. QED BY <1>1, <1>2 DEF TimesOK

\* The child starts, ends, shuts its clients down or is killed.
LEMMA ChildStepsOK ==
    ASSUME WInv,
           \/ \E p \in Pids : Fork(p)
           \/ GetService \/ HardLimit \/ ShutdownChild \/ ChildExits
    PROVE  WInv'
<1>0. /\ WorkerTypeOK /\ ChildOK /\ task \in TaskRow /\ pid \in Pids \cup {None}
      /\ PlaceOK(task) /\ TimesOK(task)
  BY TaskFacts DEF WInv, WorkerTypeOK
<1>1. ASSUME NEW p \in Pids, Fork(p) PROVE WInv'
  <2>1. /\ worker = "up" /\ pid = None /\ pid' = p /\ p # None
        /\ UNCHANGED <<settings, worker, task, age>> /\ task.pc = "idle"
    BY <1>0, <1>1, WorkerAssumption DEF Fork, PlaceOK
  <2>2. \/ runtime' = Rebuilt(p) /\ Buildable
        \/ runtime' = NoRuntime
    BY <1>1, InitializeOK, FailureOK DEF Fork
  <2>3. open' = Held(runtime')
    BY <1>1, InitializeOK, FailureOK DEF Fork
  <2>. QED BY <1>0, <2>1, <2>2, <2>3, ChildStepOK
<1>2. CASE GetService
  <2>1. /\ task.pc = "service" /\ pid # None /\ pid \in Pids /\ worker = "up"
        /\ UNCHANGED <<settings, worker, pid, age>>
    BY <1>0, <1>2 DEF GetService, PlaceOK, ChildOK
  <2>2. CASE InitializeChild(pid) /\ task' = [task EXCEPT !.pc = "stage"]
    <3>1. /\ task' \in TaskRow /\ task'.pc = "stage" /\ task'.at = task.at
          /\ task'.warned = task.warned
      BY <1>0, <2>2 DEF TaskRow
    <3>2. TimesOK(task')
      BY <1>0, <3>1 DEF TimesOK
    <3>3. runtime' = Rebuilt(pid) /\ Buildable /\ open' = Held(runtime')
      BY <2>1, <2>2, InitializeOK
    <3>. QED BY <1>0, <2>1, <3>1, <3>2, <3>3, ChildStepOK
  <2>3. CASE /\ \E b \in BOOLEAN : InitializeFails(pid, b)
             /\ task' = [task EXCEPT !.pc = "end"]
    <3>1. /\ task' \in TaskRow /\ task'.pc = "end" /\ task'.at = task.at
          /\ task'.warned = task.warned
      BY <1>0, <2>3 DEF TaskRow
    <3>2. TimesOK(task')
      BY <1>0, <3>1 DEF TimesOK
    <3>3. runtime' = NoRuntime /\ open' = Held(runtime')
      BY <2>1, <2>3, FailureOK
    <3>. QED BY <1>0, <2>1, <3>1, <3>2, <3>3, ChildStepOK
  <2>. QED BY <1>2, <2>2, <2>3 DEF GetService
<1>3. CASE HardLimit \/ ChildExits
  <2>1. /\ pid' = None /\ runtime' = NoRuntime /\ open' = NoClients /\ task' = Idle
        /\ UNCHANGED <<settings, worker, age>>
    BY <1>3 DEF HardLimit, ChildExits, ChildGone
  <2>2. open' = Held(runtime')
    BY <2>1, HeldClients DEF NoClients
  <2>3. task' \in TaskRow /\ task'.pc = "idle" /\ TimesOK(task')
    BY <1>0, <2>1, IdleOK
  <2>. QED BY <2>1, <2>2, <2>3, ChildStepOK
<1>4. CASE ShutdownChild
  <2>1. /\ pid # None /\ task.pc = "idle" /\ runtime.service
        /\ runtime' = NoRuntime /\ open' = AfterShutdown
        /\ UNCHANGED <<settings, worker, pid, task, age>>
    BY <1>4 DEF ShutdownChild
  <2>2. runtime = Rebuilt(pid) /\ open = Held(runtime)
    BY <1>0, <2>1 DEF ChildOK, NoRuntime
  <2>3. open' = Held(runtime')
    BY <2>1, <2>2, ShutdownCloses
  <2>4. pid' # None => worker = "up"
    BY <1>0, <2>1 DEF ChildOK
  <2>. QED BY <1>0, <2>1, <2>3, <2>4, ChildStepOK
<1>. QED BY <1>1, <1>2, <1>3, <1>4

\* The process starts, or is refused and started again.
LEMMA StartOK ==
    ASSUME WInv, StartWorker \/ RestartWorker
    PROVE  WInv'
<1>1. /\ UNCHANGED <<settings, pid, runtime, open, task, age>>
      /\ worker # "up" /\ worker' \in {"starting", "up", "refused"}
      /\ worker' = "up" => Accepted(settings)
  BY DEF StartWorker, RestartWorker
<1>2. WorkerTypeOK'
  BY <1>1 DEF WInv, WorkerTypeOK
<1>3. ChildOK'
  BY <1>1 DEF WInv, ChildOK, Held, S3Client, Rebuilt, Buildable
<1>4. TaskOK(task, age)'
  BY <1>1 DEF WInv, TaskOK, PlaceOK, TimesOK, ExchangeOK, StreamOK, GateOK, Allowed, Rebuilt
<1>. QED BY <1>2, <1>3, <1>4 DEF WInv

\* The steps of a delivery outside the scan.
LEMMA DeliveryOK ==
    ASSUME WInv,
           \/ \E size \in Sizes, waited \in Waits : TakeDelivery(size, waited)
           \/ Stage \/ Extract \/ EndDelivery \/ SoftLimit
    PROVE  WInv'
<1>0. /\ WorkerTypeOK /\ ChildOK /\ task \in TaskRow /\ PlaceOK(task) /\ TimesOK(task)
      /\ age \in Int /\ age <= AgeCap
      /\ UNCHANGED <<settings, worker, pid, runtime, open, age>>
  BY TaskFacts DEF WInv, WorkerTypeOK, TakeDelivery, Stage, Extract, EndDelivery, SoftLimit
<1>1. ASSUME NEW size \in Sizes, NEW waited \in Waits, TakeDelivery(size, waited)
      PROVE  WInv'
  <2>1. /\ pid # None /\ waited \in Nat
        /\ task' = [Idle EXCEPT !.pc = "service", !.size = size, !.waited = waited]
    BY <1>1, ScannerAssumption DEF TakeDelivery
  <2>2. /\ task' \in TaskRow /\ task'.pc = "service" /\ task'.at = 0
    BY <2>1, IdleOK, <1>0 DEF TaskRow
  <2>3. PlaceOK(task') /\ TimesOK(task')
    BY <1>0, <2>1, <2>2, SettingsTypes DEF PlaceOK, TimesOK
  <2>. QED BY <1>0, <2>2, <2>3, ElsewhereOK, TaskStepOK
<1>2. ASSUME task' = [task EXCEPT !.pc = "end"], pid # None PROVE WInv'
  <2>1. /\ task' \in TaskRow /\ task'.pc = "end" /\ task'.at = task.at
        /\ task'.warned = task.warned
    BY <1>0, <1>2 DEF TaskRow
  <2>2. PlaceOK(task') /\ TimesOK(task')
    BY <1>0, <1>2, <2>1 DEF PlaceOK, TimesOK
  <2>. QED BY <1>0, <2>1, <2>2, ElsewhereOK, TaskStepOK
<1>3. CASE Stage
  <2>1. task.pc = "stage" /\ pid # None
    BY <1>0, <1>3 DEF Stage, PlaceOK
  <2>2. CASE task' = ScanBegins(task)
    BY <1>0, <2>1, <2>2, ScanBeginsOK, TaskStepOK
  <2>. QED BY <1>2, <1>3, <2>1, <2>2 DEF Stage
<1>4. CASE Extract
  BY <1>0, <1>2, <1>4 DEF Extract, PlaceOK
<1>5. CASE EndDelivery
  <2>1. task' = Idle
    BY <1>5 DEF EndDelivery
  <2>2. task' \in TaskRow /\ task'.pc = "idle" /\ TimesOK(task')
    BY <1>0, <2>1, IdleOK
  <2>3. PlaceOK(task')
    BY <2>2 DEF PlaceOK
  <2>. QED BY <1>0, <2>2, <2>3, ElsewhereOK, TaskStepOK
<1>6. CASE SoftLimit
  <2> DEFINE v == IF Scanning THEN "unavailable" ELSE task.verdict
  <2>1. /\ task.pc # "idle" /\ pid # None
        /\ task' = [task EXCEPT !.warned = TRUE, !.pc = "end", !.until = 0, !.verdict = v]
    BY <1>0, <1>6 DEF SoftLimit, PlaceOK
  <2>2. v \in Verdicts \cup {"none"}
    BY <1>0, RowTypes DEF Verdicts
  <2> HIDE DEF v
  <2>3. /\ task' \in TaskRow /\ task'.pc = "end" /\ task'.at = task.at /\ task'.warned = TRUE
    BY <1>0, <2>1, <2>2 DEF TaskRow
  <2>4. PlaceOK(task') /\ TimesOK(task')
    BY <1>0, <2>1, <2>3 DEF PlaceOK, TimesOK
  <2>. QED BY <1>0, <2>3, <2>4, ElsewhereOK, TaskStepOK
<1>. QED BY <1>1, <1>3, <1>4, <1>5, <1>6

\* A second passes.
LEMMA TickOK ==
    ASSUME WInv, Tick
    PROVE  WInv'
<1>0. /\ WorkerTypeOK /\ task \in TaskRow /\ age \in Int /\ age <= AgeCap
      /\ PlaceOK(task) /\ TimesOK(task) /\ ExchangeOK(task)
      /\ StreamOK(task, age) /\ GateOK(task)
      /\ UNCHANGED <<settings, worker, pid, runtime, open>>
      /\ age' = Lower(age + 1, AgeCap)
  BY TaskFacts DEF Tick, WorkerTypeOK
<1>1. /\ settings.connectTimeout \in Nat /\ settings.scanTimeout \in Nat
      /\ settings.maxAge \in Nat /\ settings.skew \in Nat /\ settings.softLimit \in Nat
      /\ settings.hardLimit \in Nat /\ AgeCap \in Nat
      /\ task.at \in Nat /\ task.begun \in Nat /\ task.until \in Nat
      /\ task.deadline \in Nat /\ task.sent \in Nat
  BY <1>0, SettingsTypes, RowTypes
<1>2. age' \in Int /\ age' <= AgeCap /\ age' <= age + 1
      /\ (- settings.skew <= age => - settings.skew <= age')
  BY <1>0, <1>1 DEF Lower
<1>3. CASE task.pc = "idle"
  <2>1. task' = task
    BY <1>3 DEF Tick
  <2>2. TaskOK(task', age')
    BY <1>0, <1>3, <2>1, ElsewhereOK
  <2>. QED BY <1>0, <1>2, <2>1, <2>2, TaskStepOK
<1>4. CASE task.pc # "idle"
  <2>1. /\ task' = [task EXCEPT !.at = task.at + 1]
        /\ task.at < settings.hardLimit
        /\ task.at < settings.softLimit \/ task.warned
        /\ Scanning => task.at < task.until
    BY <1>4 DEF Tick
  <2>2. /\ task' \in TaskRow /\ task'.pc = task.pc /\ task'.at = task.at + 1
        /\ task'.warned = task.warned /\ task'.begun = task.begun
        /\ task'.until = task.until /\ task'.deadline = task.deadline
        /\ task'.exchange = task.exchange /\ task'.sent = task.sent
        /\ task'.size = task.size
    BY <1>0, <1>1, <2>1 DEF TaskRow
  <2>3. PlaceOK(task') /\ GateOK(task')
    BY <1>0, <2>2 DEF PlaceOK, GateOK
  <2>4. TimesOK(task')
    BY <1>0, <1>1, <2>1, <2>2 DEF TimesOK
  <2>5. ExchangeOK(task')
    BY <1>0, <1>1, <2>1, <2>2 DEF ExchangeOK, Talking, Scanning
  <2>6. StreamOK(task', age')
    BY <1>0, <1>1, <1>2, <2>1, <2>2 DEF StreamOK
  <2>7. TaskOK(task', age')
    BY <2>3, <2>4, <2>5, <2>6 DEF TaskOK
  <2>. QED BY <1>0, <1>2, <2>2, <2>7, TaskStepOK
<1>. QED BY <1>3, <1>4

\* The daemon loads newer definitions, also between two exchanges.
LEMMA ReloadOK ==
    ASSUME WInv, ReloadDefinitions
    PROVE  WInv'
<1>0. /\ WorkerTypeOK /\ task \in TaskRow
      /\ PlaceOK(task) /\ TimesOK(task) /\ ExchangeOK(task)
      /\ StreamOK(task, age) /\ GateOK(task)
      /\ UNCHANGED <<settings, worker, pid, runtime, open, task>>
      /\ age' = settings.maxAge /\ settings \in Candidates
  BY TaskFacts DEF ReloadDefinitions, WorkerTypeOK
<1>1. /\ settings.scanTimeout \in Nat /\ settings.maxAge \in Nat /\ settings.skew \in Nat
      /\ task.at \in Nat /\ task.deadline \in Nat /\ AgeCap \in Nat
      /\ AgeCap > settings.maxAge + settings.scanTimeout
  BY <1>0, SettingsTypes, RowTypes, WorkerAssumption
<1>2. StreamOK(task, age')
  BY <1>0, <1>1 DEF StreamOK
<1>3. TaskOK(task', age')
  BY <1>0, <1>2 DEF TaskOK
<1>. QED BY <1>0, <1>1, <1>3, TaskStepOK

-----------------------------------------------------------------------------
LEMMA WorkerStepOK ==
    ASSUME WInv, [WorkerNext]_workerVars
    PROVE  WInv'
<1>1. CASE UNCHANGED workerVars
  <2>1. task' \in TaskRow /\ age' \in Int /\ age' <= AgeCap /\ TaskOK(task', age')
    BY <1>1 DEF workerVars, WInv, WorkerTypeOK
  <2>. QED BY <1>1, <2>1, TaskStepOK DEF workerVars
<1>2. CASE WorkerNext
  BY <1>2, StartOK, ChildStepsOK, DeliveryOK, ScanOK, TickOK, ReloadOK DEF WorkerNext
<1>. QED BY <1>1, <1>2

LEMMA WorkerInitOK ==
    ASSUME WorkerInit
    PROVE  WInv
<1>1. settings \in Candidates /\ settings \in SettingsRow /\ AgeCap \in Nat
      /\ AgeCap > settings.maxAge + settings.scanTimeout
  BY WorkerAssumption DEF WorkerInit
<1>2. /\ settings.maxAge \in Nat /\ settings.skew \in Nat /\ settings.scanTimeout \in Nat
  BY <1>1 DEF SettingsRow
<1>3. age \in Int /\ age <= AgeCap
  BY <1>1, <1>2 DEF WorkerInit
<1>4. task = Idle /\ Idle \in TaskRow
  BY DEF WorkerInit, Idle, TaskRow, Exchanges, Verdicts
<1>5. runtime \in RuntimeRow /\ open \in [engine : Nat, storage : Nat]
  BY DEF WorkerInit, NoRuntime, RuntimeRow, NoClients
<1>6. WorkerTypeOK
  BY <1>1, <1>3, <1>4, <1>5 DEF WorkerTypeOK, WorkerInit
<1>7. ChildOK
  BY HeldClients DEF WorkerInit, ChildOK, NoClients
<1>8. TaskOK(task, age)
  <2>1. task.pc = "idle" /\ TimesOK(task) /\ PlaceOK(task)
    BY <1>4, <1>6, IdleOK DEF PlaceOK
  <2>. QED BY <2>1, ElsewhereOK
<1>. QED BY <1>6, <1>7, <1>8 DEF WInv

\* The inductive invariant of a worker with any accepted or refused settings.
THEOREM WorkerInvariant == WorkerSpec => []WInv
<1>. QED BY WorkerInitOK, WorkerStepOK, PTL DEF WorkerSpec

\* Types hold; in particular no client is closed that was not open
\* (shutdown_child).
THEOREM WorkerTypes == WorkerSpec => []WorkerTypeOK
<1>1. WInv => WorkerTypeOK
  BY DEF WInv
<1>. QED BY <1>1, WorkerInvariant, PTL

\* The time of a scan is bounded by its timeouts, for all settings.
THEOREM ScansEnd == WorkerSpec => []ScanIsBounded
<1>1. WInv => ScanIsBounded
  <2>. SUFFICES ASSUME WInv, Scanning, settings.scanner = "clamd"
                PROVE  task.at - task.begun <=
                         2 * settings.connectTimeout + settings.scanTimeout
    BY DEF ScanIsBounded
  <2>1. task.pc \in Talking /\ ExchangeOK(task) /\ task \in TaskRow /\ WorkerTypeOK
    BY TaskFacts DEF Scanning, GateOK, Talking
  <2>2. /\ task.at \in Nat /\ task.begun \in Nat /\ task.until \in Nat /\ task.deadline \in Nat
        /\ settings.connectTimeout \in Nat /\ settings.scanTimeout \in Nat
    BY <2>1, SettingsTypes, RowTypes
  <2>. QED BY <2>1, <2>2 DEF ExchangeOK, Allowed
<1>. QED BY <1>1, WorkerInvariant, PTL

\* The limits of every accepted setting come in their order, and nothing but a
\* wait between fetch and start, and none shorter than the margin that the
\* settings leave, lets the broker's timeout run out on a running delivery.
THEOREM LimitsHold == WorkerSpec => []LimitsInOrder
<1>1. WInv => LimitsInOrder
  <2>. SUFFICES ASSUME WInv, task.pc # "idle"
                PROVE  /\ task.at >= settings.hardLimit => task.warned
                       /\ Deployed(settings) /\ task.waited + task.at >= settings.visibility =>
                            task.waited > 0 /\ task.waited + settings.hardLimit >= settings.visibility
    BY DEF LimitsInOrder
  <2>1. Accepted(settings) /\ TimesOK(task) /\ WorkerTypeOK /\ task \in TaskRow
    BY TaskFacts
  <2>2. /\ task.at \in Nat /\ settings.hardLimit \in Nat /\ settings.softLimit \in Nat
        /\ settings.visibility \in Nat /\ task.waited \in Nat
    BY <2>1, SettingsTypes, RowTypes
  <2>3. /\ settings.hardLimit > settings.softLimit
        /\ Deployed(settings) => settings.visibility > settings.hardLimit
    BY <2>1 DEF Accepted
  <2>. QED BY <2>1, <2>2, <2>3 DEF TimesOK
<1>. QED BY <1>1, WorkerInvariant, PTL

\* What a child has open is what its runtime can close.
THEOREM ClientsHeld == WorkerSpec => []ClientsAccounted
<1>1. WInv => ClientsAccounted
  <2>. SUFFICES ASSUME WInv PROVE ClientsAccounted
    OBVIOUS
  <2>1. open = Held(runtime) /\ (pid = None => runtime = NoRuntime)
    BY DEF WInv, ChildOK
  <2>2. open = IF pid = None THEN NoClients ELSE Held(runtime)
    BY <2>1, HeldClients DEF NoClients
  <2>3. ASSUME Scanning \/ task.pc \in {"stage", "extract"} PROVE Ready(pid)
    BY <2>3, TaskFacts DEF PlaceOK, Scanning, Ready, Rebuilt
  <2>. QED BY <2>2, <2>3 DEF ClientsAccounted, Held
<1>. QED BY <1>1, WorkerInvariant, PTL

\* Every connection of a deployed worker verifies its peer.
THEOREM PeersAreVerified == WorkerSpec => []PeersVerified
<1>1. WInv => PeersVerified
  <2>. SUFFICES ASSUME WInv, worker = "up", Deployed(settings)
                PROVE  /\ DatabaseVerified(settings) /\ RedisVerified(settings)
                       /\ CeleryVerified(settings) /\ StorageVerified(settings)
    BY DEF PeersVerified
  <2>1. Accepted(settings)
    BY DEF WInv, ChildOK
  <2>2. /\ settings.rootCert /\ settings.endpoint \in {"none", "https"}
        /\ settings.redis \in {"silent", "strict"} /\ settings.broker \in {"silent", "strict"}
        /\ settings.backend \in {"silent", "strict"}
    BY <2>1 DEF Accepted, DatabaseTlsVerified, RedisTlsVerified
  <2>. QED BY <2>2 DEF DatabaseVerified, RedisVerified, CeleryVerified, StorageVerified
<1>. QED BY <1>1, WorkerInvariant, PTL

-----------------------------------------------------------------------------
\* Only a scan that has streamed the document can find it clean where deployed.
LEMMA CleanStep ==
    ASSUME WInv, WorkerNext, task.verdict # "clean", task'.verdict = "clean",
           Deployed(settings)
    PROVE  /\ task.pc = "recv" /\ task.exchange = "INSTREAM"
<1>0. /\ WorkerTypeOK /\ task \in TaskRow /\ GateOK(task)
      /\ task.pc # "idle" => Accepted(settings) /\ pid # None
  BY TaskFacts
<1>1. ASSUME task.pc # "idle" PROVE ~ settings.gate /\ settings.scanner # "fake"
  BY <1>0, <1>1 DEF Accepted
<1>2. ~ UNCHANGED task
  OBVIOUS
<1>3. task' # Idle
  BY <1>0, IdleOK
<1>4. ASSUME NEW pc, task' = [task EXCEPT !.pc = pc] PROVE FALSE
  BY <1>0, <1>4 DEF TaskRow
<1>5. ASSUME NEW size \in Sizes, NEW waited \in Waits, TakeDelivery(size, waited)
      PROVE  FALSE
  <2>1. task'.verdict = Idle.verdict
    BY <1>0, <1>5, IdleOK DEF TakeDelivery, TaskRow
  <2>. QED BY <1>0, <2>1, IdleOK
<1>6. ~ SoftLimit
  <2>. SUFFICES ASSUME SoftLimit PROVE FALSE
    OBVIOUS
  <2>1. task'.verdict = IF Scanning THEN "unavailable" ELSE task.verdict
    BY <1>0 DEF SoftLimit, TaskRow
  <2>. QED BY <2>1
<1>7. ~ Tick
  <2>. SUFFICES ASSUME Tick PROVE FALSE
    OBVIOUS
  <2>1. task' = IF task.pc = "idle" THEN task ELSE [task EXCEPT !.at = @ + 1]
    BY DEF Tick
  <2>. QED BY <1>0, <2>1 DEF TaskRow
<1>8. ~ Stage
  <2>. SUFFICES ASSUME Stage PROVE FALSE
    OBVIOUS
  <2>1. task.pc = "stage" /\ task' = ScanBegins(task)
    BY <1>4 DEF Stage
  <2>2. settings.scanner = "clamd"
    <3>1. runtime = Rebuilt(pid) /\ settings \in SettingsRow
      BY <1>0, <2>1, TaskFacts, SettingsTypes DEF PlaceOK
    <3>2. Buildable
      BY <3>1 DEF WInv, ChildOK, NoRuntime, Rebuilt
    <3>3. settings.scanner \in {"fake", "external", "clamd"}
      BY <3>1 DEF SettingsRow
    <3>. QED BY <1>1, <2>1, <3>2, <3>3 DEF Buildable
  <2> DEFINE s == [task EXCEPT !.begun = task.at]
  <2>3. task' = Begun(s, "PING")
    BY <2>1, <2>2 DEF ScanBegins
  <2>4. s \in TaskRow /\ s.verdict = task.verdict
    BY <1>0 DEF TaskRow
  <2> HIDE DEF s
  <2>5. task'.verdict = s.verdict
    BY <1>0, <2>3, <2>4, BegunFields DEF Exchanges
  <2>. QED BY <2>4, <2>5
<1>9. Scan
  BY <1>2, <1>3, <1>4, <1>5, <1>6, <1>7, <1>8
  DEF WorkerNext, StartWorker, RestartWorker, Fork, GetService, Extract, EndDelivery,
      HardLimit, ShutdownChild, ChildExits, ChildGone, ReloadDefinitions
<1>10. ~ GateOpens /\ ~ GateTimesOut /\ ~ Unavailable
  <2>1. ~ GateOpens
    BY <1>0, <1>1 DEF GateOpens, GateOK
  <2>2. ASSUME task' = Judged(task, "unavailable") PROVE FALSE
    <3>1. "unavailable" \in Verdicts
      BY DEF Verdicts
    <3>2. task'.verdict = "unavailable"
      BY <1>0, <2>2, <3>1, JudgedFields
    <3>. QED BY <3>2
  <2>. QED BY <2>1, <2>2 DEF GateTimesOut, Unavailable
<1>11. ASSUME NEW t \in TaskRow, t.verdict = task.verdict, task' = Remaining(t) PROVE FALSE
  <2>1. task'.verdict = t.verdict
    BY <1>11 DEF Remaining, TaskRow
  <2>. QED BY <1>11, <2>1
<1>12. ~ Connected /\ ~ SendChunk /\ ~ CommandSent /\ ~ ReplyContinues
  <2>1. ASSUME NEW pc \in {"send", "recv"}, task' = Remaining([task EXCEPT !.pc = pc])
        PROVE  FALSE
    <3>1. [task EXCEPT !.pc = pc] \in TaskRow /\ [task EXCEPT !.pc = pc].verdict = task.verdict
      BY <1>0 DEF TaskRow
    <3>. QED BY <1>11, <2>1, <3>1
  <2>2. ASSUME task' = Remaining([task EXCEPT !.sent = @ + 1]) PROVE FALSE
    <3>1. /\ [task EXCEPT !.sent = @ + 1] \in TaskRow
          /\ [task EXCEPT !.sent = @ + 1].verdict = task.verdict
      BY <1>0 DEF TaskRow
    <3>. QED BY <1>11, <2>2, <3>1
  <2>3. ASSUME task' = Remaining([task EXCEPT !.pieces = @ + 1]) PROVE FALSE
    <3>1. /\ [task EXCEPT !.pieces = @ + 1] \in TaskRow
          /\ [task EXCEPT !.pieces = @ + 1].verdict = task.verdict
      BY <1>0 DEF TaskRow
    <3>. QED BY <1>11, <2>3, <3>1
  <2>. QED BY <2>1, <2>2, <2>3 DEF Connected, SendChunk, CommandSent, ReplyContinues
<1>13. Answered
  BY <1>9, <1>10, <1>12 DEF Scan, ScanStep
<1>14. ASSUME NEW x \in Exchanges, task' = Begun(task, x) PROVE FALSE
  BY <1>0, <1>14, BegunFields
<1>15. task.exchange # "PING" /\ task.exchange # "VERSION"
  BY <1>13, <1>14 DEF Answered, Exchanges
<1>16. task.pc = "recv" /\ task.exchange \in Exchanges
  BY <1>13, TaskFacts DEF Answered, ExchangeOK, Talking
<1>. QED BY <1>15, <1>16 DEF Exchanges

\* A clean verdict of a deployed worker stands for a whole stream and for
\* definitions that were fresh when the stream began.
THEOREM CleanVerdictsEarned == WorkerSpec => CleanIsEarned
<1> DEFINE Earned ==
      task.verdict # "clean" /\ task'.verdict = "clean" /\ Deployed(settings) =>
         /\ task.exchange = "INSTREAM"
         /\ task.sent = task.size /\ task.size <= StreamLimit
         /\ - settings.skew <= age /\ age <= settings.maxAge + settings.scanTimeout
<1>1. WInv /\ [WorkerNext]_workerVars => [Earned]_workerVars
  <2>. SUFFICES ASSUME WInv, WorkerNext, task.verdict # "clean", task'.verdict = "clean",
                       Deployed(settings)
                PROVE  /\ task.exchange = "INSTREAM"
                       /\ task.sent = task.size /\ task.size <= StreamLimit
                       /\ - settings.skew <= age
                       /\ age <= settings.maxAge + settings.scanTimeout
    OBVIOUS
  <2>1. task.pc = "recv" /\ task.pc \in Talking /\ task.exchange = "INSTREAM"
    BY CleanStep DEF Talking
  <2>2. StreamOK(task, age) /\ ExchangeOK(task) /\ task \in TaskRow /\ WorkerTypeOK
        /\ age \in Int
    BY TaskFacts
  <2>3. /\ task.at \in Nat /\ task.until \in Nat /\ task.deadline \in Nat
        /\ settings.maxAge \in Nat /\ settings.scanTimeout \in Nat
    BY <2>2, SettingsTypes, RowTypes
  <2>. QED BY <2>1, <2>2, <2>3 DEF StreamOK, ExchangeOK
<1>. QED BY <1>1, WorkerInvariant, PTL DEF WorkerSpec, CleanIsEarned
=============================================================================
