------------------------------ MODULE Scanner ------------------------------
(***************************************************************************)
(* The safety scan of a delivery (documents/clamd.py and the fake scanner  *)
(* of documents/ports.py) on the clock of the delivery.  A ClamD scan is   *)
(* three exchanges, each on a connection and with a deadline of its own:   *)
(* PING, VERSION, and INSTREAM with the document.  Every socket call       *)
(* blocks until it is answered or its timeout (until) has come.            *)
(*                                                                         *)
(* The daemon answers in any way, in pieces and at any time; it finds a    *)
(* document clean only after the end of the stream.  A document is a       *)
(* number of chunks.                                                       *)
(***************************************************************************)
EXTENDS Settings, Integers

CONSTANTS Sizes,         \* the sizes of documents, in chunks
          Waits,         \* the times from a message's fetch to its start, in seconds
          StreamLimit,   \* document_max_upload_bytes of this process, in chunks
          ReplyLimit     \* CLAMD_MAX_REPLY_BYTES, in pieces that recv returns

VARIABLES settings,  \* the process's settings
          task,      \* the delivery that the child runs
          age        \* seconds since the daemon's definitions were published

ASSUME ScannerAssumption ==
    /\ Sizes \subseteq Nat \ {0} /\ Waits \subseteq Nat
    /\ StreamLimit \in Nat \ {0} /\ ReplyLimit \in Nat \ {0}

Exchanges == {"PING", "VERSION", "INSTREAM"}

Verdicts == {"clean", "infected", "unavailable"}

\* at is the time since the child took the delivery, begun when its scan began;
\* waited is how long before that the worker had fetched it from the broker, as
\* a retry with a countdown or while the child was busy; warned tells that the
\* soft limit's exception was raised.
TaskRow == [pc : {"idle", "service", "stage", "gate", "connect", "send", "recv",
                  "extract", "end"},
            at : Nat, waited : Nat, begun : Nat, size : Sizes \cup {0}, sent : Nat,
            exchange : Exchanges \cup {"none"}, deadline : Nat, until : Nat,
            pieces : Nat, verdict : Verdicts \cup {"none"}, warned : BOOLEAN]

Idle == [pc |-> "idle", at |-> 0, waited |-> 0, begun |-> 0, size |-> 0, sent |-> 0,
         exchange |-> "none", deadline |-> 0, until |-> 0, pieces |-> 0,
         verdict |-> "none", warned |-> FALSE]

Scanning == task.pc \in {"gate", "connect", "send", "recv"}

Lower(a, b) == IF a <= b THEN a ELSE b

\* An exchange gets its deadline, and its first call, the connection, the
\* connection timeout or what is left until the deadline.
Begun(t, exchange) ==
    LET seconds == IF exchange = "INSTREAM" THEN settings.scanTimeout
                   ELSE settings.connectTimeout
    IN  [t EXCEPT !.pc = "connect", !.exchange = exchange, !.pieces = 0, !.sent = 0,
                  !.deadline = t.at + seconds,
                  !.until = t.at + Lower(settings.connectTimeout, seconds)]

\* What the scan returns: only a clean document is extracted.
Judged(t, verdict) ==
    [t EXCEPT !.verdict = verdict, !.until = 0,
              !.pc = IF verdict = "clean" THEN "extract" ELSE "end"]

\* Mutation of Remaining: every call gets the whole timeout.
RemainingWhole(t) == [t EXCEPT !.until = t.at + settings.scanTimeout]

\* The next call may take what is left of the exchange.
Remaining(t) == [t EXCEPT !.until = t.deadline]

InTime == task.at < task.deadline

ScanBegins(t) ==
    LET s == [t EXCEPT !.begun = t.at]
    IN  IF settings.scanner = "clamd" THEN Begun(s, "PING")
        ELSE IF settings.gate
             THEN [s EXCEPT !.pc = "gate", !.deadline = t.at + settings.gateTimeout,
                            !.until = t.at + settings.gateTimeout]
             ELSE Judged(s, "clean")

\* The fake scanner's gate file is there, or its timeout has come.
GateOpens == task.pc = "gate" /\ task' = Judged(task, "clean")

GateTimesOut ==
    /\ task.pc = "gate" /\ ~ InTime
    /\ task' = Judged(task, "unavailable")

\* _connect and the first sendall.
Connected ==
    /\ task.pc = "connect" /\ InTime
    /\ task' = Remaining([task EXCEPT !.pc = "send"])

\* One more chunk of the document is read and sent.
SendChunk ==
    /\ task.pc = "send" /\ task.exchange = "INSTREAM"
    /\ task.sent < task.size /\ task.sent < StreamLimit /\ InTime
    /\ task' = Remaining([task EXCEPT !.sent = @ + 1])

\* The command, or the end of the stream, has been sent.
CommandSent ==
    /\ task.pc = "send" /\ InTime
    /\ task.exchange = "INSTREAM" => task.sent = task.size
    /\ task' = Remaining([task EXCEPT !.pc = "recv"])

\* A piece of the reply without its end.
ReplyContinues ==
    /\ task.pc = "recv" /\ InTime /\ task.pieces < ReplyLimit
    /\ task' = Remaining([task EXCEPT !.pieces = @ + 1])

\* Definitions neither too old nor too far in the future.
FreshEnough == age >= - settings.skew /\ age <= settings.maxAge

\* The reply is complete and says what it should.
Answered ==
    /\ task.pc = "recv"
    /\ task' \in IF task.exchange = "PING" THEN {Begun(task, "VERSION")}
                 ELSE IF task.exchange = "VERSION"
                      THEN IF FreshEnough THEN {Begun(task, "INSTREAM")} ELSE {}
                      ELSE {Judged(task, "clean"), Judged(task, "infected")}

\* A refused connection, a timeout, a document or a reply over its limit, an
\* empty, malformed or unexpected reply, definitions that are not fresh.
Unavailable ==
    /\ task.pc \in {"connect", "send", "recv"}
    /\ task' = Judged(task, "unavailable")

\* Every step of a scan; the child's memory and its settings stay.
ScanStep ==
    /\ \/ GateOpens \/ GateTimesOut \/ Connected \/ SendChunk \/ CommandSent
       \/ ReplyContinues \/ Answered \/ Unavailable
    /\ UNCHANGED <<settings, age>>
=============================================================================
