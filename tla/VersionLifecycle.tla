-------------------------- MODULE VersionLifecycle --------------------------
(***************************************************************************)
(* What the ingestion pipeline promises about a document version, without  *)
(* queue, relay, worker or lock: ADR 0005's state machine                  *)
(*     queued -> extracting -> ready | failed,  extracting -> queued,      *)
(*     queued -> failed,                                                   *)
(* a bounded number of attempts, and exactly one outcome event for each    *)
(* version that reaches an outcome.                                        *)
(***************************************************************************)
EXTENDS Integers

CONSTANTS Versions, Attempts

VARIABLES
    status,     \* "absent" until the upload commits
    attempts,   \* extractions started
    outcomes    \* outcome audit events written

lifecycle == <<status, attempts, outcomes>>

Move(v, from, to) ==
    /\ status[v] = from
    /\ status' = [status EXCEPT ![v] = to]

Accept(v) ==
    /\ Move(v, "absent", "queued")
    /\ UNCHANGED <<attempts, outcomes>>

Start(v) ==
    /\ Move(v, "queued", "extracting")
    /\ attempts[v] < Attempts
    /\ attempts' = [attempts EXCEPT ![v] = @ + 1]
    /\ UNCHANGED outcomes

GiveBack(v) ==
    /\ Move(v, "extracting", "queued")
    /\ UNCHANGED <<attempts, outcomes>>

\* Every outcome is recorded by exactly one event; a queued version fails
\* only when its attempts are spent.
Decide(v) ==
    /\ \/ Move(v, "extracting", "ready")
       \/ Move(v, "extracting", "failed")
       \/ Move(v, "queued", "failed") /\ attempts[v] >= Attempts
    /\ outcomes' = [outcomes EXCEPT ![v] = @ + 1]
    /\ UNCHANGED attempts

LifecycleInit ==
    /\ status \in [Versions -> {"absent", "queued"}]
    /\ attempts = [v \in Versions |-> 0]
    /\ outcomes = [v \in Versions |-> 0]

LifecycleNext ==
    \E v \in Versions : Accept(v) \/ Start(v) \/ GiveBack(v) \/ Decide(v)

LifecycleSpec == LifecycleInit /\ [][LifecycleNext]_lifecycle
=============================================================================
