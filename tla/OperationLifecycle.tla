-------------------------- MODULE OperationLifecycle --------------------------
(***************************************************************************)
(* What on-demand classification promises about an operation, without      *)
(* requests, actors, locks or a clock: an identity is claimed once, its    *)
(* provider is asked at most once, and it finishes once, with one audit    *)
(* event.  A claim that readers have been told is overdue can still finish *)
(* as unknown or failed, but never with a suggestion.                      *)
(***************************************************************************)
EXTENDS Naturals, Sequences

CONSTANTS Identities,
          Unasked   \* the identities whose result needs no provider

VARIABLES
    phase,   \* "none" until the claim commits
    asked,   \* provider calls
    events   \* the states in the audit events of finished operations

operations == <<phase, asked, events>>

Outcomes == {"succeeded", "stale", "failed", "unknown"}

Late == {"unknown", "failed"}

Claim(id) ==
    /\ phase[id] = "none"
    /\ phase' = [phase EXCEPT ![id] = "open"]
    /\ UNCHANGED <<asked, events>>

\* The claimant may be slow: its call can come after the claim was given up as
\* unknown, but after no other outcome.
AskProvider(id) ==
    /\ id \notin Unasked
    /\ phase[id] \in {"open", "overdue", "unknown"}
    /\ asked[id] = 0
    /\ asked' = [asked EXCEPT ![id] = 1]
    /\ UNCHANGED <<phase, events>>

\* Time runs out for some of the open claims.
Lapse(ids) ==
    /\ \A id \in ids : phase[id] = "open"
    /\ phase' = [id \in Identities |-> IF id \in ids THEN "overdue" ELSE phase[id]]
    /\ UNCHANGED <<asked, events>>

FinishAs(id, outcome) ==
    /\ phase[id] = "open" \/ (phase[id] = "overdue" /\ outcome \in Late)
    /\ outcome = "succeeded" => asked[id] = 1 \/ id \in Unasked
    /\ phase' = [phase EXCEPT ![id] = outcome]
    /\ events' = [events EXCEPT ![id] = Append(@, outcome)]
    /\ UNCHANGED asked

OperationsInit ==
    /\ phase = [id \in Identities |-> "none"]
    /\ asked = [id \in Identities |-> 0]
    /\ events = [id \in Identities |-> <<>>]

OperationsNext ==
    \/ \E id \in Identities :
         \/ Claim(id) \/ AskProvider(id)
         \/ \E outcome \in Outcomes : FinishAs(id, outcome)
    \/ \E ids \in SUBSET Identities : Lapse(ids)

OperationsSpec == OperationsInit /\ [][OperationsNext]_operations
===============================================================================
