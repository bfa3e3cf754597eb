------------------------------ MODULE Tenancy ------------------------------
(***************************************************************************)
(* What registration and membership promise, without accounts that are     *)
(* disabled, addresses or requests that take several steps: a newcomer     *)
(* founds an organization and is its admin; an admin adds somebody who is  *)
(* registered as an agent, and the addition is recorded with its actor in  *)
(* the same step.  Nobody's role is ever changed or taken away.            *)
(***************************************************************************)
EXTENDS Sequences

CONSTANTS Users, Organizations

VARIABLES
    role,   \* by organization and user, "none" without a membership
    added   \* who added the user to the organization, by the audit events

tenancy == <<role, added>>

\* A user is registered with an organization of its own.
Registered(u) == \E o \in Organizations : role[<<o, u>>] = "admin"

Found(o, u) ==
    /\ \A v \in Users : role[<<o, v>>] = "none"
    /\ \A p \in Organizations : role[<<p, u>>] = "none"
    /\ role' = [role EXCEPT ![<<o, u>>] = "admin"]
    /\ UNCHANGED added

AddAgent(actor, o, u) ==
    /\ role[<<o, actor>>] = "admin"
    /\ role[<<o, u>>] = "none"
    /\ Registered(u)
    /\ role' = [role EXCEPT ![<<o, u>>] = "agent"]
    /\ added' = [added EXCEPT ![<<o, u>>] = <<actor>>]

TenancyInit ==
    /\ role = [p \in Organizations \X Users |-> "none"]
    /\ added = [p \in Organizations \X Users |-> <<>>]

TenancyNext ==
    \E o \in Organizations, u \in Users :
        Found(o, u) \/ \E actor \in Users : AddAgent(actor, o, u)

TenancySpec == TenancyInit /\ [][TenancyNext]_tenancy
=============================================================================
