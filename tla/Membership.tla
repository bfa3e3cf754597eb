----------------------------- MODULE Membership -----------------------------
(***************************************************************************)
(* Users, organizations and memberships: registration (app/auth/service.py)*)
(* and the addition of agents (app/identity/service.py), behind the access *)
(* checks of app/api/dependencies.py.  Requests run concurrently in        *)
(* READ COMMITTED sessions that write at their commit only, so a request   *)
(* may act on what is no longer true; the unique constraints of the tables *)
(* are what two of them meet at.                                           *)
(***************************************************************************)
EXTENDS Naturals, Sequences

CONSTANTS Users, Organizations,  \* the ids that may be drawn
          Slugs,
          Spellings,             \* the ways to type an email address
          Normalize,             \* strip().lower(), on spellings
          Requests,
          None

ASSUME MembershipAssumption ==
    /\ Normalize \in [Spellings -> Spellings]
    /\ \A e \in Spellings : Normalize[Normalize[e]] = Normalize[e]
    /\ None \notin Users \cup Organizations
    /\ None \notin [email : Spellings, active : BOOLEAN]
    /\ None \notin [slug : Slugs, active : BOOLEAN]
    /\ None \notin [role : {"admin", "agent"}, active : BOOLEAN]

VARIABLES user, organization,  \* the rows, None where the id is not used
          member,              \* the rows by organization and user
          audit,               \* the actors of organization_member.created events
          request              \* the requests to add a member

membershipVars == <<user, organization, member, audit, request>>

Places == Organizations \X Users

UserRow == [email : Spellings, active : BOOLEAN]
OrganizationRow == [slug : Slugs, active : BOOLEAN]
MemberRow == [role : {"admin", "agent"}, active : BOOLEAN]

\* A request has a token for its actor and names an organization in its header;
\* target is the user that its email was found to belong to.
RequestPC == {"idle", "user", "context", "look_up", "commit"}

AddRequest == [pc : RequestPC, actor : Users \cup {None},
               organization : Organizations \cup {None},
               email : Spellings \cup {None}, target : Users \cup {None}]

NoRequest == [pc |-> "idle", actor |-> None, organization |-> None, email |-> None,
              target |-> None]

MembershipTypeOK ==
    /\ user \in [Users -> UserRow \cup {None}]
    /\ organization \in [Organizations -> OrganizationRow \cup {None}]
    /\ member \in [Places -> MemberRow \cup {None}]
    /\ audit \in [Places -> Seq(Users)]
    /\ request \in [Requests -> AddRequest]

MembershipInit ==
    /\ user = [u \in Users |-> None]
    /\ organization = [o \in Organizations |-> None]
    /\ member = [p \in Places |-> None]
    /\ audit = [p \in Places |-> <<>>]
    /\ request = [r \in Requests |-> NoRequest]

-----------------------------------------------------------------------------
EmailTaken(email) == \E u \in Users : user[u] # None /\ user[u].email = email

SlugTaken(slug) == \E o \in Organizations : organization[o] # None /\ organization[o].slug = slug

\* Mutation of Register: the user is committed before the organization is
\* tried, and stays when its slug is taken.
RegisterUserFirst(u, o, spelling, slug) ==
    /\ user[u] = None /\ organization[o] = None
    /\ ~ EmailTaken(Normalize[spelling])
    /\ user' = [user EXCEPT ![u] = [email |-> Normalize[spelling], active |-> TRUE]]
    /\ IF SlugTaken(slug)
       THEN UNCHANGED <<organization, member>>
       ELSE /\ organization' = [organization EXCEPT ![o] = [slug |-> slug, active |-> TRUE]]
            /\ member' = [member EXCEPT ![<<o, u>>] = [role |-> "admin", active |-> TRUE]]
    /\ UNCHANGED <<audit, request>>

\* register: three rows in one transaction.  With the email or the slug taken,
\* also by a registration that committed a moment ago, it has no effect (409).
Register(u, o, spelling, slug) ==
    /\ user[u] = None /\ organization[o] = None
    /\ ~ EmailTaken(Normalize[spelling]) /\ ~ SlugTaken(slug)
    /\ user' = [user EXCEPT ![u] = [email |-> Normalize[spelling], active |-> TRUE]]
    /\ organization' = [organization EXCEPT ![o] = [slug |-> slug, active |-> TRUE]]
    /\ member' = [member EXCEPT ![<<o, u>>] = [role |-> "admin", active |-> TRUE]]
    /\ UNCHANGED <<audit, request>>

Target(r) == <<request[r].organization, request[r].target>>

Goto(r, pc) == request' = [request EXCEPT ![r].pc = pc]

\* Any error response: nothing was written.
Refuse(r) == request' = [request EXCEPT ![r] = NoRequest]

\* A client with a valid token asks to add the user of an email to an
\* organization, its own or not.
Ask(r, actor, o, spelling) ==
    /\ request[r].pc = "idle"
    /\ user[actor] # None
    /\ request' = [request EXCEPT ![r] =
         [pc |-> "user", actor |-> actor, organization |-> o, email |-> spelling,
          target |-> None]]
    /\ UNCHANGED <<user, organization, member, audit>>

\* get_current_user: the token's user must be active (401).
CurrentUser(r) ==
    /\ request[r].pc = "user"
    /\ IF user[request[r].actor].active THEN Goto(r, "context") ELSE Refuse(r)
    /\ UNCHANGED <<user, organization, member, audit>>

ActiveAdmin(o, u) ==
    /\ organization[o] # None /\ organization[o].active
    /\ member[<<o, u>>] # None /\ member[<<o, u>>].active
    /\ member[<<o, u>>].role = "admin"

\* Mutation of Context: an admin of any organization will do.
ContextAnyOrganization(r) ==
    /\ request[r].pc = "context"
    /\ IF /\ organization[request[r].organization] # None
          /\ \E o \in Organizations : ActiveAdmin(o, request[r].actor)
       THEN Goto(r, "look_up") ELSE Refuse(r)
    /\ UNCHANGED <<user, organization, member, audit>>

\* get_organization_context and require_roles: an active organization in which
\* the actor is an active member (404), and an admin (403).
Context(r) ==
    /\ request[r].pc = "context"
    /\ IF ActiveAdmin(request[r].organization, request[r].actor)
       THEN Goto(r, "look_up") ELSE Refuse(r)
    /\ UNCHANGED <<user, organization, member, audit>>

Found(email) == {u \in Users : user[u] # None /\ user[u].email = email /\ user[u].active}

\* add_agent reads the active user of the email (404) and the membership (409).
LookUp(r) ==
    /\ request[r].pc = "look_up"
    /\ LET found == Found(Normalize[request[r].email]) IN
       \/ /\ found = {}
          /\ Refuse(r)
       \/ \E u \in found :
            IF member[<<request[r].organization, u>>] # None
            THEN Refuse(r)
            ELSE request' = [request EXCEPT ![r].pc = "commit", ![r].target = u]
    /\ UNCHANGED <<user, organization, member, audit>>

\* Mutation of AddCommits: a membership added meanwhile is written over.
AddMerges(r) ==
    /\ request[r].pc = "commit"
    /\ member' = [member EXCEPT ![Target(r)] = [role |-> "agent", active |-> TRUE]]
    /\ audit' = [audit EXCEPT ![Target(r)] = Append(@, request[r].actor)]
    /\ Refuse(r)
    /\ UNCHANGED <<user, organization>>

\* The commit of membership and audit event.
AddCommits(r) ==
    /\ request[r].pc = "commit"
    /\ member[Target(r)] = None
    /\ member' = [member EXCEPT ![Target(r)] = [role |-> "agent", active |-> TRUE]]
    /\ audit' = [audit EXCEPT ![Target(r)] = Append(@, request[r].actor)]
    /\ request' = [request EXCEPT ![r] = NoRequest]
    /\ UNCHANGED <<user, organization>>

\* The commit fails, for the primary key (409) or any other reason, and both
\* rows are rolled back.  An error after the commit took effect is AddCommits.
AddFails(r) ==
    /\ request[r].pc = "commit"
    /\ Refuse(r)
    /\ UNCHANGED <<user, organization, member, audit>>

\* Accounts, organizations and memberships are disabled and enabled by hand.
SetUser(u, active) ==
    /\ user[u] # None
    /\ user' = [user EXCEPT ![u] = [email |-> @.email, active |-> active]]
    /\ UNCHANGED <<organization, member, audit, request>>

SetOrganization(o, active) ==
    /\ organization[o] # None
    /\ organization' = [organization EXCEPT ![o] = [slug |-> @.slug, active |-> active]]
    /\ UNCHANGED <<user, member, audit, request>>

SetMember(p, active) ==
    /\ member[p] # None
    /\ member' = [member EXCEPT ![p] = [role |-> @.role, active |-> active]]
    /\ UNCHANGED <<user, organization, audit, request>>

AddStep(r) ==
    \/ \E actor \in Users, o \in Organizations, spelling \in Spellings :
         Ask(r, actor, o, spelling)
    \/ CurrentUser(r) \/ Context(r) \/ LookUp(r) \/ AddCommits(r) \/ AddFails(r)

MembershipNext ==
    \/ \E u \in Users, o \in Organizations, spelling \in Spellings, slug \in Slugs :
         Register(u, o, spelling, slug)
    \/ \E r \in Requests : AddStep(r)
    \/ \E active \in BOOLEAN :
         \/ \E u \in Users : SetUser(u, active)
         \/ \E o \in Organizations : SetOrganization(o, active)
         \/ \E p \in Places : SetMember(p, active)

MembershipSpec == MembershipInit /\ [][MembershipNext]_membershipVars

-----------------------------------------------------------------------------
\* Who was added has one audit event, who registered has none, and nobody else
\* has any (add_agent): also when two requests add the same user at once.
OneEventPerAgent ==
    \A p \in Places :
        Len(audit[p]) = IF member[p] # None /\ member[p].role = "agent" THEN 1 ELSE 0

\* Every event names an actor who is an admin of the organization that the
\* member was added to (require_roles), never of another one.
ActorsAreAdmins ==
    \A p \in Places : \A i \in 1 .. Len(audit[p]) :
        LET actor == <<p[1], audit[p][i]>> IN
        member[actor] # None /\ member[actor].role = "admin"

\* A registration is whole (register): each organization has one admin, each
\* user is the admin of one organization, members are users of organizations,
\* and an email in any spelling, or a slug, leads to one row.
RegistrationIsWhole ==
    LET AdminOf(o, u) == member[<<o, u>>] # None /\ member[<<o, u>>].role = "admin" IN
    /\ \A o \in Organizations : organization[o] # None => \E u \in Users : AdminOf(o, u)
    /\ \A u \in Users : user[u] # None => \E o \in Organizations : AdminOf(o, u)
    /\ \A o, p \in Organizations, u, v \in Users :
         AdminOf(o, u) /\ AdminOf(p, v) => (o = p <=> u = v)
    /\ \A o \in Organizations, u \in Users :
         member[<<o, u>>] # None => organization[o] # None /\ user[u] # None
    /\ \A u, v \in Users :
         user[u] # None /\ user[v] # None /\ u # v =>
             Normalize[user[u].email] # Normalize[user[v].email]
    /\ \A o, p \in Organizations :
         organization[o] # None /\ organization[p] # None /\ o # p =>
             organization[o].slug # organization[p].slug

\* The role a membership gives, whether or not it is disabled.
RoleOf(p) == IF member[p] = None THEN "none" ELSE member[p].role

Tenants == INSTANCE Tenancy WITH
    role  <- [p \in Places |-> RoleOf(p)],
    added <- audit

\* Registration and the addition of agents are atomic steps (register,
\* add_agent), though a request checks its actor, reads its target and commits
\* at three different times: when the membership appears its actor is an admin
\* there, its target a user without a role there, and the event is written.
ImplementsTenancy == Tenants!TenancySpec
=============================================================================
