-------------------------- MODULE MembershipProofs --------------------------
(***************************************************************************)
(* Proofs about Membership, for any number of users, organizations and     *)
(* requests and any normalization of email addresses.  A request acts on   *)
(* what it read before; the invariant says how much of it is still true:   *)
(* the actor's role and the target's row are never taken away, though      *)
(* both may have been disabled.                                            *)
(***************************************************************************)
EXTENDS Membership, SequenceTheorems, TLAPS

\* What a request holds, against the user and member rows.
RequestOK(q, us, ms) ==
    /\ q.pc # "idle" =>
         /\ q.actor \in Users
         /\ us[q.actor] # None
         /\ q.organization \in Organizations
         /\ q.email \in Spellings
    /\ q.pc \in {"look_up", "commit"} =>
         /\ ms[<<q.organization, q.actor>>] # None
         /\ ms[<<q.organization, q.actor>>].role = "admin"
    /\ q.pc = "commit" =>
         /\ q.target \in Users
         /\ us[q.target] # None

RequestsOK == \A r \in Requests : RequestOK(request[r], user, member)

EmailsNormalized == \A u \in Users : user[u] # None => Normalize[user[u].email] = user[u].email

MembershipInv ==
    /\ MembershipTypeOK
    /\ RequestsOK
    /\ EmailsNormalized
    /\ OneEventPerAgent
    /\ ActorsAreAdmins
    /\ RegistrationIsWhole

\* A step that leaves the rows alone.
SameRows == UNCHANGED <<user, organization, member, audit>>

-----------------------------------------------------------------------------
\* Rows are told from None (the tables of identity/models.py).
LEMMA RowsAreRows ==
    /\ \A x \in UserRow : x # None
    /\ \A x \in OrganizationRow : x # None
    /\ \A x \in MemberRow : x # None
BY MembershipAssumption DEF UserRow, OrganizationRow, MemberRow

\* Steps of a request before its commit change no row; the request goes on,
\* with what it found, or is refused (dependencies.py, add_agent).
LEMMA RequestSteps ==
    ASSUME MembershipInv, NEW r \in Requests,
           \/ \E actor \in Users, o \in Organizations, spelling \in Spellings :
                Ask(r, actor, o, spelling)
           \/ CurrentUser(r) \/ Context(r) \/ LookUp(r) \/ AddFails(r)
    PROVE  /\ SameRows
           /\ \E q \in AddRequest :
                /\ RequestOK(q, user, member)
                /\ request' = [request EXCEPT ![r] = q]
<1> DEFINE old == request[r]
<1>1. /\ old \in AddRequest
      /\ RequestOK(old, user, member)
  BY DEF MembershipInv, MembershipTypeOK, RequestsOK
<1>2. /\ NoRequest \in AddRequest
      /\ RequestOK(NoRequest, user, member)
  BY DEF NoRequest, AddRequest, RequestPC, RequestOK
<1>3. CASE \E actor \in Users, o \in Organizations, spelling \in Spellings :
             Ask(r, actor, o, spelling)
  <2> PICK actor \in Users, o \in Organizations, spelling \in Spellings :
        Ask(r, actor, o, spelling)
    BY <1>3
  <2> DEFINE q == [pc |-> "user", actor |-> actor, organization |-> o,
                   email |-> spelling, target |-> None]
  <2>1. q \in AddRequest
    BY DEF AddRequest, RequestPC
  <2>2. RequestOK(q, user, member)
    BY DEF RequestOK, Ask
  <2> QED  BY <2>1, <2>2 DEF Ask, SameRows
<1>4. CASE CurrentUser(r)
  <2> DEFINE q == [old EXCEPT !.pc = "context"]
  <2>1. q \in AddRequest
    BY <1>1 DEF AddRequest, RequestPC
  <2>2. RequestOK(q, user, member)
    BY <1>1, <1>4 DEF RequestOK, CurrentUser, AddRequest
  <2>3. Goto(r, "context") => request' = [request EXCEPT ![r] = q]
    BY DEF Goto
  <2> QED  BY <1>2, <1>4, <2>1, <2>2, <2>3 DEF CurrentUser, Refuse, SameRows
<1>5. CASE Context(r)
  <2> DEFINE q == [old EXCEPT !.pc = "look_up"]
  <2>1. q \in AddRequest
    BY <1>1 DEF AddRequest, RequestPC
  <2>2. ActiveAdmin(old.organization, old.actor) => RequestOK(q, user, member)
    BY <1>1, <1>5 DEF RequestOK, Context, AddRequest, ActiveAdmin
  <2>3. Goto(r, "look_up") => request' = [request EXCEPT ![r] = q]
    BY DEF Goto
  <2> QED  BY <1>2, <1>5, <2>1, <2>2, <2>3 DEF Context, Refuse, SameRows
<1>6. CASE LookUp(r)
  <2>1. CASE Refuse(r)
    BY <1>2, <1>6, <2>1 DEF LookUp, Refuse, SameRows
  <2>2. CASE ~ Refuse(r)
    <3>1. PICK u \in Found(Normalize[old.email]) :
            request' = [request EXCEPT ![r].pc = "commit", ![r].target = u]
      BY <1>6, <2>2 DEF LookUp
    <3> DEFINE q == [old EXCEPT !.pc = "commit", !.target = u]
    <3>2. u \in Users /\ user[u] # None
      BY DEF Found
    <3>3. q \in AddRequest
      BY <1>1, <3>2 DEF AddRequest, RequestPC
    <3>4. RequestOK(q, user, member)
      BY <1>1, <1>6, <3>2 DEF RequestOK, LookUp, AddRequest
    <3>5. request' = [request EXCEPT ![r] = q]
      BY <3>1
    <3> QED  BY <1>6, <3>3, <3>4, <3>5 DEF LookUp, SameRows
  <2> QED  BY <2>1, <2>2
<1>7. CASE AddFails(r)
  BY <1>2, <1>7 DEF AddFails, Refuse, SameRows
<1> QED  BY <1>3, <1>4, <1>5, <1>6, <1>7

\* A step that only moves a request keeps the invariant: no row changes, and the
\* other requests hold what they held.
LEMMA RequestStepKeeps ==
    ASSUME MembershipInv, NEW r \in Requests, NEW q \in AddRequest,
           RequestOK(q, user, member), SameRows,
           request' = [request EXCEPT ![r] = q]
    PROVE  MembershipInv'
<1>1. MembershipTypeOK'
  BY DEF MembershipInv, MembershipTypeOK, SameRows
<1>2. RequestsOK'
  <2> SUFFICES ASSUME NEW s \in Requests
               PROVE  RequestOK(request'[s], user, member)
    BY DEF RequestsOK, SameRows
  <2> QED  BY DEF MembershipInv, MembershipTypeOK, RequestsOK
<1>3. (/\ EmailsNormalized /\ OneEventPerAgent /\ ActorsAreAdmins
       /\ RegistrationIsWhole)'
  BY DEF MembershipInv, SameRows, EmailsNormalized, OneEventPerAgent, ActorsAreAdmins,
         RegistrationIsWhole
<1> QED  BY <1>1, <1>2, <1>3 DEF MembershipInv

\* Rows are never taken away, and keep their email, slug and role: what a
\* request read of them stays true (no statement of the services deletes one).
RowsKept ==
    /\ \A u \in Users : user[u] # None => user'[u] # None
    /\ \A p \in Places : member[p] # None =>
         /\ member'[p] # None
         /\ member'[p].role = member[p].role

\* What a request holds survives every step that keeps the rows.
LEMMA RequestsSurvive ==
    ASSUME MembershipInv, RowsKept, NEW q \in AddRequest, RequestOK(q, user, member)
    PROVE  RequestOK(q, user', member')
<1>1. q.pc # "idle" => <<q.organization, q.actor>> \in Places
  BY DEF RequestOK, Places
<1> QED  BY <1>1 DEF RowsKept, RequestOK

\* register keeps the invariant: the new ids carry no event and no membership
\* yet, and the unique constraints keep emails and slugs apart.
LEMMA RegisterKeeps ==
    ASSUME MembershipInv, NEW u \in Users, NEW o \in Organizations,
           NEW spelling \in Spellings, NEW slug \in Slugs,
           Register(u, o, spelling, slug)
    PROVE  MembershipInv'
<1> DEFINE email == Normalize[spelling]
           newUser == [email |-> email, active |-> TRUE]
           newOrganization == [slug |-> slug, active |-> TRUE]
           newMember == [role |-> "admin", active |-> TRUE]
<1>1. /\ email \in Spellings
      /\ Normalize[email] = email
  BY MembershipAssumption
<1>2. /\ newUser \in UserRow /\ newUser # None
      /\ newOrganization \in OrganizationRow /\ newOrganization # None
      /\ newMember \in MemberRow /\ newMember # None
  BY <1>1, RowsAreRows DEF UserRow, OrganizationRow, MemberRow
<1>3. /\ user[u] = None /\ organization[o] = None
      /\ ~ EmailTaken(email) /\ ~ SlugTaken(slug)
      /\ user' = [user EXCEPT ![u] = newUser]
      /\ organization' = [organization EXCEPT ![o] = newOrganization]
      /\ member' = [member EXCEPT ![<<o, u>>] = newMember]
      /\ audit' = audit /\ request' = request
  BY DEF Register
<1>4. <<o, u>> \in Places
  BY DEF Places
<1>5. /\ newUser.email = email /\ newOrganization.slug = slug
      /\ newMember.role = "admin"
  OBVIOUS
<1> HIDE DEF newUser, newOrganization, newMember, email
<1>6. MembershipTypeOK'
  BY <1>2, <1>3, <1>4 DEF MembershipInv, MembershipTypeOK
<1>7. /\ user \in [Users -> UserRow \cup {None}]
      /\ organization \in [Organizations -> OrganizationRow \cup {None}]
      /\ member \in [Places -> MemberRow \cup {None}]
      /\ audit \in [Places -> Seq(Users)]
      /\ request \in [Requests -> AddRequest]
  BY DEF MembershipInv, MembershipTypeOK
<1>8. member[<<o, u>>] = None
  BY <1>3 DEF MembershipInv, RegistrationIsWhole
<1>9. /\ user'[u] = newUser /\ \A v \in Users : v # u => user'[v] = user[v]
      /\ organization'[o] = newOrganization
      /\ \A p \in Organizations : p # o => organization'[p] = organization[p]
      /\ member'[<<o, u>>] = newMember
      /\ \A p \in Places : p # <<o, u>> => member'[p] = member[p]
  BY <1>3, <1>4, <1>7
<1>10. RowsKept
  BY <1>2, <1>3, <1>8, <1>9 DEF RowsKept
<1>11. RequestsOK'
  BY <1>3, <1>7, <1>10, RequestsSurvive DEF MembershipInv, RequestsOK
<1>12. EmailsNormalized'
  BY <1>1, <1>5, <1>9 DEF MembershipInv, EmailsNormalized
<1>13. OneEventPerAgent'
  <2> SUFFICES ASSUME NEW p \in Places
               PROVE  Len(audit[p]) = IF member'[p] # None /\ member'[p].role = "agent"
                                      THEN 1 ELSE 0
    BY <1>3 DEF OneEventPerAgent
  <2>1. CASE p = <<o, u>>
    BY <1>4, <1>5, <1>8, <1>9, <2>1 DEF MembershipInv, OneEventPerAgent
  <2>2. CASE p # <<o, u>>
    BY <1>9, <2>2 DEF MembershipInv, OneEventPerAgent
  <2> QED  BY <2>1, <2>2
<1>14. ActorsAreAdmins'
  <2> SUFFICES ASSUME NEW p \in Places, NEW i \in 1 .. Len(audit[p])
               PROVE  /\ member'[<<p[1], audit[p][i]>>] # None
                      /\ member'[<<p[1], audit[p][i]>>].role = "admin"
    BY <1>3 DEF ActorsAreAdmins
  <2>1. <<p[1], audit[p][i]>> \in Places
    BY <1>7 DEF Places
  <2>2. /\ member[<<p[1], audit[p][i]>>] # None
        /\ member[<<p[1], audit[p][i]>>].role = "admin"
    BY DEF MembershipInv, ActorsAreAdmins
  <2> QED  BY <1>10, <2>1, <2>2 DEF RowsKept
<1>15. RegistrationIsWhole'
  <2> DEFINE AdminOf(a, b) == member[<<a, b>>] # None /\ member[<<a, b>>].role = "admin"
             AdminOfNow(a, b) == member'[<<a, b>>] # None /\ member'[<<a, b>>].role = "admin"
  <2>1. \A a \in Organizations, b \in Users :
          AdminOfNow(a, b) <=> AdminOf(a, b) \/ (a = o /\ b = u)
    <3> SUFFICES ASSUME NEW a \in Organizations, NEW b \in Users
                 PROVE  AdminOfNow(a, b) <=> AdminOf(a, b) \/ (a = o /\ b = u)
      OBVIOUS
    <3>1. CASE a = o /\ b = u
      BY <1>2, <1>5, <1>9, <3>1
    <3>2. CASE ~ (a = o /\ b = u)
      <4>1. <<a, b>> \in Places /\ <<a, b>> # <<o, u>>
        BY <3>2 DEF Places
      <4> QED  BY <1>9, <3>2, <4>1
    <3> QED  BY <3>1, <3>2
  <2>2. \A a \in Organizations, b \in Users :
          AdminOf(a, b) => organization[a] # None /\ user[b] # None
    BY DEF MembershipInv, RegistrationIsWhole
  <2>3. \A a \in Organizations, b \in Users :
          member'[<<a, b>>] # None => organization'[a] # None /\ user'[b] # None
    <3> SUFFICES ASSUME NEW a \in Organizations, NEW b \in Users,
                        member'[<<a, b>>] # None
                 PROVE  organization'[a] # None /\ user'[b] # None
      OBVIOUS
    <3>1. CASE a = o /\ b = u
      BY <1>2, <1>9, <3>1
    <3>2. CASE ~ (a = o /\ b = u)
      <4>1. <<a, b>> \in Places /\ <<a, b>> # <<o, u>>
        BY <3>2 DEF Places
      <4>2. organization[a] # None /\ user[b] # None
        BY <1>9, <4>1 DEF MembershipInv, RegistrationIsWhole
      <4> QED  BY <1>3, <1>9, <4>2
    <3> QED  BY <3>1, <3>2
  <2>4. \A a \in Organizations : organization'[a] # None => \E b \in Users : AdminOfNow(a, b)
    <3>1. \A a \in Organizations : organization[a] # None => \E b \in Users : AdminOf(a, b)
      BY DEF MembershipInv, RegistrationIsWhole
    <3> QED  BY <1>9, <2>1, <3>1
  <2>5. \A b \in Users : user'[b] # None => \E a \in Organizations : AdminOfNow(a, b)
    <3>1. \A b \in Users : user[b] # None => \E a \in Organizations : AdminOf(a, b)
      BY DEF MembershipInv, RegistrationIsWhole
    <3> QED  BY <1>9, <2>1, <3>1
  <2>6. \A a, c \in Organizations, b, d \in Users :
          AdminOfNow(a, b) /\ AdminOfNow(c, d) => (a = c <=> b = d)
    <3>1. \A a, c \in Organizations, b, d \in Users :
            AdminOf(a, b) /\ AdminOf(c, d) => (a = c <=> b = d)
      BY DEF MembershipInv, RegistrationIsWhole
    <3> HIDE DEF AdminOf, AdminOfNow
    <3> QED  BY <1>3, <2>1, <2>2, <3>1
  <2>7. \A b, d \in Users :
          user'[b] # None /\ user'[d] # None /\ b # d =>
              Normalize[user'[b].email] # Normalize[user'[d].email]
    <3>1. \A b, d \in Users :
            user[b] # None /\ user[d] # None /\ b # d =>
                Normalize[user[b].email] # Normalize[user[d].email]
      BY DEF MembershipInv, RegistrationIsWhole
    <3>2. \A b \in Users : user[b] # None =>
            /\ user[b].email # email
            /\ Normalize[user[b].email] = user[b].email
      BY <1>3 DEF EmailTaken, MembershipInv, EmailsNormalized
    <3> QED  BY <1>1, <1>5, <1>9, <3>1, <3>2
  <2>8. \A a, c \in Organizations :
          organization'[a] # None /\ organization'[c] # None /\ a # c =>
              organization'[a].slug # organization'[c].slug
    <3>1. \A a, c \in Organizations :
            organization[a] # None /\ organization[c] # None /\ a # c =>
                organization[a].slug # organization[c].slug
      BY DEF MembershipInv, RegistrationIsWhole
    <3>2. \A a \in Organizations : organization[a] # None => organization[a].slug # slug
      BY <1>3 DEF SlugTaken
    <3> QED  BY <1>5, <1>9, <3>1, <3>2
  <2> QED  BY <2>3, <2>4, <2>5, <2>6, <2>7, <2>8 DEF RegistrationIsWhole
<1> QED
  BY <1>6, <1>11, <1>12, <1>13, <1>14, <1>15 DEF MembershipInv

\* add_agent's commit keeps the invariant: the primary key lets it write only
\* where no membership and so no event is, and its actor is still an admin.
LEMMA AddCommitKeeps ==
    ASSUME MembershipInv, NEW r \in Requests, AddCommits(r)
    PROVE  MembershipInv'
<1> DEFINE q == request[r]
           t == Target(r)
           newMember == [role |-> "agent", active |-> TRUE]
<1>1. /\ user \in [Users -> UserRow \cup {None}]
      /\ member \in [Places -> MemberRow \cup {None}]
      /\ audit \in [Places -> Seq(Users)]
      /\ request \in [Requests -> AddRequest]
  BY DEF MembershipInv, MembershipTypeOK
<1>2. /\ q.actor \in Users /\ q.organization \in Organizations
      /\ member[<<q.organization, q.actor>>] # None
      /\ member[<<q.organization, q.actor>>].role = "admin"
      /\ q.target \in Users /\ user[q.target] # None
  BY DEF AddCommits, MembershipInv, RequestsOK, RequestOK
<1>3. /\ t = <<q.organization, q.target>>
      /\ t \in Places
      /\ <<q.organization, q.actor>> \in Places
  BY <1>2 DEF Target, Places
<1>4. /\ newMember \in MemberRow /\ newMember # None
      /\ newMember.role = "agent"
  BY RowsAreRows DEF MemberRow
<1>5. /\ member[t] = None
      /\ member' = [member EXCEPT ![t] = newMember]
      /\ audit' = [audit EXCEPT ![t] = Append(audit[t], q.actor)]
      /\ request' = [request EXCEPT ![r] = NoRequest]
      /\ user' = user /\ organization' = organization
  BY DEF AddCommits
<1>6. /\ NoRequest \in AddRequest
      /\ RequestOK(NoRequest, user', member')
  BY DEF NoRequest, AddRequest, RequestPC, RequestOK
<1>7. audit[t] \in Seq(Users) /\ Append(audit[t], q.actor) \in Seq(Users)
  BY <1>1, <1>2, <1>3
<1>8. audit[t] = <<>>
  <2>1. Len(audit[t]) = 0
    BY <1>3, <1>5 DEF MembershipInv, OneEventPerAgent
  <2> QED  BY <1>7, <2>1, EmptySeq
<1>9. Append(audit[t], q.actor) = <<q.actor>>
  BY <1>8
<1> HIDE DEF q, t, newMember
<1>10. /\ member'[t] = newMember
       /\ \A p \in Places : p # t => member'[p] = member[p]
       /\ audit'[t] = <<q.actor>>
       /\ \A p \in Places : p # t => audit'[p] = audit[p]
  BY <1>1, <1>3, <1>5, <1>9
<1>11. MembershipTypeOK'
  BY <1>3, <1>4, <1>5, <1>6, <1>7 DEF MembershipInv, MembershipTypeOK
<1>12. RowsKept
  BY <1>5, <1>10 DEF RowsKept
<1>13. RequestsOK'
  <2> SUFFICES ASSUME NEW s \in Requests
               PROVE  RequestOK(request'[s], user', member')
    BY DEF RequestsOK
  <2>1. CASE s = r
    BY <1>1, <1>5, <1>6, <2>1
  <2>2. CASE s # r
    <3>1. /\ request'[s] = request[s]
          /\ request[s] \in AddRequest
          /\ RequestOK(request[s], user, member)
      BY <1>1, <1>5, <2>2 DEF MembershipInv, RequestsOK
    <3> QED  BY <1>12, <3>1, RequestsSurvive
  <2> QED  BY <2>1, <2>2
<1>14. EmailsNormalized'
  BY <1>5 DEF MembershipInv, EmailsNormalized
<1>15. OneEventPerAgent'
  <2> SUFFICES ASSUME NEW p \in Places
               PROVE  Len(audit'[p]) = IF member'[p] # None /\ member'[p].role = "agent"
                                       THEN 1 ELSE 0
    BY DEF OneEventPerAgent
  <2>1. CASE p = t
    BY <1>4, <1>10, <2>1
  <2>2. CASE p # t
    BY <1>10, <2>2 DEF MembershipInv, OneEventPerAgent
  <2> QED  BY <2>1, <2>2
<1>16. ActorsAreAdmins'
  <2> SUFFICES ASSUME NEW p \in Places, NEW i \in 1 .. Len(audit'[p])
               PROVE  /\ member'[<<p[1], audit'[p][i]>>] # None
                      /\ member'[<<p[1], audit'[p][i]>>].role = "admin"
    BY DEF ActorsAreAdmins
  <2>1. CASE p = t
    <3>1. audit'[p] = <<q.actor>>
      BY <1>10, <2>1
    <3>2. i = 1
      BY <3>1
    <3>3. audit'[p][i] = q.actor
      BY <3>1, <3>2
    <3>4. p[1] = q.organization
      BY <1>3, <2>1
    <3> QED  BY <1>2, <1>3, <1>12, <3>3, <3>4 DEF RowsKept
  <2>2. CASE p # t
    <3>1. audit'[p] = audit[p] /\ audit[p] \in Seq(Users)
      BY <1>1, <1>10, <2>2
    <3>2. <<p[1], audit[p][i]>> \in Places
      BY <3>1 DEF Places
    <3>3. /\ member[<<p[1], audit[p][i]>>] # None
          /\ member[<<p[1], audit[p][i]>>].role = "admin"
      BY <3>1 DEF MembershipInv, ActorsAreAdmins
    <3> QED  BY <1>12, <3>1, <3>2, <3>3 DEF RowsKept
  <2> QED  BY <2>1, <2>2
<1>17. RegistrationIsWhole'
  <2> DEFINE AdminOf(a, b) == member[<<a, b>>] # None /\ member[<<a, b>>].role = "admin"
             AdminOfNow(a, b) == member'[<<a, b>>] # None /\ member'[<<a, b>>].role = "admin"
  <2>1. \A a \in Organizations, b \in Users :
          /\ AdminOfNow(a, b) <=> AdminOf(a, b)
          /\ member'[<<a, b>>] # None => organization'[a] # None /\ user'[b] # None
    <3> SUFFICES ASSUME NEW a \in Organizations, NEW b \in Users
                 PROVE  /\ AdminOfNow(a, b) <=> AdminOf(a, b)
                        /\ member'[<<a, b>>] # None => organization'[a] # None /\ user'[b] # None
      OBVIOUS
    <3>1. <<a, b>> \in Places
      BY DEF Places
    <3>2. CASE <<a, b>> = t
      <4>1. a = q.organization /\ b = q.target
        BY <1>3, <3>2
      <4>2. organization[a] # None
        BY <1>2, <4>1 DEF MembershipInv, RegistrationIsWhole
      <4> QED  BY <1>2, <1>4, <1>5, <1>10, <3>2, <4>1, <4>2
    <3>3. CASE <<a, b>> # t
      <4>1. member'[<<a, b>>] = member[<<a, b>>]
        BY <1>10, <3>1, <3>3
      <4> QED  BY <1>5, <4>1 DEF MembershipInv, RegistrationIsWhole
    <3> QED  BY <3>2, <3>3
  <2>2. /\ \A a \in Organizations : organization'[a] # None => \E b \in Users : AdminOfNow(a, b)
        /\ \A b \in Users : user'[b] # None => \E a \in Organizations : AdminOfNow(a, b)
        /\ \A a, c \in Organizations, b, d \in Users :
             AdminOfNow(a, b) /\ AdminOfNow(c, d) => (a = c <=> b = d)
    <3>1. /\ \A a \in Organizations : organization[a] # None => \E b \in Users : AdminOf(a, b)
          /\ \A b \in Users : user[b] # None => \E a \in Organizations : AdminOf(a, b)
          /\ \A a, c \in Organizations, b, d \in Users :
               AdminOf(a, b) /\ AdminOf(c, d) => (a = c <=> b = d)
      BY DEF MembershipInv, RegistrationIsWhole
    <3> HIDE DEF AdminOf, AdminOfNow
    <3> QED  BY <1>5, <2>1, <3>1
  <2>3. /\ \A b, d \in Users :
             user'[b] # None /\ user'[d] # None /\ b # d =>
                 Normalize[user'[b].email] # Normalize[user'[d].email]
        /\ \A a, c \in Organizations :
             organization'[a] # None /\ organization'[c] # None /\ a # c =>
                 organization'[a].slug # organization'[c].slug
    BY <1>5 DEF MembershipInv, RegistrationIsWhole
  <2> QED  BY <2>1, <2>2, <2>3 DEF RegistrationIsWhole
<1> QED
  BY <1>11, <1>13, <1>14, <1>15, <1>16, <1>17 DEF MembershipInv

\* Only the active flag of some rows changes.
SameButActive ==
    /\ user' \in [Users -> UserRow \cup {None}]
    /\ organization' \in [Organizations -> OrganizationRow \cup {None}]
    /\ member' \in [Places -> MemberRow \cup {None}]
    /\ \A u \in Users : /\ user'[u] = None <=> user[u] = None
                        /\ user[u] # None => user'[u].email = user[u].email
    /\ \A o \in Organizations :
         /\ organization'[o] = None <=> organization[o] = None
         /\ organization[o] # None => organization'[o].slug = organization[o].slug
    /\ \A p \in Places : /\ member'[p] = None <=> member[p] = None
                         /\ member[p] # None => member'[p].role = member[p].role
    /\ audit' = audit /\ request' = request

\* Disabling and enabling is such a step.
LEMMA SettingsChangeActive ==
    ASSUME MembershipInv, NEW active \in BOOLEAN,
           \/ \E u \in Users : SetUser(u, active)
           \/ \E o \in Organizations : SetOrganization(o, active)
           \/ \E p \in Places : SetMember(p, active)
    PROVE  SameButActive
<1>1. /\ user \in [Users -> UserRow \cup {None}]
      /\ organization \in [Organizations -> OrganizationRow \cup {None}]
      /\ member \in [Places -> MemberRow \cup {None}]
  BY DEF MembershipInv, MembershipTypeOK
<1>2. CASE \E u \in Users : SetUser(u, active)
  <2> PICK u \in Users : SetUser(u, active)
    BY <1>2
  <2> DEFINE row == [email |-> user[u].email, active |-> active]
  <2>1. row \in UserRow /\ row # None /\ row.email = user[u].email
    BY <1>1, RowsAreRows DEF SetUser, UserRow
  <2>2. /\ user[u] # None
        /\ user' = [user EXCEPT ![u] = row]
        /\ UNCHANGED <<organization, member, audit, request>>
    BY DEF SetUser
  <2> HIDE DEF row
  <2> QED  BY <1>1, <2>1, <2>2 DEF SameButActive
<1>3. CASE \E o \in Organizations : SetOrganization(o, active)
  <2> PICK o \in Organizations : SetOrganization(o, active)
    BY <1>3
  <2> DEFINE row == [slug |-> organization[o].slug, active |-> active]
  <2>1. row \in OrganizationRow /\ row # None /\ row.slug = organization[o].slug
    BY <1>1, RowsAreRows DEF SetOrganization, OrganizationRow
  <2>2. /\ organization[o] # None
        /\ organization' = [organization EXCEPT ![o] = row]
        /\ UNCHANGED <<user, member, audit, request>>
    BY DEF SetOrganization
  <2> HIDE DEF row
  <2> QED  BY <1>1, <2>1, <2>2 DEF SameButActive
<1>4. CASE \E p \in Places : SetMember(p, active)
  <2> PICK p \in Places : SetMember(p, active)
    BY <1>4
  <2> DEFINE row == [role |-> member[p].role, active |-> active]
  <2>1. row \in MemberRow /\ row # None /\ row.role = member[p].role
    BY <1>1, RowsAreRows DEF SetMember, MemberRow
  <2>2. /\ member[p] # None
        /\ member' = [member EXCEPT ![p] = row]
        /\ UNCHANGED <<user, organization, audit, request>>
    BY DEF SetMember
  <2> HIDE DEF row
  <2> QED  BY <1>1, <2>1, <2>2 DEF SameButActive
<1> QED  BY <1>2, <1>3, <1>4

\* Such a step keeps the invariant, which asks nothing of the active flags.
LEMMA SettingsKeep ==
    ASSUME MembershipInv, SameButActive
    PROVE  MembershipInv'
<1>1. MembershipTypeOK'
  BY DEF MembershipInv, MembershipTypeOK, SameButActive
<1>2. RowsKept
  BY DEF SameButActive, RowsKept
<1>3. RequestsOK'
  BY <1>2, RequestsSurvive DEF MembershipInv, MembershipTypeOK, RequestsOK, SameButActive
<1>4. EmailsNormalized'
  BY DEF MembershipInv, EmailsNormalized, SameButActive
<1>5. OneEventPerAgent'
  BY DEF MembershipInv, OneEventPerAgent, SameButActive
<1>6. ActorsAreAdmins'
  <2> SUFFICES ASSUME NEW p \in Places, NEW i \in 1 .. Len(audit[p])
               PROVE  /\ member'[<<p[1], audit[p][i]>>] # None
                      /\ member'[<<p[1], audit[p][i]>>].role = "admin"
    BY DEF ActorsAreAdmins, SameButActive
  <2>1. <<p[1], audit[p][i]>> \in Places
    BY DEF Places, MembershipInv, MembershipTypeOK
  <2>2. /\ member[<<p[1], audit[p][i]>>] # None
        /\ member[<<p[1], audit[p][i]>>].role = "admin"
    BY DEF MembershipInv, ActorsAreAdmins
  <2> QED  BY <1>2, <2>1, <2>2 DEF RowsKept
<1>7. RegistrationIsWhole'
  <2> DEFINE AdminOf(a, b) == member[<<a, b>>] # None /\ member[<<a, b>>].role = "admin"
             AdminOfNow(a, b) == member'[<<a, b>>] # None /\ member'[<<a, b>>].role = "admin"
  <2>1. \A a \in Organizations, b \in Users : <<a, b>> \in Places
    BY DEF Places
  <2>2. \A a \in Organizations, b \in Users :
          /\ AdminOfNow(a, b) <=> AdminOf(a, b)
          /\ member'[<<a, b>>] # None => member[<<a, b>>] # None
    BY <2>1 DEF SameButActive
  <2>3. /\ \A a \in Organizations : organization[a] # None => \E b \in Users : AdminOf(a, b)
        /\ \A b \in Users : user[b] # None => \E a \in Organizations : AdminOf(a, b)
        /\ \A a, c \in Organizations, b, d \in Users :
             AdminOf(a, b) /\ AdminOf(c, d) => (a = c <=> b = d)
        /\ \A a \in Organizations, b \in Users :
             member[<<a, b>>] # None => organization[a] # None /\ user[b] # None
    BY DEF MembershipInv, RegistrationIsWhole
  <2>4. /\ \A b, d \in Users :
             user'[b] # None /\ user'[d] # None /\ b # d =>
                 Normalize[user'[b].email] # Normalize[user'[d].email]
        /\ \A a, c \in Organizations :
             organization'[a] # None /\ organization'[c] # None /\ a # c =>
                 organization'[a].slug # organization'[c].slug
    BY DEF MembershipInv, RegistrationIsWhole, SameButActive
  <2>5. /\ \A a \in Organizations : organization'[a] # None <=> organization[a] # None
        /\ \A b \in Users : user'[b] # None <=> user[b] # None
    BY DEF SameButActive
  <2>6. /\ \A a \in Organizations : organization'[a] # None => \E b \in Users : AdminOfNow(a, b)
        /\ \A b \in Users : user'[b] # None => \E a \in Organizations : AdminOfNow(a, b)
    <3>1. \A a \in Organizations, b \in Users : AdminOf(a, b) => AdminOfNow(a, b)
      BY <2>2
    <3>2. /\ \A a \in Organizations : organization'[a] # None => \E b \in Users : AdminOf(a, b)
          /\ \A b \in Users : user'[b] # None => \E a \in Organizations : AdminOf(a, b)
      <4> HIDE DEF AdminOf
      <4> QED  BY <2>3, <2>5
    <3> HIDE DEF AdminOf, AdminOfNow
    <3> QED  BY <3>1, <3>2
  <2>7. \A a, c \in Organizations, b, d \in Users :
          AdminOfNow(a, b) /\ AdminOfNow(c, d) => (a = c <=> b = d)
    BY <2>2, <2>3
  <2>8. \A a \in Organizations, b \in Users :
          member'[<<a, b>>] # None => organization'[a] # None /\ user'[b] # None
    BY <2>2, <2>3, <2>5
  <2> QED  BY <2>4, <2>6, <2>7, <2>8 DEF RegistrationIsWhole
<1> QED
  BY <1>1, <1>3, <1>4, <1>5, <1>6, <1>7 DEF MembershipInv

-----------------------------------------------------------------------------
\* The inductive invariant of registration and membership: what a request has
\* checked stays true of rows that are never taken away.
THEOREM MembershipInvariant == MembershipSpec => []MembershipInv
<1>1. MembershipInit => MembershipInv
  <2> SUFFICES ASSUME MembershipInit PROVE MembershipInv
    OBVIOUS
  <2> USE DEF MembershipInit
  <2>1. NoRequest \in AddRequest /\ RequestOK(NoRequest, user, member)
    BY DEF NoRequest, AddRequest, RequestPC, RequestOK
  <2>2. MembershipTypeOK
    BY <2>1 DEF MembershipTypeOK
  <2>3. RequestsOK
    BY <2>1 DEF RequestsOK
  <2>4. EmailsNormalized
    BY DEF EmailsNormalized
  <2>5. OneEventPerAgent
    BY DEF OneEventPerAgent
  <2>6. ActorsAreAdmins
    BY DEF ActorsAreAdmins
  <2>7. RegistrationIsWhole
    <3>1. \A o \in Organizations, u \in Users : member[<<o, u>>] = None
      BY DEF Places
    <3> QED  BY <3>1 DEF RegistrationIsWhole
  <2> QED  BY <2>2, <2>3, <2>4, <2>5, <2>6, <2>7 DEF MembershipInv
<1>2. MembershipInv /\ [MembershipNext]_membershipVars => MembershipInv'
  <2> SUFFICES ASSUME MembershipInv, [MembershipNext]_membershipVars
               PROVE  MembershipInv'
    OBVIOUS
  <2>1. CASE UNCHANGED membershipVars
    <3>1. MembershipTypeOK' /\ RequestsOK' /\ EmailsNormalized' /\ OneEventPerAgent'
      BY <2>1 DEF membershipVars, MembershipInv, MembershipTypeOK, RequestsOK,
         EmailsNormalized, OneEventPerAgent
    <3>2. ActorsAreAdmins'
      BY <2>1 DEF membershipVars, MembershipInv, ActorsAreAdmins
    <3>3. RegistrationIsWhole'
      BY <2>1 DEF membershipVars, MembershipInv, RegistrationIsWhole
    <3> QED  BY <3>1, <3>2, <3>3 DEF MembershipInv
  <2>2. ASSUME NEW u \in Users, NEW o \in Organizations, NEW spelling \in Spellings,
               NEW slug \in Slugs, Register(u, o, spelling, slug)
        PROVE  MembershipInv'
    BY <2>2, RegisterKeeps
  <2>3. ASSUME NEW r \in Requests, AddStep(r)
        PROVE  MembershipInv'
    <3>1. CASE AddCommits(r)
      BY <3>1, AddCommitKeeps
    <3>2. CASE ~ AddCommits(r)
      <4>1. /\ SameRows
            /\ \E q \in AddRequest :
                 /\ RequestOK(q, user, member)
                 /\ request' = [request EXCEPT ![r] = q]
        BY <2>3, <3>2, RequestSteps DEF AddStep
      <4> QED  BY <4>1, RequestStepKeeps
    <3> QED  BY <3>1, <3>2
  <2>4. ASSUME NEW active \in BOOLEAN,
               \/ \E u \in Users : SetUser(u, active)
               \/ \E o \in Organizations : SetOrganization(o, active)
               \/ \E p \in Places : SetMember(p, active)
        PROVE  MembershipInv'
    BY <2>4, SettingsChangeActive, SettingsKeep
  <2> QED  BY <2>1, <2>2, <2>3, <2>4 DEF MembershipNext
<1> QED  BY <1>1, <1>2, PTL DEF MembershipSpec

\* Types hold for any number of users, organizations and requests.
THEOREM MembershipTypes == MembershipSpec => []MembershipTypeOK
<1>1. MembershipInv => MembershipTypeOK
  BY DEF MembershipInv
<1> QED  BY <1>1, MembershipInvariant, PTL

\* add_agent leaves one event per member it added, however requests meet.
THEOREM AgentsAudited == MembershipSpec => []OneEventPerAgent
<1>1. MembershipInv => OneEventPerAgent
  BY DEF MembershipInv
<1> QED  BY <1>1, MembershipInvariant, PTL

\* Members are added by admins of their own organization (require_roles).
THEOREM AddedByAdmins == MembershipSpec => []ActorsAreAdmins
<1>1. MembershipInv => ActorsAreAdmins
  BY DEF MembershipInv
<1> QED  BY <1>1, MembershipInvariant, PTL

\* register leaves user, organization and membership together, and no email or
\* slug twice.
THEOREM RegistrationsWhole == MembershipSpec => []RegistrationIsWhole
<1>1. MembershipInv => RegistrationIsWhole
  BY DEF MembershipInv
<1> QED  BY <1>1, MembershipInvariant, PTL

-----------------------------------------------------------------------------
\* A membership that appears changes the roles in its own place alone.
LEMMA RoleAppears ==
    ASSUME MembershipTypeOK, NEW p \in Places, NEW row \in MemberRow,
           member' = [member EXCEPT ![p] = row]
    PROVE  [x \in Places |-> RoleOf(x)]'
             = [[x \in Places |-> RoleOf(x)] EXCEPT ![p] = row.role]
<1>1. member'[p] = row /\ \A x \in Places : x # p => member'[x] = member[x]
  BY DEF MembershipTypeOK
<1>2. row # None
  BY RowsAreRows
<1>3. \A x \in Places : RoleOf(x)' = IF x = p THEN row.role ELSE RoleOf(x)
  BY <1>1, <1>2 DEF RoleOf
<1> QED  BY <1>3

\* A registration founds an organization (register).
LEMMA RegisterFounds ==
    ASSUME MembershipInv, NEW u \in Users, NEW o \in Organizations,
           NEW spelling \in Spellings, NEW slug \in Slugs,
           Register(u, o, spelling, slug)
    PROVE  Tenants!TenancyNext
<1> DEFINE roles == [x \in Places |-> RoleOf(x)]
           row == [role |-> "admin", active |-> TRUE]
<1>1. /\ user[u] = None /\ organization[o] = None /\ audit' = audit
      /\ member' = [member EXCEPT ![<<o, u>>] = row]
  BY DEF Register
<1>2. row \in MemberRow /\ row.role = "admin" /\ <<o, u>> \in Places
  BY DEF MemberRow, Places
<1> HIDE DEF row
<1>3. roles' = [roles EXCEPT ![<<o, u>>] = "admin"]
  BY <1>1, <1>2, RoleAppears DEF MembershipInv
<1>4. \A a \in Organizations, b \in Users :
        member[<<a, b>>] # None => organization[a] # None /\ user[b] # None
  BY DEF MembershipInv, RegistrationIsWhole
<1>5. /\ \A b \in Users : roles[<<o, b>>] = "none"
      /\ \A a \in Organizations : roles[<<a, u>>] = "none"
  BY <1>1, <1>4 DEF RoleOf, Places
<1> HIDE DEF roles
<1>6. Tenants!Found(o, u)
  BY <1>1, <1>3, <1>5 DEF Tenants!Found, roles
<1> QED  BY <1>6 DEF Tenants!TenancyNext

\* A commit of add_agent is an addition by an admin, whenever it comes.
LEMMA AddCommitAdds ==
    ASSUME MembershipInv, NEW r \in Requests, AddCommits(r)
    PROVE  Tenants!TenancyNext
<1> DEFINE roles == [x \in Places |-> RoleOf(x)]
           row == [role |-> "agent", active |-> TRUE]
<1>1. /\ request[r].actor \in Users /\ request[r].organization \in Organizations
      /\ member[<<request[r].organization, request[r].actor>>] # None
      /\ member[<<request[r].organization, request[r].actor>>].role = "admin"
      /\ request[r].target \in Users /\ user[request[r].target] # None
  BY DEF AddCommits, MembershipInv, RequestsOK, RequestOK
<1>2. PICK actor \in Users, o \in Organizations, u \in Users :
        /\ actor = request[r].actor /\ o = request[r].organization
        /\ u = request[r].target
  BY <1>1
<1>3. /\ member[<<o, u>>] = None
      /\ member' = [member EXCEPT ![<<o, u>>] = row]
      /\ audit' = [audit EXCEPT ![<<o, u>>] = Append(audit[<<o, u>>], actor)]
  BY <1>2 DEF AddCommits, Target
<1>4. row \in MemberRow /\ row.role = "agent" /\ <<o, u>> \in Places /\ <<o, actor>> \in Places
  BY DEF MemberRow, Places
<1> HIDE DEF row
<1>5. roles' = [roles EXCEPT ![<<o, u>>] = "agent"]
  BY <1>3, <1>4, RoleAppears DEF MembershipInv
<1>6. audit' = [audit EXCEPT ![<<o, u>>] = <<actor>>]
  <2>1. audit[<<o, u>>] \in Seq(Users) /\ Len(audit[<<o, u>>]) = 0
    BY <1>3, <1>4 DEF MembershipInv, MembershipTypeOK, OneEventPerAgent
  <2>2. audit[<<o, u>>] = <<>>
    BY <2>1, EmptySeq
  <2>3. Append(audit[<<o, u>>], actor) = <<actor>>
    BY <2>2
  <2> QED  BY <1>3, <2>3
<1>7. roles[<<o, actor>>] = "admin" /\ roles[<<o, u>>] = "none"
  BY <1>1, <1>2, <1>3, <1>4 DEF RoleOf
<1>8. \E a \in Organizations : roles[<<a, u>>] = "admin"
  <2>1. user[u] # None
    BY <1>1, <1>2
  <2>2. PICK a \in Organizations : member[<<a, u>>] # None /\ member[<<a, u>>].role = "admin"
    BY <2>1 DEF MembershipInv, RegistrationIsWhole
  <2> QED  BY <2>2 DEF RoleOf, Places
<1> HIDE DEF roles
<1>9. Tenants!AddAgent(actor, o, u)
  BY <1>5, <1>6, <1>7, <1>8 DEF Tenants!AddAgent, Tenants!Registered, roles
<1> QED  BY <1>9 DEF Tenants!TenancyNext

\* Registration and add_agent implement the tenancy: what requests read and
\* commit at different times looks like one step of founding or of adding, for
\* any number of users, organizations and requests.
THEOREM TenancyRefinement == MembershipSpec => ImplementsTenancy
<1>1. MembershipInit => Tenants!TenancyInit
  <2> SUFFICES ASSUME MembershipInit PROVE Tenants!TenancyInit
    OBVIOUS
  <2>1. \A p \in Places : RoleOf(p) = "none"
    BY DEF MembershipInit, RoleOf
  <2> QED  BY <2>1 DEF MembershipInit, Tenants!TenancyInit, Places
<1>2. MembershipInv /\ [MembershipNext]_membershipVars
        => [Tenants!TenancyNext]_(Tenants!tenancy)
  <2> SUFFICES ASSUME MembershipInv, [MembershipNext]_membershipVars
               PROVE  Tenants!TenancyNext \/ UNCHANGED Tenants!tenancy
    OBVIOUS
  <2>1. ASSUME \A p \in Places : RoleOf(p)' = RoleOf(p), audit' = audit
        PROVE  UNCHANGED Tenants!tenancy
    BY <2>1 DEF Tenants!tenancy
  <2>2. CASE UNCHANGED <<member, audit>>
    BY <2>1, <2>2 DEF RoleOf
  <2>3. ASSUME NEW u \in Users, NEW o \in Organizations, NEW spelling \in Spellings,
               NEW slug \in Slugs, Register(u, o, spelling, slug)
        PROVE  Tenants!TenancyNext
    BY <2>3, RegisterFounds
  <2>4. ASSUME NEW r \in Requests, AddStep(r)
        PROVE  Tenants!TenancyNext \/ UNCHANGED <<member, audit>>
    <3>1. CASE AddCommits(r)
      BY <3>1, AddCommitAdds
    <3>2. CASE ~ AddCommits(r)
      BY <2>4, <3>2, RequestSteps DEF AddStep, SameRows
    <3> QED  BY <3>1, <3>2
  <2>5. ASSUME NEW active \in BOOLEAN,
               \/ \E u \in Users : SetUser(u, active)
               \/ \E o \in Organizations : SetOrganization(o, active)
               \/ \E p \in Places : SetMember(p, active)
        PROVE  UNCHANGED Tenants!tenancy
    BY <2>1, <2>5, SettingsChangeActive DEF SameButActive, RoleOf
  <2> QED  BY <2>2, <2>3, <2>4, <2>5 DEF MembershipNext, membershipVars
<1> QED  BY <1>1, <1>2, MembershipInvariant, PTL
     DEF MembershipSpec, ImplementsTenancy, Tenants!TenancySpec
=============================================================================
