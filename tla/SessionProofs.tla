--------------------------- MODULE SessionProofs ---------------------------
(***************************************************************************)
(* Proofs about BrowserSession for any number of tabs, users and sessions. *)
(* What a handler read of its session may be over when it goes on; the     *)
(* invariant says what is still true of it: the session was drawn, it has  *)
(* the user that was read, and if it was gone at the start it is gone.     *)
(***************************************************************************)
EXTENDS BrowserSession, TLAPS

\* Handlers past the check of an authenticated session, and of an anonymous one.
Member(q) ==
    \/ q.pc \in {"context", "revoke", "invalidate", "act"}
    \/ q.pc = "form" /\ q.kind # "login"

Anonymous(q) ==
    \/ q.pc \in {"credentials", "authenticate"}
    \/ q.pc = "form" /\ q.kind = "login"

\* What holds of a request q when the sessions are ss.
RequestOK(q, ss) ==
    /\ q.cookie # None => ss[q.cookie].state # "unused"
    /\ q.set \in Sessions => ss[q.set].state # "unused"
    /\ q.late => q.cookie # None /\ ss[q.cookie].state = "gone" /\ q.pc \notin Trusting
    /\ Member(q) => /\ q.cookie \in Sessions /\ q.user # None /\ q.kind # "login"
                    /\ ss[q.cookie].user = q.user
    /\ Anonymous(q) => /\ q.cookie \in Sessions /\ q.kind = "login"
                       /\ ss[q.cookie].user = None
    /\ q.pc = "authenticate" => q.user # None
    /\ q.pc = "create" => /\ q.kind # "login"
                          /\ q.cookie # None => \/ ss[q.cookie].state = "gone"
                                                \/ ss[q.cookie].user = None
    /\ q.pc \in {"act", "invalidate"} => q.token = q.cookie
    /\ q.pc # "respond" => q.set = None
    /\ q.set # None /\ q.cookie # None => ss[q.cookie].state = "gone"
    /\ q.kind = "login" /\ q.set # None =>
         /\ q.set \in Sessions /\ q.user # None
         /\ ss[q.set].user = q.user
         /\ q.cookie \in Sessions /\ ss[q.cookie].state = "gone"

SInv ==
    /\ SessionTypeOK
    /\ cookie # None => session[cookie].state # "unused"
    /\ \A r \in Requests : RequestOK(request[r], session)

\* One step of SessionLifecycle.
Evolves ==
    \A s \in Sessions :
        session[s].state # "unused" =>
                   /\ session'[s].user = session[s].user
                   /\ session'[s].state # "unused"
                   /\ session[s].state = "gone" => session'[s].state = "gone"

-----------------------------------------------------------------------------
USE SessionAssumption

\* What is known of a request stays true while its session evolves.
LEMMA Stable ==
    ASSUME Evolves, NEW q \in RequestRow, RequestOK(q, session)
    PROVE  RequestOK(q, session')
<1>1. q.cookie # None => q.cookie \in Sessions
  BY DEF RequestRow
<1>. QED BY <1>1 DEF Evolves, RequestOK, Member, Anonymous

\* Deleting a session keeps all of them well-formed and lets them evolve.
LEMMA DeleteOK ==
    ASSUME session \in [Sessions -> SessionRow], NEW s
    PROVE  /\ Delete(s) \in [Sessions -> SessionRow]
           /\ \A x \in Sessions :
                /\ Delete(s)[x].user = session[x].user
                /\ session[x].state = "unused" <=> Delete(s)[x].state = "unused"
                /\ session[x].state = "gone" => Delete(s)[x].state = "gone"
                /\ session[x].state # Delete(s)[x].state => x = s
                /\ x = s => Delete(s)[x].state # "live"
<1>1. ASSUME NEW x \in Sessions
      PROVE  /\ Delete(s)[x] \in SessionRow
             /\ Delete(s)[x].user = session[x].user
             /\ session[x].state = "unused" <=> Delete(s)[x].state = "unused"
             /\ session[x].state = "gone" => Delete(s)[x].state = "gone"
             /\ session[x].state # Delete(s)[x].state => x = s
             /\ x = s => Delete(s)[x].state # "live"
  <2>1. session[x] \in SessionRow
    OBVIOUS
  <2>2. Delete(s)[x] = IF x = s /\ session[x].state = "live"
                       THEN [state |-> "gone", user |-> session[x].user, left |-> 0]
                       ELSE session[x]
    BY DEF Delete
  <2>. QED BY <2>1, <2>2 DEF SessionRow
<1>2. Delete(s) \in [Sessions -> SessionRow]
  BY <1>1 DEF Delete
<1>. QED BY <1>1, <1>2

\* A step that changes one request at most keeps the invariant if the sessions
\* evolve and the new request is well-formed.
LEMMA OneRequest ==
    ASSUME SInv, Evolves, session' \in [Sessions -> SessionRow],
           members' \in SUBSET Users, pages' \in SUBSET Sessions,
           cookie' \in Sessions \cup {None}, cookie' # None => session'[cookie'].state # "unused",
           NEW r \in Requests, NEW q \in RequestRow,
           request' = [request EXCEPT ![r] = q], RequestOK(q, session')
    PROVE  SInv'
<1>1. request \in [Requests -> RequestRow]
  BY DEF SInv, SessionTypeOK
<1>2. request' \in [Requests -> RequestRow]
  BY <1>1
<1>3. ASSUME NEW x \in Requests PROVE RequestOK(request'[x], session')
  <2>1. CASE x = r
    BY <1>1, <2>1
  <2>2. CASE x # r
    <3>1. request'[x] = request[x] /\ request[x] \in RequestRow
      BY <1>1, <2>2
    <3>2. RequestOK(request[x], session)
      BY DEF SInv
    <3>. QED BY <3>1, <3>2, Stable
  <2>. QED BY <2>1, <2>2
<1>4. SessionTypeOK'
  BY <1>2 DEF SessionTypeOK
<1>. QED BY <1>3, <1>4 DEF SInv

LEMMA RequestFacts ==
    ASSUME SInv, NEW r \in Requests
    PROVE  /\ request[r] \in RequestRow /\ RequestOK(request[r], session)
           /\ request \in [Requests -> RequestRow]
           /\ session \in [Sessions -> SessionRow]
           /\ members \in SUBSET Users /\ pages \in SUBSET Sessions
           /\ cookie \in Sessions \cup {None}
           /\ cookie # None => session[cookie].state # "unused"
  BY DEF SInv, SessionTypeOK

\* The two ways a handler moves its request.
LEMMA StepIs ==
    ASSUME SInv, NEW r \in Requests, NEW pc \in PCs, Step(r, pc)
    PROVE  /\ request' = [request EXCEPT ![r] = [request[r] EXCEPT !.pc = pc]]
           /\ [request[r] EXCEPT !.pc = pc] \in RequestRow
<1>1. request[r] \in RequestRow
  BY RequestFacts
<1>. QED BY <1>1 DEF Step, RequestRow

Ended(q, set, page) ==
    [q EXCEPT !.pc = "respond", !.set = set, !.page = page, !.token = None]

LEMMA EndIs ==
    ASSUME SInv, NEW r \in Requests, NEW set \in Sessions \cup {None, "clear"},
           NEW page \in Sessions \cup {None}, End(r, set, page)
    PROVE  /\ request' = [request EXCEPT ![r] = Ended(request[r], set, page)]
           /\ Ended(request[r], set, page) \in RequestRow
<1>1. request[r] \in RequestRow /\ request \in [Requests -> RequestRow]
  BY RequestFacts
<1>2. request' = [request EXCEPT ![r] = Ended(request[r], set, page)]
  BY <1>1 DEF End, Ended
<1>3. Ended(request[r], set, page) \in RequestRow
  BY <1>1 DEF RequestRow, Ended, PCs
<1>. QED BY <1>2, <1>3

\* A handler that leaves the sessions alone, or deletes one, keeps the
\* invariant if its own request is well-formed afterwards.
LEMMA Handler ==
    ASSUME SInv, NEW r \in Requests, NEW q \in RequestRow, NEW s,
           session' = session \/ session' = Delete(s),
           request' = [request EXCEPT ![r] = q], RequestOK(q, session'),
           UNCHANGED <<members, cookie, pages>>
    PROVE  SInv' /\ Evolves
<1>1. Evolves /\ session' \in [Sessions -> SessionRow]
  BY RequestFacts, DeleteOK DEF Evolves
<1>2. cookie' # None => session'[cookie'].state # "unused"
  BY <1>1, RequestFacts DEF Evolves
<1>. QED BY <1>1, <1>2, RequestFacts, OneRequest

LEMMA SendOK ==
    ASSUME SInv, NEW r \in Requests, NEW kind \in Kinds, NEW token \in Sessions \cup {None},
           Send(r, kind, token)
    PROVE  SInv' /\ Evolves
<1> DEFINE late == cookie # None /\ ~ Live(cookie)
           q == [pc |-> "resolve", kind |-> kind, cookie |-> cookie, token |-> token,
                 user |-> None, set |-> None, page |-> None, late |-> late]
<1>1. request' = [request EXCEPT ![r] = q] /\ session' = session
      /\ UNCHANGED <<members, cookie, pages>>
  BY DEF Send
<1>2. /\ cookie \in Sessions \cup {None}
      /\ cookie # None => session[cookie].state # "unused"
  BY RequestFacts
<1>3. /\ late \in BOOLEAN
      /\ late => cookie # None /\ session[cookie].state = "gone"
  BY <1>2, RequestFacts DEF SessionRow, Live
<1> HIDE DEF late
<1>4. q \in RequestRow
  BY <1>2, <1>3 DEF RequestRow, PCs
<1>5. RequestOK(q, session)
  BY <1>2, <1>3 DEF RequestOK, Member, Anonymous, Trusting
<1> HIDE DEF q
<1>. QED BY <1>1, <1>4, <1>5, Handler

LEMMA ResolveOK ==
    ASSUME SInv, NEW r \in Requests, Resolve(r)
    PROVE  SInv' /\ Evolves
<1> DEFINE s == request[r].cookie
           found == Live(s) /\ session[s].left > 0
           user == IF found THEN session[s].user ELSE None
           pc == IF request[r].kind = "login"
                 THEN IF found /\ user = None THEN "form" ELSE "respond"
                 ELSE IF user # None THEN "context" ELSE NoContext(r)
           q == [request[r] EXCEPT !.user = user, !.pc = pc]
<1>1. /\ request[r] \in RequestRow /\ RequestOK(request[r], session)
      /\ request[r].pc = "resolve"
      /\ s \in Sessions \cup {None}
      /\ s # None => session[s] \in SessionRow
  BY RequestFacts DEF Resolve, RequestRow
<1>2. user \in Users \cup {None} /\ pc \in PCs
  <2>1. s # None => session[s].user \in Users \cup {None}
    BY <1>1 DEF SessionRow
  <2>2. user \in Users \cup {None}
    BY <2>1 DEF Live
  <2>3. pc \in PCs
    BY DEF PCs, Trusting, NoContext
  <2>. QED BY <2>2, <2>3
<1>3. q \in RequestRow
  BY <1>1, <1>2 DEF RequestRow
<1>4. request' = [request EXCEPT ![r] = q] /\ UNCHANGED <<members, cookie, pages>>
  BY RequestFacts, <1>1 DEF Resolve
<1>5. \/ session' = session /\ (found \/ ~ Live(s))
      \/ session' = Delete(s) /\ ~ found /\ Live(s)
  BY DEF Resolve
<1>6. RequestOK(q, session')
  <2>1. /\ q.cookie = s /\ q.user = user /\ q.pc = pc /\ q.set = None
        /\ q.kind = request[r].kind /\ q.late = request[r].late
    BY <1>1, <1>3 DEF RequestRow, RequestOK
  <2>2. found => s # None /\ session'[s] = session[s] /\ session[s].state = "live"
    BY <1>5 DEF Live
  <2>3. /\ s # None => session'[s].state # "unused"
        /\ q.late => s # None /\ session'[s].state = "gone" /\ ~ found
        /\ s # None /\ ~ found => session'[s].state = "gone"
    <3>0. s # None => session[s].state # "unused" /\ session[s] \in SessionRow
      BY <1>1 DEF RequestOK
    <3>1. s # None => session[s].state \in {"live", "gone"}
      BY <3>0 DEF SessionRow
    <3>2. Live(s) /\ ~ found => s \in Sessions /\ session'[s].state = "gone"
      <4>. SUFFICES ASSUME Live(s), ~ found PROVE s \in Sessions /\ session'[s].state = "gone"
        OBVIOUS
      <4>1. s \in Sessions /\ session' = Delete(s) /\ session[s].state = "live"
        BY <1>1, <1>5 DEF Live
      <4>. QED BY <4>1, RequestFacts DEF Delete
    <3>. QED BY <1>1, <1>5, <2>1, <3>1, <3>2 DEF RequestOK, Live
  <2>4. /\ Member(q) => found /\ user # None /\ q.kind # "login"
        /\ Anonymous(q) => found /\ user = None /\ q.kind = "login"
        /\ q.pc \notin {"authenticate", "act", "invalidate"}
        /\ q.pc = "create" => user = None /\ q.kind # "login"
        /\ q.pc \in Trusting => found
    BY <2>1 DEF Member, Anonymous, NoContext, Trusting
  <2>5. s # None => s \in Sessions
    BY <1>1
  <2>6. user = IF found THEN session[s].user ELSE None
    OBVIOUS
  <2> HIDE DEF q, pc, found, s, user
  <2>. QED BY <2>1, <2>2, <2>3, <2>4, <2>5, <2>6 DEF RequestOK
<1> HIDE DEF q
<1>. QED BY <1>3, <1>4, <1>5, <1>6, Handler

\* A step that only moves the request on; what the invariant says of the new
\* position follows from the old one.
LEMMA Moves ==
    ASSUME SInv, NEW r \in Requests, NEW pc \in PCs, Step(r, pc), NEW s,
           session' = session \/ session' = Delete(s),
           UNCHANGED <<members, cookie, pages>>,
           request[r].pc # "respond",
           request[r].pc \in Trusting \/ pc \notin Trusting,
           Member([request[r] EXCEPT !.pc = pc]) => Member(request[r]),
           Anonymous([request[r] EXCEPT !.pc = pc]) => Anonymous(request[r]),
           pc \in {"act", "invalidate"} => request[r].token = request[r].cookie,
           pc # "authenticate",
           pc = "create" => /\ request[r].kind # "login"
                            /\ request[r].cookie # None =>
                                 session'[request[r].cookie].state = "gone"
    PROVE  SInv' /\ Evolves
<1> DEFINE q == [request[r] EXCEPT !.pc = pc]
<1>1. /\ request[r] \in RequestRow /\ RequestOK(request[r], session)
      /\ request' = [request EXCEPT ![r] = q] /\ q \in RequestRow
  BY RequestFacts, StepIs
<1>2. /\ q.pc = pc /\ q.kind = request[r].kind /\ q.cookie = request[r].cookie
      /\ q.token = request[r].token /\ q.user = request[r].user
      /\ q.set = request[r].set /\ q.late = request[r].late
  BY <1>1 DEF RequestRow
<1>3. Evolves
  BY RequestFacts, DeleteOK DEF Evolves
<1>4. RequestOK(request[r], session')
  BY <1>1, <1>3, Stable
<1>5. Member(q) => Member(request[r])
  OBVIOUS
<1>6. Anonymous(q) => Anonymous(request[r])
  OBVIOUS
<1> HIDE DEF q
<1>7. RequestOK(q, session')
  BY <1>2, <1>4, <1>5, <1>6 DEF RequestOK
<1>. QED BY <1>1, <1>7, Handler

\* A handler that ends without a new cookie.
LEMMA Ends ==
    ASSUME SInv, NEW r \in Requests, NEW set \in {None, "clear"},
           NEW page \in Sessions \cup {None}, End(r, set, page), NEW s,
           session' = session \/ session' = Delete(s),
           UNCHANGED <<members, cookie, pages>>,
           set = "clear" => /\ request[r].kind # "login"
                            /\ session'[request[r].cookie].state = "gone"
    PROVE  SInv' /\ Evolves
<1> DEFINE q == Ended(request[r], set, page)
<1>1. /\ request[r] \in RequestRow /\ RequestOK(request[r], session)
      /\ request' = [request EXCEPT ![r] = q] /\ q \in RequestRow
  BY RequestFacts, EndIs
<1>2. /\ q.pc = "respond" /\ q.kind = request[r].kind /\ q.cookie = request[r].cookie
      /\ q.set = set /\ q.late = request[r].late
  BY <1>1 DEF RequestRow, Ended
<1>3. Evolves
  BY RequestFacts, DeleteOK DEF Evolves
<1>4. RequestOK(request[r], session')
  BY <1>1, <1>3, Stable
<1> HIDE DEF q
<1>7. RequestOK(q, session')
  BY <1>2, <1>4 DEF RequestOK, Member, Anonymous, Trusting
<1>. QED BY <1>1, <1>7, Handler

LEMMA ContextOK ==
    ASSUME SInv, NEW r \in Requests, Context(r)
    PROVE  SInv' /\ Evolves
<1>0. request[r].pc = "context"
  BY DEF Context
<1>1. request[r] \in RequestRow /\ RequestOK(request[r], session) /\ Member(request[r])
  <2>1. Member(request[r])
    BY <1>0 DEF Member
  <2>. QED BY <2>1, RequestFacts
<1>2. session' = session /\ UNCHANGED <<members, cookie, pages>> /\ request[r].pc = "context"
  BY DEF Context
<1>3. ASSUME NEW pc \in {"revoke", "form"}, Step(r, pc) PROVE SInv' /\ Evolves
  <2>1. request[r].kind # "login" /\ [request[r] EXCEPT !.pc = pc].kind = request[r].kind
        /\ [request[r] EXCEPT !.pc = pc].pc = pc
    BY <1>1 DEF RequestOK, RequestRow
  <2>2. ~ Anonymous([request[r] EXCEPT !.pc = pc])
    BY <2>1 DEF Anonymous
  <2>. QED BY <1>1, <1>2, <1>3, <2>2, Moves DEF PCs, Trusting
<1>4. ASSUME NEW page \in Sessions \cup {None}, End(r, None, page) PROVE SInv' /\ Evolves
  BY <1>2, <1>4, Ends
<1>5. request[r].cookie \in Sessions \cup {None}
  BY <1>1 DEF RequestRow
<1>. QED BY <1>3, <1>4, <1>5 DEF Context

LEMMA RevokeOK ==
    ASSUME SInv, NEW r \in Requests, Revoke(r)
    PROVE  SInv' /\ Evolves
<1> DEFINE s == request[r].cookie
<1>0. request[r].pc = "revoke"
  BY DEF Revoke
<1>1. request[r] \in RequestRow /\ RequestOK(request[r], session) /\ Member(request[r])
  <2>1. Member(request[r])
    BY <1>0 DEF Member
  <2>. QED BY <2>1, RequestFacts
<1>2. /\ session' = Delete(s) /\ UNCHANGED <<members, cookie, pages>>
      /\ request[r].pc = "revoke" /\ Step(r, NoContext(r))
  BY DEF Revoke
<1>3. s \in Sessions /\ session[s].state # "unused" /\ request[r].kind # "login"
  BY <1>1 DEF RequestOK
<1>4. session'[s].state = "gone"
  <2>1. session[s] \in SessionRow
    BY <1>3, RequestFacts
  <2>. QED BY <1>2, <1>3, <2>1 DEF Delete, SessionRow
<1>5. NoContext(r) \in PCs /\ NoContext(r) \in {"create", "respond"}
  BY DEF NoContext, PCs
<1>6. /\ ~ Anonymous([request[r] EXCEPT !.pc = NoContext(r)])
      /\ ~ Member([request[r] EXCEPT !.pc = NoContext(r)])
  <2>1. [request[r] EXCEPT !.pc = NoContext(r)].pc = NoContext(r)
    BY <1>1 DEF RequestRow
  <2>. QED BY <1>5, <2>1 DEF Anonymous, Member
<1> HIDE DEF s
<1>. QED BY <1>2, <1>3, <1>4, <1>5, <1>6, Moves DEF Trusting, s

LEMMA CheckFormOK ==
    ASSUME SInv, NEW r \in Requests, CheckForm(r)
    PROVE  SInv' /\ Evolves
<1>1. request[r] \in RequestRow /\ RequestOK(request[r], session)
  BY RequestFacts
<1>2. session' = session /\ UNCHANGED <<members, cookie, pages>> /\ request[r].pc = "form"
  BY DEF CheckForm
<1>3. PICK pc \in {"credentials", "invalidate", "act", "respond"} :
        /\ Step(r, pc)
        /\ pc = "credentials" => request[r].kind = "login"
        /\ pc \in {"invalidate", "act"} => /\ request[r].kind # "login"
                                           /\ request[r].token = request[r].cookie
  BY DEF CheckForm, AfterForm
<1>4. [request[r] EXCEPT !.pc = pc].pc = pc
  BY <1>1 DEF RequestRow
<1>5. /\ Member([request[r] EXCEPT !.pc = pc]) => Member(request[r])
      /\ Anonymous([request[r] EXCEPT !.pc = pc]) => Anonymous(request[r])
  BY <1>2, <1>3, <1>4 DEF Member, Anonymous
<1>6. pc \in PCs
  BY DEF PCs, Trusting
<1>. QED BY <1>2, <1>3, <1>5, <1>6, Moves DEF Trusting

LEMMA CredentialsOK ==
    ASSUME SInv, NEW r \in Requests, NEW user \in Users \cup {None}, Credentials(r, user)
    PROVE  SInv' /\ Evolves
<1>1. /\ request[r] \in RequestRow /\ RequestOK(request[r], session)
      /\ request \in [Requests -> RequestRow]
      /\ members \in SUBSET Users
  BY RequestFacts
<1>2. session' = session /\ UNCHANGED <<members, cookie, pages>> /\ request[r].pc = "credentials"
  BY DEF Credentials
<1>3. CASE user \in members
  <2> DEFINE q == [request[r] EXCEPT !.pc = "authenticate", !.user = user]
  <2>1. request' = [request EXCEPT ![r] = q]
    BY <1>1, <1>3 DEF Credentials
  <2>2. /\ q \in RequestRow
        /\ q.pc = "authenticate" /\ q.kind = request[r].kind /\ q.cookie = request[r].cookie
        /\ q.user = user /\ q.set = request[r].set /\ q.late = request[r].late
    BY <1>1 DEF RequestRow, PCs, Trusting
  <2>3. user # None
    BY <1>1, <1>3
  <2> HIDE DEF q
  <2>4. RequestOK(q, session)
    BY <1>1, <1>2, <2>2, <2>3 DEF RequestOK, Member, Anonymous, Trusting
  <2>. QED BY <1>2, <2>1, <2>2, <2>4, Handler
<1>4. CASE user \notin members
  <2>1. End(r, None, request[r].cookie) /\ request[r].cookie \in Sessions \cup {None}
    BY <1>1, <1>4 DEF Credentials, RequestRow
  <2>. QED BY <1>2, <2>1, Ends
<1>. QED BY <1>3, <1>4

\* The transaction of _rotate: only the new id changes its user, and only the
\* previous one ends.
LEMMA RotateSessions ==
    ASSUME SInv, NEW r \in Requests, NEW new \in Sessions, NEW reported \in BOOLEAN,
           Rotate(r, new, reported)
    PROVE  LET q == request[r]
               user == IF q.pc = "create" THEN None ELSE q.user
           IN  /\ Evolves /\ session' \in [Sessions -> SessionRow]
               /\ session'[new].state = "live" /\ session'[new].user = user
               /\ q.cookie # None => session'[q.cookie].state = "gone"
               /\ \A x \in Sessions : session'[x].state = "gone" =>
                                        session[x].state = "gone" \/ x = q.cookie
<1> DEFINE q == request[r]
           user == IF q.pc = "create" THEN None ELSE q.user
           row == [state |-> "live", left |-> Lifetime, user |-> user]
<1>1. /\ q \in RequestRow /\ RequestOK(q, session)
      /\ session \in [Sessions -> SessionRow]
  BY RequestFacts
<1>2. session[new].state = "unused" /\ session' = [Delete(q.cookie) EXCEPT ![new] = row]
  BY DEF Rotate
<1>3. user \in Users \cup {None} /\ q.cookie \in Sessions \cup {None}
  BY <1>1 DEF RequestRow
<1>4. row \in SessionRow /\ row.state = "live" /\ row.user = user
  BY <1>3 DEF SessionRow
<1>5. /\ Delete(q.cookie) \in [Sessions -> SessionRow]
      /\ \A x \in Sessions :
           /\ Delete(q.cookie)[x].user = session[x].user
           /\ session[x].state = "unused" <=> Delete(q.cookie)[x].state = "unused"
           /\ session[x].state = "gone" => Delete(q.cookie)[x].state = "gone"
           /\ session[x].state # Delete(q.cookie)[x].state => x = q.cookie
           /\ x = q.cookie => Delete(q.cookie)[x].state # "live"
  BY <1>1, DeleteOK
<1>6. q.cookie # None => /\ session[q.cookie].state # "unused"
                         /\ Delete(q.cookie)[q.cookie].state = "gone"
  <2>1. q.cookie # None => session[q.cookie].state # "unused"
    BY <1>1 DEF RequestOK
  <2>2. q.cookie # None => Delete(q.cookie)[q.cookie] \in SessionRow
    BY <1>3, <1>5
  <2>3. q.cookie # None => Delete(q.cookie)[q.cookie].state \in {"unused", "live", "gone"}
    BY <2>2 DEF SessionRow
  <2>. QED BY <1>3, <1>5, <2>1, <2>3
<1> HIDE DEF row, user
<1>7. /\ session' \in [Sessions -> SessionRow] /\ session'[new] = row
      /\ \A x \in Sessions : x # new => session'[x] = Delete(q.cookie)[x]
  BY <1>2, <1>4, <1>5
<1>8. Evolves
  BY <1>2, <1>5, <1>7 DEF Evolves
<1>9. q.cookie # None => session'[q.cookie].state = "gone"
  BY <1>2, <1>3, <1>6, <1>7
<1>10. \A x \in Sessions : session'[x].state = "gone" =>
                             session[x].state = "gone" \/ x = q.cookie
  BY <1>4, <1>5, <1>7
<1>. QED BY <1>4, <1>7, <1>8, <1>9, <1>10 DEF user

LEMMA RotateOK ==
    ASSUME SInv, NEW r \in Requests, NEW new \in Sessions, NEW reported \in BOOLEAN,
           Rotate(r, new, reported)
    PROVE  SInv' /\ Evolves
<1> DEFINE set == IF reported THEN new ELSE None
           page == IF reported /\ request[r].pc = "create" THEN new ELSE None
           q == Ended(request[r], set, page)
<1>1. /\ request[r] \in RequestRow /\ RequestOK(request[r], session)
      /\ cookie # None => cookie \in Sessions /\ session[cookie].state # "unused"
      /\ members \in SUBSET Users /\ pages \in SUBSET Sessions
      /\ cookie \in Sessions \cup {None}
  BY RequestFacts
<1>2. /\ Evolves /\ session' \in [Sessions -> SessionRow]
      /\ session'[new].state = "live"
      /\ session'[new].user = IF request[r].pc = "create" THEN None ELSE request[r].user
      /\ request[r].cookie # None => session'[request[r].cookie].state = "gone"
  BY RotateSessions
<1>3. End(r, set, page) /\ UNCHANGED <<members, cookie, pages>>
  BY DEF Rotate
<1>4. request[r].pc \in {"create", "authenticate"}
  BY DEF Rotate
<1>5. set \in {new, None} /\ page \in Sessions \cup {None}
  OBVIOUS
<1> HIDE DEF set, page
<1>6. request' = [request EXCEPT ![r] = q] /\ q \in RequestRow
  BY <1>3, <1>5, EndIs
<1>7. /\ q.pc = "respond" /\ q.kind = request[r].kind /\ q.cookie = request[r].cookie
      /\ q.set = set /\ q.late = request[r].late /\ q.user = request[r].user
  BY <1>1 DEF RequestRow, Ended
<1>8. RequestOK(request[r], session')
  BY <1>1, <1>2, Stable
<1>9. request[r].kind = "login" =>
        request[r].pc = "authenticate" /\ request[r].user # None /\ request[r].cookie \in Sessions
  BY <1>1, <1>4 DEF RequestOK, Anonymous
<1>10. new # None
  OBVIOUS
<1> HIDE DEF q
<1>11. RequestOK(q, session')
  <2>1. /\ q.cookie # None => session'[q.cookie].state = "gone"
        /\ q.late => q.cookie # None
    BY <1>1, <1>2, <1>7 DEF RequestOK
  <2>2. q.set # None => q.set = new /\ session'[new].state = "live"
    BY <1>2, <1>5, <1>7
  <2>3. ~ Member(q) /\ ~ Anonymous(q) /\ q.pc \notin Trusting
    BY <1>7 DEF Member, Anonymous, Trusting
  <2>4. q.kind = "login" /\ q.set # None =>
         /\ q.set \in Sessions /\ q.user # None
         /\ session'[q.set].user = q.user
         /\ q.cookie \in Sessions /\ session'[q.cookie].state = "gone"
    BY <1>2, <1>7, <1>9, <2>1, <2>2
  <2>5. q.set \in Sessions => session'[q.set].state # "unused"
    BY <2>2
  <2>. QED BY <1>7, <2>1, <2>3, <2>4, <2>5 DEF RequestOK
<1>12. cookie' # None => session'[cookie'].state # "unused"
  BY <1>1, <1>2, <1>3 DEF Evolves
<1>. QED BY <1>1, <1>2, <1>3, <1>6, <1>11, <1>12, OneRequest

LEMMA InvalidateOK ==
    ASSUME SInv, NEW r \in Requests, NEW reported \in BOOLEAN, Invalidate(r, reported)
    PROVE  SInv' /\ Evolves
<1>1. PICK set \in {None, "clear"} : End(r, set, None)
  BY DEF Invalidate
<1>2. /\ session' = Delete(request[r].cookie) /\ UNCHANGED <<members, cookie, pages>>
      /\ request[r].pc = "invalidate"
  BY DEF Invalidate
<1>3. request[r].kind # "login"
  <2>1. Member(request[r])
    BY <1>2 DEF Member
  <2>. QED BY <2>1, RequestFacts DEF RequestOK
<1>4. session'[request[r].cookie].state = "gone"
  <2>1. Member(request[r])
    BY <1>2 DEF Member
  <2>2. /\ request[r].cookie \in Sessions
        /\ session[request[r].cookie].state # "unused"
        /\ session \in [Sessions -> SessionRow]
    BY <2>1, RequestFacts DEF RequestOK
  <2>3. session'[request[r].cookie].state \in {"unused", "live", "gone"}
    BY <1>2, <2>2, DeleteOK DEF SessionRow
  <2>. QED BY <1>2, <2>2, <2>3, DeleteOK
<1>. QED BY <1>1, <1>2, <1>3, <1>4, Ends

LEMMA ActOK ==
    ASSUME SInv, NEW r \in Requests, Act(r)
    PROVE  SInv' /\ Evolves
<1>1. /\ session' = session /\ UNCHANGED <<members, cookie, pages>>
      /\ request[r].pc = "act" /\ Step(r, "respond")
  BY DEF Act
<1>2. [request[r] EXCEPT !.pc = "respond"].pc = "respond"
  BY RequestFacts DEF RequestRow
<1>3. /\ ~ Member([request[r] EXCEPT !.pc = "respond"])
      /\ ~ Anonymous([request[r] EXCEPT !.pc = "respond"])
  BY <1>2 DEF Member, Anonymous
<1>. QED BY <1>1, <1>3, Moves DEF PCs, Trusting

LEMMA UnavailableOK ==
    ASSUME SInv, NEW r \in Requests, NEW effect \in BOOLEAN, Unavailable(r, effect)
    PROVE  SInv' /\ Evolves
<1>1. /\ session' = session \/ session' = Delete(request[r].cookie)
      /\ UNCHANGED <<members, cookie, pages>> /\ End(r, None, None)
  BY DEF Unavailable
<1>. QED BY <1>1, Ends

LEMMA HandleOK ==
    ASSUME SInv, NEW r \in Requests, Handle(r)
    PROVE  SInv' /\ Evolves
  BY ResolveOK, ContextOK, RevokeOK, CheckFormOK, ActOK, CredentialsOK, RotateOK,
     InvalidateOK, UnavailableOK DEF Handle

\* The end of a request, with the browser taking over what the response set.
LEMMA RespondOK ==
    ASSUME SInv, NEW r \in Requests, Respond(r) \/ Lost(r)
    PROVE  SInv' /\ Evolves
<1>1. /\ request[r] \in RequestRow /\ RequestOK(request[r], session)
      /\ session \in [Sessions -> SessionRow]
      /\ members \in SUBSET Users /\ pages \in SUBSET Sessions
      /\ cookie \in Sessions \cup {None}
      /\ cookie # None => session[cookie].state # "unused"
  BY RequestFacts
<1>2. /\ session' = session /\ members' = members
      /\ request' = [request EXCEPT ![r] = NoRequest]
  BY DEF Respond, Lost
<1>3. NoRequest \in RequestRow
  BY DEF NoRequest, RequestRow, PCs, Kinds
<1>4. RequestOK(NoRequest, session')
  BY DEF NoRequest, RequestOK, Member, Anonymous, Trusting
<1>5. /\ request[r].set \in Sessions \cup {None, "clear"}
      /\ request[r].page \in Sessions \cup {None}
      /\ request[r].set \in Sessions => session[request[r].set].state # "unused"
  BY <1>1 DEF RequestRow, RequestOK
<1>6. /\ cookie' \in Sessions \cup {None} /\ pages' \in SUBSET Sessions
      /\ cookie' # None => session'[cookie'].state # "unused"
  BY <1>1, <1>2, <1>5 DEF Respond, Lost
<1>7. Evolves
  BY <1>2 DEF Evolves
<1>. QED BY <1>1, <1>2, <1>3, <1>4, <1>6, <1>7, OneRequest

\* Time, Redis's expiry, the members and the cookie change without a request.
LEMMA SurroundingsOK ==
    ASSUME SInv,
           \/ \E new \in SUBSET Users : ChangeMembers(new)
           \/ DropCookie
           \/ \E s \in Sessions : RedisExpires(s)
           \/ SessionTick
           \/ UNCHANGED sessionVars
    PROVE  SInv' /\ Evolves
<1>1. SessionTypeOK
  BY DEF SInv
<1>2. /\ session' \in [Sessions -> SessionRow] /\ Evolves
      /\ request' = request
  <2>1. CASE SessionTick
    <3>1. ASSUME NEW s \in Sessions
          PROVE  /\ session'[s] \in SessionRow
                 /\ session'[s].state = session[s].state
                 /\ session'[s].user = session[s].user
      <4>1. session[s] \in SessionRow
        BY <1>1 DEF SessionTypeOK
      <4>2. session'[s] = [session[s] EXCEPT !.left = IF @ > 0 THEN @ - 1 ELSE 0]
        BY <2>1 DEF SessionTick
      <4> DEFINE n == IF session[s].left > 0 THEN session[s].left - 1 ELSE 0
      <4>3. n \in 0 .. Lifetime
        BY <4>1 DEF SessionRow
      <4>4. session'[s] = [session[s] EXCEPT !.left = n]
        BY <4>1, <4>2 DEF SessionRow
      <4> HIDE DEF n
      <4>. QED BY <4>1, <4>3, <4>4 DEF SessionRow
    <3>2. session' \in [Sessions -> SessionRow]
      BY <2>1, <3>1 DEF SessionTick
    <3>. QED BY <2>1, <3>1, <3>2 DEF SessionTick, Evolves
  <2>2. ASSUME NEW s \in Sessions, RedisExpires(s)
        PROVE  session' \in [Sessions -> SessionRow] /\ Evolves /\ request' = request
    BY <1>1, <2>2, DeleteOK DEF RedisExpires, SessionTypeOK, Evolves
  <2>3. CASE session' = session /\ request' = request
    BY <1>1, <2>3 DEF SessionTypeOK, Evolves
  <2>. QED BY <2>1, <2>2, <2>3 DEF ChangeMembers, DropCookie, sessionVars
<1>3. /\ members' \in SUBSET Users /\ cookie' \in {cookie, None} /\ pages' = pages
  BY <1>1 DEF SessionTypeOK, ChangeMembers, DropCookie, RedisExpires, SessionTick, sessionVars
<1>4. SessionTypeOK'
  BY <1>1, <1>2, <1>3 DEF SessionTypeOK
<1>5. (cookie # None => session[cookie].state # "unused")'
  <2>1. /\ cookie # None => session[cookie].state # "unused"
        /\ cookie \in Sessions \cup {None}
    BY <1>1 DEF SInv, SessionTypeOK
  <2>. QED BY <1>2, <1>3, <2>1 DEF Evolves
<1>6. ASSUME NEW r \in Requests PROVE RequestOK(request'[r], session')
  <2>1. request[r] \in RequestRow /\ RequestOK(request[r], session)
    BY RequestFacts
  <2>. QED BY <1>2, <2>1, Stable
<1>. QED BY <1>2, <1>4, <1>5, <1>6 DEF SInv

LEMMA StepKeepsSInv ==
    ASSUME SInv, [SessionNext]_sessionVars
    PROVE  SInv' /\ Evolves
<1>1. ASSUME NEW r \in Requests,
             \/ \E kind \in Kinds, token \in Sessions \cup {None} : Send(r, kind, token)
             \/ Handle(r) \/ Respond(r) \/ Lost(r)
      PROVE  SInv' /\ Evolves
  BY <1>1, SendOK, HandleOK, RespondOK
<1>. QED BY <1>1, SurroundingsOK DEF SessionNext

LEMMA InitSInv ==
    ASSUME SessionInit PROVE SInv
<1>1. NoRequest \in RequestRow
  BY DEF NoRequest, RequestRow, PCs, Kinds
<1>2. SessionTypeOK
  BY <1>1 DEF SessionInit, SessionTypeOK, SessionRow
<1>3. RequestOK(NoRequest, session)
  BY DEF NoRequest, RequestOK, Member, Anonymous, Trusting
<1>. QED BY <1>2, <1>3 DEF SessionInit, SInv

\* The inductive invariant: what a handler believes of its session.
THEOREM SessionInvariant == SessionSpec => []SInv
<1>1. SInv /\ [SessionNext]_sessionVars => SInv'
  BY StepKeepsSInv
<1>. QED BY InitSInv, <1>1, PTL DEF SessionSpec

\* Types hold (BrowserSession and the handlers of app/ui/router.py).
THEOREM SessionTypes == SessionSpec => []SessionTypeOK
<1>1. SInv => SessionTypeOK
  BY DEF SInv
<1>. QED BY <1>1, SessionInvariant, PTL

\* A request sent with the cookie of an ended session gets nothing from it
\* (resolve), whatever handlers were under way when the session ended.
THEOREM EndedIsUseless == SessionSpec => []EndedSessionIsUseless
<1>1. SInv => EndedSessionIsUseless
  BY DEF SInv, RequestOK, EndedSessionIsUseless
<1>. QED BY <1>1, SessionInvariant, PTL

\* A login hands out a session of its user and retires the one it was sent
\* with (login_submit, _rotate).
THEOREM LoginReplaces == SessionSpec => []LoginReplacesSession
<1>1. SInv => LoginReplacesSession
  BY DEF SInv, RequestOK, LoginReplacesSession
<1>. QED BY <1>1, SessionInvariant, PTL

\* A form acts for the user its page was shown to (valid_csrf).
THEOREM FormsActForTheirUser == SessionSpec => []FormActsForItsUser
<1>1. ASSUME SInv, NEW r \in Requests, request[r].pc = "act"
      PROVE  /\ request[r].token \in Sessions
             /\ request[r].user # None
             /\ session[request[r].token].user = request[r].user
  <2>1. Member(request[r])
    BY <1>1 DEF Member
  <2>2. RequestOK(request[r], session)
    BY <1>1, RequestFacts
  <2>. QED BY <1>1, <2>1, <2>2 DEF RequestOK
<1>2. SInv => FormActsForItsUser
  BY <1>1 DEF FormActsForItsUser
<1>. QED BY <1>2, SessionInvariant, PTL

\* An id is drawn, lives for one user, ends and never comes back (_rotate).
THEOREM IdsAreUsedOnce == SessionSpec => SessionLifecycle
<1>1. ASSUME SInv, [SessionNext]_sessionVars
      PROVE  [\A s \in Sessions :
                session[s].state # "unused" =>
                    /\ session'[s].user = session[s].user
                    /\ session'[s].state # "unused"
                    /\ session[s].state = "gone" => session'[s].state = "gone"]_sessionVars
  BY <1>1, StepKeepsSInv DEF Evolves
<1>. QED BY <1>1, SessionInvariant, PTL DEF SessionSpec, SessionLifecycle

\* Only the end of a request or the browser itself changes the cookie.
LEMMA CookieChanges ==
    ASSUME SessionNext, cookie' # cookie
    PROVE  DropCookie \/ \E r \in Requests : Respond(r)
<1>1. ASSUME NEW r \in Requests PROVE ~ Handle(r) /\ ~ Lost(r) /\ \A kind, token : ~ Send(r, kind, token)
  BY DEF Handle, Resolve, Context, Revoke, CheckForm, Act, Credentials, Rotate, Invalidate,
         Unavailable, Lost, Send
<1>2. ~ SessionTick /\ (\A new : ~ ChangeMembers(new)) /\ \A s : ~ RedisExpires(s)
  BY DEF SessionTick, ChangeMembers, RedisExpires
<1>. QED BY <1>1, <1>2 DEF SessionNext

\* No answer takes away the working cookie its request was sent with, in
\* whichever order the answers arrive (login_page, login_submit, logout).
THEOREM AnswersTakeOnlyDeadCookies == SessionSpec => AnswerTakesOnlyDeadCookie
<1>1. ASSUME SInv, [SessionNext]_sessionVars, NEW r \in Requests,
             Live(cookie), cookie' # cookie, request[r].pc # "idle", request'[r].pc = "idle"
      PROVE  request[r].cookie # cookie
  <2>1. SessionNext
    BY <1>1 DEF sessionVars
  <2>2. ~ DropCookie
    BY <1>1 DEF DropCookie
  <2>3. PICK x \in Requests : Respond(x)
    BY <1>1, <2>1, <2>2, CookieChanges
  <2>4. x = r
    <3>1. request \in [Requests -> RequestRow]
      BY <1>1, RequestFacts
    <3>. QED BY <1>1, <2>3, <3>1 DEF Respond
  <2>5. request[r].set # None /\ RequestOK(request[r], session)
    BY <1>1, <2>3, <2>4, RequestFacts DEF Respond
  <2>. QED BY <1>1, <2>5 DEF RequestOK, Live
<1>2. ASSUME SInv, [SessionNext]_sessionVars
      PROVE  [\A r \in Requests :
                Live(cookie) /\ cookie' # cookie /\ request[r].pc # "idle" /\ request'[r].pc = "idle"
                => request[r].cookie # cookie]_sessionVars
  BY <1>1, <1>2
<1>. QED BY <1>2, SessionInvariant, PTL DEF SessionSpec, AnswerTakesOnlyDeadCookie

\* The reasons OnlyLogoutEndsLogin allows for the end of session s.
Excused(s) ==
    \/ session[s].left = 0
    \/ \E r \in Requests :
         /\ request[r].cookie = s
         /\ \/ request[r].pc = "revoke"
            \/ request[r].pc = "invalidate" /\ request[r].token = s

LEMMA LoginEnds ==
    ASSUME SInv, [SessionNext]_sessionVars, NEW s \in Sessions,
           session[s].state = "live", session[s].user # None,
           session'[s].state = "gone"
    PROVE  Excused(s)
<1>t. session[s] \in SessionRow /\ session \in [Sessions -> SessionRow]
  BY DEF SInv, SessionTypeOK
<1>d. \A x : session' = Delete(x) => x = s
  BY <1>t, DeleteOK
<1>1. ASSUME NEW r \in Requests, Resolve(r) PROVE Excused(s)
  <2>1. request[r].cookie = s /\ ~ (session[s].left > 0)
    BY <1>1, <1>d DEF Resolve
  <2>2. session[s].left \in 0 .. Lifetime
    BY <1>t DEF SessionRow
  <2>3. session[s].left = 0
    BY <2>1, <2>2
  <2>. QED BY <2>3 DEF Excused
<1>2. ASSUME NEW r \in Requests, Revoke(r) PROVE Excused(s)
  BY <1>2, <1>d DEF Revoke, Excused
<1>3. ASSUME NEW r \in Requests, NEW new \in Sessions, NEW reported \in BOOLEAN,
             Rotate(r, new, reported)
      PROVE  FALSE
  <2>1. s = request[r].cookie
    BY <1>3, RotateSessions
  <2>2. request[r].pc \in {"create", "authenticate"} /\ RequestOK(request[r], session)
    BY <1>3, RequestFacts DEF Rotate
  <2>3. Anonymous(request[r]) \/ request[r].pc = "create"
    BY <2>2 DEF Anonymous
  <2>. QED BY <2>1, <2>2, <2>3 DEF RequestOK
<1>4. ASSUME NEW r \in Requests, NEW reported \in BOOLEAN, Invalidate(r, reported)
      PROVE  Excused(s)
  <2>1. request[r].pc = "invalidate" /\ request[r].cookie = s
    BY <1>4, <1>d DEF Invalidate
  <2>2. request[r].token = request[r].cookie
    BY <2>1, RequestFacts DEF RequestOK
  <2>. QED BY <2>1, <2>2 DEF Excused
<1>5. ASSUME NEW r \in Requests, NEW effect \in BOOLEAN, Unavailable(r, effect)
      PROVE  Excused(s)
  BY <1>5, <1>d DEF Unavailable, Excused
<1>6. ASSUME NEW x \in Sessions, RedisExpires(x) PROVE Excused(s)
  BY <1>6, <1>d DEF RedisExpires, Excused
<1>7. CASE SessionTick
  <2>1. session'[s] = [session[s] EXCEPT !.left = IF @ > 0 THEN @ - 1 ELSE 0]
    BY <1>7 DEF SessionTick
  <2>2. session'[s].state = session[s].state
    BY <1>t, <2>1 DEF SessionRow
  <2>. QED BY <2>2
<1>8. session' # session
  OBVIOUS
<1>9. ASSUME NEW r \in Requests, Handle(r) PROVE Excused(s)
  BY <1>1, <1>2, <1>3, <1>4, <1>5, <1>8, <1>9
     DEF Handle, Context, CheckForm, Act, Credentials
<1>10. ASSUME NEW r \in Requests
       PROVE  /\ ~ Respond(r) /\ ~ Lost(r)
              /\ \A kind, token : ~ Send(r, kind, token)
  BY <1>8 DEF Respond, Lost, Send
<1>11. ~ DropCookie /\ \A new : ~ ChangeMembers(new)
  BY <1>8 DEF DropCookie, ChangeMembers
<1>. QED BY <1>6, <1>7, <1>8, <1>9, <1>10, <1>11 DEF SessionNext, sessionVars

\* A logged-in agent is only logged out by the lifetime, by a logout from a
\* page of that session or by an inactive membership (login_page and
\* login_submit never delete an authenticated session).
THEOREM OnlyLogoutEnds == SessionSpec => OnlyLogoutEndsLogin
<1>1. ASSUME SInv, [SessionNext]_sessionVars
      PROVE  [\A s \in Sessions :
                /\ session[s].state = "live" /\ session[s].user # None
                /\ session'[s].state = "gone"
                => \/ session[s].left = 0
                   \/ \E r \in Requests :
                        /\ request[r].cookie = s
                        /\ \/ request[r].pc = "revoke"
                           \/ request[r].pc = "invalidate" /\ request[r].token = s]_sessionVars
  BY <1>1, LoginEnds DEF Excused
<1>. QED BY <1>1, SessionInvariant, PTL DEF SessionSpec, OnlyLogoutEndsLogin
=============================================================================
