--------------------------- MODULE BrowserSession ---------------------------
(***************************************************************************)
(* The sessions of the agent UI (app/ui/session.py, app/ui/router.py).     *)
(* One browser keeps a cookie and sends requests from several tabs, which  *)
(* API tasks handle concurrently; the sessions are rows in a shared Redis. *)
(* A handler resolves its cookie once and goes on with what it read, while *)
(* other requests rotate or invalidate the session, and the responses may  *)
(* arrive in any order or not at all.                                      *)
(*                                                                         *)
(* A cookie is its session's id: a value that does not verify is no cookie.*)
(* A CSRF token is drawn with its session, so it too stands as the id.  A  *)
(* user is a user in the organization the session is for.                  *)
(***************************************************************************)
EXTENDS Naturals

CONSTANTS Sessions,  \* the session ids that may be drawn
          Users,
          Requests,  \* the requests under way at a time
          Lifetime,  \* the session lifetime, in ticks
          None

ASSUME SessionAssumption ==
    /\ Lifetime \in Nat \ {0}
    /\ {None, "clear"} \cap (Sessions \cup Users) = {}
    /\ None # "clear"

VARIABLES session,  \* the store's row for each id
          members,  \* the users with an active account, organization and membership
          cookie,   \* the browser's cookie
          pages,    \* the tokens on the pages that the browser shows
          request

sessionVars == <<session, members, cookie, pages, request>>

Kinds == {"login_page", "login", "logout", "page", "submit"}

\* Steps that have done no more than read what the session was.
Trusting == {"context", "form", "credentials", "authenticate", "revoke", "invalidate", "act"}

PCs == {"idle", "resolve", "create", "respond"} \cup Trusting

\* "gone": deleted or expired.  The row itself is no more, its user is kept
\* for the properties to refer to.
SessionRow == [state : {"unused", "live", "gone"},
               user  : Users \cup {None},
               left  : 0 .. Lifetime]

\* set and page are the response's Set-Cookie ("clear" deletes the cookie) and
\* the token on the page it shows; late records, for the properties, whether
\* the cookie's session had already ended when the request was sent.
RequestRow == [pc     : PCs,
               kind   : Kinds,
               cookie : Sessions \cup {None},
               token  : Sessions \cup {None},
               user   : Users \cup {None},
               set    : Sessions \cup {None, "clear"},
               page   : Sessions \cup {None},
               late   : BOOLEAN]

NoRequest == [pc |-> "idle", kind |-> "page", cookie |-> None, token |-> None,
              user |-> None, set |-> None, page |-> None, late |-> FALSE]

SessionTypeOK ==
    /\ session \in [Sessions -> SessionRow]
    /\ members \in SUBSET Users
    /\ cookie \in Sessions \cup {None}
    /\ pages \in SUBSET Sessions
    /\ request \in [Requests -> RequestRow]

SessionInit ==
    /\ session = [s \in Sessions |-> [state |-> "unused", user |-> None, left |-> 0]]
    /\ members \in SUBSET Users
    /\ cookie = None
    /\ pages = {}
    /\ request = [r \in Requests |-> NoRequest]

-----------------------------------------------------------------------------
Live(s) == s # None /\ session[s].state = "live"

\* _delete: deleting what is not there is no error.
Delete(s) ==
    [x \in Sessions |->
       IF x = s /\ session[x].state = "live"
       THEN [state |-> "gone", user |-> session[x].user, left |-> 0]
       ELSE session[x]]

Step(r, pc) == request' = [request EXCEPT ![r].pc = pc]

\* The last step of a handler, with what its response carries.
End(r, set, page) ==
    request' = [request EXCEPT ![r].pc = "respond", ![r].set = set, ![r].page = page,
                               ![r].token = None]

\* What a handler does when resolve_browser_context returned None.
NoContext(r) == IF request[r].kind = "login_page" THEN "create" ELSE "respond"

\* The browser sends a request with its cookie, and with a token if it comes
\* from a page's form.
Send(r, kind, token) ==
    /\ request[r].pc = "idle"
    /\ token \in IF kind \in {"login_page", "page"} THEN {None} ELSE pages \cup {None}
    /\ request' = [request EXCEPT ![r] =
         [pc |-> "resolve", kind |-> kind, cookie |-> cookie, token |-> token,
          user |-> None, set |-> None, page |-> None,
          late |-> cookie # None /\ ~ Live(cookie)]]
    /\ UNCHANGED <<session, members, cookie, pages>>

\* store.resolve: an expired row is deleted.  login_submit wants an anonymous
\* session, every other handler an authenticated one.
Resolve(r) ==
    LET s == request[r].cookie
        found == Live(s) /\ session[s].left > 0
        anonymous == found /\ session[s].user = None
    IN  /\ request[r].pc = "resolve"
        /\ session' = IF Live(s) /\ ~ found THEN Delete(s) ELSE session
        /\ request' = [request EXCEPT
             ![r].user = IF found THEN session[s].user ELSE None,
             ![r].pc = IF request[r].kind = "login"
                       THEN IF anonymous THEN "form" ELSE "respond"
                       ELSE IF found /\ ~ anonymous THEN "context" ELSE NoContext(r)]
        /\ UNCHANGED <<members, cookie, pages>>

\* Mutation of Context: the session that was read is written back, as a
\* sliding expiry would.
ContextRefreshes(r) ==
    /\ request[r].pc = "context"
    /\ IF request[r].user \notin members
       THEN Step(r, "revoke")
       ELSE IF request[r].kind \in {"login_page", "page"}
       THEN End(r, None, IF request[r].kind = "page" THEN request[r].cookie ELSE None)
       ELSE Step(r, "form")
    /\ session' = [session EXCEPT ![request[r].cookie] =
                     [@ EXCEPT !.state = "live", !.left = Lifetime]]
    /\ UNCHANGED <<members, cookie, pages>>

\* resolve_browser_context looks the user, the organization and the membership
\* up; with all of them active, the pages are shown (login_page redirects to
\* one) and the forms are read.
Context(r) ==
    /\ request[r].pc = "context"
    /\ IF request[r].user \notin members
       THEN Step(r, "revoke")
       ELSE IF request[r].kind \in {"login_page", "page"}
       THEN End(r, None, IF request[r].kind = "page" THEN request[r].cookie ELSE None)
       ELSE Step(r, "form")
    /\ UNCHANGED <<session, members, cookie, pages>>

\* The invalidation of a session whose user is no active member.
Revoke(r) ==
    /\ request[r].pc = "revoke"
    /\ session' = Delete(request[r].cookie)
    /\ Step(r, NoContext(r))
    /\ UNCHANGED <<members, cookie, pages>>

AfterForm(r) ==
    IF request[r].kind = "login" THEN "credentials"
    ELSE IF request[r].kind = "logout" THEN "invalidate" ELSE "act"

\* Mutation of CheckForm: any token is good enough.
CheckFormNoToken(r) ==
    /\ request[r].pc = "form"
    /\ Step(r, IF request[r].token # None THEN AfterForm(r) ELSE "respond")
    /\ UNCHANGED <<session, members, cookie, pages>>

\* After request.form(): the token must be the one of the session that was
\* resolved before the form was awaited.
CheckForm(r) ==
    /\ request[r].pc = "form"
    /\ Step(r, IF request[r].token = request[r].cookie THEN AfterForm(r) ELSE "respond")
    /\ UNCHANGED <<session, members, cookie, pages>>

\* login_submit checks the password and the membership for the user the form
\* names (None: nobody, or a wrong password); a failure shows the same form.
Credentials(r, user) ==
    /\ request[r].pc = "credentials"
    /\ IF user \in members
       THEN request' = [request EXCEPT ![r].pc = "authenticate", ![r].user = user]
       ELSE End(r, None, request[r].cookie)
    /\ UNCHANGED <<session, members, cookie, pages>>

\* Mutation of Rotate: the previous session is not deleted.
RotateKeepsOld(r, new, reported) ==
    /\ request[r].pc \in {"create", "authenticate"}
    /\ session[new].state = "unused"
    /\ session' = [session EXCEPT ![new] =
                     [state |-> "live", left |-> Lifetime,
                      user |-> IF request[r].pc = "create" THEN None ELSE request[r].user]]
    /\ End(r, IF reported THEN new ELSE None,
              IF reported /\ request[r].pc = "create" THEN new ELSE None)
    /\ UNCHANGED <<members, cookie, pages>>

\* Mutation of Rotate: an existing id is used again, with a new user.
RotateInPlace(r, new, reported) ==
    /\ request[r].pc \in {"create", "authenticate"}
    /\ session[new].state = "unused" \/ new = request[r].cookie
    /\ session' = [session EXCEPT ![new] =
                     [state |-> "live", left |-> Lifetime,
                      user |-> IF request[r].pc = "create" THEN None ELSE request[r].user]]
    /\ End(r, IF reported THEN new ELSE None,
              IF reported /\ request[r].pc = "create" THEN new ELSE None)
    /\ UNCHANGED <<members, cookie, pages>>

\* _rotate: one Redis transaction deletes the previous session and stores the
\* new one, under an id never drawn before.  It may be executed and its answer
\* lost: the handler then answers 503, and nobody has the new cookie.
Rotate(r, new, reported) ==
    /\ request[r].pc \in {"create", "authenticate"}
    /\ session[new].state = "unused"
    /\ session' = [Delete(request[r].cookie) EXCEPT ![new] =
                     [state |-> "live", left |-> Lifetime,
                      user |-> IF request[r].pc = "create" THEN None ELSE request[r].user]]
    /\ End(r, IF reported THEN new ELSE None,
              IF reported /\ request[r].pc = "create" THEN new ELSE None)
    /\ UNCHANGED <<members, cookie, pages>>

\* logout: the session is deleted and the cookie cleared.
Invalidate(r, reported) ==
    /\ request[r].pc = "invalidate"
    /\ session' = Delete(request[r].cookie)
    /\ End(r, IF reported THEN "clear" ELSE None, None)
    /\ UNCHANGED <<members, cookie, pages>>

\* A ticket form takes effect for the user of the context (see TicketWorkflow).
Act(r) ==
    /\ request[r].pc = "act"
    /\ Step(r, "respond")
    /\ UNCHANGED <<session, members, cookie, pages>>

\* A call to Redis fails without effect (browser_session_unavailable_handler);
\* a deletion that took effect may report this too.
Unavailable(r, effect) ==
    /\ request[r].pc \in {"resolve", "create", "authenticate", "revoke", "invalidate"}
    /\ session' = IF effect /\ request[r].pc = "revoke"
                  THEN Delete(request[r].cookie) ELSE session
    /\ End(r, None, None)
    /\ UNCHANGED <<members, cookie, pages>>

\* The browser applies a response, after whatever else it received meanwhile.
Respond(r) ==
    /\ request[r].pc = "respond"
    /\ cookie' = IF request[r].set = None THEN cookie
                 ELSE IF request[r].set = "clear" THEN None ELSE request[r].set
    /\ pages' = pages \cup ({request[r].page} \ {None})
    /\ request' = [request EXCEPT ![r] = NoRequest]
    /\ UNCHANGED <<session, members>>

\* The API task dies or the connection breaks: the browser gets no response.
Lost(r) ==
    /\ request[r].pc # "idle"
    /\ request' = [request EXCEPT ![r] = NoRequest]
    /\ UNCHANGED <<session, members, cookie, pages>>

\* An account, an organization or a membership is suspended or restored.
ChangeMembers(new) ==
    /\ members' = new
    /\ UNCHANGED <<session, cookie, pages, request>>

\* The cookie reaches its max_age, or the user deletes it.
DropCookie ==
    /\ cookie # None
    /\ cookie' = None
    /\ UNCHANGED <<session, members, pages, request>>

\* Redis removes a key at the end of its time to live.
RedisExpires(s) ==
    /\ session[s].state = "live" /\ session[s].left = 0
    /\ session' = Delete(s)
    /\ UNCHANGED <<members, cookie, pages, request>>

SessionTick ==
    /\ \E s \in Sessions : session[s].left > 0
    /\ session' = [s \in Sessions |->
         [session[s] EXCEPT !.left = IF @ > 0 THEN @ - 1 ELSE 0]]
    /\ UNCHANGED <<members, cookie, pages, request>>

Handle(r) ==
    \/ Resolve(r) \/ Context(r) \/ Revoke(r) \/ CheckForm(r) \/ Act(r)
    \/ \E user \in Users \cup {None} : Credentials(r, user)
    \/ \E new \in Sessions, reported \in BOOLEAN : Rotate(r, new, reported)
    \/ \E reported \in BOOLEAN : Invalidate(r, reported)
    \/ \E effect \in BOOLEAN : Unavailable(r, effect)

SessionNext ==
    \/ \E r \in Requests :
         \/ \E kind \in Kinds, token \in Sessions \cup {None} : Send(r, kind, token)
         \/ Handle(r) \/ Respond(r) \/ Lost(r)
    \/ \E new \in SUBSET Users : ChangeMembers(new)
    \/ DropCookie
    \/ \E s \in Sessions : RedisExpires(s)
    \/ SessionTick

SessionSpec == SessionInit /\ [][SessionNext]_sessionVars

-----------------------------------------------------------------------------
\* Once a session was invalidated, rotated away or expired, a request that the
\* browser sends with its cookie gets nothing from it: no page, no form, no
\* login (resolve), however many handlers were under way when it ended.
EndedSessionIsUseless ==
    \A r \in Requests : request[r].late => request[r].pc \notin Trusting

\* "login replaces the pre-authentication session": whoever gets the cookie of
\* a login holds a session of that user, and the cookie the login was sent
\* with is dead (login_submit and _rotate).
LoginReplacesSession ==
    \A r \in Requests :
        request[r].kind = "login" /\ request[r].set # None =>
            /\ request[r].set \in Sessions
            /\ session[request[r].set].user = request[r].user
            /\ request[r].user # None
            /\ session[request[r].cookie].state = "gone"

\* The answer to a request never takes away the cookie that the request was
\* sent with while that cookie still works: whatever the order in which answers
\* arrive, a working cookie goes only by the answer to a request sent with
\* another one, or by the browser's own doing (the cookies that login_page,
\* login_submit and logout set).
AnswerTakesOnlyDeadCookie ==
    [][\A r \in Requests :
         Live(cookie) /\ cookie' # cookie /\ request[r].pc # "idle" /\ request'[r].pc = "idle"
         => request[r].cookie # cookie]_sessionVars

\* A form acts for the user its page was shown to, also when the browser has
\* since logged out and in again as somebody else (valid_csrf).
FormActsForItsUser ==
    \A r \in Requests :
        request[r].pc = "act" =>
            /\ request[r].token \in Sessions
            /\ request[r].user # None
            /\ session[request[r].token].user = request[r].user

\* An id is drawn, lives for one user or anonymously, and ends; it never comes
\* back and never changes hands (_rotate draws a new id for every session).
SessionLifecycle ==
    [][\A s \in Sessions :
         session[s].state # "unused" =>
             /\ session'[s].user = session[s].user
             /\ session'[s].state # "unused"
             /\ session[s].state = "gone" => session'[s].state = "gone"]_sessionVars

\* A logged-in agent is only logged out by the end of the lifetime, by a logout
\* from a page of that session, or because the membership was found inactive
\* (login_page and login_submit never delete an authenticated session).
OnlyLogoutEndsLogin ==
    [][\A s \in Sessions :
         /\ session[s].state = "live" /\ session[s].user # None
         /\ session'[s].state = "gone"
         => \/ session[s].left = 0
            \/ \E r \in Requests :
                 /\ request[r].cookie = s
                 /\ \/ request[r].pc = "revoke"
                    \/ request[r].pc = "invalidate" /\ request[r].token = s]_sessionVars
=============================================================================
