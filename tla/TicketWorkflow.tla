--------------------------- MODULE TicketWorkflow ---------------------------
(***************************************************************************)
(* The ticket service (app/tickets/service.py): agents create tickets,     *)
(* append messages and move a ticket along its workflow, each request in a *)
(* database session of its own.  PostgreSQL runs the sessions at READ      *)
(* COMMITTED and the session factory does not autoflush, so a transition   *)
(* is three steps: the transaction begins with the query that loads the    *)
(* user (get_current_user shares the session), the status is read and      *)
(* checked, and the new status and its audit event are flushed and         *)
(* committed.  Nothing is locked between them.  Creating a ticket and      *)
(* appending a message (which locks the ticket row first) are one step     *)
(* each.  An audit event's created_at is PostgreSQL's now(), the time its  *)
(* transaction began, and events are listed by it: `changes' keeps them in *)
(* the order of their commits, which no reader sees.                       *)
(***************************************************************************)
EXTENDS Integers, Sequences, FiniteSets

CONSTANTS Tickets,      \* identifiers a ticket can be created under
          Agents,       \* concurrent requests, one per agent session
          NoTicket,     \* the row does not exist
          MaxEvents,    \* bound: status changes recorded per ticket
          MaxNow,       \* bound: the time at which requests still begin
          MaxMessages   \* bound: messages per ticket

ASSUME TicketConstants ==
    /\ MaxEvents \in Nat
    /\ MaxNow \in Nat
    /\ MaxMessages \in Nat \ {0}

VARIABLES ticket,   \* the rows of tickets
          changes,  \* per ticket, its ticket.status_changed audit events
          request,  \* the transition each agent's session is carrying out
          now       \* the database's clock

ticketVars == <<ticket, changes, request, now>>

TicketStatus ==
    {"open", "processing", "waiting_for_agent", "resolved", "closed"}

Workflow == <<"open", "processing", "waiting_for_agent", "resolved", "closed">>

Rank(s) == CHOOSE k \in 1 .. 5 : Workflow[k] = s

\* Mutation of Allowed: any later status passes, not the next one alone.
AllowedForward(current, requested) == Rank(requested) > Rank(current)

\* ALLOWED_TRANSITIONS.get(current) is requested
Allowed(current, requested) == Rank(requested) = Rank(current) + 1

TicketRow == [status : TicketStatus, messages : 1 .. MaxMessages]

ASSUME NoTicketAssumption == NoTicket \notin TicketRow

StatusChange ==
    [previous : TicketStatus, new : TicketStatus, created_at : Nat]

Idle == [pc |-> "idle"]

Begun == [pc : {"begun"}, created_at : Nat]

Transition == [pc : {"checked"}, ticket : Tickets, previous : TicketStatus,
               next : TicketStatus, created_at : Nat]

InFlight(a) == request[a].pc = "checked"

Exists(t) == ticket[t] # NoTicket

-----------------------------------------------------------------------------
TicketInit ==
    /\ ticket = [t \in Tickets |-> NoTicket]
    /\ changes = [t \in Tickets |-> <<>>]
    /\ request = [a \in Agents |-> Idle]
    /\ now = 0

\* create_ticket: the row, its opening message and both audit events commit
\* together.  A request that names no customer of the organization, or
\* repeats an external identifier, is refused and leaves nothing.
CreateTicket(t) ==
    /\ ~ Exists(t)
    /\ ticket' = [ticket EXCEPT ![t] = [status |-> "open", messages |-> 1]]
    /\ UNCHANGED <<changes, request, now>>

\* append_agent_message: holds the ticket row from its read to its commit.
AppendMessage(t) ==
    /\ Exists(t)
    /\ ticket[t].messages < MaxMessages
    /\ ticket' = [ticket EXCEPT ![t].messages = @ + 1]
    /\ UNCHANGED <<changes, request, now>>

\* The request's first query, which begins its transaction.  Another may have
\* begun in the same microsecond.
Begin(a) ==
    /\ request[a] = Idle
    /\ \E time \in {now, now + 1} :
         /\ time <= MaxNow
         /\ now' = time
         /\ request' = [request EXCEPT ![a] = [pc |-> "begun", created_at |-> time]]
    /\ UNCHANGED <<ticket, changes>>

\* transition_ticket up to its try: reads the row without a lock and checks
\* the requested status.  A refused request (404, 409) is rolled back.
CheckTransition(a, t, next) ==
    /\ request[a].pc = "begun"
    /\ Exists(t)
    /\ Allowed(ticket[t].status, next)
    /\ request' = [request EXCEPT ![a] = [pc |-> "checked", ticket |-> t,
                                          previous |-> ticket[t].status,
                                          next |-> next,
                                          created_at |-> request[a].created_at]]
    /\ UNCHANGED <<ticket, changes, now>>

\* The audit event of request q.
Event(q) == [previous |-> q.previous, new |-> q.next, created_at |-> q.created_at]

\* transition_ticket from its try on: the UPDATE and the INSERT of one flush,
\* committed.  The row gets the requested status whatever it holds by now.
CommitTransition(a) ==
    LET q == request[a] IN
    /\ InFlight(a)
    /\ Len(changes[q.ticket]) < MaxEvents
    /\ ticket' = [ticket EXCEPT ![q.ticket].status = q.next]
    /\ changes' = [changes EXCEPT ![q.ticket] = Append(@, Event(q))]
    /\ request' = [request EXCEPT ![a] = Idle]
    /\ UNCHANGED now

\* Mutation of RollbackTransition: the audit event went out on its own.
RollbackKeepingEvent(a) ==
    /\ InFlight(a)
    /\ Len(changes[request[a].ticket]) < MaxEvents
    /\ changes' = [changes EXCEPT ![request[a].ticket] = Append(@, Event(request[a]))]
    /\ request' = [request EXCEPT ![a] = Idle]
    /\ UNCHANGED <<ticket, now>>

\* The request is refused, its session fails or its process dies before the
\* commit took effect: status and event are rolled back together.  (A commit
\* that was not acknowledged leaves what CommitTransition leaves.)
RollbackTransition(a) ==
    /\ request[a] # Idle
    /\ request' = [request EXCEPT ![a] = Idle]
    /\ UNCHANGED <<ticket, changes, now>>

TicketNext ==
    \/ \E t \in Tickets :
         \/ CreateTicket(t)
         \/ AppendMessage(t)
    \/ \E a \in Agents :
         \/ Begin(a)
         \/ \E t \in Tickets, next \in TicketStatus : CheckTransition(a, t, next)
         \/ CommitTransition(a)
         \/ RollbackTransition(a)

TicketSpec == TicketInit /\ [][TicketNext]_ticketVars

-----------------------------------------------------------------------------
\* Types of the rows, the audit events and the sessions in flight.
TicketTypeOK ==
    /\ ticket \in [Tickets -> TicketRow \cup {NoTicket}]
    /\ changes \in [Tickets -> Seq(StatusChange)]
    /\ request \in [Agents -> Begun \cup Transition \cup {Idle}]
    /\ now \in Nat

\* No transition of ticket t is recorded twice.
NothingRepeated(t) ==
    \A j, k \in DOMAIN changes[t] :
        j # k => changes[t][j].previous # changes[t][k].previous

\* A race that misplaces a ticket leaves a transition recorded twice
\* (transition_ticket, ALLOWED_TRANSITIONS): a ticket of whose transitions none
\* is recorded twice went through the workflow from "open", one status after
\* the other with nothing skipped or undone, and is where the last one took it.
RacesRepeatTransitions ==
    \A t \in Tickets : Exists(t) /\ NothingRepeated(t) =>
        /\ Rank(ticket[t].status) = Len(changes[t]) + 1
        /\ \A k \in DOMAIN changes[t] :
             Rank(changes[t][k].previous) = k /\ Rank(changes[t][k].new) = k + 1

\* The events of ticket t as they are listed, by created_at and, where that is
\* the same, in any order, go forward along the workflow.
ListingAscends(t) ==
    \A j, k \in DOMAIN changes[t] :
        j # k /\ changes[t][j].created_at <= changes[t][k].created_at =>
            Rank(changes[t][j].previous) < Rank(changes[t][k].previous)

\* A trail that reads forward is the whole story (list_events orders by
\* created_at, the start of the transaction, not by commit): its newest event
\* ends at the status of the row and every other one where a newer one starts,
\* also when requests were rolled back.  Of a listing that repeats a status or
\* goes back nothing is promised: there the newest event need not be the one
\* committed last.
AuditEndsAtStatus ==
    \A t \in Tickets : Exists(t) /\ ListingAscends(t) =>
        /\ changes[t] = <<>> => ticket[t].status = "open"
        /\ \A k \in DOMAIN changes[t] :
             \/ /\ ticket[t].status = changes[t][k].new
                /\ \A j \in DOMAIN changes[t] :
                     changes[t][j].created_at <= changes[t][k].created_at
             \/ \E j \in DOMAIN changes[t] :
                  /\ changes[t][j].created_at > changes[t][k].created_at
                  /\ changes[t][j].previous = changes[t][k].new

\* Reverse transitions are rejected, say ADR 0002 and ADR 0003.  A session
\* that checked the status before two others moved the ticket on writes the
\* older status back (transition_ticket reads the row without FOR UPDATE).
NoReverse ==
    [][\A t \in Tickets : Exists(t) =>
          Rank(ticket'[t].status) >= Rank(ticket[t].status)]_ticketVars
=============================================================================
