----------------------------- MODULE TicketProofs -----------------------------
(***************************************************************************)
(* Proofs about TicketWorkflow for any number of tickets and sessions, and *)
(* histories of any length.  The status a session checked may be stale     *)
(* when it commits; the invariant says what is still true of it: the       *)
(* ticket had that status at some time, and its history is never shortened *)
(* (changes are numbered in the order of their commits).                   *)
(***************************************************************************)
EXTENDS TicketWorkflow, TLAPS

\* The statuses ticket t had before its k-th status change.
Held(t, k) == {"open"} \cup {changes[t][j].new : j \in 1 .. k - 1}

\* What a session in flight knows of the ticket it checked.
Checked(a) ==
    LET q == request[a] IN
    InFlight(a) => /\ Exists(q.ticket)
                   /\ Allowed(q.previous, q.next)
                   /\ q.previous \in Held(q.ticket, Len(changes[q.ticket]) + 1)

\* The row has the status of the change that was committed last.
LastCommitted ==
    \A t \in Tickets :
        IF changes[t] = <<>> THEN Exists(t) => ticket[t].status = "open"
        ELSE Exists(t) /\ ticket[t].status = changes[t][Len(changes[t])].new

\* The k-th change of ticket t takes it from the k-th status to the next.
InStep(t, k) ==
    Rank(changes[t][k].previous) = k /\ Rank(changes[t][k].new) = k + 1

\* RacesRepeatTransitions as far as it is about the changes.
UnrepeatedInStep ==
    \A t \in Tickets : NothingRepeated(t) => \A k \in DOMAIN changes[t] : InStep(t, k)

TInv ==
    /\ TicketTypeOK
    /\ LastCommitted
    /\ UnrepeatedInStep
    /\ \A a \in Agents : Checked(a)

-----------------------------------------------------------------------------
USE DEF Exists

\* Statuses are ranked by numbers, and "open" comes first.
LEMMA RankIsNat ==
    /\ \A s \in TicketStatus : Rank(s) \in 1 .. 5 /\ Workflow[Rank(s)] = s
    /\ "open" \in TicketStatus /\ Rank("open") = 1
<1>0. /\ Workflow[1] = "open" /\ Workflow[2] = "processing"
      /\ Workflow[3] = "waiting_for_agent" /\ Workflow[4] = "resolved"
      /\ Workflow[5] = "closed"
  BY DEF Workflow
<1>1. ASSUME NEW s \in TicketStatus
      PROVE  Rank(s) \in 1 .. 5 /\ Workflow[Rank(s)] = s
  <2>1. \E k \in 1 .. 5 : Workflow[k] = s
    BY <1>0 DEF TicketStatus
  <2> QED  BY <2>1 DEF Rank
<1>2. "open" \in TicketStatus
  BY DEF TicketStatus
<1>3. Rank("open") = 1
  BY <1>0, <1>1, <1>2
<1> QED  BY <1>1, <1>2, <1>3

\* A session in flight names a ticket and two statuses.
LEMMA SessionFacts ==
    ASSUME TInv, NEW a \in Agents, InFlight(a)
    PROVE  /\ request[a] \in Transition
           /\ request[a].ticket \in Tickets
           /\ request[a].previous \in TicketStatus
           /\ request[a].next \in TicketStatus
           /\ Event(request[a]) \in StatusChange
<1>1. request[a] \in Begun \cup Transition \cup {Idle}
  BY DEF TInv, TicketTypeOK
<1>2. request[a] \in Transition
  BY <1>1 DEF InFlight, Begun, Idle
<1> QED  BY <1>2 DEF Transition, Event, StatusChange

\* The ticket is in a status it had.
LEMMA StatusHeld ==
    ASSUME TInv, NEW t \in Tickets, Exists(t)
    PROVE  ticket[t].status \in Held(t, Len(changes[t]) + 1)
<1>1. changes[t] \in Seq(StatusChange)
  BY DEF TInv, TicketTypeOK
<1>2. CASE changes[t] = <<>>
  BY <1>2 DEF TInv, LastCommitted, Held
<1>3. CASE changes[t] # <<>>
  <2>1. Len(changes[t]) \in 1 .. (Len(changes[t]) + 1) - 1
    BY <1>1, <1>3
  <2>2. ticket[t].status = changes[t][Len(changes[t])].new
    BY <1>3 DEF TInv, LastCommitted
  <2> QED  BY <2>1, <2>2 DEF Held
<1> QED  BY <1>2, <1>3

LEMMA CreateStep ==
    ASSUME TInv, NEW t \in Tickets, CreateTicket(t)
    PROVE  TInv'
<1> DEFINE row == [status |-> "open", messages |-> 1]
<1>1. /\ ticket[t] = NoTicket
      /\ ticket' = [ticket EXCEPT ![t] = row]
      /\ UNCHANGED <<changes, request, now>>
  BY DEF CreateTicket
<1>2. row \in TicketRow /\ row.status = "open" /\ row # NoTicket
  BY TicketConstants, NoTicketAssumption DEF TicketRow, TicketStatus
<1> HIDE DEF row
<1>3. /\ ticket' \in [Tickets -> TicketRow \cup {NoTicket}]
      /\ ticket'[t] = row
      /\ \A u \in Tickets \ {t} : ticket'[u] = ticket[u]
  BY <1>1, <1>2 DEF TInv, TicketTypeOK
<1>4. TicketTypeOK'
  BY <1>1, <1>3 DEF TInv, TicketTypeOK
<1>5. UnrepeatedInStep'
  BY <1>1 DEF TInv, UnrepeatedInStep, NothingRepeated, InStep
<1>6. LastCommitted'
  BY <1>1, <1>2, <1>3 DEF TInv, LastCommitted
<1>7. ASSUME NEW a \in Agents PROVE Checked(a)'
  BY <1>1, <1>3, SessionFacts DEF TInv, Checked, Held, InFlight
<1> QED  BY <1>4, <1>5, <1>6, <1>7 DEF TInv

LEMMA AppendStep ==
    ASSUME TInv, NEW t \in Tickets, AppendMessage(t)
    PROVE  TInv'
<1> DEFINE n == ticket[t].messages + 1
<1>1. /\ ticket[t] \in TicketRow
      /\ ticket[t].messages < MaxMessages
      /\ ticket' = [ticket EXCEPT ![t] = [ticket[t] EXCEPT !.messages = n]]
      /\ UNCHANGED <<changes, request, now>>
  BY DEF AppendMessage, TInv, TicketTypeOK
<1>2. n \in 1 .. MaxMessages
  BY <1>1, TicketConstants DEF TicketRow
<1> HIDE DEF n
<1>3. /\ [ticket[t] EXCEPT !.messages = n] \in TicketRow
      /\ [ticket[t] EXCEPT !.messages = n].status = ticket[t].status
  BY <1>1, <1>2 DEF TicketRow
<1>4. NoTicket \notin TicketRow
  BY NoTicketAssumption
<1>5. /\ ticket' \in [Tickets -> TicketRow \cup {NoTicket}]
      /\ ticket'[t].status = ticket[t].status
      /\ ticket'[t] # NoTicket
      /\ \A u \in Tickets \ {t} : ticket'[u] = ticket[u]
  BY <1>1, <1>3, <1>4 DEF TInv, TicketTypeOK
<1>6. TicketTypeOK'
  BY <1>1, <1>5 DEF TInv, TicketTypeOK
<1>7. UnrepeatedInStep'
  BY <1>1 DEF TInv, UnrepeatedInStep, NothingRepeated, InStep
<1>8. LastCommitted'
  BY <1>1, <1>4, <1>5 DEF TInv, LastCommitted
<1>9. ASSUME NEW a \in Agents PROVE Checked(a)'
  BY <1>1, <1>5, SessionFacts DEF TInv, Checked, Held, InFlight
<1> QED  BY <1>6, <1>7, <1>8, <1>9 DEF TInv

LEMMA BeginStep ==
    ASSUME TInv, NEW a \in Agents, Begin(a)
    PROVE  TInv'
<1>1. PICK time \in {now, now + 1} :
        /\ now' = time
        /\ request' = [request EXCEPT ![a] = [pc |-> "begun", created_at |-> time]]
        /\ UNCHANGED <<ticket, changes>>
  BY DEF Begin
<1>2. time \in Nat /\ [pc |-> "begun", created_at |-> time] \in Begun
  BY DEF TInv, TicketTypeOK, Begun
<1>3. /\ request' \in [Agents -> Begun \cup Transition \cup {Idle}]
      /\ ~ InFlight(a)'
      /\ \A b \in Agents \ {a} : request'[b] = request[b]
  BY <1>1, <1>2 DEF TInv, TicketTypeOK, InFlight
<1>4. TicketTypeOK' /\ LastCommitted' /\ UnrepeatedInStep'
  BY <1>1, <1>2, <1>3
     DEF TInv, TicketTypeOK, LastCommitted, UnrepeatedInStep, NothingRepeated, InStep
<1>5. ASSUME NEW b \in Agents PROVE Checked(b)'
  BY <1>1, <1>3 DEF TInv, Checked, Held, InFlight
<1> QED  BY <1>4, <1>5 DEF TInv

LEMMA CheckStep ==
    ASSUME TInv, NEW a \in Agents, NEW t \in Tickets, NEW next \in TicketStatus,
           CheckTransition(a, t, next)
    PROVE  TInv'
<1> DEFINE q == [pc |-> "checked", ticket |-> t, previous |-> ticket[t].status,
                 next |-> next, created_at |-> request[a].created_at]
<1>1. /\ Exists(t)
      /\ Allowed(ticket[t].status, next)
      /\ request' = [request EXCEPT ![a] = q]
      /\ UNCHANGED <<ticket, changes, now>>
  BY DEF CheckTransition
<1>2. ticket[t].status \in TicketStatus
  BY <1>1 DEF TInv, TicketTypeOK, TicketRow
<1>3. request[a].created_at \in Nat
  <2>1. request[a] \in Begun \cup Transition \cup {Idle}
    BY DEF TInv, TicketTypeOK
  <2> QED  BY <2>1 DEF CheckTransition, Begun, Transition, Idle
<1>4. q \in Transition
  BY <1>2, <1>3 DEF Transition
<1>5. /\ q.ticket = t /\ q.previous = ticket[t].status /\ q.next = next
  OBVIOUS
<1> HIDE DEF q
<1>6. /\ request' \in [Agents -> Begun \cup Transition \cup {Idle}]
      /\ request'[a] = q
      /\ \A b \in Agents \ {a} : request'[b] = request[b]
  BY <1>1, <1>4 DEF TInv, TicketTypeOK
<1>7. TicketTypeOK' /\ LastCommitted' /\ UnrepeatedInStep'
  <2>1. TicketTypeOK'
    BY <1>1, <1>6 DEF TInv, TicketTypeOK
  <2>2. LastCommitted'
    BY <1>1 DEF TInv, LastCommitted
  <2>3. UnrepeatedInStep'
    BY <1>1 DEF TInv, UnrepeatedInStep, NothingRepeated, InStep
  <2> QED  BY <2>1, <2>2, <2>3
<1>8. ASSUME NEW b \in Agents PROVE Checked(b)'
  <2>1. CASE b = a
    BY <1>1, <1>5, <1>6, <2>1, StatusHeld DEF Checked, Held
  <2>2. CASE b # a
    BY <1>1, <1>6, <2>2 DEF TInv, Checked, Held, InFlight
  <2> QED  BY <2>1, <2>2
<1> QED  BY <1>7, <1>8 DEF TInv

LEMMA CommitStep ==
    ASSUME TInv, NEW a \in Agents, CommitTransition(a)
    PROVE  TInv'
<1> DEFINE q == request[a]
           event == Event(q)
<1>0. InFlight(a)
  BY DEF CommitTransition
<1> PICK t \in Tickets : t = q.ticket
  BY <1>0, SessionFacts
<1>1. /\ ticket' = [ticket EXCEPT ![t] = [ticket[t] EXCEPT !.status = q.next]]
      /\ changes' = [changes EXCEPT ![t] = Append(changes[t], event)]
      /\ request' = [request EXCEPT ![a] = Idle]
      /\ UNCHANGED now
  BY DEF CommitTransition
<1>2. q.previous \in TicketStatus /\ q.next \in TicketStatus
  BY <1>0, SessionFacts
<1>3. /\ ticket[t] # NoTicket
      /\ Allowed(q.previous, q.next)
      /\ q.previous \in Held(t, Len(changes[t]) + 1)
  BY <1>0 DEF TInv, Checked
<1>4. event \in StatusChange /\ event.previous = q.previous /\ event.new = q.next
  BY <1>0, SessionFacts DEF Event
<1>5. NoTicket \notin TicketRow
  BY NoTicketAssumption
<1>6. /\ [ticket[t] EXCEPT !.status = q.next] \in TicketRow
      /\ [ticket[t] EXCEPT !.status = q.next].status = q.next
  BY <1>2, <1>3 DEF TInv, TicketTypeOK, TicketRow
<1> HIDE DEF event
<1>7. /\ ticket' \in [Tickets -> TicketRow \cup {NoTicket}]
      /\ ticket'[t].status = q.next
      /\ ticket'[t] # NoTicket
      /\ \A u \in Tickets \ {t} : ticket'[u] = ticket[u]
  BY <1>1, <1>5, <1>6 DEF TInv, TicketTypeOK
<1>8. /\ changes' \in [Tickets -> Seq(StatusChange)]
      /\ changes'[t] = Append(changes[t], event)
      /\ \A u \in Tickets \ {t} : changes'[u] = changes[u]
  BY <1>1, <1>4 DEF TInv, TicketTypeOK
<1> PICK n : n = Len(changes[t])
  OBVIOUS
<1>9. /\ n \in Nat
      /\ Len(changes'[t]) = n + 1
      /\ changes'[t] # <<>>
      /\ changes'[t][n + 1] = event
      /\ \A j \in 1 .. n : changes'[t][j] = changes[t][j]
      /\ DOMAIN changes'[t] = 1 .. n + 1
      /\ DOMAIN changes[t] = 1 .. n
  <2>1. changes[t] \in Seq(StatusChange) /\ event \in StatusChange
    BY <1>4 DEF TInv, TicketTypeOK
  <2>2. changes'[t] = Append(changes[t], event)
    BY <1>8
  <2> QED  BY <2>1, <2>2
<1>10. /\ request' \in [Agents -> Begun \cup Transition \cup {Idle}]
       /\ ~ InFlight(a)'
       /\ \A b \in Agents \ {a} : request'[b] = request[b]
  BY <1>1 DEF TInv, TicketTypeOK, InFlight, Idle
<1>11. TicketTypeOK'
  BY <1>1, <1>7, <1>8, <1>10 DEF TInv, TicketTypeOK
<1>12. Held(t, n + 1) \subseteq Held(t, n + 2)'
  <2>1. /\ 1 .. (n + 1) - 1 \subseteq 1 .. (n + 2) - 1
        /\ \A j \in 1 .. (n + 1) - 1 : changes'[t][j].new = changes[t][j].new
    BY <1>9
  <2> QED  BY <2>1 DEF Held
<1>13. ASSUME NothingRepeated(t)'
       PROVE  \A k \in DOMAIN changes'[t] : InStep(t, k)'
  <2>1. NothingRepeated(t)
    <3> SUFFICES ASSUME NEW j \in 1 .. n, NEW k \in 1 .. n, j # k
                 PROVE  changes[t][j].previous # changes[t][k].previous
      BY <1>9 DEF NothingRepeated
    <3>1. j \in DOMAIN changes'[t] /\ k \in DOMAIN changes'[t]
      BY <1>9
    <3>2. changes'[t][j].previous # changes'[t][k].previous
      BY <1>13, <3>1 DEF NothingRepeated
    <3> QED  BY <1>9, <3>2
  <2>2. \A k \in 1 .. n : InStep(t, k)
    BY <1>9, <2>1 DEF TInv, UnrepeatedInStep
  <2>3. \A k \in 1 .. n : InStep(t, k)'
    BY <1>9, <2>2 DEF InStep
  <2>4. Rank(q.previous) \in 1 .. n + 1
    <3>1. CASE q.previous = "open"
      BY <1>9, <3>1, RankIsNat
    <3>2. ASSUME NEW j \in 1 .. n, q.previous = changes[t][j].new
          PROVE  Rank(q.previous) \in 1 .. n + 1
      BY <1>9, <2>2, <3>2 DEF InStep
    <3> QED  BY <1>3, <1>9, <3>1, <3>2 DEF Held
  <2>5. ASSUME NEW k \in 1 .. n PROVE Rank(q.previous) # k
    <3>1. k \in DOMAIN changes'[t] /\ n + 1 \in DOMAIN changes'[t] /\ k # n + 1
      BY <1>9
    <3>2. changes'[t][k].previous # q.previous
      BY <1>4, <1>9, <1>13, <3>1 DEF NothingRepeated
    <3>3. changes'[t] \in Seq(StatusChange)
      BY <1>8
    <3>4. changes'[t][k].previous \in TicketStatus
      <4>1. changes'[t][k] \in StatusChange
        BY <3>1, <3>3
      <4> QED  BY <4>1 DEF StatusChange
    <3>5. Rank(changes'[t][k].previous) = k
      BY <2>3 DEF InStep
    <3> QED  BY <1>2, <3>2, <3>4, <3>5, RankIsNat
  <2>6. Rank(q.previous) = n + 1
    BY <1>9, <2>4, <2>5
  <2>7. InStep(t, n + 1)'
    BY <1>3, <1>4, <1>9, <2>6 DEF InStep, Allowed
  <2> QED  BY <1>9, <2>3, <2>7
<1>14. UnrepeatedInStep'
  <2> SUFFICES ASSUME NEW u \in Tickets, u # t, NothingRepeated(u)'
               PROVE  \A k \in DOMAIN changes'[u] : InStep(u, k)'
    BY <1>13 DEF UnrepeatedInStep
  <2>1. changes'[u] = changes[u]
    BY <1>8
  <2> QED  BY <2>1 DEF TInv, UnrepeatedInStep, NothingRepeated, InStep
<1>15. LastCommitted'
  <2>1. ASSUME NEW u \in Tickets
        PROVE  IF changes'[u] = <<>> THEN Exists(u)' => ticket'[u].status = "open"
               ELSE Exists(u)' /\ ticket'[u].status = changes'[u][Len(changes'[u])].new
    <3>1. CASE u = t
      BY <1>4, <1>7, <1>9, <3>1
    <3>2. CASE u # t
      BY <1>7, <1>8, <3>2 DEF TInv, LastCommitted
    <3> QED  BY <3>1, <3>2
  <2> QED  BY <2>1 DEF LastCommitted
<1>16. ASSUME NEW b \in Agents, InFlight(b)' PROVE Checked(b)'
  <2>1. b # a /\ request'[b] = request[b] /\ InFlight(b)
    BY <1>10, <1>16 DEF InFlight
  <2>2. request[b].ticket \in Tickets
    BY <2>1, SessionFacts
  <2>3. Checked(b)
    BY DEF TInv
  <2>4. CASE request[b].ticket = t
    BY <1>7, <1>9, <1>12, <2>1, <2>3, <2>4 DEF Checked
  <2>5. CASE request[b].ticket # t
    BY <1>7, <1>8, <2>1, <2>2, <2>3, <2>5 DEF Checked, Held
  <2> QED  BY <2>4, <2>5
<1> QED  BY <1>11, <1>14, <1>15, <1>16 DEF TInv, Checked

LEMMA RollbackStep ==
    ASSUME TInv, NEW a \in Agents, RollbackTransition(a)
    PROVE  TInv'
<1>1. /\ request' = [request EXCEPT ![a] = Idle]
      /\ UNCHANGED <<ticket, changes, now>>
  BY DEF RollbackTransition
<1>2. TicketTypeOK' /\ LastCommitted' /\ UnrepeatedInStep'
  BY <1>1
     DEF TInv, TicketTypeOK, LastCommitted, UnrepeatedInStep, NothingRepeated, InStep
<1>3. ASSUME NEW b \in Agents PROVE Checked(b)'
  BY <1>1 DEF TInv, TicketTypeOK, Checked, Held, InFlight, Idle
<1> QED  BY <1>2, <1>3 DEF TInv

-----------------------------------------------------------------------------
\* The inductive invariant of the ticket service.
THEOREM TicketInvariant == TicketSpec => []TInv
<1>1. TicketInit => TInv
  <2> SUFFICES ASSUME TicketInit PROVE TInv
    OBVIOUS
  <2>1. TicketTypeOK
    BY DEF TicketInit, TicketTypeOK
  <2>2. LastCommitted /\ UnrepeatedInStep
    BY DEF TicketInit, LastCommitted, UnrepeatedInStep
  <2>3. \A a \in Agents : Checked(a)
    BY DEF TicketInit, Checked, InFlight, Idle
  <2> QED  BY <2>1, <2>2, <2>3 DEF TInv
<1>2. TInv /\ [TicketNext]_ticketVars => TInv'
  <2> SUFFICES ASSUME TInv, [TicketNext]_ticketVars PROVE TInv'
    OBVIOUS
  <2>1. CASE UNCHANGED ticketVars
    BY <2>1 DEF ticketVars, TInv, TicketTypeOK, LastCommitted, UnrepeatedInStep,
                NothingRepeated, InStep, Checked, Held, InFlight
  <2>2. ASSUME NEW t \in Tickets, CreateTicket(t) \/ AppendMessage(t)
        PROVE  TInv'
    BY <2>2, CreateStep, AppendStep
  <2>3. ASSUME NEW a \in Agents, NEW t \in Tickets, NEW next \in TicketStatus,
               CheckTransition(a, t, next)
        PROVE  TInv'
    BY <2>3, CheckStep
  <2>4. ASSUME NEW a \in Agents,
               Begin(a) \/ CommitTransition(a) \/ RollbackTransition(a)
        PROVE  TInv'
    BY <2>4, BeginStep, CommitStep, RollbackStep
  <2> QED  BY <2>1, <2>2, <2>3, <2>4 DEF TicketNext
<1> QED  BY <1>1, <1>2, PTL DEF TicketSpec

\* Types hold, and a ticket has its first message from its creation on
\* (create_ticket).
THEOREM TicketTypes == TicketSpec => []TicketTypeOK
<1>1. TInv => TicketTypeOK
  BY DEF TInv
<1> QED  BY <1>1, TicketInvariant, PTL

\* The invariant gives the status of the row as well.
LEMMA UnrepeatedIsWorkflow == TInv => RacesRepeatTransitions
<1> SUFFICES ASSUME TInv, NEW t \in Tickets, Exists(t), NothingRepeated(t)
             PROVE  /\ Rank(ticket[t].status) = Len(changes[t]) + 1
                    /\ \A k \in DOMAIN changes[t] : InStep(t, k)
  BY DEF RacesRepeatTransitions, InStep
<1>1. \A k \in DOMAIN changes[t] : InStep(t, k)
  BY DEF TInv, UnrepeatedInStep
<1>2. changes[t] \in Seq(StatusChange)
  BY DEF TInv, TicketTypeOK
<1>3. CASE changes[t] = <<>>
  <2>1. ticket[t].status = "open" /\ Len(changes[t]) = 0
    BY <1>3 DEF TInv, LastCommitted
  <2> QED  BY <1>1, <2>1, RankIsNat
<1>4. CASE changes[t] # <<>>
  <2>1. Len(changes[t]) \in DOMAIN changes[t]
    BY <1>2, <1>4
  <2>2. ticket[t].status = changes[t][Len(changes[t])].new
    BY <1>4 DEF TInv, LastCommitted
  <2> QED  BY <1>1, <2>1, <2>2 DEF InStep
<1> QED  BY <1>3, <1>4

\* However many sessions of transition_ticket race and however stale the status
\* they checked: where no transition is recorded twice, none was skipped and
\* none undone.
THEOREM SkipsShowAsRepeats == TicketSpec => []RacesRepeatTransitions
<1> QED  BY UnrepeatedIsWorkflow, TicketInvariant, PTL

\* A listing of the audit events that goes forward is complete and ends at the
\* status of the row, although list_events does not order by commit.
THEOREM ForwardListingIsWhole == TicketSpec => []AuditEndsAtStatus
<1>1. TInv => AuditEndsAtStatus
  <2> SUFFICES ASSUME TInv, NEW t \in Tickets, Exists(t), ListingAscends(t)
               PROVE  /\ changes[t] = <<>> => ticket[t].status = "open"
                      /\ \A k \in DOMAIN changes[t] :
                           \/ /\ ticket[t].status = changes[t][k].new
                              /\ \A j \in DOMAIN changes[t] :
                                   changes[t][j].created_at <= changes[t][k].created_at
                           \/ \E j \in DOMAIN changes[t] :
                                /\ changes[t][j].created_at > changes[t][k].created_at
                                /\ changes[t][j].previous = changes[t][k].new
    BY DEF AuditEndsAtStatus
  <2>1. changes[t] = <<>> => ticket[t].status = "open"
    BY DEF TInv, LastCommitted
  <2>2. /\ changes[t] \in Seq(StatusChange)
        /\ \A k \in DOMAIN changes[t] :
             /\ changes[t][k].previous \in TicketStatus
             /\ changes[t][k].new \in TicketStatus
             /\ changes[t][k].created_at \in Nat
             /\ Rank(changes[t][k].previous) \in 1 .. 5
    <3>1. changes[t] \in Seq(StatusChange)
      BY DEF TInv, TicketTypeOK
    <3>2. \A k \in DOMAIN changes[t] : changes[t][k] \in StatusChange
      BY <3>1
    <3>3. \A k \in DOMAIN changes[t] :
             /\ changes[t][k].previous \in TicketStatus
             /\ changes[t][k].new \in TicketStatus
             /\ changes[t][k].created_at \in Nat
      BY <3>2 DEF StatusChange
    <3> QED  BY <3>1, <3>3, RankIsNat
  <2>3. NothingRepeated(t)
    <3> SUFFICES ASSUME NEW j \in DOMAIN changes[t], NEW k \in DOMAIN changes[t], j # k
                 PROVE  Rank(changes[t][j].previous) # Rank(changes[t][k].previous)
      BY DEF NothingRepeated
    <3>1. \/ changes[t][j].created_at <= changes[t][k].created_at
          \/ changes[t][k].created_at <= changes[t][j].created_at
      BY <2>2
    <3> QED  BY <2>2, <3>1 DEF ListingAscends
  <2>4. \A k \in DOMAIN changes[t] : InStep(t, k)
    BY <2>3 DEF TInv, UnrepeatedInStep
  <2>5. ASSUME NEW j \in DOMAIN changes[t], NEW k \in DOMAIN changes[t], j < k
        PROVE  changes[t][j].created_at < changes[t][k].created_at
    <3>1. ~ (Rank(changes[t][k].previous) < Rank(changes[t][j].previous))
      BY <2>2, <2>4, <2>5 DEF InStep
    <3>2. ~ (changes[t][k].created_at <= changes[t][j].created_at)
      BY <2>2, <2>5, <3>1 DEF ListingAscends
    <3> QED  BY <2>2, <3>2
  <2>6. ASSUME NEW k \in DOMAIN changes[t], k = Len(changes[t])
        PROVE  /\ ticket[t].status = changes[t][k].new
               /\ \A j \in DOMAIN changes[t] :
                    changes[t][j].created_at <= changes[t][k].created_at
    <3>1. changes[t] # <<>>
      BY <2>6
    <3>2. \A j \in DOMAIN changes[t] : j = k \/ j < k
      BY <2>2, <2>6
    <3> QED  BY <2>2, <2>5, <2>6, <3>1, <3>2 DEF TInv, LastCommitted
  <2>7. ASSUME NEW k \in DOMAIN changes[t], k # Len(changes[t])
        PROVE  \E j \in DOMAIN changes[t] :
                 /\ changes[t][j].created_at > changes[t][k].created_at
                 /\ changes[t][j].previous = changes[t][k].new
    <3>1. k + 1 \in DOMAIN changes[t] /\ k < k + 1 /\ k \in Nat
      BY <2>2, <2>7
    <3>2. Rank(changes[t][k + 1].previous) = Rank(changes[t][k].new)
      BY <2>4, <3>1 DEF InStep
    <3>3. changes[t][k + 1].previous = changes[t][k].new
      BY <2>2, <3>1, <3>2, RankIsNat
    <3>4. changes[t][k].created_at < changes[t][k + 1].created_at
      BY <2>5, <3>1
    <3> QED  BY <2>2, <3>1, <3>3, <3>4
  <2> QED  BY <2>1, <2>6, <2>7
<1> QED  BY <1>1, TicketInvariant, PTL

(***************************************************************************)
(* What is missing for NoReverse, which TLC refutes: a ticket goes back or *)
(* skips a status only when two transitions of it overlap between check    *)
(* and commit.  Serial is what locking the row for both would bring about. *)
(***************************************************************************)
Serial ==
    \A a, b \in Agents :
        (InFlight(a) /\ InFlight(b) /\ request[a].ticket = request[b].ticket)
            => a = b

\* A status changes only as ALLOWED_TRANSITIONS has it.
AllowedMove ==
    \A t \in Tickets : Exists(t) =>
        \/ ticket'[t].status = ticket[t].status
        \/ Allowed(ticket[t].status, ticket'[t].status)

\* A session in flight has seen the status that the ticket still has.
UpToDate ==
    \A a \in Agents : InFlight(a) =>
        request[a].previous = ticket[request[a].ticket].status

\* What a step does to the tickets: nothing to the status of any that exists,
\* or one session writes the status it asked for.
LEMMA StatusStep ==
    ASSUME TInv, [TicketNext]_ticketVars
    PROVE  \/ \A t \in Tickets : Exists(t) => ticket'[t].status = ticket[t].status
           \/ \E a \in Agents :
                /\ InFlight(a) /\ request' = [request EXCEPT ![a] = Idle]
                /\ ticket'[request[a].ticket].status = request[a].next
                /\ \A t \in Tickets : t # request[a].ticket => ticket'[t] = ticket[t]
<1>t. ticket \in [Tickets -> TicketRow \cup {NoTicket}]
  BY DEF TInv, TicketTypeOK
<1>1. CASE UNCHANGED ticket
  BY <1>1
<1>2. ASSUME NEW t \in Tickets, CreateTicket(t)
      PROVE  \A u \in Tickets : Exists(u) => ticket'[u].status = ticket[u].status
  BY <1>t, <1>2 DEF CreateTicket
<1>3. ASSUME NEW t \in Tickets, AppendMessage(t)
      PROVE  \A u \in Tickets : Exists(u) => ticket'[u].status = ticket[u].status
  <2>1. ticket[t] \in TicketRow
    BY <1>t, <1>3 DEF AppendMessage
  <2>2. ticket'[t].status = ticket[t].status
    BY <1>t, <1>3, <2>1 DEF AppendMessage, TicketRow
  <2>3. \A u \in Tickets : u # t => ticket'[u] = ticket[u]
    BY <1>t, <1>3 DEF AppendMessage
  <2> QED  BY <2>2, <2>3
<1>4. ASSUME NEW a \in Agents, CommitTransition(a)
      PROVE  /\ InFlight(a) /\ request' = [request EXCEPT ![a] = Idle]
             /\ ticket'[request[a].ticket].status = request[a].next
             /\ \A t \in Tickets : t # request[a].ticket => ticket'[t] = ticket[t]
  <2>1. InFlight(a) /\ request' = [request EXCEPT ![a] = Idle]
    BY <1>4 DEF CommitTransition
  <2>2. PICK t \in Tickets : t = request[a].ticket
    BY <2>1, SessionFacts
  <2>3. ticket[t] \in TicketRow
    BY <1>t, <2>1, <2>2 DEF TInv, Checked
  <2>4. ticket' = [ticket EXCEPT ![t].status = request[a].next]
    BY <1>4, <2>2 DEF CommitTransition
  <2>5. ticket'[t].status = request[a].next
    BY <1>t, <2>3, <2>4 DEF TicketRow
  <2>6. \A u \in Tickets : u # t => ticket'[u] = ticket[u]
    BY <1>t, <2>4
  <2> QED  BY <2>1, <2>2, <2>5, <2>6
<1> QED  BY <1>1, <1>2, <1>3, <1>4
     DEF TicketNext, ticketVars, Begin, CheckTransition, RollbackTransition

LEMMA UpToDateStep ==
    ASSUME TInv, Serial, UpToDate, [TicketNext]_ticketVars
    PROVE  UpToDate'
<1> SUFFICES ASSUME NEW b \in Agents, InFlight(b)'
             PROVE  request'[b].previous = ticket'[request'[b].ticket].status
  BY DEF UpToDate
<1>r. request \in [Agents -> Begun \cup Transition \cup {Idle}]
  BY DEF TInv, TicketTypeOK
<1>1. ASSUME NEW a \in Agents, NEW t \in Tickets, NEW next \in TicketStatus,
             CheckTransition(a, t, next)
      PROVE  request'[b].previous = ticket'[request'[b].ticket].status
  <2>1. CASE b = a
    BY <1>r, <1>1, <2>1 DEF CheckTransition
  <2>2. CASE b # a
    BY <1>r, <1>1, <2>2 DEF CheckTransition, UpToDate, InFlight
  <2> QED  BY <2>1, <2>2
<1>2. CASE ~ \E a \in Agents, t \in Tickets, next \in TicketStatus : CheckTransition(a, t, next)
  <2>1. request'[b] = request[b] /\ InFlight(b)
    <3>1. ASSUME NEW a \in Agents, Begin(a)
          PROVE  request'[b] = request[b]
      BY <1>r, <3>1 DEF Begin, InFlight
    <3>2. ASSUME NEW a \in Agents, request' = [request EXCEPT ![a] = Idle]
          PROVE  request'[b] = request[b]
      BY <1>r, <3>2 DEF InFlight, Idle
    <3>3. UNCHANGED request => request'[b] = request[b]
      OBVIOUS
    <3>4. request'[b] = request[b]
      BY <1>2, <3>1, <3>2, <3>3
         DEF TicketNext, ticketVars, CreateTicket, AppendMessage, CommitTransition,
             RollbackTransition
    <3> QED  BY <3>4 DEF InFlight
  <2>2. request[b].ticket \in Tickets /\ Exists(request[b].ticket)
    BY <2>1, SessionFacts DEF TInv, Checked
  <2>3. request[b].previous = ticket[request[b].ticket].status
    BY <2>1 DEF UpToDate
  <2>4. ticket'[request[b].ticket].status = ticket[request[b].ticket].status
    <3>1. ASSUME NEW a \in Agents, InFlight(a),
                 request' = [request EXCEPT ![a] = Idle],
                 \A t \in Tickets : t # request[a].ticket => ticket'[t] = ticket[t]
          PROVE  ticket'[request[b].ticket].status = ticket[request[b].ticket].status
      <4>1. a # b
        BY <1>r, <2>1, <3>1 DEF InFlight, Idle
      <4>2. request[a].ticket # request[b].ticket
        BY <2>1, <3>1, <4>1 DEF Serial
      <4> QED  BY <2>2, <3>1, <4>2
    <3> QED  BY <2>2, <3>1, StatusStep
  <2> QED  BY <2>1, <2>3, <2>4
<1> QED  BY <1>1, <1>2

\* "Skipped, reverse, and reopen transitions are rejected" holds where no two
\* transitions of one ticket overlap (transition_ticket with its row locked): the
\* race is the only way for a ticket to go back or to skip a status, with any
\* number of tickets and agents.
THEOREM WorkflowWithoutRaces ==
    TicketSpec /\ []Serial => NoReverse /\ [][AllowedMove]_ticketVars
<1>1. TicketInit => UpToDate
  BY DEF TicketInit, UpToDate, InFlight, Idle
<1>2. TInv /\ Serial /\ UpToDate /\ [TicketNext]_ticketVars => UpToDate'
  BY UpToDateStep
<1>3. TInv /\ UpToDate /\ [TicketNext]_ticketVars => AllowedMove
  <2> SUFFICES ASSUME TInv, UpToDate, [TicketNext]_ticketVars,
                      NEW t \in Tickets, Exists(t)
               PROVE  \/ ticket'[t].status = ticket[t].status
                      \/ Allowed(ticket[t].status, ticket'[t].status)
    BY DEF AllowedMove
  <2>1. ASSUME NEW a \in Agents, InFlight(a), request[a].ticket = t,
               ticket'[t].status = request[a].next
        PROVE  Allowed(ticket[t].status, ticket'[t].status)
    <3>1. Allowed(request[a].previous, request[a].next)
      BY <2>1 DEF TInv, Checked
    <3>2. request[a].previous = ticket[t].status
      BY <2>1 DEF UpToDate
    <3> QED  BY <2>1, <3>1, <3>2
  <2> QED  BY <2>1, StatusStep
<1>4. TInv /\ AllowedMove =>
        \A t \in Tickets : Exists(t) =>
            Rank(ticket'[t].status) >= Rank(ticket[t].status)
  <2> SUFFICES ASSUME TInv, AllowedMove, NEW t \in Tickets, Exists(t)
               PROVE  Rank(ticket'[t].status) >= Rank(ticket[t].status)
    OBVIOUS
  <2>1. Rank(ticket[t].status) \in 1 .. 5
    BY RankIsNat DEF TInv, TicketTypeOK, TicketRow
  <2> QED  BY <2>1 DEF AllowedMove, Allowed
<1> QED  BY <1>1, <1>2, <1>3, <1>4, TicketInvariant, PTL DEF TicketSpec, NoReverse
===============================================================================
