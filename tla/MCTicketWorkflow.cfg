SPECIFICATION TicketSpec
CONSTANTS
    t1 = t1
    a1 = a1
    a2 = a2
    NoTicket = NoTicket
    Tickets = {t1}
    Agents = {a1, a2}
    MaxEvents = 6
    MaxNow = 4
    MaxMessages = 2
SYMMETRY AgentSymmetry
INVARIANTS RacesRepeatTransitions AuditEndsAtStatus
CHECK_DEADLOCK FALSE
