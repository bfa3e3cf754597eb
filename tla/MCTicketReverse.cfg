SPECIFICATION TicketSpec
CONSTANTS
    t1 = t1
    a1 = a1
    a2 = a2
    NoTicket = NoTicket
    Tickets = {t1}
    Agents = {a1, a2}
    MaxEvents = 4
    MaxNow = 3
    MaxMessages = 2
PROPERTY NoReverse
CHECK_DEADLOCK FALSE
