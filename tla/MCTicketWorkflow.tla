-------------------------- MODULE MCTicketWorkflow --------------------------
\* One ticket, two racing agent sessions.
EXTENDS TicketWorkflow, TLC

CONSTANTS t1, a1, a2

AgentSymmetry == Permutations(Agents)
=============================================================================
