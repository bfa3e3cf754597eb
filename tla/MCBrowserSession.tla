-------------------------- MODULE MCBrowserSession --------------------------
(* A small instance of BrowserSession: two users, two tabs, three ids. *)
EXTENDS BrowserSession, FiniteSets, TLC

Symmetry == Permutations(Sessions) \cup Permutations(Users) \cup Permutations(Requests)

\* Two requests at once while two ids are in use, one for each user at a time
\* (the logins of two users may still be under way from one login page), and one
\* request at a time once the third id is drawn.
Explored ==
    \/ /\ Cardinality({s \in Sessions : session[s].state # "unused"}) <= 2
       /\ Cardinality(members) <= 1
    \/ Cardinality({r \in Requests : request[r].pc # "idle"}) <= 1
=============================================================================
