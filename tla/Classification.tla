---------------------------- MODULE Classification ----------------------------
(***************************************************************************)
(* On-demand classification of one ticket                                  *)
(* (app/classification/application.py).  A POST claims the identity        *)
(* (input fingerprint, configuration digest) in one transaction, calls the *)
(* provider with no database session open, and settles the claim in a      *)
(* second transaction; a GET only reads.  Each of these transactions takes *)
(* share locks on the rows that authorize the actor and then locks the     *)
(* ticket row, so it is one step here: whoever changes the membership or   *)
(* the opening request is ordered before or after it.                      *)
(*                                                                         *)
(* Between two steps of a request everything may happen: the actor loses   *)
(* access, the ticket is edited, the claim expires, another request comes  *)
(* for the same identity, the process dies.                                *)
(***************************************************************************)
EXTENDS Integers, Sequences, FiniteSets

CONSTANTS Requests,   \* HTTP requests being served, by any API process
          Actors,     \* users who may call the two routes
          Configs,    \* configuration digests of the processes deployed
          Inputs,     \* fingerprints of the opening request
          NoContext,  \* the inputs with insufficient context
          TooLarge,   \* the inputs over the size limits
          NoValue,    \* SQL NULL, no row, no reply
          Lifetime    \* the 30 seconds of a claim, in ticks of the clock

ASSUME ClassificationConstants ==
    /\ NoContext \subseteq Inputs
    /\ TooLarge \subseteq Inputs
    /\ NoContext \cap TooLarge = {}
    /\ Lifetime \in Nat \ {0}

VARIABLES input,       \* what _input computes from the ticket now
          authorized,  \* the actors _authorized accepts now
          op,          \* classification_operations, by identity
          finished,    \* states of the classification.finished audit events
          calls,       \* provider calls made for each identity
          request,     \* progress of each POST
          reply        \* the answer given in the last step, if it gave one

classificationVars ==
    <<input, authorized, op, finished, calls, request, reply>>

Identity == [input : Inputs, config : Configs]

Terminal == {"succeeded", "stale", "failed", "unknown"}

Results == {"classified", "insufficient_context"}

\* What the provider call ends in: a result, a failure the provider reported,
\* or a failure that leaves open whether the call was carried out.
Failures == {"provider_failed", "provider_uncertain"}

Codes == Failures \cup {"authorization_changed", "input_changed",
                        "classification_unknown"}

\* left: the time until expires_at, 0 once it has passed.
Operation == [state : Terminal \cup {"in_progress"},
              actor : Actors,
              attempts : {0, 1},
              outcome : Results \cup {NoValue},
              error : Codes \cup {NoValue},
              left : 0 .. Lifetime]

\* A POST between its transactions: claimed, and then with the call's answer.
Running == [pc : {"claimed"}, actor : Actors, id : Identity]
           \cup [pc : {"answered"}, actor : Actors, id : Identity,
                 answer : Results \cup Failures]

Idle == [pc |-> "idle"]

View == {"not_requested", "current", "stale", "in_progress", "failed", "unknown"}

Reply == [view : View \cup {"forbidden", "input_too_large"},
          actor : Actors,
          id : Identity \cup {NoValue},
          result : Results \cup {NoValue}]

ASSUME NoValueAssumption ==
    /\ NoValue \notin Operation
    /\ NoValue \notin Reply
    /\ NoValue \notin Results

Claimed(id) == op[id] # NoValue

Expired(id) == op[id].state = "in_progress" /\ op[id].left = 0

-----------------------------------------------------------------------------
\* _view: how an operation is shown, by its stored state and the clock.
Shown(o) ==
    IF o.state = "in_progress" /\ o.left = 0 THEN "unknown"
    ELSE IF o.state = "succeeded" THEN "current"
    ELSE o.state

Answer(actor, id, o, view) ==
    [view |-> view, actor |-> actor, id |-> id,
     result |-> IF view = "current" THEN o.outcome ELSE NoValue]

Refusal(actor, why) ==
    [view |-> why, actor |-> actor, id |-> NoValue, result |-> NoValue]

Says(answer) == reply' = answer

Silent == reply' = NoValue

\* The update of a finished operation with its audit event (_audit).
Finish(id, o) ==
    /\ op' = [op EXCEPT ![id] = o]
    /\ finished' = [finished EXCEPT ![id] = Append(@, o.state)]

Ended(o, state, error) == [o EXCEPT !.state = state, !.error = error]

-----------------------------------------------------------------------------
ClassificationInit ==
    /\ input \in Inputs
    /\ authorized = Actors
    /\ op = [id \in Identity |-> NoValue]
    /\ finished = [id \in Identity |-> <<>>]
    /\ calls = [id \in Identity |-> 0]
    /\ request = [r \in Requests |-> Idle]
    /\ reply = NoValue

(***************************************************************************)
(* classify: the claiming transaction.                                     *)
(***************************************************************************)
\* The refusals before the claim: _ticket (403) and _input (422).
ClaimRefused(r, actor) ==
    /\ request[r] = Idle
    /\ \/ /\ actor \notin authorized
          /\ Says(Refusal(actor, "forbidden"))
       \/ /\ actor \in authorized
          /\ input \in TooLarge
          /\ Says(Refusal(actor, "input_too_large"))
    /\ UNCHANGED <<input, authorized, op, finished, calls, request>>

MayClaim(r, actor) ==
    /\ request[r] = Idle
    /\ actor \in authorized
    /\ input \notin TooLarge

\* The identity has its row: the answer is what the row shows, and an expired
\* claim is written down as unknown.
ClaimFinds(r, actor, config) ==
    LET id == [input |-> input, config |-> config] IN
    /\ MayClaim(r, actor)
    /\ Claimed(id)
    /\ IF Expired(id)
       THEN Finish(id, Ended(op[id], "unknown", "classification_unknown"))
       ELSE UNCHANGED <<op, finished>>
    /\ Says(Answer(actor, id, op[id], Shown(op[id])))
    /\ UNCHANGED <<input, authorized, calls, request>>

\* Mutation of ClaimStarts: an expired claim is taken over and called again.
ClaimStartsAgain(r, actor, config) ==
    LET id == [input |-> input, config |-> config] IN
    /\ MayClaim(r, actor)
    /\ Claimed(id) => Expired(id)
    /\ op' = [op EXCEPT ![id] =
                [state |-> "in_progress", actor |-> actor,
                 attempts |-> IF input \in NoContext THEN 0 ELSE 1,
                 outcome |-> NoValue, error |-> NoValue, left |-> Lifetime]]
    /\ request' = [request EXCEPT ![r] =
                     [pc |-> "claimed", actor |-> actor, id |-> id]]
    /\ Silent
    /\ UNCHANGED <<input, authorized, finished, calls>>

\* The row is inserted and committed; the request goes on to the provider.
ClaimStarts(r, actor, config) ==
    LET id == [input |-> input, config |-> config] IN
    /\ MayClaim(r, actor)
    /\ ~ Claimed(id)
    /\ op' = [op EXCEPT ![id] =
                [state |-> "in_progress", actor |-> actor,
                 attempts |-> IF input \in NoContext THEN 0 ELSE 1,
                 outcome |-> NoValue, error |-> NoValue, left |-> Lifetime]]
    /\ request' = [request EXCEPT ![r] =
                     [pc |-> "claimed", actor |-> actor, id |-> id]]
    /\ Silent
    /\ UNCHANGED <<input, authorized, finished, calls>>

(***************************************************************************)
(* classify: the provider call, outside any transaction.                   *)
(***************************************************************************)
Answered(r, answer) ==
    request' = [request EXCEPT ![r] =
                  [pc |-> "answered", actor |-> request[r].actor,
                   id |-> request[r].id, answer |-> answer]]

\* Without context the result is known and the provider is not asked.
Shortcut(r) ==
    /\ request[r].pc = "claimed"
    /\ request[r].id.input \in NoContext
    /\ Answered(r, "insufficient_context")
    /\ Silent
    /\ UNCHANGED <<input, authorized, op, finished, calls>>

CallProvider(r, answer) ==
    /\ request[r].pc = "claimed"
    /\ request[r].id.input \notin NoContext
    /\ calls' = [calls EXCEPT ![request[r].id] = @ + 1]
    /\ Answered(r, answer)
    /\ Silent
    /\ UNCHANGED <<input, authorized, op, finished>>

(***************************************************************************)
(* classify: the settling transaction.                                     *)
(***************************************************************************)
\* The provider call's own verdict on the claim.
ByAnswer(o, answer) ==
    IF answer = "provider_uncertain" THEN Ended(o, "unknown", answer)
    ELSE IF answer = "provider_failed" THEN Ended(o, "failed", answer)
    ELSE [o EXCEPT !.state = "succeeded", !.outcome = answer]

\* Mutation of Settled: the input is not compared again before the result is
\* published.
SettledUnchecked(o, q) ==
    IF q.actor \notin authorized THEN Ended(o, "failed", "authorization_changed")
    ELSE IF o.left = 0 THEN Ended(o, "unknown", "classification_unknown")
    ELSE ByAnswer(o, q.answer)

\* Mutation of Settled: the lifetime of the claim is not looked at again.
SettledLate(o, q) ==
    IF q.actor \notin authorized THEN Ended(o, "failed", "authorization_changed")
    ELSE IF input # q.id.input THEN Ended(o, "stale", "input_changed")
    ELSE ByAnswer(o, q.answer)

\* The state an open claim is settled in, for the first reason that applies.
Settled(o, q) ==
    IF q.actor \notin authorized THEN Ended(o, "failed", "authorization_changed")
    ELSE IF o.left = 0 THEN Ended(o, "unknown", "classification_unknown")
    ELSE IF input # q.id.input THEN Ended(o, "stale", "input_changed")
    ELSE ByAnswer(o, q.answer)

\* Mutation of Settle: the settling transaction does not look at the state of
\* the claim it comes back to.
SettleAnyway(r) ==
    LET q == request[r] IN
    /\ q.pc = "answered"
    /\ Finish(q.id, Settled(op[q.id], q))
    /\ Silent
    /\ request' = [request EXCEPT ![r] = Idle]
    /\ UNCHANGED <<input, authorized, calls>>

\* A claim another request has finished in the meantime is left as it is.
\* An actor who lost access gets no answer but the refusal.
Settle(r) ==
    LET q == request[r]
        now == IF op[q.id].state = "in_progress" THEN Settled(op[q.id], q)
               ELSE op[q.id]
    IN
    /\ q.pc = "answered"
    /\ IF op[q.id].state = "in_progress" THEN Finish(q.id, now)
       ELSE UNCHANGED <<op, finished>>
    /\ Says(IF q.actor \in authorized
               THEN Answer(q.actor, q.id, now, Shown(now))
               ELSE Refusal(q.actor, "forbidden"))
    /\ request' = [request EXCEPT ![r] = Idle]
    /\ UNCHANGED <<input, authorized, calls>>

\* The process dies, or a transaction fails, at any point of a POST; nothing
\* of the transaction remains and nobody continues the request.  A failure
\* after the claim's commit leaves the claim to expire.  (A commit that took
\* effect unacknowledged is Settle or ClaimStarts followed by this.)
RequestLost(r) ==
    /\ request[r] # Idle
    /\ request' = [request EXCEPT ![r] = Idle]
    /\ Silent
    /\ UNCHANGED <<input, authorized, op, finished, calls>>

(***************************************************************************)
(* read: an operation of the current identity, else the latest one, shown  *)
(* as stale.  Which one is the latest matters to no property: any may be.  *)
(***************************************************************************)
Read(r, actor, config) ==
    LET id == [input |-> input, config |-> config]
        matches == input \notin TooLarge /\ Claimed(id)
    IN
    /\ request[r] = Idle
    /\ \/ /\ actor \notin authorized
          /\ Says(Refusal(actor, "forbidden"))
       \/ /\ actor \in authorized
          /\ matches
          /\ Says(Answer(actor, id, op[id], Shown(op[id])))
       \/ /\ actor \in authorized
          /\ ~ matches
          /\ IF \E old \in Identity : Claimed(old)
             THEN \E old \in Identity :
                    Claimed(old) /\ Says(Answer(actor, old, op[old], "stale"))
             ELSE Says(Refusal(actor, "not_requested"))
    /\ UNCHANGED <<input, authorized, op, finished, calls, request>>

(***************************************************************************)
(* Around the application: writers of the ticket and of the memberships    *)
(* (each holds the row locks the transactions above take) and the clock.   *)
(***************************************************************************)
InputChanges(i) ==
    /\ i # input
    /\ input' = i
    /\ Silent
    /\ UNCHANGED <<authorized, op, finished, calls, request>>

AccessChanges(actor) ==
    /\ authorized' = IF actor \in authorized THEN authorized \ {actor}
                     ELSE authorized \cup {actor}
    /\ Silent
    /\ UNCHANGED <<input, op, finished, calls, request>>

Open == {id \in Identity : Claimed(id) /\ op[id].state = "in_progress"}

Tick ==
    /\ \E id \in Open : op[id].left > 0
    /\ op' = [id \in Identity |->
                IF id \in Open /\ op[id].left > 0
                THEN [op[id] EXCEPT !.left = @ - 1] ELSE op[id]]
    /\ Silent
    /\ UNCHANGED <<input, authorized, finished, calls, request>>

ClassificationNext ==
    \/ \E r \in Requests :
         \/ \E actor \in Actors :
              \/ ClaimRefused(r, actor)
              \/ \E config \in Configs :
                   \/ ClaimFinds(r, actor, config)
                   \/ ClaimStarts(r, actor, config)
                   \/ Read(r, actor, config)
         \/ Shortcut(r)
         \/ \E answer \in Failures \cup {"classified"} : CallProvider(r, answer)
         \/ Settle(r)
         \/ RequestLost(r)
    \/ \E i \in Inputs : InputChanges(i)
    \/ \E actor \in Actors : AccessChanges(actor)
    \/ Tick

ClassificationSpec ==
    ClassificationInit /\ [][ClassificationNext]_classificationVars

-----------------------------------------------------------------------------
\* Types of the operations, the requests and their replies, with the result
\* constraint of the table: a result exactly for a succeeded operation.
ClassificationTypeOK ==
    /\ input \in Inputs
    /\ authorized \subseteq Actors
    /\ op \in [Identity -> Operation \cup {NoValue}]
    /\ finished \in [Identity -> Seq(Terminal)]
    /\ calls \in [Identity -> Nat]
    /\ request \in [Requests -> Running \cup {Idle}]
    /\ reply \in Reply \cup {NoValue}
    /\ \A id \in Identity : Claimed(id) =>
         (op[id].state = "succeeded" <=> op[id].outcome # NoValue)

\* One call per identity (classify): concurrent requests, failures, expired
\* claims and dead processes never lead to a second provider call for the
\* same input and configuration, and no call is made without a claim that
\* counts it.
OneCallPerIdentity ==
    \A id \in Identity :
        calls[id] <= IF Claimed(id) THEN op[id].attempts ELSE 0

\* One audit event per finished operation, naming its state (_audit): the
\* request that settles late and the request that found the claim expired
\* may both try to finish it.
FinishedOnce ==
    \A id \in Identity :
        finished[id] = IF Claimed(id) /\ op[id].state \in Terminal
                       THEN <<op[id].state>> ELSE <<>>

\* A late completion cannot resurrect a finished operation (classify): once
\* it has a terminal state, the operation never changes again.
FinishedIsFinal ==
    [][\A id \in Identity :
          (Claimed(id) /\ op[id].state \in Terminal) => op'[id] = op[id]]_classificationVars

\* A suggestion is only given to an actor with access, for the opening
\* request as it is now, from a succeeded operation (read, classify): also
\* when access or input changed while the provider was called.
SuggestionIsFresh ==
    (reply # NoValue /\ reply.result # NoValue) =>
        /\ reply.actor \in authorized
        /\ reply.id.input = input
        /\ op[reply.id].state = "succeeded"
        /\ op[reply.id].outcome = reply.result

\* An operation as a reader is shown it, overdue once its lifetime is over.
Phase(id) ==
    IF ~ Claimed(id) THEN "none"
    ELSE IF op[id].state = "in_progress"
         THEN IF op[id].left = 0 THEN "overdue" ELSE "open"
         ELSE op[id].state

Operations == INSTANCE OperationLifecycle WITH
    Identities <- Identity,
    Unasked    <- {id \in Identity : id.input \in NoContext},
    phase      <- [id \in Identity |-> Phase(id)],
    asked      <- calls,
    events     <- finished

\* The two routes implement the operation's lifecycle, however requests race,
\* die and come back late: in particular a claim that a reader was shown as
\* unknown never turns into a suggestion, and a suggestion comes from a call
\* that was made (classify, _view).
ImplementsOperations == Operations!OperationsSpec
===============================================================================
