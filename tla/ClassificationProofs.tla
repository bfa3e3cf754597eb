------------------------- MODULE ClassificationProofs -------------------------
(***************************************************************************)
(* Proofs about Classification for any number of requests, actors, inputs  *)
(* and configurations, and any lifetime of a claim.                        *)
(*                                                                         *)
(* The properties rest on one fact the code never states: a claim has one  *)
(* request that works on it, from its insert to its settlement, and until  *)
(* then nobody but the expiry of the claim can finish it.                  *)
(***************************************************************************)
EXTENDS Classification, TLAPS

\* What is known of the claim a running request works on.
Working(r) ==
    LET q == request[r] IN
    q # Idle =>
        /\ Claimed(q.id)
        /\ op[q.id].state \in {"in_progress", "unknown"}
        /\ q.pc = "claimed" => calls[q.id] = 0
        /\ op[q.id].attempts = IF q.id.input \in NoContext THEN 0 ELSE 1

\* No two running requests work on one claim.
Sole(r, s) ==
    (request[r] # Idle /\ request[s] # Idle /\ request[r].id = request[s].id) => r = s

CInv ==
    /\ ClassificationTypeOK
    /\ OneCallPerIdentity
    /\ FinishedOnce
    /\ SuggestionIsFresh
    /\ \A r \in Requests : Working(r)
    /\ \A r, s \in Requests : Sole(r, s)

-----------------------------------------------------------------------------
USE DEF Claimed, Silent, Says

\* A running request is not idle, and has the fields of Running.
LEMMA RequestFacts ==
    ASSUME CInv
    PROVE  \A r \in Requests :
             /\ request[r] # Idle =>
                  /\ request[r].id \in Identity
                  /\ request[r].actor \in Actors
                  /\ request[r].pc \in {"claimed", "answered"}
                  /\ request[r].pc = "answered" =>
                       request[r].answer \in Results \cup Failures
             /\ request[r].pc \in {"claimed", "answered"} => request[r] # Idle
<1> TAKE r \in Requests
<1>1. request[r] \in Running \cup {Idle}
  BY DEF CInv, ClassificationTypeOK
<1> QED  BY <1>1 DEF Running, Idle

\* What an operation is shown as, and that only a succeeded one is current.
LEMMA ShownFacts ==
    ASSUME NEW o \in Operation
    PROVE  /\ Shown(o) \in View
           /\ Shown(o) = "current" <=> o.state = "succeeded"
  BY DEF Shown, Operation, Terminal, View

LEMMA AnswerFacts ==
    ASSUME NEW o \in Operation, NEW a \in Actors, NEW id \in Identity,
           NEW view \in View
    PROVE  /\ Answer(a, id, o, view) \in Reply
           /\ Answer(a, id, o, view).result # NoValue => view = "current"
           /\ Answer(a, id, o, view).actor = a
           /\ Answer(a, id, o, view).id = id
           /\ view = "current" => Answer(a, id, o, view).result = o.outcome
  BY DEF Answer, Reply, Operation

LEMMA RefusalFacts ==
    ASSUME NEW a \in Actors,
           NEW why \in {"forbidden", "input_too_large", "not_requested"}
    PROVE  /\ Refusal(a, why) \in Reply
           /\ Refusal(a, why).result = NoValue
  BY DEF Refusal, Reply, View

\* Steps that touch neither the operations nor the requests keep all but the
\* reply's part of the invariant.
LEMMA Undisturbed ==
    ASSUME CInv, UNCHANGED <<op, finished, calls, request>>,
           input' \in Inputs, authorized' \subseteq Actors,
           reply' \in Reply \cup {NoValue}, SuggestionIsFresh'
    PROVE  CInv'
<1>1. ClassificationTypeOK'
  BY DEF CInv, ClassificationTypeOK
<1>2. OneCallPerIdentity' /\ FinishedOnce'
  BY DEF CInv, OneCallPerIdentity, FinishedOnce
<1>3. \A r \in Requests : Working(r)'
  BY DEF CInv, Working
<1>4. \A r, s \in Requests : Sole(r, s)'
  BY DEF CInv, Sole
<1> QED  BY <1>1, <1>2, <1>3, <1>4 DEF CInv

-----------------------------------------------------------------------------
\* The identity a request of a process with this configuration works on.
LEMMA CurrentIdentity ==
    ASSUME CInv, NEW config \in Configs
    PROVE  [input |-> input, config |-> config] \in Identity
  BY DEF CInv, ClassificationTypeOK, Identity

\* A claim that is finished, with its audit event, by anyone: what remains to
\* be shown is the part of the requests and of the reply.
LEMMA Finishing ==
    ASSUME CInv, NEW id \in Identity, NEW o \in Operation,
           Claimed(id), op[id].state = "in_progress",
           o.state \in Terminal, o.attempts = op[id].attempts,
           o.state = "succeeded" <=> o.outcome # NoValue,
           Finish(id, o), UNCHANGED calls
    PROVE  /\ op' \in [Identity -> Operation \cup {NoValue}]
           /\ finished' \in [Identity -> Seq(Terminal)]
           /\ OneCallPerIdentity' /\ FinishedOnce'
           /\ \A i \in Identity : Claimed(i)' =>
                (op'[i].state = "succeeded" <=> op'[i].outcome # NoValue)
           /\ op'[id] = o
           /\ \A i \in Identity \ {id} : op'[i] = op[i]
<1>1. /\ op' = [op EXCEPT ![id] = o]
      /\ finished' = [finished EXCEPT ![id] = Append(@, o.state)]
      /\ op \in [Identity -> Operation \cup {NoValue}]
      /\ finished \in [Identity -> Seq(Terminal)]
  BY DEF Finish, CInv, ClassificationTypeOK
<1>2. /\ op' \in [Identity -> Operation \cup {NoValue}]
      /\ finished' \in [Identity -> Seq(Terminal)]
      /\ op'[id] = o
      /\ \A i \in Identity \ {id} : op'[i] = op[i]
  BY <1>1
<1>3. OneCallPerIdentity'
  BY <1>2, NoValueAssumption DEF CInv, OneCallPerIdentity
<1>4. finished[id] = <<>>
  BY DEF CInv, FinishedOnce, Terminal
<1>5. finished'[id] = <<o.state>>
  BY <1>1, <1>4
<1>6. FinishedOnce'
  BY <1>1, <1>2, <1>5, NoValueAssumption DEF CInv, FinishedOnce
<1>7. \A i \in Identity : Claimed(i)' =>
         (op'[i].state = "succeeded" <=> op'[i].outcome # NoValue)
  BY <1>2 DEF CInv, ClassificationTypeOK
<1> QED  BY <1>2, <1>3, <1>6, <1>7

LEMMA ClaimRefusedStep ==
    ASSUME CInv, NEW r \in Requests, NEW actor \in Actors, ClaimRefused(r, actor)
    PROVE  CInv'
<1>1. /\ reply' \in Reply /\ reply'.result = NoValue
      /\ UNCHANGED <<input, authorized, op, finished, calls, request>>
  BY RefusalFacts DEF ClaimRefused
<1>2. SuggestionIsFresh'
  BY <1>1 DEF SuggestionIsFresh
<1> QED  BY <1>1, <1>2, Undisturbed DEF CInv, ClassificationTypeOK

\* What the row of the current identity shows is fresh.
LEMMA ShowingCurrent ==
    ASSUME CInv, NEW actor \in authorized, NEW id \in Identity,
           id.input = input, Claimed(id),
           reply' = Answer(actor, id, op[id], Shown(op[id])),
           UNCHANGED <<input, authorized>>,
           op[id].state = "succeeded" => op'[id] = op[id]
    PROVE  reply' \in Reply /\ SuggestionIsFresh'
<1>1. op[id] \in Operation /\ actor \in Actors
  BY DEF CInv, ClassificationTypeOK
<1>2. Shown(op[id]) \in View
  BY <1>1, ShownFacts
<1>3. /\ reply' \in Reply
      /\ reply'.actor = actor
      /\ reply'.id = id
      /\ reply'.result # NoValue => Shown(op[id]) = "current"
      /\ Shown(op[id]) = "current" => reply'.result = op[id].outcome
  BY <1>1, <1>2, AnswerFacts
<1>4. Shown(op[id]) = "current" => op[id].state = "succeeded"
  BY <1>1, ShownFacts
<1> QED  BY <1>3, <1>4 DEF SuggestionIsFresh

LEMMA ReadStep ==
    ASSUME CInv, NEW r \in Requests, NEW actor \in Actors, NEW config \in Configs,
           Read(r, actor, config)
    PROVE  CInv'
<1> DEFINE id == [input |-> input, config |-> config]
<1>1. id \in Identity /\ id.input = input
  BY CurrentIdentity
<1>2. UNCHANGED <<input, authorized, op, finished, calls, request>>
  BY DEF Read
<1>3. reply' \in Reply /\ SuggestionIsFresh'
  <2>1. CASE reply' = Refusal(actor, "forbidden") \/ reply' = Refusal(actor, "not_requested")
    BY <2>1, RefusalFacts DEF SuggestionIsFresh
  <2>2. CASE /\ actor \in authorized
             /\ Claimed(id)
             /\ reply' = Answer(actor, id, op[id], Shown(op[id]))
    <3> HIDE DEF id
    <3> QED  BY <1>1, <1>2, <2>2, ShowingCurrent
  <2>3. ASSUME NEW old \in Identity, Claimed(old),
               reply' = Answer(actor, old, op[old], "stale")
        PROVE  reply' \in Reply /\ SuggestionIsFresh'
    <3>1. op[old] \in Operation /\ "stale" \in View
      BY <2>3 DEF CInv, ClassificationTypeOK, View
    <3>2. reply' \in Reply /\ reply'.result = NoValue
      BY <2>3, <3>1, AnswerFacts
    <3> QED  BY <3>2 DEF SuggestionIsFresh
  <2> QED  BY <2>1, <2>2, <2>3 DEF Read
<1> QED  BY <1>2, <1>3, Undisturbed DEF CInv, ClassificationTypeOK

LEMMA ClaimFindsStep ==
    ASSUME CInv, NEW r \in Requests, NEW actor \in Actors, NEW config \in Configs,
           ClaimFinds(r, actor, config)
    PROVE  CInv'
<1> DEFINE id == [input |-> input, config |-> config]
<1>1. id \in Identity /\ id.input = input
  BY CurrentIdentity
<1>2. /\ actor \in authorized
      /\ Claimed(id)
      /\ reply' = Answer(actor, id, op[id], Shown(op[id]))
      /\ UNCHANGED <<input, authorized, calls, request>>
      /\ IF Expired(id)
         THEN Finish(id, Ended(op[id], "unknown", "classification_unknown"))
         ELSE UNCHANGED <<op, finished>>
  BY DEF ClaimFinds, MayClaim
<1> HIDE DEF id
<1>3. op[id] \in Operation
  BY <1>1, <1>2 DEF CInv, ClassificationTypeOK
<1>4. CASE ~ Expired(id)
  <2>1. UNCHANGED <<op, finished>>
    BY <1>2, <1>4
  <2>2. reply' \in Reply /\ SuggestionIsFresh'
    BY <1>1, <1>2, <2>1, ShowingCurrent
  <2> QED  BY <1>2, <2>1, <2>2, Undisturbed DEF CInv, ClassificationTypeOK
<1>5. CASE Expired(id)
  <2> DEFINE o == Ended(op[id], "unknown", "classification_unknown")
  <2>1. /\ Finish(id, o)
        /\ op[id].state = "in_progress"
    BY <1>2, <1>5 DEF Expired
  <2>2. op[id].outcome = NoValue
    BY <1>1, <1>2, <2>1 DEF CInv, ClassificationTypeOK
  <2>3. /\ o \in Operation
        /\ o.state = "unknown" /\ o.attempts = op[id].attempts
        /\ o.outcome = NoValue
    BY <1>3, <2>2 DEF Ended, Operation, Terminal, Codes
  <2> HIDE DEF o
  <2>4. /\ op' \in [Identity -> Operation \cup {NoValue}]
        /\ finished' \in [Identity -> Seq(Terminal)]
        /\ OneCallPerIdentity' /\ FinishedOnce'
        /\ \A i \in Identity : Claimed(i)' =>
             (op'[i].state = "succeeded" <=> op'[i].outcome # NoValue)
        /\ op'[id] = o
        /\ \A i \in Identity \ {id} : op'[i] = op[i]
    BY <1>1, <1>2, <2>1, <2>3, Finishing DEF Terminal
  <2>5. reply' \in Reply /\ SuggestionIsFresh'
    BY <1>1, <1>2, <2>1, ShowingCurrent
  <2>6. ClassificationTypeOK'
    BY <1>2, <2>4, <2>5 DEF CInv, ClassificationTypeOK
  <2>7. ASSUME NEW s \in Requests PROVE Working(s)'
    <3>1. request[s] # Idle => request[s].id \in Identity
      BY RequestFacts
    <3>2. Working(s)
      BY DEF CInv
    <3> QED  BY <1>2, <2>3, <2>4, <3>1, <3>2, NoValueAssumption DEF Working
  <2>8. \A s, t \in Requests : Sole(s, t)'
    BY <1>2 DEF CInv, Sole
  <2> QED  BY <2>4, <2>5, <2>6, <2>7, <2>8 DEF CInv
<1> QED  BY <1>4, <1>5

LEMMA ClaimStartsStep ==
    ASSUME CInv, NEW r \in Requests, NEW actor \in Actors, NEW config \in Configs,
           ClaimStarts(r, actor, config)
    PROVE  CInv'
<1> DEFINE id == [input |-> input, config |-> config]
           o == [state |-> "in_progress", actor |-> actor,
                 attempts |-> IF input \in NoContext THEN 0 ELSE 1,
                 outcome |-> NoValue, error |-> NoValue, left |-> Lifetime]
           q == [pc |-> "claimed", actor |-> actor, id |-> id]
<1>1. id \in Identity /\ id.input = input
  BY CurrentIdentity
<1>2. /\ ~ Claimed(id)
      /\ op' = [op EXCEPT ![id] = o]
      /\ request' = [request EXCEPT ![r] = q]
      /\ reply' = NoValue
      /\ UNCHANGED <<input, authorized, finished, calls>>
      /\ request[r] = Idle
  BY DEF ClaimStarts, MayClaim
<1>3. /\ o \in Operation /\ o.state = "in_progress" /\ o.outcome = NoValue
      /\ o.attempts = IF id.input \in NoContext THEN 0 ELSE 1
  BY <1>1, ClassificationConstants DEF Operation
<1>4. /\ q \in Running /\ q # Idle /\ q.id = id
  BY <1>1 DEF Running, Idle
<1> HIDE DEF id, o, q
<1>5. /\ op \in [Identity -> Operation \cup {NoValue}]
      /\ request \in [Requests -> Running \cup {Idle}]
  BY DEF CInv, ClassificationTypeOK
<1>6. /\ op' \in [Identity -> Operation \cup {NoValue}]
      /\ op'[id] = o
      /\ \A i \in Identity \ {id} : op'[i] = op[i]
      /\ request' \in [Requests -> Running \cup {Idle}]
      /\ request'[r] = q
      /\ \A s \in Requests \ {r} : request'[s] = request[s]
  BY <1>1, <1>2, <1>3, <1>4, <1>5
<1>7. ClassificationTypeOK'
  BY <1>2, <1>3, <1>6 DEF CInv, ClassificationTypeOK
<1>8. calls[id] = 0
  BY <1>1, <1>2 DEF CInv, ClassificationTypeOK, OneCallPerIdentity
<1>9. OneCallPerIdentity'
  BY <1>2, <1>3, <1>6, <1>8, NoValueAssumption DEF CInv, OneCallPerIdentity
<1>10. FinishedOnce'
  BY <1>1, <1>2, <1>3, <1>6 DEF CInv, FinishedOnce, Terminal
<1>11. SuggestionIsFresh'
  BY <1>2 DEF SuggestionIsFresh
<1>12. \A s \in Requests : request[s] # Idle => /\ request[s].id \in Identity
                                                /\ request[s].id # id
  BY <1>2, RequestFacts DEF CInv, Working
<1>13. ASSUME NEW s \in Requests PROVE Working(s)'
  <2>1. CASE s = r
    BY <1>1, <1>2, <1>3, <1>4, <1>6, <1>8, <2>1, NoValueAssumption DEF Working
  <2>2. CASE s # r
    BY <1>2, <1>6, <1>12, <2>2 DEF CInv, Working
  <2> QED  BY <2>1, <2>2
<1>14. ASSUME NEW s \in Requests, NEW t \in Requests PROVE Sole(s, t)'
  BY <1>4, <1>6, <1>12 DEF CInv, Sole
<1> QED  BY <1>7, <1>9, <1>10, <1>11, <1>13, <1>14 DEF CInv

\* The call is over: the request goes from claimed to answered.
LEMMA Answering ==
    ASSUME CInv, NEW r \in Requests, NEW answer \in Results \cup Failures,
           request[r].pc = "claimed", Answered(r, answer)
    PROVE  /\ request' \in [Requests -> Running \cup {Idle}]
           /\ request[r] # Idle /\ request'[r] # Idle
           /\ request'[r].id = request[r].id /\ request'[r].pc = "answered"
           /\ \A s \in Requests \ {r} : request'[s] = request[s]
           /\ \A s, t \in Requests : Sole(s, t)'
<1> DEFINE q == [pc |-> "answered", actor |-> request[r].actor,
                 id |-> request[r].id, answer |-> answer]
<1>1. request \in [Requests -> Running \cup {Idle}]
  BY DEF CInv, ClassificationTypeOK
<1>2. request[r] # Idle /\ request[r].id \in Identity /\ request[r].actor \in Actors
  BY RequestFacts
<1>3. q \in Running /\ q # Idle /\ q.id = request[r].id /\ q.pc = "answered"
  BY <1>2 DEF Running, Idle
<1>4. request' = [request EXCEPT ![r] = q]
  BY DEF Answered
<1> HIDE DEF q
<1>5. /\ request' \in [Requests -> Running \cup {Idle}]
      /\ request'[r] = q
      /\ \A s \in Requests \ {r} : request'[s] = request[s]
  BY <1>1, <1>3, <1>4
<1>6. ASSUME NEW s \in Requests, NEW t \in Requests PROVE Sole(s, t)'
  BY <1>2, <1>3, <1>5 DEF CInv, Sole
<1> QED  BY <1>2, <1>3, <1>5, <1>6

LEMMA ShortcutStep ==
    ASSUME CInv, NEW r \in Requests, Shortcut(r)
    PROVE  CInv'
<1>1. /\ request[r].pc = "claimed"
      /\ Answered(r, "insufficient_context")
      /\ reply' = NoValue
      /\ UNCHANGED <<input, authorized, op, finished, calls>>
  BY DEF Shortcut
<1>2. /\ request' \in [Requests -> Running \cup {Idle}]
      /\ request[r] # Idle /\ request'[r] # Idle
      /\ request'[r].id = request[r].id /\ request'[r].pc = "answered"
      /\ \A s \in Requests \ {r} : request'[s] = request[s]
      /\ \A s, t \in Requests : Sole(s, t)'
  BY <1>1, Answering DEF Results
<1>3. ClassificationTypeOK'
  BY <1>1, <1>2 DEF CInv, ClassificationTypeOK
<1>4. OneCallPerIdentity' /\ FinishedOnce' /\ SuggestionIsFresh'
  BY <1>1 DEF CInv, OneCallPerIdentity, FinishedOnce, SuggestionIsFresh
<1>5. ASSUME NEW s \in Requests PROVE Working(s)'
  BY <1>1, <1>2 DEF CInv, Working
<1> QED  BY <1>2, <1>3, <1>4, <1>5 DEF CInv

LEMMA CallProviderStep ==
    ASSUME CInv, NEW r \in Requests, NEW answer \in Failures \cup {"classified"},
           CallProvider(r, answer)
    PROVE  CInv'
<1> DEFINE id == request[r].id
<1>1. /\ request[r].pc = "claimed"
      /\ id.input \notin NoContext
      /\ calls' = [calls EXCEPT ![id] = @ + 1]
      /\ Answered(r, answer)
      /\ reply' = NoValue
      /\ UNCHANGED <<input, authorized, op, finished>>
  BY DEF CallProvider
<1>2. /\ request' \in [Requests -> Running \cup {Idle}]
      /\ request[r] # Idle /\ request'[r] # Idle
      /\ request'[r].id = id /\ request'[r].pc = "answered"
      /\ \A s \in Requests \ {r} : request'[s] = request[s]
      /\ \A s, t \in Requests : Sole(s, t)'
  BY <1>1, Answering DEF Results
<1>3. id \in Identity
  BY <1>2, RequestFacts
<1>4. /\ Claimed(id)
      /\ calls[id] = 0
      /\ op[id].attempts = 1
      /\ op[id].state \in {"in_progress", "unknown"}
  BY <1>1, <1>2 DEF CInv, Working
<1> HIDE DEF id
<1>5. /\ calls' \in [Identity -> Nat]
      /\ calls'[id] = 1
      /\ \A i \in Identity \ {id} : calls'[i] = calls[i]
  BY <1>1, <1>3, <1>4 DEF CInv, ClassificationTypeOK
<1>6. ClassificationTypeOK'
  BY <1>1, <1>2, <1>5 DEF CInv, ClassificationTypeOK
<1>7. OneCallPerIdentity'
  BY <1>1, <1>4, <1>5 DEF CInv, OneCallPerIdentity
<1>8. FinishedOnce' /\ SuggestionIsFresh'
  BY <1>1 DEF CInv, FinishedOnce, SuggestionIsFresh
<1>9. ASSUME NEW s \in Requests PROVE Working(s)'
  <2>1. CASE s = r
    BY <1>1, <1>2, <1>4, <2>1 DEF CInv, Working
  <2>2. CASE s # r /\ request[s] # Idle
    <3>1. request[s].id \in Identity \ {id}
      BY <1>2, <2>2, RequestFacts DEF CInv, Sole, id
    <3> QED  BY <1>1, <1>2, <1>5, <2>2, <3>1 DEF CInv, Working
  <2>3. CASE s # r /\ request[s] = Idle
    BY <1>2, <2>3 DEF Working
  <2> QED  BY <2>1, <2>2, <2>3
<1> QED  BY <1>2, <1>6, <1>7, <1>8, <1>9 DEF CInv

\* The settled operation is a finished one, with a result only if the actor
\* still has access and the input is still the one classified.
LEMMA SettledFacts ==
    ASSUME NEW o \in Operation, o.state = "in_progress", o.outcome = NoValue,
           NEW q, q.answer \in Results \cup Failures
    PROVE  /\ Settled(o, q) \in Operation
           /\ Settled(o, q).state \in Terminal
           /\ Settled(o, q).attempts = o.attempts
           /\ Settled(o, q).state = "succeeded" <=> Settled(o, q).outcome # NoValue
           /\ Settled(o, q).state = "succeeded" =>
                q.actor \in authorized /\ input = q.id.input
<1>1. ASSUME NEW state \in Terminal \ {"succeeded"}, NEW code \in Codes
      PROVE  /\ Ended(o, state, code) \in Operation
             /\ Ended(o, state, code).state = state
             /\ Ended(o, state, code).attempts = o.attempts
             /\ Ended(o, state, code).outcome = NoValue
  BY DEF Ended, Operation
<1>2. CASE q.answer \in Results
  <2> DEFINE won == [o EXCEPT !.state = "succeeded", !.outcome = q.answer]
  <2>1. /\ won \in Operation /\ won.state = "succeeded" /\ won.outcome # NoValue
        /\ won.attempts = o.attempts
    BY <1>2, NoValueAssumption DEF Operation, Terminal
  <2>2. ByAnswer(o, q.answer) = won
    BY <1>2 DEF ByAnswer, Results
  <2> HIDE DEF won
  <2> QED  BY <1>1, <2>1, <2>2 DEF Settled, Terminal, Codes
<1>3. CASE q.answer \in Failures
  <2>1. \/ ByAnswer(o, q.answer) = Ended(o, "unknown", q.answer)
        \/ ByAnswer(o, q.answer) = Ended(o, "failed", q.answer)
    BY <1>3 DEF ByAnswer, Failures
  <2> QED  BY <1>1, <1>3, <2>1 DEF Settled, Terminal, Codes
<1> QED  BY <1>2, <1>3

\* The request is over, answered or lost.
LEMMA Leaving ==
    ASSUME CInv, NEW r \in Requests, request' = [request EXCEPT ![r] = Idle]
    PROVE  /\ request' \in [Requests -> Running \cup {Idle}]
           /\ request'[r] = Idle
           /\ \A s \in Requests \ {r} : request'[s] = request[s]
           /\ \A s, t \in Requests : Sole(s, t)'
<1>1. /\ request' \in [Requests -> Running \cup {Idle}]
      /\ request'[r] = Idle
      /\ \A s \in Requests \ {r} : request'[s] = request[s]
  BY DEF CInv, ClassificationTypeOK
<1>2. ASSUME NEW s \in Requests, NEW t \in Requests PROVE Sole(s, t)'
  BY <1>1 DEF CInv, Sole
<1> QED  BY <1>1, <1>2

LEMMA SettleStep ==
    ASSUME CInv, NEW r \in Requests, Settle(r)
    PROVE  CInv'
<1> DEFINE q == request[r]
           id == request[r].id
           now == IF op[id].state = "in_progress" THEN Settled(op[id], q) ELSE op[id]
<1>1. /\ q.pc = "answered"
      /\ IF op[id].state = "in_progress" THEN Finish(id, now)
         ELSE UNCHANGED <<op, finished>>
      /\ reply' = IF q.actor \in authorized THEN Answer(q.actor, id, now, Shown(now))
                  ELSE Refusal(q.actor, "forbidden")
      /\ request' = [request EXCEPT ![r] = Idle]
      /\ UNCHANGED <<input, authorized, calls>>
  BY DEF Settle
<1>2. /\ q # Idle /\ id \in Identity /\ q.actor \in Actors /\ q.id = id
      /\ q.answer \in Results \cup Failures
  BY <1>1, RequestFacts
<1>3. /\ Claimed(id) /\ op[id] \in Operation
      /\ op[id].state \in {"in_progress", "unknown"}
      /\ op[id].outcome = NoValue
  BY <1>2 DEF CInv, ClassificationTypeOK, Working
<1>4. /\ now \in Operation
      /\ now.state = "succeeded" => q.actor \in authorized /\ input = id.input
      /\ now.state \in Terminal
      /\ now.attempts = op[id].attempts
      /\ now.state = "succeeded" <=> now.outcome # NoValue
  <2>1. CASE op[id].state = "in_progress"
    BY <1>2, <1>3, <2>1, SettledFacts
  <2>2. CASE op[id].state = "unknown"
    BY <1>3, <2>2 DEF Terminal
  <2> QED  BY <1>3, <2>1, <2>2
<1>5. /\ request' \in [Requests -> Running \cup {Idle}]
      /\ request'[r] = Idle
      /\ \A s \in Requests \ {r} : request'[s] = request[s]
      /\ \A s, t \in Requests : Sole(s, t)'
  BY <1>1, Leaving
<1>6. op[id].state # "in_progress" => now = op[id]
  OBVIOUS
<1> HIDE DEF now
<1>7. /\ op' \in [Identity -> Operation \cup {NoValue}]
      /\ finished' \in [Identity -> Seq(Terminal)]
      /\ OneCallPerIdentity' /\ FinishedOnce'
      /\ \A i \in Identity : Claimed(i)' =>
           (op'[i].state = "succeeded" <=> op'[i].outcome # NoValue)
      /\ op'[id] = now
      /\ \A i \in Identity \ {id} : op'[i] = op[i]
  <2>1. CASE op[id].state = "in_progress"
    BY <1>1, <1>2, <1>3, <1>4, <2>1, Finishing
  <2>2. CASE op[id].state # "in_progress"
    BY <1>1, <1>6, <2>2
       DEF CInv, ClassificationTypeOK, OneCallPerIdentity, FinishedOnce
  <2> QED  BY <2>1, <2>2
<1>8. reply' \in Reply /\ SuggestionIsFresh'
  <2>1. CASE q.actor \in authorized
    <3>1. Shown(now) \in View /\ (Shown(now) = "current" <=> now.state = "succeeded")
      BY <1>4, ShownFacts
    <3>2. /\ reply' \in Reply
          /\ reply'.actor = q.actor
          /\ reply'.id = id
          /\ reply'.result # NoValue => Shown(now) = "current"
          /\ Shown(now) = "current" => reply'.result = now.outcome
      BY <1>1, <1>2, <1>4, <2>1, <3>1, AnswerFacts
    <3> QED  BY <1>1, <1>4, <1>7, <2>1, <3>1, <3>2 DEF SuggestionIsFresh
  <2>2. CASE q.actor \notin authorized
    BY <1>1, <1>2, <2>2, RefusalFacts DEF SuggestionIsFresh
  <2> QED  BY <2>1, <2>2
<1>9. ClassificationTypeOK'
  BY <1>1, <1>5, <1>7, <1>8 DEF CInv, ClassificationTypeOK
<1>10. ASSUME NEW s \in Requests PROVE Working(s)'
  <2>1. CASE s = r \/ request[s] = Idle
    BY <1>5, <2>1 DEF Working
  <2>2. CASE s # r /\ request[s] # Idle
    <3>1. request[s].id \in Identity \ {id}
      BY <1>2, <2>2, RequestFacts DEF CInv, Sole
    <3> QED  BY <1>1, <1>5, <1>7, <2>2, <3>1 DEF CInv, Working
  <2> QED  BY <2>1, <2>2
<1> QED  BY <1>5, <1>7, <1>8, <1>9, <1>10 DEF CInv

LEMMA RequestLostStep ==
    ASSUME CInv, NEW r \in Requests, RequestLost(r)
    PROVE  CInv'
<1>1. /\ request' = [request EXCEPT ![r] = Idle]
      /\ reply' = NoValue
      /\ UNCHANGED <<input, authorized, op, finished, calls>>
  BY DEF RequestLost
<1>2. /\ request' \in [Requests -> Running \cup {Idle}]
      /\ request'[r] = Idle
      /\ \A s \in Requests \ {r} : request'[s] = request[s]
      /\ \A s, t \in Requests : Sole(s, t)'
  BY <1>1, Leaving
<1>3. ClassificationTypeOK'
  BY <1>1, <1>2 DEF CInv, ClassificationTypeOK
<1>4. OneCallPerIdentity' /\ FinishedOnce' /\ SuggestionIsFresh'
  BY <1>1 DEF CInv, OneCallPerIdentity, FinishedOnce, SuggestionIsFresh
<1>5. \A s \in Requests : Working(s)'
  BY <1>1, <1>2 DEF CInv, Working
<1> QED  BY <1>2, <1>3, <1>4, <1>5 DEF CInv

LEMMA TickStep ==
    ASSUME CInv, Tick
    PROVE  CInv'
<1>1. /\ reply' = NoValue
      /\ UNCHANGED <<input, authorized, finished, calls, request>>
      /\ op' = [i \in Identity |->
                  IF i \in Open /\ op[i].left > 0
                  THEN [op[i] EXCEPT !.left = @ - 1] ELSE op[i]]
  BY DEF Tick
<1>2. ASSUME NEW i \in Identity
      PROVE  /\ op'[i] \in Operation \cup {NoValue}
             /\ Claimed(i)' <=> Claimed(i)
             /\ Claimed(i) => /\ op'[i].state = op[i].state
                              /\ op'[i].outcome = op[i].outcome
                              /\ op'[i].attempts = op[i].attempts
  <2>1. op[i] \in Operation \cup {NoValue}
    BY DEF CInv, ClassificationTypeOK
  <2>2. CASE i \in Open /\ op[i].left > 0
    <3>1. op[i] \in Operation
      BY <2>1, <2>2 DEF Open
    <3> DEFINE left == op[i].left - 1
    <3>2. left \in 0 .. Lifetime
      BY <2>2, <3>1, ClassificationConstants DEF Operation
    <3>3. op'[i] = [op[i] EXCEPT !.left = left]
      BY <1>1, <2>2
    <3> HIDE DEF left
    <3>4. /\ op'[i] \in Operation
          /\ op'[i].state = op[i].state /\ op'[i].outcome = op[i].outcome
          /\ op'[i].attempts = op[i].attempts
      BY <3>1, <3>2, <3>3 DEF Operation
    <3> QED  BY <3>1, <3>4, NoValueAssumption
  <2>3. CASE ~ (i \in Open /\ op[i].left > 0)
    BY <1>1, <2>1, <2>3
  <2> QED  BY <2>2, <2>3
<1>3. ClassificationTypeOK'
  <2>1. op' \in [Identity -> Operation \cup {NoValue}]
    BY <1>1, <1>2
  <2> QED  BY <1>1, <1>2, <2>1 DEF CInv, ClassificationTypeOK
<1>4. OneCallPerIdentity' /\ FinishedOnce' /\ SuggestionIsFresh'
  BY <1>1, <1>2 DEF CInv, OneCallPerIdentity, FinishedOnce, SuggestionIsFresh
<1>5. ASSUME NEW s \in Requests PROVE Working(s)'
  <2>1. request[s] # Idle => request[s].id \in Identity
    BY RequestFacts
  <2> QED  BY <1>1, <1>2, <2>1 DEF CInv, Working
<1>6. \A s, t \in Requests : Sole(s, t)'
  BY <1>1 DEF CInv, Sole
<1> QED  BY <1>3, <1>4, <1>5, <1>6 DEF CInv

\* The environment: writers of the ticket and of the memberships.
LEMMA EnvironmentStep ==
    ASSUME CInv,
           \/ \E i \in Inputs : InputChanges(i)
           \/ \E actor \in Actors : AccessChanges(actor)
    PROVE  CInv'
<1>1. /\ reply' = NoValue
      /\ UNCHANGED <<op, finished, calls, request>>
      /\ input' \in Inputs
      /\ authorized' \subseteq Actors
  BY DEF InputChanges, AccessChanges, CInv, ClassificationTypeOK
<1>2. SuggestionIsFresh'
  BY <1>1 DEF SuggestionIsFresh
<1> QED  BY <1>1, <1>2, Undisturbed

-----------------------------------------------------------------------------
\* The inductive invariant holds in every state of the classification routes.
THEOREM ClassificationInvariant == ClassificationSpec => []CInv
<1>1. ClassificationInit => CInv
  <2> SUFFICES ASSUME ClassificationInit PROVE CInv
    OBVIOUS
  <2>1. ClassificationTypeOK
    BY DEF ClassificationInit, ClassificationTypeOK
  <2>2. OneCallPerIdentity /\ FinishedOnce /\ SuggestionIsFresh
    BY DEF ClassificationInit, OneCallPerIdentity, FinishedOnce, SuggestionIsFresh
  <2>3. \A r \in Requests : Working(r)
    BY DEF ClassificationInit, Working
  <2>4. \A r, s \in Requests : Sole(r, s)
    BY DEF ClassificationInit, Sole
  <2> QED  BY <2>1, <2>2, <2>3, <2>4 DEF CInv
<1>2. CInv /\ [ClassificationNext]_classificationVars => CInv'
  <2> SUFFICES ASSUME CInv, [ClassificationNext]_classificationVars PROVE CInv'
    OBVIOUS
  <2>1. CASE UNCHANGED classificationVars
    <3>1. UNCHANGED <<input, authorized, op, finished, calls, request, reply>>
      BY <2>1 DEF classificationVars
    <3>2. SuggestionIsFresh'
      BY <3>1 DEF CInv, SuggestionIsFresh
    <3> QED  BY <3>1, <3>2, Undisturbed DEF CInv, ClassificationTypeOK
  <2>2. ASSUME NEW r \in Requests, NEW actor \in Actors, ClaimRefused(r, actor)
        PROVE  CInv'
    BY <2>2, ClaimRefusedStep
  <2>3. ASSUME NEW r \in Requests, NEW actor \in Actors, NEW config \in Configs,
               \/ ClaimFinds(r, actor, config)
               \/ ClaimStarts(r, actor, config)
               \/ Read(r, actor, config)
        PROVE  CInv'
    BY <2>3, ClaimFindsStep, ClaimStartsStep, ReadStep
  <2>4. ASSUME NEW r \in Requests, Shortcut(r) \/ Settle(r) \/ RequestLost(r)
        PROVE  CInv'
    BY <2>4, ShortcutStep, SettleStep, RequestLostStep
  <2>5. ASSUME NEW r \in Requests, NEW answer \in Failures \cup {"classified"},
               CallProvider(r, answer)
        PROVE  CInv'
    BY <2>5, CallProviderStep
  <2>6. CASE Tick
    BY <2>6, TickStep
  <2>7. CASE \/ \E i \in Inputs : InputChanges(i)
             \/ \E actor \in Actors : AccessChanges(actor)
    BY <2>7, EnvironmentStep
  <2> QED  BY <2>1, <2>2, <2>3, <2>4, <2>5, <2>6, <2>7 DEF ClassificationNext
<1> QED  BY <1>1, <1>2, PTL DEF ClassificationSpec

\* Operations, requests and replies keep their types, and a result is stored
\* exactly with a succeeded operation (models.py, result_pair).
THEOREM ClassificationTypes == ClassificationSpec => []ClassificationTypeOK
<1>1. CInv => ClassificationTypeOK
  BY DEF CInv
<1> QED  BY <1>1, ClassificationInvariant, PTL

\* classify never leads to a second provider call for one identity, whatever
\* the number of requests, their interleaving and the processes that die.
THEOREM CallsBounded == ClassificationSpec => []OneCallPerIdentity
<1>1. CInv => OneCallPerIdentity
  BY DEF CInv
<1> QED  BY <1>1, ClassificationInvariant, PTL

\* Every finished operation has one classification.finished audit event, of
\* its own state.
THEOREM FinishAudited == ClassificationSpec => []FinishedOnce
<1>1. CInv => FinishedOnce
  BY DEF CInv
<1> QED  BY <1>1, ClassificationInvariant, PTL

\* read and classify give a suggestion only to an actor who has access, and
\* only for the opening request as it is.
THEOREM SuggestionsFresh == ClassificationSpec => []SuggestionIsFresh
<1>1. CInv => SuggestionIsFresh
  BY DEF CInv
<1> QED  BY <1>1, ClassificationInvariant, PTL

\* A finished operation is never changed again, by a late completion or by
\* anyone else.
THEOREM FinishStands == ClassificationSpec => FinishedIsFinal
<1>1. CInv /\ [ClassificationNext]_classificationVars =>
        [\A id \in Identity :
            (Claimed(id) /\ op[id].state \in Terminal) => op'[id] = op[id]]_classificationVars
  <2> SUFFICES ASSUME CInv, ClassificationNext, NEW id \in Identity,
                      Claimed(id), op[id].state \in Terminal
               PROVE  op'[id] = op[id]
    OBVIOUS
  <2>1. op[id].state # "in_progress" /\ op \in [Identity -> Operation \cup {NoValue}]
    BY DEF Terminal, CInv, ClassificationTypeOK
  <2>2. CASE op' = op
    BY <2>2
  <2>3. ASSUME NEW r \in Requests, NEW actor \in Actors, NEW config \in Configs,
               ClaimFinds(r, actor, config)
        PROVE  op'[id] = op[id]
    BY <2>1, <2>3 DEF ClaimFinds, Expired, Finish
  <2>4. ASSUME NEW r \in Requests, NEW actor \in Actors, NEW config \in Configs,
               ClaimStarts(r, actor, config)
        PROVE  op'[id] = op[id]
    BY <2>1, <2>4 DEF ClaimStarts
  <2>5. ASSUME NEW r \in Requests, Settle(r)
        PROVE  op'[id] = op[id]
    BY <2>1, <2>5 DEF Settle, Finish
  <2>6. CASE Tick
    BY <2>1, <2>6 DEF Tick, Open
  <2> QED  BY <2>2, <2>3, <2>4, <2>5, <2>6
       DEF ClassificationNext, ClaimRefused, Read, Shortcut, CallProvider,
           RequestLost, InputChanges, AccessChanges
<1> QED  BY <1>1, ClassificationInvariant, PTL DEF ClassificationSpec, FinishedIsFinal

(***************************************************************************)
(* The lifecycle of an operation.  What the refinement needs beyond CInv:  *)
(* an answer comes from a call, unless the input has no context.           *)
(***************************************************************************)
CallMade ==
    \A r \in Requests : request[r].pc = "answered" =>
        request[r].id.input \in NoContext \/ calls[request[r].id] = 1

LEMMA CallMadeStep ==
    ASSUME CInv, CallMade, [ClassificationNext]_classificationVars
    PROVE  CallMade'
<1>t. request \in [Requests -> Running \cup {Idle}] /\ calls \in [Identity -> Nat]
  BY DEF CInv, ClassificationTypeOK
<1>1. CASE request' = request /\ calls' = calls
  BY <1>1 DEF CallMade
<1>2. ASSUME NEW r \in Requests, NEW actor \in Actors, NEW config \in Configs,
             ClaimStarts(r, actor, config)
      PROVE  CallMade'
  <2>1. /\ request'[r].pc = "claimed" /\ calls' = calls
        /\ \A s \in Requests \ {r} : request'[s] = request[s]
    BY <1>t, <1>2 DEF ClaimStarts
  <2> QED  BY <2>1 DEF CallMade
<1>3. ASSUME NEW r \in Requests, Shortcut(r)
      PROVE  CallMade'
  <2>1. /\ request'[r].id = request[r].id /\ request[r].id.input \in NoContext
        /\ calls' = calls
        /\ \A s \in Requests \ {r} : request'[s] = request[s]
    BY <1>t, <1>3 DEF Shortcut, Answered
  <2> QED  BY <2>1 DEF CallMade
<1>4. ASSUME NEW r \in Requests, NEW answer \in Failures \cup {"classified"},
             CallProvider(r, answer)
      PROVE  CallMade'
  <2>1. /\ request[r].pc = "claimed" /\ Answered(r, answer)
        /\ calls' = [calls EXCEPT ![request[r].id] = @ + 1]
    BY <1>4 DEF CallProvider
  <2>2. /\ request[r] # Idle /\ request'[r].id = request[r].id
        /\ \A s \in Requests \ {r} : request'[s] = request[s]
    BY <2>1, Answering DEF Results
  <2>3. request[r].id \in Identity /\ calls[request[r].id] = 0
    BY <2>1, <2>2, RequestFacts DEF CInv, Working
  <2>4. /\ calls'[request[r].id] = 1
        /\ \A id \in Identity : calls[id] = 1 => calls'[id] = 1
    BY <1>t, <2>1, <2>3
  <2>5. \A s \in Requests : request[s].pc = "answered" => request[s].id \in Identity
    BY RequestFacts
  <2> QED  BY <2>2, <2>4, <2>5 DEF CallMade
<1>5. ASSUME NEW r \in Requests, Settle(r) \/ RequestLost(r)
      PROVE  CallMade'
  <2>1. request' = [request EXCEPT ![r] = Idle] /\ calls' = calls
    BY <1>5 DEF Settle, RequestLost
  <2>2. request'[r].pc = "idle" /\ \A s \in Requests \ {r} : request'[s] = request[s]
    BY <1>t, <2>1 DEF Idle
  <2> QED  BY <2>1, <2>2 DEF CallMade
<1> QED  BY <1>1, <1>2, <1>3, <1>4, <1>5
     DEF ClassificationNext, classificationVars, ClaimRefused, ClaimFinds, Read,
         InputChanges, AccessChanges, Tick

\* Finishing an open claim is a step of the lifecycle when it keeps its rules.
LEMMA FinishRefines ==
    ASSUME CInv, NEW id \in Identity, NEW o \in Operation,
           Claimed(id), op[id].state = "in_progress", Finish(id, o), calls' = calls,
           o.state \in Terminal,
           op[id].left = 0 => o.state \in {"unknown", "failed"},
           o.state = "succeeded" => id.input \in NoContext \/ calls[id] = 1
    PROVE  Operations!OperationsNext
<1> DEFINE ph == [i \in Identity |-> Phase(i)]
<1>1. /\ op \in [Identity -> Operation \cup {NoValue}]
      /\ op' = [op EXCEPT ![id] = o]
      /\ finished' = [finished EXCEPT ![id] = Append(@, o.state)]
  BY DEF CInv, ClassificationTypeOK, Finish
<1>2. ph[id] = IF op[id].left = 0 THEN "overdue" ELSE "open"
  BY DEF Phase
<1>3. ph' = [ph EXCEPT ![id] = o.state]
  <2>1. ASSUME NEW i \in Identity, i # id PROVE Phase(i)' = Phase(i)
    BY <1>1, <2>1 DEF Phase
  <2>2. Phase(id)' = o.state
    BY <1>1, NoValueAssumption DEF Phase, Terminal
  <2> QED  BY <2>1, <2>2
<1> HIDE DEF ph
<1>4. Operations!FinishAs(id, o.state)
  BY <1>1, <1>2, <1>3 DEF Operations!FinishAs, Operations!Late, ph
<1> QED  BY <1>4 DEF Operations!OperationsNext, Operations!Outcomes, Terminal

\* What settling makes of a claim whose time is over.
LEMMA SettledTooLate ==
    ASSUME NEW o \in Operation, o.left = 0, NEW q
    PROVE  Settled(o, q).state \in {"unknown", "failed"}
  BY DEF Settled, Ended, Operation

LEMMA StepRefines ==
    ASSUME CInv, CallMade, [ClassificationNext]_classificationVars
    PROVE  Operations!OperationsNext \/ UNCHANGED Operations!operations
<1> DEFINE ph == [i \in Identity |-> Phase(i)]
<1>t. op \in [Identity -> Operation \cup {NoValue}] /\ calls \in [Identity -> Nat]
  BY DEF CInv, ClassificationTypeOK
<1>1. CASE UNCHANGED <<op, finished, calls>>
  <2>1. ph' = ph
    BY <1>1 DEF Phase
  <2> QED  BY <1>1, <2>1 DEF Operations!operations
<1>2. ASSUME NEW r \in Requests, NEW actor \in Actors, NEW config \in Configs,
             ClaimFinds(r, actor, config)
      PROVE  Operations!OperationsNext \/ UNCHANGED <<op, finished, calls>>
  <2> DEFINE id == [input |-> input, config |-> config]
             o == Ended(op[id], "unknown", "classification_unknown")
  <2>1. /\ Claimed(id) /\ calls' = calls
        /\ IF Expired(id) THEN Finish(id, o) ELSE UNCHANGED <<op, finished>>
    BY <1>2 DEF ClaimFinds
  <2>2. id \in Identity
    BY CurrentIdentity
  <2> HIDE DEF id
  <2>3. op[id] \in Operation
    BY <1>t, <2>1, <2>2
  <2>4. o \in Operation /\ o.state = "unknown"
    BY <2>3 DEF Ended, Operation, Terminal, Codes
  <2> HIDE DEF o
  <2>5. CASE Expired(id)
    BY <2>1, <2>2, <2>4, <2>5, FinishRefines DEF Expired, Terminal
  <2> QED  BY <2>1, <2>5
<1>3. ASSUME NEW r \in Requests, NEW actor \in Actors, NEW config \in Configs,
             ClaimStarts(r, actor, config)
      PROVE  Operations!OperationsNext
  <2>0. PICK id \in Identity : id = [input |-> input, config |-> config]
    BY CurrentIdentity
  <2> DEFINE o == [state |-> "in_progress", actor |-> actor,
                   attempts |-> IF input \in NoContext THEN 0 ELSE 1,
                   outcome |-> NoValue, error |-> NoValue, left |-> Lifetime]
  <2>1. /\ ~ Claimed(id) /\ op' = [op EXCEPT ![id] = o]
        /\ UNCHANGED <<finished, calls>>
    BY <1>3, <2>0 DEF ClaimStarts
  <2>2. id \in Identity
    BY <2>0
  <2>3. /\ o \in Operation /\ o.state = "in_progress" /\ o.left # 0
    BY ClassificationConstants DEF Operation
  <2> HIDE DEF o
  <2>4. ph[id] = "none"
    BY <2>1, <2>2 DEF Phase
  <2>5. ph' = [ph EXCEPT ![id] = "open"]
    <3>1. ASSUME NEW i \in Identity, i # id PROVE Phase(i)' = Phase(i)
      BY <1>t, <2>1, <3>1 DEF Phase
    <3>2. Phase(id)' = "open"
      BY <1>t, <2>1, <2>2, <2>3, NoValueAssumption DEF Phase
    <3> QED  BY <2>2, <3>1, <3>2
  <2> HIDE DEF ph
  <2>6. Operations!Claim(id)
    BY <2>1, <2>4, <2>5 DEF Operations!Claim, ph
  <2> QED  BY <2>2, <2>6 DEF Operations!OperationsNext
<1>4. ASSUME NEW r \in Requests, NEW answer \in Failures \cup {"classified"},
             CallProvider(r, answer)
      PROVE  Operations!OperationsNext
  <2> DEFINE id == request[r].id
  <2>1. /\ request[r].pc = "claimed" /\ id.input \notin NoContext
        /\ calls' = [calls EXCEPT ![id] = @ + 1]
        /\ UNCHANGED <<op, finished>>
    BY <1>4 DEF CallProvider
  <2>2. request[r] # Idle /\ id \in Identity
    BY <2>1, RequestFacts
  <2>3. /\ Claimed(id) /\ calls[id] = 0
        /\ op[id].state \in {"in_progress", "unknown"}
    BY <2>1, <2>2 DEF CInv, Working
  <2> HIDE DEF id
  <2>4. ph[id] \in {"open", "overdue", "unknown"} /\ ph' = ph
    BY <2>1, <2>2, <2>3 DEF Phase
  <2>5. calls' = [calls EXCEPT ![id] = 1]
    BY <1>t, <2>1, <2>2, <2>3
  <2> HIDE DEF ph
  <2>6. Operations!AskProvider(id)
    BY <2>1, <2>2, <2>3, <2>4, <2>5 DEF Operations!AskProvider, ph
  <2> QED  BY <2>2, <2>6 DEF Operations!OperationsNext
<1>5. ASSUME NEW r \in Requests, Settle(r)
      PROVE  Operations!OperationsNext \/ UNCHANGED <<op, finished, calls>>
  <2> DEFINE q == request[r]
             id == request[r].id
             now == Settled(op[id], q)
  <2>1. /\ q.pc = "answered" /\ calls' = calls
        /\ IF op[id].state = "in_progress" THEN Finish(id, now)
           ELSE UNCHANGED <<op, finished>>
    BY <1>5 DEF Settle
  <2>2. q # Idle /\ id \in Identity /\ q.answer \in Results \cup Failures
    BY <2>1, RequestFacts
  <2>3. Claimed(id) /\ op[id] \in Operation
    BY <1>t, <2>2 DEF CInv, Working
  <2>4. CASE op[id].state = "in_progress"
    <3>1. op[id].outcome = NoValue
      BY <2>2, <2>3, <2>4 DEF CInv, ClassificationTypeOK
    <3>2. now \in Operation /\ now.state \in Terminal
      BY <2>2, <2>3, <2>4, <3>1, SettledFacts
    <3>3. op[id].left = 0 => now.state \in {"unknown", "failed"}
      BY <2>3, SettledTooLate
    <3>4. id.input \in NoContext \/ calls[id] = 1
      BY <2>1 DEF CallMade
    <3> HIDE DEF now, id
    <3> QED  BY <2>1, <2>2, <2>3, <2>4, <3>2, <3>3, <3>4, FinishRefines
  <2> QED  BY <2>1, <2>4
<1>6. CASE Tick
  <2> DEFINE Due == {i \in Identity : i \in Open /\ op[i].left = 1}
  <2>1. /\ UNCHANGED <<finished, calls>>
        /\ op' = [i \in Identity |->
                    IF i \in Open /\ op[i].left > 0
                    THEN [op[i] EXCEPT !.left = @ - 1] ELSE op[i]]
    BY <1>6 DEF Tick
  <2>2. \A i \in Due : ph[i] = "open"
    BY DEF Phase, Open
  <2>3. ASSUME NEW i \in Identity
        PROVE  Phase(i)' = IF i \in Due THEN "overdue" ELSE Phase(i)
    <3>1. CASE i \in Open /\ op[i].left > 0
      <4> DEFINE left == op[i].left - 1
      <4>1. op[i] \in Operation /\ op[i].state = "in_progress" /\ op[i] # NoValue
        BY <1>t, <3>1 DEF Open
      <4>2. op[i].left \in Nat
        BY <4>1, ClassificationConstants DEF Operation
      <4>3. left \in Nat /\ (left = 0 <=> op[i].left = 1) /\ left \in 0 .. Lifetime
        BY <3>1, <4>1, ClassificationConstants DEF Operation
      <4>4. op'[i] = [op[i] EXCEPT !.left = left]
        BY <2>1, <3>1
      <4> HIDE DEF left
      <4>5. op'[i].state = "in_progress" /\ op'[i].left = left /\ op'[i] \in Operation
        BY <4>1, <4>3, <4>4 DEF Operation
      <4>6. op'[i] # NoValue
        BY <4>5, NoValueAssumption
      <4> QED  BY <3>1, <4>1, <4>2, <4>3, <4>5, <4>6 DEF Phase
    <3>2. CASE ~ (i \in Open /\ op[i].left > 0)
      <4>1. op'[i] = op[i] /\ i \notin Due
        BY <2>1, <3>2
      <4> QED  BY <4>1 DEF Phase
    <3> QED  BY <3>1, <3>2
  <2>4. ph' = [i \in Identity |-> IF i \in Due THEN "overdue" ELSE ph[i]]
    BY <2>3
  <2>5. Due \in SUBSET Identity
    OBVIOUS
  <2> HIDE DEF ph, Due
  <2>6. Operations!Lapse(Due)
    BY <2>1, <2>2, <2>4 DEF Operations!Lapse, ph
  <2> QED  BY <2>5, <2>6 DEF Operations!OperationsNext
<1> HIDE DEF ph
<1> QED  BY <1>1, <1>2, <1>3, <1>4, <1>5, <1>6
     DEF ClassificationNext, classificationVars, ClaimRefused, Read, Shortcut,
         RequestLost, InputChanges, AccessChanges

\* The routes implement the lifecycle of an operation (classify, read): one
\* claim, one call, one finish with one event, no suggestion from a claim that
\* was overdue, and none without a call, for any number of racing requests.
THEOREM OperationRefinement == ClassificationSpec => ImplementsOperations
<1>1. ClassificationInit => Operations!OperationsInit
  <2> SUFFICES ASSUME ClassificationInit PROVE Operations!OperationsInit
    OBVIOUS
  <2>1. \A id \in Identity : Phase(id) = "none"
    BY DEF ClassificationInit, Phase
  <2> QED  BY <2>1 DEF ClassificationInit, Operations!OperationsInit
<1>2. ClassificationInit => CallMade
  BY DEF ClassificationInit, CallMade, Idle
<1>3. CInv /\ CallMade /\ [ClassificationNext]_classificationVars => CallMade'
  BY CallMadeStep
<1>4. CInv /\ CallMade /\ [ClassificationNext]_classificationVars
        => [Operations!OperationsNext]_(Operations!operations)
  BY StepRefines
<1> QED  BY <1>1, <1>2, <1>3, <1>4, ClassificationInvariant, PTL
     DEF ClassificationSpec, ImplementsOperations, Operations!OperationsSpec
=============================================================================
