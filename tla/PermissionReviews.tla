-------------------------- MODULE PermissionReviews --------------------------
(***************************************************************************)
(* The reviews of a session's tool calls (reviewToolCall in                *)
(* internal/runner/runner.go) against the grants that request_permissions  *)
(* calls record meanwhile (internal/tools/builtin/request_permissions.go), *)
(* and what the client is told of the reviews: the events of a review are  *)
(* attached to the call's result and published when the attempt the call   *)
(* belongs to is committed.                                                *)
(*                                                                         *)
(* Every call is a goroutine.  BeforeToolCall may turn a parallel tool     *)
(* into request_permissions, so the dispatcher's lock does not keep the    *)
(* two kinds apart, and a turn may return while goroutines of its calls    *)
(* still run (see SamplingAttempt!ReceiveRejected): they go on reviewing   *)
(* and recording under the identity of a turn that is over.  The calls are *)
(* numbered in the order in which they start.                              *)
(*                                                                         *)
(* A store belongs to one session here: turn identities are counted per    *)
(* session.                                                                *)
(***************************************************************************)
EXTENDS PermissionStore, ApprovalPolicy

CONSTANTS
  MaxCalls,      \* bound on the tool calls of the session
  Tools,         \* what a call may be: its guardrail and the keys it asks for
  PolicyChoices, \* the policies a host may configure
  Responses      \* what the host may answer to request_permissions

ASSUME ReviewAssumption ==
  /\ MaxTurns \in Nat /\ MaxCalls \in Nat
  /\ None \notin Keys
  /\ Tools \subseteq [requirement : Requirements, key : Keys \cup {None},
                      asks : Seq(Keys)]
  /\ PolicyChoices \subseteq Policies
  /\ Responses \subseteq [scope : Scopes, strict : BOOLEAN, keys : SUBSET Keys]

Workers == 1 .. MaxCalls  \* the goroutines of tool calls

VARIABLES
  policy,    \* Guardrails.ApprovalPolicy
  turn,      \* the turn the session is in, or was last in
  live,      \* that turn is running
  store,     \* Guardrails.PermissionGrants
  pc,        \* where each call's goroutine is
  tool,      \* what each goroutine calls
  owner,     \* the turn each goroutine belongs to
  events,    \* the client events attached to its result
  outcome,   \* how its review ended
  response,  \* the host's response the goroutine is recording
  recorded,  \* the granted keys it has recorded
  ran,       \* the calls that were dispatched to their handler
  client,    \* what the client has been told of each call
  kept,      \* the calls of committed attempts
  retried,   \* the calls of attempts whose stream failed and was retried
  justified, \* history: its key was preapproved at some point of its review
  promised,  \* history: <<turn, key>> the host granted, <<0, key>> for session
  outlived   \* history: turns that returned before all of their calls

config == policy
calls  == <<pc, tool, owner, events, outcome, response, recorded, ran>>
told   == <<client, kept, retried>>
ghosts == <<justified, promised, outlived>>
vars   == <<config, turn, live, store, calls, told, ghosts>>

\* "done" stands for a result sent to Drain, "failed" for an error.
Places == {"idle", "classify", "has", "strict", "hook", "reviewer", "reviewed",
           "asking", "recording", "done", "failed"}
Over == {"done", "failed"}
Events == {"request", "approved", "denied"}
Outcomes == {"none", "free", "preapproved", "approved", "denied", "error"}

NoTool == [requirement |-> "none", key |-> None, asks |-> <<>>]
NoResponse == [scope |-> "turn", strict |-> FALSE, keys |-> {}]

TypeOK ==
  /\ policy \in PolicyChoices
  /\ turn \in 0 .. MaxTurns
  /\ live \in BOOLEAN
  /\ store \in Stores
  /\ pc \in [Workers -> Places]
  /\ tool \in [Workers -> Tools \cup {NoTool}]
  /\ owner \in [Workers -> 0 .. MaxTurns]
  /\ events \in [Workers -> Seq(Events)]
  /\ outcome \in [Workers -> Outcomes]
  /\ response \in [Workers -> [scope : Scopes, strict : BOOLEAN, keys : SUBSET Keys]]
  /\ recorded \in [Workers -> SUBSET Keys]
  /\ ran \subseteq Workers
  /\ client \in [Workers -> Seq(Events)]
  /\ kept \subseteq Workers
  /\ retried \subseteq Workers
  /\ justified \in [Workers -> BOOLEAN]
  /\ promised \subseteq (0 .. MaxTurns) \X Keys
  /\ outlived \subseteq Turns

Init ==
  /\ policy \in PolicyChoices
  /\ turn = 0
  /\ live = FALSE
  /\ store = NewStore
  /\ pc = [w \in Workers |-> "idle"]
  /\ tool = [w \in Workers |-> NoTool]
  /\ owner = [w \in Workers |-> 0]
  /\ events = [w \in Workers |-> <<>>]
  /\ outcome = [w \in Workers |-> "none"]
  /\ response = [w \in Workers |-> NoResponse]
  /\ recorded = [w \in Workers |-> {}]
  /\ ran = {}
  /\ client = [w \in Workers |-> <<>>]
  /\ kept = {}
  /\ retried = {}
  /\ justified = [w \in Workers |-> FALSE]
  /\ promised = {}
  /\ outlived = {}

\* A review is under way between its start and its outcome.
Reviewing(w) == pc[w] \in {"classify", "has", "strict"}

\* A step of any goroutine that leaves the store as it is or changes it to s:
\* note which reviews under way see their key preapproved.
Witness(s) ==
  justified' = [w \in Workers |->
    justified[w] \/ (Reviewing(w) /\ Preapproved(s, owner[w], tool[w].key))]

-----------------------------------------------------------------------------
(***************************************************************************)
(* Turns.                                                                  *)
(***************************************************************************)
StartTurn ==
  /\ ~live
  /\ turn < MaxTurns
  /\ turn' = turn + 1
  /\ live' = TRUE
  /\ UNCHANGED <<config, store, calls, told, ghosts>>

\* RunTurnWithOptions returns; its deferred ClearTurn runs even when
\* goroutines of the turn are still running.
TurnReturns ==
  /\ live
  /\ live' = FALSE
  /\ store' = ClearTurn(store, turn)
  /\ outlived' = IF \E w \in Workers : owner[w] = turn /\ pc[w] \notin Over
                 THEN outlived \cup {turn} ELSE outlived
  /\ UNCHANGED <<config, turn, calls, kept, retried, justified, promised>>

\* At the end of the turn, and on every error of a call or of the receiver:
\* whatever the calls of the current attempt did, the client is told nothing.
ReturnTurn == TurnReturns /\ UNCHANGED client

StartCall(w) ==
  /\ live
  /\ pc[w] = "idle"
  /\ \A v \in Workers : v < w => pc[v] # "idle"
  /\ \E t \in Tools : tool' = [tool EXCEPT ![w] = t]
  /\ owner' = [owner EXCEPT ![w] = turn]
  /\ pc' = [pc EXCEPT ![w] = "classify"]
  /\ UNCHANGED <<config, turn, live, store, events, outcome, response, recorded,
                 ran, told, ghosts>>

\* The calls of the sampling attempt under way.
Attempt == {w \in Workers : owner[w] = turn} \ (kept \cup retried)

\* Drain has a result of every call.
Drained == live /\ Attempt # {} /\ \A w \in Attempt : pc[w] = "done"

\* The loop of RunTurnWithOptions over the results, in call order: each one's
\* events and the result itself.
CommitAttempt ==
  /\ Drained
  /\ client' = [w \in Workers |-> IF w \in Attempt THEN events[w] ELSE client[w]]
  /\ kept' = kept \cup Attempt
  /\ UNCHANGED <<config, turn, live, store, calls, retried, ghosts>>

\* The sink fails at some event or at the result of call w: the turn fails.
CommitFails ==
  /\ Drained
  /\ \E w \in Attempt : \E n \in 0 .. Len(events[w]) :
       client' = [v \in Workers |-> IF v = w THEN SubSeq(events[w], 1, n)
                                    ELSE IF v \in Attempt /\ v < w THEN events[v]
                                    ELSE client[v]]
  /\ TurnReturns

\* The stream failed after these calls: their results enter the prompt of the
\* retry, the events attached to them are dropped.
RetryAttempt ==
  /\ Drained
  /\ retried' = retried \cup Attempt
  /\ UNCHANGED <<config, turn, live, store, calls, client, kept, ghosts>>

-----------------------------------------------------------------------------
(***************************************************************************)
(* reviewToolCall.                                                         *)
(***************************************************************************)
\* The review ends with an outcome and the events to publish with it; an
\* error publishes none and fails the call.
EndReview(w, result, published) ==
  /\ outcome' = [outcome EXCEPT ![w] = result]
  /\ events' = [events EXCEPT ![w] = published]
  /\ pc' = [pc EXCEPT ![w] = IF result = "error" THEN "failed" ELSE "reviewed"]

Proceed(w, place) ==
  /\ pc' = [pc EXCEPT ![w] = place]
  /\ UNCHANGED <<events, outcome>>

Rest == <<config, turn, live, store, tool, owner, response, recorded, ran, told,
          promised, outlived>>

\* Guardrail of the handler, the policy, and whether there is a key to look up.
Classify(w) ==
  /\ pc[w] = "classify"
  /\ \/ EndReview(w, "error", <<>>) \* Guardrail fails
     \/ /\ PolicyFails(policy, tool[w].requirement)
        /\ EndReview(w, "error", <<>>)
     \/ /\ Refused(policy, tool[w].requirement)
        /\ EndReview(w, "denied", RefusalEvents)
     \/ /\ ~PolicyFails(policy, tool[w].requirement)
        /\ ~Refused(policy, tool[w].requirement)
        /\ ~NeedsApproval(policy, tool[w].requirement)
        /\ EndReview(w, "free", <<>>)
     \/ /\ NeedsApproval(policy, tool[w].requirement)
        /\ Proceed(w, IF tool[w].key = None THEN "hook" ELSE "has")
  /\ Witness(store)
  /\ UNCHANGED Rest

\* Mutated form: a grant suffices, strict or not.
LookUpGrantOnly(w) ==
  /\ pc[w] = "has"
  /\ IF Has(store, owner[w], tool[w].key)
     THEN EndReview(w, "preapproved", <<>>)
     ELSE Proceed(w, "hook")
  /\ Witness(store)
  /\ UNCHANGED Rest

\* The first critical section.
LookUpGrant(w) ==
  /\ pc[w] = "has"
  /\ Proceed(w, IF Has(store, owner[w], tool[w].key) THEN "strict" ELSE "hook")
  /\ Witness(store)
  /\ UNCHANGED Rest

\* The second one.
LookUpStrict(w) ==
  /\ pc[w] = "strict"
  /\ \/ /\ StrictAutoReviewForGrant(store, owner[w], tool[w].key)
        /\ Proceed(w, "hook")
     \/ /\ ~StrictAutoReviewForGrant(store, owner[w], tool[w].key)
        /\ EndReview(w, "preapproved", <<>>)
  /\ Witness(store)
  /\ UNCHANGED Rest

\* The ReviewToolCall hook: a failure or an answer nobody knows fails the call;
\* no decision, or no hook, passes the question on.
AskHook(w) ==
  /\ pc[w] = "hook"
  /\ \/ EndReview(w, "error", <<>>)
     \/ EndReview(w, "approved", ReviewEvents("approved"))
     \/ EndReview(w, "denied", ReviewEvents("denied"))
     \/ Proceed(w, "reviewer")
  /\ UNCHANGED <<Rest, justified>>

\* Mutated form: no decision is an approval.
AskReviewerTrusting(w) ==
  /\ pc[w] = "reviewer"
  /\ \/ EndReview(w, "error", <<>>)
     \/ \E d \in {"approved", "denied", None} :
          EndReview(w, IF d = "denied" THEN "denied" ELSE "approved", ReviewEvents(d))
  /\ UNCHANGED <<Rest, justified>>

\* The Reviewer has the last word: no Reviewer, or no decision of it (None), is
\* a denial.
AskReviewer(w) ==
  /\ pc[w] = "reviewer"
  /\ \/ EndReview(w, "error", <<>>)
     \/ \E d \in {"approved", "denied", None} :
          IF Decided(d) THEN EndReview(w, d, ReviewEvents(d))
          ELSE EndReview(w, "denied", ReviewEvents("denied"))
  /\ UNCHANGED <<Rest, justified>>

-----------------------------------------------------------------------------
(***************************************************************************)
(* The rest of dispatchOneToolCallWithToolContext.                         *)
(***************************************************************************)
\* An error: the call has no result, and so nothing to attach events to.
Fail(w) ==
  /\ pc' = [pc EXCEPT ![w] = "failed"]
  /\ events' = [events EXCEPT ![w] = <<>>]

\* The call's handler is done: the lifecycle finish hook, ctx.Err and
\* AfterToolCall may still fail the call.  What the handler held is gone.
Finish(w) ==
  /\ \/ pc' = [pc EXCEPT ![w] = "done"] /\ UNCHANGED events
     \/ Fail(w)
  /\ response' = [response EXCEPT ![w] = NoResponse]
  /\ recorded' = [recorded EXCEPT ![w] = {}]

\* ctx.Err, the breaker's error or that of the lifecycle start hook fails the
\* call.  A denial is its result; any other call goes to its handler, and
\* request_permissions asks the host (other handlers are of no interest here).
Dispatch(w) ==
  /\ pc[w] = "reviewed"
  /\ \/ Fail(w) /\ UNCHANGED <<ran, response, recorded>>
     \/ /\ outcome[w] = "denied"
        /\ pc' = [pc EXCEPT ![w] = "done"]
        /\ UNCHANGED <<ran, events, response, recorded>>
     \/ /\ outcome[w] # "denied"
        /\ ran' = ran \cup {w}
        /\ \/ tool[w].asks = <<>> /\ Finish(w)
           \/ /\ tool[w].asks # <<>>
              /\ pc' = [pc EXCEPT ![w] = "asking"]
              /\ UNCHANGED <<events, response, recorded>>
  /\ UNCHANGED <<config, turn, live, store, tool, owner, outcome, told, ghosts>>

-----------------------------------------------------------------------------
(***************************************************************************)
(* request_permissions.                                                    *)
(***************************************************************************)
\* The keys a response gives: granted by the host, and asked for.
Given(w, r) == {k \in r.keys : \E i \in DOMAIN tool[w].asks : tool[w].asks[i] = k}

\* The host answers, or fails, or there is no Responder: then nothing is
\* granted, which is what the empty response says.
HostResponds(w) ==
  /\ pc[w] = "asking"
  /\ \/ Finish(w) /\ UNCHANGED promised
     \/ \E r \in Responses :
          LET granted == GrantedOf(tool[w].asks, r)
              scopeTurn == IF r.scope = "session" THEN 0 ELSE owner[w] IN
          /\ response' = [response EXCEPT ![w] = [r EXCEPT !.keys = granted]]
          /\ promised' = IF r.scope = "unknown" \/ (r.strict /\ r.scope = "session")
                         THEN promised
                         ELSE promised \cup {<<scopeTurn, k>> : k \in Given(w, r)}
          /\ pc' = [pc EXCEPT ![w] = "recording"]
          /\ UNCHANGED <<events, recorded>>
  /\ UNCHANGED <<config, turn, live, store, tool, owner, outcome, ran, told,
                 justified, outlived>>

\* One turn of the loop over the normalized response: the next key is recorded
\* (they come in the order of the request, here in any); the first error ends
\* the handler.
RecordNext(w) ==
  /\ pc[w] = "recording"
  /\ \E k \in response[w].keys \ recorded[w] :
     \/ /\ RecordFails(response[w].scope)
        /\ Finish(w)
        /\ UNCHANGED <<store, justified>>
     \/ /\ ~RecordFails(response[w].scope)
        /\ store' = Record(store, owner[w], k, response[w].scope, response[w].strict)
        /\ recorded' = [recorded EXCEPT ![w] = @ \cup {k}]
        /\ Witness(store')
        /\ UNCHANGED <<pc, events, response>>
  /\ UNCHANGED <<config, turn, live, tool, owner, outcome, ran, told, promised,
                 outlived>>

RecordingEnds(w) ==
  /\ pc[w] = "recording"
  /\ response[w].keys \subseteq recorded[w]
  /\ Finish(w)
  /\ UNCHANGED <<config, turn, live, store, tool, owner, outcome, ran, told, ghosts>>

Step(w) ==
  \/ StartCall(w) \/ Classify(w) \/ LookUpGrant(w) \/ LookUpStrict(w)
  \/ AskHook(w) \/ AskReviewer(w) \/ Dispatch(w)
  \/ HostResponds(w) \/ RecordNext(w) \/ RecordingEnds(w)

Next ==
  \/ StartTurn \/ ReturnTurn
  \/ CommitAttempt \/ CommitFails \/ RetryAttempt
  \/ \E w \in Workers : Step(w)

Spec == Init /\ [][Next]_vars

-----------------------------------------------------------------------------
(***************************************************************************)
(* Properties.                                                             *)
(***************************************************************************)
Ended(t) == t < turn \/ ~live

\* A call that skips its approval because of a grant was preapproved at one
\* single moment of its review, although Has and StrictAutoReviewForGrant look
\* at the store at two; the order of the two lookups in reviewToolCall is what
\* makes it so.  (A goroutine that outlived its turn is excepted: ClearTurn
\* between its two lookups hides a strict flag.)
BypassWasPreapproved ==
  \A w \in Workers :
    outcome[w] = "preapproved" => justified[w] \/ Ended(owner[w])

\* What the store holds was granted by the host with that lifetime: a strict
\* session response grants nothing, and a turn's grants serve no other turn.
\* (request_permissions.Call and Store.Record.)
GrantsWerePromised ==
  /\ \A k \in store.session : <<0, k>> \in promised
  /\ \A t \in Turns : \A k \in store.turns[t] : <<t, k>> \in promised

\* A strict flag never stands without the turn grant it qualifies, and a turn
\* that is over holds grants or flags only if a call of it was still running
\* when its deferred ClearTurn ran.
FlagsFollowGrants ==
  \A t \in Turns :
    /\ store.strict[t] \subseteq store.turns[t]
    /\ Ended(t) /\ store.turns[t] # {} => t \in outlived

\* What the client has been told of a call is what became of it, and of every
\* call whose result a turn committed it has been told enough: a call that ran
\* although the policy asks for approval was preapproved, or the client saw the
\* request and the approval; a call that did not run was announced as denied.
\* Nothing refused by its tool or by the policy ever ran.
DecisionsReachTheClient ==
  \A w \in Workers :
    /\ w \in ran => ~Refused(policy, tool[w].requirement)
    /\ \A i \in DOMAIN client[w] :
         /\ client[w][i] = "approved" => w \in ran
         /\ client[w][i] = "denied" => w \notin ran
    /\ w \in kept \cap ran /\ NeedsApproval(policy, tool[w].requirement) =>
         justified[w] \/ client[w] = ReviewEvents("approved")
    /\ w \in kept \ ran => client[w] \in {RefusalEvents, ReviewEvents("denied")}

-----------------------------------------------------------------------------
(***************************************************************************)
(* What comments of the code claim and the code does not keep.             *)
(***************************************************************************)

\* "Emit approval lifecycle events separately from normal tool results so UI or
\* API clients can mirror Codex's request/decision surfaces" (reviewToolCall):
\* what a retried attempt was allowed to do is in the transcript all the same.
RetriedDecisionsReachTheClient ==
  \A w \in retried \cap ran :
    outcome[w] = "approved" => client[w] = ReviewEvents("approved")

=============================================================================
