------------------------------ MODULE TurnLoop ------------------------------
(***************************************************************************)
(* One turn: RunTurnWithOptions and runSamplingRequest of                  *)
(* internal/runner/runner.go.  A sampling attempt is one step whose        *)
(* outcome is any the attempt contract allows (module SamplingAttempt      *)
(* shows that the code keeps the contract).                                *)
(*                                                                         *)
(* The transcript is a sequence of items; tool calls are numbered through  *)
(* the turn.  Only the items of this turn are kept: the initial history is *)
(* a constant prefix of every prompt.  BeforeModelRequest may fail but is  *)
(* taken to leave the prompt alone.                                        *)
(***************************************************************************)
EXTENDS AttemptOutcomes, FiniteSets, SequencesExt

CONSTANTS
  MaxModelRetries,  \* Options.MaxModelRetries
  MaxRequests,      \* bound on the sampling requests of the turn
  MaxCallIds,       \* bound on the tool calls of the turn
  MaxCalls,         \* bound on the tool calls of one attempt
  MaxInputs,        \* bound on the steered inputs
  States            \* the provider's turn-state tokens

ASSUME TurnLoopAssumption ==
  /\ MaxModelRetries \in Nat
  /\ MaxRequests \in Nat /\ MaxInputs \in Nat
  /\ MaxCallIds \in Nat /\ MaxCalls \in Nat
  /\ "none" \notin States

VARIABLES
  pc,          \* where the turn is
  history,     \* the items of this turn: RunTurnWithOptions' history
  prompt,      \* the items of this turn in the last prompt
  retryItems,  \* runSamplingRequest's committedRetryItems
  attempts,    \* attempts of the current sampling request
  received,    \* the attempt on its way from the receiver to the turn
  turnState,   \* the turn's provider state token, "none" for none
  sent,        \* Prompt.TurnState of the last request
  queue,       \* the session's pending input
  cancelled,   \* the turn's context is done
  verdict,     \* how RunTurnWithOptions returned
  aborted,     \* the transcript of the TurnAbortedError
  visible,     \* the tool calls and results the client's sink has seen
  executed,    \* history: the calls whose handler ran
  lastCall, lastInput, requests,  \* counters: calls, inputs, requests so far
  firstState   \* history: the first token the provider produced

loop     == <<pc, history, turnState, verdict, aborted>>
request  == <<prompt, retryItems, attempts, received, sent>>
world    == <<queue, cancelled, visible, executed>>
counters == <<lastCall, lastInput, requests, firstState>>
vars     == <<loop, request, world, counters>>

Item(k, n) == [kind |-> k, id |-> n]
Items == [kind : {"call", "result", "aborted", "input", "final", "marker"}, id : Nat]
Tokens == States \cup {"none"}

\* The samplingAttemptResult: items without results, results, the turn state
\* token, whether the turn goes on, whether a result carries a final response.
NoAttempt == [items |-> <<>>, results |-> <<>>, state |-> "none", followUp |-> FALSE,
              final |-> FALSE]

TypeOK ==
  /\ pc \in {"prompt", "stream", "receive", "backoff", "commit", "pending",
             "complete", "returned"}
  /\ history \in Seq(Items) /\ prompt \in Seq(Items) /\ retryItems \in Seq(Items)
  /\ aborted \in Seq(Items) /\ visible \in Seq(Items)
  /\ attempts \in 0 .. (MaxModelRetries + 1)
  /\ received \in [items : Seq(Items), results : Seq(Items), state : Tokens,
                   followUp : BOOLEAN, final : BOOLEAN]
  /\ turnState \in Tokens /\ sent \in Tokens /\ firstState \in Tokens
  /\ queue \in Seq(Items)
  /\ cancelled \in BOOLEAN
  /\ verdict \in {"none", "completed", "aborted", "failed"}
  /\ executed \subseteq 1 .. lastCall
  /\ lastCall \in 0 .. MaxCallIds /\ lastInput \in 0 .. MaxInputs
  /\ requests \in 0 .. MaxRequests

Init ==
  /\ pc = "prompt" /\ history = <<>> /\ turnState = "none" /\ verdict = "none"
  /\ aborted = <<>> /\ prompt = <<>> /\ retryItems = <<>> /\ attempts = 0
  /\ received = NoAttempt /\ sent = "none" /\ queue = <<>> /\ cancelled = FALSE
  /\ visible = <<>> /\ executed = {}
  /\ lastCall = 0 /\ lastInput = 0 /\ requests = 0 /\ firstState = "none"

Fail ==
  /\ pc' = "returned"
  /\ verdict' = "failed"
  /\ UNCHANGED <<history, turnState, aborted>>

-----------------------------------------------------------------------------
(***************************************************************************)
(* RunTurnWithOptions, top of the loop.                                    *)
(***************************************************************************)
BuildPrompt ==
  /\ pc = "prompt"
  /\ requests < MaxRequests
  /\ requests' = requests + 1
  /\ prompt' = history
  /\ sent' = turnState
  /\ retryItems' = <<>>
  /\ attempts' = 0
  /\ received' = NoAttempt
  /\ pc' = "stream"
  /\ UNCHANGED <<history, turnState, verdict, aborted, world>>
  /\ UNCHANGED <<lastCall, lastInput, firstState>>

BeforeModelRequestFails ==
  /\ pc = "prompt"
  /\ Fail
  /\ UNCHANGED <<request, world, counters>>

(***************************************************************************)
(* runSamplingRequest: one attempt after the other.                        *)
(***************************************************************************)

\* The decision after a failed attempt: give up on a non-retryable error,
\* when the retries are used up or when the retry event cannot be published.
RetryOrFail(tried) ==
  \/ Fail
  \/ /\ tried <= MaxModelRetries
     /\ pc' = "backoff"
     /\ UNCHANGED <<history, turnState, verdict, aborted>>

\* Mutated form: the attempt is not counted.
OpenStreamUncounted ==
  /\ pc = "stream"
  /\ pc' = "receive"
  /\ UNCHANGED <<history, turnState, verdict, aborted, world, counters>>
  /\ UNCHANGED request

OpenStream ==
  /\ pc = "stream"
  /\ attempts' = attempts + 1
  /\ pc' = "receive"
  /\ UNCHANGED <<history, turnState, verdict, aborted, world, counters>>
  /\ UNCHANGED <<prompt, retryItems, received, sent>>

OpenStreamFails ==
  /\ pc = "stream"
  /\ attempts' = attempts + 1
  /\ RetryOrFail(attempts')
  /\ UNCHANGED <<prompt, retryItems, received, sent, world, counters>>

AfterModelRequestFails ==
  /\ pc = "stream"
  /\ attempts' = attempts + 1
  /\ Fail
  /\ UNCHANGED <<prompt, retryItems, received, sent, world, counters>>

\* What Drain may return for an attempt of n calls: in call order, for each
\* call a result (from its handler, from a failure before it ran, or a denial),
\* a result that carries the turn's final response, an aborted one, or none.
Drained(n) ==
  {res \in UNION {[1 .. m -> [call : 1 .. n, kind : {"result", "final", "aborted"}]]
                    : m \in 0 .. n} :
     \A i, j \in DOMAIN res : i < j => res[i].call < res[j].call}

\* The attempts: how many calls were requested and what Drain returned.
Attempts ==
  UNION {{[calls |-> n, results |-> res] : res \in Drained(n)} : n \in 0 .. MaxCalls}

CallItems(a) == [i \in 1 .. a.calls |-> Item("call", lastCall + i)]

ResultItems(a) ==
  [i \in DOMAIN a.results |->
     Item(IF a.results[i].kind = "aborted" THEN "aborted" ELSE "result",
          lastCall + a.results[i].call)]

Streamed(a) == CallItems(a) \o ResultItems(a)

FinalCalls(a) ==
  {lastCall + a.results[i].call :
     i \in {j \in DOMAIN a.results : a.results[j].kind = "final"}}

\* receiveSamplingAttempt as the contract describes it.  A handler that
\* supplied a final response ran; any other call may have run or not.
Attempt(a, v) ==
  /\ pc = "receive"
  /\ lastCall + a.calls <= MaxCallIds
  /\ Allowed(a.calls, a.results, v)
  /\ lastCall' = lastCall + a.calls
  /\ \E S \in SUBSET ((lastCall + 1) .. lastCall') :
       FinalCalls(a) \subseteq S /\ executed' = executed \cup S
  /\ UNCHANGED <<queue, cancelled, lastInput, requests>>

SeesState(state) == firstState' = IF firstState = "none" THEN state ELSE firstState

\* Mutated form: the items of the failed attempts are not committed.
AttemptSucceedsAlone ==
  \E a \in Attempts, state \in Tokens, open \in BOOLEAN :
    /\ Attempt(a, "ok")
    /\ SeesState(state)
    /\ received' = [items    |-> CallItems(a),
                    results  |-> ResultItems(a),
                    state    |-> state,
                    followUp |-> open \/ a.calls > 0,
                    final    |-> FinalCalls(a) # {}]
    /\ \/ /\ visible' = visible \o CallItems(a)
          /\ pc' = "commit"
          /\ UNCHANGED <<history, turnState, verdict, aborted>>
       \/ Fail /\ UNCHANGED visible
    /\ UNCHANGED <<prompt, retryItems, attempts, sent>>

\* The response completed.  A buffered sink is flushed now; without retries
\* the client saw the calls as they came.
AttemptSucceeds ==
  \E a \in Attempts, state \in Tokens, open \in BOOLEAN :
    /\ Attempt(a, "ok")
    /\ SeesState(state)
    /\ received' = [items    |-> retryItems \o CallItems(a),
                    results  |-> ResultItems(a),
                    state    |-> state,
                    followUp |-> open \/ a.calls > 0,
                    final    |-> FinalCalls(a) # {}]
    /\ \/ /\ visible' = visible \o CallItems(a)
          /\ pc' = "commit"
          /\ UNCHANGED <<history, turnState, verdict, aborted>>
       \/ Fail /\ UNCHANGED visible
    /\ UNCHANGED <<prompt, retryItems, attempts, sent>>

\* Mutated form: only the last failed attempt enters the prompt.
AttemptStreamFailsForgets ==
  \E a \in Attempts, state \in Tokens :
    /\ Attempt(a, "stream")
    /\ SeesState(state)
    /\ retryItems' = Streamed(a)
    /\ prompt' = history \o retryItems'
    /\ visible' = IF MaxModelRetries > 0 THEN visible
                  ELSE visible \o CallItems(a)
    /\ RetryOrFail(attempts)
    /\ UNCHANGED <<attempts, received, sent>>

\* Mutated form: the client sees the calls of an attempt that is retried.
AttemptStreamFailsUnbuffered ==
  \E a \in Attempts, state \in Tokens :
    /\ Attempt(a, "stream")
    /\ SeesState(state)
    /\ retryItems' = retryItems \o Streamed(a)
    /\ prompt' = history \o retryItems'
    /\ visible' = visible \o CallItems(a)
    /\ RetryOrFail(attempts)
    /\ UNCHANGED <<attempts, received, sent>>

\* The stream failed before response.completed: what it did enters the prompt
\* of the retry.
AttemptStreamFails ==
  \E a \in Attempts, state \in Tokens :
    /\ Attempt(a, "stream")
    /\ SeesState(state)
    /\ retryItems' = retryItems \o Streamed(a)
    /\ prompt' = history \o retryItems'
    /\ visible' = IF MaxModelRetries > 0 THEN visible
                  ELSE visible \o CallItems(a)
    /\ RetryOrFail(attempts)
    /\ UNCHANGED <<attempts, received, sent>>

\* A cancellation ended a tool call in flight: the turn's own, or a timeout of
\* one of the call's hooks, which errors.Is cannot tell apart, so the turn's
\* context need not be done.  TurnAbortedError carries the items of this
\* attempt and the turn-aborted marker.
AttemptCancelled ==
  \E a \in Attempts :
    /\ Attempt(a, "cancelled")
    /\ aborted' = Append(Streamed(a), Item("marker", 0))
    /\ pc' = "returned"
    /\ verdict' = "aborted"
    /\ UNCHANGED <<history, turnState, request, visible, firstState>>

\* Any other error of the attempt: sink, protocol, hook, guardrail, breaker.
AttemptFails ==
  \E a \in Attempts :
    /\ Attempt(a, "fatal")
    /\ Fail
    /\ UNCHANGED <<request, visible, firstState>>

\* The select on the backoff timer and ctx.Done (no timer at backoff zero).
BackoffElapses ==
  /\ pc = "backoff"
  /\ pc' = "stream"
  /\ UNCHANGED <<history, turnState, verdict, aborted, request, world, counters>>

BackoffInterrupted ==
  /\ pc = "backoff"
  /\ cancelled
  /\ Fail
  /\ UNCHANGED <<request, world, counters>>

(***************************************************************************)
(* RunTurnWithOptions, after the sampling request.                         *)
(***************************************************************************)
\* Mutated form: pending input is drained before the results are appended.
CommitAfterInput ==
  /\ pc = "commit"
  /\ history' = history \o received.items \o queue \o received.results
  /\ queue' = <<>>
  /\ visible' = visible \o received.results
  /\ turnState' = IF turnState = "none" THEN received.state ELSE turnState
  /\ pc' = "pending"
  /\ UNCHANGED <<verdict, aborted, request, cancelled, executed, counters>>

\* Items, then results; the first provider token of the turn is kept.  Any
\* event of the loop over the results may fail to be published.
CommitAttempt ==
  /\ pc = "commit"
  /\ history' = history \o received.items \o received.results
  /\ visible' = visible \o received.results
  /\ turnState' = IF turnState = "none" THEN received.state ELSE turnState
  /\ pc' = "pending"
  /\ UNCHANGED <<verdict, aborted, request, queue, cancelled, executed, counters>>

CommitFails ==
  /\ pc = "commit"
  /\ received.results # <<>>
  /\ Fail
  /\ UNCHANGED <<request, world, counters>>

\* Mutated form: drained input does not ask for a follow-up request.
DrainWithoutFollowUp ==
  /\ pc = "pending"
  /\ queue' = <<>>
  /\ \/ /\ queue # <<>>
        /\ history' = history \o queue
        /\ pc' = IF received.followUp THEN "prompt" ELSE "complete"
     \/ /\ queue = <<>>
        /\ received.final
        /\ history' = Append(history, Item("final", 0))
        /\ pc' = "complete"
     \/ /\ queue = <<>>
        /\ ~received.final
        /\ pc' = IF received.followUp THEN "prompt" ELSE "complete"
        /\ UNCHANGED history
  /\ UNCHANGED <<turnState, verdict, aborted, request, cancelled, visible, executed>>
  /\ UNCHANGED counters

\* drainPendingInput: queued input is appended after the results and asks for
\* a follow-up request; a final response ends the turn only without it.
DrainPendingInput ==
  /\ pc = "pending"
  /\ queue' = <<>>
  /\ \/ /\ queue # <<>>
        /\ history' = history \o queue
        /\ pc' = "prompt"
     \/ /\ queue = <<>>
        /\ received.final
        /\ history' = Append(history, Item("final", 0))
        /\ pc' = "complete"
     \/ /\ queue = <<>>
        /\ ~received.final
        /\ pc' = IF received.followUp THEN "prompt" ELSE "complete"
        /\ UNCHANGED history
  /\ UNCHANGED <<turnState, verdict, aborted, request, cancelled, visible, executed>>
  /\ UNCHANGED counters

\* OnTurnCompleted and the client event, which may fail the finished turn.
CompleteTurn ==
  /\ pc = "complete"
  /\ \/ /\ pc' = "returned"
        /\ verdict' = "completed"
        /\ UNCHANGED <<history, turnState, aborted>>
     \/ Fail
  /\ UNCHANGED <<request, world, counters>>

-----------------------------------------------------------------------------
\* SteerUserInput or a context recorder of the session, any time in the turn.
Steer ==
  /\ verdict = "none"
  /\ lastInput < MaxInputs
  /\ lastInput' = lastInput + 1
  /\ queue' = Append(queue, Item("input", lastInput'))
  /\ UNCHANGED <<loop, request, cancelled, visible, executed>>
  /\ UNCHANGED <<lastCall, requests, firstState>>

Cancel ==
  /\ verdict = "none"
  /\ ~cancelled
  /\ cancelled' = TRUE
  /\ UNCHANGED <<loop, request, queue, visible, executed, counters>>

Turn ==
  \/ BuildPrompt \/ BeforeModelRequestFails
  \/ OpenStream \/ OpenStreamFails \/ AfterModelRequestFails
  \/ AttemptSucceeds \/ AttemptStreamFails \/ AttemptCancelled \/ AttemptFails
  \/ BackoffElapses \/ BackoffInterrupted
  \/ CommitAttempt \/ CommitFails \/ DrainPendingInput \/ CompleteTurn

Terminated == pc = "returned" /\ UNCHANGED vars

Next == Turn \/ Steer \/ Cancel \/ Terminated

Spec == Init /\ [][Next]_vars

\* The turn runs in the caller's goroutine; streams and handlers end.
FairSpec == Spec /\ WF_vars(Turn)

-----------------------------------------------------------------------------
(***************************************************************************)
(* Properties.                                                             *)
(***************************************************************************)
Answers == {"result", "aborted"}

\* Each call of s is followed by its answer.
Closed(s) ==
  \A i \in DOMAIN s :
    s[i].kind = "call" =>
      \E j \in DOMAIN s : j > i /\ s[j].kind \in Answers /\ s[j].id = s[i].id

\* No call and no answer of s occurs twice.
Once(s) ==
  \A i, j \in DOMAIN s :
    s[i] = s[j] /\ s[i].kind \in {"call"} \cup Answers => i = j

\* A transcript that tells the model, once, everything that was done.
TellsAll(s) ==
  /\ Closed(s) /\ Once(s)
  /\ \A c \in executed : \E i \in DOMAIN s : s[i].kind = "result" /\ s[i].id = c

\* "the model-visible history must still include side effects that already
\* ran so retries do not duplicate or forget them": whatever attempts failed
\* in this and earlier requests, every prompt answers every call once and
\* tells of every handler that ran.
PromptTellsEffects == pc \in {"stream", "receive", "backoff"} => TellsAll(prompt)

\* The committed history of a completed turn does too.
CommittedHistoryTellsEffects == verdict = "completed" => TellsAll(history)

\* No request and no committed turn duplicates or forgets what a tool has done.
EffectsAreTold == PromptTellsEffects /\ CommittedHistoryTellsEffects

\* Attempts that fail and are retried show nothing to the client: between
\* requests it never sees a tool call that stays without a result.
ClientSeesClosedCalls ==
  pc \in {"prompt", "stream", "backoff", "pending", "complete"} => Closed(visible)

\* "the next safe continuation point": input steered in while tools run never
\* comes between a call and its result, in the history or in a prompt.
InputAtSafeBoundary ==
  \A s \in {history, prompt} : \A i, j, k \in DOMAIN s :
    i < k /\ k < j /\ s[i].kind = "call" /\ s[j].kind \in Answers
      /\ s[i].id = s[j].id => s[k].kind # "input"

\* A turn does not complete before a request has carried the steered input it
\* committed, also when a tool supplies the turn's final response.
CommittedInputReachedModel ==
  verdict = "completed" =>
    \A i \in DOMAIN history : history[i].kind = "input" =>
      \E j \in DOMAIN prompt : prompt[j] = history[i]

\* Prompts of a turn only grow at their end, over retries and over follow-up
\* requests (the comment on prompt-cache semantics in RunTurnWithOptions).
PromptsGrow == [][IsPrefix(prompt, prompt')]_vars

\* However the stream fails, a sampling request ends: with a committed attempt
\* or with the turn, never in retries without end.
SamplingRequestEnds == pc = "stream" ~> pc \in {"commit", "returned"}

-----------------------------------------------------------------------------
(***************************************************************************)
(* What comments of the code claim and the code does not keep.             *)
(***************************************************************************)

\* "AbortedHistory exposes the model-visible transcript that should survive
\* an interrupted turn": what the model had been shown of the turn.
AbortKeepsModelVisibleTranscript ==
  verdict = "aborted" =>
    \A i \in DOMAIN prompt : \E j \in DOMAIN aborted : aborted[j] = prompt[i]

\* "the first provider value is replayed for all later same-turn requests,
\* later provider values are ignored".
FirstProviderStateReplayed == sent \in {"none", firstState}

=============================================================================
