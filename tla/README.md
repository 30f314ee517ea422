# dexco in TLA+

dexco is a Go library that runs an agent loop: a *session* keeps the durable
conversation, each *turn* runs *sampling requests* against a model, each
request is one or more *attempts* on a response stream, and an attempt starts
*tool calls* while its stream is still open. The library's own logic is in
`src/internal/session` and `src/internal/runner`; this directory holds TLA+
models of it, TLC runs, and TLAPS proofs.

    Submit/Steer/Record ──> Session ── RolloutBudget    (implements SessionLedger)
       Set*Instructions ──> DeveloperMessages
                              │ RunTurnWithOptions
                              v
                            TurnLoop  (requests, retries, commit, drain)
                              │  prompt: HistoryProtection
                              │ receiveSamplingAttempt:  AttemptOutcomes
                              v
    AttemptContract <──── SamplingAttempt (receiver, RWMutex, tool goroutines)
     (abstract)   implements  │  text: AssistantText   progress: ProgressNarration
                              │ dispatchOneToolCall
                              v
         ProfileSession ── ToolRouter     PermissionReviews ── ApprovalPolicy
          (which tools, who may call)       │          └────── PermissionStore
                              GuardrailBreaker (recordDenial / recordNonDenial)

Every layer uses the one below through what it promises. `TurnLoop` does not
repeat the goroutines of an attempt: it takes any outcome that
`AttemptOutcomes!Allowed` permits, and `SamplingAttempt` is checked to
implement `AttemptContract`, whose `Return` has that same guard. `Session` in
turn sees of the runner only that it extends a transcript, watches the
activity channel, drains the queue and returns in one of four ways. A review is
an arbitrary decision in `SamplingAttempt` and the subject of
`PermissionReviews`; which tools there are and who may call them is
`ProfileSession`'s.

## Inventory

| Component (source) | State | Operations | Interacts with | Hard behaviour | Correct when |
|---|---|---|---|---|---|
| Sampling attempt and in-flight dispatcher (`runner.go` 630-945, 1130-1260, 1307-1445) | the stream, the pending list, one goroutine and result channel per call, an RWMutex, the turn's context | receive events, `Start`, `Drain`, dispatch of one call | router, hooks, guardrails, the breaker, the session's activity channel | goroutines racing with the stream, with each other and with cancellation; three separate `ctx.Err` checks; errors of one call among many | answers come once and in call order; what ran is told; nothing of an interrupted call is committed; serial tools exclude others; it ends |
| Guardrail breaker (`runner.go` 86-149) | consecutive denials, a window of recent reviews, tripped | `recordDenial`, `recordNonDenial` | every tool goroutine of a turn | two thresholds over one history, eviction at the window's edge | it trips exactly at the first excess, and then the turn ends |
| Turn loop (`runner.go` 290-612) | prompt history, turn state, retry items, visible events | build the prompt, open a stream, retry, commit, drain | attempt, session queue, client sink | failed attempts whose tools already ran; interrupts; input arriving at any time | a prompt tells each effect once; the client sees no half-done call; steered input reaches the model |
| Session (`session.go`) | history, active turn, pending input and its channel, baselines, context | submit, steer, record, set or clear fragments | runner, every caller's goroutine | critical sections that a turn or a steer straddles; channels closed once and replaced | nothing recorded is lost, watchers wake, steering stays in its turn |
| Rollout budget (`session.go` 647-739) | tokens used, next threshold, exhausted | remind, charge | session | several thresholds crossed at once | each turn is reminded of what is left, exhausted means refused |
| Developer messages, time reminder (`session.go` 381-407, 1250-1500) | a log of fragments, a baseline per kind, the last reminder | set, append what changed, show | session, the clock | suppression that outlives a failed turn; texts withdrawn and set again; a clock that goes back | what the prompt says last is what is set, nothing is said twice, reminders keep their interval |
| Permission grants, approval review (`permissions/store.go`, `runner.go` 1481-1666) | session grants, turn grants and their strict flags | record, query, clear | tool goroutines, hooks, reviewers, the host | check and use in two critical sections; grants recorded meanwhile; goroutines that outlive a turn | a grant serves whom the host gave it to; who skips a review was preapproved; of each committed call the client is told how it was decided |
| Progress narration, buffered sink (`runner.go` 1707-2050) | active work by key, generation, closed; buffered calls | start, stop, close, flush | attempt, client sink, timer goroutines | timers firing after `Close`, keys that work shares, an unlocked append | one narration stream, about work that is running; silence after the attempt; every event of a completed attempt is delivered |
| Tool router, tool search (`tools/router.go`) | registered tools, deferred tools | register, list, dispatch, search | runner, profile sessions | name collisions, map order, the limit | what is offered is what the principal may see, all of it and nothing else; a search returns the best |
| Profiles (`profile.go`) | the caller's profile, the session's snapshot | validate, make a session, check a call | router, guardrails, reviewer | a caller that changes the profile later; three checks that may each stop a call and three that may let it pass | a handler runs only with the capabilities the session was made with, and only if the policy, a grant, the hook or the reviewer let it |
| Assistant text, citations (`model/memory_citation.go`, `runner.go`) | the parser's pending suffix, the citation so far | push a chunk, finish, finish a message | attempt, client sink | tags cut by chunk borders, citations never closed, several messages | what is shown and committed does not depend on the cuts |
| History protection (`model/history_protection.go`) | the protected copy of the history | split, rewrite, truncate | turn loop | the boundary between old and current turns; cutting at context items and at the limit | old text reaches the model only inside a transcript, the current turn as it is |
| Others: built-in tools, item types, image preparation, metrics, facade, command | mostly none | mostly pure conversions | | | |

`PROJECT.json` lists all of them with their status, and under "hazards" the
places, each at its line, where the code could go wrong in a way a unit test
would hardly reach.

## Modules

### GuardrailBreaker, GuardrailReviews

`GuardrailBreaker` translates `guardrailDenialCircuitBreaker` into operators
on a record: `RecordDenial`, `RecordNonDenial`, `RecordRecentReview`,
`DenialTrips`. The thresholds 3, 10 and 50 of the code are the constants
`MaxConsecutiveDenials`, `MaxRecentDenials`, `DenialWindowSize`.
`GuardrailReviews` drives them with any sequence of reviews and keeps that
sequence as a history variable, against which the moment of tripping is
defined anew: `TripsExactlyOnFirstExcess`.

### SamplingAttempt, AttemptContract, AttemptOutcomes

`SamplingAttempt` has one action per step between two points where another
goroutine can interfere.

| Action | Code |
|---|---|
| `ReceiveToolCall`, `ReceiveCompleted`, `ReceiveFails`, `ReceiveRejected` | the receive loop of `receiveSamplingAttempt` and its returns |
| `DrainNext`, `DrainEnds` | `Drain`, and the choice between its error and the stream's |
| `AnnounceWriter`, `Lock`, `RLock` | the dispatcher's `sync.RWMutex`, with Go's rule that a waiting writer turns away new readers |
| `Review`, `AbortAfterReview`, `Deny`, `Dispatch`, `HandlerReturns`, `Finish` | `dispatchOneToolCallWithToolContext` between its `ctx.Err` checks |
| `Cancel`, `PendingInputArrives` | the caller's context; the activity channel of the session |

Text, reasoning and hosted items change no control state: they appear as the
possibility that publishing one fails. A tool is its kind: may it share the
lock, does it wait for pending input. A review is an arbitrary decision.
With `HookRenames` hooks may replace a call by one of another kind. A hook,
guardrail or reviewer may fail with any error in `HookErrors`: the code wraps
them with `%w`, and `Drain` and `runSamplingRequest` look for a cancellation
anywhere in the chain, so a hook's own timeout ("cancelled") does to the attempt
what an interrupt does. `gaveUp`, the calls this happened to, is a history
variable.

`AttemptContract` is the abstract attempt, a machine of four steps (request,
execute, answer, return) without locks, drains or cancellation; the refinement
maps its `calls` to `started` and the other variables to those of the same
name. `hit`, the calls running at the moment of cancellation, is a history
variable.

### TurnLoop

`RunTurnWithOptions` and `runSamplingRequest`: `BuildPrompt`, the hook
errors, `OpenStream`, four outcomes of an attempt, the backoff, `CommitAttempt`,
`DrainPendingInput`, `CompleteTurn`. An attempt may come back cancelled while the
turn's context is live, as `SamplingAttempt` shows. `Attempts` lists what an attempt may bring back
(calls and the results Drain collects for them), as the contract allows. Transcript items are kinds with
identities (call 3, result of call 3, input 1), which is what the properties
tell apart. `visible` is what the client's sink has received: with retries the
events of an attempt are buffered until it succeeds. `firstState` is a
history variable.

### Session, SessionLedger, RolloutBudget

Each public method of the session is one action, because it holds `s.mu`;
the exceptions are the two that do not: `SteerUserInputWithOptions`
(`SteerCheck`, then `SteerQueue`) and `SubmitUserInput` (`Submit`,
`TurnStarts`, the runner's steps, and `TurnFails`, `TurnAborts` or
`TurnCompletes`). A Go channel is a number and the set `closed` holds the
closed ones, so that a watcher holding an old channel can be told from one
holding the new. `RolloutBudget` gives the arithmetic of thresholds and
charges as operators; weights are taken as already applied. In the session
model the turn's prompt and its durable items are item sequences.

`SessionLedger` is the abstract session: a durable conversation that is only
extended, and at most one open turn. While it is open only its end touches the
ledger. A completed turn enters as a whole (`Keep`), a failed one not at all
(`Drop`), an aborted one with what it was asked and the part of its work that the
runner kept (`CutShort`); the context a turn showed goes with it.
`Session!ImplementsLedger` maps the history, the active turn's prompt and
work, and the queue to it.

### DeveloperMessages

The four setters (`Set`), a turn that starts (`StartTurn`, which appends every
fragment whose rendered text differs from its baseline and a time reminder when
one is due) and one whose clock fails after the fragments were appended
(`ClockFails`). Rendering with its truncation is a function from texts to
messages that need not be one-to-one. `carried` is a history variable: the
style a model switch was announced with, which stands for the style fragment
the switch suppresses.

### Positions

The loops of the session that go over a slice and keep some of its entries
(`visibleDeveloperMessagesLocked`, `additionalContextItemsLocked`) are the
operator `Pick`: the entries of a sequence at a set of positions, in order.
`Session` and `DeveloperMessages` use it, and so can their proofs, which a fold
over the sequence would shut out.

### PermissionStore, ApprovalPolicy, PermissionReviews

`PermissionStore` has the critical sections of `permissions/store.go` as
operators on a record, `ApprovalPolicy` the decision table of
`approvalRequirement`, the events of a decision and
`normalizeRequestPermissionsResponse`. `PermissionReviews` runs them: every call
is a goroutine (`Classify`, `LookUpGrant`, `LookUpStrict`, `AskHook`,
`AskReviewer`, `Dispatch`), a call of `request_permissions` goes on to
`HostResponds` and `RecordNext`, one key at a time, and `ReturnTurn` clears the
turn's grants whether or not its goroutines are gone.

The events of a review are only attached to the call's result. They wait in
`events` until the attempt is committed (`CommitAttempt`, call by call, where the
sink may fail at any of them: `CommitFails`); a stream failure retries the attempt
without them (`RetryAttempt`), and every error on the way drops them (`Fail`: the
second `ctx.Err`, the breaker, the lifecycle hooks, `AfterToolCall`). `client` is
what did arrive, `ran` which calls were dispatched, `kept` and `retried` what became
of the attempts; `DecisionsReachTheClient` compares `client` with `ran` and the
policy, never the attached events with the outcome. `justified`, `promised` and
`outlived` are history variables: was the call preapproved at some moment of its
review, what did the host grant of what a call asked for, and which turns returned
before their calls. A store
belongs to one session here. Turn identities are counted per session, so two
sessions sharing a store would mix their grants; the repository does not say
whether they may.

### ProgressNarration

`Start` and `Stop` register and remove work and schedule a timer goroutine with
a new generation; `Fire` is the check under the narrator's lock, `Narrate` the
publication after it, outside the lock; `ReceiverReturns` is the deferred
`Close`. Time is abstract: a delay may pass at any moment. With retries
configured the events go to a `bufferedSink`; a timer's append to its slice is
two steps (`LoadCalls`, `StoreCalls`) because there is no lock. In Go that is
also a data race with outcomes the memory model leaves open; lost elements are
the one that the model shows.

### ToolRouter, ProfileSession

`ToolRouter` has registration, the specs of a prompt and the deferred search as
operators on the set of registered tools; a text is the set of terms it
contains. `ProfileSession` validates a profile, makes a session from it, lets the
caller go on changing the profile it still holds, and puts every tool call through
capability check, handler guardrail and policy and, when approval is needed,
through a recorded grant, the profile's review hook and the reviewer, in the order
of `reviewToolCall` (`SeekApproval`): each of the three may be missing, the last two
may also fail or not decide. `answer` remembers who was asked and what let the call
through. What the store of grants holds is arbitrary here; `PermissionReviews` says
how it comes to hold it.

`NewSessionForProfile`'s guard has the errors of validation (nested
`RunnerOptions.Guardrails` among them) and of registration. Two more are left out:
the one of a nil model client, which no caller here passes, and `NewSession`'s,
which refuses a nil runner only. To be offered is not to be allowed: a handler may
be visible to a principal that lacks the capabilities its calls require, and then
every call is denied. The search's order is
that of its ranking: a match stands behind as many others as rank before it.

### AssistantText

The parser symbol by symbol with short tags in place of `<oai-mem-citation>`,
and what `receiveSamplingAttempt` makes of its output: deltas for the client,
the committed message, its citations. A loop of the code is a recursive function
that gives its state after each round (`Rounds`, `AddIds`, `CiteLines`,
`CiteBodies`). The properties compare with `Reference`, a function from each
position of a text that sees the whole of it at once. The provider repeats
the streamed text in `output_item.done` or leaves it out; a provider that says
something else there is not modelled.

### HistoryProtection

`ProtectPromptHistory` in its three modes, and the turn that computes it once
and then appends its own items. An item is its kind, its position and whether
it has text; limits count lines. Hosted items and blank inputs of earlier turns
are dropped without a transcript line, and a truncated transcript keeps its
oldest lines: the model does what the code does there, and the properties
except it by name.

### Library, MCLibrary

The breaker, the assistant's text, history protection and profile sessions share
no state with each other. `Library` puts them side by side, so that one run
explores them all: `component` says which of them a behaviour is about, and the
other variables keep their initial values. A behaviour of `LibrarySpec` is one of
each component's own specification (`OnePart`), for which the theorems are
stated. `MCLibrary` has the values of the run.

## Runs

| Run | Question | Properties |
|---|---|---|
| `attempt` | whatever the goroutines do, is the caller's view the contract's? 3 serial or parallel calls in flight, hook errors, denials, a stream failure or an interrupt at any point | `SerialExclusion`, `InterruptedCallCommitsNothing`, `TrippedBreakerEndsAttempt`, `FinishedWorkSurvivesAbort`, `ImplementsContract` |
| `attempt_steering` | does the attempt end, and what may abort it? 2 calls, also of wait tools, hooks that replace calls and hooks that time out | `AbortsAreExplained`, `AttemptEnds` (under `FairSpec`) |
| `turn` | prompts, history, client view and input over retries and follow-ups; do retries end? | `EffectsAreTold`, `ClientSeesClosedCalls`, `InputAtSafeBoundary`, `CommittedInputReachedModel`, `PromptsGrow`, `SamplingRequestEnds` (under `FairSpec`) |
| `session_steering` | steering, recorders and turns interleaved: history, queue and channel; is the ledger kept? | `TypeOK`, `WatcherIsWoken`, `SignalMatchesChannel`, `SteeringStaysInItsTurn`, `ImplementsLedger` |
| `session_context` | is additional context only suppressed when shown, does the reminder precede its turn, over failed and aborted turns? | `BaselinesWereShown` (`ContextWasShown` and `ReminderPrecedesTurn`) |
| `developer` | do the developer messages of each prompt say what is set, once, and when? | `DeveloperTypeOK`, `SettingsAreTold` (`PromptShowsSettings` and `StyleIsTold`), `NoFragmentTwice`, `RemindersAreFresh` |
| `permissions` | reviews against grants recorded meanwhile, attempts that are committed or retried, and turns that return early: who may skip a review, what is a grant good for, what does the client hear? | `BypassWasPreapproved`, `GrantsWerePromised`, `FlagsFollowGrants`, `DecisionsReachTheClient` |
| `narration` | timers against work that starts and stops and an attempt that returns: one stream, about running work, and then silence? | `OneNarrationStream`, `OnlyRunningWorkIsActive`, `ActiveWorkHasTimer`, `NarratorFallsSilent` (under `FairSpec`) |
| `library` | the four parts without common state, against reference definitions | all: `LibraryTypeOK`; breaker: `TripsExactlyOnFirstExcess`; text: `ShownIsVisible`, `MessagesMatchStream`; history: `OldTextIsData` (`PriorTurnsAreDeclassified`, `RewritingIsExplained`), `PromptKeepsConversation` (`CurrentTurnIsVerbatim`, `ContinuityIsKept`); profiles: `RunsOnlyWithCapabilities`, `NothingRunsUnreviewed`, `OffersAreExact` (with `SearchFindsTheBest`) |

A property that is a conjunction of named parts is given with the parts in
parentheses; `EffectsAreTold` is `PromptTellsEffects` for every request and
`CommittedHistoryTellsEffects` for what a completed turn commits. The type
invariants of the attempt, the turn, the reviews, the narrator and the breaker
are no properties of a run of their own: they are proved (see below). That
nothing vanishes from a session's history follows from `ImplementsLedger`, whose
durable conversation is only extended.

Three more runs are expected to end in a violation. Each checks one sentence of
a comment or a document of the repository that the code does not keep:

| Run | Sentence | What happens |
|---|---|---|
| `turn_aborted` | AbortedHistory is the model-visible transcript (`runner.go:174`) | items of failed attempts, of earlier requests and steered input are missing |
| `session_lost_input` | queued input is appended at the next safe boundary (`CODEX_TEST_PARITY.md:139`) | input accepted after the last drain is cleared on completion |
| `narration_race` | buffered events wait until `response.completed` proves the attempt durable (`runner.go:540`) | a timer's unlocked append overwrites an event the receiver had buffered, and `Flush` never delivers it |

### Known departures

Six more sentences are not kept. They are stated next to the modules'
properties and no run checks them; adding the line to the `.cfg` named here
makes TLC show the behaviour.

| Formula, add to | Sentence | What happens |
|---|---|---|
| `INVARIANT AbortAnswersEveryCall`, `MCSamplingAttempt.cfg` | Drain: an aborted output for each model-visible call (`runner.go:1170`) | a call that ended with a hook, guardrail or breaker error has no output in the persisted transcript |
| `INVARIANT AbortOnlyIfCancelled`, `MCSamplingAttempt.cfg` | "tool call aborted by turn cancellation" (`runner.go:1199`) | a hook, guardrail or reviewer that ends with its own `DeadlineExceeded` or `Canceled` gives this result, and a `TurnAbortedError`, while the turn's context is live |
| `INVARIANT RetriedDecisionsReachTheClient`, `MCPermissionReviews.cfg` | approval events let clients mirror the decisions (`runner.go:1524`) | an attempt whose stream fails is retried with the effects of its tools in the prompt; what was approved for them the client never hears |
| `INVARIANT ReturnLeaksNoToolWork`, `MCSamplingAttempt.cfg` | started goroutines must be drained (`runner.go:695`) | a sink error or a protocol error returns without `Drain` |
| `INVARIANT FirstProviderStateReplayed`, `TurnLoop.cfg` | the first provider value is replayed (`runner.go:365`) | the value of an attempt that failed is dropped |
| `INVARIANT InstructionsAreVisible`, `MCSessionSteer.cfg` | suppression when the model-visible text did not change (`session.go:455`) | the baseline moves when the item is queued; a failed turn drops the item |

What else the models show, where the repository does not say clearly what should
happen:

* serial calls of one response run in the order in which their goroutines reach
  the lock (`AnnounceWriter` of any call);
* a hook that replaces a parallel call by a serial one leaves it under the read
  lock (`HookRenames`);
* the responses of a turn that fails or aborts are not charged to the budget
  (`TurnFails`, `TurnAborts`);
* two policy checks of one tool without call ids share a narration key, and the
  first to stop removes the entry of the other (the exception in
  `RunningWorkIsActive`); work that keeps starting and stopping restarts the
  delay each time and may never be narrated;
* `ClearTurn` between the two lookups of a goroutine that outlived its turn hides
  a strict flag from it (the exception in `BypassWasPreapproved`);
* a style that a model switch suppressed is not shown again when the switch's
  own text is withdrawn later;
* text streamed after a finished message without an `output_item.done` of its
  own is shown and committed only if no message had text (`runner.go:937`);
* `ValidateCapabilityProfile` accepts a handler named `tool_search`, which
  `NewSessionForProfile` then refuses; one that the principal may not see does
  not stop a session, and the synthetic tool of that name is offered all the
  same (the exception in `OffersAreExact`);
* with a reminder interval of zero every turn reminds, and a clock that goes back
  makes a later reminder tell an earlier time (the exception in
  `RemindersAreFresh`);
* `normalizeRequestPermissionsResponse` filters into the slice the responder
  returned (`request_permissions.go:163`); a responder that reuses it finds it
  overwritten.

### Bounds

* Attempt: 3 calls of tools that return by themselves, 2 when wait tools and
  replacing hooks are added. Two calls give a reader and a writer, two writers
  or two readers; the third puts a waiting writer between two readers. Breaker
  thresholds are 2 and 3 of 4, and `Init` allows a run of denials left by
  earlier attempts, so that any of the calls can trip it.
* Turn: 2 retries, 3 requests, 2 calls (in one attempt, in two attempts of a
  request, or in two requests), 1 steered input, 2 provider tokens. A request
  can fail twice with work done each time and then succeed; a token can arrive
  in a failed attempt, and two different ones in later requests.
* Session: 2 or 3 turns, 2 steering goroutines (symmetric), a queue of 2
  (16 in the code), 3 inputs, a budget of 3 with thresholds 1 and 2, so that
  one response can cross both.
* Developer messages: 3 setter calls, 3 turns, a clock of 3 readings and an
  interval of 2, two long texts that render alike; sessions with nothing set,
  everything set, or the style disabled. Set, withdrawn and set again with a
  failed turn in between needs three of each.
* Permissions: 3 calls in 2 turns, each one that needs a grant or one that asks for
  two keys, under four policies; a host that answers in either scope, strict or
  not, or in a scope nobody knows, and three times also grants a third key nobody
  asked for. One call reviews while another records and the third outlives its
  turn, and an attempt of one or two calls is committed or retried before the
  next. Calls are numbered in the order they start, so no symmetry is declared.
* Narration: 2 pieces of work with keys of their own or a shared one, hence up
  to 4 timers; one event of the receiver, with and without a buffer. Two timers
  are one too many if a generation check fails, and one event can be lost.
* Library: 11 reviews with thresholds 3 and 4 of 6, so that both can be the first
  to trip and the window slides for five reviews; texts of 8 symbols in chunks
  of 1 or 2 over two messages, with tags of two and of three symbols, one of
  them a prefix of the other; conversations of 5 items with no limit or a limit
  of one line; three tool names, one of them twice in a profile, a handler named
  `tool_search` that a change of capabilities hides, a handler whose requirement is
  malformed and one whose guardrail fails, any policy with the reviewer, the hook or
  grants alone or together, and search limits 0 to 2 against three deferred tools.
* A bound on turns or inputs is a guard; the runs of the session, of
  the developer messages, of permissions, of narration and of the library
  therefore do not check deadlock (a user may stop, and a narrator ends). The attempt and the turn end in an explicit stuttering step
  `Terminated`, and deadlock is checked there.

### Fairness

* `SamplingAttempt!FairSpec`: weak fairness for the receiver and for each
  goroutine. The Go scheduler runs every runnable goroutine; the provider's
  stream delivers or fails; `RWMutex` does not starve; handlers other than
  wait tools return. Nothing forces the user to steer or to interrupt, so
  `AttemptEnds` allows for a wait tool that is left waiting for ever.
* `TurnLoop!FairSpec`: weak fairness of the turn's own goroutine, not of
  steering or cancellation.
* `ProgressNarration!FairSpec`: weak fairness of each timer goroutine: its delay
  passes and its publication succeeds or fails. Nothing forces work to start or
  stop, the attempt to return, or the context to end; `NarratorFallsSilent`
  needs only that the attempt did return.

## Proofs

The theorems hold for every value of the constants that the modules'
assumptions (`BreakerAssumption`, `AttemptAssumption`, `TurnLoopAssumption`,
`SessionAssumption`, `BudgetAssumption`, `DeveloperAssumption`,
`PolicyAssumption`, `ReviewAssumption`, `NarrationAssumption`, `RouterAssumption`,
`ProfileAssumption`, `ProtectionAssumption`, `TextAssumption`) allow: that the
bounds are natural numbers, that sets of thresholds and of tools are finite, that
an additional-context key is not the name of another kind of item, that a tag is
not empty, and the like.

`SamplingAttempt_proofs`, any number and mix of calls, any thresholds:

| Theorem | Statement | Argument |
|---|---|---|
| `Typing` | `TypeOK` always | inductive as it stands, with lemmas on the breaker's operators (`RecordDenial` and `RecordNonDenial` keep a breaker a breaker) |
| `Exclusion` | `SerialExclusion` always | not inductive: strengthened to `LockInv`, which also keeps two announced writers apart; `AnnounceWriter`'s guard establishes that, `Lock` and `RLock` preserve it |
| `DrainKnows` (lemma) | `firstErr` and `results` agree with the outcomes received | needs that a call that is done keeps its outcome, and that only started calls are drained |
| `TrippedEnds` | `TrippedBreakerEndsAttempt` always | strengthened by "a tripped breaker sits in some call's outcome"; by `DrainKnows` the receiver, which returns `ok` or `stream` only with every call drained and no error, cannot have missed it |
| `InterruptedCommitsNothing` | `InterruptedCallCommitsNothing` always | `CallInv` ties a goroutine's place to its call's outcome: a call hit by the cancellation is still running or finishing, or ended in an error; `ResultsInv` says that every collected result stands for its call's outcome |
| `AbortsComeOfCancellations` | `AbortsAreExplained` always | by `CallInv` an outcome `cancelled` comes of a cancelled turn or of a hook that gave up, and by `ResultsInv` aborted results and that verdict come of such an outcome |
| `FinishedWorkIsKept` | `FinishedWorkSurvivesAbort` always | by `ResultsInv` every drained call that came to a response has its result, and an aborting attempt has drained every call |
| `KeepsContract` | `ImplementsContract` | `AttemptInv` joins these invariants; with it each action is one step of `AttemptContract` or a stutter: dispatch executes, `DrainNext` answers in call order, a return returns |

`TurnLoop_proofs`, any number of retries, requests, calls, inputs and tokens:

| Theorem | Statement | Argument |
|---|---|---|
| `Typing` | `TypeOK` always, in particular `attempts <= MaxModelRetries + 1` | strengthened by `RetryLeft`: a stream is opened, or a retry waited for, only while one is left |
| `Growing` | `PromptsGrow` | `PromptInv` says how prompt and history are related at each point of the loop: during a request the prompt is the history and the items of failed attempts; what is committed starts with it; afterwards the history does |
| `InputReached` | `CommittedInputReachedModel` always | `InputInv`: input is ahead of the prompt only between a drain and the next prompt, and nothing an attempt yields is input |
| `EffectsTold` | `EffectsAreTold` always | `TellInv`: at each point of the loop the transcript in hand is a `Block` of all calls so far, which answers each call once and repeats no item; blocks of adjacent calls join to a block, and what an attempt streams and drains is one (`StreamedIsBlock`) |
| `InputWaits` | `InputAtSafeBoundary` always | `TellInv` again: a transcript to which the queue is appended answers all its calls, so no call is left open behind which input could stand |
| `ClientSeesClosed` | `ClientSeesClosedCalls` always | `VisibleInv`: a call is visible without its result only between a completed attempt and its commit |

`Session_proofs`, any number of turns, steering goroutines and inputs and any
queue limit:

| Theorem | Statement | Argument |
|---|---|---|
| `Woken` | `WatcherIsWoken` always | `ChannelInv`: a watched channel is the current one, and input in the queue means it is closed |
| `ClosedOnce` | `SignalMatchesChannel` always | the same invariant; a channel that was just made is not among the closed ones |
| `WellTyped` | `TypeOK` always | `DataInv` for the transcripts, `CounterInv` for turns, phases and steering goroutines; needs the shape of `ContextItems` (from `Positions_proofs`) and bounds on the crossed thresholds |
| `SteeringStays` | `SteeringStaysInItsTurn` always | `SteerInv`: history and prompt keep steered items after their turn's user item, and what the turn has added or still has queued is for this turn or for any; that survives the concatenation when the turn ends |
| `ShownOnce` | `BaselinesWereShown` always | `ShownInv`: the last item of each remembered key in the history is the remembered one, and for the active turn the same holds of its prompt; no later item of a turn is a context item or a reminder |
| `KeepsLedger` | `ImplementsLedger` | with `ChannelInv` and `DataInv` each step is one ledger step or a stutter; `Steps` sorts the actions into recording, queueing, starting, working, ending |

`Positions_proofs` has the lemmas that these modules share: the least element of
a nonempty set of naturals (from which the induction arguments here are made),
the last position with a property, indices of a concatenation, and that `Pick`
is an increasing enumeration of its positions (`NthOf`, `NthIncreases`,
`PickShape`), and, for the recursive functions, that positions reached one by one
are all reached (`Stepwise`) and that a loop has the value its rounds give it
(`Loop`).

`DeveloperMessages_proofs`, any interval, clock, rendering and number of turns:

| Theorem | Statement | Argument |
|---|---|---|
| `WellTyped` | `DeveloperTypeOK` always | `TypeInv` with `RemindInv`: a remembered reminder is the last one in the log |
| `RemindersFresh` | `RemindersAreFresh` always | `RemindInv`: the clock has not passed the last reminder by the interval, and no two are closer than that; a new one keeps the distance to the last, hence to all |
| `FragmentsDiffer` | `NoFragmentTwice` always | `BaselineInv`: a baseline is the message of the last fragment of its kind, so a fragment that is appended differs from it |
| `SettingsTold` | `SettingsAreTold` | what a turn appends is a block with at most one fragment of each kind (`FragmentsBlock`), so the baselines after it are what was told last (`ToldStep`, `StyleStep`); picking the visible entries keeps the last of a visible kind (`VisibleTells`) |

`Library_proofs`, the breaker with any window and thresholds, profile
sessions with any profiles, tools, queries and limits, the protection of
conversations with any number of items and any limit, and texts of any length
with any tags, cut into chunks in any way:

| Theorem | Statement | Argument |
|---|---|---|
| `BreakerWellTyped` | `GuardrailReviews!TypeOK` always | from `BreakerInv` |
| `FirstExcessTrips` | `TripsExactlyOnFirstExcess` always | `BreakerInv`: the window is the last part of the log and the counter its last run of denials. `WindowCount` counts the denials of the window by a bijection to positions of the log, `RunExcess` does the same for the run, and an excess seen once stays one (`ExcessKept`) |
| `RunsGated` | `RunsOnlyWithCapabilities` always | `SessionInv`: the router holds just the visible handlers of the snapshot, one of each name; `CallAnswers` follows a call through every check |
| `RunsReviewed` | `NothingRunsUnreviewed` always | `AnswerInv`: how a call was let through (`LetThrough`) goes with the snapshot and the decision table of `approvalRequirement` (`ReviewLets`) |
| `OffersExact` | `OffersAreExact` always | `SessionInv` for what is offered, `AnswerInv` for what became of a call; `SearchIsBest` for the search: the ranking is a strict order, so each match has its own number of matches in front of it, and these numbers are all of the first ones (`SortedMatches`) |
| `HistoryWellTyped` | `HistoryTypeOK` always | from `TurnInv` |
| `OldTextStaysData` | `OldTextIsData` always | `TurnInv`: a running turn's prompt begins with a protected form (`Protects`) of the history it started with, and neither that history nor the items protected change under it. That `ProtectPromptHistory` gives such a form is `ProtectionHolds`, from what the loop of `declassifyHistoryPrefix` has made of its first items (`Rewritten`, kept by each item and by a flush) and from where the current turn starts (`StartShape`) |
| `ConversationSurvives` | `PromptKeepsConversation` always | the same invariant: `Rewritten` keeps the lines of the entries in order and accounts for each item; the suffix is compared position by position |
| `ProfileWellTyped` | `ProfileTypeOK` always | `EndInv` with `SessionInv`: a search answers with at most all deferred tools (`SearchFits`), and the router's names are distinct (`RouterNames`) |
| `TextWellTyped` | `TextTypeOK` always | from `TextInv`; `DrainReads` leaves less than a tag pending because `Keep` does (`KeepHolds`) |
| `VisibleShown` | `ShownIsVisible` always | `TextInv`, see below |
| `MessagesMatch` | `MessagesMatchStream` always | `TextInv`: at the end of a text the parser has shown and cited what the reference does (`DrainEnds`), whether the text came in chunks or is stripped whole (`FinishReads`, `StripReads`) |
| `LibraryWellTyped` | `LibraryTypeOK` always | the four type invariants, each always true in its own specification, and `OnePart` |

The heart of `TextInv` is `Reads`: the parser reads a text correctly up to now if,
however the text goes on, what it has shown and cited so far continues to what
the reference shows and cites of the whole. The claim is about all continuations
because the reference looks ahead and the parser cannot. Each tag passed keeps it
(`PassReads`), hence the loop does (`RoundsRead`); so does showing or storing what
cannot be the beginning of a tag (`TakeReads`), since no tag can begin there
whatever follows (`NoneAhead`). Citations parsed chunk by chunk and then merged
are those of all bodies parsed together (`ParseJoined`).

`PermissionReviews_proofs`, any number of concurrent calls, turns, keys, tools,
policies and host responses:

| Theorem | Statement | Argument |
|---|---|---|
| `Typing` | `TypeOK` always | strengthened by `OwnerInv`: a goroutine at work belongs to a turn that has begun |
| `Promised` | `GrantsWerePromised` always | `GrantInv`: what a goroutine still records was promised, because `GrantedOf` drops strict session responses and unasked keys |
| `Flags` | `FlagsFollowGrants` always | `GrantInv` also says that a goroutine at work whose turn is over is known to have outlived it; only such a one records for that turn after `ClearTurn` |
| `Preapproval` | `BypassWasPreapproved` always | `BypassInv`: between the two lookups the grant the first one found is still there, for only `ClearTurn` removes grants; so at the second lookup both answers hold at once |
| `DecisionsTold` | `DecisionsReachTheClient` always | `DecisionInv`: `ReviewOf` ties what became of a call to the policy, and its attached events to that, through every error and answer; `ClientOf` says that the client has heard a beginning of those events and only of a call that is done, and all of them if the call's attempt was committed |

`ProgressNarration_proofs`, any number of pieces of work and any sharing of keys:

| Theorem | Statement | Argument |
|---|---|---|
| `Typing` | `TypeOK` always | inductive in two parts: the narrator with its timers, and the buffer with the client's log |
| `OnlyRunning` | `OnlyRunningWorkIsActive` always | `EntryInv`: an entry stands under the key of its own work, and a closed narrator has none |
| `Running` | `RunningWorkIsActive` always | inductive as it stands |
| `OneStream` | `OneNarrationStream` always | `StreamInv`: no timer that is alive has a generation still to come |
| `HasTimer` | `ActiveWorkHasTimer` always | with `EntryInv`: a timer of the current generation never finds the narrator closed or idle |
| `Invisible` | `FailedAttemptIsInvisible` always | inductive as it stands |

Two of these statements had to be corrected before they could be proved; the
model checker's instances had not shown it. `RemindersAreFresh` claimed that
reminders never tell an earlier time than the one before, which an interval of
zero with a clock going back refutes; `OffersAreExact` claimed that the session
offers nothing under the name of a hidden handler only, which a hidden handler
named `tool_search` refutes: it now counts that name apart. Both cases are named
in the statements, and the second is in the library run's profiles.

Only model-checked is liveness (`AttemptEnds`, `SamplingRequestEnds`,
`NarratorFallsSilent`), which is outside what the prover does. Every invariant and
every action property of the passing runs is a theorem, and so are both
refinements.

Recursive functions (`Passes`, the loops of `AssistantText`, its reference) are
reasoned about without an induction theorem: a least number of rounds after which
a claim fails would be the successor of one after which it holds.

## Plan

Order of work, the most important behaviour first:

1. `SamplingAttempt` with its contract and the breaker (done, with theorems).
2. `TurnLoop` over the contract (done, with theorems).
3. `Session` and `RolloutBudget` (done, with theorems).
4. `PermissionReviews` over the store and the policy (done, with theorems).
5. `ProgressNarration` with the buffered sink (done, with theorems).
6. `DeveloperMessages` (done, with theorems).
7. The parts without common state: `ToolRouter` and `ProfileSession` (done, with
   theorems), `HistoryProtection` (done, with theorems), `AssistantText` (done,
   with theorems).
8. `SessionLedger` and `AttemptContract`, implemented by `Session` and
   `SamplingAttempt` (done, proved).

Left: the six formulas of "Known departures", whose weaker true forms could be
stated and proved, and the parts below that are not modelled.

## Not modelled

Image preparation (pixel arithmetic and codecs), decoding of command output,
argument validation of the built-in tools, formatting and clone helpers, the
markup of hook prompts and contextual fragments (text matching without state),
`Store.StrictAutoReview` (a query nothing in the sources calls), the context
values a profile session hands to hooks and handlers, turn metrics (wall-clock values no decision
reads), the facade `dexco.go` (aliases) and the empty command. Floating-point
token weights are taken as already applied to a response's cost.
