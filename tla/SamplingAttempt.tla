--------------------------- MODULE SamplingAttempt ---------------------------
(***************************************************************************)
(* One sampling attempt of internal/runner/runner.go: the goroutine in     *)
(* receiveSamplingAttempt reads the provider's stream and starts a         *)
(* goroutine for every completed tool call (inFlightToolDispatcher.Start)  *)
(* while the stream is still open; the goroutines pass the dispatcher's    *)
(* RWMutex, the hooks, the guardrail review and the handler; the receiver  *)
(* drains them in call order and returns a verdict.                        *)
(*                                                                         *)
(* Tool calls are numbered in the order of the stream.  Text, reasoning    *)
(* and hosted items change no control state and are left out, except that  *)
(* publishing any of them may fail (ReceiveRejected).                      *)
(***************************************************************************)
EXTENDS GuardrailBreaker

CONSTANTS
  MaxCalls,    \* bound on the tool calls of one attempt
  ToolKinds,   \* the kinds of tool the model may call
  HookRenames, \* may BeforeToolCall replace the call by one of another kind?
  HookErrors   \* the errors hooks, guardrails and reviewers may return:
               \* "cancelled" holds a context.Canceled or DeadlineExceeded of
               \* its own (a hook's timeout), "fatal" does not

ASSUME AttemptAssumption ==
  /\ MaxCalls \in Nat
  /\ ToolKinds \subseteq [shared : BOOLEAN, waits : BOOLEAN]
  /\ ToolKinds # {}
  /\ HookRenames \in BOOLEAN
  /\ HookErrors \subseteq {"fatal", "cancelled"}

Calls == 1 .. MaxCalls

VARIABLES
  rpc,       \* where receiveSamplingAttempt is
  ending,    \* how the stream ended
  started,   \* length of the dispatcher's pending list: calls 1..started
  kind,      \* the kind of each call as the model requested it
  runs,      \* the kind of each call after BeforeToolCall
  pc,        \* where each call's goroutine is
  outcome,   \* what each call's goroutine sends on its result channel
  executed,  \* the calls whose handler ran
  breaker,   \* the turn's guardrailDenialCircuitBreaker
  cancelled, \* the turn's context is done
  activity,  \* the pending-input activity channel is closed
  drained,   \* how many pending results Drain has received
  results,   \* the results Drain has collected
  firstErr,  \* Drain's firstErr
  verdict,   \* what receiveSamplingAttempt returned
  hit,       \* history: the calls whose handler was running at cancellation
  gaveUp     \* history: the calls one of whose hooks, guardrail or reviewer
             \* returned a "cancelled" error of its own

receiver == <<rpc, ending, started, kind>>
drain    == <<drained, results, firstErr, verdict>>
tools    == <<runs, pc, outcome, executed, breaker, gaveUp>>
context  == <<cancelled, activity, hit>>
vars     == <<receiver, drain, tools, context>>

\* The goroutine holds the dispatcher's lock from Lock or RLock to the
\* deferred unlock of dispatch.
Held == {"entered", "reviewed", "denied", "running", "finished"}
Places == {"idle", "spawned", "announced", "done"} \cup Held
Responses == {"success", "failed", "denied"}
Errors == {"cancelled", "fatal", "tripped"}

TypeOK ==
  /\ rpc \in {"receive", "drain", "returned"}
  /\ ending \in {"open", "completed", "failed"}
  /\ started \in 0 .. MaxCalls
  /\ kind \in [Calls -> ToolKinds]
  /\ runs \in [Calls -> ToolKinds]
  /\ pc \in [Calls -> Places]
  /\ outcome \in [Calls -> {"none"} \cup Responses \cup Errors]
  /\ executed \subseteq Calls
  /\ breaker \in Breakers
  /\ cancelled \in BOOLEAN
  /\ activity \in BOOLEAN
  /\ drained \in 0 .. MaxCalls
  /\ results \in Seq([call : Calls, kind : Responses \cup {"aborted"}])
  /\ firstErr \in {"none"} \cup Errors
  /\ verdict \in {"none", "ok", "stream", "cancelled", "fatal", "tripped",
                  "rejected"}
  /\ hit \subseteq Calls
  /\ gaveUp \subseteq Calls

\* The activity channel concerns only tools that wait for it.
Observed == \E k \in ToolKinds : k.waits

\* Earlier attempts of the turn may have left a run of denials behind.
DenialsSoFar(n) ==
  [consecutive |-> n, recent |-> [i \in 1 .. n |-> TRUE], tripped |-> FALSE]

Init ==
  /\ rpc = "receive"
  /\ ending = "open"
  /\ started = 0
  /\ kind \in [Calls -> ToolKinds]
  /\ runs = kind
  /\ pc = [c \in Calls |-> "idle"]
  /\ outcome = [c \in Calls |-> "none"]
  /\ executed = {}
  /\ \E n \in 0 .. (MaxConsecutiveDenials - 1) :
       n < MaxRecentDenials /\ n <= DenialWindowSize /\ breaker = DenialsSoFar(n)
  /\ cancelled = FALSE
  /\ activity \in BOOLEAN /\ (activity => Observed)
  /\ drained = 0
  /\ results = <<>>
  /\ firstErr = "none"
  /\ verdict = "none"
  /\ hit = {}
  /\ gaveUp = {}

-----------------------------------------------------------------------------
(***************************************************************************)
(* The receiver.                                                           *)
(***************************************************************************)
\* output_item.done with a tool call: publish it, then Start its goroutine.
ReceiveToolCall ==
  /\ rpc = "receive"
  /\ started < MaxCalls
  /\ started' = started + 1
  /\ pc' = [pc EXCEPT ![started + 1] = "spawned"]
  /\ UNCHANGED <<rpc, ending, kind, runs, outcome, executed, breaker, gaveUp>>
  /\ UNCHANGED <<drain, context>>

\* response.completed, or Recv failing before it: both go on to Drain.
StreamEnds(how) ==
  /\ rpc = "receive"
  /\ rpc' = "drain"
  /\ ending' = how
  /\ UNCHANGED <<started, kind, drain, tools, context>>

ReceiveCompleted == StreamEnds("completed")
ReceiveFails == StreamEnds("failed")

\* A sink error on any event, an output_item.done without an item and an
\* unknown event type return at once, without Drain.
ReceiveRejected ==
  /\ rpc = "receive"
  /\ rpc' = "returned"
  /\ verdict' = "rejected"
  /\ UNCHANGED <<ending, started, kind, drained, results, firstErr>>
  /\ UNCHANGED <<tools, context>>

Result(c, k) == [call |-> c, kind |-> k]

\* Mutated form: nothing is collected after the first error.
AnswerUntilError(c) ==
  CASE firstErr # "none"          -> <<>>
    [] outcome[c] = "cancelled"   -> <<Result(c, "aborted")>>
    [] outcome[c] \in Responses   -> <<Result(c, outcome[c])>>
    [] OTHER                      -> <<>>

\* What Drain collects for a call: its result, a synthetic aborted result if
\* it was cancelled, nothing for any other error.
AnswerTo(c) ==
  CASE outcome[c] = "cancelled"   -> <<Result(c, "aborted")>>
    [] outcome[c] \in Responses   -> <<Result(c, outcome[c])>>
    [] OTHER                      -> <<>>

\* Drain receives the next call's outcome and keeps the first error.
DrainNext ==
  LET c == drained + 1
  IN  /\ rpc = "drain"
      /\ drained < started
      /\ pc[c] = "done"
      /\ drained' = c
      /\ firstErr' = IF outcome[c] \in Errors /\ firstErr = "none"
                       THEN outcome[c] ELSE firstErr
      /\ results' = results \o AnswerTo(c)
      /\ UNCHANGED <<verdict, receiver, tools, context>>

\* Mutated form: the attempt returns without waiting for every call.
DrainEndsEarly ==
  /\ rpc = "drain"
  /\ rpc' = "returned"
  /\ \/ firstErr # "none" /\ verdict' = firstErr
     \/ firstErr = "none" /\ ending = "failed" /\ verdict' = "stream"
     \/ firstErr = "none" /\ ending = "completed" /\ verdict' \in {"ok", "fatal"}
  /\ UNCHANGED <<ending, started, kind, drained, results, firstErr>>
  /\ UNCHANGED <<tools, context>>

\* Drain's error wins over the stream's.  A completed attempt may still fail
\* to publish the tail of its text.
DrainEnds ==
  /\ rpc = "drain"
  /\ drained = started
  /\ rpc' = "returned"
  /\ \/ firstErr # "none" /\ verdict' = firstErr
     \/ firstErr = "none" /\ ending = "failed" /\ verdict' = "stream"
     \/ firstErr = "none" /\ ending = "completed" /\ verdict' \in {"ok", "fatal"}
  /\ UNCHANGED <<ending, started, kind, drained, results, firstErr>>
  /\ UNCHANGED <<tools, context>>

Receiver ==
  \/ ReceiveToolCall
  \/ ReceiveCompleted
  \/ ReceiveFails
  \/ ReceiveRejected
  \/ DrainNext
  \/ DrainEnds

-----------------------------------------------------------------------------
(***************************************************************************)
(* The dispatcher's sync.RWMutex.  A writer first excludes other writers   *)
(* and turns new readers away (announced), then waits for the readers      *)
(* inside.  Which of several waiting goroutines gets in next is left open. *)
(***************************************************************************)
Writer(c) == ~kind[c].shared /\ pc[c] \in Held \cup {"announced"}

NoWriter == \A d \in Calls : ~Writer(d)

Move(c, place) == pc' = [pc EXCEPT ![c] = place]

AnnounceWriter(c) ==
  /\ pc[c] = "spawned"
  /\ ~kind[c].shared
  /\ NoWriter
  /\ Move(c, "announced")
  /\ UNCHANGED <<runs, outcome, executed, breaker, gaveUp, receiver, drain, context>>

Lock(c) ==
  /\ pc[c] = "announced"
  /\ \A d \in Calls : kind[d].shared => pc[d] \notin Held
  /\ Move(c, "entered")
  /\ UNCHANGED <<runs, outcome, executed, breaker, gaveUp, receiver, drain, context>>

\* Mutated form: every call takes the read lock.
RLockAny(c) ==
  /\ pc[c] = "spawned"
  /\ NoWriter
  /\ Move(c, "entered")
  /\ UNCHANGED <<runs, outcome, executed, breaker, gaveUp, receiver, drain, context>>

RLock(c) ==
  /\ pc[c] = "spawned"
  /\ kind[c].shared
  /\ NoWriter
  /\ Move(c, "entered")
  /\ UNCHANGED <<runs, outcome, executed, breaker, gaveUp, receiver, drain, context>>

-----------------------------------------------------------------------------
(***************************************************************************)
(* dispatchOneToolCallWithToolContext.  Returning releases the lock and    *)
(* sends the outcome on the buffered result channel.                       *)
(***************************************************************************)
Return(c, e) ==
  /\ Move(c, "done")
  /\ outcome' = [outcome EXCEPT ![c] = e]

\* A hook, the guardrail or the reviewer ends in an error.  Every one of them
\* is wrapped with %w, and Drain asks errors.Is whether the chain holds a
\* cancellation: it cannot tell a hook's own timeout from the turn's end.
HookFails(c) ==
  \E e \in HookErrors :
    /\ Return(c, e)
    /\ gaveUp' = IF e = "cancelled" THEN gaveUp \cup {c} ELSE gaveUp

\* ctx.Err, BeforeToolCall (which may replace the call) and reviewToolCall.
Review(c) ==
  /\ pc[c] = "entered"
  /\ \/ /\ cancelled
        /\ Return(c, "cancelled")
        /\ UNCHANGED <<runs, gaveUp>>
     \/ /\ ~cancelled
        /\ \E k \in (IF HookRenames THEN ToolKinds ELSE {kind[c]}) :
             runs' = [runs EXCEPT ![c] = k]
        /\ \/ /\ \E place \in {"reviewed", "denied"} : Move(c, place)
              /\ UNCHANGED <<outcome, gaveUp>>
           \/ HookFails(c)
  /\ UNCHANGED <<executed, breaker, receiver, drain, context>>

\* The second ctx.Err comes before the denial is recorded or returned.
AbortAfterReview(c) ==
  /\ pc[c] \in {"reviewed", "denied"}
  /\ cancelled
  /\ Return(c, "cancelled")
  /\ UNCHANGED <<runs, executed, breaker, gaveUp, receiver, drain, context>>

\* Mutated form: the breaker's error is dropped.
DenyWithoutTrip(c) ==
  /\ pc[c] = "denied"
  /\ ~cancelled
  /\ breaker' = RecordDenial(breaker)
  /\ Return(c, "denied")
  /\ UNCHANGED <<runs, executed, gaveUp, receiver, drain, context>>

Deny(c) ==
  /\ pc[c] = "denied"
  /\ ~cancelled
  /\ breaker' = RecordDenial(breaker)
  /\ Return(c, IF DenialTrips(breaker) THEN "tripped" ELSE "denied")
  /\ UNCHANGED <<runs, executed, gaveUp, receiver, drain, context>>

\* recordNonDenial, the lifecycle start hook, then DispatchWithOutcome: an
\* unknown tool fails without a handler being executed.
Dispatch(c) ==
  /\ pc[c] = "reviewed"
  /\ ~cancelled
  /\ breaker' = RecordNonDenial(breaker)
  /\ \/ /\ Move(c, "running")
        /\ executed' = executed \cup {c}
        /\ UNCHANGED <<outcome, gaveUp>>
     \/ /\ Move(c, "finished")
        /\ outcome' = [outcome EXCEPT ![c] = "failed"]
        /\ UNCHANGED <<executed, gaveUp>>
     \/ /\ HookFails(c)
        /\ UNCHANGED executed
  /\ UNCHANGED <<runs, receiver, drain, context>>

\* Mutated form: pending input does not reach the tool's context.
ToolContextDoneOnlyByCancel(c) == cancelled

\* toolContext: derived from the turn's context, and cancelled by pending
\* input when the call as requested opted in.
ToolContextDone(c) == cancelled \/ (kind[c].waits /\ activity)

\* Handlers return failed results rather than errors; a wait tool returns
\* when its context ends.
HandlerReturns(c) ==
  /\ pc[c] = "running"
  /\ runs[c].waits => ToolContextDone(c)
  /\ Move(c, "finished")
  /\ \E response \in {"success", "failed"} :
       outcome' = [outcome EXCEPT ![c] = response]
  /\ UNCHANGED <<runs, executed, breaker, gaveUp, receiver, drain, context>>

\* Mutated form: no ctx.Err after the handler.
FinishUnchecked(c) ==
  /\ pc[c] = "finished"
  /\ \/ Return(c, outcome[c]) /\ UNCHANGED gaveUp
     \/ HookFails(c)
  /\ UNCHANGED <<runs, executed, breaker, receiver, drain, context>>

\* Mutated form: the tool's context is checked instead of the turn's.
FinishOnToolContext(c) ==
  /\ pc[c] = "finished"
  /\ \/ ToolContextDone(c) /\ Return(c, "cancelled") /\ UNCHANGED gaveUp
     \/ ~ToolContextDone(c) /\ Return(c, outcome[c]) /\ UNCHANGED gaveUp
     \/ HookFails(c)
  /\ UNCHANGED <<runs, executed, breaker, receiver, drain, context>>

\* The lifecycle finish hook, the third ctx.Err, then AfterToolCall.
Finish(c) ==
  /\ pc[c] = "finished"
  /\ \/ cancelled /\ Return(c, "cancelled") /\ UNCHANGED gaveUp
     \/ ~cancelled /\ Return(c, outcome[c]) /\ UNCHANGED gaveUp
     \/ HookFails(c)
  /\ UNCHANGED <<runs, executed, breaker, receiver, drain, context>>

Goroutine(c) ==
  \/ AnnounceWriter(c)
  \/ Lock(c)
  \/ RLock(c)
  \/ Review(c)
  \/ AbortAfterReview(c)
  \/ Deny(c)
  \/ Dispatch(c)
  \/ HandlerReturns(c)
  \/ Finish(c)

-----------------------------------------------------------------------------
\* The caller's context ends: an interrupt or a deadline.
Cancel ==
  /\ ~cancelled
  /\ cancelled' = TRUE
  /\ hit' = {c \in Calls : pc[c] = "running"}
  /\ UNCHANGED <<activity, receiver, drain, tools>>

\* Session.SteerUserInput and the context recorders close the activity channel.
PendingInputArrives ==
  /\ Observed
  /\ ~activity
  /\ activity' = TRUE
  /\ UNCHANGED <<cancelled, hit, receiver, drain, tools>>

Quiet == rpc = "returned" /\ \A c \in Calls : pc[c] \in {"idle", "done"}

\* Every goroutine is gone: the attempt is over.
Terminated == Quiet /\ UNCHANGED vars

Next ==
  \/ Receiver
  \/ \E c \in Calls : Goroutine(c)
  \/ Cancel
  \/ PendingInputArrives
  \/ Terminated

Spec == Init /\ [][Next]_vars

\* Goroutines are scheduled; the provider's stream delivers or fails; a
\* handler other than a wait tool returns.  Nothing makes the user steer or
\* interrupt.
Fairness ==
  /\ WF_vars(Receiver)
  /\ \A c \in Calls : WF_vars(Goroutine(c))

FairSpec == Spec /\ Fairness

-----------------------------------------------------------------------------
(***************************************************************************)
(* Properties.                                                             *)
(***************************************************************************)

\* The lock of dispatch: a call the runner classified as serial holds the
\* dispatcher alone, whatever mix of readers and writers is queued.
SerialExclusion ==
  \A c, d \in Calls :
    c # d /\ pc[c] \in Held /\ pc[d] \in Held => kind[c].shared /\ kind[d].shared

Contract == INSTANCE AttemptContract WITH calls <- started

\* Whatever the goroutines do, the caller sees the abstract attempt: answers
\* in call order, one at most per call and all of them when the attempt
\* completes or may be retried, denied calls never executed, and no handler
\* started behind the caller's back after a drained return.
ImplementsContract == Contract!Spec

\* A handler that was running when the turn was cancelled never contributes
\* a result, and such an attempt is neither committed nor retried (comment
\* at the third ctx.Err of dispatchOneToolCallWithToolContext).
InterruptedCallCommitsNothing ==
  /\ \A i \in DOMAIN results : results[i].call \in hit => results[i].kind = "aborted"
  /\ hit # {} => verdict \notin {"ok", "stream"}

\* The breaker's one error is enough: once the turn's breaker has tripped, no
\* interleaving of later denials, approvals and the drain lets the attempt
\* be committed or retried.
TrippedBreakerEndsAttempt ==
  breaker.tripped => verdict \notin {"ok", "stream"}

\* While the turn's own context is live, only a call one of whose own hooks
\* ended in a cancellation is answered "aborted", and only such a call aborts
\* the turn.  Steering cancels the context of a wait tool and aborts nothing:
\* what the tool returns enters the transcript as an ordinary result.
AbortsAreExplained ==
  ~cancelled =>
    /\ \A i \in DOMAIN results :
         results[i].kind = "aborted" => results[i].call \in gaveUp
    /\ verdict = "cancelled" => gaveUp # {}

\* In an aborted attempt the calls that did finish keep their real results,
\* also those drained after the first error.
FinishedWorkSurvivesAbort ==
  verdict = "cancelled" =>
    \A c \in 1 .. started :
      outcome[c] \in Responses =>
        \E i \in DOMAIN results : results[i] = [call |-> c, kind |-> outcome[c]]

\* c waits for pending input, and neither steering nor an interrupt has told
\* it to stop.  (A wait tool that a hook put in place of another kind of call
\* is not told of steering.)
Waiting(c) ==
  /\ pc[c] = "running" /\ runs[c].waits
  /\ ~cancelled /\ ~(kind[c].waits /\ activity)

\* Unless a wait tool is left waiting, the receiver and every goroutine come to
\* an end: nobody waits forever on the lock, on a wait tool or in Drain.
AttemptEnds == <>Quiet \/ []<>(\E c \in Calls : Waiting(c))

-----------------------------------------------------------------------------
(***************************************************************************)
(* What comments of the code claim and the code does not keep.             *)
(***************************************************************************)

\* "Codex records an aborted output for each tool call that had already
\* become model-visible" (Drain).
AbortAnswersEveryCall ==
  verdict = "cancelled" => Contract!Answered(results) = 1 .. started

\* "tool call aborted by turn cancellation" (abortedToolDispatchResult): said
\* of a call whose own hook timed out, while nobody cancelled the turn.
AbortOnlyIfCancelled ==
  ~cancelled =>
    verdict # "cancelled" /\ \A i \in DOMAIN results : results[i].kind # "aborted"

\* "those goroutines must be drained before retry/error propagation so Dexco
\* never leaks tool work" (receiveSamplingAttempt).
ReturnLeaksNoToolWork ==
  rpc = "returned" => \A c \in Calls : pc[c] \in {"idle", "done"}

=============================================================================
