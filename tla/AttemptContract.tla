--------------------------- MODULE AttemptContract ---------------------------
(***************************************************************************)
(* What runSamplingRequest may rely on when receiveSamplingAttempt returns *)
(* (internal/runner/runner.go): the tool calls the model requested, the    *)
(* results that answer them and the verdict, as a small abstract machine.  *)
(* SamplingAttempt implements it; TurnLoop is built on Allowed alone.      *)
(***************************************************************************)
EXTENDS AttemptOutcomes

CONSTANT MaxCalls  \* bound on the tool calls of one attempt

VARIABLES calls,     \* calls 1..calls were requested, in this order
          executed,  \* the calls whose handler ran
          results,   \* the answers, in the order they enter the transcript
          verdict    \* "none" until the attempt returns

vars == <<calls, executed, results, verdict>>

Init ==
  /\ calls = 0
  /\ executed = {}
  /\ results = <<>>
  /\ verdict = "none"

\* Requests stop before the first answer.
Request ==
  /\ verdict = "none"
  /\ results = <<>>
  /\ calls < MaxCalls
  /\ calls' = calls + 1
  /\ UNCHANGED <<executed, results, verdict>>

\* A handler runs at most once, only before its call is answered, and never
\* after the attempt returned (unless the attempt was rejected).
Execute(c) ==
  /\ verdict \in {"none", "rejected"}
  /\ c \notin executed \cup Answered(results)
  /\ executed' = executed \cup {c}
  /\ UNCHANGED <<calls, results, verdict>>

\* Answers come in call order; success means the handler ran, denied that it
\* never did.
Answer(c, k) ==
  /\ verdict = "none"
  /\ \A a \in Answered(results) : a < c
  /\ k = "success" => c \in executed
  /\ k = "denied" => c \notin executed
  /\ results' = Append(results, [call |-> c, kind |-> k])
  /\ UNCHANGED <<calls, executed, verdict>>

Return(v) ==
  /\ verdict = "none"
  /\ Allowed(calls, results, v)
  /\ verdict' = v
  /\ UNCHANGED <<calls, executed, results>>

Next ==
  \/ Request
  \/ \E c \in 1 .. calls : Execute(c)
  \/ \E c \in 1 .. calls : \E k \in {"success", "failed", "denied", "aborted"} :
       Answer(c, k)
  \/ \E v \in {"ok", "stream", "cancelled", "fatal", "tripped", "rejected"} :
       Return(v)

Spec == Init /\ [][Next]_vars

=============================================================================
