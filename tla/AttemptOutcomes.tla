--------------------------- MODULE AttemptOutcomes ---------------------------
(***************************************************************************)
(* What the returns of receiveSamplingAttempt (internal/runner/runner.go)  *)
(* mean to runSamplingRequest, in terms of the tool calls 1..n the model   *)
(* requested and the sequence res of results that answer them.             *)
(***************************************************************************)
EXTENDS Integers, Sequences

Answered(res) == {res[i].call : i \in DOMAIN res}

(***************************************************************************)
(* "ok"         the response completed: every call is answered             *)
(* "stream"     the stream failed: a retry may follow, so every call that  *)
(*              was requested is answered by what it did                   *)
(* "cancelled"  the turn is aborted (interrupted, or a hook of a call timed *)
(*              out by itself): some call is answered "aborted"            *)
(* "tripped", "fatal", "rejected"  the turn fails and nothing is kept      *)
(***************************************************************************)
Allowed(n, res, v) ==
  CASE v \in {"ok", "stream"} ->
         /\ Answered(res) = 1 .. n
         /\ \A i \in DOMAIN res : res[i].kind # "aborted"
    [] v = "cancelled" -> \E i \in DOMAIN res : res[i].kind = "aborted"
    [] OTHER           -> TRUE

=============================================================================
