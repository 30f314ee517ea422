-------------------------- MODULE GuardrailReviews --------------------------
(***************************************************************************)
(* A turn's breaker under any sequence of reviews.  The mutex makes each   *)
(* method one step, so the goroutines of parallel tool calls contribute an *)
(* arbitrary interleaving of denials and non-denials.  The history         *)
(* variable log remembers every review, which the code does not, and says  *)
(* what the bounded fields stand for.                                      *)
(***************************************************************************)
EXTENDS GuardrailBreaker

CONSTANT MaxReviews  \* bound on the reviews of one turn

VARIABLES breaker,  \* the shared circuit breaker
          log,      \* every review so far, TRUE for a denial
          errors    \* the reviews whose recordDenial returned the error

vars == <<breaker, log, errors>>

TypeOK ==
  /\ breaker \in Breakers /\ Len(breaker.recent) <= DenialWindowSize
  /\ log \in Seq(BOOLEAN)
  /\ errors \subseteq 1 .. Len(log)

Init ==
  /\ breaker = NewBreaker
  /\ log = <<>>
  /\ errors = {}

Deny ==
  /\ Len(log) < MaxReviews
  /\ breaker' = RecordDenial(breaker)
  /\ log' = Append(log, TRUE)
  /\ errors' = IF DenialTrips(breaker) THEN errors \cup {Len(log')} ELSE errors

Approve ==
  /\ Len(log) < MaxReviews
  /\ breaker' = RecordNonDenial(breaker)
  /\ log' = Append(log, FALSE)
  /\ UNCHANGED errors

Next == Deny \/ Approve

Spec == Init /\ [][Next]_vars

(***************************************************************************)
(* The breaker in terms of the whole review history.                       *)
(***************************************************************************)
\* The reviews 1..k end in n denials in a row.
EndsInDenials(k, n) == k >= n /\ \A i \in (k - n + 1) .. k : log[i]

\* The denials among the last DenialWindowSize of the reviews 1..k.
DenialsInWindow(k) ==
  {i \in 1 .. k : log[i] /\ i > k - DenialWindowSize}

MustTripAt(k) ==
  /\ log[k]
  /\ \/ EndsInDenials(k, MaxConsecutiveDenials)
     \/ Cardinality(DenialsInWindow(k)) >= MaxRecentDenials

\* The turn is interrupted by exactly the first review that completes either
\* three denials in a row or ten among the last fifty, however the denials
\* were spread, and by no other review (recordDenial returns one error).
TripsExactlyOnFirstExcess ==
  errors = {k \in 1 .. Len(log) :
              /\ MustTripAt(k)
              /\ \A j \in 1 .. (k - 1) : ~MustTripAt(j)}

=============================================================================
