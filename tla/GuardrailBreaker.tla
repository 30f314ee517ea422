-------------------------- MODULE GuardrailBreaker --------------------------
(***************************************************************************)
(* The circuit breaker a turn keeps over its guardrail reviews, type       *)
(* guardrailDenialCircuitBreaker of internal/runner/runner.go.  The type   *)
(* is a mutex around three fields; its two methods are the operators       *)
(* RecordDenial and RecordNonDenial on a record of those fields.           *)
(***************************************************************************)
EXTENDS Integers, Sequences, FiniteSets

CONSTANTS MaxConsecutiveDenials, \* 3 in the code
          MaxRecentDenials,      \* 10 in the code
          DenialWindowSize       \* 50 in the code

ASSUME BreakerAssumption ==
  /\ MaxConsecutiveDenials \in Nat \ {0}
  /\ MaxRecentDenials \in Nat \ {0}
  /\ DenialWindowSize \in Nat \ {0}

\* The zero value RunTurnWithOptions starts every turn with.
NewBreaker == [consecutive |-> 0, recent |-> <<>>, tripped |-> FALSE]

Breakers == [consecutive : Nat, recent : Seq(BOOLEAN), tripped : BOOLEAN]

\* The window keeps the last DenialWindowSize reviews, the oldest first.
RecordRecentReview(window, denied) ==
  IF Len(window) < DenialWindowSize
    THEN Append(window, denied)
    ELSE Tail(Append(window, denied))

CountDenials(window) == Cardinality({i \in DOMAIN window : window[i]})

\* recordDenial returns its one error on the denial that sets tripped.
RecordDenial(b) ==
  LET consecutive == b.consecutive + 1
      recent      == RecordRecentReview(b.recent, TRUE)
  IN  [consecutive |-> consecutive,
       recent      |-> recent,
       tripped     |-> \/ b.tripped
                       \/ consecutive >= MaxConsecutiveDenials
                       \/ CountDenials(recent) >= MaxRecentDenials]

DenialTrips(b) == ~b.tripped /\ RecordDenial(b).tripped

\* Mutated form: an approval forgets the earlier denials altogether.
RecordNonDenialForgets(b) ==
  [b EXCEPT !.consecutive = 0, !.recent = <<>>]

\* An approved call ends the run of denials; the window remembers them.
RecordNonDenial(b) ==
  [b EXCEPT !.consecutive = 0, !.recent = RecordRecentReview(b.recent, FALSE)]

=============================================================================
