---------------------------- MODULE RolloutBudget ----------------------------
(***************************************************************************)
(* The token budget a session keeps over its turns: rolloutBudgetState of  *)
(* internal/session/session.go.  Tokens arrive weighted; the weights are   *)
(* floating point in the code and natural numbers here.                    *)
(***************************************************************************)
EXTENDS Integers, FiniteSets

CONSTANTS Limit,       \* LimitTokens; the session has no budget if it is 0
          Thresholds   \* ReminderAtRemainingTokens

ASSUME BudgetAssumption ==
  Limit \in Nat /\ Thresholds \subseteq Nat /\ IsFiniteSet(Thresholds)

\* newRolloutBudgetState drops the thresholds that cannot be crossed.  The
\* reminder -1 stands for "none delivered yet".
NewBudget == [used |-> 0, reminded |-> -1, exhausted |-> FALSE]

Budgets == [used : Nat, reminded : -1 .. Cardinality(Thresholds), exhausted : BOOLEAN]

Remaining(b) == IF b.used > Limit THEN 0 ELSE Limit - b.used

\* How many thresholds the remaining tokens have crossed.
ReminderIndex(b) ==
  Cardinality({t \in Thresholds : 0 < t /\ t < Limit /\ Remaining(b) <= t})

NeedsReminder(b) == Limit > 0 /\ b.reminded < ReminderIndex(b)

Reminded(b) == [b EXCEPT !.reminded = ReminderIndex(b)]

\* recordUsage for every usage of a turn: only their sum matters.
Charge(b, tokens) ==
  IF Limit = 0 THEN b
  ELSE [b EXCEPT !.used = b.used + tokens,
                 !.exhausted = b.exhausted \/ (tokens > 0 /\ b.used + tokens >= Limit)]

=============================================================================
