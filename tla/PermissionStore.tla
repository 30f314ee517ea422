--------------------------- MODULE PermissionStore ---------------------------
(***************************************************************************)
(* internal/permissions/store.go: which grant keys the host has approved,  *)
(* for one turn or for the session.  Each operator is one critical section *)
(* of Store.mu; a missing inner map is an empty set.                       *)
(***************************************************************************)
EXTENDS Naturals

CONSTANTS
  Keys,    \* the grant keys
  MaxTurns \* bound on the turns of a session

Turns == 1 .. MaxTurns
Scopes == {"turn", "session", "unknown"}

NewStore ==
  [session |-> {}, turns |-> [t \in Turns |-> {}], strict |-> [t \in Turns |-> {}]]

Stores ==
  [session : SUBSET Keys, turns : [Turns -> SUBSET Keys],
   strict : [Turns -> SUBSET Keys]]

\* A scope the store does not know is an error and records nothing; the
\* runner always supplies a turn and the handler a non-empty key.
RecordFails(scope) == scope \notin {"turn", "session"}

\* Session scope ignores the strict flag; a turn grant that is recorded again
\* without it loses the flag for that key only.
Record(store, t, k, scope, strictAutoReview) ==
  IF scope = "session" THEN [store EXCEPT !.session = @ \cup {k}]
  ELSE [store EXCEPT !.turns[t] = @ \cup {k},
                     !.strict[t] = IF strictAutoReview THEN @ \cup {k} ELSE @ \ {k}]

Has(store, t, k) == k \in store.session \/ k \in store.turns[t]

StrictAutoReviewForGrant(store, t, k) == k \in store.strict[t]

\* Mutated form: the strict flags stay.
ClearTurnForgetsGrantsOnly(store, t) == [store EXCEPT !.turns[t] = {}]

ClearTurn(store, t) == [store EXCEPT !.turns[t] = {}, !.strict[t] = {}]

\* What the two lookups of a review are after: the key is granted, and no
\* strict flag of the turn sends the call to the reviewer all the same.
Preapproved(store, t, k) ==
  Has(store, t, k) /\ ~StrictAutoReviewForGrant(store, t, k)

=============================================================================
