-------------------------- MODULE MCPermissionReviews --------------------------
EXTENDS PermissionReviews

CONSTANTS k1, k2, k3

ToolChoices ==
  {[requirement |-> "required", key |-> k1, asks |-> <<>>],
   [requirement |-> "none", key |-> None, asks |-> <<k2, k1>>]}

\* The host grants both keys of the request for the turn, one of them for the
\* turn under strict review or for the session, and each time a key nobody
\* asked for; or it gives an answer that grants nothing.
HostResponses ==
  {[scope |-> "turn", strict |-> FALSE, keys |-> Keys],
   [scope |-> "turn", strict |-> TRUE, keys |-> {k1, k3}],
   [scope |-> "session", strict |-> FALSE, keys |-> {k1, k3}],
   [scope |-> "session", strict |-> TRUE, keys |-> {k1}],
   [scope |-> "unknown", strict |-> FALSE, keys |-> {k1}]}

=============================================================================
