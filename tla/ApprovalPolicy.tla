---------------------------- MODULE ApprovalPolicy ----------------------------
(***************************************************************************)
(* The decisions of reviewToolCall in internal/runner/runner.go as pure    *)
(* operators, and what request_permissions makes of a host's response.     *)
(***************************************************************************)
EXTENDS Sequences

CONSTANT None \* no key, no decision, no policy

Requirements == {"none", "required", "denied"}
NamedPolicies ==
  {"allow_all", "require_for_sensitive", "require_for_all", "deny_all", "unknown"}
Policies == NamedPolicies \cup {None}

ASSUME PolicyAssumption == None \notin NamedPolicies

\* A tool that denies itself and the deny-all policy refuse without asking; a
\* tool's own denial comes first, before the policy is even looked at.
Refused(policy, requirement) == requirement = "denied" \/ policy = "deny_all"

PolicyFails(policy, requirement) ==
  policy = "unknown" /\ requirement # "denied"

NeedsApproval(policy, requirement) ==
  /\ ~Refused(policy, requirement)
  /\ \/ policy = "require_for_all"
     \/ policy = "require_for_sensitive" /\ requirement = "required"

\* approvalDecisionResult: no decision leaves the question open.
Decided(decision) == decision \in {"approved", "denied"}

\* The client events of a review that reached a decision.  A refusal by
\* policy publishes a decision for which there was no request.
RefusalEvents == <<"denied">>
ReviewEvents(decision) == <<"request", decision>>

\* Mutated form: the response is taken as it is.
GrantedAsAnswered(asks, response) == response.keys

\* normalizeRequestPermissionsResponse: a strict session grant is no grant at
\* all, and keys nobody requested are dropped.
GrantedOf(asks, response) ==
  IF response.strict /\ response.scope = "session" THEN {}
  ELSE {k \in response.keys : \E i \in DOMAIN asks : asks[i] = k}

=============================================================================
