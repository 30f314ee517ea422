---------------------------- MODULE ProfileSession ----------------------------
(***************************************************************************)
(* A session made from a capability profile (profile.go): which handlers   *)
(* its router offers, and how a tool call passes the profile's check, the  *)
(* approval policy, a recorded permission grant, the review hook and the   *)
(* reviewer before a handler runs.  The caller keeps the profile and may   *)
(* change it at any time; the session works on the snapshot it took.       *)
(*                                                                         *)
(* Identifiers, metadata and tool specs are valid or not.  What a store of *)
(* grants holds is PermissionReviews' subject: here it may hold the key of *)
(* any call that has one.                                                  *)
(***************************************************************************)
EXTENDS ToolRouter, ApprovalPolicy

CONSTANTS
  Capabilities,
  BadCapabilities, \* keys validateCapabilityKey refuses
  ProfileChoices,  \* the profiles a caller may make
  Queries,
  SearchLimits

CapabilityRequirements == [all : SUBSET Capabilities, any : SUBSET Capabilities]

\* None: a nil handler, or one whose requirement cannot be told.  A keyed one
\* gives its calls a PermissionGrantKey.
Handlers ==
  [name : ToolNames \cup {ToolSearch}, deferred : BOOLEAN, spec : BOOLEAN,
   visibility : CapabilityRequirements \cup {None},
   required : CapabilityRequirements \cup {None},
   guard : Requirements \cup {"fails"}, keyed : BOOLEAN]

\* reviewer, grants: Guardrails.Reviewer and PermissionGrants are set; hook:
\* RunnerOptions.Hooks.ReviewToolCall is; nested: so is something in
\* RunnerOptions.Guardrails.
Profiles ==
  [identified : BOOLEAN, roles : Nat, activeRole : BOOLEAN, instructions : BOOLEAN,
   mode : {"single_role", "active_role", "combined_roles", "other"},
   narration : [enabled : BOOLEAN, initial : Nat, repeat : Nat],
   handlers : Seq(Handlers \cup {None}), policy : Policies, reviewer : BOOLEAN,
   hook : BOOLEAN, grants : BOOLEAN, nested : BOOLEAN, caps : SUBSET Capabilities]

ASSUME ProfileAssumption ==
  /\ BadCapabilities \subseteq Capabilities
  /\ Queries \subseteq Seq(Terms)
  /\ SearchLimits \subseteq Nat
  /\ ProfileChoices \subseteq Profiles

VARIABLES
  profile,  \* the caller's profile
  made,     \* is there a session?
  snapshot, \* the profile it was made from
  router,   \* its tools
  answer,   \* how its last tool call ended
  granted   \* history: the capabilities when the session was made

profileVars == <<profile, made, snapshot, router, answer, granted>>

-----------------------------------------------------------------------------
(***************************************************************************)
(* Validation.                                                             *)
(***************************************************************************)
Satisfied(caps, requirement) ==
  /\ requirement.all \subseteq caps
  /\ requirement.any = {} \/ requirement.any \cap caps # {}

\* validateCapabilityKey: two or three parts, no wildcard.
KeyFails(capability) == capability \in BadCapabilities

Malformed(requirement) ==
  \E c \in requirement.all \cup requirement.any : KeyFails(c)

ModeFails(p) ==
  CASE p.mode = "single_role" -> p.roles > 1
    [] p.mode = "active_role" -> ~p.activeRole
    [] p.mode = "combined_roles" -> ~p.instructions
    [] OTHER -> TRUE

NarrationFails(p) ==
  /\ p.narration.enabled
  /\ \/ p.narration.initial = 0
     \/ p.narration.repeat > 0 /\ p.narration.repeat < p.narration.initial

\* A spec under another name than the handler's, or one no provider accepts.
SpecFails(h) == ~h.spec

\* A profile or principal without identifiers that are safe for logs.
Unidentified(p) == ~p.identified

\* The handlers the principal may see, by their positions.
VisibleProfileHandlers(p) ==
  {i \in DOMAIN p.handlers : Satisfied(p.caps, p.handlers[i].visibility)}

\* A handler that is not visible is skipped before anything else about it is
\* checked; two visible ones may not have one name.
HandlersFail(p) ==
  LET h == p.handlers
      visible == VisibleProfileHandlers(p) IN
  \/ \E i \in DOMAIN h :
       h[i] = None \/ h[i].visibility = None \/ Malformed(h[i].visibility)
  \/ \E i \in visible :
       SpecFails(h[i]) \/ \E j \in visible : j < i /\ h[j].name = h[i].name

ValidationFails(p) ==
  \/ Unidentified(p) \/ ModeFails(p)
  \/ \E c \in p.caps : KeyFails(c)
  \/ p.nested
  \/ NarrationFails(p)
  \/ HandlersFail(p)

\* Mutated form: the policy is used as given.
ProfileGuardrailsAsGiven(p) == p.policy

\* A reviewer is pointless under a policy that asks nobody.
ProfileGuardrails(p) ==
  IF p.reviewer /\ p.policy \in {None, "allow_all"} THEN "require_for_all" ELSE p.policy

-----------------------------------------------------------------------------
(***************************************************************************)
(* The session.                                                            *)
(***************************************************************************)
\* asked: who was; by: what let the call through.
NoAnswer == [tool |-> None, end |-> "none", asked |-> {}, by |-> None,
             found |-> <<>>, query |-> <<>>, limit |-> 0]

ProfileInit ==
  /\ profile \in ProfileChoices
  /\ made = FALSE
  /\ snapshot = None
  /\ router = NewRouter
  /\ answer = NoAnswer
  /\ granted = {}

\* The caller changes what the principal may do.
ChangeCapabilities ==
  /\ \E caps \in SUBSET Capabilities : profile' = [profile EXCEPT !.caps = caps]
  /\ UNCHANGED <<made, snapshot, router, answer, granted>>

\* A handler may pass validation and still not register.  (A nil model client is
\* refused too; no caller here passes one.)
NewSessionForProfile ==
  LET visible == {profile.handlers[i] : i \in VisibleProfileHandlers(profile)} IN
  /\ ~made
  /\ ~ValidationFails(profile)
  /\ \A h \in visible : ~RegisterFails(NewRouter, h.name)
  /\ made' = TRUE
  /\ snapshot' = profile
  /\ router' = Register(NewRouter, visible)
  /\ granted' = profile.caps
  /\ UNCHANGED <<profile, answer>>

Handler(name) == CHOOSE h \in router : h.name = name

\* Mutated form: the profile is not copied.
CapabilitiesOfCaller == profile.caps

\* profileDispatchHandler.Guardrail, behind Router.Guardrail: tool_search and
\* unknown tools need nothing.
CapabilitiesOfSession == snapshot.caps

ProfileDenies(name) ==
  /\ name \in NamedIn(router)
  /\ LET h == Handler(name) IN
     \/ h.required = None \/ Malformed(h.required)
     \/ ~Satisfied(CapabilitiesOfSession, h.required)

GuardOf(name) ==
  IF ProfileDenies(name) THEN "denied"
  ELSE IF name \in NamedIn(router) THEN Handler(name).guard ELSE "none"

\* What an allowed call comes to.
Dispatched(name, query, limit) ==
  IF name = ToolSearch
  THEN IF SearchFails(query, limit) THEN [end |-> "failed", found |-> <<>>]
       ELSE [end |-> "found", found |-> DispatchToolSearch(router, query, limit)]
  ELSE [end |-> IF name \in NamedIn(router) THEN "ran" ELSE "unknown", found |-> <<>>]

Answered(name, asked, by, query, limit) ==
  LET outcome == Dispatched(name, query, limit) IN
  answer' = [tool |-> name, end |-> outcome.end, asked |-> asked, by |-> by,
             found |-> outcome.found, query |-> query, limit |-> limit]

Stopped(name, how, asked) ==
  answer' = [NoAnswer EXCEPT !.tool = name, !.end = how, !.asked = asked]

\* The store may hold a grant of the call's key that is not strict.
MayBePreapproved(name) ==
  snapshot.grants /\ name \in NamedIn(router) /\ Handler(name).keyed

\* The hook or the reviewer is asked, after those in asked: it approves, or the
\* call is denied, or it fails or says what nobody knows.
Asks(who, asked, name, query, limit) ==
  LET all == asked \cup {who} IN
  \/ Answered(name, all, who, query, limit)
  \/ Stopped(name, "denied", all)
  \/ Stopped(name, "error", all)

\* A call that needs approval: a grant, the hook, the reviewer, in that order.
\* A hook that does not decide leaves it to the reviewer, whose silence is a
\* denial, as is there being none.
SeekApproval(name, query, limit) ==
  LET heard == IF snapshot.hook THEN {"hook"} ELSE {} IN
  \/ MayBePreapproved(name) /\ Answered(name, {}, "grant", query, limit)
  \/ snapshot.hook /\ Asks("hook", {}, name, query, limit)
  \/ snapshot.reviewer /\ Asks("reviewer", heard, name, query, limit)
  \/ ~snapshot.reviewer /\ Stopped(name, "denied", heard)

\* reviewToolCall and the dispatch after it.  The snapshot does not change, so a
\* call is one step.
CallTool(name, query, limit) ==
  LET policy == ProfileGuardrails(snapshot)
      guard == GuardOf(name) IN
  /\ made
  /\ \/ guard = "fails" /\ Stopped(name, "error", {})
     \/ /\ guard # "fails"
        /\ \/ PolicyFails(policy, guard) /\ Stopped(name, "error", {})
           \/ Refused(policy, guard) /\ Stopped(name, "denied", {})
           \/ /\ ~PolicyFails(policy, guard) /\ ~Refused(policy, guard)
              /\ ~NeedsApproval(policy, guard)
              /\ Answered(name, {}, "policy", query, limit)
           \/ NeedsApproval(policy, guard) /\ SeekApproval(name, query, limit)
  /\ UNCHANGED <<profile, made, snapshot, router, granted>>

ProfileNext ==
  \/ ChangeCapabilities
  \/ NewSessionForProfile
  \/ \E name \in ToolNames : CallTool(name, <<>>, 0)
  \/ \E query \in Queries, limit \in SearchLimits \cup {DefaultSearchLimit} :
       CallTool(ToolSearch, query, limit)

ProfileSpec == ProfileInit /\ [][ProfileNext]_profileVars

-----------------------------------------------------------------------------
(***************************************************************************)
(* Properties.                                                             *)
(***************************************************************************)
\* The router holds visible handlers under names of their own, and the
\* synthetic tool is not among them.
ProfileTypeOK ==
  /\ made \in BOOLEAN
  /\ profile.caps \subseteq Capabilities
  /\ granted \subseteq Capabilities
  /\ NamedIn(router) \subseteq ToolNames
  /\ Cardinality(router) = Cardinality(NamedIn(router))
  /\ answer.end \in {"none", "error", "denied", "failed", "found", "ran", "unknown"}
  /\ Len(answer.found) <= Cardinality(Deferred(router))

\* A handler runs only if the capabilities the session was made with satisfy
\* both its visibility and the call's requirement, whatever the policy, the
\* reviewer, a search result or the caller's later changes to the profile say.
RunsOnlyWithCapabilities ==
  answer.end = "ran" =>
    LET h == Handler(answer.tool) IN
    /\ Satisfied(granted, h.visibility)
    /\ h.required # None /\ ~Malformed(h.required)
    /\ Satisfied(granted, h.required)

\* With a reviewer configured a handler runs only if the reviewer approved the
\* call, or the profile's own review hook did before it was asked, or a recorded
\* grant of the handler's key stands for an approval, or the policy is the one
\* for sensitive tools and the handler is not one; never under a policy that
\* disables tools or that nobody knows.  A call the profile denies is put to
\* nobody, and of two that are asked the second has the last word.
\* (profileGuardrails, reviewToolCall.)
NothingRunsUnreviewed ==
  LET h == Handler(answer.tool) IN
  /\ answer.end = "ran" /\ snapshot.reviewer =>
       /\ snapshot.policy \notin {"deny_all", "unknown"}
       /\ \/ answer.by = "reviewer"
          \/ answer.by = "hook" /\ snapshot.hook /\ answer.asked = {"hook"}
          \/ answer.by = "grant" /\ snapshot.grants /\ h.keyed
          \/ snapshot.policy = "require_for_sensitive" /\ h.guard = "none"
  /\ answer.asked # {} => ~ProfileDenies(answer.tool)
  /\ answer.end = "ran" /\ "reviewer" \in answer.asked => answer.by = "reviewer"

\* A search returns the best matches, however the registry is iterated: nothing
\* it leaves out matches better than what it returns, and it leaves something
\* out only because of the limit.
SearchFindsTheBest ==
  answer.end = "found" =>
    LET found == ToSet(answer.found)
        left == {n \in Deferred(router) : Score(n, answer.query) > 0} \ found IN
    /\ found \subseteq Deferred(router)
    /\ \A n \in left, i \in DOMAIN answer.found :
         Score(n, answer.query) <= Score(answer.found[i], answer.query)
    /\ left # {} => Len(answer.found) = answer.limit

\* What a principal is offered, in the prompt or by searching.
Offered == (Specs(router) \cup Deferred(router)) \ {ToolSearch}

\* A principal is offered the handlers its capabilities let it see, all of them
\* and nothing else of the profile: each is in every prompt or found by a search,
\* never both, and tool_search is offered exactly when there is something to
\* find, also when a handler that stays hidden has its name.  A call of an
\* offered tool is never answered as one of an unknown tool, nor one of another
\* tool as anything else.  To be offered is not to be allowed: a handler may be
\* seen without the capabilities its calls require, and then every call is
\* denied; but with them, and with no approval policy, none is unless the
\* handler's own guardrail denies it.  What a search answers is the best of what
\* it may find.  (visibleProfileHandlers, Router.Specs, profileDispatchHandler.)
OffersAreExact ==
  /\ SearchFindsTheBest
  /\ made =>
       LET h == snapshot.handlers IN
       /\ Specs(router) \cap Deferred(router) = {}
       /\ Offered = {h[i].name : i \in {j \in DOMAIN h : Satisfied(granted, h[j].visibility)}}
       /\ ToolSearch \in Specs(router) <=> Deferred(router) # {}
  /\ answer.end = "unknown" => answer.tool \notin Offered
  /\ answer.end = "ran" => answer.tool \in Offered
  /\ answer.end = "denied" /\ ~snapshot.reviewer /\ snapshot.policy \in {None, "allow_all"} =>
       LET h == Handler(answer.tool) IN
       /\ answer.tool \in Offered
       /\ \/ h.guard = "denied"
          \/ h.required = None \/ Malformed(h.required) \/ ~Satisfied(granted, h.required)

=============================================================================
