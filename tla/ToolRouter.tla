------------------------------ MODULE ToolRouter ------------------------------
(***************************************************************************)
(* internal/tools/router.go: the registry of tools and the search for      *)
(* deferred ones, as operators on the set of registered tools.             *)
(***************************************************************************)
EXTENDS Naturals, SequencesExt, FiniteSetsExt

CONSTANTS
  ToolNames,   \* numbers, in the order of the names they stand for
  Terms,       \* what a query may ask for
  DeferredText \* the terms a tool's deferredSearchText contains

ASSUME RouterAssumption ==
  /\ ToolNames \subseteq Nat \ {0}
  /\ DeferredText \in [ToolNames -> SUBSET Terms]

ToolSearch == 0 \* the synthetic tool, a name like any other
DefaultSearchLimit == 8

NewRouter == {}

NamedIn(router) == {r.name : r \in router}

RegisterFails(router, name) == name \in NamedIn(router) \cup {ToolSearch}

\* Handlers of different names, one after the other.
Register(router, handlers) == router \cup handlers

Deferred(router) == {r.name : r \in {x \in router : x.deferred}}

\* Mutated form: deferred tools are listed too.
SpecsWithDeferred(router) ==
  NamedIn(router) \cup (IF Deferred(router) = {} THEN {} ELSE {ToolSearch})

\* Specs sorts by name, so the set says it all.
Specs(router) ==
  (NamedIn(router) \ Deferred(router))
    \cup (IF Deferred(router) = {} THEN {} ELSE {ToolSearch})

\* strings.Contains on the text of a tool: its spec's, its search text, and both
\* with separators made spaces.
Matches(name, term) == term \in DeferredText[name]

\* A term counts as often as the query repeats it.
Score(name, query) == Cardinality({i \in DOMAIN query : Matches(name, query[i])})

\* Best score first, then by name: map order does not matter.
RanksBefore(a, b, query) ==
  \/ Score(a, query) > Score(b, query)
  \/ Score(a, query) = Score(b, query) /\ a < b

\* In the sorted list as many are in front of a match as rank before it.
SearchDeferredTools(router, query) ==
  LET matching == {n \in Deferred(router) : Score(n, query) > 0}
      InFrontOf(n) == {m \in matching : RanksBefore(m, n, query)} IN
  [i \in 1 .. Cardinality(matching) |->
     CHOOSE n \in matching : Cardinality(InFrontOf(n)) = i - 1]

\* An empty query and a limit that is not positive are failed outputs.
SearchFails(query, limit) == query = <<>> \/ limit = 0

DispatchToolSearch(router, query, limit) ==
  LET matches == SearchDeferredTools(router, query) IN
  IF Len(matches) > limit THEN SubSeq(matches, 1, limit) ELSE matches

=============================================================================
