----------------------- MODULE PermissionReviews_proofs -----------------------
(***************************************************************************)
(* Theorems about PermissionReviews, for any number of concurrent calls,   *)
(* of turns, keys and tools, and any policies and host responses.          *)
(***************************************************************************)
EXTENDS PermissionReviews, SequenceTheorems, TLAPS

\* A step of the review proper, which neither changes the store nor asks the
\* host.
ReviewStep(w) ==
  \/ Classify(w) \/ LookUpGrant(w) \/ LookUpStrict(w)
  \/ AskHook(w) \/ AskReviewer(w)

-----------------------------------------------------------------------------
(***************************************************************************)
(* The operators of the store and of the policy.                           *)
(***************************************************************************)
LEMMA NewStoreType == NewStore \in Stores
BY DEF NewStore, Stores

LEMMA RecordType ==
  ASSUME NEW s \in Stores, NEW t \in Turns, NEW k \in Keys, NEW scope,
         NEW strict \in BOOLEAN
  PROVE  Record(s, t, k, scope, strict) \in Stores
BY DEF Record, Stores

LEMMA ClearTurnType ==
  ASSUME NEW s \in Stores, NEW t PROVE ClearTurn(s, t) \in Stores
BY DEF ClearTurn, Stores

\* What a response grants is part of it.
LEMMA GrantedSubset ==
  ASSUME NEW asks, NEW r PROVE GrantedOf(asks, r) \subseteq r.keys
BY DEF GrantedOf

-----------------------------------------------------------------------------
(***************************************************************************)
(* Typing.                                                                 *)
(***************************************************************************)
\* How a review ends, as far as types go: an outcome, and events.
LEMMA EndReviewType ==
  ASSUME TypeOK, NEW w \in Workers, NEW result \in Outcomes,
         NEW published \in Seq(Events),
         EndReview(w, result, published)
  PROVE  /\ pc' \in [Workers -> Places]
         /\ events' \in [Workers -> Seq(Events)]
         /\ outcome' \in [Workers -> Outcomes]
BY DEF TypeOK, EndReview, Places

LEMMA ProceedType ==
  ASSUME TypeOK, NEW w \in Workers, NEW place \in Places, Proceed(w, place)
  PROVE  /\ pc' \in [Workers -> Places]
         /\ events' \in [Workers -> Seq(Events)]
         /\ outcome' \in [Workers -> Outcomes]
BY DEF TypeOK, Proceed

\* The events of a review are events.
LEMMA EventTypes ==
  /\ <<>> \in Seq(Events)
  /\ RefusalEvents \in Seq(Events)
  /\ \A d \in {"approved", "denied"} :
       ReviewEvents(d) \in Seq(Events)
BY DEF RefusalEvents, ReviewEvents, Events

\* The end of a call: with its result and its events, or failed and without.
LEMMA FinishMoves ==
  ASSUME TypeOK, NEW w \in Workers, Finish(w) \/ (Fail(w) /\ UNCHANGED <<response, recorded>>)
  PROVE  /\ pc' \in [Workers -> Places] /\ events' \in [Workers -> Seq(Events)]
         /\ response' \in [Workers -> [scope : Scopes, strict : BOOLEAN, keys : SUBSET Keys]]
         /\ recorded' \in [Workers -> SUBSET Keys]
         /\ \A v \in Workers : v # w => pc'[v] = pc[v] /\ events'[v] = events[v]
                                         /\ response'[v] = response[v]
         /\ \/ pc'[w] = "done" /\ events'[w] = events[w]
            \/ pc'[w] = "failed" /\ events'[w] = <<>>
<1>1. <<>> \in Seq(Events) /\ NoResponse \in [scope : Scopes, strict : BOOLEAN, keys : SUBSET Keys]
  BY EventTypes DEF NoResponse, Scopes
<1>2. /\ pc \in [Workers -> Places] /\ events \in [Workers -> Seq(Events)]
      /\ response \in [Workers -> [scope : Scopes, strict : BOOLEAN, keys : SUBSET Keys]]
      /\ recorded \in [Workers -> SUBSET Keys]
  BY DEF TypeOK
<1>3. CASE pc' = [pc EXCEPT ![w] = "done"] /\ UNCHANGED events
             /\ response' = [response EXCEPT ![w] = NoResponse]
             /\ recorded' = [recorded EXCEPT ![w] = {}]
  BY <1>1, <1>2, <1>3 DEF Places
<1>4. CASE Fail(w) /\ response' = [response EXCEPT ![w] = NoResponse]
                  /\ recorded' = [recorded EXCEPT ![w] = {}]
  BY <1>1, <1>2, <1>4 DEF Fail, Places
<1>5. CASE Fail(w) /\ UNCHANGED <<response, recorded>>
  BY <1>1, <1>2, <1>5 DEF Fail, Places
<1>6. QED  BY <1>3, <1>4, <1>5 DEF Finish

LEMMA ReviewStepType ==
  ASSUME TypeOK, NEW w \in Workers, ReviewStep(w)
  PROVE  TypeOK'
<1>1. UNCHANGED Rest
  BY DEF ReviewStep, Classify, LookUpGrant, LookUpStrict, AskHook, AskReviewer
<1>2. justified' \in [Workers -> BOOLEAN]
  BY DEF ReviewStep, Classify, LookUpGrant, LookUpStrict, AskHook, AskReviewer,
         Witness, TypeOK
<1>3. \/ \E result \in Outcomes,
           published \in Seq(Events) :
             EndReview(w, result, published)
      \/ \E place \in Places : Proceed(w, place)
  <2>1. CASE Classify(w)
    BY <2>1, EventTypes DEF Classify, Outcomes, Places
  <2>2. CASE LookUpGrant(w)
    BY <2>2 DEF LookUpGrant, Places
  <2>3. CASE LookUpStrict(w)
    BY <2>3, EventTypes DEF LookUpStrict, Outcomes, Places
  <2>4. CASE AskHook(w)
    BY <2>4, EventTypes DEF AskHook, Outcomes, Places
  <2>5. CASE AskReviewer(w)
    <3>1. CASE EndReview(w, "error", <<>>)
      BY <3>1, EventTypes DEF Outcomes
    <3>2. ASSUME NEW d \in {"approved", "denied", None},
                 IF Decided(d) THEN EndReview(w, d, ReviewEvents(d))
                 ELSE EndReview(w, "denied", ReviewEvents("denied"))
          PROVE  \E result \in Outcomes,
                   published \in Seq(Events) :
                     EndReview(w, result, published)
      <4>1. CASE Decided(d)
        BY <3>2, <4>1, EventTypes DEF Decided, Outcomes
      <4>2. CASE ~Decided(d)
        BY <3>2, <4>2, EventTypes DEF Outcomes
      <4>3. QED  BY <4>1, <4>2
    <3>3. QED  BY <2>5, <3>1, <3>2 DEF AskReviewer
  <2>6. QED  BY <2>1, <2>2, <2>3, <2>4, <2>5 DEF ReviewStep
<1>4. /\ pc' \in [Workers -> Places]
      /\ events' \in [Workers -> Seq(Events)]
      /\ outcome' \in [Workers -> Outcomes]
  BY <1>3, EndReviewType, ProceedType
<1>5. QED  BY <1>1, <1>2, <1>4 DEF TypeOK, Rest, config, told

\* Turns are counted, and a goroutine at work belongs to one that has begun.
OwnerInv ==
  /\ live => turn \in Turns
  /\ \A w \in Workers :
       /\ owner[w] <= turn
       /\ pc[w] = "idle" \/ owner[w] \in Turns

TypeInv == TypeOK /\ OwnerInv

\* A review step moves one goroutine that is already at work.
LEMMA ReviewMoves ==
  ASSUME TypeOK, NEW w \in Workers, ReviewStep(w)
  PROVE  /\ UNCHANGED Rest
         /\ pc[w] \in {"classify", "has", "strict", "hook", "reviewer"}
         /\ \A v \in Workers : v # w =>
              /\ pc'[v] = pc[v]
              /\ events'[v] = events[v]
              /\ outcome'[v] = outcome[v]
         /\ pc'[w] \in {"has", "strict", "hook", "reviewer", "reviewed", "failed"}
<1>1. UNCHANGED Rest /\ pc[w] \in {"classify", "has", "strict", "hook", "reviewer"}
  BY DEF ReviewStep, Classify, LookUpGrant, LookUpStrict, AskHook, AskReviewer
<1>2. \/ \E result, published : EndReview(w, result, published)
      \/ \E place \in {"has", "strict", "hook", "reviewer"} : Proceed(w, place)
  BY DEF ReviewStep, Classify, LookUpGrant, LookUpStrict, AskHook, AskReviewer
<1>3. CASE \E result, published : EndReview(w, result, published)
  BY <1>1, <1>3 DEF EndReview, TypeOK, Places
<1>4. CASE \E place \in {"has", "strict", "hook", "reviewer"} : Proceed(w, place)
  BY <1>1, <1>4 DEF Proceed, TypeOK, Places
<1>5. QED  BY <1>1, <1>2, <1>3, <1>4

LEMMA TypeInvStep ==
  ASSUME TypeInv, [Next]_vars
  PROVE  TypeInv'
<1>0. TypeOK /\ OwnerInv /\ MaxTurns \in Nat /\ turn \in 0 .. MaxTurns
  BY ReviewAssumption DEF TypeInv, TypeOK
<1>1. CASE StartTurn
  <2>1. TypeOK'
    BY <1>0, <1>1 DEF StartTurn, TypeOK, config, calls, told, ghosts
  <2>2. turn' = turn + 1 /\ turn' \in Turns /\ UNCHANGED <<owner, pc>>
    BY <1>0, <1>1 DEF StartTurn, Turns, calls
  <2>3. owner \in [Workers -> 0 .. MaxTurns]
    BY <1>0 DEF TypeOK
  <2>4. OwnerInv'
    BY <1>0, <2>2, <2>3 DEF OwnerInv
  <2>5. QED  BY <2>1, <2>4 DEF TypeInv
<1>2. CASE ReturnTurn \/ CommitAttempt \/ CommitFails \/ RetryAttempt
  <2>1. UNCHANGED <<policy, turn, calls, justified, promised>> /\ live
    <3>1. CASE TurnReturns
      BY <3>1 DEF TurnReturns, config, calls
    <3>2. CASE CommitAttempt \/ RetryAttempt
      BY <3>2 DEF CommitAttempt, RetryAttempt, Drained, config, calls, ghosts
    <3>3. QED  BY <1>2, <3>1, <3>2 DEF ReturnTurn, CommitFails
  <2>2. store' \in Stores /\ live' \in BOOLEAN /\ (live' => live)
    <3>1. CASE TurnReturns
      BY <1>0, <3>1, ClearTurnType DEF TurnReturns, TypeOK
    <3>2. CASE CommitAttempt \/ RetryAttempt
      BY <1>0, <3>2 DEF CommitAttempt, RetryAttempt, TypeOK
    <3>3. QED  BY <1>2, <3>1, <3>2 DEF ReturnTurn, CommitFails
  <2>3. outlived' \subseteq Turns
    BY <1>0, <1>2 DEF ReturnTurn, CommitAttempt, CommitFails, RetryAttempt,
       TurnReturns, TypeOK, OwnerInv, ghosts
  <2>4. kept' \subseteq Workers /\ retried' \subseteq Workers
    BY <1>0, <1>2 DEF ReturnTurn, CommitAttempt, CommitFails, RetryAttempt,
       TurnReturns, Attempt, TypeOK
  <2>5. client' \in [Workers -> Seq(Events)]
    <3>1. client \in [Workers -> Seq(Events)] /\ events \in [Workers -> Seq(Events)]
      BY <1>0 DEF TypeOK
    <3>2. CASE ReturnTurn \/ RetryAttempt
      BY <3>1, <3>2 DEF ReturnTurn, RetryAttempt
    <3>3. CASE CommitAttempt
      BY <3>1, <3>3 DEF CommitAttempt
    <3>4. CASE CommitFails
      <4>1. PICK w \in Attempt : \E n \in 0 .. Len(events[w]) :
              client' = [v \in Workers |-> IF v = w THEN SubSeq(events[w], 1, n)
                                    ELSE IF v \in Attempt /\ v < w THEN events[v]
                                    ELSE client[v]]
        BY <3>4 DEF CommitFails
      <4>2. PICK n \in 0 .. Len(events[w]) :
              client' = [v \in Workers |-> IF v = w THEN SubSeq(events[w], 1, n)
                                    ELSE IF v \in Attempt /\ v < w THEN events[v]
                                    ELSE client[v]]
        BY <4>1
      <4>3. w \in Workers
        BY DEF Attempt
      <4>4. SubSeq(events[w], 1, n) \in Seq(Events)
        BY <3>1, <4>2, <4>3, SubSeqProperties
      <4>5. QED  BY <3>1, <4>2, <4>4
    <3>5. QED  BY <1>2, <3>2, <3>3, <3>4
  <2>6. TypeOK'
    BY <1>0, <2>1, <2>2, <2>3, <2>4, <2>5 DEF TypeOK, calls
  <2>7. OwnerInv'
    BY <1>0, <2>1, <2>2 DEF OwnerInv, calls
  <2>8. QED  BY <2>6, <2>7 DEF TypeInv
<1>3. ASSUME NEW w \in Workers, StartCall(w) PROVE TypeInv'
  <2>1. TypeOK'
    BY <1>0, <1>3 DEF StartCall, TypeOK, config, told, ghosts, Places
  <2>2. OwnerInv'
    BY <1>0, <1>3 DEF StartCall, OwnerInv, TypeOK
  <2>3. QED  BY <2>1, <2>2 DEF TypeInv
<1>4. ASSUME NEW w \in Workers, ReviewStep(w) PROVE TypeInv'
  <2>1. TypeOK'
    BY <1>0, <1>4, ReviewStepType
  <2>2. OwnerInv'
    BY <1>0, <1>4, ReviewMoves DEF OwnerInv, Rest
  <2>3. QED  BY <2>1, <2>2 DEF TypeInv
<1>5. ASSUME NEW w \in Workers, HostResponds(w) PROVE TypeInv'
  <2>1. /\ UNCHANGED <<policy, turn, live, store, tool, owner, outcome, ran, told,
                       justified, outlived>>
        /\ pc[w] = "asking"
    BY <1>5 DEF HostResponds, config
  <2>2. CASE Finish(w) /\ UNCHANGED promised
    BY <1>0, <2>1, <2>2, FinishMoves DEF TypeInv, TypeOK, OwnerInv, told
  <2>3. ASSUME NEW r \in Responses,
               response' = [response EXCEPT ![w] =
                              [r EXCEPT !.keys = GrantedOf(tool[w].asks, r)]],
               promised' = IF r.scope = "unknown" \/ (r.strict /\ r.scope = "session")
                           THEN promised
                           ELSE promised \cup
                             {<<IF r.scope = "session" THEN 0 ELSE owner[w], k>> :
                                k \in Given(w, r)},
               pc' = [pc EXCEPT ![w] = "recording"],
               UNCHANGED <<events, recorded>>
        PROVE  TypeInv'
    <3>1. r \in [scope : Scopes, strict : BOOLEAN, keys : SUBSET Keys]
      BY ReviewAssumption
    <3>2. GrantedOf(tool[w].asks, r) \subseteq Keys /\ Given(w, r) \subseteq Keys
      BY <3>1, GrantedSubset DEF Given
    <3>3. response' \in [Workers -> [scope : Scopes, strict : BOOLEAN, keys : SUBSET Keys]]
      BY <1>0, <2>3, <3>1, <3>2 DEF TypeOK
    <3>4. promised' \subseteq (0 .. MaxTurns) \X Keys
      <4>1. owner[w] \in 0 .. MaxTurns /\ 0 \in 0 .. MaxTurns
        BY <1>0 DEF TypeOK
      <4>2. QED  BY <1>0, <2>3, <3>2, <4>1 DEF TypeOK
    <3>5. QED
      BY <1>0, <2>1, <2>3, <3>3, <3>4 DEF TypeInv, TypeOK, OwnerInv, Places, told
  <2>4. QED  BY <1>5, <2>2, <2>3 DEF HostResponds
<1>6. ASSUME NEW w \in Workers, RecordNext(w) PROVE TypeInv'
  <2>1. /\ UNCHANGED <<policy, turn, live, tool, owner, outcome, ran, told,
                       promised, outlived>>
        /\ pc[w] = "recording"
    BY <1>6 DEF RecordNext, config
  <2>2. CASE Finish(w) /\ UNCHANGED <<store, justified>>
    BY <1>0, <2>1, <2>2, FinishMoves DEF TypeInv, TypeOK, OwnerInv, told
  <2>3. ASSUME NEW k \in response[w].keys,
               store' = Record(store, owner[w], k, response[w].scope, response[w].strict),
               recorded' = [recorded EXCEPT ![w] = @ \cup {k}], Witness(store'),
               UNCHANGED <<pc, events, response>>
        PROVE  TypeInv'
    <3>1. justified' \in [Workers -> BOOLEAN]
      BY <1>0, <2>3 DEF Witness, TypeOK
    <3>2. response[w].strict \in BOOLEAN /\ k \in Keys /\ owner[w] \in Turns
      BY <1>0, <2>1, <2>3 DEF TypeOK, OwnerInv
    <3>3. store' \in Stores
      BY <1>0, <2>3, <3>2, RecordType DEF TypeOK
    <3>4. recorded' \in [Workers -> SUBSET Keys]
      BY <1>0, <2>3, <3>2 DEF TypeOK
    <3>5. TypeOK'
      BY <1>0, <2>1, <2>3, <3>1, <3>3, <3>4 DEF TypeOK, told
    <3>6. OwnerInv'
      BY <1>0, <2>1, <2>3 DEF OwnerInv
    <3>7. QED  BY <3>5, <3>6 DEF TypeInv
  <2>4. QED  BY <1>6, <2>2, <2>3 DEF RecordNext
<1>7. ASSUME NEW w \in Workers, RecordingEnds(w) PROVE TypeInv'
  <2>1. /\ UNCHANGED <<policy, turn, live, store, tool, owner, outcome, ran, told,
                       ghosts>>
        /\ pc[w] = "recording" /\ Finish(w)
    BY <1>7 DEF RecordingEnds, config
  <2>2. TypeOK'
    BY <1>0, <2>1, FinishMoves DEF TypeOK, told, ghosts
  <2>3. OwnerInv'
    BY <1>0, <2>1, FinishMoves DEF OwnerInv
  <2>4. QED  BY <2>2, <2>3 DEF TypeInv
<1>8. ASSUME NEW w \in Workers, Dispatch(w) PROVE TypeInv'
  <2>1. /\ UNCHANGED <<policy, turn, live, store, tool, owner, outcome, told, ghosts>>
        /\ pc[w] = "reviewed" /\ ran' \subseteq Workers
    BY <1>0, <1>8 DEF Dispatch, config, TypeOK
  <2>2. CASE Finish(w) \/ (Fail(w) /\ UNCHANGED <<response, recorded>>)
    BY <1>0, <2>1, <2>2, FinishMoves DEF TypeInv, TypeOK, OwnerInv, told, ghosts
  <2>3. CASE /\ \E place \in {"done", "asking"} : pc' = [pc EXCEPT ![w] = place]
             /\ UNCHANGED <<events, response, recorded>>
    BY <1>0, <2>1, <2>3 DEF TypeInv, TypeOK, OwnerInv, told, ghosts, Places
  <2>4. QED  BY <1>8, <2>2, <2>3 DEF Dispatch
<1>9. CASE UNCHANGED vars
  BY <1>0, <1>9 DEF vars, config, calls, told, ghosts, TypeInv, TypeOK, OwnerInv
<1>10. QED
  BY <1>1, <1>2, <1>3, <1>4, <1>5, <1>6, <1>7, <1>8, <1>9 DEF Next, Step, ReviewStep

LEMMA TypeInvInit == Init => TypeInv
<1> SUFFICES ASSUME Init PROVE TypeInv
  OBVIOUS
<1>1. MaxTurns \in Nat  BY ReviewAssumption
<1>2. store \in Stores  BY NewStoreType DEF Init
<1>3. events \in [Workers -> Seq(Events)]
  BY EventTypes DEF Init
<1>4. response \in [Workers -> [scope : Scopes, strict : BOOLEAN, keys : SUBSET Keys]]
  BY DEF Init, NoResponse, Scopes
<1>5. /\ pc \in [Workers -> Places] /\ outcome \in [Workers -> Outcomes]
      /\ tool \in [Workers -> Tools \cup {NoTool}]
      /\ owner \in [Workers -> 0 .. MaxTurns] /\ recorded \in [Workers -> SUBSET Keys]
      /\ client \in [Workers -> Seq(Events)]
      /\ ran \subseteq Workers /\ kept \subseteq Workers /\ retried \subseteq Workers
  BY <1>1, EventTypes DEF Init, Places, Outcomes
<1>6. TypeOK
  <2>1. justified \in [Workers -> BOOLEAN]
    BY DEF Init
  <2>2. policy \in PolicyChoices /\ turn \in 0 .. MaxTurns /\ live \in BOOLEAN
    <3>1. policy \in PolicyChoices /\ live \in BOOLEAN
      BY DEF Init
    <3>2. turn = 0
      BY DEF Init
    <3>3. QED  BY <1>1, <3>1, <3>2
  <2>3. promised \subseteq (0 .. MaxTurns) \X Keys /\ outlived \subseteq Turns
    BY DEF Init
  <2>4. QED  BY <1>2, <1>3, <1>4, <1>5, <2>1, <2>2, <2>3 DEF TypeOK
<1>7. OwnerInv
  BY <1>1 DEF Init, OwnerInv
<1>8. QED  BY <1>6, <1>7 DEF TypeInv

\* Every variable keeps its type, for any number of calls and turns.
THEOREM Typing == Spec => []TypeOK
<1>1. TypeInv => TypeOK  BY DEF TypeInv
<1>2. QED  BY TypeInvInit, TypeInvStep, <1>1, PTL DEF Spec

-----------------------------------------------------------------------------
(***************************************************************************)
(* Grants.                                                                 *)
(***************************************************************************)
\* What a goroutine still records was promised, and the turns of goroutines
\* still at work are running or known to have been outlived.
GrantInv ==
  /\ \A w \in Workers : pc[w] = "recording" =>
       \A k \in response[w].keys :
         /\ response[w].scope = "turn" => <<owner[w], k>> \in promised
         /\ response[w].scope = "session" => <<0, k>> \in promised
  /\ \A w \in Workers :
       pc[w] \notin {"idle", "done", "failed"} /\ Ended(owner[w]) => owner[w] \in outlived
  /\ \A t \in Turns : store.turns[t] # {} => t <= turn
  /\ GrantsWerePromised
  /\ FlagsFollowGrants

LEMMA GrantInvInit == Init => GrantInv
BY DEF Init, GrantInv, GrantsWerePromised, FlagsFollowGrants, NewStore, Turns, Ended

\* The store does not change, and no goroutine begins to record.
LEMMA GrantQuiet ==
  ASSUME TypeInv, GrantInv,
         UNCHANGED <<turn, live, store, owner, promised, outlived>>,
         \A v \in Workers :
           /\ pc'[v] = "recording" => pc[v] = "recording" /\ response'[v] = response[v]
           /\ pc'[v] \notin {"idle", "done", "failed"} => pc[v] \notin {"idle", "done", "failed"}
  PROVE  GrantInv'
BY DEF GrantInv, GrantsWerePromised, FlagsFollowGrants, Ended

LEMMA GrantStep ==
  ASSUME TypeInv, GrantInv, [Next]_vars
  PROVE  GrantInv'
<1>0. TypeOK /\ OwnerInv /\ MaxTurns \in Nat /\ turn \in 0 .. MaxTurns
  BY ReviewAssumption DEF TypeInv, TypeOK
<1>1. CASE StartTurn
  <2>1. /\ ~live /\ turn' = turn + 1 /\ live' = TRUE
        /\ UNCHANGED <<store, pc, owner, response, promised, outlived>>
    BY <1>1 DEF StartTurn, calls, ghosts
  <2>2. \A t \in 0 .. MaxTurns : Ended(t)
    BY <2>1 DEF Ended
  <2>3. \A w \in Workers : owner[w] \in 0 .. MaxTurns
    BY <1>0 DEF TypeOK
  <2>4. \A t \in Turns : t \in 0 .. MaxTurns /\ (t <= turn => t <= turn')
    BY <1>0, <2>1 DEF Turns
  <2>5. QED
    BY <2>1, <2>2, <2>3, <2>4 DEF GrantInv, GrantsWerePromised, FlagsFollowGrants
<1>2. CASE TurnReturns
  <2>1. /\ UNCHANGED <<turn, pc, owner, response, promised>>
        /\ live' = FALSE /\ live
        /\ store' = ClearTurn(store, turn)
        /\ outlived \subseteq outlived'
        /\ (\E w \in Workers : owner[w] = turn /\ pc[w] \notin Over) => turn \in outlived'
    BY <1>2 DEF TurnReturns, calls
  <2>2. store \in Stores /\ turn \in Turns
    BY <1>0, <2>1 DEF TypeOK, OwnerInv
  <2>3. /\ store'.session = store.session
        /\ store'.turns[turn] = {} /\ store'.strict[turn] = {}
        /\ \A t \in Turns \ {turn} :
             store'.turns[t] = store.turns[t] /\ store'.strict[t] = store.strict[t]
    BY <2>1, <2>2 DEF ClearTurn, Stores
  <2>4. \A w \in Workers :
          pc[w] \notin {"idle", "done", "failed"} => owner[w] \in outlived'
    <3> SUFFICES ASSUME NEW w \in Workers, pc[w] \notin {"idle", "done", "failed"}
                 PROVE  owner[w] \in outlived'
      OBVIOUS
    <3>1. CASE owner[w] = turn
      BY <2>1, <3>1 DEF Over
    <3>2. CASE owner[w] # turn
      <4>1. owner[w] < turn
        BY <1>0, <3>2 DEF OwnerInv, TypeOK
      <4>2. QED  BY <2>1, <4>1 DEF GrantInv, Ended
    <3>3. QED  BY <3>1, <3>2
  <2>5. \A t \in Turns : store'.turns[t] # {} => t < turn /\ t \in outlived'
    <3> SUFFICES ASSUME NEW t \in Turns, store'.turns[t] # {}
                 PROVE  t < turn /\ t \in outlived'
      OBVIOUS
    <3>1. t # turn /\ store.turns[t] # {}
      BY <2>3
    <3>2. t < turn
      BY <1>0, <3>1 DEF GrantInv, Turns
    <3>3. QED  BY <2>1, <3>1, <3>2 DEF GrantInv, FlagsFollowGrants, Ended
  <2>6. GrantsWerePromised'
    BY <2>1, <2>3 DEF GrantInv, GrantsWerePromised
  <2>7. FlagsFollowGrants'
    BY <2>3, <2>5 DEF GrantInv, FlagsFollowGrants
  <2>8. \A t \in Turns : store'.turns[t] # {} => t <= turn'
    BY <1>0, <2>1, <2>5 DEF Turns
  <2>9. QED  BY <2>1, <2>4, <2>6, <2>7, <2>8 DEF GrantInv
<1>3. ASSUME NEW w \in Workers, StartCall(w) PROVE GrantInv'
  <2>1. /\ UNCHANGED <<turn, live, store, response, promised, outlived>>
        /\ live /\ pc' = [pc EXCEPT ![w] = "classify"]
        /\ owner' = [owner EXCEPT ![w] = turn]
    BY <1>3 DEF StartCall, ghosts
  <2>2. \A v \in Workers \ {w} : pc'[v] = pc[v] /\ owner'[v] = owner[v]
    BY <1>0, <2>1 DEF TypeOK
  <2>3. pc'[w] = "classify" /\ owner'[w] = turn
    BY <1>0, <2>1 DEF TypeOK
  <2>4. ~Ended(turn)
    BY <1>0, <2>1 DEF Ended
  <2>5. QED
    BY <2>1, <2>2, <2>3, <2>4 DEF GrantInv, GrantsWerePromised, FlagsFollowGrants, Ended
<1>4. ASSUME NEW w \in Workers, ReviewStep(w) PROVE GrantInv'
  BY <1>0, <1>4, ReviewMoves, GrantQuiet DEF Rest
<1>5. ASSUME NEW w \in Workers, HostResponds(w) PROVE GrantInv'
  <2>1. /\ UNCHANGED <<turn, live, store, owner, outlived>>
        /\ pc[w] = "asking"
    BY <1>5 DEF HostResponds
  <2>2. CASE Finish(w) /\ UNCHANGED promised
    BY <1>0, <2>1, <2>2, FinishMoves, GrantQuiet
  <2>3. ASSUME NEW r \in Responses,
               response' = [response EXCEPT ![w] =
                              [r EXCEPT !.keys = GrantedOf(tool[w].asks, r)]],
               promised' = IF r.scope = "unknown" \/ (r.strict /\ r.scope = "session")
                           THEN promised
                           ELSE promised \cup
                             {<<IF r.scope = "session" THEN 0 ELSE owner[w], k>> :
                                k \in Given(w, r)},
               pc' = [pc EXCEPT ![w] = "recording"]
        PROVE  GrantInv'
    <3>1. r \in [scope : Scopes, strict : BOOLEAN, keys : SUBSET Keys]
      BY ReviewAssumption
    <3>2. response'[w].scope = r.scope /\ response'[w].keys = GrantedOf(tool[w].asks, r)
      BY <1>0, <2>3, <3>1 DEF TypeOK
    <3>3. \A v \in Workers \ {w} : pc'[v] = pc[v] /\ response'[v] = response[v]
      BY <1>0, <2>3 DEF TypeOK
    <3>4. promised \subseteq promised'
      BY <2>3
    <3>5. \A k \in GrantedOf(tool[w].asks, r) :
            /\ r.scope = "turn" => <<owner[w], k>> \in promised'
            /\ r.scope = "session" => <<0, k>> \in promised'
      <4> SUFFICES ASSUME NEW k \in GrantedOf(tool[w].asks, r)
                   PROVE  /\ r.scope = "turn" => <<owner[w], k>> \in promised'
                          /\ r.scope = "session" => <<0, k>> \in promised'
        OBVIOUS
      <4>1. k \in Given(w, r) /\ ~(r.strict /\ r.scope = "session")
        BY DEF GrantedOf, Given
      <4>2. QED  BY <2>3, <4>1
    <3>6. GrantsWerePromised' /\ FlagsFollowGrants'
      BY <2>1, <3>4 DEF GrantInv, GrantsWerePromised, FlagsFollowGrants, Ended
    <3>7. \A v \in Workers :
            pc'[v] \notin {"idle", "done", "failed"} => pc[v] \notin {"idle", "done", "failed"}
      BY <2>1, <3>3
    <3>8. QED
      BY <2>1, <3>2, <3>3, <3>4, <3>5, <3>6, <3>7 DEF GrantInv, Ended
  <2>4. QED  BY <1>5, <2>2, <2>3 DEF HostResponds
<1>6. ASSUME NEW w \in Workers, RecordNext(w) PROVE GrantInv'
  <2>1. /\ UNCHANGED <<turn, live, owner, promised, outlived>>
        /\ pc[w] = "recording"
    BY <1>6 DEF RecordNext
  <2>3. CASE Finish(w) /\ UNCHANGED store
    BY <1>0, <2>1, <2>3, FinishMoves, GrantQuiet
  <2>4. ASSUME NEW k \in response[w].keys, ~RecordFails(response[w].scope),
               store' = Record(store, owner[w], k, response[w].scope, response[w].strict),
               UNCHANGED <<pc, response>>
        PROVE  GrantInv'
    <3>1. /\ store \in Stores /\ owner[w] \in Turns /\ k \in Keys
          /\ response[w].scope \in {"turn", "session"}
      BY <1>0, <2>1, <2>4 DEF TypeOK, OwnerInv, RecordFails
    <3>2. CASE response[w].scope = "session"
      <4>1. store'.session = store.session \cup {k}
            /\ store'.turns = store.turns /\ store'.strict = store.strict
        BY <2>4, <3>1, <3>2 DEF Record, Stores
      <4>2. <<0, k>> \in promised
        BY <2>1, <3>2 DEF GrantInv
      <4>3. QED
        BY <2>1, <2>4, <4>1, <4>2 DEF GrantInv, GrantsWerePromised, FlagsFollowGrants, Ended
    <3>3. CASE response[w].scope = "turn"
      <4>1. /\ store'.session = store.session
            /\ store'.turns[owner[w]] = store.turns[owner[w]] \cup {k}
            /\ store'.strict[owner[w]] \in {store.strict[owner[w]] \cup {k},
                                            store.strict[owner[w]] \ {k}}
            /\ \A t \in Turns \ {owner[w]} :
                 store'.turns[t] = store.turns[t] /\ store'.strict[t] = store.strict[t]
        BY <2>4, <3>1, <3>3 DEF Record, Stores
      <4>2. <<owner[w], k>> \in promised
        BY <2>1, <3>3 DEF GrantInv
      <4>3. owner[w] <= turn /\ (Ended(owner[w]) => owner[w] \in outlived)
        BY <1>0, <2>1 DEF GrantInv, OwnerInv
      <4>4. GrantsWerePromised'
        BY <2>1, <4>1, <4>2 DEF GrantInv, GrantsWerePromised
      <4>5. FlagsFollowGrants'
        BY <2>1, <4>1, <4>3 DEF GrantInv, FlagsFollowGrants, Ended
      <4>6. \A t \in Turns : store'.turns[t] # {} => t <= turn'
        BY <2>1, <4>1, <4>3 DEF GrantInv
      <4>7. QED  BY <2>1, <2>4, <4>4, <4>5, <4>6 DEF GrantInv, Ended
    <3>4. QED  BY <3>1, <3>2, <3>3
  <2>5. QED  BY <1>6, <2>3, <2>4 DEF RecordNext
<1>7. ASSUME NEW w \in Workers, RecordingEnds(w) PROVE GrantInv'
  <2>1. /\ UNCHANGED <<turn, live, store, owner, promised, outlived>>
        /\ pc[w] = "recording" /\ Finish(w)
    BY <1>7 DEF RecordingEnds, ghosts
  <2>2. QED  BY <1>0, <2>1, FinishMoves, GrantQuiet
<1>8. ASSUME NEW w \in Workers, Dispatch(w) PROVE GrantInv'
  <2>1. UNCHANGED <<turn, live, store, owner, promised, outlived>> /\ pc[w] = "reviewed"
    BY <1>8 DEF Dispatch, ghosts
  <2>2. CASE Finish(w) \/ (Fail(w) /\ UNCHANGED <<response, recorded>>)
    BY <1>0, <2>1, <2>2, FinishMoves, GrantQuiet
  <2>3. CASE /\ \E place \in {"done", "asking"} : pc' = [pc EXCEPT ![w] = place]
             /\ UNCHANGED <<events, response, recorded>>
    <3>1. \A v \in Workers \ {w} : pc'[v] = pc[v]
      BY <1>0, <2>3 DEF TypeOK
    <3>2. pc'[w] \in {"done", "asking"}
      BY <1>0, <2>3 DEF TypeOK
    <3>3. QED  BY <1>0, <2>1, <2>3, <3>1, <3>2, GrantQuiet
  <2>4. QED  BY <1>8, <2>2, <2>3 DEF Dispatch
<1>9. CASE CommitAttempt \/ RetryAttempt \/ UNCHANGED vars
  BY <1>9, GrantQuiet DEF CommitAttempt, RetryAttempt, vars, calls, ghosts
<1>10. QED
  BY <1>1, <1>2, <1>3, <1>4, <1>5, <1>6, <1>7, <1>8, <1>9
     DEF Next, Step, ReviewStep, ReturnTurn, CommitFails

LEMMA GrantInvariant == Spec => [](TypeInv /\ GrantInv)
BY TypeInvInit, TypeInvStep, GrantInvInit, GrantStep, PTL DEF Spec

\* Every grant in the store was given by the host, with its lifetime.
THEOREM Promised == Spec => []GrantsWerePromised
<1>1. GrantInv => GrantsWerePromised  BY DEF GrantInv
<1>2. QED  BY GrantInvariant, <1>1, PTL

\* No strict flag without its grant, and no grant of a turn that is over and
\* was not outlived by one of its calls.
THEOREM Flags == Spec => []FlagsFollowGrants
<1>1. GrantInv => FlagsFollowGrants  BY DEF GrantInv
<1>2. QED  BY GrantInvariant, <1>1, PTL

-----------------------------------------------------------------------------
(***************************************************************************)
(* Reviews.                                                                *)
(***************************************************************************)
\* A review that is still open has no outcome, and between its two lookups the
\* grant the first one found is still there: only ClearTurn removes grants,
\* and then the turn is over.
BypassInv ==
  /\ \A w \in Workers :
       pc[w] \in {"idle", "classify", "has", "strict", "hook", "reviewer"} =>
         outcome[w] = "none"
  /\ \A w \in Workers :
       pc[w] = "strict" => Ended(owner[w]) \/ Has(store, owner[w], tool[w].key)
  /\ BypassWasPreapproved

LEMMA BypassInvInit == Init => BypassInv
BY DEF Init, BypassInv, BypassWasPreapproved

\* Recording never takes a grant away.
LEMMA RecordKeepsGrants ==
  ASSUME NEW s \in Stores, NEW t \in Turns, NEW k, NEW scope, NEW strict,
         NEW u \in Turns, NEW j, Has(s, u, j)
  PROVE  Has(Record(s, t, k, scope, strict), u, j)
BY DEF Has, Record, Stores

\* Steps outside the review proper: no outcome changes, no goroutine comes to
\* stand between its lookups, and what one found there stays or its turn ends.
LEMMA BypassQuiet ==
  ASSUME TypeInv, BypassInv, UNCHANGED outcome,
         \A v \in Workers :
           /\ pc'[v] \in {"idle", "classify", "has", "strict", "hook", "reviewer"} =>
                pc[v] \in {"idle", "classify", "has", "strict", "hook", "reviewer"}
           /\ pc'[v] = "strict" =>
                \/ Ended(owner[v])'
                \/ /\ pc[v] = "strict" /\ tool'[v] = tool[v] /\ owner'[v] = owner[v]
                   /\ Has(store, owner[v], tool[v].key) =>
                        Has(store', owner[v], tool[v].key)
           /\ pc[v] # "idle" /\ Ended(owner[v]) => Ended(owner[v])'
           /\ justified[v] => justified'[v]
  PROVE  BypassInv'
<1>1. \A v \in Workers : outcome[v] = "preapproved" => pc[v] # "idle"
  BY DEF BypassInv
<1>2. \A v \in Workers : pc'[v] = "strict" => pc[v] # "idle" \/ Ended(owner[v])'
  BY DEF BypassInv
<1>3. BypassWasPreapproved'
  BY <1>1 DEF BypassInv, BypassWasPreapproved
<1>4. QED  BY <1>2, <1>3 DEF BypassInv

LEMMA BypassReview ==
  ASSUME TypeInv, BypassInv, NEW w \in Workers, ReviewStep(w)
  PROVE  BypassInv'
<1>0. TypeOK /\ pc \in [Workers -> Places] /\ outcome \in [Workers -> Outcomes]
      /\ justified \in [Workers -> BOOLEAN]
  BY DEF TypeInv, TypeOK
<1>1. /\ UNCHANGED <<turn, live, store, tool, owner>>
      /\ \A v \in Workers : v # w => pc'[v] = pc[v] /\ outcome'[v] = outcome[v]
      /\ outcome[w] = "none"
  BY <1>0, ReviewMoves DEF Rest, BypassInv
<1>2. \A v \in Workers : justified[v] => justified'[v]
  BY <1>0 DEF ReviewStep, Classify, LookUpGrant, LookUpStrict, AskHook,
             AskReviewer, Witness
<1>3. \/ pc'[w] \in {"has", "strict", "hook", "reviewer"} /\ outcome'[w] = "none"
      \/ pc'[w] \in {"reviewed", "failed"}
  <2>1. \/ \E result, published : EndReview(w, result, published)
        \/ \E place \in {"has", "strict", "hook", "reviewer"} : Proceed(w, place)
    BY DEF ReviewStep, Classify, LookUpGrant, LookUpStrict, AskHook, AskReviewer
  <2>2. QED  BY <1>0, <1>1, <2>1 DEF EndReview, Proceed
<1>4. pc'[w] = "strict" => Has(store, owner[w], tool[w].key)
  BY <1>0 DEF ReviewStep, Classify, LookUpGrant, LookUpStrict, AskHook, AskReviewer,
             EndReview, Proceed
<1>5. outcome'[w] = "preapproved" => justified'[w] \/ Ended(owner[w])
  <2>1. CASE LookUpStrict(w)
    <3>1. justified'[w] \/ Ended(owner[w]) \/ StrictAutoReviewForGrant(store, owner[w], tool[w].key)
      BY <2>1 DEF LookUpStrict, Witness, Reviewing, Preapproved, BypassInv
    <3>2. QED  BY <1>0, <1>1, <2>1, <3>1 DEF LookUpStrict, Proceed
  <2>2. CASE Classify(w) \/ LookUpGrant(w)
    BY <1>0, <1>1, <2>2 DEF Classify, LookUpGrant, EndReview, Proceed
  <2>3. CASE AskHook(w)
    BY <1>0, <1>1, <2>3 DEF AskHook, EndReview, Proceed
  <2>4. CASE AskReviewer(w)
    BY <1>0, <1>1, <2>4 DEF AskReviewer, EndReview, Decided
  <2>5. QED  BY <2>1, <2>2, <2>3, <2>4 DEF ReviewStep
<1>6. BypassWasPreapproved'
  BY <1>1, <1>2, <1>5 DEF BypassInv, BypassWasPreapproved, Ended
<1>7. QED
  BY <1>1, <1>3, <1>4, <1>6 DEF BypassInv, Ended

LEMMA BypassStep ==
  ASSUME TypeInv, BypassInv, [Next]_vars
  PROVE  BypassInv'
<1>0. TypeOK /\ OwnerInv /\ turn \in 0 .. MaxTurns /\ MaxTurns \in Nat
      /\ pc \in [Workers -> Places] /\ owner \in [Workers -> 0 .. MaxTurns]
  BY ReviewAssumption DEF TypeInv, TypeOK
<1>1. CASE StartTurn
  <2>1. /\ turn' = turn + 1 /\ UNCHANGED <<store, pc, tool, owner, outcome, justified>>
    BY <1>1 DEF StartTurn, calls, ghosts
  <2>2. \A v \in Workers : Ended(owner[v])'
    BY <1>0, <2>1 DEF Ended, OwnerInv
  <2>3. QED  BY <2>1, <2>2, BypassQuiet
<1>2. CASE TurnReturns
  <2>1. live' = FALSE /\ UNCHANGED <<pc, tool, owner, outcome, justified>>
    BY <1>2 DEF TurnReturns, calls
  <2>2. \A v \in Workers : Ended(owner[v])'
    BY <2>1 DEF Ended
  <2>3. QED  BY <2>1, <2>2, BypassQuiet
<1>3. ASSUME NEW w \in Workers, StartCall(w) PROVE BypassInv'
  <2>1. /\ pc[w] = "idle" /\ pc' = [pc EXCEPT ![w] = "classify"]
        /\ \A v \in Workers \ {w} : tool'[v] = tool[v] /\ owner'[v] = owner[v]
        /\ UNCHANGED <<turn, live, store, outcome, justified>>
    BY <1>0, <1>3 DEF StartCall, ghosts, TypeOK
  <2>2. \A v \in Workers : v # w => pc'[v] = pc[v]
    BY <1>0, <2>1
  <2>3. pc'[w] = "classify"
    BY <1>0, <2>1
  <2>4. \A v \in Workers : pc[v] # "idle" /\ Ended(owner[v]) => Ended(owner[v])'
    BY <2>1 DEF Ended
  <2>5. QED  BY <2>1, <2>2, <2>3, <2>4, BypassQuiet
<1>4. ASSUME NEW w \in Workers, ReviewStep(w) PROVE BypassInv'
  BY <1>4, BypassReview
<1>5. ASSUME NEW w \in Workers, HostResponds(w) \/ RecordingEnds(w) \/ Dispatch(w)
      PROVE  BypassInv'
  <2>1. /\ UNCHANGED <<turn, live, store, tool, owner, outcome, justified>>
        /\ \A v \in Workers : v # w => pc'[v] = pc[v]
        /\ pc'[w] \in {"done", "failed", "asking", "recording"}
    <3>1. /\ UNCHANGED <<turn, live, store, tool, owner, outcome, justified>>
          /\ \/ Finish(w) \/ (Fail(w) /\ UNCHANGED <<response, recorded>>)
             \/ \E place \in {"done", "asking", "recording"} : pc' = [pc EXCEPT ![w] = place]
      BY <1>5 DEF HostResponds, RecordingEnds, Dispatch, ghosts
    <3>2. QED  BY <1>0, <3>1, FinishMoves
  <2>2. \A v \in Workers :
          pc'[v] \in {"idle", "classify", "has", "strict", "hook", "reviewer"} =>
            pc'[v] = pc[v]
    BY <2>1
  <2>3. QED  BY <2>1, <2>2, BypassQuiet DEF Ended
<1>6. ASSUME NEW w \in Workers, RecordNext(w) PROVE BypassInv'
  <2>1. /\ UNCHANGED <<turn, live, tool, owner, outcome>>
        /\ pc[w] = "recording" /\ (Finish(w) \/ UNCHANGED pc)
    BY <1>6 DEF RecordNext
  <2>2. \A v \in Workers :
          pc'[v] \in {"idle", "classify", "has", "strict", "hook", "reviewer"} =>
            pc'[v] = pc[v]
    BY <1>0, <2>1, FinishMoves
  <2>3. \A v \in Workers : justified[v] => justified'[v]
    BY <1>6 DEF RecordNext, Witness
  <2>4. \A v \in Workers :
          pc[v] = "strict" /\ Has(store, owner[v], tool[v].key) =>
            Has(store', owner[v], tool[v].key)
    <3>1. store \in Stores /\ owner[w] \in Turns
      BY <1>0, <2>1 DEF TypeOK, OwnerInv
    <3>2. \A v \in Workers : pc[v] = "strict" => owner[v] \in Turns
      BY <1>0 DEF OwnerInv
    <3>3. \/ store' = store
          \/ \E k, scope, strict : store' = Record(store, owner[w], k, scope, strict)
      BY <1>6 DEF RecordNext
    <3>4. QED  BY <3>1, <3>2, <3>3, RecordKeepsGrants
  <2>5. QED  BY <2>1, <2>2, <2>3, <2>4, BypassQuiet DEF Ended
<1>7. CASE CommitAttempt \/ RetryAttempt \/ UNCHANGED vars
  BY <1>7, BypassQuiet DEF CommitAttempt, RetryAttempt, vars, calls, ghosts, Ended
<1>8. QED
  BY <1>1, <1>2, <1>3, <1>4, <1>5, <1>6, <1>7
     DEF Next, Step, ReviewStep, ReturnTurn, CommitFails

\* No call of a running turn skips its approval unless it was preapproved at one
\* moment of its review, whatever other calls record meanwhile.
THEOREM Preapproval == Spec => []BypassWasPreapproved
<1>1. BypassInv => BypassWasPreapproved  BY DEF BypassInv
<1>2. QED  BY TypeInvInit, TypeInvStep, BypassInvInit, BypassStep, <1>1, PTL DEF Spec

-----------------------------------------------------------------------------
(***************************************************************************)
(* What the client hears.                                                  *)
(***************************************************************************)
\* Where a goroutine may stand before its review has ended.
Open == {"idle", "classify", "has", "strict", "hook", "reviewer"}

\* The events attached to the result of a call, once it has an outcome, say
\* that outcome, and the outcome is what the policy asks for.
EventsTell(w) ==
  LET requirement == tool[w].requirement IN
  \/ /\ outcome[w] = "free" /\ events[w] = <<>>
     /\ ~NeedsApproval(policy, requirement) /\ ~Refused(policy, requirement)
  \/ /\ outcome[w] = "preapproved" /\ events[w] = <<>>
     /\ NeedsApproval(policy, requirement)
  \/ /\ outcome[w] = "approved" /\ events[w] = ReviewEvents("approved")
     /\ NeedsApproval(policy, requirement)
  \/ /\ outcome[w] = "denied"
     /\ events[w] \in {RefusalEvents, ReviewEvents("denied")}

\* A call between its review and its end, by what became of it.
ReviewOf(w) ==
  /\ pc[w] \in {"hook", "reviewer"} => NeedsApproval(policy, tool[w].requirement)
  /\ pc[w] \in {"has", "strict"} => NeedsApproval(policy, tool[w].requirement)
  /\ pc[w] \in Open => outcome[w] = "none" /\ w \notin ran
  /\ pc[w] \in {"reviewed", "asking", "recording", "done"} => EventsTell(w)
  /\ pc[w] = "reviewed" => w \notin ran
  /\ pc[w] \in {"asking", "recording"} => w \in ran
  /\ pc[w] = "done" /\ w \notin ran => outcome[w] = "denied"
  /\ w \in ran =>
       /\ outcome[w] \in {"free", "preapproved", "approved"}
       /\ ~Refused(policy, tool[w].requirement)

\* The client hears of calls that are done, and of those from the first event
\* on; of a call of a committed attempt it hears all.
ClientOf(w) ==
  /\ w \in kept \cup retried => pc[w] = "done"
  /\ \/ client[w] = <<>>
     \/ pc[w] = "done" /\ \A i \in DOMAIN client[w] :
                            i \in DOMAIN events[w] /\ client[w][i] = events[w][i]
  /\ w \in kept => client[w] = events[w]
  /\ w \in kept /\ outcome[w] = "preapproved" => justified[w]

DecisionInv == \A w \in Workers : ReviewOf(w) /\ ClientOf(w)

\* What the two kinds of events are.
LEMMA EventFacts ==
  /\ RefusalEvents = <<"denied">> /\ DOMAIN RefusalEvents = {1}
  /\ RefusalEvents[1] = "denied"
  /\ \A d \in {"approved", "denied"} :
       /\ DOMAIN ReviewEvents(d) = {1, 2}
       /\ ReviewEvents(d)[1] = "request" /\ ReviewEvents(d)[2] = d
BY DEF RefusalEvents, ReviewEvents

LEMMA DecisionInvSuffices ==
  ASSUME TypeInv, DecisionInv
  PROVE  DecisionsReachTheClient
<1> SUFFICES ASSUME NEW w \in Workers
             PROVE
    /\ w \in ran => ~Refused(policy, tool[w].requirement)
    /\ \A i \in DOMAIN client[w] :
         /\ client[w][i] = "approved" => w \in ran
         /\ client[w][i] = "denied" => w \notin ran
    /\ w \in kept \cap ran /\ NeedsApproval(policy, tool[w].requirement) =>
         justified[w] \/ client[w] = ReviewEvents("approved")
    /\ w \in kept \ ran => client[w] \in {RefusalEvents, ReviewEvents("denied")}
  BY DEF DecisionsReachTheClient
<1>1. ReviewOf(w) /\ ClientOf(w)
  BY DEF DecisionInv
<1>2. ASSUME NEW i \in DOMAIN client[w]
      PROVE  /\ client[w][i] = "approved" => w \in ran
             /\ client[w][i] = "denied" => w \notin ran
  <2>1. client[w] # <<>>
    OBVIOUS
  <2>2. /\ pc[w] = "done" /\ EventsTell(w)
        /\ i \in DOMAIN events[w] /\ client[w][i] = events[w][i]
    BY <1>1, <2>1 DEF ClientOf, ReviewOf
  <2>3. CASE outcome[w] \in {"free", "preapproved"}
    BY <2>2, <2>3 DEF EventsTell
  <2>4. CASE outcome[w] = "approved"
    BY <1>1, <2>2, <2>4, EventFacts DEF EventsTell, ReviewOf
  <2>5. CASE outcome[w] = "denied"
    BY <1>1, <2>2, <2>5, EventFacts DEF EventsTell, ReviewOf
  <2>6. QED  BY <2>2, <2>3, <2>4, <2>5 DEF EventsTell
<1>3. w \in kept => EventsTell(w)
  BY <1>1 DEF ClientOf, ReviewOf
<1>4. QED
  BY <1>1, <1>2, <1>3 DEF ClientOf, ReviewOf, EventsTell

LEMMA DecisionInvInit == Init => DecisionInv
BY DEF Init, DecisionInv, ReviewOf, ClientOf, Open

\* A call keeps its part of the invariant while nothing of its own changes;
\* that its key was preapproved is never forgotten.
LEMMA DecisionFrame ==
  ASSUME DecisionInv, UNCHANGED policy, NEW v \in Workers,
         /\ pc'[v] = pc[v] /\ outcome'[v] = outcome[v] /\ events'[v] = events[v]
         /\ tool'[v] = tool[v] /\ (v \in ran' <=> v \in ran)
         /\ (justified[v] => justified'[v])
         /\ client'[v] = client[v] /\ (v \in kept' <=> v \in kept)
         /\ (v \in retried' <=> v \in retried)
  PROVE  ReviewOf(v)' /\ ClientOf(v)'
<1>1. ReviewOf(v) /\ ClientOf(v)
  BY DEF DecisionInv
<1>2. QED  BY <1>1 DEF ReviewOf, ClientOf, EventsTell, Open

\* The review of w: it is still open, or over, and its events tell how.
LEMMA DecisionReview ==
  ASSUME TypeInv, DecisionInv, NEW w \in Workers, ReviewStep(w)
  PROVE  DecisionInv'
<1>0. /\ pc \in [Workers -> Places] /\ outcome \in [Workers -> Outcomes]
      /\ events \in [Workers -> Seq(Events)] /\ justified \in [Workers -> BOOLEAN]
  BY DEF TypeInv, TypeOK
<1>1. /\ UNCHANGED <<policy, tool, ran, client, kept, retried>>
      /\ pc[w] \in Open
      /\ \A v \in Workers : v # w =>
           pc'[v] = pc[v] /\ outcome'[v] = outcome[v] /\ events'[v] = events[v]
  BY ReviewMoves DEF TypeInv, Rest, config, told, Open
<1>2. \A v \in Workers : justified[v] => justified'[v]
  BY <1>0 DEF ReviewStep, Classify, LookUpGrant, LookUpStrict, AskHook,
             AskReviewer, Witness
<1>3. \A v \in Workers : v # w => ReviewOf(v)' /\ ClientOf(v)'
  BY <1>1, <1>2, DecisionFrame
<1>4. ReviewOf(w) /\ ClientOf(w)
  BY DEF DecisionInv
<1>5. /\ outcome[w] = "none" /\ w \notin ran /\ client[w] = <<>>
      /\ w \notin kept /\ w \notin retried
  BY <1>1, <1>4 DEF ReviewOf, ClientOf, Open
<1>6. ClientOf(w)'
  BY <1>1, <1>5 DEF ClientOf
<1>7. CASE \E place \in {"has", "strict", "hook", "reviewer"} :
             Proceed(w, place) /\ NeedsApproval(policy, tool[w].requirement)
  <2>1. pc'[w] \in {"has", "strict", "hook", "reviewer"} /\ outcome'[w] = "none"
    BY <1>0, <1>5, <1>7 DEF Proceed
  <2>2. ReviewOf(w)'
    BY <1>1, <1>5, <1>7, <2>1 DEF ReviewOf, Open
  <2>3. QED  BY <1>3, <1>6, <2>2 DEF DecisionInv
<1>8. CASE EndReview(w, "error", <<>>)
  <2>1. pc'[w] = "failed"
    BY <1>0, <1>8 DEF EndReview
  <2>2. ReviewOf(w)'
    BY <1>1, <1>5, <2>1 DEF ReviewOf, Open
  <2>3. QED  BY <1>3, <1>6, <2>2 DEF DecisionInv
<1>9. ASSUME NEW result \in {"free", "preapproved", "approved", "denied"},
             NEW published, EndReview(w, result, published),
             \/ /\ result = "free" /\ published = <<>>
                /\ ~NeedsApproval(policy, tool[w].requirement)
                /\ ~Refused(policy, tool[w].requirement)
             \/ /\ result = "preapproved" /\ published = <<>>
                /\ NeedsApproval(policy, tool[w].requirement)
             \/ /\ result = "approved" /\ published = ReviewEvents("approved")
                /\ NeedsApproval(policy, tool[w].requirement)
             \/ /\ result = "denied"
                /\ published \in {RefusalEvents, ReviewEvents("denied")}
      PROVE  DecisionInv'
  <2>1. pc'[w] = "reviewed" /\ outcome'[w] = result /\ events'[w] = published
    BY <1>0, <1>9 DEF EndReview
  <2>2. EventsTell(w)'
    BY <1>1, <1>9, <2>1 DEF EventsTell
  <2>3. ReviewOf(w)'
    BY <1>1, <1>5, <2>1, <2>2 DEF ReviewOf, Open
  <2>4. QED  BY <1>3, <1>6, <2>3 DEF DecisionInv
<1>10. CASE Classify(w)
  BY <1>7, <1>8, <1>9, <1>10 DEF Classify
<1>11. CASE LookUpGrant(w) \/ LookUpStrict(w)
  <2>1. NeedsApproval(policy, tool[w].requirement)
    BY <1>4, <1>11 DEF ReviewOf, LookUpGrant, LookUpStrict
  <2>2. QED
    BY <1>7, <1>9, <1>11, <2>1 DEF LookUpGrant, LookUpStrict
<1>12. CASE AskHook(w)
  <2>1. NeedsApproval(policy, tool[w].requirement)
    BY <1>4, <1>12 DEF ReviewOf, AskHook
  <2>2. QED  BY <1>7, <1>8, <1>9, <1>12, <2>1 DEF AskHook
<1>13. CASE AskReviewer(w)
  <2>1. NeedsApproval(policy, tool[w].requirement)
    BY <1>4, <1>13 DEF ReviewOf, AskReviewer
  <2>2. ASSUME NEW d \in {"approved", "denied", None},
               IF Decided(d) THEN EndReview(w, d, ReviewEvents(d))
               ELSE EndReview(w, "denied", ReviewEvents("denied"))
        PROVE  DecisionInv'
    <3>1. CASE d = "approved"
      BY <1>9, <2>1, <2>2, <3>1 DEF Decided
    <3>2. CASE d = "denied"
      BY <1>9, <2>2, <3>2 DEF Decided
    <3>3. CASE ~Decided(d)
      BY <1>9, <2>2, <3>3
    <3>4. QED  BY <3>1, <3>2, <3>3 DEF Decided
  <2>3. QED  BY <1>8, <1>13, <2>2 DEF AskReviewer
<1>14. QED  BY <1>10, <1>11, <1>12, <1>13 DEF ReviewStep

\* A call that ends: with its result and its events, or failed and without;
\* or that goes on to ask and to record.
LEMMA DecisionCall ==
  ASSUME TypeInv, DecisionInv, NEW w \in Workers,
         HostResponds(w) \/ RecordNext(w) \/ RecordingEnds(w) \/ Dispatch(w)
  PROVE  DecisionInv'
<1>0. /\ TypeOK /\ pc \in [Workers -> Places] /\ justified \in [Workers -> BOOLEAN]
  BY DEF TypeInv, TypeOK
<1>1. /\ UNCHANGED <<policy, tool, outcome, client, kept, retried>>
      /\ pc[w] \in {"reviewed", "asking", "recording"}
  BY DEF HostResponds, RecordNext, RecordingEnds, Dispatch, config, told
<1>2. \A v \in Workers : justified[v] => justified'[v]
  BY <1>0 DEF HostResponds, RecordNext, RecordingEnds, Dispatch, Witness, ghosts
<1>3. \/ ran' = ran \cup {w} /\ outcome[w] # "denied"
      \/ ran' = ran
  BY DEF HostResponds, RecordNext, RecordingEnds, Dispatch
<1>4. \/ Finish(w) \/ (Fail(w) /\ UNCHANGED <<response, recorded>>)
      \/ /\ \E place \in {"done", "asking", "recording"} : pc' = [pc EXCEPT ![w] = place]
         /\ UNCHANGED events
      \/ UNCHANGED <<pc, events>>
  BY DEF HostResponds, RecordNext, RecordingEnds, Dispatch
<1>5. /\ \A v \in Workers : v # w => pc'[v] = pc[v] /\ events'[v] = events[v]
      /\ \/ pc'[w] \in {"done", "asking", "recording"} /\ events'[w] = events[w]
         \/ pc'[w] = "failed"
         \/ UNCHANGED <<pc, events>>
  BY <1>0, <1>4, FinishMoves
<1>6. \A v \in Workers : v # w => ReviewOf(v)' /\ ClientOf(v)'
  BY <1>1, <1>2, <1>3, <1>5, DecisionFrame
<1>7. ReviewOf(w) /\ ClientOf(w)
  BY DEF DecisionInv
<1>8. /\ client[w] = <<>> /\ w \notin kept /\ w \notin retried
  BY <1>1, <1>7 DEF ClientOf
<1>9. ClientOf(w)'
  BY <1>1, <1>8 DEF ClientOf
<1>10. EventsTell(w) /\ (w \in ran' => outcome[w] # "denied")
  BY <1>1, <1>3, <1>7 DEF ReviewOf, EventsTell
<1>11. /\ pc'[w] \in {"asking", "recording"} => w \in ran'
       /\ pc'[w] = "reviewed" => w \notin ran'
       /\ pc'[w] = "done" /\ w \notin ran' => outcome[w] = "denied"
  <2>1. CASE Dispatch(w)
    <3>1. CASE Fail(w) /\ UNCHANGED <<ran, response, recorded>>
      BY <1>0, <3>1, FinishMoves, <1>7, <2>1 DEF Fail
    <3>2. CASE outcome[w] = "denied" /\ pc' = [pc EXCEPT ![w] = "done"]
      BY <1>0, <3>2
    <3>3. CASE ran' = ran \cup {w} /\ (Finish(w) \/ pc' = [pc EXCEPT ![w] = "asking"])
      BY <1>0, <3>3, FinishMoves
    <3>4. QED  BY <2>1, <3>1, <3>2, <3>3 DEF Dispatch
  <2>2. CASE HostResponds(w) \/ RecordNext(w) \/ RecordingEnds(w)
    <3>1. w \in ran /\ ran' = ran
      BY <1>7, <2>2 DEF ReviewOf, HostResponds, RecordNext, RecordingEnds
    <3>2. pc'[w] # "reviewed"
      BY <1>0, <2>2, FinishMoves DEF HostResponds, RecordNext, RecordingEnds
    <3>3. QED  BY <3>1, <3>2
  <2>3. QED  BY <2>1, <2>2
<1>12. pc'[w] \notin Open
  BY <1>1, <1>5 DEF Open
<1>13. pc'[w] # "failed" => EventsTell(w)'
  BY <1>1, <1>5, <1>10 DEF EventsTell
<1>14. w \in ran' => /\ outcome[w] \in {"free", "preapproved", "approved"}
                     /\ ~Refused(policy, tool[w].requirement)
  BY <1>10 DEF EventsTell, NeedsApproval
<1>15. ReviewOf(w)'
  BY <1>1, <1>11, <1>12, <1>13, <1>14 DEF ReviewOf, Open
<1>16. QED  BY <1>6, <1>9, <1>15 DEF DecisionInv

\* The committing of an attempt, whole or in part.
LEMMA DecisionCommit ==
  ASSUME TypeInv, DecisionInv, BypassWasPreapproved, CommitAttempt \/ CommitFails
  PROVE  DecisionInv'
<1>1. /\ UNCHANGED <<policy, tool, pc, outcome, events, ran, retried, justified>>
      /\ live /\ \A w \in Attempt : pc[w] = "done"
  BY DEF CommitAttempt, CommitFails, TurnReturns, Drained, config, calls, ghosts
<1>2. SUFFICES ASSUME NEW v \in Workers PROVE ReviewOf(v)' /\ ClientOf(v)'
  BY DEF DecisionInv
<1>3. ReviewOf(v) /\ ClientOf(v)
  BY DEF DecisionInv
<1>4. ReviewOf(v)'
  BY <1>1, <1>3 DEF ReviewOf, EventsTell, Open
<1>5. v \in Attempt /\ outcome[v] = "preapproved" => justified[v]
  BY <1>1 DEF BypassWasPreapproved, Attempt, Ended, TypeInv, TypeOK
<1>6. events[v] \in Seq(Events)
  BY DEF TypeInv, TypeOK
<1>7. CASE CommitAttempt
  <2>1. /\ client'[v] = IF v \in Attempt THEN events[v] ELSE client[v]
        /\ kept' = kept \cup Attempt
    BY <1>7 DEF CommitAttempt
  <2>2. ClientOf(v)'
    BY <1>1, <1>3, <1>5, <2>1 DEF ClientOf
  <2>3. QED  BY <1>4, <2>2
<1>8. CASE CommitFails
  <2>1. /\ kept' = kept
        /\ \/ client'[v] = client[v]
           \/ v \in Attempt /\ client'[v] = events[v]
           \/ /\ v \in Attempt
              /\ \E n \in 0 .. Len(events[v]) : client'[v] = SubSeq(events[v], 1, n)
    BY <1>8 DEF CommitFails, TurnReturns
  <2>2. v \in Attempt => v \notin kept
    BY DEF Attempt
  <2>3. CASE client'[v] = client[v]
    BY <1>1, <1>3, <1>4, <2>1, <2>3 DEF ClientOf
  <2>4. CASE v \in Attempt /\ client'[v] = events[v]
    BY <1>1, <1>3, <1>4, <2>1, <2>2, <2>4 DEF ClientOf
  <2>5. CASE /\ v \in Attempt
             /\ \E n \in 0 .. Len(events[v]) : client'[v] = SubSeq(events[v], 1, n)
    <3>1. PICK n \in 0 .. Len(events[v]) : client'[v] = SubSeq(events[v], 1, n)
      BY <2>5
    <3>2. \A i \in DOMAIN client'[v] :
            i \in DOMAIN events[v] /\ client'[v][i] = events[v][i]
      <4>1. Len(events[v]) \in Nat /\ DOMAIN events[v] = 1 .. Len(events[v])
        BY <1>6
      <4>2. /\ DOMAIN SubSeq(events[v], 1, n) = 1 .. n
            /\ \A i \in 1 .. n : SubSeq(events[v], 1, n)[i] = events[v][i]
        BY <1>6, <3>1, <4>1
      <4>3. QED  BY <3>1, <4>1, <4>2
    <3>3. QED
      BY <1>1, <1>3, <1>4, <2>1, <2>2, <2>5, <3>2 DEF ClientOf
  <2>6. QED  BY <2>1, <2>3, <2>4, <2>5
<1>9. QED  BY <1>7, <1>8

LEMMA DecisionStep ==
  ASSUME TypeInv, BypassInv, DecisionInv, [Next]_vars
  PROVE  DecisionInv'
<1>0. TypeOK /\ pc \in [Workers -> Places] /\ BypassWasPreapproved
  BY DEF TypeInv, TypeOK, BypassInv
<1>1. CASE StartTurn \/ ReturnTurn \/ UNCHANGED vars
  <2>1. UNCHANGED <<policy, pc, tool, outcome, events, ran, client, kept, retried,
                    justified>>
    BY <1>1 DEF StartTurn, ReturnTurn, TurnReturns, vars, config, calls, told, ghosts
  <2>2. QED  BY <2>1, DecisionFrame DEF DecisionInv
<1>2. CASE RetryAttempt
  <2>1. /\ UNCHANGED <<policy, pc, tool, outcome, events, ran, client, kept, justified>>
        /\ retried' = retried \cup Attempt /\ \A w \in Attempt : pc[w] = "done"
    BY <1>2 DEF RetryAttempt, Drained, config, calls, ghosts
  <2>2. SUFFICES ASSUME NEW v \in Workers PROVE ReviewOf(v)' /\ ClientOf(v)'
    BY DEF DecisionInv
  <2>3. ReviewOf(v) /\ ClientOf(v)
    BY DEF DecisionInv
  <2>4. QED  BY <2>1, <2>3 DEF ReviewOf, ClientOf, EventsTell, Open
<1>3. ASSUME NEW w \in Workers, StartCall(w) PROVE DecisionInv'
  <2>1. /\ UNCHANGED <<policy, outcome, events, ran, client, kept, retried, justified>>
        /\ pc[w] = "idle" /\ pc' = [pc EXCEPT ![w] = "classify"]
        /\ \A v \in Workers \ {w} : tool'[v] = tool[v]
    BY <1>0, <1>3 DEF StartCall, TypeOK, config, told, ghosts
  <2>2. \A v \in Workers : v # w => ReviewOf(v)' /\ ClientOf(v)'
    BY <1>0, <2>1, DecisionFrame
  <2>3. pc'[w] = "classify"
    BY <1>0, <2>1
  <2>4. ReviewOf(w) /\ ClientOf(w)
    BY DEF DecisionInv
  <2>5. /\ outcome[w] = "none" /\ w \notin ran /\ client[w] = <<>>
        /\ w \notin kept /\ w \notin retried
    BY <2>1, <2>4 DEF ReviewOf, ClientOf, Open
  <2>6. ReviewOf(w)' /\ ClientOf(w)'
    BY <2>1, <2>3, <2>5 DEF ReviewOf, ClientOf, Open
  <2>7. QED  BY <2>2, <2>6 DEF DecisionInv
<1>4. QED
  BY <1>0, <1>1, <1>2, <1>3, DecisionReview, DecisionCall, DecisionCommit
     DEF Next, Step, ReviewStep

\* What the client has been told of a call is what became of it, and of a
\* committed call it has been told enough, however reviews, grants, failed
\* attempts and failing sinks fall.
THEOREM DecisionsTold == Spec => []DecisionsReachTheClient
<1>1. Init => TypeInv /\ BypassInv /\ DecisionInv
  BY TypeInvInit, BypassInvInit, DecisionInvInit
<1>2. TypeInv /\ BypassInv /\ DecisionInv /\ [Next]_vars =>
        TypeInv' /\ BypassInv' /\ DecisionInv'
  BY TypeInvStep, BypassStep, DecisionStep
<1>3. TypeInv /\ DecisionInv => DecisionsReachTheClient
  BY DecisionInvSuffices
<1>4. QED  BY <1>1, <1>2, <1>3, PTL DEF Spec

=============================================================================
