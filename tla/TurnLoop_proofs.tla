--------------------------- MODULE TurnLoop_proofs ---------------------------
(***************************************************************************)
(* Theorems about TurnLoop, for every number of retries, requests, calls,  *)
(* inputs and provider tokens.                                             *)
(***************************************************************************)
EXTENDS TurnLoop, Positions_proofs

-----------------------------------------------------------------------------
(***************************************************************************)
(* Sequences of items.                                                     *)
(***************************************************************************)
LEMMA FunctionIsSeq ==
  ASSUME NEW S, NEW n \in Nat, NEW f \in [1 .. n -> S]
  PROVE  f \in Seq(S)
OBVIOUS

\* A sequence is a prefix of what it is extended to.
LEMMA PrefixOfConcat ==
  ASSUME NEW S, NEW p \in Seq(S), NEW s \in Seq(S), NEW t \in Seq(S),
         IsPrefix(p, s)
  PROVE  IsPrefix(p, s \o t)
<1>1. Len(s \o t) = Len(s) + Len(t) /\ Len(s) \in Nat /\ Len(t) \in Nat /\ Len(p) \in Nat
  BY ConcatProperties, LenProperties
<1>2. SubSeq(s \o t, 1, Len(p)) = SubSeq(s, 1, Len(p))
  <2>1. CASE Len(p) = 0
    <3>1. \A q : SubSeq(q, 1, Len(p)) = <<>>  BY <2>1, SubSeqEmpty
    <3>2. QED  BY <3>1
  <2>2. CASE Len(p) > 0
    <3>1. 1 \in 1 .. Len(s) /\ Len(p) \in 1 .. Len(s)
      BY <1>1, <2>2 DEF IsPrefix
    <3>2. QED  BY <3>1, SubSeqOfConcat1
  <2>3. Len(p) = 0 \/ Len(p) > 0  BY <1>1
  <2>4. QED  BY <2>1, <2>2, <2>3
<1>3. QED  BY <1>1, <1>2 DEF IsPrefix

LEMMA PrefixOfItself ==
  ASSUME NEW S, NEW s \in Seq(S)
  PROVE  IsPrefix(s, s)
BY LenProperties DEF IsPrefix

LEMMA PrefixOfAppend ==
  ASSUME NEW S, NEW p \in Seq(S), NEW s \in Seq(S), NEW e \in S, IsPrefix(p, s)
  PROVE  IsPrefix(p, Append(s, e))
<1>1. Append(s, e) = s \o <<e>>  OBVIOUS
<1>2. <<e>> \in Seq(S)  OBVIOUS
<1>3. QED  BY <1>1, <1>2, PrefixOfConcat

ItemKinds == {"call", "result", "aborted", "input", "final", "marker"}

LEMMA ItemTyping ==
  ASSUME NEW k \in ItemKinds, NEW n \in Nat
  PROVE  Item(k, n) \in Items
BY DEF Item, Items, ItemKinds

\* The items of an attempt are sequences of items, whatever Drain returned.
LEMMA AttemptTyping ==
  ASSUME NEW a \in Attempts, lastCall \in Nat
  PROVE  /\ a.calls \in 0 .. MaxCalls
         /\ CallItems(a) \in Seq(Items)
         /\ ResultItems(a) \in Seq(Items)
         /\ Streamed(a) \in Seq(Items)
<1>1. PICK n \in 0 .. MaxCalls : \E r \in Drained(n) : a = [calls |-> n, results |-> r]
  BY DEF Attempts
<1>2. PICK res \in Drained(n) : a = [calls |-> n, results |-> res]
  BY <1>1
<1>3. PICK m \in 0 .. n :
        res \in [1 .. m -> [call : 1 .. n, kind : {"result", "final", "aborted"}]]
  BY DEF Drained
<1>4. n \in Nat /\ m \in Nat /\ a.calls = n /\ a.results = res
  <2>1. n \in Nat /\ m \in Nat  BY TurnLoopAssumption DEF TurnLoopAssumption
  <2>2. a.calls = n /\ a.results = res  BY <1>2
  <2>3. QED  BY <2>1, <2>2
<1>5. CallItems(a) \in Seq(Items)
  <2>1. \A i \in 1 .. n : Item("call", lastCall + i) \in Items
    <3>1. SUFFICES ASSUME NEW i \in 1 .. n PROVE Item("call", lastCall + i) \in Items
      OBVIOUS
    <3>2. lastCall + i \in Nat  BY <1>4
    <3>3. QED  BY <3>2, ItemTyping DEF ItemKinds
  <2>2. CallItems(a) \in [1 .. n -> Items]  BY <1>4, <2>1 DEF CallItems
  <2>3. QED  BY <1>4, <2>2, FunctionIsSeq
<1>6. ResultItems(a) \in Seq(Items)
  <2>1. ASSUME NEW i \in 1 .. m, NEW k \in {"aborted", "result"}
        PROVE  Item(k, lastCall + res[i].call) \in Items
    <3>1. res[i].call \in 1 .. n  BY <1>3
    <3>2. lastCall + res[i].call \in Nat  BY <1>4, <3>1
    <3>3. QED  BY <3>2, ItemTyping DEF ItemKinds
  <2>2. ResultItems(a) \in [1 .. m -> Items]
    <3>1. DOMAIN a.results = 1 .. m  BY <1>3, <1>4
    <3>2. QED  BY <1>4, <2>1, <3>1 DEF ResultItems
  <2>3. QED  BY <1>4, <2>2, FunctionIsSeq
<1>7. QED  BY <1>4, <1>5, <1>6, ConcatProperties DEF Streamed

-----------------------------------------------------------------------------
(***************************************************************************)
(* Types.                                                                  *)
(***************************************************************************)
\* A retry is only waited for, and a stream only opened, while one is left.
RetryLeft == pc \in {"stream", "backoff"} => attempts <= MaxModelRetries

TypeInv == TypeOK /\ RetryLeft

\* The types and the retry count are inductive together.
LEMMA TypeInvariant == Spec => []TypeInv
<1>1. Init => TypeInv
  <2> SUFFICES ASSUME Init PROVE TypeInv
    OBVIOUS
  <2>1. <<>> \in Seq(Items)  BY EmptySeq
  <2>2. 0 \in 0 .. (MaxModelRetries + 1) /\ 0 \in 0 .. MaxCallIds
        /\ 0 \in 0 .. MaxInputs /\ 0 \in 0 .. MaxRequests
    BY TurnLoopAssumption DEF TurnLoopAssumption
  <2>3. "none" \in Tokens  BY DEF Tokens
  <2>4. QED  BY <2>1, <2>2, <2>3 DEF Init, TypeInv, TypeOK, RetryLeft, NoAttempt
<1>2. TypeInv /\ [Next]_vars => TypeInv'
  <2> SUFFICES ASSUME TypeInv, [Next]_vars PROVE TypeInv'
    OBVIOUS
  <2> USE TurnLoopAssumption DEF TurnLoopAssumption
  <2>1. CASE BuildPrompt
    <3>1. requests' \in 0 .. MaxRequests  BY <2>1 DEF TypeInv, TypeOK, BuildPrompt
    <3>2. <<>> \in Seq(Items)  BY EmptySeq
    <3>3. attempts' \in 0 .. (MaxModelRetries + 1) /\ attempts' <= MaxModelRetries
      BY <2>1 DEF BuildPrompt
    <3>4. QED
      BY <2>1, <3>1, <3>2, <3>3
      DEF TypeInv, TypeOK, RetryLeft, BuildPrompt, NoAttempt, Tokens, world
  <2>2. CASE BeforeModelRequestFails \/ CommitFails \/ BackoffInterrupted
    BY <2>2 DEF TypeInv, TypeOK, RetryLeft, BeforeModelRequestFails, CommitFails,
                BackoffInterrupted, Fail, request, world, counters
  <2>3. CASE OpenStream \/ OpenStreamFails \/ AfterModelRequestFails
    <3>1. attempts' = attempts + 1 /\ pc = "stream"
      BY <2>3 DEF OpenStream, OpenStreamFails, AfterModelRequestFails
    <3>2. attempts' \in 0 .. (MaxModelRetries + 1)
      BY <3>1 DEF TypeInv, TypeOK, RetryLeft
    <3>3. /\ pc' \in {"receive", "returned", "backoff"}
          /\ pc' = "backoff" => attempts' <= MaxModelRetries
          /\ verdict' \in {verdict, "failed"}
          /\ UNCHANGED <<history, turnState, aborted, prompt, retryItems, received, sent,
                        world, counters>>
      BY <2>3 DEF OpenStream, OpenStreamFails, AfterModelRequestFails, RetryOrFail, Fail
    <3>4. QED
      BY <3>2, <3>3 DEF TypeInv, TypeOK, RetryLeft, world, counters
  <2>4. ASSUME NEW a \in Attempts, NEW v, Attempt(a, v) PROVE
          /\ CallItems(a) \in Seq(Items) /\ ResultItems(a) \in Seq(Items)
          /\ Streamed(a) \in Seq(Items)
          /\ lastCall' \in 0 .. MaxCallIds /\ executed' \subseteq 1 .. lastCall'
          /\ pc = "receive" /\ UNCHANGED <<queue, cancelled, lastInput, requests>>
    <3>1. lastCall \in Nat /\ a.calls \in Nat
      BY AttemptTyping DEF TypeInv, TypeOK
    <3>2. lastCall' = lastCall + a.calls /\ lastCall' <= MaxCallIds
      BY <2>4 DEF Attempt
    <3>3. PICK S \in SUBSET ((lastCall + 1) .. lastCall') : executed' = executed \cup S
      BY <2>4 DEF Attempt
    <3>4. executed' \subseteq 1 .. lastCall'
      BY <3>1, <3>2, <3>3 DEF TypeInv, TypeOK
    <3>5. QED  BY <2>4, <3>1, <3>2, <3>4, AttemptTyping DEF Attempt
  <2>5. CASE AttemptSucceeds
    <3>1. PICK a \in Attempts, state \in Tokens, open \in BOOLEAN :
            /\ Attempt(a, "ok")
            /\ SeesState(state)
            /\ received' = [items    |-> retryItems \o CallItems(a),
                            results  |-> ResultItems(a),
                            state    |-> state,
                            followUp |-> open \/ a.calls > 0,
                            final    |-> FinalCalls(a) # {}]
            /\ \/ /\ visible' = visible \o CallItems(a)
                  /\ pc' = "commit"
                  /\ UNCHANGED <<history, turnState, verdict, aborted>>
               \/ Fail /\ UNCHANGED visible
            /\ UNCHANGED <<prompt, retryItems, attempts, sent>>
      BY <2>5 DEF AttemptSucceeds
    <3>2. retryItems \o CallItems(a) \in Seq(Items) /\ visible \o CallItems(a) \in Seq(Items)
      BY <2>4, <3>1, ConcatProperties DEF TypeInv, TypeOK
    <3>3. received' \in [items : Seq(Items), results : Seq(Items), state : Tokens,
                         followUp : BOOLEAN, final : BOOLEAN]
      BY <2>4, <3>1, <3>2, Zenon
    <3>4. firstState' \in Tokens  BY <3>1 DEF SeesState, TypeInv, TypeOK
    <3>5. visible' \in Seq(Items) /\ pc' \in {"commit", "returned"}
          /\ verdict' \in {verdict, "failed"} /\ UNCHANGED <<history, turnState, aborted>>
      BY <3>1, <3>2 DEF Fail, TypeInv, TypeOK
    <3>6. QED  BY <2>4, <3>1, <3>3, <3>4, <3>5 DEF TypeInv, TypeOK, RetryLeft
  <2>6. CASE AttemptStreamFails
    <3>1. PICK a \in Attempts, state \in Tokens :
            /\ Attempt(a, "stream")
            /\ SeesState(state)
            /\ retryItems' = retryItems \o Streamed(a)
            /\ prompt' = history \o retryItems'
            /\ visible' = IF MaxModelRetries > 0 THEN visible
                          ELSE visible \o CallItems(a)
            /\ RetryOrFail(attempts)
            /\ UNCHANGED <<attempts, received, sent>>
      BY <2>6 DEF AttemptStreamFails
    <3>2. retryItems' \in Seq(Items) /\ visible \o CallItems(a) \in Seq(Items)
      BY <2>4, <3>1, ConcatProperties DEF TypeInv, TypeOK
    <3>3. prompt' \in Seq(Items) /\ visible' \in Seq(Items)
      BY <3>1, <3>2, ConcatProperties DEF TypeInv, TypeOK
    <3>4. firstState' \in Tokens  BY <3>1 DEF SeesState, TypeInv, TypeOK
    <3>5. /\ pc' \in {"backoff", "returned"} /\ verdict' \in {verdict, "failed"}
          /\ pc' = "backoff" => attempts <= MaxModelRetries
          /\ UNCHANGED <<history, turnState, aborted>>
      BY <3>1 DEF RetryOrFail, Fail
    <3>6. QED
      BY <2>4, <3>1, <3>2, <3>3, <3>4, <3>5 DEF TypeInv, TypeOK, RetryLeft
  <2>7. CASE AttemptCancelled
    <3>1. PICK a \in Attempts :
            /\ Attempt(a, "cancelled")
            /\ aborted' = Append(Streamed(a), Item("marker", 0))
            /\ pc' = "returned" /\ verdict' = "aborted"
            /\ UNCHANGED <<history, turnState, request, visible, firstState>>
      BY <2>7 DEF AttemptCancelled
    <3>2. aborted' \in Seq(Items)
      BY <2>4, <3>1, AppendProperties, ItemTyping DEF ItemKinds
    <3>3. QED  BY <2>4, <3>1, <3>2 DEF TypeInv, TypeOK, RetryLeft, request
  <2>8. CASE AttemptFails
    <3>1. PICK a \in Attempts : Attempt(a, "fatal") /\ Fail
                                 /\ UNCHANGED <<request, visible, firstState>>
      BY <2>8 DEF AttemptFails
    <3>2. QED  BY <2>4, <3>1 DEF TypeInv, TypeOK, RetryLeft, Fail, request
  <2>9. CASE BackoffElapses
    BY <2>9 DEF TypeInv, TypeOK, RetryLeft, BackoffElapses, request, world, counters
  <2>10. CASE CommitAttempt
    <3>1. history' \in Seq(Items) /\ visible' \in Seq(Items)
      BY <2>10, ConcatProperties DEF TypeInv, TypeOK, CommitAttempt
    <3>2. turnState' \in Tokens
      BY <2>10 DEF TypeInv, TypeOK, CommitAttempt
    <3>3. QED
      BY <2>10, <3>1, <3>2 DEF TypeInv, TypeOK, RetryLeft, CommitAttempt, request, counters
  <2>11. CASE DrainPendingInput
    <3>1. history' \in Seq(Items)
      <4>1. history \o queue \in Seq(Items)  BY ConcatProperties DEF TypeInv, TypeOK
      <4>2. Append(history, Item("final", 0)) \in Seq(Items)
        BY AppendProperties, ItemTyping DEF TypeInv, TypeOK, ItemKinds
      <4>3. QED  BY <2>11, <4>1, <4>2 DEF DrainPendingInput, TypeInv, TypeOK
    <3>2. queue' \in Seq(Items)  BY <2>11, EmptySeq DEF DrainPendingInput
    <3>3. pc' \in {"prompt", "complete"}  BY <2>11 DEF DrainPendingInput
    <3>4. QED
      BY <2>11, <3>1, <3>2, <3>3
      DEF TypeInv, TypeOK, RetryLeft, DrainPendingInput, request, counters
  <2>12. CASE CompleteTurn
    BY <2>12 DEF TypeInv, TypeOK, RetryLeft, CompleteTurn, Fail, request, world, counters
  <2>13. CASE Steer
    <3>1. lastInput' \in 0 .. MaxInputs  BY <2>13 DEF TypeInv, TypeOK, Steer
    <3>2. queue' \in Seq(Items)
      BY <2>13, <3>1, AppendProperties, ItemTyping DEF Steer, TypeInv, TypeOK, ItemKinds
    <3>3. QED
      BY <2>13, <3>1, <3>2 DEF TypeInv, TypeOK, RetryLeft, Steer, loop, request
  <2>14. CASE Cancel \/ Terminated \/ UNCHANGED vars
    BY <2>14 DEF TypeInv, TypeOK, RetryLeft, Cancel, Terminated, vars, loop, request,
                 world, counters
  <2>15. QED
    BY <2>1, <2>2, <2>3, <2>5, <2>6, <2>7, <2>8, <2>9, <2>10, <2>11, <2>12, <2>13, <2>14 DEF Next, Turn
<1>3. QED  BY <1>1, <1>2, PTL DEF Spec

\* Every field keeps its type over all retries and requests; in particular a
\* request makes at most MaxModelRetries + 1 attempts.
THEOREM Typing == Spec => []TypeOK
<1>1. TypeInv => TypeOK  BY DEF TypeInv
<1>2. QED  BY <1>1, TypeInvariant, PTL

-----------------------------------------------------------------------------
(***************************************************************************)
(* Prompts.                                                                *)
(***************************************************************************)
\* How the last prompt relates to the history: during a request it is the
\* history and what failed attempts did; an attempt to be committed starts
\* with those items; afterwards the history starts with the prompt.
PromptInv ==
  /\ pc \in {"stream", "receive", "backoff"} => prompt = history \o retryItems
  /\ pc = "commit" => IsPrefix(prompt, history \o received.items)
  /\ pc \in {"pending", "prompt"} => IsPrefix(prompt, history)

\* The invariant holds, and the steps it allows only ever extend the prompt.
LEMMA PromptStep ==
  ASSUME TypeInv, PromptInv, [Next]_vars
  PROVE  PromptInv' /\ IsPrefix(prompt, prompt')
<1>1. UNCHANGED prompt => IsPrefix(prompt, prompt')
  BY PrefixOfItself DEF TypeInv, TypeOK
<1>2. CASE BuildPrompt
  <2>1. prompt' = history /\ history' = history /\ retryItems' = <<>> /\ pc' = "stream"
    BY <1>2 DEF BuildPrompt
  <2>2. history \o <<>> = history  BY ConcatEmptySeq DEF TypeInv, TypeOK
  <2>3. IsPrefix(prompt, history)  BY <1>2 DEF PromptInv, BuildPrompt
  <2>4. QED  BY <2>1, <2>2, <2>3 DEF PromptInv
<1>3. CASE OpenStream \/ OpenStreamFails \/ AfterModelRequestFails \/ BackoffElapses
           \/ BackoffInterrupted
  <2>1. /\ pc' \in {"stream", "receive", "backoff", "returned"}
        /\ pc \in {"stream", "backoff"}
        /\ UNCHANGED <<history, prompt, retryItems>>
    BY <1>3 DEF OpenStream, OpenStreamFails, AfterModelRequestFails, BackoffElapses,
                BackoffInterrupted, RetryOrFail, Fail, request
  <2>2. QED  BY <1>1, <2>1 DEF PromptInv
<1>4. CASE AttemptSucceeds
  <2>1. PICK a \in Attempts :
          /\ pc = "receive" /\ pc' \in {"commit", "returned"}
          /\ received'.items = retryItems \o CallItems(a)
          /\ UNCHANGED <<history, prompt, retryItems>>
    BY <1>4 DEF AttemptSucceeds, Attempt, Fail
  <2>2. CallItems(a) \in Seq(Items)  BY AttemptTyping DEF TypeInv, TypeOK
  <2>3. prompt = history \o retryItems  BY <2>1 DEF PromptInv
  <2>4. IsPrefix(prompt, prompt \o CallItems(a))
    BY <2>2, PrefixOfItself, PrefixOfConcat DEF TypeInv, TypeOK
  <2>5. history \o (retryItems \o CallItems(a)) = prompt \o CallItems(a)
    <3>1. history \in Seq(Items) /\ retryItems \in Seq(Items)  BY DEF TypeInv, TypeOK
    <3>2. (history \o retryItems) \o CallItems(a) = history \o (retryItems \o CallItems(a))
      BY <2>2, <3>1, ConcatAssociative
    <3>3. QED  BY <2>3, <3>2
  <2>6. QED  BY <1>1, <2>1, <2>4, <2>5 DEF PromptInv
<1>5. CASE AttemptStreamFails
  <2>1. PICK a \in Attempts :
          /\ pc = "receive" /\ pc' \in {"backoff", "returned"}
          /\ retryItems' = retryItems \o Streamed(a)
          /\ prompt' = history \o retryItems'
          /\ UNCHANGED history
    BY <1>5 DEF AttemptStreamFails, Attempt, RetryOrFail, Fail
  <2>2. Streamed(a) \in Seq(Items)  BY AttemptTyping DEF TypeInv, TypeOK
  <2>3. prompt = history \o retryItems  BY <2>1 DEF PromptInv
  <2>4. prompt' = prompt \o Streamed(a)
    <3>1. history \in Seq(Items) /\ retryItems \in Seq(Items)  BY DEF TypeInv, TypeOK
    <3>2. (history \o retryItems) \o Streamed(a) = history \o (retryItems \o Streamed(a))
      BY <2>2, <3>1, ConcatAssociative
    <3>3. QED  BY <2>1, <2>3, <3>2
  <2>5. IsPrefix(prompt, prompt')
    BY <2>2, <2>4, PrefixOfItself, PrefixOfConcat DEF TypeInv, TypeOK
  <2>6. QED  BY <2>1, <2>5 DEF PromptInv
<1>6. CASE AttemptCancelled \/ AttemptFails \/ BeforeModelRequestFails \/ CommitFails
           \/ CompleteTurn
  <2>1. UNCHANGED <<prompt, history>> /\ pc' = "returned"
    BY <1>6 DEF AttemptCancelled, AttemptFails, BeforeModelRequestFails, CommitFails,
                CompleteTurn, Fail, request
  <2>2. QED  BY <1>1, <2>1 DEF PromptInv
<1>7. CASE CommitAttempt
  <2>1. /\ pc = "commit" /\ pc' = "pending" /\ UNCHANGED prompt
        /\ history' = (history \o received.items) \o received.results
    BY <1>7 DEF CommitAttempt, request
  <2>2. history \o received.items \in Seq(Items)
    BY ConcatProperties DEF TypeInv, TypeOK
  <2>3. IsPrefix(prompt, history')
    BY <2>1, <2>2, PrefixOfConcat DEF TypeInv, TypeOK, PromptInv
  <2>4. QED  BY <1>1, <2>1, <2>3 DEF PromptInv
<1>8. CASE DrainPendingInput
  <2>1. pc = "pending" /\ pc' \in {"prompt", "complete"} /\ UNCHANGED prompt
    BY <1>8 DEF DrainPendingInput, request
  <2>2. IsPrefix(prompt, history)  BY <2>1 DEF PromptInv
  <2>3. IsPrefix(prompt, history \o queue)
    BY <2>2, PrefixOfConcat DEF TypeInv, TypeOK
  <2>4. IsPrefix(prompt, Append(history, Item("final", 0)))
    BY <2>2, PrefixOfAppend, ItemTyping DEF TypeInv, TypeOK, ItemKinds
  <2>5. IsPrefix(prompt, history')
    BY <1>8, <2>2, <2>3, <2>4 DEF DrainPendingInput
  <2>6. QED  BY <1>1, <2>1, <2>5 DEF PromptInv
<1>9. CASE Steer \/ Cancel \/ Terminated \/ UNCHANGED vars
  <2>1. UNCHANGED <<pc, history, prompt, retryItems, received>>
    BY <1>9 DEF Steer, Cancel, Terminated, vars, loop, request
  <2>2. QED  BY <1>1, <2>1 DEF PromptInv
<1>10. QED
  BY <1>2, <1>3, <1>4, <1>5, <1>6, <1>7, <1>8, <1>9 DEF Next, Turn

\* Whatever is retried, steered or answered, each prompt of a turn extends the
\* one before it: the prefix a provider has cached stays valid.
THEOREM Growing == Spec => PromptsGrow
<1>1. Init => PromptInv
  <2>1. SUFFICES ASSUME Init PROVE IsPrefix(<<>>, <<>>)
    BY DEF Init, PromptInv
  <2>2. QED  BY PrefixOfItself, EmptySeq
<1>2. TypeInv /\ PromptInv /\ [Next]_vars => PromptInv' /\ [IsPrefix(prompt, prompt')]_vars
  BY PromptStep
<1>3. QED  BY <1>1, <1>2, TypeInvariant, PTL DEF Spec, PromptsGrow

-----------------------------------------------------------------------------
(***************************************************************************)
(* Steered input.                                                          *)
(***************************************************************************)
LEMMA RangeOfConcat ==
  ASSUME NEW S, NEW s \in Seq(S), NEW t \in Seq(S)
  PROVE  Range(s \o t) = Range(s) \cup Range(t)
<1>1. /\ s \o t \in Seq(S) /\ Len(s \o t) = Len(s) + Len(t)
      /\ \A i \in 1 .. Len(s) + Len(t) :
           (s \o t)[i] = IF i <= Len(s) THEN s[i] ELSE t[i - Len(s)]
  BY ConcatProperties
<1>2. /\ Len(s) \in Nat /\ Len(t) \in Nat
      /\ DOMAIN s = 1 .. Len(s) /\ DOMAIN t = 1 .. Len(t)
      /\ DOMAIN (s \o t) = 1 .. (Len(s) + Len(t))
  BY <1>1, LenProperties
<1>3. ASSUME NEW x \in Range(s \o t) PROVE x \in Range(s) \cup Range(t)
  <2>1. PICK i \in 1 .. Len(s) + Len(t) : x = (s \o t)[i]  BY <1>2, <1>3 DEF Range
  <2>2. CASE i <= Len(s)
    <3>1. x = s[i] /\ i \in DOMAIN s  BY <1>1, <1>2, <2>1, <2>2
    <3>2. QED  BY <3>1 DEF Range
  <2>3. CASE i > Len(s)
    <3>1. x = t[i - Len(s)] /\ i - Len(s) \in DOMAIN t  BY <1>1, <1>2, <2>1, <2>3
    <3>2. QED  BY <3>1 DEF Range
  <2>4. QED  BY <1>2, <2>2, <2>3
<1>4. ASSUME NEW x \in Range(s) PROVE x \in Range(s \o t)
  <2>1. PICK i \in 1 .. Len(s) : x = s[i]  BY <1>2, <1>4 DEF Range
  <2>2. i \in DOMAIN (s \o t) /\ (s \o t)[i] = x  BY <1>1, <1>2, <2>1
  <2>3. QED  BY <2>2 DEF Range
<1>5. ASSUME NEW x \in Range(t) PROVE x \in Range(s \o t)
  <2>1. PICK i \in 1 .. Len(t) : x = t[i]  BY <1>2, <1>5 DEF Range
  <2>2. i + Len(s) \in DOMAIN (s \o t) /\ (s \o t)[i + Len(s)] = x
    BY <1>1, <1>2, <2>1
  <2>3. QED  BY <2>2 DEF Range
<1>6. QED  BY <1>3, <1>4, <1>5

LEMMA RangeOfAppend ==
  ASSUME NEW S, NEW s \in Seq(S), NEW e \in S
  PROVE  Range(Append(s, e)) = Range(s) \cup {e}
<1>1. Append(s, e) = s \o <<e>> /\ <<e>> \in Seq(S)  OBVIOUS
<1>2. Range(<<e>>) = {e}  BY DEF Range
<1>3. Range(s \o <<e>>) = Range(s) \cup Range(<<e>>)  BY <1>1, RangeOfConcat
<1>4. QED  BY <1>1, <1>2, <1>3

\* Nothing an attempt produces is a steered input.
LEMMA AttemptHasNoInput ==
  ASSUME NEW a \in Attempts
  PROVE  /\ \A x \in Range(CallItems(a)) : x.kind # "input"
         /\ \A x \in Range(ResultItems(a)) : x.kind # "input"
<1>1. ASSUME NEW x \in Range(CallItems(a)) PROVE x.kind # "input"
  <2>1. PICK i \in 1 .. a.calls : x = Item("call", lastCall + i)
    BY <1>1 DEF Range, CallItems
  <2>2. QED  BY <2>1 DEF Item
<1>2. ASSUME NEW x \in Range(ResultItems(a)) PROVE x.kind # "input"
  <2>1. PICK i \in DOMAIN a.results :
          x = Item(IF a.results[i].kind = "aborted" THEN "aborted" ELSE "result",
                   lastCall + a.results[i].call)
    BY <1>2 DEF Range, ResultItems
  <2>2. QED  BY <2>1 DEF Item
<1>3. QED  BY <1>1, <1>2

NoInput(s) == \A x \in Range(s) : x.kind # "input"

\* The inputs of the history are in the last prompt, too.
Shown == \A x \in Range(history) : x.kind = "input" => x \in Range(prompt)

\* Only drained input is ahead of the prompt, and then the turn goes back to
\* build a new one.
InputInv ==
  /\ NoInput(retryItems) /\ NoInput(received.items) /\ NoInput(received.results)
  /\ pc \notin {"prompt", "returned"} \/ verdict = "completed" => Shown
  /\ verdict = "completed" => pc = "returned"

LEMMA InputStep ==
  ASSUME TypeInv, InputInv, [Next]_vars
  PROVE  InputInv'
<1>0. NoInput(<<>>)  BY DEF NoInput, Range
<1>1. CASE BuildPrompt
  <2>1. /\ prompt' = history /\ history' = history /\ retryItems' = <<>>
        /\ received'.items = <<>> /\ received'.results = <<>>
        /\ pc = "prompt" /\ pc' = "stream" /\ verdict' = verdict
    BY <1>1 DEF BuildPrompt, NoAttempt
  <2>2. QED  BY <1>0, <2>1 DEF InputInv, NoInput, Shown
<1>2. CASE OpenStream \/ OpenStreamFails \/ AfterModelRequestFails \/ BackoffElapses
           \/ BackoffInterrupted \/ CommitFails
  <2>1. /\ pc \in {"stream", "backoff", "commit"} /\ pc' # "prompt"
        /\ verdict' \in {verdict, "failed"}
        /\ UNCHANGED <<history, prompt, retryItems, received>>
    BY <1>2 DEF OpenStream, OpenStreamFails, AfterModelRequestFails, BackoffElapses,
                BackoffInterrupted, CommitFails, RetryOrFail, Fail, request
  <2>2. QED  BY <2>1 DEF InputInv, NoInput, Shown
<1>3. CASE AttemptSucceeds
  <2>1. PICK a \in Attempts :
          /\ pc = "receive" /\ verdict' \in {verdict, "failed"}
          /\ received'.items = retryItems \o CallItems(a)
          /\ received'.results = ResultItems(a)
          /\ UNCHANGED <<history, prompt, retryItems>>
    BY <1>3 DEF AttemptSucceeds, Attempt, Fail
  <2>2. CallItems(a) \in Seq(Items)  BY AttemptTyping DEF TypeInv, TypeOK
  <2>3. Range(retryItems \o CallItems(a)) = Range(retryItems) \cup Range(CallItems(a))
    BY <2>2, RangeOfConcat DEF TypeInv, TypeOK
  <2>4. NoInput(received'.items) /\ NoInput(received'.results)
    BY <2>1, <2>3, AttemptHasNoInput DEF NoInput, InputInv
  <2>5. QED  BY <2>1, <2>4 DEF InputInv, NoInput, Shown
<1>4. CASE AttemptStreamFails
  <2>1. PICK a \in Attempts :
          /\ pc = "receive" /\ verdict' \in {verdict, "failed"}
          /\ retryItems' = retryItems \o Streamed(a)
          /\ prompt' = history \o retryItems'
          /\ UNCHANGED <<history, received>>
    BY <1>4 DEF AttemptStreamFails, Attempt, RetryOrFail, Fail
  <2>2. CallItems(a) \in Seq(Items) /\ ResultItems(a) \in Seq(Items)
        /\ Streamed(a) \in Seq(Items) /\ retryItems' \in Seq(Items)
    BY <2>1, AttemptTyping, ConcatProperties DEF TypeInv, TypeOK
  <2>3. Range(Streamed(a)) = Range(CallItems(a)) \cup Range(ResultItems(a))
    BY <2>2, RangeOfConcat DEF Streamed
  <2>4. Range(retryItems') = Range(retryItems) \cup Range(Streamed(a))
    BY <2>1, <2>2, RangeOfConcat DEF TypeInv, TypeOK
  <2>5. NoInput(retryItems')
    BY <2>3, <2>4, AttemptHasNoInput DEF NoInput, InputInv
  <2>6. Range(prompt') = Range(history) \cup Range(retryItems')
    <3>1. history \in Seq(Items)  BY DEF TypeInv, TypeOK
    <3>2. Range(history \o retryItems') = Range(history) \cup Range(retryItems')
      BY <2>2, <3>1, RangeOfConcat
    <3>3. QED  BY <2>1, <3>2
  <2>7. Shown'  BY <2>1, <2>6 DEF Shown
  <2>8. QED  BY <2>1, <2>5, <2>7 DEF InputInv, NoInput
<1>5. CASE AttemptCancelled \/ AttemptFails \/ BeforeModelRequestFails
  <2>1. pc' = "returned" /\ verdict' \in {"failed", "aborted"}
        /\ UNCHANGED <<retryItems, received>>
    BY <1>5 DEF AttemptCancelled, AttemptFails, BeforeModelRequestFails, Fail, request
  <2>2. QED  BY <2>1 DEF InputInv, NoInput
<1>6. CASE CommitAttempt
  <2>1. /\ pc = "commit" /\ pc' = "pending" /\ verdict' = verdict
        /\ UNCHANGED <<prompt, retryItems, received>>
        /\ history' = (history \o received.items) \o received.results
    BY <1>6 DEF CommitAttempt, request
  <2>2. history \o received.items \in Seq(Items)
    BY ConcatProperties DEF TypeInv, TypeOK
  <2>3. Range(history \o received.items) = Range(history) \cup Range(received.items)
    BY RangeOfConcat DEF TypeInv, TypeOK
  <2>4. Range(history') = Range(history \o received.items) \cup Range(received.results)
    <3>1. received.results \in Seq(Items)  BY DEF TypeInv, TypeOK
    <3>2. Range((history \o received.items) \o received.results)
            = Range(history \o received.items) \cup Range(received.results)
      BY <2>2, <3>1, RangeOfConcat
    <3>3. QED  BY <2>1, <3>2
  <2>5. Shown'  BY <2>1, <2>3, <2>4 DEF Shown, InputInv, NoInput
  <2>6. QED  BY <2>1, <2>5 DEF InputInv, NoInput
<1>7. CASE DrainPendingInput
  <2>1. /\ pc = "pending" /\ pc' \in {"prompt", "complete"} /\ verdict' = verdict
        /\ UNCHANGED <<prompt, retryItems, received>>
    BY <1>7 DEF DrainPendingInput, request
  <2>2. CASE pc' = "prompt"
    BY <2>1, <2>2 DEF InputInv, NoInput
  <2>3. CASE history' = Append(history, Item("final", 0))
    <3>1. Range(history') = Range(history) \cup {Item("final", 0)}
      BY <2>3, RangeOfAppend, ItemTyping DEF TypeInv, TypeOK, ItemKinds
    <3>2. Shown'  BY <2>1, <3>1 DEF Shown, InputInv, Item
    <3>3. QED  BY <2>1, <3>2 DEF InputInv, NoInput
  <2>4. CASE UNCHANGED history
    BY <2>1, <2>4 DEF InputInv, NoInput, Shown
  <2>5. QED  BY <1>7, <2>2, <2>3, <2>4 DEF DrainPendingInput
<1>8. CASE CompleteTurn
  <2>1. /\ pc = "complete" /\ pc' = "returned"
        /\ UNCHANGED <<history, prompt, retryItems, received>>
    BY <1>8 DEF CompleteTurn, Fail, request
  <2>2. QED  BY <2>1 DEF InputInv, NoInput, Shown
<1>9. CASE Steer \/ Cancel \/ Terminated \/ UNCHANGED vars
  <2>1. UNCHANGED <<pc, verdict, history, prompt, retryItems, received>>
    BY <1>9 DEF Steer, Cancel, Terminated, vars, loop, request
  <2>2. QED  BY <2>1 DEF InputInv, NoInput, Shown
<1>10. QED
  BY <1>1, <1>2, <1>3, <1>4, <1>5, <1>6, <1>7, <1>8, <1>9 DEF Next, Turn

\* A turn that completes has shown the model every steered input it commits,
\* however the input arrived among retries, tool calls and final responses.
THEOREM InputReached == Spec => []CommittedInputReachedModel
<1>1. Init => InputInv
  <2> SUFFICES ASSUME Init PROVE InputInv
    OBVIOUS
  <2>1. NoInput(<<>>)  BY DEF NoInput, Range
  <2>2. QED  BY <2>1 DEF Init, InputInv, NoAttempt
<1>2. TypeInv /\ InputInv /\ [Next]_vars => InputInv'
  BY InputStep
<1>3. InputInv => CommittedInputReachedModel
  BY DEF InputInv, Shown, Range, CommittedInputReachedModel
<1>4. QED  BY <1>1, <1>2, <1>3, TypeInvariant, PTL DEF Spec

-----------------------------------------------------------------------------
(***************************************************************************)
(* Transcripts that answer their calls.                                    *)
(***************************************************************************)
\* Transcripts in which every call is answered can be put one after another.
LEMMA ClosedConcat ==
  ASSUME NEW s \in Seq(Items), NEW t \in Seq(Items), Closed(s), Closed(t)
  PROVE  Closed(s \o t)
<1> SUFFICES ASSUME NEW i \in DOMAIN (s \o t), (s \o t)[i].kind = "call"
             PROVE  \E j \in DOMAIN (s \o t) :
                      /\ j > i /\ (s \o t)[j].kind \in Answers
                      /\ (s \o t)[j].id = (s \o t)[i].id
  BY DEF Closed
<1>1. CASE i \in DOMAIN s
  <2>1. PICK j \in DOMAIN s : j > i /\ s[j].kind \in Answers /\ s[j].id = s[i].id
    BY <1>1, ConcatIndices DEF Closed
  <2>2. QED  BY <1>1, <2>1, ConcatIndices
<1>2. ASSUME NEW h \in DOMAIN t, i = Len(s) + h
      PROVE  \E j \in DOMAIN (s \o t) :
               /\ j > i /\ (s \o t)[j].kind \in Answers
               /\ (s \o t)[j].id = (s \o t)[i].id
  <2>1. t[h] = (s \o t)[i]
    BY <1>2, ConcatIndices
  <2>2. PICK j \in DOMAIN t : j > h /\ t[j].kind \in Answers /\ t[j].id = t[h].id
    BY <2>1 DEF Closed
  <2>3. Len(s) + j > i
    <3>1. Len(s) \in Nat /\ j \in Nat /\ h \in Nat
      BY ConcatIndices
    <3>2. QED  BY <1>2, <2>2, <3>1
  <2>4. Len(s) + j \in DOMAIN (s \o t) /\ (s \o t)[Len(s) + j] = t[j]
    BY ConcatIndices
  <2>5. QED  BY <2>1, <2>2, <2>3, <2>4
<1>3. QED  BY <1>1, <1>2, ConcatIndices

\* No steered input stands between a call of s and its answer.
NoInputInside(s) ==
  \A i, j, k \in DOMAIN s :
    i < k /\ k < j /\ s[i].kind = "call" /\ s[j].kind \in Answers
      /\ s[i].id = s[j].id => s[k].kind # "input"

\* s holds the calls lo + 1 .. hi and no others, each once, with one real result
\* after it and no input in between: what a stretch of the turn leaves behind.
Block(s, lo, hi) ==
  /\ \A i \in DOMAIN s :
       s[i].kind # "aborted" /\ (s[i].kind \in {"call", "result"} => s[i].id \in (lo + 1) .. hi)
  /\ \A c \in (lo + 1) .. hi : \E i, j \in DOMAIN s :
       i < j /\ s[i] = Item("call", c) /\ s[j] = Item("result", c)
  /\ Once(s)
  /\ NoInputInside(s)

LEMMA BlockIsClosed ==
  ASSUME NEW lo \in Nat, NEW hi \in Nat, NEW s \in Seq(Items), Block(s, lo, hi)
  PROVE  Closed(s)
<1> SUFFICES ASSUME NEW i \in DOMAIN s, s[i].kind = "call"
             PROVE  \E j \in DOMAIN s : j > i /\ s[j].kind \in Answers /\ s[j].id = s[i].id
  BY DEF Closed
<1>1. PICK h \in DOMAIN s, j \in DOMAIN s :
        h < j /\ s[h] = Item("call", s[i].id) /\ s[j] = Item("result", s[i].id)
  BY DEF Block
<1>2. s[i] \in Items
  OBVIOUS
<1>3. s[i] = s[h]
  BY <1>1, <1>2 DEF Items, Item
<1>4. h = i
  BY <1>3 DEF Block, Once
<1>5. DOMAIN s \subseteq Nat
  OBVIOUS
<1>6. s[j].kind = "result" /\ s[j].id = s[i].id
  BY <1>1 DEF Item
<1>7. QED  BY <1>1, <1>4, <1>5, <1>6 DEF Answers

\* Blocks of consecutive calls make one block.
LEMMA BlockConcat ==
  ASSUME NEW lo \in Nat, NEW mid \in Nat, NEW hi \in Nat, lo <= mid, mid <= hi,
         NEW s \in Seq(Items), NEW t \in Seq(Items),
         Block(s, lo, mid), Block(t, mid, hi)
  PROVE  Block(s \o t, lo, hi)
<1> DEFINE u == s \o t
           n == Len(s)
<1>1. /\ n \in Nat /\ DOMAIN s = 1 .. n /\ DOMAIN t \subseteq Nat \ {0}
      /\ \A i \in DOMAIN s : i \in DOMAIN u /\ u[i] = s[i]
      /\ \A j \in DOMAIN t : n + j \in DOMAIN u /\ u[n + j] = t[j]
      /\ \A k \in DOMAIN u : k \in DOMAIN s \/ \E j \in DOMAIN t : k = n + j
  BY ConcatIndices
<1> HIDE DEF u, n
<1> USE DEF Answers
<1>2. /\ \A i \in DOMAIN s :
           s[i].kind # "aborted" /\ (s[i].kind \in {"call", "result"} => s[i].id \in (lo + 1) .. mid)
      /\ \A j \in DOMAIN t :
           t[j].kind # "aborted" /\ (t[j].kind \in {"call", "result"} => t[j].id \in (mid + 1) .. hi)
  BY DEF Block
<1>3. ASSUME NEW i \in DOMAIN u
      PROVE  u[i].kind # "aborted"
             /\ (u[i].kind \in {"call", "result"} => u[i].id \in (lo + 1) .. hi)
  <2>1. CASE i \in DOMAIN s
    BY <1>1, <1>2, <2>1
  <2>2. ASSUME NEW j \in DOMAIN t, i = n + j
        PROVE  u[i].kind # "aborted"
               /\ (u[i].kind \in {"call", "result"} => u[i].id \in (lo + 1) .. hi)
    <3>1. u[i] = t[j]
      BY <1>1, <2>2
    <3>2. QED  BY <1>2, <3>1
  <2>3. QED  BY <1>1, <2>1, <2>2
<1>4. ASSUME NEW c \in (lo + 1) .. hi
      PROVE  \E i, j \in DOMAIN u :
               i < j /\ u[i] = Item("call", c) /\ u[j] = Item("result", c)
  <2>1. CASE c \in (lo + 1) .. mid
    <3>1. PICK i \in DOMAIN s, j \in DOMAIN s :
            i < j /\ s[i] = Item("call", c) /\ s[j] = Item("result", c)
      BY <2>1 DEF Block
    <3>2. QED  BY <1>1, <3>1
  <2>2. CASE c \in (mid + 1) .. hi
    <3>1. PICK i \in DOMAIN t, j \in DOMAIN t :
            i < j /\ t[i] = Item("call", c) /\ t[j] = Item("result", c)
      BY <2>2 DEF Block
    <3>2. n + i < n + j
      BY <1>1, <3>1
    <3>3. QED  BY <1>1, <3>1, <3>2
  <2>3. QED  BY <2>1, <2>2
<1>5. ASSUME NEW i \in DOMAIN s, NEW j \in DOMAIN t,
             s[i].kind = "call", t[j].kind \in {"call"} \cup Answers, s[i].id = t[j].id
      PROVE  FALSE
  BY <1>2, <1>5
<1>6. Once(u)
  <2> SUFFICES ASSUME NEW i \in DOMAIN u, NEW j \in DOMAIN u, u[i] = u[j],
                      u[i].kind \in {"call"} \cup Answers
               PROVE  i = j
    BY DEF Once
  <2>1. CASE i \in DOMAIN s /\ j \in DOMAIN s
    BY <1>1, <2>1 DEF Block, Once
  <2>2. ASSUME NEW g \in DOMAIN t, NEW h \in DOMAIN t, i = n + g, j = n + h
        PROVE  i = j
    <3>1. t[g] = u[i] /\ t[h] = u[j]
      BY <1>1, <2>2
    <3>2. g = h
      BY <3>1 DEF Block, Once
    <3>3. QED  BY <2>2, <3>2
  <2>3. ASSUME NEW g \in DOMAIN s, NEW h \in DOMAIN t, s[g] = t[h],
               s[g].kind \in {"call"} \cup Answers
        PROVE  FALSE
    BY <1>2, <2>3
  <2>4. \A g \in DOMAIN s : u[g] = s[g]
    BY <1>1
  <2>5. \A h \in DOMAIN t : u[n + h] = t[h]
    BY <1>1
  <2>6. QED  BY <1>1, <2>1, <2>2, <2>3, <2>4, <2>5
<1>7. NoInputInside(u)
  <2> SUFFICES ASSUME NEW i \in DOMAIN u, NEW j \in DOMAIN u, NEW k \in DOMAIN u,
                      i < k, k < j, u[i].kind = "call", u[j].kind \in Answers,
                      u[i].id = u[j].id
               PROVE  u[k].kind # "input"
    BY DEF NoInputInside
  <2>0. \A d \in DOMAIN u : d \in Nat
    BY <1>1
  <2>1. CASE j \in DOMAIN s
    <3>1. i \in DOMAIN s /\ k \in DOMAIN s
      BY <1>1, <2>0, <2>1
    <3>2. u[i] = s[i] /\ u[j] = s[j] /\ u[k] = s[k]
      BY <1>1, <2>1, <3>1
    <3>3. QED  BY <2>1, <3>1, <3>2 DEF Block, NoInputInside
  <2>2. ASSUME NEW g \in DOMAIN t, j = n + g PROVE u[k].kind # "input"
    <3>0. u[j] = t[g]
      BY <1>1, <2>2
    <3>1. i \notin DOMAIN s
      BY <1>1, <1>5, <3>0
    <3>2. PICK f \in DOMAIN t : i = n + f
      BY <1>1, <3>1
    <3>3. PICK h \in DOMAIN t : k = n + h
      <4>1. k \in Nat /\ f \in Nat \ {0} /\ k > n + f
        BY <1>1, <2>0, <3>2
      <4>2. k \notin DOMAIN s
        BY <1>1, <4>1
      <4>3. QED  BY <1>1, <4>2
    <3>4. u[i] = t[f] /\ u[k] = t[h]
      BY <1>1, <3>2, <3>3
    <3>5. f < h /\ h < g
      BY <1>1, <2>2, <3>2, <3>3
    <3>6. QED  BY <3>0, <3>4, <3>5 DEF Block, NoInputInside
  <2>3. QED  BY <1>1, <2>1, <2>2
<1>8. QED  BY <1>3, <1>4, <1>6, <1>7 DEF Block, u

\* Items that are no part of a call stand between blocks.
LEMMA BlockOfOthers ==
  ASSUME NEW n \in Nat, NEW s \in Seq(Items),
         \A i \in DOMAIN s : s[i].kind \notin {"call", "result", "aborted"}
  PROVE  Block(s, n, n)
<1>1. (n + 1) .. n = {}
  OBVIOUS
<1>2. QED  BY <1>1 DEF Block, Once, NoInputInside, Answers

\* A completed attempt, and one that may be retried, is a block: by the contract
\* every call is answered, in call order, by what it did.
LEMMA StreamedIsBlock ==
  ASSUME NEW a \in Attempts, lastCall \in Nat, NEW v \in {"ok", "stream"},
         Allowed(a.calls, a.results, v)
  PROVE  Block(Streamed(a), lastCall, lastCall + a.calls)
<1> DEFINE n == a.calls
           res == a.results
           u == Streamed(a)
<1>1. /\ n \in Nat
      /\ \A i \in DOMAIN res : res[i].call \in 1 .. n
      /\ \A i, j \in DOMAIN res : i < j => res[i].call < res[j].call
      /\ DOMAIN res \subseteq Nat
  <2>1. PICK m \in 0 .. MaxCalls : \E r \in Drained(m) : a = [calls |-> m, results |-> r]
    BY DEF Attempts
  <2>2. PICK r \in Drained(m) : a = [calls |-> m, results |-> r]
    BY <2>1
  <2>3. PICK l \in 0 .. m :
          r \in [1 .. l -> [call : 1 .. m, kind : {"result", "final", "aborted"}]]
    BY DEF Drained
  <2>4. \A i, j \in DOMAIN r : i < j => r[i].call < r[j].call
    BY DEF Drained
  <2>5. m \in Nat /\ l \in Nat
    BY TurnLoopAssumption DEF TurnLoopAssumption
  <2>6. n = m /\ res = r
    BY <2>2
  <2>7. QED  BY <2>3, <2>4, <2>5, <2>6
<1>2. /\ {res[i].call : i \in DOMAIN res} = 1 .. n
      /\ \A i \in DOMAIN res : res[i].kind # "aborted"
  BY DEF Allowed, Answered
<1> HIDE DEF n, res
<1>3. /\ \A i \in DOMAIN u :
           \/ i \in 1 .. n /\ u[i] = Item("call", lastCall + i)
           \/ \E j \in DOMAIN res : i = n + j /\ u[i] = Item("result", lastCall + res[j].call)
      /\ \A i \in 1 .. n : i \in DOMAIN u /\ u[i] = Item("call", lastCall + i)
      /\ \A j \in DOMAIN res :
           n + j \in DOMAIN u /\ u[n + j] = Item("result", lastCall + res[j].call)
      /\ DOMAIN res \subseteq Nat \ {0}
  <2>1. CallItems(a) \in Seq(Items) /\ ResultItems(a) \in Seq(Items)
    BY AttemptTyping
  <2>2. /\ DOMAIN CallItems(a) = 1 .. n /\ DOMAIN ResultItems(a) = DOMAIN res
        /\ \A i \in 1 .. n : CallItems(a)[i] = Item("call", lastCall + i)
        /\ \A j \in DOMAIN res : ResultItems(a)[j] = Item("result", lastCall + res[j].call)
    BY <1>2 DEF CallItems, ResultItems, n, res
  <2>3. Len(CallItems(a)) = n
    BY <1>1, <2>1, <2>2, LenProperties
  <2>4. QED  BY <2>1, <2>2, <2>3, ConcatIndices DEF Streamed
<1> HIDE DEF u
<1>4. ASSUME NEW i \in DOMAIN u
      PROVE  /\ u[i].kind \in {"call", "result"}
             /\ u[i].id \in (lastCall + 1) .. (lastCall + n)
  <2>1. CASE i \in 1 .. n /\ u[i] = Item("call", lastCall + i)
    BY <1>1, <2>1 DEF Item
  <2>2. ASSUME NEW j \in DOMAIN res, u[i] = Item("result", lastCall + res[j].call)
        PROVE  /\ u[i].kind \in {"call", "result"}
               /\ u[i].id \in (lastCall + 1) .. (lastCall + n)
    <3>1. res[j].call \in 1 .. n
      BY <1>1
    <3>2. QED  BY <1>1, <2>2, <3>1 DEF Item
  <2>3. QED  BY <1>3, <2>1, <2>2
<1>5. ASSUME NEW c \in (lastCall + 1) .. (lastCall + n)
      PROVE  \E i, j \in DOMAIN u :
               i < j /\ u[i] = Item("call", c) /\ u[j] = Item("result", c)
  <2>1. c - lastCall \in 1 .. n /\ lastCall + (c - lastCall) = c
    BY <1>1
  <2>2. PICK j \in DOMAIN res : res[j].call = c - lastCall
    BY <1>2, <2>1
  <2>3. u[c - lastCall] = Item("call", c) /\ c - lastCall \in DOMAIN u
    BY <1>3, <2>1
  <2>4. u[n + j] = Item("result", c) /\ n + j \in DOMAIN u
    BY <1>3, <2>1, <2>2
  <2>5. c - lastCall < n + j
    BY <1>1, <1>3, <2>1
  <2>6. QED  BY <2>3, <2>4, <2>5
<1>6. Once(u)
  <2> SUFFICES ASSUME NEW i \in DOMAIN u, NEW j \in DOMAIN u, u[i] = u[j] PROVE i = j
    BY DEF Once
  <2>1. CASE u[i].kind = "call"
    <3>1. i \in 1 .. n /\ u[i] = Item("call", lastCall + i)
      BY <1>3, <2>1 DEF Item
    <3>2. j \in 1 .. n /\ u[j] = Item("call", lastCall + j)
      BY <1>3, <2>1 DEF Item
    <3>3. \A m : Item("call", m).id = m
      BY DEF Item
    <3>4. lastCall + i = lastCall + j
      <4>1. Item("call", lastCall + i) = Item("call", lastCall + j)
        BY <3>1, <3>2
      <4>2. Item("call", lastCall + i).id = Item("call", lastCall + j).id
        BY <4>1
      <4>3. QED  BY <3>3, <4>2
    <3>5. i \in Nat /\ j \in Nat
      BY <3>1, <3>2
    <3>6. QED  BY <3>4, <3>5
  <2>2. CASE u[i].kind = "result"
    <3>1. PICK g \in DOMAIN res : i = n + g /\ u[i] = Item("result", lastCall + res[g].call)
      BY <1>3, <2>2 DEF Item
    <3>2. PICK h \in DOMAIN res : j = n + h /\ u[j] = Item("result", lastCall + res[h].call)
      BY <1>3, <2>2 DEF Item
    <3>3. lastCall + res[g].call = lastCall + res[h].call
      BY <3>1, <3>2 DEF Item
    <3>4. res[g].call = res[h].call /\ res[g].call \in Nat
      BY <1>1, <3>3
    <3>5. ~(g < h) /\ ~(h < g)
      BY <1>1, <3>4
    <3>6. QED  BY <1>1, <3>1, <3>2, <3>5
  <2>3. QED  BY <1>4, <2>1, <2>2
<1>7. NoInputInside(u)
  BY <1>4 DEF NoInputInside
<1>8. QED  BY <1>4, <1>5, <1>6, <1>7 DEF Block, u, n

-----------------------------------------------------------------------------
(***************************************************************************)
(* What the prompts and the history tell.                                  *)
(***************************************************************************)
LEMMA PromptHolds == Spec => []PromptInv
<1>1. Init => PromptInv
  <2>1. SUFFICES ASSUME Init PROVE IsPrefix(<<>>, <<>>)
    BY DEF Init, PromptInv
  <2>2. QED  BY PrefixOfItself, EmptySeq
<1>2. TypeInv /\ PromptInv /\ [Next]_vars => PromptInv'
  BY PromptStep
<1>3. QED  BY <1>1, <1>2, TypeInvariant, PTL DEF Spec

\* The prompt of a request, the transcript about to be committed and the
\* history between requests are blocks of all calls of the turn so far; the
\* queue holds nothing but input.
TellInv ==
  /\ pc \in {"stream", "receive", "backoff"} => Block(prompt, 0, lastCall)
  /\ pc = "commit" =>
       Block((history \o received.items) \o received.results, 0, lastCall)
  /\ pc \in {"prompt", "pending", "complete"} \/ verdict = "completed" =>
       Block(history, 0, lastCall)
  /\ NoInputInside(history) /\ NoInputInside(prompt)
  /\ \A i \in DOMAIN queue : queue[i].kind = "input"
  /\ verdict = "completed" => pc = "returned"

\* An attempt that completes, or that may be retried, extends a prompt that
\* tells everything to one that does.
LEMMA AttemptExtends ==
  ASSUME TypeInv, PromptInv, TellInv, NEW a \in Attempts, NEW v \in {"ok", "stream"},
         Attempt(a, v)
  PROVE  /\ pc = "receive" /\ lastCall' = lastCall + a.calls /\ UNCHANGED queue
         /\ CallItems(a) \in Seq(Items) /\ ResultItems(a) \in Seq(Items)
         /\ Closed(Streamed(a))
         /\ prompt = history \o retryItems
         /\ Block(prompt \o Streamed(a), 0, lastCall')
<1>1. /\ pc = "receive" /\ lastCall' = lastCall + a.calls /\ UNCHANGED queue
      /\ Allowed(a.calls, a.results, v)
  BY DEF Attempt
<1>2. lastCall \in Nat /\ prompt \in Seq(Items)
  BY TurnLoopAssumption DEF TypeInv, TypeOK, TurnLoopAssumption
<1>3. /\ a.calls \in Nat /\ CallItems(a) \in Seq(Items) /\ ResultItems(a) \in Seq(Items)
      /\ Streamed(a) \in Seq(Items)
  BY <1>2, AttemptTyping
<1>4. prompt = history \o retryItems /\ Block(prompt, 0, lastCall)
  BY <1>1 DEF PromptInv, TellInv
<1>5. Block(Streamed(a), lastCall, lastCall + a.calls)
  BY <1>1, <1>2, StreamedIsBlock
<1>6. lastCall + a.calls \in Nat /\ lastCall <= lastCall + a.calls /\ 0 <= lastCall
  BY <1>2, <1>3
<1>7. Closed(Streamed(a))
  BY <1>2, <1>3, <1>5, <1>6, BlockIsClosed
<1>8. Block(prompt \o Streamed(a), 0, lastCall + a.calls)
  BY <1>2, <1>3, <1>4, <1>5, <1>6, BlockConcat
<1>9. QED  BY <1>1, <1>3, <1>4, <1>7, <1>8

LEMMA TellStep ==
  ASSUME TypeInv, PromptInv, TellInv, [Next]_vars
  PROVE  TellInv'
<1>0. lastCall \in Nat /\ 0 <= lastCall
  BY TurnLoopAssumption DEF TypeInv, TypeOK, TurnLoopAssumption
<1>1. CASE BuildPrompt
  <2>1. /\ pc = "prompt" /\ pc' = "stream" /\ prompt' = history
        /\ UNCHANGED <<history, lastCall, queue, verdict>>
    BY <1>1 DEF BuildPrompt, world
  <2>2. Block(history, 0, lastCall) /\ NoInputInside(history)
    BY <2>1 DEF TellInv
  <2>3. QED  BY <2>1, <2>2 DEF TellInv
<1>2. CASE OpenStream \/ OpenStreamFails \/ AfterModelRequestFails \/ BackoffElapses
           \/ BackoffInterrupted
  <2>1. /\ pc \in {"stream", "backoff"}
        /\ pc' \in {"stream", "receive", "backoff", "returned"}
        /\ verdict' \in {verdict, "failed"}
        /\ UNCHANGED <<history, prompt, lastCall, queue>>
    BY <1>2 DEF OpenStream, OpenStreamFails, AfterModelRequestFails, BackoffElapses,
                BackoffInterrupted, RetryOrFail, Fail, request, world, counters
  <2>2. QED  BY <2>1 DEF TellInv
<1>3. CASE AttemptSucceeds
  <2>1. PICK a \in Attempts :
          /\ Attempt(a, "ok") /\ pc' \in {"commit", "returned"}
          /\ verdict' \in {verdict, "failed"}
          /\ received'.items = retryItems \o CallItems(a)
          /\ received'.results = ResultItems(a)
          /\ UNCHANGED <<history, prompt>>
    BY <1>3 DEF AttemptSucceeds, Fail
  <2>2. /\ pc = "receive" /\ UNCHANGED queue
        /\ CallItems(a) \in Seq(Items) /\ ResultItems(a) \in Seq(Items)
        /\ prompt = history \o retryItems /\ Block(prompt \o Streamed(a), 0, lastCall')
    BY <2>1, AttemptExtends
  <2>3. (history' \o received'.items) \o received'.results = prompt \o Streamed(a)
    <3>0. history \in Seq(Items) /\ retryItems \in Seq(Items) /\ CallItems(a) \in Seq(Items)
      BY <2>2 DEF TypeInv, TypeOK
    <3>1. prompt \in Seq(Items) /\ CallItems(a) \in Seq(Items) /\ ResultItems(a) \in Seq(Items)
      BY <2>2 DEF TypeInv, TypeOK
    <3>2. (history \o retryItems) \o CallItems(a) = history \o (retryItems \o CallItems(a))
      BY <3>0, ConcatAssociative
    <3>3. (prompt \o CallItems(a)) \o ResultItems(a)
            = prompt \o (CallItems(a) \o ResultItems(a))
      BY <3>1, ConcatAssociative
    <3>4. history \o (retryItems \o CallItems(a)) = prompt \o CallItems(a)
      BY <2>2, <3>2
    <3>5. QED  BY <2>1, <3>3, <3>4 DEF Streamed
  <2>4. verdict' # "completed"
    BY <2>1, <2>2 DEF TellInv
  <2>5. QED  BY <2>1, <2>2, <2>3, <2>4 DEF TellInv
<1>4. CASE AttemptStreamFails
  <2>1. PICK a \in Attempts :
          /\ Attempt(a, "stream") /\ pc' \in {"backoff", "returned"}
          /\ verdict' \in {verdict, "failed"}
          /\ retryItems' = retryItems \o Streamed(a)
          /\ prompt' = history \o retryItems'
          /\ UNCHANGED history
    BY <1>4 DEF AttemptStreamFails, RetryOrFail, Fail
  <2>2. /\ pc = "receive" /\ UNCHANGED queue
        /\ CallItems(a) \in Seq(Items) /\ ResultItems(a) \in Seq(Items)
        /\ prompt = history \o retryItems /\ Block(prompt \o Streamed(a), 0, lastCall')
    BY <2>1, AttemptExtends
  <2>3. prompt' = prompt \o Streamed(a)
    <3>1. /\ history \in Seq(Items) /\ retryItems \in Seq(Items)
          /\ Streamed(a) \in Seq(Items)
      BY <2>2, ConcatProperties DEF TypeInv, TypeOK, Streamed
    <3>2. (history \o retryItems) \o Streamed(a) = history \o (retryItems \o Streamed(a))
      BY <3>1, ConcatAssociative
    <3>3. QED  BY <2>1, <2>2, <3>2
  <2>4. Block(prompt', 0, lastCall')
    BY <2>2, <2>3
  <2>5. NoInputInside(prompt')
    BY <2>4 DEF Block
  <2>6. verdict' # "completed"
    BY <2>1, <2>2 DEF TellInv
  <2>7. QED  BY <2>1, <2>2, <2>4, <2>5, <2>6 DEF TellInv
<1>5. CASE AttemptCancelled \/ AttemptFails \/ BeforeModelRequestFails \/ CommitFails
  <2>1. /\ pc' = "returned" /\ verdict' \in {"failed", "aborted"}
        /\ UNCHANGED <<history, prompt, queue>>
    BY <1>5 DEF AttemptCancelled, AttemptFails, BeforeModelRequestFails, CommitFails,
                Attempt, Fail, request, world
  <2>2. QED  BY <2>1 DEF TellInv
<1>6. CASE CommitAttempt
  <2>1. /\ pc = "commit" /\ pc' = "pending" /\ verdict' = verdict
        /\ history' = (history \o received.items) \o received.results
        /\ UNCHANGED <<prompt, queue, lastCall>>
    BY <1>6 DEF CommitAttempt, request, counters
  <2>2. Block(history', 0, lastCall')
    BY <2>1 DEF TellInv
  <2>3. QED  BY <2>1, <2>2 DEF TellInv, Block
<1>7. CASE DrainPendingInput
  <2>1. /\ pc = "pending" /\ pc' \in {"prompt", "complete"} /\ verdict' = verdict
        /\ queue' = <<>> /\ UNCHANGED <<prompt, lastCall>>
    BY <1>7 DEF DrainPendingInput, request, counters
  <2>2. Block(history, 0, lastCall) /\ history \in Seq(Items) /\ queue \in Seq(Items)
    BY <2>1 DEF TellInv, TypeInv, TypeOK
  <2>3. Block(queue, lastCall, lastCall)
    BY <1>0, <2>2, BlockOfOthers DEF TellInv
  <2>4. Block(history \o queue, 0, lastCall)
    BY <1>0, <2>2, <2>3, BlockConcat
  <2>5. Block(Append(history, Item("final", 0)), 0, lastCall)
    <3> DEFINE f == <<Item("final", 0)>>
    <3>1. Item("final", 0) \in Items /\ Item("final", 0).kind = "final"
      BY ItemTyping DEF ItemKinds, Item
    <3>2. f \in Seq(Items) /\ \A i \in DOMAIN f : f[i].kind = "final"
      BY <3>1
    <3>3. Append(history, Item("final", 0)) = history \o f
      BY <2>2, <3>1
    <3> HIDE DEF f
    <3>4. Block(f, lastCall, lastCall)
      BY <1>0, <3>2, BlockOfOthers
    <3>5. Block(history \o f, 0, lastCall)
      BY <1>0, <2>2, <3>2, <3>4, BlockConcat
    <3>6. QED  BY <3>3, <3>5
  <2>6. Block(history', 0, lastCall)
    BY <1>7, <2>2, <2>4, <2>5 DEF DrainPendingInput
  <2>7. NoInputInside(history')
    BY <2>6 DEF Block
  <2>8. QED  BY <2>1, <2>6, <2>7 DEF TellInv
<1>8. CASE CompleteTurn
  <2>1. /\ pc = "complete" /\ pc' = "returned"
        /\ UNCHANGED <<history, prompt, queue, lastCall>>
    BY <1>8 DEF CompleteTurn, Fail, request, world, counters
  <2>2. QED  BY <2>1 DEF TellInv
<1>9. CASE Steer
  <2>1. /\ UNCHANGED <<pc, verdict, history, prompt, received, lastCall>>
        /\ queue' = Append(queue, Item("input", lastInput'))
        /\ lastInput' \in Nat
    BY <1>9, TurnLoopAssumption DEF Steer, loop, request, TypeInv, TypeOK, TurnLoopAssumption
  <2>2. \A i \in DOMAIN queue' : queue'[i].kind = "input"
    <3> DEFINE e == Item("input", lastInput')
    <3>1. e.kind = "input" /\ queue \in Seq(Items)
      BY DEF Item, TypeInv, TypeOK
    <3>2. e \in Items
      BY <2>1, ItemTyping DEF ItemKinds
    <3>3. queue' = Append(queue, e)
      BY <2>1
    <3> HIDE DEF e
    <3>4. QED  BY <3>1, <3>2, <3>3, AppendProperties DEF TellInv
  <2>3. QED  BY <2>1, <2>2 DEF TellInv
<1>10. CASE Cancel \/ Terminated \/ UNCHANGED vars
  <2>1. UNCHANGED <<pc, verdict, history, prompt, received, lastCall, queue>>
    BY <1>10 DEF Cancel, Terminated, vars, loop, request, world, counters
  <2>2. QED  BY <2>1 DEF TellInv
<1>11. QED
  BY <1>1, <1>2, <1>3, <1>4, <1>5, <1>6, <1>7, <1>8, <1>9, <1>10 DEF Next, Turn

LEMMA Tells == Spec => []TellInv
<1>1. Init => TellInv
  <2> SUFFICES ASSUME Init PROVE TellInv
    OBVIOUS
  <2>1. Block(<<>>, 0, 0)
    <3>1. <<>> \in Seq(Items) /\ DOMAIN <<>> = {} /\ 0 \in Nat
      BY EmptySeq
    <3>2. QED  BY <3>1, BlockOfOthers
  <2>2. QED  BY <2>1 DEF Init, TellInv, Block
<1>2. TypeInv /\ PromptInv /\ TellInv /\ [Next]_vars => TellInv'
  BY TellStep
<1>3. QED  BY <1>1, <1>2, TypeInvariant, PromptHolds, PTL DEF Spec

\* Retries neither forget nor repeat what tools did: every prompt of the turn
\* and the committed history answer each call exactly once and tell of each
\* handler that ran, for any number of failed attempts (committedRetryItems).
THEOREM EffectsTold == Spec => []EffectsAreTold
<1>1. ASSUME TypeInv, NEW s \in Seq(Items), Block(s, 0, lastCall) PROVE TellsAll(s)
  <2>1. lastCall \in Nat /\ executed \subseteq 1 .. lastCall
    BY <1>1, TurnLoopAssumption DEF TypeInv, TypeOK, TurnLoopAssumption
  <2>2. Closed(s)
    BY <1>1, <2>1, BlockIsClosed
  <2>3. \A c \in executed : \E i \in DOMAIN s : s[i].kind = "result" /\ s[i].id = c
    BY <1>1, <2>1 DEF Block, Item
  <2>4. QED  BY <1>1, <2>2, <2>3 DEF TellsAll, Block
<1>2. TypeInv /\ TellInv => EffectsAreTold
  <2> SUFFICES ASSUME TypeInv, TellInv PROVE EffectsAreTold
    OBVIOUS
  <2>1. history \in Seq(Items) /\ prompt \in Seq(Items)
    BY DEF TypeInv, TypeOK
  <2>2. QED
    BY <1>1, <2>1 DEF TellInv, EffectsAreTold, PromptTellsEffects,
                      CommittedHistoryTellsEffects
<1>3. QED  BY <1>2, Tells, TypeInvariant, PTL

\* Input that arrives while tools run waits for the safe point: no history and
\* no prompt has it between a call and its result (drainPendingInput).
THEOREM InputWaits == Spec => []InputAtSafeBoundary
<1>1. TellInv => InputAtSafeBoundary
  BY DEF TellInv, NoInputInside, InputAtSafeBoundary
<1>2. QED  BY <1>1, Tells, PTL

-----------------------------------------------------------------------------
(***************************************************************************)
(* What the client sees.                                                   *)
(***************************************************************************)
\* Calls are shown without their results only from a completed attempt to the
\* commit that follows it.  (Without retries a failed attempt ends the turn.)
VisibleInv ==
  /\ pc \in {"prompt", "stream", "receive", "backoff", "pending", "complete"} => Closed(visible)
  /\ pc = "commit" => Closed(visible \o received.results)
  /\ pc = "receive" => attempts >= 1

LEMMA VisibleStep ==
  ASSUME TypeInv, PromptInv, TellInv, VisibleInv, [Next]_vars
  PROVE  VisibleInv'
<1> USE TurnLoopAssumption DEF TurnLoopAssumption
<1>1. CASE BuildPrompt \/ OpenStream \/ OpenStreamFails \/ AfterModelRequestFails
           \/ BackoffElapses \/ BackoffInterrupted \/ BeforeModelRequestFails
           \/ CommitFails \/ DrainPendingInput \/ CompleteTurn
  <2>1. /\ pc \notin {"receive", "commit"} \/ pc' = "returned"
        /\ pc # "returned" /\ pc' # "commit" /\ UNCHANGED visible
        /\ pc' = "receive" => attempts' = attempts + 1
    BY <1>1 DEF BuildPrompt, OpenStream, OpenStreamFails, AfterModelRequestFails,
                BackoffElapses, BackoffInterrupted, BeforeModelRequestFails,
                CommitFails, DrainPendingInput, CompleteTurn, RetryOrFail, Fail, world
  <2>2. attempts \in Nat
    BY DEF TypeInv, TypeOK
  <2>3. QED  BY <2>1, <2>2 DEF VisibleInv, TypeInv, TypeOK
<1>2. CASE AttemptSucceeds
  <2>1. PICK a \in Attempts :
          /\ Attempt(a, "ok")
          /\ received'.results = ResultItems(a)
          /\ \/ visible' = visible \o CallItems(a) /\ pc' = "commit"
             \/ pc' = "returned"
    BY <1>2 DEF AttemptSucceeds, Fail
  <2>2. /\ pc = "receive" /\ Closed(Streamed(a))
        /\ CallItems(a) \in Seq(Items) /\ ResultItems(a) \in Seq(Items)
    BY <2>1, AttemptExtends
  <2>3. visible \in Seq(Items) /\ Streamed(a) \in Seq(Items) /\ Closed(visible)
    BY <2>2, ConcatProperties DEF TypeInv, TypeOK, VisibleInv, Streamed
  <2>4. Closed(visible \o Streamed(a))
    BY <2>2, <2>3, ClosedConcat
  <2>5. (visible \o CallItems(a)) \o ResultItems(a) = visible \o Streamed(a)
    BY <2>2, <2>3, ConcatAssociative DEF Streamed
  <2>6. QED  BY <2>1, <2>4, <2>5 DEF VisibleInv
<1>3. CASE AttemptStreamFails
  <2>1. /\ pc = "receive" /\ pc' \in {"backoff", "returned"}
        /\ MaxModelRetries > 0 => UNCHANGED visible
        /\ pc' = "backoff" => attempts <= MaxModelRetries
        /\ UNCHANGED attempts
    BY <1>3 DEF AttemptStreamFails, Attempt, RetryOrFail, Fail
  <2>2. attempts \in Nat /\ attempts >= 1 /\ Closed(visible)
    BY <2>1 DEF TypeInv, TypeOK, VisibleInv
  <2>3. pc' = "backoff" => MaxModelRetries > 0
    BY <2>1, <2>2
  <2>4. QED  BY <2>1, <2>2, <2>3 DEF VisibleInv
<1>4. CASE AttemptCancelled \/ AttemptFails
  BY <1>4 DEF AttemptCancelled, AttemptFails, Fail, VisibleInv
<1>5. CASE CommitAttempt
  BY <1>5 DEF CommitAttempt, VisibleInv
<1>6. CASE Steer \/ Cancel \/ Terminated \/ UNCHANGED vars
  <2>1. UNCHANGED <<pc, visible, received, attempts>>
    BY <1>6 DEF Steer, Cancel, Terminated, vars, loop, request, world
  <2>2. QED  BY <2>1 DEF VisibleInv
<1>7. QED
  BY <1>1, <1>2, <1>3, <1>4, <1>5, <1>6 DEF Next, Turn

\* The client is never left with a tool call of an attempt that was thrown
\* away: a buffered sink shows none, and an unbuffered one is not retried.
THEOREM ClientSeesClosed == Spec => []ClientSeesClosedCalls
<1>1. Init => VisibleInv
  BY DEF Init, VisibleInv, Closed
<1>2. TypeInv /\ PromptInv /\ TellInv /\ VisibleInv /\ [Next]_vars => VisibleInv'
  BY VisibleStep
<1>3. VisibleInv => ClientSeesClosedCalls
  BY DEF VisibleInv, ClientSeesClosedCalls
<1>4. QED  BY <1>1, <1>2, <1>3, TypeInvariant, PromptHolds, Tells, PTL DEF Spec

=============================================================================
