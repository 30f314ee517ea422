----------------------- MODULE SamplingAttempt_proofs -----------------------
(***************************************************************************)
(* Theorems about SamplingAttempt, for every number of calls, every set of *)
(* tool kinds and every threshold of the breaker.                          *)
(***************************************************************************)
EXTENDS SamplingAttempt, SequenceTheorems, TLAPS

USE DEF Calls, Held, Places, Responses, Errors

\* The operators of the breaker stay within its type: what recordDenial and
\* recordNonDenial leave behind is again a breaker.
LEMMA BreakerTyping ==
  ASSUME NEW b \in Breakers
  PROVE  RecordDenial(b) \in Breakers /\ RecordNonDenial(b) \in Breakers
<1>1. ASSUME NEW w \in Seq(BOOLEAN), NEW d \in BOOLEAN
      PROVE  RecordRecentReview(w, d) \in Seq(BOOLEAN)
  <2>1. Append(w, d) \in Seq(BOOLEAN) /\ Append(w, d) # <<>>
    BY AppendProperties
  <2>2. Tail(Append(w, d)) \in Seq(BOOLEAN)
    BY <2>1, HeadTailProperties
  <2>3. QED  BY <2>1, <2>2 DEF RecordRecentReview
<1>2. b.recent \in Seq(BOOLEAN) /\ b.consecutive \in Nat /\ b.tripped \in BOOLEAN
  BY DEF Breakers
<1>3. RecordDenial(b) \in Breakers
  <2> DEFINE r == RecordRecentReview(b.recent, TRUE)
             t == \/ b.tripped
                  \/ b.consecutive + 1 >= MaxConsecutiveDenials
                  \/ CountDenials(r) >= MaxRecentDenials
  <2>1. r \in Seq(BOOLEAN)  BY <1>1, <1>2
  <2>2. t \in BOOLEAN  BY Zenon
  <2>3. b.consecutive + 1 \in Nat  BY <1>2
  <2>4. RecordDenial(b) = [consecutive |-> b.consecutive + 1, recent |-> r, tripped |-> t]
    BY DEF RecordDenial
  <2> HIDE DEF r, t
  <2>5. QED  BY <2>1, <2>2, <2>3, <2>4 DEF Breakers
<1>4. RecordNonDenial(b) \in Breakers
  <2>1. RecordRecentReview(b.recent, FALSE) \in Seq(BOOLEAN)
    BY <1>1, <1>2
  <2>2. QED  BY <1>2, <2>1 DEF RecordNonDenial, Breakers
<1>5. QED  BY <1>3, <1>4

ResultSet == [call : Calls, kind : Responses \cup {"aborted"}]

\* What Drain appends for a call is a sequence of well-formed results.
LEMMA AnswerTyping ==
  ASSUME NEW c \in Calls
  PROVE  AnswerTo(c) \in Seq(ResultSet)
<1>1. ASSUME NEW k \in Responses \cup {"aborted"}
      PROVE  <<Result(c, k)>> \in Seq(ResultSet)
  <2>1. Result(c, k) \in ResultSet  BY DEF Result, ResultSet
  <2>2. QED  BY <2>1
<1>2. CASE outcome[c] = "cancelled"
  BY <1>1, <1>2 DEF AnswerTo
<1>3. CASE outcome[c] \in Responses
  BY <1>1, <1>3 DEF AnswerTo
<1>4. CASE outcome[c] # "cancelled" /\ outcome[c] \notin Responses
  <2>1. AnswerTo(c) = <<>>  BY <1>4 DEF AnswerTo
  <2>2. QED  BY <2>1
<1>5. QED  BY <1>2, <1>3, <1>4

\* The variables of an attempt keep their types (receiveSamplingAttempt and
\* the goroutines it starts).
THEOREM Typing == Spec => []TypeOK
<1>1. Init => TypeOK
  <2> SUFFICES ASSUME Init PROVE TypeOK
    OBVIOUS
  <2>1. ASSUME NEW n \in Nat PROVE DenialsSoFar(n) \in Breakers
    <3>1. [i \in 1 .. n |-> TRUE] \in Seq(BOOLEAN)  OBVIOUS
    <3>2. QED  BY <3>1 DEF DenialsSoFar, Breakers
  <2>2. breaker \in Breakers
    BY <2>1, BreakerAssumption DEF Init
  <2>3. <<>> \in Seq([call : Calls, kind : Responses \cup {"aborted"}])
    OBVIOUS
  <2>4. cancelled \in BOOLEAN /\ activity \in BOOLEAN
    BY Zenon DEF Init
  <2>5. QED  BY <2>2, <2>3, <2>4, AttemptAssumption DEF Init, TypeOK
<1>2. TypeOK /\ [Next]_vars => TypeOK'
  <2> SUFFICES ASSUME TypeOK, [Next]_vars PROVE TypeOK'
    OBVIOUS
  <2> USE AttemptAssumption DEF receiver, drain, tools, context
  <2>1. CASE Receiver
    <3>1. CASE ReceiveToolCall  BY <3>1 DEF ReceiveToolCall, TypeOK
    <3>2. CASE ReceiveCompleted  BY <3>2 DEF ReceiveCompleted, StreamEnds, TypeOK
    <3>3. CASE ReceiveFails  BY <3>3 DEF ReceiveFails, StreamEnds, TypeOK
    <3>4. CASE ReceiveRejected  BY <3>4 DEF ReceiveRejected, TypeOK
    <3>5. CASE DrainNext
      <4>1. drained + 1 \in Calls  BY <3>5 DEF DrainNext, TypeOK
      <4>2. results' \in Seq(ResultSet)
        <5>1. results' = results \o AnswerTo(drained + 1)  BY <3>5 DEF DrainNext
        <5>2. results \in Seq(ResultSet)  BY DEF TypeOK, ResultSet
        <5>3. AnswerTo(drained + 1) \in Seq(ResultSet)  BY <4>1, AnswerTyping
        <5>4. QED  BY <5>1, <5>2, <5>3
      <4>3. firstErr' \in {"none"} \cup Errors
        BY <3>5, <4>1 DEF DrainNext, TypeOK
      <4>4. QED  BY <3>5, <4>1, <4>2, <4>3 DEF DrainNext, TypeOK, ResultSet
    <3>6. CASE DrainEnds  BY <3>6 DEF DrainEnds, TypeOK
    <3>7. QED  BY <2>1, <3>1, <3>2, <3>3, <3>4, <3>5, <3>6 DEF Receiver
  <2>2. ASSUME NEW c \in Calls, Goroutine(c) PROVE TypeOK'
    <3>1. CASE AnnounceWriter(c)  BY <3>1 DEF AnnounceWriter, Move, TypeOK
    <3>2. CASE Lock(c)  BY <3>2 DEF Lock, Move, TypeOK
    <3>3. CASE RLock(c)  BY <3>3 DEF RLock, Move, TypeOK
    <3>4. CASE Review(c)
      <4>1. runs' \in [Calls -> ToolKinds]  BY <3>4 DEF Review, TypeOK
      <4>2. /\ pc' \in [Calls -> Places]
            /\ outcome' \in [Calls -> {"none"} \cup Responses \cup Errors]
        BY <3>4 DEF Review, HookFails, Move, Return, TypeOK
      <4>3. UNCHANGED <<executed, breaker, receiver, drain, context>>
        BY <3>4 DEF Review
      <4>4. gaveUp' \subseteq Calls
        BY <3>4 DEF Review, HookFails, TypeOK
      <4>5. QED  BY <4>1, <4>2, <4>3, <4>4 DEF TypeOK
    <3>5. CASE AbortAfterReview(c)
      BY <3>5 DEF AbortAfterReview, Move, Return, TypeOK
    <3>6. CASE Deny(c)
      <4>1. breaker' \in Breakers  BY <3>6, BreakerTyping DEF Deny, TypeOK
      <4>2. QED  BY <3>6, <4>1 DEF Deny, Move, Return, TypeOK
    <3>7. CASE Dispatch(c)
      <4>1. breaker' \in Breakers  BY <3>7, BreakerTyping DEF Dispatch, TypeOK
      <4>2. pc' \in [Calls -> Places] /\ executed' \subseteq Calls
        BY <3>7 DEF Dispatch, HookFails, Move, Return, TypeOK
      <4>3. outcome' \in [Calls -> {"none"} \cup Responses \cup Errors]
        BY <3>7 DEF Dispatch, HookFails, Return, TypeOK
      <4>4. UNCHANGED <<runs, receiver, drain, context>>
        BY <3>7 DEF Dispatch
      <4>5. gaveUp' \subseteq Calls
        BY <3>7 DEF Dispatch, HookFails, TypeOK
      <4>6. QED  BY <4>1, <4>2, <4>3, <4>4, <4>5 DEF TypeOK
    <3>8. CASE HandlerReturns(c)
      <4>1. PICK r \in {"success", "failed"} : outcome' = [outcome EXCEPT ![c] = r]
        BY <3>8 DEF HandlerReturns
      <4>2. pc' = [pc EXCEPT ![c] = "finished"]
        BY <3>8 DEF HandlerReturns, Move
      <4>3. UNCHANGED <<runs, executed, breaker, gaveUp, receiver, drain, context>>
        BY <3>8 DEF HandlerReturns
      <4>4. QED  BY <4>1, <4>2, <4>3 DEF TypeOK
    <3>9. CASE Finish(c)
      <4>1. PICK e \in {"none"} \cup Responses \cup Errors : Return(c, e)
        BY <3>9 DEF Finish, HookFails, TypeOK
      <4>2. UNCHANGED <<runs, executed, breaker, receiver, drain, context>>
        BY <3>9 DEF Finish
      <4>3. gaveUp' \subseteq Calls
        BY <3>9 DEF Finish, HookFails, TypeOK
      <4>4. QED  BY <4>1, <4>2, <4>3 DEF Return, Move, TypeOK
    <3>10. QED
      BY <2>2, <3>1, <3>2, <3>3, <3>4, <3>5, <3>6, <3>7, <3>8, <3>9 DEF Goroutine
  <2>3. CASE Cancel  BY <2>3 DEF Cancel, TypeOK
  <2>4. CASE PendingInputArrives  BY <2>4 DEF PendingInputArrives, TypeOK
  <2>5. CASE Terminated \/ UNCHANGED vars
    <3>1. UNCHANGED <<receiver, drain, tools, context>>
      BY <2>5 DEF Terminated, vars
    <3>2. QED  BY <3>1 DEF TypeOK
  <2>6. QED  BY <2>1, <2>2, <2>3, <2>4, <2>5 DEF Next
<1>3. QED  BY <1>1, <1>2, PTL DEF Spec

-----------------------------------------------------------------------------
\* SerialExclusion is not inductive: it also takes that the writer's place in
\* front of the lock is held by serial calls only, and by one at a time.
LockInv ==
  /\ SerialExclusion
  /\ \A c, d \in Calls : c # d => ~(Writer(c) /\ Writer(d))
  /\ \A c \in Calls : pc[c] = "announced" => Writer(c)

\* A step of a goroutine inside the lock keeps it there or lets it leave.
LEMMA InsideLock ==
  ASSUME TypeOK, LockInv, NEW c \in Calls, pc[c] \in Held, UNCHANGED kind,
         NEW p \in Held \cup {"done"}, pc' = [pc EXCEPT ![c] = p]
  PROVE  LockInv'
<1>1. \A d \in Calls : pc'[d] \in Held => pc[d] \in Held
  BY DEF TypeOK
<1>2. \A d \in Calls : Writer(d)' => Writer(d)
  BY DEF TypeOK, Writer
<1>3. SerialExclusion'
  BY <1>1 DEF LockInv, SerialExclusion
<1>4. \A d \in Calls : pc'[d] = "announced" => Writer(d)'
  BY DEF TypeOK, LockInv, Writer
<1>5. QED  BY <1>2, <1>3, <1>4 DEF LockInv

\* A step that leaves every goroutine's place alone.
LEMMA OutsideLock ==
  ASSUME LockInv, UNCHANGED <<kind, pc>>
  PROVE  LockInv'
BY DEF LockInv, SerialExclusion, Writer

\* The dispatcher's RWMutex does its work for any mix of serial and parallel
\* calls: a serial call is inside alone (dispatch of inFlightToolDispatcher).
THEOREM Exclusion == Spec => []SerialExclusion
<1>1. Init => LockInv
  BY DEF Init, LockInv, SerialExclusion, Writer
<1>2. TypeOK /\ LockInv /\ [Next]_vars => LockInv'
  <2> SUFFICES ASSUME TypeOK, LockInv, [Next]_vars PROVE LockInv'
    OBVIOUS
  <2>1. CASE Receiver
    <3>1. CASE ReceiveToolCall
      <4>1. started + 1 \in Calls /\ UNCHANGED kind
        BY <3>1, AttemptAssumption DEF ReceiveToolCall, TypeOK
      <4>2. pc' = [pc EXCEPT ![started + 1] = "spawned"]
        BY <3>1 DEF ReceiveToolCall
      <4>3. \A d \in Calls : pc'[d] \in Held \cup {"announced"} => pc'[d] = pc[d]
        BY <4>1, <4>2 DEF TypeOK
      <4>4. \A d \in Calls : Writer(d)' => Writer(d)
        BY <4>1, <4>3 DEF Writer
      <4>5. SerialExclusion'
        BY <4>1, <4>3 DEF LockInv, SerialExclusion
      <4>6. \A d \in Calls : pc'[d] = "announced" => Writer(d)'
        BY <4>1, <4>3 DEF LockInv, Writer
      <4>7. QED  BY <4>4, <4>5, <4>6 DEF LockInv
    <3>2. CASE ReceiveCompleted \/ ReceiveFails \/ ReceiveRejected \/ DrainNext \/ DrainEnds
      <4>1. UNCHANGED <<kind, pc>>
        BY <3>2 DEF ReceiveCompleted, ReceiveFails, StreamEnds, ReceiveRejected,
                    DrainNext, DrainEnds, receiver, tools
      <4>2. QED  BY <4>1, OutsideLock
    <3>3. QED  BY <2>1, <3>1, <3>2 DEF Receiver
  <2>2. ASSUME NEW c \in Calls, Goroutine(c) PROVE LockInv'
    <3>1. CASE AnnounceWriter(c)
      <4>1. /\ UNCHANGED kind /\ pc' = [pc EXCEPT ![c] = "announced"]
            /\ \A d \in Calls : ~Writer(d)
        BY <3>1 DEF AnnounceWriter, Move, NoWriter, receiver
      <4> ~kind[c].shared
        BY <3>1 DEF AnnounceWriter
      <4>2. \A d \in Calls : Writer(d)' => d = c
        BY <4>1 DEF TypeOK, Writer
      <4>3. \A d \in Calls : pc'[d] \in Held => pc[d] \in Held
        BY <4>1 DEF TypeOK
      <4>4. SerialExclusion'
        BY <4>1, <4>3 DEF LockInv, SerialExclusion
      <4>5. \A d \in Calls : pc'[d] = "announced" => Writer(d)'
        BY <4>1 DEF TypeOK, LockInv, Writer
      <4>6. QED  BY <4>2, <4>4, <4>5 DEF LockInv
    <3>2. CASE Lock(c)
      <4>1. /\ UNCHANGED kind /\ pc' = [pc EXCEPT ![c] = "entered"]
            /\ pc[c] = "announced"
            /\ \A d \in Calls : kind[d].shared => pc[d] \notin Held
        BY <3>2 DEF Lock, Move, receiver
      <4>2. Writer(c) /\ ~kind[c].shared
        BY <4>1 DEF LockInv, Writer
      <4>3. \A d \in Calls : Writer(d)' => Writer(d)
        BY <4>1, <4>2 DEF TypeOK, Writer
      <4>4. \A d \in Calls : d # c => pc[d] \notin Held
        BY <4>1, <4>2 DEF LockInv, Writer
      <4>5. \A d \in Calls : pc'[d] \in Held => d = c
        BY <4>1, <4>4 DEF TypeOK
      <4>6. \A d \in Calls : pc'[d] = "announced" => Writer(d)'
        BY <4>1 DEF TypeOK, LockInv, Writer
      <4>7. QED  BY <4>3, <4>5, <4>6 DEF LockInv, SerialExclusion
    <3>3. CASE RLock(c)
      <4>1. /\ UNCHANGED kind /\ pc' = [pc EXCEPT ![c] = "entered"]
            /\ kind[c].shared
            /\ \A d \in Calls : ~Writer(d)
        BY <3>3 DEF RLock, Move, NoWriter, receiver
      <4>2. \A d \in Calls : ~Writer(d)'
        BY <4>1 DEF TypeOK, Writer
      <4>3. \A d \in Calls : pc'[d] \in Held => kind'[d].shared
        BY <4>2 DEF Writer
      <4>4. \A d \in Calls : pc'[d] = "announced" => Writer(d)'
        BY <4>1 DEF TypeOK, LockInv, Writer
      <4>5. QED  BY <4>2, <4>3, <4>4 DEF LockInv, SerialExclusion
    <3>4. CASE Review(c) \/ AbortAfterReview(c) \/ Deny(c) \/ Dispatch(c)
               \/ HandlerReturns(c) \/ Finish(c)
      <4>1. pc[c] \in Held /\ UNCHANGED kind
        BY <3>4 DEF Review, AbortAfterReview, Deny, Dispatch, HandlerReturns,
                    Finish, receiver
      <4>2. \E p \in Held \cup {"done"} : pc' = [pc EXCEPT ![c] = p]
        BY <3>4 DEF Review, AbortAfterReview, Deny, Dispatch, HandlerReturns,
                    Finish, HookFails, Move, Return
      <4>3. QED  BY <4>1, <4>2, InsideLock
    <3>5. QED  BY <2>2, <3>1, <3>2, <3>3, <3>4 DEF Goroutine
  <2>3. CASE Cancel \/ PendingInputArrives \/ Terminated \/ UNCHANGED vars
    <3>1. UNCHANGED <<kind, pc>>
      BY <2>3 DEF Cancel, PendingInputArrives, Terminated, vars, receiver, tools
    <3>2. QED  BY <3>1, OutsideLock
  <2>4. QED  BY <2>1, <2>2, <2>3 DEF Next
<1>3. LockInv => SerialExclusion
  BY DEF LockInv
<1>4. QED  BY <1>1, <1>2, <1>3, Typing, PTL DEF Spec

-----------------------------------------------------------------------------
\* What Drain knows: an outcome is final once its goroutine is done, the
\* drained prefix is done, and an error in it is never forgotten.
DrainInv ==
  /\ drained <= started
  /\ \A c \in Calls : pc[c] = "idle" <=> c > started
  /\ \A c \in Calls : outcome[c] \in Errors => pc[c] = "done"
  /\ \A c \in 1 .. drained : pc[c] = "done"
  /\ \A c \in 1 .. drained : outcome[c] \in Errors => firstErr # "none"
  /\ rpc = "receive" => drained = 0
  /\ verdict # "none" => rpc = "returned"
  /\ verdict \in {"ok", "stream"} => firstErr = "none" /\ drained = started

\* A step of one goroutine that is not done, changing its own place and
\* outcome and nothing of the receiver, keeps what Drain knows.
LEMMA GoroutineStep ==
  ASSUME TypeOK, DrainInv, NEW c \in Calls, pc[c] \notin {"idle", "done"},
         NEW p \in Places \ {"idle"}, pc' = [pc EXCEPT ![c] = p],
         NEW e \in {"none"} \cup Responses \cup Errors,
         outcome' = [outcome EXCEPT ![c] = e], e \in Errors => p = "done",
         UNCHANGED <<receiver, drain>>
  PROVE  DrainInv'
<1> USE DEF receiver, drain
<1>1. /\ pc'[c] = p /\ \A d \in Calls : d # c => pc'[d] = pc[d]
      /\ outcome'[c] = e /\ \A d \in Calls : d # c => outcome'[d] = outcome[d]
  BY DEF TypeOK
<1>2. \A d \in 1 .. drained : d \in Calls /\ d # c
  BY AttemptAssumption DEF TypeOK, DrainInv
<1>3. \A d \in Calls : pc'[d] = "idle" <=> d > started'
  BY <1>1 DEF DrainInv
<1>4. \A d \in Calls : outcome'[d] \in Errors => pc'[d] = "done"
  BY <1>1 DEF DrainInv
<1>5. /\ \A d \in 1 .. drained' : pc'[d] = "done"
      /\ \A d \in 1 .. drained' : outcome'[d] \in Errors => firstErr' # "none"
  BY <1>1, <1>2 DEF DrainInv
<1>6. QED  BY <1>3, <1>4, <1>5 DEF DrainInv

\* Every step of a goroutine is a step of the kind GoroutineStep speaks of.
LEMMA GoroutineShape ==
  ASSUME TypeOK, NEW c \in Calls, Goroutine(c)
  PROVE  /\ pc[c] \notin {"idle", "done"}
         /\ \E p \in Places \ {"idle"}, e \in {"none"} \cup Responses \cup Errors :
              /\ pc' = [pc EXCEPT ![c] = p]
              /\ outcome' = [outcome EXCEPT ![c] = e]
              /\ e \in Errors => p = "done" \/ e = outcome[c]
         /\ UNCHANGED <<receiver, drain>>
<1>0. outcome[c] \in {"none"} \cup Responses \cup Errors
      /\ outcome = [outcome EXCEPT ![c] = outcome[c]]
  BY DEF TypeOK
<1>1. CASE AnnounceWriter(c)  BY <1>0, <1>1 DEF AnnounceWriter, Move
<1>2. CASE Lock(c)  BY <1>0, <1>2 DEF Lock, Move
<1>3. CASE RLock(c)  BY <1>0, <1>3 DEF RLock, Move
<1>4. CASE Review(c)
  BY <1>0, <1>4, AttemptAssumption DEF Review, HookFails, Move, Return
<1>5. CASE AbortAfterReview(c)  BY <1>5 DEF AbortAfterReview, Move, Return
<1>6. CASE Deny(c)  BY <1>6 DEF Deny, Move, Return
<1>7. CASE Dispatch(c)
  BY <1>0, <1>7, AttemptAssumption DEF Dispatch, HookFails, Move, Return
<1>8. CASE HandlerReturns(c)  BY <1>8 DEF HandlerReturns, Move
<1>9. CASE Finish(c)
  BY <1>0, <1>9, AttemptAssumption DEF Finish, HookFails, Move, Return
<1>10. QED
  BY <1>1, <1>2, <1>3, <1>4, <1>5, <1>6, <1>7, <1>8, <1>9 DEF Goroutine

LEMMA DrainKnows == Spec => []DrainInv
<1>1. Init => DrainInv
  BY AttemptAssumption DEF Init, DrainInv
<1>2. TypeOK /\ DrainInv /\ [Next]_vars => DrainInv'
  <2> SUFFICES ASSUME TypeOK, DrainInv, [Next]_vars PROVE DrainInv'
    OBVIOUS
  <2>1. CASE Receiver
    <3>1. CASE ReceiveToolCall
      <4>1. /\ started + 1 \in Calls /\ rpc = "receive" /\ started' = started + 1
            /\ pc' = [pc EXCEPT ![started + 1] = "spawned"]
            /\ UNCHANGED <<rpc, outcome, drained, firstErr, verdict>>
        BY <3>1, AttemptAssumption DEF ReceiveToolCall, TypeOK, drain
      <4>2. drained' = 0 /\ verdict' = "none"
        BY <4>1 DEF DrainInv, TypeOK
      <4>3. pc[started + 1] = "idle"  BY <4>1 DEF DrainInv, TypeOK
      <4>4. \A c \in Calls : pc'[c] = "idle" <=> c > started'
        BY <4>1 DEF DrainInv, TypeOK
      <4>5. \A c \in Calls : outcome'[c] \in Errors => pc'[c] = "done"
        BY <4>1, <4>3 DEF DrainInv, TypeOK
      <4>6. QED  BY <4>1, <4>2, <4>4, <4>5 DEF DrainInv, TypeOK
    <3>2. CASE ReceiveCompleted \/ ReceiveFails
      <4>1. rpc = "receive" /\ rpc' = "drain" /\ UNCHANGED <<started, drain, tools>>
        BY <3>2 DEF ReceiveCompleted, ReceiveFails, StreamEnds
      <4>2. QED  BY <4>1 DEF DrainInv, drain, tools
    <3>3. CASE ReceiveRejected
      BY <3>3 DEF ReceiveRejected, DrainInv, tools
    <3>4. CASE DrainNext
      <4>1. /\ drained < started /\ drained' = drained + 1 /\ rpc = "drain"
            /\ pc[drained + 1] = "done" /\ drained + 1 \in Calls
            /\ firstErr' = IF outcome[drained + 1] \in Errors /\ firstErr = "none"
                             THEN outcome[drained + 1] ELSE firstErr
            /\ UNCHANGED <<rpc, started, pc, outcome, verdict>>
        BY <3>4, AttemptAssumption DEF DrainNext, TypeOK, receiver, tools
      <4>2. firstErr # "none" => firstErr' # "none"  BY <4>1
      <4>3. verdict' = "none"  BY <4>1 DEF DrainInv
      <4>4. \A c \in 1 .. drained' : c \in 1 .. drained \/ c = drained + 1
        BY <4>1 DEF TypeOK
      <4>5. outcome[drained + 1] \in Errors => firstErr' # "none"  BY <4>1
      <4>6. /\ \A c \in 1 .. drained' : pc'[c] = "done"
            /\ \A c \in 1 .. drained' : outcome'[c] \in Errors => firstErr' # "none"
        BY <4>1, <4>2, <4>4, <4>5 DEF DrainInv
      <4>7. drained' <= started'  BY <4>1 DEF TypeOK
      <4>8. QED  BY <4>1, <4>3, <4>6, <4>7 DEF DrainInv
    <3>5. CASE DrainEnds
      <4>1. /\ rpc = "drain" /\ rpc' = "returned" /\ drained = started
            /\ UNCHANGED <<started, drained, firstErr, pc, outcome>>
        BY <3>5 DEF DrainEnds, tools
      <4>2. verdict' \in {"ok", "stream"} => firstErr = "none"
        BY <3>5 DEF DrainEnds, TypeOK
      <4>3. QED  BY <4>1, <4>2 DEF DrainInv
    <3>6. QED  BY <2>1, <3>1, <3>2, <3>3, <3>4, <3>5 DEF Receiver
  <2>2. ASSUME NEW c \in Calls, Goroutine(c) PROVE DrainInv'
    <3>1. outcome[c] \notin Errors  BY <2>2, GoroutineShape DEF DrainInv
    <3>2. QED  BY <2>2, <3>1, GoroutineShape, GoroutineStep
  <2>3. CASE Cancel \/ PendingInputArrives \/ Terminated \/ UNCHANGED vars
    <3>1. UNCHANGED <<receiver, drain, tools>>
      BY <2>3 DEF Cancel, PendingInputArrives, Terminated, vars
    <3>2. QED  BY <3>1 DEF DrainInv, receiver, drain, tools
  <2>4. QED  BY <2>1, <2>2, <2>3 DEF Next
<1>3. QED  BY <1>1, <1>2, Typing, PTL DEF Spec

\* The breaker's error sits in some call's outcome from the moment it trips.
TripRecorded == breaker.tripped => \E c \in Calls : outcome[c] = "tripped"

\* A tripped breaker ends the attempt, for every interleaving and whichever
\* goroutine it was whose recordDenial returned the error.
THEOREM TrippedEnds == Spec => []TrippedBreakerEndsAttempt
<1>1. Init => TripRecorded
  BY DEF Init, TripRecorded, DenialsSoFar
<1>2. TypeOK /\ DrainInv /\ TripRecorded /\ [Next]_vars => TripRecorded'
  <2> SUFFICES ASSUME TypeOK, DrainInv, TripRecorded, [Next]_vars
               PROVE  TripRecorded'
    OBVIOUS
  <2>1. ASSUME NEW c \in Calls, Goroutine(c) PROVE TripRecorded'
    <3>1. PICK e \in {"none"} \cup Responses \cup Errors :
            outcome' = [outcome EXCEPT ![c] = e]
      BY <2>1, GoroutineShape
    <3>2. \A d \in Calls : outcome[d] = "tripped" => outcome'[d] = "tripped"
      <4>1. outcome[c] # "tripped"  BY <2>1, GoroutineShape DEF DrainInv
      <4>2. QED  BY <3>1, <4>1 DEF TypeOK
    <3>3. CASE breaker'.tripped /\ ~breaker.tripped
      <4>1. CASE Deny(c)
        <5>1. DenialTrips(breaker)  BY <3>3, <4>1 DEF Deny, DenialTrips
        <5>2. outcome' = [outcome EXCEPT ![c] = "tripped"]
          BY <4>1, <5>1 DEF Deny, Return
        <5>3. QED  BY <5>2 DEF TypeOK, TripRecorded
      <4>2. CASE Dispatch(c)
        BY <3>3, <4>2 DEF Dispatch, RecordNonDenial, TypeOK, Breakers
      <4>3. CASE UNCHANGED breaker
        BY <3>3, <4>3
      <4>4. Deny(c) \/ Dispatch(c) \/ UNCHANGED breaker
        BY <2>1 DEF Goroutine, AnnounceWriter, Lock, RLock, Review,
                    AbortAfterReview, HandlerReturns, Finish
      <4>5. QED  BY <4>1, <4>2, <4>3, <4>4
    <3>4. CASE ~breaker'.tripped  BY <3>4 DEF TripRecorded
    <3>5. CASE breaker.tripped  BY <3>5, <3>2 DEF TripRecorded
    <3>6. QED  BY <3>3, <3>4, <3>5
  <2>2. CASE UNCHANGED <<breaker, outcome>>
    BY <2>2 DEF TripRecorded
  <2>3. Receiver \/ Cancel \/ PendingInputArrives \/ Terminated \/ UNCHANGED vars
        => UNCHANGED <<breaker, outcome>>
    BY DEF Receiver, ReceiveToolCall, ReceiveCompleted, ReceiveFails, StreamEnds,
           ReceiveRejected, DrainNext, DrainEnds, Cancel, PendingInputArrives,
           Terminated, vars, tools
  <2>4. QED  BY <2>1, <2>2, <2>3 DEF Next
<1>3. TypeOK /\ DrainInv /\ TripRecorded => TrippedBreakerEndsAttempt
  <2> SUFFICES ASSUME TypeOK, DrainInv, TripRecorded, breaker.tripped,
                      verdict \in {"ok", "stream"}
               PROVE  FALSE
    BY DEF TrippedBreakerEndsAttempt
  <2>1. PICK c \in Calls : outcome[c] = "tripped"  BY DEF TripRecorded
  <2>2. pc[c] = "done"  BY <2>1 DEF DrainInv
  <2>3. c \in 1 .. drained
    BY <2>2, AttemptAssumption DEF DrainInv, TypeOK
  <2>4. QED  BY <2>1, <2>3 DEF DrainInv
<1>4. QED  BY <1>1, <1>2, <1>3, Typing, DrainKnows, PTL DEF Spec

-----------------------------------------------------------------------------
\* What a goroutine's place says of its call: the handler has run from
\* "running" on, an outcome is there from "finished" on, a call is aborted by
\* the turn's cancellation or by one of its own hooks, and a call hit by the
\* turn's cancellation comes to no response.
CallInv(c) ==
  /\ c \in executed => pc[c] \in {"running", "finished", "done"}
  /\ pc[c] = "running" => c \in executed
  /\ outcome[c] # "none" <=> pc[c] \in {"finished", "done"}
  /\ outcome[c] = "success" => c \in executed
  /\ outcome[c] = "denied" => c \notin executed
  /\ outcome[c] = "cancelled" => cancelled \/ c \in gaveUp
  /\ c \in hit => cancelled /\ (pc[c] \in {"running", "finished"} \/ outcome[c] \in Errors)

\* Every call keeps CallInv, whatever the others do.
LEMMA CallsKeepTheirPlace == Spec => [](\A c \in Calls : CallInv(c))
<1> DEFINE Inv == \A c \in Calls : CallInv(c)
<1>1. Init => Inv
  BY DEF Init, CallInv
<1>2. TypeOK /\ DrainInv /\ Inv /\ [Next]_vars => Inv'
  <2> SUFFICES ASSUME TypeOK, DrainInv, Inv, [Next]_vars, NEW c \in Calls
               PROVE  CallInv(c)'
    OBVIOUS
  <2>0. CallInv(c)
    OBVIOUS
  <2> HIDE DEF Inv
  <2>1. CASE UNCHANGED <<executed, pc, outcome, cancelled, hit, gaveUp>>
    BY <2>0, <2>1 DEF CallInv
  <2>2. CASE ReceiveToolCall
    <3>1. /\ started + 1 \in Calls /\ pc' = [pc EXCEPT ![started + 1] = "spawned"]
          /\ UNCHANGED <<executed, outcome, cancelled, hit, gaveUp>>
      BY <2>2, AttemptAssumption DEF ReceiveToolCall, TypeOK, context
    <3>2. pc[started + 1] = "idle"
      BY <3>1 DEF DrainInv, TypeOK
    <3>3. QED  BY <2>0, <3>1, <3>2 DEF CallInv, TypeOK
  <2>3. ASSUME NEW d \in Calls, Goroutine(d) PROVE CallInv(c)'
    <3>1. UNCHANGED <<cancelled, hit>>
      BY <2>3 DEF Goroutine, AnnounceWriter, Lock, RLock, Review, AbortAfterReview,
                  Deny, Dispatch, HandlerReturns, Finish, context
    <3>2. CASE c # d
      <4>0. PICK p \in Places \ {"idle"}, e \in {"none"} \cup Responses \cup Errors :
              pc' = [pc EXCEPT ![d] = p] /\ outcome' = [outcome EXCEPT ![d] = e]
        BY <2>3, GoroutineShape
      <4>1. pc'[c] = pc[c] /\ outcome'[c] = outcome[c]
        BY <3>2, <4>0 DEF TypeOK
      <4>2. c \in executed' <=> c \in executed
        BY <2>3, <3>2 DEF Goroutine, AnnounceWriter, Lock, RLock, Review,
             AbortAfterReview, Deny, Dispatch, HandlerReturns, Finish
      <4>3. gaveUp \subseteq gaveUp'
        BY <2>3 DEF Goroutine, AnnounceWriter, Lock, RLock, Review, HookFails,
             AbortAfterReview, Deny, Dispatch, HandlerReturns, Finish
      <4>4. QED  BY <2>0, <3>1, <4>1, <4>2, <4>3 DEF CallInv
    <3>3. CASE c = d
      <4> USE <2>0, <3>1 DEF CallInv, TypeOK, Move, Return
      <4>1. CASE AnnounceWriter(c)  BY <4>1 DEF AnnounceWriter
      <4>2. CASE Lock(c)  BY <4>2 DEF Lock
      <4>3. CASE RLock(c)  BY <4>3 DEF RLock
      <4>4. CASE Review(c)  BY <4>4, AttemptAssumption DEF Review, HookFails
      <4>5. CASE AbortAfterReview(c)  BY <4>5 DEF AbortAfterReview
      <4>6. CASE Deny(c)  BY <4>6 DEF Deny
      <4>7. CASE Dispatch(c)  BY <4>7, AttemptAssumption DEF Dispatch, HookFails
      <4>8. CASE HandlerReturns(c)  BY <4>8 DEF HandlerReturns
      <4>9. CASE Finish(c)  BY <4>9, AttemptAssumption DEF Finish, HookFails
      <4>10. QED
        BY <2>3, <3>3, <4>1, <4>2, <4>3, <4>4, <4>5, <4>6, <4>7, <4>8, <4>9
           DEF Goroutine
    <3>4. QED  BY <3>2, <3>3
  <2>4. CASE Cancel
    <3>1. /\ UNCHANGED <<executed, pc, outcome, gaveUp>> /\ cancelled' = TRUE
          /\ c \in hit' => pc[c] = "running"
      BY <2>4 DEF Cancel, tools
    <3>2. QED  BY <2>0, <3>1 DEF CallInv
  <2>5. ReceiveCompleted \/ ReceiveFails \/ ReceiveRejected \/ DrainNext \/ DrainEnds
        \/ PendingInputArrives \/ Terminated \/ UNCHANGED vars
          => UNCHANGED <<executed, pc, outcome, cancelled, hit, gaveUp>>
    BY DEF ReceiveCompleted, ReceiveFails, StreamEnds, ReceiveRejected, DrainNext,
           DrainEnds, PendingInputArrives, Terminated, vars, tools, context
  <2>6. QED  BY <2>1, <2>2, <2>3, <2>4, <2>5 DEF Next, Receiver
<1>3. QED  BY <1>1, <1>2, Typing, DrainKnows, PTL DEF Spec

-----------------------------------------------------------------------------
\* The kind of result that stands for the outcome of a call that is answered.
Answering(c) == outcome[c] \in Responses \cup {"cancelled"}
AnswerKind(c) == IF outcome[c] = "cancelled" THEN "aborted" ELSE outcome[c]

\* The result r is what its call, already drained, came to.
ToldRight(r) ==
  r.call \in 1 .. drained /\ Answering(r.call) /\ r.kind = AnswerKind(r.call)

\* What the results collected so far say of the drained calls, all of which
\* have their final outcome, and what the first error and the verdict say.
ResultsInv ==
  /\ \A i \in DOMAIN results : ToldRight(results[i])
  /\ \A c \in 1 .. drained : Answering(c) =>
       \E i \in DOMAIN results : results[i] = Result(c, AnswerKind(c))
  /\ rpc = "receive" => results = <<>>
  /\ firstErr # "none" => \E c \in 1 .. drained : outcome[c] = firstErr
  /\ verdict \notin {"none", "rejected"} => drained = started
  /\ verdict = "cancelled" => firstErr = "cancelled"

\* Drain adds at most one result, that of the call it receives.
LEMMA AnswerShape ==
  ASSUME NEW c \in Calls
  PROVE  AnswerTo(c) = IF Answering(c) THEN <<Result(c, AnswerKind(c))>> ELSE <<>>
BY DEF AnswerTo, Answering, AnswerKind

\* What the receiver's Drain does in one step, in terms of the answers.
LEMMA DrainEffect ==
  ASSUME TypeOK, DrainNext
  PROVE  /\ drained + 1 \in Calls /\ drained' = drained + 1 /\ drained + 1 <= started
         /\ pc[drained + 1] = "done" /\ rpc = "drain"
         /\ firstErr' = IF outcome[drained + 1] \in Errors /\ firstErr = "none"
                          THEN outcome[drained + 1] ELSE firstErr
         /\ results' = IF Answering(drained + 1)
                         THEN Append(results, Result(drained + 1, AnswerKind(drained + 1)))
                         ELSE results
         /\ UNCHANGED <<rpc, verdict, started, kind, executed, pc, outcome, cancelled, hit>>
<1>1. /\ drained + 1 \in Calls /\ drained' = drained + 1 /\ drained + 1 <= started
      /\ pc[drained + 1] = "done" /\ rpc = "drain"
      /\ firstErr' = IF outcome[drained + 1] \in Errors /\ firstErr = "none"
                       THEN outcome[drained + 1] ELSE firstErr
      /\ results' = results \o AnswerTo(drained + 1)
      /\ UNCHANGED <<rpc, verdict, started, kind, executed, pc, outcome, cancelled, hit>>
  BY AttemptAssumption DEF DrainNext, TypeOK, receiver, tools, context
<1>2. results \in Seq(ResultSet)
  BY DEF TypeOK, ResultSet
<1>3. CASE Answering(drained + 1)
  <2> DEFINE r == Result(drained + 1, AnswerKind(drained + 1))
  <2>1. results' = results \o <<r>>
    BY <1>1, <1>3, AnswerShape
  <2>2. r \in ResultSet
    BY <1>1, <1>3 DEF Result, ResultSet, AnswerKind, Answering
  <2> HIDE DEF r
  <2>3. results \o <<r>> = Append(results, r)
    BY <1>2, <2>2
  <2>4. QED  BY <1>1, <1>3, <2>1, <2>3 DEF r
<1>4. CASE ~Answering(drained + 1)
  <2>1. results' = results \o <<>>
    BY <1>1, <1>4, AnswerShape
  <2>2. QED  BY <1>1, <1>2, <1>4, <2>1
<1>5. QED  BY <1>3, <1>4

\* A step that changes nothing the receiver has collected and no outcome of a
\* drained call.
LEMMA ResultsStay ==
  ASSUME TypeOK, ResultsInv, UNCHANGED <<drain, rpc, started>>,
         \A c \in 1 .. drained : outcome'[c] = outcome[c]
  PROVE  ResultsInv'
<1>1. \A c \in 1 .. drained : (Answering(c)' <=> Answering(c)) /\ AnswerKind(c)' = AnswerKind(c)
  BY DEF Answering, AnswerKind
<1>2. QED  BY <1>1 DEF ResultsInv, ToldRight, drain, Result

LEMMA ResultsTell == Spec => []ResultsInv
<1>1. Init => ResultsInv
  BY DEF Init, ResultsInv
<1>2. TypeOK /\ DrainInv /\ ResultsInv /\ [Next]_vars => ResultsInv'
  <2> SUFFICES ASSUME TypeOK, DrainInv, ResultsInv, [Next]_vars PROVE ResultsInv'
    OBVIOUS
  <2>1. CASE ReceiveToolCall
    <3>1. /\ rpc = "receive" /\ UNCHANGED <<rpc, outcome, drained, results, firstErr, verdict>>
      BY <2>1 DEF ReceiveToolCall, drain
    <3>2. verdict' = "none" /\ drained' = 0 /\ results' = <<>> /\ firstErr' = "none"
      BY <3>1 DEF DrainInv, ResultsInv, TypeOK
    <3>3. QED  BY <3>2 DEF ResultsInv
  <2>2. CASE ReceiveCompleted \/ ReceiveFails
    <3>1. rpc' = "drain" /\ UNCHANGED <<drained, results, firstErr, verdict, started, outcome>>
      BY <2>2 DEF ReceiveCompleted, ReceiveFails, StreamEnds, drain, tools
    <3>2. QED  BY <3>1 DEF ResultsInv, ToldRight, Answering, AnswerKind, Result
  <2>3. CASE ReceiveRejected
    <3>1. /\ rpc' = "returned" /\ verdict' = "rejected"
          /\ UNCHANGED <<drained, results, firstErr, started, outcome>>
      BY <2>3 DEF ReceiveRejected, tools
    <3>2. QED  BY <3>1 DEF ResultsInv, ToldRight, Answering, AnswerKind, Result
  <2>4. CASE DrainNext
    <3> DEFINE n == drained + 1
    <3>1. /\ n \in Calls /\ drained' = n /\ rpc' = "drain" /\ verdict' = "none"
          /\ UNCHANGED outcome
          /\ firstErr' = IF outcome[n] \in Errors /\ firstErr = "none"
                           THEN outcome[n] ELSE firstErr
          /\ results' = IF Answering(n) THEN Append(results, Result(n, AnswerKind(n)))
                                        ELSE results
      BY <2>4, DrainEffect DEF DrainInv
    <3>2. drained \in Nat /\ results \in Seq(ResultSet)
      BY DEF TypeOK, ResultSet
    <3> HIDE DEF n
    <3>3. \A c \in 1 .. drained' : c \in 1 .. drained \/ c = n
      BY <3>1, <3>2 DEF n
    <3>4. 1 .. drained \subseteq 1 .. drained' /\ n \in 1 .. drained'
      BY <3>1, <3>2 DEF n
    <3>5. \A c : (Answering(c)' <=> Answering(c)) /\ AnswerKind(c)' = AnswerKind(c)
      BY <3>1 DEF Answering, AnswerKind
    <3>6. firstErr' # "none" => \E c \in 1 .. drained' : outcome'[c] = firstErr'
      BY <3>1, <3>4 DEF ResultsInv
    <3>7. CASE Answering(n)
      <4> DEFINE r == Result(n, AnswerKind(n))
      <4>1. r.call = n /\ r.kind = AnswerKind(n)
        BY DEF Result
      <4>2. /\ DOMAIN results' = DOMAIN results \cup {Len(results) + 1}
            /\ \A i \in DOMAIN results : results'[i] = results[i]
            /\ results'[Len(results) + 1] = r
        BY <3>1, <3>2, <3>7
      <4> HIDE DEF r
      <4>3. \A i \in DOMAIN results' : ToldRight(results[i])'
        <5> TAKE i \in DOMAIN results'
        <5>1. CASE i \in DOMAIN results
          <6>1. ToldRight(results[i]) /\ results'[i] = results[i]
            BY <4>2, <5>1 DEF ResultsInv
          <6>2. QED  BY <3>4, <3>5, <6>1 DEF ToldRight
        <5>2. CASE i = Len(results) + 1
          BY <3>4, <3>5, <3>7, <4>1, <4>2, <5>2 DEF ToldRight
        <5>3. QED  BY <4>2, <5>1, <5>2
      <4>4. \A c \in 1 .. drained' : Answering(c)' =>
              \E i \in DOMAIN results' : results'[i] = Result(c, AnswerKind(c)')
        BY <3>3, <3>5, <4>2 DEF ResultsInv, r
      <4>5. QED  BY <3>1, <3>6, <4>3, <4>4 DEF ResultsInv, Result
    <3>8. CASE ~Answering(n)
      <4>1. results' = results
        BY <3>1, <3>8
      <4>2. QED  BY <3>1, <3>3, <3>4, <3>5, <3>6, <3>8, <4>1 DEF ResultsInv, ToldRight, Result
    <3>9. QED  BY <3>7, <3>8
  <2>5. CASE DrainEnds
    <3>1. /\ rpc = "drain" /\ rpc' = "returned" /\ drained = started
          /\ verdict' = "cancelled" => firstErr = "cancelled"
          /\ UNCHANGED <<started, drained, results, firstErr, outcome>>
      BY <2>5 DEF DrainEnds, tools
    <3>2. QED  BY <3>1 DEF ResultsInv, ToldRight, Answering, AnswerKind, Result
  <2>6. ASSUME NEW c \in Calls, Goroutine(c) PROVE ResultsInv'
    <3>1. UNCHANGED <<receiver, drain>> /\ pc[c] # "done"
      BY <2>6, GoroutineShape
    <3>2. \A d \in 1 .. drained : d \in Calls /\ d # c
      BY <3>1, AttemptAssumption DEF DrainInv, TypeOK
    <3>3. \A d \in 1 .. drained : outcome'[d] = outcome[d]
      <4>1. PICK e \in {"none"} \cup Responses \cup Errors :
              outcome' = [outcome EXCEPT ![c] = e]
        BY <2>6, GoroutineShape
      <4>2. QED  BY <3>2, <4>1 DEF TypeOK
    <3>4. QED  BY <3>1, <3>3, ResultsStay DEF receiver
  <2>7. CASE Cancel \/ PendingInputArrives \/ Terminated \/ UNCHANGED vars
    <3>1. UNCHANGED <<drain, rpc, started, outcome>>
      BY <2>7 DEF Cancel, PendingInputArrives, Terminated, vars, receiver, tools
    <3>2. QED  BY <3>1, ResultsStay
  <2>8. QED
    BY <2>1, <2>2, <2>3, <2>4, <2>5, <2>6, <2>7 DEF Next, Receiver
<1>3. QED  BY <1>1, <1>2, Typing, DrainKnows, PTL DEF Spec

\* The three invariants the theorems below speak from, with the types.
AttemptInv == TypeOK /\ DrainInv /\ (\A c \in Calls : CallInv(c)) /\ ResultsInv

LEMMA AttemptKnows == Spec => []AttemptInv
BY Typing, DrainKnows, CallsKeepTheirPlace, ResultsTell, PTL DEF AttemptInv

LEMMA DrainedIsCall ==
  ASSUME AttemptInv
  PROVE  1 .. drained \subseteq Calls
BY AttemptAssumption DEF AttemptInv, DrainInv, TypeOK

\* The third ctx.Err of dispatchOneToolCallWithToolContext does what its
\* comment says: what was running when the turn was cancelled never enters a
\* transcript, for any interleaving of handlers, receiver and cancellation.
THEOREM InterruptedCommitsNothing == Spec => []InterruptedCallCommitsNothing
<1>1. AttemptInv => InterruptedCallCommitsNothing
  <2> SUFFICES ASSUME AttemptInv PROVE InterruptedCallCommitsNothing
    OBVIOUS
  <2>1. \A c \in hit : c \in Calls /\ CallInv(c)
    BY DEF AttemptInv, TypeOK
  <2>2. ASSUME NEW i \in DOMAIN results, results[i].call \in hit
        PROVE  results[i].kind = "aborted"
    <3>1. ToldRight(results[i])
      BY DEF AttemptInv, ResultsInv
    <3>2. pc[results[i].call] = "done"
      BY <3>1 DEF AttemptInv, DrainInv, ToldRight
    <3>3. outcome[results[i].call] \in Errors
      BY <2>1, <2>2, <3>2 DEF CallInv
    <3>4. QED  BY <3>1, <3>3 DEF ToldRight, Answering, AnswerKind
  <2>3. ASSUME NEW c \in hit, verdict \in {"ok", "stream"} PROVE FALSE
    <3>1. firstErr = "none" /\ drained = started
      BY <2>3 DEF AttemptInv, DrainInv
    <3>2. pc[c] # "idle"
      BY <2>1 DEF CallInv, AttemptInv, DrainInv
    <3>3. c \in 1 .. drained
      BY <2>1, <3>1, <3>2, AttemptAssumption DEF AttemptInv, DrainInv, TypeOK
    <3>4. pc[c] = "done" /\ outcome[c] \notin Errors
      BY <3>1, <3>3 DEF AttemptInv, DrainInv
    <3>5. QED  BY <2>1, <3>4 DEF CallInv
  <2>4. QED  BY <2>2, <2>3 DEF InterruptedCallCommitsNothing
<1>2. QED  BY <1>1, AttemptKnows, PTL

\* What ends a tool's own context (steering) aborts nothing, whatever errors
\* hooks, guardrails and reviewers return: with the turn's context live, every
\* aborted result and the "cancelled" verdict go back to a call one of whose
\* own hooks ended in a cancellation.
THEOREM AbortsComeOfCancellations == Spec => []AbortsAreExplained
<1>1. AttemptInv => AbortsAreExplained
  <2> SUFFICES ASSUME AttemptInv, ~cancelled PROVE AbortsAreExplained
    BY DEF AbortsAreExplained
  <2>1. \A c \in 1 .. drained : outcome[c] = "cancelled" => c \in gaveUp
    BY DrainedIsCall DEF AttemptInv, CallInv
  <2>2. verdict = "cancelled" => gaveUp # {}
    BY <2>1 DEF AttemptInv, ResultsInv
  <2>3. \A i \in DOMAIN results :
          results[i].kind = "aborted" => results[i].call \in gaveUp
    <3> SUFFICES ASSUME NEW i \in DOMAIN results, results[i].kind = "aborted"
                 PROVE  results[i].call \in gaveUp
      OBVIOUS
    <3>1. ToldRight(results[i])
      BY DEF AttemptInv, ResultsInv
    <3>2. outcome[results[i].call] = "cancelled"
      BY <3>1 DEF ToldRight, Answering, AnswerKind
    <3>3. QED  BY <2>1, <3>1, <3>2 DEF ToldRight
  <2>4. QED  BY <2>2, <2>3 DEF AbortsAreExplained
<1>2. QED  BY <1>1, AttemptKnows, PTL

\* An aborted attempt keeps the real result of every call that finished,
\* wherever the first error stands among them (Drain goes on after it).
THEOREM FinishedWorkIsKept == Spec => []FinishedWorkSurvivesAbort
<1>1. AttemptInv => FinishedWorkSurvivesAbort
  <2> SUFFICES ASSUME AttemptInv, verdict = "cancelled", NEW c \in 1 .. started,
                      outcome[c] \in Responses
               PROVE  \E i \in DOMAIN results :
                        results[i] = [call |-> c, kind |-> outcome[c]]
    BY DEF FinishedWorkSurvivesAbort
  <2>1. c \in 1 .. drained /\ Answering(c) /\ AnswerKind(c) = outcome[c]
    BY DEF AttemptInv, ResultsInv, Answering, AnswerKind
  <2>2. QED  BY <2>1 DEF AttemptInv, ResultsInv, Result
<1>2. QED  BY <1>1, AttemptKnows, PTL

-----------------------------------------------------------------------------
\* A goroutine's step changes nothing the caller sees, except the one that
\* starts a handler.
LEMMA GoroutineRefines ==
  ASSUME AttemptInv, NEW c \in Calls, Goroutine(c)
  PROVE  (c \in 1 .. started /\ Contract!Execute(c)) \/ UNCHANGED Contract!vars
<1>1. UNCHANGED <<started, results, verdict>> /\ pc[c] \notin {"idle", "done"}
  <2>1. UNCHANGED <<receiver, drain>> /\ pc[c] \notin {"idle", "done"}
    BY GoroutineShape DEF AttemptInv
  <2>2. QED  BY <2>1 DEF receiver, drain
<1>2. CASE UNCHANGED executed
  BY <1>1, <1>2 DEF Contract!vars
<1>3. CASE Dispatch(c) /\ executed' = executed \cup {c}
  <2>1. c \in 1 .. started
    BY <1>1, AttemptAssumption DEF AttemptInv, DrainInv, TypeOK
  <2>2. c \notin executed
    BY <1>3 DEF Dispatch, AttemptInv, CallInv
  <2>3. c \notin Contract!Answered(results)
    BY <1>1 DEF AttemptInv, DrainInv, ResultsInv, ToldRight, Contract!Answered
  <2>4. verdict \in {"none", "rejected"}
    <3>1. drained = started => c \in 1 .. drained
      BY <2>1
    <3>2. drained = started => pc[c] = "done"
      BY <3>1 DEF AttemptInv, DrainInv
    <3>3. QED  BY <1>1, <3>2 DEF AttemptInv, ResultsInv
  <2>5. QED  BY <1>1, <1>3, <2>1, <2>2, <2>3, <2>4 DEF Contract!Execute
<1>4. UNCHANGED executed \/ (Dispatch(c) /\ executed' = executed \cup {c})
  BY DEF Goroutine, AnnounceWriter, Lock, RLock, Review, AbortAfterReview,
         Deny, Dispatch, HandlerReturns, Finish
<1>5. QED  BY <1>2, <1>3, <1>4

\* What the drained outcomes make of the verdict is what the contract allows.
LEMMA DrainEndsRefines ==
  ASSUME AttemptInv, DrainEnds
  PROVE  /\ verdict' \in {"ok", "stream", "cancelled", "fatal", "tripped"}
         /\ Contract!Return(verdict')
<1>1. /\ rpc = "drain" /\ drained = started
      /\ UNCHANGED <<started, results, firstErr, executed>>
  BY DEF DrainEnds, tools
<1>2. verdict = "none"
  BY <1>1 DEF AttemptInv, DrainInv
<1>3. CASE firstErr # "none" /\ verdict' = firstErr
  <2>1. verdict' \in Errors
    BY <1>3 DEF AttemptInv, TypeOK
  <2>2. PICK c \in 1 .. drained : outcome[c] = firstErr
    BY <1>3 DEF AttemptInv, ResultsInv
  <2>3. verdict' = "cancelled" => \E i \in DOMAIN results : results[i].kind = "aborted"
    <3>1. verdict' = "cancelled" => Answering(c) /\ AnswerKind(c) = "aborted"
      BY <1>3, <2>2 DEF Answering, AnswerKind
    <3>2. QED  BY <3>1 DEF AttemptInv, ResultsInv, Result
  <2>4. Contract!Allowed(started, results, verdict')
    BY <2>1, <2>3 DEF Contract!Allowed
  <2>5. QED  BY <1>1, <1>2, <2>1, <2>4 DEF Contract!Return
<1>4. CASE firstErr = "none" /\ verdict' \in {"stream", "ok", "fatal"}
  <2>1. \A c \in 1 .. drained : Answering(c) /\ AnswerKind(c) # "aborted"
    <3> TAKE c \in 1 .. drained
    <3>1. pc[c] = "done" /\ outcome[c] \notin Errors /\ c \in Calls
      BY <1>4, DrainedIsCall DEF AttemptInv, DrainInv
    <3>2. outcome[c] \in Responses
      BY <3>1 DEF AttemptInv, CallInv, TypeOK
    <3>3. QED  BY <3>2 DEF Answering, AnswerKind
  <2>2. \A c \in 1 .. drained : \E i \in DOMAIN results : results[i].call = c
    BY <2>1 DEF AttemptInv, ResultsInv, Result
  <2>3. \A i \in DOMAIN results : results[i].call \in 1 .. drained /\ results[i].kind # "aborted"
    BY <2>1 DEF AttemptInv, ResultsInv, ToldRight
  <2>4. Contract!Answered(results) = 1 .. started
    BY <1>1, <2>2, <2>3 DEF Contract!Answered
  <2>5. Contract!Allowed(started, results, verdict')
    BY <1>4, <2>3, <2>4 DEF Contract!Allowed
  <2>6. QED  BY <1>1, <1>2, <1>4, <2>5 DEF Contract!Return
<1>5. QED  BY <1>3, <1>4 DEF DrainEnds

\* Drain's receipt of one outcome is an answer in call order, or nothing.
LEMMA DrainNextRefines ==
  ASSUME AttemptInv, DrainNext
  PROVE  \/ \E c \in 1 .. started, k \in {"success", "failed", "denied", "aborted"} :
              Contract!Answer(c, k)
         \/ UNCHANGED Contract!vars
<1> DEFINE n == drained + 1
<1>1. /\ n \in Calls /\ n \in 1 .. started /\ rpc = "drain"
      /\ results' = IF Answering(n) THEN Append(results, Result(n, AnswerKind(n)))
                                    ELSE results
      /\ UNCHANGED <<started, executed, verdict>>
  <2>1. drained \in Nat
    BY DEF AttemptInv, TypeOK
  <2>2. QED  BY <2>1, DrainEffect DEF AttemptInv
<1>2. verdict = "none"
  BY <1>1 DEF AttemptInv, DrainInv
<1>3. \A a \in Contract!Answered(results) : a < n
  BY DEF Contract!Answered, AttemptInv, ResultsInv, ToldRight, TypeOK
<1> HIDE DEF n
<1>4. CASE Answering(n)
  <2>1. AnswerKind(n) \in {"success", "failed", "denied", "aborted"}
    BY <1>4 DEF Answering, AnswerKind
  <2>2. /\ AnswerKind(n) = "success" => n \in executed
        /\ AnswerKind(n) = "denied" => n \notin executed
    BY <1>1 DEF AnswerKind, AttemptInv, CallInv
  <2>3. Contract!Answer(n, AnswerKind(n))
    BY <1>1, <1>2, <1>3, <1>4, <2>2 DEF Contract!Answer, Result
  <2>4. QED  BY <1>1, <2>1, <2>3
<1>5. CASE ~Answering(n)
  BY <1>1, <1>5 DEF Contract!vars
<1>6. QED  BY <1>4, <1>5

\* receiveSamplingAttempt keeps the contract runSamplingRequest is written
\* against: every step of the receiver and of the goroutines is one step of the
\* abstract attempt or none, for any number of calls.
THEOREM KeepsContract == Spec => ImplementsContract
<1>1. Init => Contract!Init
  BY DEF Init, Contract!Init
<1>2. AttemptInv /\ [Next]_vars => [Contract!Next]_(Contract!vars)
  <2> SUFFICES ASSUME AttemptInv, [Next]_vars
               PROVE  Contract!Next \/ UNCHANGED Contract!vars
    OBVIOUS
  <2>1. CASE ReceiveToolCall
    <3>1. /\ rpc = "receive" /\ started < MaxCalls /\ started' = started + 1
          /\ UNCHANGED <<executed, results, verdict>>
      BY <2>1 DEF ReceiveToolCall, drain
    <3>2. verdict = "none" /\ results = <<>>
      BY <3>1 DEF AttemptInv, DrainInv, ResultsInv
    <3>3. QED  BY <3>1, <3>2 DEF Contract!Next, Contract!Request
  <2>2. CASE ReceiveRejected
    <3>1. /\ rpc = "receive" /\ verdict' = "rejected"
          /\ UNCHANGED <<started, executed, results>>
      BY <2>2 DEF ReceiveRejected, tools
    <3>2. verdict = "none"
      BY <3>1 DEF AttemptInv, DrainInv
    <3>3. Contract!Return("rejected")
      BY <3>1, <3>2 DEF Contract!Return, Contract!Allowed
    <3>4. QED  BY <3>3 DEF Contract!Next
  <2>3. CASE DrainNext
    BY <2>3, DrainNextRefines DEF Contract!Next
  <2>4. CASE DrainEnds
    BY <2>4, DrainEndsRefines DEF Contract!Next
  <2>5. ASSUME NEW c \in Calls, Goroutine(c)
        PROVE  Contract!Next \/ UNCHANGED Contract!vars
    BY <2>5, GoroutineRefines DEF Contract!Next
  <2>6. CASE ReceiveCompleted \/ ReceiveFails \/ Cancel \/ PendingInputArrives
             \/ Terminated \/ UNCHANGED vars
    BY <2>6 DEF ReceiveCompleted, ReceiveFails, StreamEnds, Cancel,
                PendingInputArrives, Terminated, vars, receiver, drain, tools,
                Contract!vars
  <2>7. QED
    BY <2>1, <2>2, <2>3, <2>4, <2>5, <2>6 DEF Next, Receiver
<1>3. QED
  BY <1>1, <1>2, AttemptKnows, PTL DEF Spec, ImplementsContract, Contract!Spec

=============================================================================
