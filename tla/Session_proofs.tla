---------------------------- MODULE Session_proofs ----------------------------
(***************************************************************************)
(* Theorems about Session, for every number of turns, of steering          *)
(* goroutines and of inputs, every queue limit, every budget with its      *)
(* thresholds, and every set of texts and context keys.                    *)
(***************************************************************************)
EXTENDS Session, Positions_proofs

-----------------------------------------------------------------------------
(***************************************************************************)
(* The activity channel.                                                   *)
(***************************************************************************)

\* The channel of the active turn, its flag and the queue go together; a tool
\* only ever watches the channel that the next input will close.
ChannelInv ==
  /\ nextID \in Nat \ {0} /\ channels \in Nat
  /\ closed \subseteq 1 .. channels
  /\ notify \in 0 .. channels
  /\ notify = 0 <=> ~Active
  /\ phase = "idle" <=> ~Active
  /\ watch \in {0, notify}
  /\ Active => (signaled <=> notify \in closed)
  /\ pending # <<>> => Active /\ signaled

\* close(pendingInputNotify) under the invariant: the channel is closed once,
\* whoever comes first.
LEMMA EnqueueStep ==
  ASSUME ChannelInv, NEW item, Active, Enqueue(item),
         UNCHANGED <<turnID, nextID, phase, watch>>
  PROVE  ChannelInv'
<1>1. notify # 0 /\ notify \in 1 .. channels  BY DEF ChannelInv
<1>2. signaled' /\ UNCHANGED <<notify, channels>>
  BY <1>1 DEF Enqueue, Signal
<1>3. closed' \subseteq 1 .. channels /\ notify \in closed'
  BY <1>1 DEF Enqueue, Signal, ChannelInv
<1>4. QED  BY <1>1, <1>2, <1>3 DEF ChannelInv, Active

LEMMA FinishStep ==
  ASSUME ChannelInv, FinishActiveTurn
  PROVE  ChannelInv'
BY DEF ChannelInv, FinishActiveTurn, Active

LEMMA QuietStep ==
  ASSUME ChannelInv, UNCHANGED <<turnID, nextID, phase, watch, queue>>
  PROVE  ChannelInv'
BY DEF ChannelInv, Active, queue

\* Recorders append to the queue of the active turn or to the history.
LEMMA ContextualStep ==
  ASSUME ChannelInv, NEW item, AppendContextualUserItem(item), UNCHANGED running
  PROVE  ChannelInv'
<1>1. UNCHANGED <<turnID, nextID, phase, watch>>  BY DEF running
<1>2. CASE Active /\ Enqueue(item)  BY <1>1, <1>2, EnqueueStep
<1>3. CASE UNCHANGED queue  BY <1>1, <1>3, QuietStep DEF queue
<1>4. QED  BY <1>2, <1>3 DEF AppendContextualUserItem

LEMMA ChannelInvariant == Spec => []ChannelInv
<1>1. Init => ChannelInv
  BY DEF Init, ChannelInv, Active
<1>2. ChannelInv /\ [Next]_vars => ChannelInv'
  <2> SUFFICES ASSUME ChannelInv, [Next]_vars PROVE ChannelInv'
    OBVIOUS
  <2>1. CASE Record
    BY <2>1, ContextualStep DEF Record
  <2>2. ASSUME NEW f \in Fragments, NEW text \in Texts, SetFragment(f, text)
        PROVE  ChannelInv'
    <3>1. UNCHANGED running  BY <2>2 DEF SetFragment
    <3>2. CASE UNCHANGED queue
      BY <3>1, <3>2, QuietStep DEF running, queue
    <3>3. CASE AppendContextualUserItem(Item(f, text))
      BY <3>1, <3>3, ContextualStep
    <3>4. QED  BY <2>2, <3>2, <3>3 DEF SetFragment
  <2>3. ASSUME NEW f \in Fragments, ClearFragment(f) PROVE ChannelInv'
    <3>1. UNCHANGED running  BY <2>3 DEF ClearFragment
    <3>2. CASE UNCHANGED queue
      BY <3>1, <3>2, QuietStep DEF running, queue
    <3>3. CASE AppendContextualUserItem(Item(f, 0))
      BY <3>1, <3>3, ContextualStep
    <3>4. QED  BY <2>3, <3>2, <3>3 DEF ClearFragment
  <2>4. ASSUME NEW c \in Steerers, NEW e, SteerCheck(c, e) PROVE ChannelInv'
    BY <2>4, QuietStep DEF SteerCheck, running, queue
  <2>5. ASSUME NEW c \in Steerers, SteerQueue(c) PROVE ChannelInv'
    <3>1. UNCHANGED <<turnID, nextID, phase, watch>>
      BY <2>5 DEF SteerQueue, running
    <3>2. CASE MaySteer(steerer[c].expects)
      <4>1. Active /\ Enqueue(Item("steer", steerer[c].expects))
        BY <2>5, <3>2 DEF SteerQueue, MaySteer
      <4>2. QED  BY <3>1, <4>1, EnqueueStep
    <3>3. CASE ~MaySteer(steerer[c].expects)
      BY <2>5, <3>1, <3>3, QuietStep DEF SteerQueue
    <3>4. QED  BY <3>2, <3>3
  <2>6. ASSUME NEW next \in Contexts, Submit(next) PROVE ChannelInv'
    <3>1. /\ ~Active /\ turnID' = nextID /\ nextID' = nextID + 1
          /\ phase' = "starting" /\ channels' = channels + 1 /\ notify' = channels'
          /\ pending' = <<>> /\ signaled' = FALSE /\ UNCHANGED <<closed, watch>>
      BY <2>6 DEF Submit, MaySubmit, Remind
    <3>2. notify = 0 /\ watch = 0  BY <3>1 DEF ChannelInv
    <3>3. closed \subseteq 1 .. channels' /\ notify' \notin closed /\ turnID' # 0
      BY <3>1 DEF ChannelInv
    <3>4. QED  BY <3>1, <3>2, <3>3 DEF ChannelInv, Active
  <2>7. CASE SubmitFails
    <3>1. /\ nextID' = nextID + 1 /\ channels' = channels + 1
          /\ UNCHANGED <<turnID, phase, watch, pending, notify, signaled, closed>>
      BY <2>7 DEF SubmitFails, Remind
    <3>2. closed \subseteq 1 .. channels' /\ notify \in 0 .. channels'
      BY <3>1 DEF ChannelInv
    <3>3. QED  BY <3>1, <3>2 DEF ChannelInv, Active
  <2>8. CASE TurnStarts
    BY <2>8 DEF TurnStarts, ChannelInv, Active, queue
  <2>9. ASSUME NEW tokens \in Usages, RunnerResponds(tokens) PROVE ChannelInv'
    BY <2>9, QuietStep DEF RunnerResponds, queue
  <2>10. CASE RunnerWatches
    BY <2>10 DEF RunnerWatches, ChannelInv, Active, queue
  <2>11. CASE DrainPendingInput
    <3>1. /\ phase = "running" /\ Active /\ pending' = <<>> /\ watch' = 0
          /\ UNCHANGED <<closed, turnID, nextID>>
          /\ phase' \in {"running", "closing"}
      BY <2>11 DEF DrainPendingInput, ChannelInv
    <3>2. CASE UNCHANGED <<notify, signaled, channels>>
      BY <3>1, <3>2 DEF ChannelInv, Active
    <3>3. CASE channels' = channels + 1 /\ notify' = channels' /\ signaled' = FALSE
      <4>1. closed \subseteq 1 .. channels' /\ notify' \notin closed /\ notify' # 0
            /\ notify' \in 0 .. channels' /\ channels' \in Nat
        BY <3>3 DEF ChannelInv
      <4>2. QED  BY <3>1, <3>3, <4>1 DEF ChannelInv, Active
    <3>4. QED  BY <2>11, <3>2, <3>3 DEF DrainPendingInput
  <2>12. CASE TurnFails \/ TurnAborts \/ TurnCompletes
    BY <2>12, FinishStep DEF TurnFails, TurnAborts, TurnCompletes
  <2>13. CASE UNCHANGED vars
    BY <2>13, QuietStep DEF vars, queue, running
  <2>14. QED
    BY <2>1, <2>2, <2>3, <2>4, <2>5, <2>6, <2>7, <2>8, <2>9, <2>10, <2>11, <2>12,
       <2>13 DEF Next
<1>3. QED  BY <1>1, <1>2, PTL DEF Spec

\* No interleaving of steering, recording, draining and turns that end leaves
\* a tool waiting on a channel while there is input for it.
THEOREM Woken == Spec => []WatcherIsWoken
<1>1. ChannelInv => WatcherIsWoken
  BY DEF ChannelInv, WatcherIsWoken
<1>2. QED  BY <1>1, ChannelInvariant, PTL

\* The flag agrees with the channel, so no channel is closed twice.
THEOREM ClosedOnce == Spec => []SignalMatchesChannel
<1>1. ChannelInv => SignalMatchesChannel
  BY DEF ChannelInv, SignalMatchesChannel
<1>2. QED  BY <1>1, ChannelInvariant, PTL

-----------------------------------------------------------------------------
(***************************************************************************)
(* The last item of a kind.                                                *)
(***************************************************************************)
\* LastOf, by the position of the last item of its kind.
LEMMA LastOfAt ==
  ASSUME NEW s \in Seq(Items), NEW k, NEW i \in DOMAIN s, s[i].kind = k,
         \A j \in DOMAIN s : s[j].kind = k => j <= i
  PROVE  LastOf(s, k) = s[i].val
<1> DEFINE at == {j \in DOMAIN s : s[j].kind = k}
<1>1. Len(s) \in Nat /\ DOMAIN s = 1 .. Len(s)
  BY LenProperties
<1>2. at \in SUBSET (1 .. Len(s)) /\ i \in at
  BY <1>1
<1>3. Max(at) \in at /\ \A x \in at : x <= Max(at)
  BY <1>1, <1>2, LastPosition
<1>4. Max(at) = i
  <2>1. Max(at) <= i /\ i <= Max(at) /\ Max(at) \in Int /\ i \in Int
    BY <1>1, <1>2, <1>3
  <2>2. QED  BY <2>1
<1>5. QED  BY <1>2, <1>4 DEF LastOf

LEMMA LastOfNone ==
  ASSUME NEW s \in Seq(Items), NEW k, \A i \in DOMAIN s : s[i].kind # k
  PROVE  LastOf(s, k) = 0
BY DEF LastOf

\* If there is an item of kind k, one is the last.
LEMMA HasLast ==
  ASSUME NEW s \in Seq(Items), NEW k, NEW h \in DOMAIN s, s[h].kind = k
  PROVE  \E i \in DOMAIN s : s[i].kind = k /\ \A j \in DOMAIN s : s[j].kind = k => j <= i
<1> DEFINE at == {j \in DOMAIN s : s[j].kind = k}
<1>1. Len(s) \in Nat /\ DOMAIN s = 1 .. Len(s)
  BY LenProperties
<1>2. at \in SUBSET (1 .. Len(s)) /\ h \in at
  BY <1>1
<1>3. Max(at) \in at /\ \A x \in at : x <= Max(at)
  BY <1>1, <1>2, LastPosition
<1>4. QED  BY <1>3

\* Items of other kinds at the end do not matter to LastOf.
LEMMA LastOfBefore ==
  ASSUME NEW s \in Seq(Items), NEW t \in Seq(Items), NEW k,
         \A j \in DOMAIN t : t[j].kind # k
  PROVE  LastOf(s \o t, k) = LastOf(s, k)
<1>0. s \o t \in Seq(Items)
  BY ConcatIndices
<1>1. CASE \A i \in DOMAIN s : s[i].kind # k
  <2>1. \A i \in DOMAIN (s \o t) : (s \o t)[i].kind # k
    BY <1>1, ConcatIndices
  <2>2. QED  BY <1>0, <1>1, <2>1, LastOfNone
<1>2. CASE \E i \in DOMAIN s : s[i].kind = k
  <2>1. PICK i \in DOMAIN s : s[i].kind = k /\ \A j \in DOMAIN s : s[j].kind = k => j <= i
    BY <1>2, HasLast
  <2>2. /\ i \in DOMAIN (s \o t) /\ (s \o t)[i] = s[i]
        /\ \A j \in DOMAIN (s \o t) : (s \o t)[j].kind = k => j <= i
    BY <2>1, ConcatIndices
  <2>3. LastOf(s \o t, k) = (s \o t)[i].val
    BY <1>0, <2>1, <2>2, LastOfAt
  <2>4. QED  BY <2>1, <2>2, <2>3, LastOfAt
<1>3. QED  BY <1>1, <1>2

\* If the end has items of kind k, all with one value, then that is the last.
LEMMA LastOfAfter ==
  ASSUME NEW s \in Seq(Items), NEW t \in Seq(Items), NEW k,
         NEW h \in DOMAIN t, t[h].kind = k,
         \A j \in DOMAIN t : t[j].kind = k => t[j].val = t[h].val
  PROVE  LastOf(s \o t, k) = t[h].val
<1>1. PICK i \in DOMAIN t : t[i].kind = k /\ \A j \in DOMAIN t : t[j].kind = k => j <= i
  BY HasLast
<1>2. /\ s \o t \in Seq(Items) /\ Len(s) \in Nat /\ DOMAIN s = 1 .. Len(s)
      /\ DOMAIN t \subseteq Nat \ {0}
      /\ Len(s) + i \in DOMAIN (s \o t) /\ (s \o t)[Len(s) + i] = t[i]
  BY ConcatIndices
<1>3. ASSUME NEW j \in DOMAIN (s \o t), (s \o t)[j].kind = k PROVE j <= Len(s) + i
  <2>1. CASE j \in DOMAIN s
    BY <1>2, <2>1
  <2>2. ASSUME NEW g \in DOMAIN t, j = Len(s) + g PROVE j <= Len(s) + i
    <3>1. g <= i
      BY <1>1, <1>3, <2>2, ConcatIndices
    <3>2. QED  BY <1>2, <2>2, <3>1
  <2>3. QED  BY <2>1, <2>2, ConcatIndices
<1>4. LastOf(s \o t, k) = (s \o t)[Len(s) + i].val
  BY <1>1, <1>2, <1>3, LastOfAt
<1>5. QED  BY <1>1, <1>2, <1>4

-----------------------------------------------------------------------------
(***************************************************************************)
(* The items of additional context a turn starts with.                     *)
(***************************************************************************)
\* Each item is one of a changed key with its new value, and no changed key is
\* left out.
LEMMA ContextItemsShape ==
  ASSUME SessionAssumption, NEW next \in Contexts
  PROVE  /\ ContextItems(next) \in Seq(Items)
         /\ \A n \in DOMAIN ContextItems(next) :
              LET it == ContextItems(next)[n]
              IN  /\ it.kind \in DOMAIN next /\ it.val = next[it.kind]
                  /\ Changed(next, it.kind) /\ it.kind \notin ItemKinds
         /\ \A k \in DOMAIN next : Changed(next, k) =>
              \E n \in DOMAIN ContextItems(next) : ContextItems(next)[n].kind = k
<1> DEFINE P == ChangedKeys(next)
           keys == Pick(Keys, P)
<1>1. /\ Keys \in Seq(STRING \ ItemKinds) /\ P \in SUBSET (DOMAIN Keys)
      /\ \A i \in DOMAIN Keys : Keys[i] \notin ItemKinds
  BY LenProperties DEF SessionAssumption, ChangedKeys
<1>2. /\ DOMAIN keys = 1 .. Cardinality(P) /\ Cardinality(P) \in Nat
      /\ \A n \in DOMAIN keys : \E i \in P : keys[n] = Keys[i]
      /\ \A i \in P : \E n \in DOMAIN keys : keys[n] = Keys[i]
  BY <1>1, PickShape
<1>3. /\ DOMAIN next \subseteq {Keys[i] : i \in DOMAIN Keys}
      /\ \A k \in DOMAIN next : next[k] \in Nat
  BY DEF Contexts, SessionAssumption
<1>4. ASSUME NEW n \in DOMAIN keys
      PROVE  /\ keys[n] \in {Keys[i] : i \in DOMAIN Keys} /\ keys[n] \notin ItemKinds
             /\ Changed(next, keys[n]) /\ keys[n] \in DOMAIN next /\ next[keys[n]] \in Nat
  <2>1. PICK i \in P : keys[n] = Keys[i]
    BY <1>2
  <2>2. i \in DOMAIN Keys /\ Changed(next, keys[n])
    BY <2>1 DEF ChangedKeys
  <2>3. QED  BY <1>1, <1>3, <2>1, <2>2 DEF Changed
<1>5. ContextItems(next) = [n \in DOMAIN keys |-> Item(keys[n], next[keys[n]])]
  BY DEF ContextItems
<1>6. ASSUME NEW k \in DOMAIN next, Changed(next, k)
      PROVE  \E n \in DOMAIN keys : keys[n] = k
  <2>1. PICK i \in DOMAIN Keys : Keys[i] = k
    BY <1>3
  <2>2. i \in P
    BY <1>6, <2>1 DEF ChangedKeys
  <2>3. QED  BY <1>2, <2>1, <2>2
<1> HIDE DEF P, keys
<1>7. DOMAIN ContextItems(next) = DOMAIN keys
      /\ \A n \in DOMAIN keys : /\ ContextItems(next)[n].kind = keys[n]
                                /\ ContextItems(next)[n].val = next[keys[n]]
                                /\ ContextItems(next)[n] \in Items
  BY <1>4, <1>5 DEF Item, Items
<1>8. ContextItems(next) \in Seq(Items)
  <2>1. ContextItems(next) \in [1 .. Cardinality(P) -> Items]
    BY <1>2, <1>4, <1>5 DEF Item, Items
  <2>2. QED  BY <2>1, <1>2, IsASeq
<1>9. QED  BY <1>4, <1>6, <1>7, <1>8

-----------------------------------------------------------------------------
(***************************************************************************)
(* What a step may do to the history, the turn and the queue.              *)
(***************************************************************************)
\* What the host records and what the session tells of its fragments.
Notes == [kind : {"note", "instructions", "environment"}, val : Nat]

\* Nothing that the transcripts depend on.
Quiet == UNCHANGED <<history, context, budget, turnID, turn, pending>>

RecordsNote(item) ==
  /\ ~Active /\ item \in Notes
  /\ history' = Append(history, item)
  /\ UNCHANGED <<context, budget, turnID, turn, pending>>

QueuesInput(item) ==
  /\ Active /\ Len(pending) < MaxPending
  /\ item \in Notes \/ \E e \in {0, turnID} : item = Item("steer", e)
  /\ pending' = Append(pending, item)
  /\ UNCHANGED <<history, context, budget, turnID, turn>>

Refuses ==
  /\ ~Active /\ Remind
  /\ UNCHANGED <<context, turnID, turn, pending>>

Starts(next) ==
  /\ ~Active /\ Remind
  /\ turnID' = nextID /\ pending' = <<>>
  /\ turn' = [base    |-> history' \o ContextItems(next) \o <<Item("user", nextID)>>,
              work    |-> <<>>,
              context |-> next,
              usage   |-> 0]
  /\ UNCHANGED context

Works(tokens) ==
  /\ Active
  /\ turn' = [turn EXCEPT !.work = Append(@, Item("work", 0)), !.usage = @ + tokens]
  /\ UNCHANGED <<history, context, budget, turnID, pending>>

Drains ==
  /\ Active
  /\ turn' = [turn EXCEPT !.work = @ \o pending] /\ pending' = <<>>
  /\ UNCHANGED <<history, context, budget, turnID>>

Ends == /\ Active /\ turnID' = 0 /\ turn' = NoTurn /\ pending' = <<>>
        /\ \/ UNCHANGED durable
           \/ /\ history' = turn.base \o <<Item("work", 0), Item("marker", 0)>>
              /\ context' = turn.context /\ UNCHANGED budget
           \/ /\ history' = turn.base \o turn.work
              /\ context' = turn.context /\ budget' = Charge(budget, turn.usage)

LEMMA ContextualEffect ==
  ASSUME NEW item \in Notes, AppendContextualUserItem(item),
         UNCHANGED <<context, budget, running>>
  PROVE  RecordsNote(item) \/ QueuesInput(item)
BY DEF AppendContextualUserItem, Enqueue, RecordsNote, QueuesInput, running, queue

LEMMA Steps ==
  ASSUME SessionAssumption, ChannelInv, [Next]_vars
  PROVE  \/ Quiet
         \/ \E item : RecordsNote(item) \/ QueuesInput(item)
         \/ Refuses
         \/ \E next \in Contexts : Starts(next)
         \/ \E tokens \in Usages : Works(tokens)
         \/ Drains
         \/ Ends
<1>1. CASE Record
  <2>1. Item("note", 0) \in Notes
    BY DEF Item, Notes
  <2>2. QED  BY <1>1, <2>1, ContextualEffect DEF Record
<1>2. ASSUME NEW f \in Fragments, NEW text \in Texts, SetFragment(f, text)
      PROVE  Quiet \/ \E item : RecordsNote(item) \/ QueuesInput(item)
  <2>1. Item(f, text) \in Notes
    BY DEF Item, Notes, Fragments, SessionAssumption
  <2>2. UNCHANGED <<context, budget, running>>
    BY <1>2 DEF SetFragment
  <2>3. CASE UNCHANGED <<history, queue, baseline>>
    BY <2>2, <2>3 DEF Quiet, queue, running
  <2>4. CASE AppendContextualUserItem(Item(f, text))
    BY <2>1, <2>2, <2>4, ContextualEffect
  <2>5. QED  BY <1>2, <2>3, <2>4 DEF SetFragment
<1>3. ASSUME NEW f \in Fragments, ClearFragment(f)
      PROVE  Quiet \/ \E item : RecordsNote(item) \/ QueuesInput(item)
  <2>1. Item(f, 0) \in Notes
    BY DEF Item, Notes, Fragments
  <2>2. UNCHANGED <<context, budget, running>>
    BY <1>3 DEF ClearFragment
  <2>3. CASE UNCHANGED <<history, queue>>
    BY <2>2, <2>3 DEF Quiet, queue, running
  <2>4. CASE AppendContextualUserItem(Item(f, 0))
    BY <2>1, <2>2, <2>4, ContextualEffect
  <2>5. QED  BY <1>3, <2>3, <2>4 DEF ClearFragment
<1>4. ASSUME NEW c \in Steerers, NEW e, SteerCheck(c, e) PROVE Quiet
  BY <1>4 DEF SteerCheck, Quiet, durable, queue, running
<1>5. ASSUME NEW c \in Steerers, SteerQueue(c)
      PROVE  Quiet \/ \E item : QueuesInput(item)
  <2>1. UNCHANGED <<history, context, budget, turnID, turn>>
    BY <1>5 DEF SteerQueue, durable, running
  <2>2. CASE MaySteer(steerer[c].expects)
    <3>1. Enqueue(Item("steer", steerer[c].expects))
      BY <1>5, <2>2 DEF SteerQueue
    <3>2. QueuesInput(Item("steer", steerer[c].expects))
      BY <2>1, <2>2, <3>1 DEF QueuesInput, Enqueue, MaySteer
    <3>3. QED  BY <3>2
  <2>3. CASE ~MaySteer(steerer[c].expects)
    BY <1>5, <2>1, <2>3 DEF SteerQueue, Quiet, queue
  <2>4. QED  BY <2>2, <2>3
<1>6. ASSUME NEW next \in Contexts, Submit(next) PROVE Starts(next)
  BY <1>6 DEF Submit, MaySubmit, Starts
<1>7. CASE SubmitFails
  BY <1>7 DEF SubmitFails, MaySubmit, Refuses
<1>8. CASE TurnStarts \/ RunnerWatches
  BY <1>8 DEF TurnStarts, RunnerWatches, Quiet, durable, queue
<1>9. ASSUME NEW tokens \in Usages, RunnerResponds(tokens) PROVE Works(tokens)
  BY <1>9 DEF RunnerResponds, Works, durable, queue, ChannelInv
<1>10. CASE DrainPendingInput
  <2>1. /\ Active /\ pending' = <<>>
        /\ UNCHANGED <<history, context, budget, turnID>>
    BY <1>10 DEF DrainPendingInput, durable, ChannelInv
  <2>2. CASE pending = <<>>
    BY <1>10, <2>1, <2>2 DEF DrainPendingInput, Quiet
  <2>3. CASE pending # <<>>
    BY <1>10, <2>1, <2>3 DEF DrainPendingInput, Drains
  <2>4. QED  BY <2>2, <2>3
<1>11. CASE TurnFails \/ TurnAborts \/ TurnCompletes
  <2>1. Active
    BY <1>11 DEF TurnFails, TurnAborts, TurnCompletes, ChannelInv
  <2>2. QED
    BY <1>11, <2>1
    DEF TurnFails, TurnAborts, TurnCompletes, FinishActiveTurn, Ends, durable
<1>12. CASE UNCHANGED vars
  BY <1>12 DEF vars, durable, queue, running, Quiet
<1>13. QED
  BY <1>1, <1>2, <1>3, <1>4, <1>5, <1>6, <1>7, <1>8, <1>9, <1>10, <1>11, <1>12,
     ContextualEffect
  DEF Next

-----------------------------------------------------------------------------
(***************************************************************************)
(* Types.                                                                  *)
(***************************************************************************)
Turns == [base : Seq(Items), work : Seq(Items), context : Contexts, usage : Nat]

\* The transcripts, and that a session between turns has nothing of a turn.
DataInv ==
  /\ turnID \in Nat
  /\ history \in Seq(Items)
  /\ context \in Contexts
  /\ budget \in Budgets
  /\ pending \in Seq(Items) /\ Len(pending) <= MaxPending
  /\ turn \in Turns
  /\ ~Active => turn = NoTurn /\ pending = <<>>

\* How many thresholds are crossed, and that it only grows with the tokens.
LEMMA Reminders ==
  ASSUME BudgetAssumption, NEW b, NEW c, b.used \in Nat, c.used \in Nat,
         b.used <= c.used
  PROVE  /\ ReminderIndex(b) \in 0 .. Cardinality(Thresholds)
         /\ ReminderIndex(b) <= ReminderIndex(c)
<1> DEFINE Crossed(x) == {t \in Thresholds : 0 < t /\ t < Limit /\ Remaining(x) <= t}
<1>1. Limit \in Nat /\ Thresholds \subseteq Nat /\ IsFiniteSet(Thresholds)
      /\ Cardinality(Thresholds) \in Nat
  BY FS_CardinalityType DEF BudgetAssumption
<1>2. ASSUME NEW Q \in SUBSET Thresholds
      PROVE  /\ IsFiniteSet(Q) /\ Cardinality(Q) \in Nat
             /\ Cardinality(Q) <= Cardinality(Thresholds)
  BY <1>1, FS_Subset, FS_CardinalityType
<1>3. Remaining(c) <= Remaining(b) /\ Remaining(b) \in Nat /\ Remaining(c) \in Nat
  BY <1>1 DEF Remaining
<1>4. Crossed(b) \subseteq Crossed(c)
  <2>1. \A t \in Thresholds : Remaining(b) <= t => Remaining(c) <= t
    BY <1>1, <1>3
  <2>2. QED  BY <2>1, Zenon
<1>5. Cardinality(Crossed(b)) <= Cardinality(Crossed(c))
  <2>1. IsFiniteSet(Crossed(c))
    BY <1>2
  <2>2. QED  BY <1>4, <2>1, FS_Subset
<1>6. Cardinality(Crossed(b)) \in 0 .. Cardinality(Thresholds)
  <2>1. Cardinality(Crossed(b)) \in Nat /\ Cardinality(Crossed(b)) <= Cardinality(Thresholds)
    BY <1>2
  <2>2. QED  BY <2>1, <1>1
<1>7. QED  BY <1>5, <1>6 DEF ReminderIndex

LEMMA ItemIsItem ==
  ASSUME NEW k \in ItemKinds, NEW v \in Nat
  PROVE  Item(k, v) \in Items /\ Item(k, v).kind = k /\ Item(k, v).val = v
BY DEF Item, Items

\* A sequence of one item.
LEMMA One ==
  ASSUME NEW e \in Items
  PROVE  /\ <<e>> \in Seq(Items) /\ Len(<<e>>) = 1 /\ DOMAIN <<e>> = {1} /\ <<e>>[1] = e
         /\ \A s \in Seq(Items) : Append(s, e) = s \o <<e>> /\ Append(s, e) \in Seq(Items)
                                  /\ Len(Append(s, e)) = Len(s) + 1
<1>1. <<e>> \in Seq(Items) /\ Len(<<e>>) = 1 /\ DOMAIN <<e>> = {1} /\ <<e>>[1] = e
  OBVIOUS
<1>2. ASSUME NEW s \in Seq(Items)
      PROVE  Append(s, e) \in Seq(Items) /\ Len(Append(s, e)) = Len(s) + 1
  BY AppendProperties
<1>3. ASSUME NEW s \in Seq(Items) PROVE Append(s, e) = s \o <<e>>
  BY AppendIsConcat
<1>4. QED  BY <1>1, <1>2, <1>3

\* The reminder, if one is due, is the last item and the one remembered.
LEMMA RemindEffect ==
  ASSUME BudgetAssumption, history \in Seq(Items), budget \in Budgets, Remind
  PROVE  /\ Reminder \in Seq(Items) /\ history' = history \o Reminder
         /\ history' \in Seq(Items) /\ budget' \in Budgets
         /\ budget'.used = budget.used /\ ReminderIndex(budget') = ReminderIndex(budget)
         /\ \A i \in DOMAIN Reminder : Reminder[i] = Item("reminder", ReminderIndex(budget))
         /\ NeedsReminder(budget) =>
              1 \in DOMAIN Reminder /\ budget'.reminded = ReminderIndex(budget)
         /\ ~NeedsReminder(budget) => Reminder = <<>> /\ budget' = budget
<1> DEFINE n == ReminderIndex(budget)
<1>1. n \in 0 .. Cardinality(Thresholds) /\ n \in Nat
  <2>1. budget.used \in Nat
    BY DEF Budgets
  <2>2. budget.used <= budget.used
    BY <2>1
  <2>3. n \in 0 .. Cardinality(Thresholds)
    BY <2>1, <2>2, Reminders
  <2>4. QED  BY <2>3
<1>2. Item("reminder", n) \in Items
  BY <1>1, ItemIsItem DEF ItemKinds
<1>3. /\ Reminder \in Seq(Items)
      /\ \A i \in DOMAIN Reminder : Reminder[i] = Item("reminder", n)
      /\ NeedsReminder(budget) => 1 \in DOMAIN Reminder
      /\ ~NeedsReminder(budget) => Reminder = <<>>
  <2>1. CASE NeedsReminder(budget)
    BY <1>2, <2>1, One DEF Reminder
  <2>2. CASE ~NeedsReminder(budget)
    BY <2>2, EmptySeq DEF Reminder
  <2>3. QED  BY <2>1, <2>2
<1>4. history' = history \o Reminder /\ history' \in Seq(Items)
  BY <1>3, ConcatIndices DEF Remind
<1>5. /\ budget' \in Budgets /\ budget'.used = budget.used
      /\ NeedsReminder(budget) => budget'.reminded = n
      /\ ~NeedsReminder(budget) => budget' = budget
  <2>1. CASE NeedsReminder(budget)
    <3>1. budget' = [budget EXCEPT !.reminded = n]
      BY <2>1 DEF Remind, Reminded
    <3>2. n \in -1 .. Cardinality(Thresholds)
      BY <1>1
    <3>3. QED  BY <2>1, <3>1, <3>2, Zenon DEF Budgets
  <2>2. CASE ~NeedsReminder(budget)
    BY <2>2 DEF Remind
  <2>3. QED  BY <2>1, <2>2
<1>6. ReminderIndex(budget') = n
  BY <1>5 DEF ReminderIndex, Remaining
<1>7. QED  BY <1>3, <1>4, <1>5, <1>6

LEMMA ChargeEffect ==
  ASSUME BudgetAssumption, NEW b \in Budgets, NEW tokens \in Nat
  PROVE  /\ Charge(b, tokens) \in Budgets
         /\ Charge(b, tokens).reminded = b.reminded
         /\ ReminderIndex(b) <= ReminderIndex(Charge(b, tokens))
<1>1. b.used \in Nat /\ b.reminded \in -1 .. Cardinality(Thresholds)
  BY DEF Budgets
<1>2. b.used + tokens \in Nat /\ b.used <= b.used + tokens /\ b.used <= b.used
  BY <1>1
<1>3. CASE Limit = 0
  BY <1>1, <1>2, <1>3, Reminders DEF Charge
<1>4. CASE Limit # 0
  <2> DEFINE e == b.exhausted \/ (tokens > 0 /\ b.used + tokens >= Limit)
  <2>1. Charge(b, tokens) = [b EXCEPT !.used = b.used + tokens, !.exhausted = e]
    BY <1>4, Zenon DEF Charge
  <2>2. e \in BOOLEAN
    OBVIOUS
  <2>3. Charge(b, tokens) \in Budgets /\ Charge(b, tokens).reminded = b.reminded
        /\ Charge(b, tokens).used = b.used + tokens
    <3> HIDE DEF e
    <3>1. QED  BY <1>2, <2>1, <2>2, Zenon DEF Budgets
  <2>4. QED  BY <1>1, <1>2, <2>3, Reminders
<1>5. QED  BY <1>3, <1>4

LEMMA DataInit == SessionAssumption /\ BudgetAssumption /\ Init => DataInv
<1> SUFFICES ASSUME SessionAssumption, BudgetAssumption, Init PROVE DataInv
  OBVIOUS
<1>1. history \in Seq(Items)
  <2> DEFINE Item1(f) == IF baseline[f] = 0 THEN <<>> ELSE <<Item(f, baseline[f])>>
  <2>1. ASSUME NEW f \in Fragments PROVE Item1(f) \in Seq(Items)
    <3>1. baseline \in [Fragments -> Texts \cup {0}] /\ Texts \subseteq Nat \ {0}
      BY DEF Init, SessionAssumption
    <3>2. baseline[f] \in Nat
      <4>1. baseline[f] \in Texts \cup {0}
        BY <3>1
      <4>2. \A v \in Texts : v \in Nat
        BY DEF SessionAssumption
      <4>3. 0 \in Nat
        OBVIOUS
      <4>4. QED  BY <4>1, <4>2, <4>3, Zenon
    <3>3. f \in ItemKinds
      BY DEF Fragments, ItemKinds
    <3>4. QED  BY <3>2, <3>3, ItemIsItem, One, EmptySeq
  <2>2. history = Item1("instructions") \o Item1("environment")
    BY DEF Init
  <2>3. Item1("instructions") \in Seq(Items) /\ Item1("environment") \in Seq(Items)
    BY <2>1 DEF Fragments
  <2>4. QED
    <3> HIDE DEF Item1
    <3>1. QED  BY <2>2, <2>3, ConcatIndices
<1>2. EmptyContext \in Contexts
  <2>1. EmptyContext \in [{} -> Texts]
    BY DEF EmptyContext
  <2>2. QED  BY <2>1 DEF Contexts
<1>3. <<>> \in Seq(Items) /\ Len(<<>>) = 0
  BY EmptySeq
<1>4. NoTurn \in Turns
  BY <1>2, <1>3 DEF NoTurn, Turns
<1>5. budget \in Budgets
  <2>1. -1 \in -1 .. Cardinality(Thresholds)
    BY FS_CardinalityType DEF BudgetAssumption
  <2>2. budget = [used |-> 0, reminded |-> -1, exhausted |-> FALSE]
    BY DEF Init, NewBudget
  <2>3. 0 \in Nat
    OBVIOUS
  <2>4. QED  BY <2>1, <2>2, <2>3, Zenon DEF Budgets
<1>6. QED
  BY <1>1, <1>2, <1>3, <1>4, <1>5 DEF Init, DataInv, Active, SessionAssumption

LEMMA NotesAreItems ==
  ASSUME NEW item \in Notes
  PROVE  item \in Items
<1>1. {"note", "instructions", "environment"} \subseteq ItemKinds
  BY DEF ItemKinds
<1>2. QED  BY <1>1, Zenon DEF Notes, Items

LEMMA QueuedIsItem ==
  ASSUME DataInv, NEW item, QueuesInput(item)
  PROVE  item \in Items
<1>1. CASE item \in Notes
  BY <1>1, NotesAreItems
<1>2. ASSUME NEW e \in {0, turnID}, item = Item("steer", e) PROVE item \in Items
  <2>1. e \in Nat
    BY DEF DataInv
  <2>2. QED  BY <1>2, <2>1, ItemIsItem DEF ItemKinds
<1>3. QED  BY <1>1, <1>2 DEF QueuesInput

\* The prompt of a turn: the history, the new context, the user's input.
LEMMA PromptEffect ==
  ASSUME SessionAssumption, BudgetAssumption, ChannelInv, DataInv,
         NEW next \in Contexts, Starts(next)
  PROVE  /\ turnID' \in Nat /\ turnID' # 0 /\ pending' = <<>>
         /\ history' \in Seq(Items) /\ ContextItems(next) \in Seq(Items)
         /\ <<Item("user", turnID')>> \in Seq(Items)
         /\ turn'.base = history' \o ContextItems(next) \o <<Item("user", turnID')>>
         /\ turn'.work = <<>> /\ turn'.context = next
         /\ turn' \in Turns
<1>1. turnID' = nextID /\ turnID' \in Nat /\ turnID' # 0 /\ pending' = <<>>
  BY DEF Starts, ChannelInv
<1>2. history' \in Seq(Items)
  BY RemindEffect DEF Starts, DataInv
<1>3. ContextItems(next) \in Seq(Items)
  BY ContextItemsShape
<1>4. Item("user", turnID') \in Items
  BY <1>1, ItemIsItem DEF ItemKinds
<1>5. <<Item("user", turnID')>> \in Seq(Items)
  BY <1>4, One
<1>6. history' \o ContextItems(next) \in Seq(Items)
  BY <1>2, <1>3, ConcatIndices
<1>7. history' \o ContextItems(next) \o <<Item("user", turnID')>> \in Seq(Items)
  BY <1>5, <1>6, ConcatIndices
<1>8. <<>> \in Seq(Items)
  BY EmptySeq
<1>9. turn' = [base    |-> history' \o ContextItems(next) \o <<Item("user", turnID')>>,
               work |-> <<>>, context |-> next, usage |-> 0]
  BY <1>1 DEF Starts
<1>10. turn' \in Turns
  BY <1>7, <1>8, <1>9 DEF Turns
<1>11. QED  BY <1>1, <1>2, <1>3, <1>5, <1>9, <1>10

LEMMA DataStep ==
  ASSUME SessionAssumption, BudgetAssumption, ChannelInv, DataInv, [Next]_vars
  PROVE  DataInv'
<1>0. Len(<<>>) = 0 /\ <<>> \in Seq(Items) /\ MaxPending \in Nat
  BY EmptySeq DEF SessionAssumption
<1>1. CASE Quiet
  BY <1>1 DEF Quiet, DataInv, Active
<1>2. ASSUME NEW item, RecordsNote(item) PROVE DataInv'
  <2>1. item \in Items
    BY <1>2, NotesAreItems DEF RecordsNote
  <2>2. history' \in Seq(Items)
    BY <1>2, <2>1, One DEF RecordsNote, DataInv
  <2>3. QED  BY <1>2, <2>2 DEF RecordsNote, DataInv, Active
<1>3. ASSUME NEW item, QueuesInput(item) PROVE DataInv'
  <2>1. item \in Items
    BY <1>3, QueuedIsItem
  <2>2. pending' \in Seq(Items) /\ Len(pending') = Len(pending) + 1
    BY <1>3, <2>1, One DEF QueuesInput, DataInv
  <2>3. Len(pending') <= MaxPending
    <3>1. Len(pending) \in Nat
      BY LenProperties DEF DataInv
    <3>2. QED  BY <1>0, <1>3, <2>2, <3>1 DEF QueuesInput
  <2>4. QED  BY <1>3, <2>2, <2>3 DEF QueuesInput, DataInv, Active
<1>4. CASE Refuses
  <2>1. history' \in Seq(Items) /\ budget' \in Budgets
    BY <1>4, RemindEffect DEF Refuses, DataInv
  <2>2. QED  BY <1>4, <2>1 DEF Refuses, DataInv, Active
<1>5. ASSUME NEW next \in Contexts, Starts(next) PROVE DataInv'
  <2>1. /\ turnID' \in Nat /\ turnID' # 0 /\ pending' = <<>>
        /\ history' \in Seq(Items) /\ turn' \in Turns
    BY <1>5, PromptEffect
  <2>2. budget' \in Budgets
    BY <1>5, RemindEffect DEF Starts, DataInv
  <2>3. QED  BY <1>0, <1>5, <2>1, <2>2 DEF Starts, DataInv, Active
<1>6. ASSUME NEW tokens \in Usages, Works(tokens) PROVE DataInv'
  <2>1. Item("work", 0) \in Items
    BY ItemIsItem DEF ItemKinds
  <2>2. turn.work \in Seq(Items) /\ turn.usage \in Nat
    BY DEF DataInv, Turns
  <2>3. Append(turn.work, Item("work", 0)) \in Seq(Items) /\ turn.usage + tokens \in Nat
    <3>1. tokens \in Nat
      BY DEF SessionAssumption
    <3>2. turn.usage + tokens \in Nat
      BY <2>2, <3>1
    <3>3. QED  BY <2>1, <2>2, <3>2, One
  <2>4. turn' \in Turns
    <3>1. turn' = [turn EXCEPT !.work = Append(turn.work, Item("work", 0)),
                               !.usage = turn.usage + tokens]
      BY <1>6 DEF Works
    <3>2. QED  BY <2>3, <3>1, Zenon DEF DataInv, Turns
  <2>5. QED  BY <1>6, <2>4 DEF Works, DataInv, Active
<1>7. CASE Drains
  <2>1. turn.work \o pending \in Seq(Items)
    <3>1. turn.work \in Seq(Items) /\ pending \in Seq(Items)
      BY DEF DataInv, Turns
    <3>2. QED  BY <3>1, ConcatIndices
  <2>2. turn' \in Turns
    <3>1. turn' = [turn EXCEPT !.work = turn.work \o pending]
      BY <1>7 DEF Drains
    <3>2. QED  BY <2>1, <3>1, Zenon DEF DataInv, Turns
  <2>3. QED  BY <1>0, <1>7, <2>2 DEF Drains, DataInv, Active
<1>8. CASE Ends
  <2>1. turn.base \in Seq(Items) /\ turn.work \in Seq(Items)
        /\ turn.context \in Contexts /\ turn.usage \in Nat
    BY DEF DataInv, Turns
  <2>2. Item("work", 0) \in Items /\ Item("marker", 0) \in Items
    BY ItemIsItem DEF ItemKinds
  <2>3. <<Item("work", 0), Item("marker", 0)>> \in Seq(Items)
    BY <2>2
  <2>4. turn.base \o turn.work \in Seq(Items)
        /\ turn.base \o <<Item("work", 0), Item("marker", 0)>> \in Seq(Items)
    BY <2>1, <2>3, ConcatIndices
  <2>5. Charge(budget, turn.usage) \in Budgets
    BY <2>1, ChargeEffect DEF DataInv
  <2>6. history' \in Seq(Items) /\ context' \in Contexts /\ budget' \in Budgets
    BY <1>8, <2>1, <2>4, <2>5 DEF Ends, DataInv, durable
  <2>7. NoTurn \in Turns
    <3>1. EmptyContext \in Contexts
      <4>1. EmptyContext \in [{} -> Texts]
        BY DEF EmptyContext
      <4>2. QED  BY <4>1 DEF Contexts
    <3>2. QED  BY <1>0, <3>1 DEF NoTurn, Turns
  <2>8. QED  BY <1>0, <1>8, <2>6, <2>7 DEF Ends, DataInv, Active
<1>9. QED
  BY <1>1, <1>2, <1>3, <1>4, <1>5, <1>6, <1>7, <1>8, Steps

\* The counters, and what the callers keep.
CounterInv ==
  /\ turnID \in 0 .. MaxTurns /\ nextID \in 1 .. (MaxTurns + 1) /\ turnID < nextID
  /\ phase \in {"idle", "starting", "running", "closing"}
  /\ signaled \in BOOLEAN
  /\ baseline \in [Fragments -> Texts \cup {0}]
  /\ steerer \in [Steerers -> [checked : BOOLEAN, expects : 0 .. MaxTurns]]

LEMMA SignalFlag ==
  ASSUME signaled \in BOOLEAN, Signal
  PROVE  signaled' \in BOOLEAN
<1>1. (signaled \/ notify # 0) \in BOOLEAN
  OBVIOUS
<1>2. QED  BY <1>1, Zenon DEF Signal

LEMMA ContextualFlag ==
  ASSUME signaled \in BOOLEAN, NEW item, AppendContextualUserItem(item)
  PROVE  signaled' \in BOOLEAN
<1>1. CASE Enqueue(item)
  BY <1>1, SignalFlag DEF Enqueue
<1>2. CASE UNCHANGED queue
  BY <1>2 DEF queue
<1>3. QED  BY <1>1, <1>2 DEF AppendContextualUserItem

LEMMA CounterStep ==
  ASSUME SessionAssumption, CounterInv, [Next]_vars
  PROVE  CounterInv'
<1> DEFINE Steerer == [checked : BOOLEAN, expects : 0 .. MaxTurns]
           Scalars == UNCHANGED <<turnID, nextID, phase>>
<1>0. MaxTurns \in Nat
  BY DEF SessionAssumption
<1>1. CASE Record
  <2>1. signaled' \in BOOLEAN
    BY <1>1, ContextualFlag DEF Record, CounterInv
  <2>2. QED  BY <1>1, <2>1 DEF Record, CounterInv, running
<1>2. ASSUME NEW f \in Fragments, NEW text \in Texts, SetFragment(f, text)
      PROVE  CounterInv'
  <2>1. signaled' \in BOOLEAN
    BY <1>2, ContextualFlag DEF SetFragment, CounterInv, queue
  <2>2. baseline' \in [Fragments -> Texts \cup {0}]
    BY <1>2 DEF SetFragment, CounterInv
  <2>3. QED  BY <1>2, <2>1, <2>2 DEF SetFragment, CounterInv, running
<1>3. ASSUME NEW f \in Fragments, ClearFragment(f) PROVE CounterInv'
  <2>1. signaled' \in BOOLEAN
    BY <1>3, ContextualFlag DEF ClearFragment, CounterInv, queue
  <2>2. baseline' \in [Fragments -> Texts \cup {0}]
    BY <1>3 DEF ClearFragment, CounterInv
  <2>3. QED  BY <1>3, <2>1, <2>2 DEF ClearFragment, CounterInv, running
<1>4. ASSUME NEW c \in Steerers, NEW e \in 0 .. (nextID - 1), SteerCheck(c, e)
      PROVE  CounterInv'
  <2>1. e \in 0 .. MaxTurns
    BY <1>0 DEF CounterInv
  <2>2. [checked |-> TRUE, expects |-> e] \in Steerer
    BY <2>1, Zenon
  <2>3. steerer' \in [Steerers -> Steerer]
    <3> HIDE DEF Steerer
    <3>1. QED  BY <1>4, <2>2, Zenon DEF SteerCheck, CounterInv, Steerer
  <2>4. QED  BY <1>4, <2>3 DEF SteerCheck, CounterInv, running, queue
<1>5. ASSUME NEW c \in Steerers, SteerQueue(c) PROVE CounterInv'
  <2>1. steerer' = [steerer EXCEPT ![c] = [steerer[c] EXCEPT !.checked = FALSE]]
    BY <1>5 DEF SteerQueue, Leave
  <2>2. steerer[c] \in Steerer
    BY DEF CounterInv
  <2>3. [steerer[c] EXCEPT !.checked = FALSE] \in Steerer
    BY <2>2, Zenon
  <2>4. steerer' \in [Steerers -> Steerer]
    <3> HIDE DEF Steerer
    <3>1. QED  BY <2>1, <2>3, Zenon DEF CounterInv, Steerer
  <2>5. signaled' \in BOOLEAN
    BY <1>5, SignalFlag DEF SteerQueue, Enqueue, CounterInv, queue
  <2>6. QED  BY <1>5, <2>4, <2>5 DEF SteerQueue, CounterInv, running
<1>6. ASSUME NEW next \in Contexts, Submit(next) PROVE CounterInv'
  <2>1. turnID' = nextID /\ nextID' = nextID + 1 /\ nextID <= MaxTurns
        /\ phase' = "starting" /\ signaled' = FALSE /\ UNCHANGED <<baseline, steerer>>
    BY <1>6 DEF Submit, MaySubmit, Remind, others
  <2>2. turnID' \in 0 .. MaxTurns /\ nextID' \in 1 .. (MaxTurns + 1) /\ turnID' < nextID'
    BY <1>0, <2>1 DEF CounterInv
  <2>3. QED  BY <2>1, <2>2, Zenon DEF CounterInv
<1>7. CASE SubmitFails
  <2>1. nextID' = nextID + 1 /\ nextID <= MaxTurns
        /\ UNCHANGED <<turnID, phase, signaled, baseline, steerer>>
    BY <1>7 DEF SubmitFails, MaySubmit, Remind, others
  <2>2. nextID' \in 1 .. (MaxTurns + 1) /\ turnID < nextID'
    BY <1>0, <2>1 DEF CounterInv
  <2>3. QED  BY <2>1, <2>2, Zenon DEF CounterInv
<1>8. CASE TurnStarts
  BY <1>8 DEF TurnStarts, CounterInv, queue, others
<1>9. ASSUME NEW tokens \in Usages, RunnerResponds(tokens) PROVE CounterInv'
  BY <1>9 DEF RunnerResponds, CounterInv, queue, others
<1>10. CASE RunnerWatches
  BY <1>10 DEF RunnerWatches, CounterInv, queue, others
<1>11. CASE DrainPendingInput
  <2>1. signaled' \in BOOLEAN /\ phase' \in {"running", "closing"}
    BY <1>11 DEF DrainPendingInput, CounterInv
  <2>2. QED  BY <1>11, <2>1 DEF DrainPendingInput, CounterInv, others
<1>12. CASE TurnFails \/ TurnAborts \/ TurnCompletes
  <2>1. turnID' = 0 /\ phase' = "idle" /\ signaled' = FALSE
        /\ UNCHANGED <<nextID, baseline, steerer>>
    BY <1>12 DEF TurnFails, TurnAborts, TurnCompletes, FinishActiveTurn, others
  <2>2. 0 \in 0 .. MaxTurns /\ 0 < nextID
    BY <1>0 DEF CounterInv
  <2>3. QED  BY <2>1, <2>2, Zenon DEF CounterInv
<1>13. CASE UNCHANGED vars
  BY <1>13 DEF vars, running, others, queue, CounterInv
<1>14. QED
  BY <1>1, <1>2, <1>3, <1>4, <1>5, <1>6, <1>7, <1>8, <1>9, <1>10, <1>11, <1>12, <1>13
  DEF Next

LEMMA TypeInvariant == Spec => [](ChannelInv /\ DataInv /\ CounterInv)
<1>1. Init => DataInv
  BY SessionAssumption, BudgetAssumption, DataInit
<1>2. Init => CounterInv
  <2> SUFFICES ASSUME Init PROVE CounterInv
    OBVIOUS
  <2>1. MaxTurns \in Nat
    BY SessionAssumption DEF SessionAssumption
  <2>2. steerer \in [Steerers -> [checked : BOOLEAN, expects : 0 .. MaxTurns]]
    <3>1. 0 \in 0 .. MaxTurns
      BY <2>1
    <3>2. QED  BY <3>1, Zenon DEF Init
  <2>3. 0 \in 0 .. MaxTurns /\ 1 \in 1 .. (MaxTurns + 1) /\ 0 < 1
    BY <2>1
  <2>4. turnID = 0 /\ nextID = 1 /\ phase = "idle" /\ signaled = FALSE
        /\ baseline \in [Fragments -> Texts \cup {0}]
    BY DEF Init
  <2>5. QED  BY <2>2, <2>3, <2>4, Zenon DEF CounterInv
<1>3. ChannelInv /\ DataInv /\ [Next]_vars => DataInv'
  BY SessionAssumption, BudgetAssumption, DataStep
<1>4. CounterInv /\ [Next]_vars => CounterInv'
  BY SessionAssumption, CounterStep
<1>5. QED  BY <1>1, <1>2, <1>3, <1>4, ChannelInvariant, PTL DEF Spec

\* Every session is well typed: the queue keeps to its limit, and a channel, a
\* turn and a phase are there exactly while a turn is active.
THEOREM WellTyped == Spec => []TypeOK
<1>1. ChannelInv /\ DataInv /\ CounterInv => TypeOK
  <2> SUFFICES ASSUME ChannelInv, DataInv, CounterInv PROVE TypeOK
    OBVIOUS
  <2>1. DOMAIN context \subseteq {Keys[i] : i \in DOMAIN Keys}
    BY DEF DataInv, Contexts
  <2>2. turn.base \in Seq(Items) /\ turn.work \in Seq(Items)
    BY DEF DataInv, Turns
  <2>3. watch \in 0 .. channels
    BY DEF ChannelInv
  <2>4. QED
    BY <2>1, <2>2, <2>3, Zenon DEF TypeOK, ChannelInv, DataInv, CounterInv
<1>2. QED  BY <1>1, TypeInvariant, PTL

-----------------------------------------------------------------------------
(***************************************************************************)
(* Steered input.                                                          *)
(***************************************************************************)
Steered(s) ==
  \A i \in DOMAIN s : s[i].kind = "steer" => s[i].val \in {0, TurnAt(s, i)}

\* What a turn adds to its prompt: no user item, and steered input only of
\* senders that expect this turn or any.
TurnKinds == {"work", "steer", "note", "instructions", "environment"}

Fits(s) == \A i \in DOMAIN s : /\ s[i].kind \in TurnKinds
                               /\ s[i].kind = "steer" => s[i].val \in {0, turnID}

\* The turn of an item depends on the items up to it.
LEMMA TurnAtPrefix ==
  ASSUME NEW s \in Seq(Items), NEW t \in Seq(Items), NEW i \in DOMAIN s
  PROVE  TurnAt(s \o t, i) = TurnAt(s, i)
<1> DEFINE U(q) == {j \in 1 .. i : q[j].kind = "user"}
<1>1. DOMAIN s = 1 .. Len(s) /\ Len(s) \in Nat
      /\ \A j \in DOMAIN s : (s \o t)[j] = s[j]
  BY ConcatIndices
<1>2. \A j \in 1 .. i : j \in DOMAIN s
  BY <1>1
<1>3. \A j \in 1 .. i : (s \o t)[j] = s[j]
  BY <1>1, <1>2
<1>4. U(s \o t) = U(s)
  BY <1>3
<1>5. CASE U(s) = {}
  BY <1>4, <1>5 DEF TurnAt
<1>6. CASE U(s) # {}
  <2>1. i \in Nat /\ U(s) \in SUBSET (1 .. i)
    BY <1>1
  <2>2. Max(U(s)) \in U(s)
    BY <1>6, <2>1, LastPosition
  <2>3. (s \o t)[Max(U(s))].val = s[Max(U(s))].val
    BY <1>3, <2>2
  <2>4. QED  BY <1>4, <1>6, <2>3 DEF TurnAt
<1>7. QED  BY <1>5, <1>6

\* After the last user item every item belongs to its turn.
LEMMA TurnAtTail ==
  ASSUME NEW s \in Seq(Items), NEW t \in Seq(Items), NEW j \in DOMAIN t,
         \A h \in DOMAIN t : t[h].kind # "user"
  PROVE  TurnAt(s \o t, Len(s) + j) = LastOf(s, "user")
<1> DEFINE i == Len(s) + j
           U == {h \in 1 .. i : (s \o t)[h].kind = "user"}
           at == {h \in DOMAIN s : s[h].kind = "user"}
<1>1. /\ DOMAIN s = 1 .. Len(s) /\ Len(s) \in Nat /\ j \in Nat \ {0}
      /\ \A h \in DOMAIN s : (s \o t)[h] = s[h]
  BY ConcatIndices
<1>0. \A k \in DOMAIN (s \o t) : k \in DOMAIN s \/ \E g \in DOMAIN t : k = Len(s) + g
  BY ConcatIndices
<1>2. ASSUME NEW h \in 1 .. i, (s \o t)[h].kind = "user" PROVE h \in at
  <2>1. s \o t \in Seq(Items) /\ i \in DOMAIN (s \o t)
    BY ConcatIndices
  <2>2. h \in DOMAIN (s \o t)
    <3>1. DOMAIN (s \o t) = 1 .. Len(s \o t) /\ Len(s \o t) \in Nat
      BY <2>1, LenProperties
    <3>2. QED  BY <2>1, <3>1
  <2>3. CASE h \in DOMAIN s
    BY <1>1, <1>2, <2>3
  <2>4. ASSUME NEW g \in DOMAIN t, h = Len(s) + g PROVE FALSE
    <3>1. (s \o t)[h] = t[g]
      BY <2>4, ConcatIndices
    <3>2. QED  BY <1>2, <2>4, <3>1
  <2>5. h \in DOMAIN s \/ \E g \in DOMAIN t : h = Len(s) + g
    BY <1>0, <2>2, Zenon
  <2>6. QED  BY <2>3, <2>4, <2>5
<1>3. ASSUME NEW h \in at PROVE h \in U
  <2>1. h \in 1 .. i
    BY <1>1
  <2>2. QED  BY <1>1, <2>1
<1>4. U = at
  BY <1>2, <1>3
<1>5. CASE at = {}
  BY <1>4, <1>5 DEF TurnAt, LastOf
<1>6. CASE at # {}
  <2>1. at \in SUBSET (1 .. Len(s))
    BY <1>1
  <2>2. Max(at) \in at
    BY <1>1, <1>6, <2>1, LastPosition
  <2>3. (s \o t)[Max(at)].val = s[Max(at)].val
    BY <1>1, <2>2
  <2>4. QED  BY <1>4, <1>6, <2>3 DEF TurnAt, LastOf
<1>7. QED  BY <1>5, <1>6

\* Items without steered input can follow anything.
LEMMA SteeredNoSteer ==
  ASSUME NEW s \in Seq(Items), NEW t \in Seq(Items), Steered(s),
         \A j \in DOMAIN t : t[j].kind # "steer"
  PROVE  Steered(s \o t)
<1> SUFFICES ASSUME NEW i \in DOMAIN (s \o t), (s \o t)[i].kind = "steer"
             PROVE  (s \o t)[i].val \in {0, TurnAt(s \o t, i)}
  BY DEF Steered
<1>1. CASE i \in DOMAIN s
  <2>1. (s \o t)[i] = s[i] /\ TurnAt(s \o t, i) = TurnAt(s, i)
    BY <1>1, ConcatIndices, TurnAtPrefix
  <2>2. QED  BY <1>1, <2>1 DEF Steered
<1>2. ASSUME NEW j \in DOMAIN t, i = Len(s) + j PROVE FALSE
  BY <1>2, ConcatIndices
<1>3. QED  BY <1>1, <1>2, ConcatIndices

\* What fits the turn can follow its prompt.
LEMMA SteeredFits ==
  ASSUME NEW s \in Seq(Items), NEW t \in Seq(Items), Steered(s),
         LastOf(s, "user") = turnID, Fits(t)
  PROVE  Steered(s \o t)
<1> SUFFICES ASSUME NEW i \in DOMAIN (s \o t), (s \o t)[i].kind = "steer"
             PROVE  (s \o t)[i].val \in {0, TurnAt(s \o t, i)}
  BY DEF Steered
<1>1. CASE i \in DOMAIN s
  <2>1. (s \o t)[i] = s[i] /\ TurnAt(s \o t, i) = TurnAt(s, i)
    BY <1>1, ConcatIndices, TurnAtPrefix
  <2>2. QED  BY <1>1, <2>1 DEF Steered
<1>2. ASSUME NEW j \in DOMAIN t, i = Len(s) + j
      PROVE  (s \o t)[i].val \in {0, TurnAt(s \o t, i)}
  <2>1. (s \o t)[i] = t[j]
    BY <1>2, ConcatIndices
  <2>2. \A h \in DOMAIN t : t[h].kind # "user"
    BY DEF Fits, TurnKinds
  <2>3. TurnAt(s \o t, i) = turnID
    BY <1>2, <2>2, TurnAtTail
  <2>4. QED  BY <2>1, <2>3 DEF Fits
<1>3. QED  BY <1>1, <1>2, ConcatIndices

LEMMA FitsConcat ==
  ASSUME NEW s \in Seq(Items), NEW t \in Seq(Items), Fits(s), Fits(t)
  PROVE  Fits(s \o t)
<1> DEFINE Fit(e) == e.kind \in TurnKinds /\ (e.kind = "steer" => e.val \in {0, turnID})
<1>1. (\A i \in DOMAIN s : Fit(s[i])) /\ (\A i \in DOMAIN t : Fit(t[i]))
  BY DEF Fits
<1>2. ASSUME NEW k \in DOMAIN (s \o t) PROVE Fit((s \o t)[k])
  <2> HIDE DEF Fit
  <2>1. CASE k \in DOMAIN s
    BY <1>1, <2>1, ConcatIndices
  <2>2. ASSUME NEW j \in DOMAIN t, k = Len(s) + j PROVE Fit((s \o t)[k])
    BY <1>1, <2>2, ConcatIndices
  <2>3. QED  BY <2>1, <2>2, ConcatIndices
<1>3. QED  BY <1>2 DEF Fits

\* Steered input is where its sender wanted it, in the history and in the
\* prompt; what the turn has added and what waits for it is the turn's.
SteerInv ==
  /\ Steered(history)
  /\ Active => Steered(turn.base) /\ LastOf(turn.base, "user") = turnID
  /\ Fits(turn.work) /\ Fits(pending)

\* A turn starts with its user item; what comes before that is not steered.
LEMMA PromptSteered ==
  ASSUME SessionAssumption, BudgetAssumption, ChannelInv, DataInv, Steered(history),
         NEW next \in Contexts, Starts(next)
  PROVE  /\ Steered(history') /\ Steered(turn'.base)
         /\ LastOf(turn'.base, "user") = turnID'
<1> DEFINE C == ContextItems(next)
           u == Item("user", turnID')
<1>1. /\ turnID' \in Nat /\ history' \in Seq(Items) /\ C \in Seq(Items)
      /\ <<u>> \in Seq(Items) /\ turn'.base = history' \o C \o <<u>>
  BY PromptEffect
<1>2. Steered(history')
  <2>1. /\ Reminder \in Seq(Items) /\ history' = history \o Reminder
        /\ \A i \in DOMAIN Reminder : Reminder[i] = Item("reminder", ReminderIndex(budget))
    BY RemindEffect DEF Starts, DataInv
  <2>2. \A i \in DOMAIN Reminder : Reminder[i].kind # "steer"
    BY <2>1 DEF Item
  <2>3. QED  BY <2>1, <2>2, SteeredNoSteer DEF DataInv
<1>3. history' \o C \in Seq(Items) /\ Steered(history' \o C)
  <2>1. \A n \in DOMAIN C : C[n].kind \notin ItemKinds
    BY ContextItemsShape
  <2>2. \A n \in DOMAIN C : C[n].kind # "steer"
    BY <2>1 DEF ItemKinds
  <2>3. Steered(history' \o C)
    BY <1>1, <1>2, <2>2, SteeredNoSteer
  <2>4. QED  BY <1>1, <2>3, ConcatIndices
<1>4. DOMAIN <<u>> = {1} /\ <<u>>[1] = u /\ u.kind = "user" /\ u.val = turnID'
  BY DEF Item
<1>5. Steered(turn'.base)
  <2>1. \A j \in DOMAIN <<u>> : <<u>>[j].kind # "steer"
    BY <1>4
  <2>2. Steered((history' \o C) \o <<u>>)
    BY <1>1, <1>3, <2>1, SteeredNoSteer
  <2>3. QED  BY <1>1, <2>2
<1>6. LastOf(turn'.base, "user") = turnID'
  <2>1. \E j \in DOMAIN <<u>> : <<u>>[j].kind = "user"
    BY <1>4
  <2>2. \A j \in DOMAIN <<u>> : <<u>>[j].kind = "user" => <<u>>[j].val = turnID'
    BY <1>4
  <2>3. LastOf((history' \o C) \o <<u>>, "user") = turnID'
    <3> DEFINE s == history' \o C
               t == <<u>>
    <3>1. s \in Seq(Items) /\ t \in Seq(Items)
      BY <1>1, <1>3
    <3>2. PICK h \in DOMAIN t : t[h].kind = "user"
      BY <2>1
    <3>3. t[h].val = turnID' /\ \A j \in DOMAIN t : t[j].kind = "user" => t[j].val = t[h].val
      BY <2>2, <3>2
    <3> HIDE DEF s, t
    <3>4. LastOf(s \o t, "user") = t[h].val
      BY <3>1, <3>2, <3>3, LastOfAfter
    <3>5. QED  BY <3>3, <3>4 DEF s, t
  <2>4. QED  BY <1>1, <2>3
<1>7. QED  BY <1>2, <1>5, <1>6

LEMMA SteerStep ==
  ASSUME SessionAssumption, BudgetAssumption, ChannelInv, DataInv, SteerInv, [Next]_vars
  PROVE  SteerInv'
<1>0. /\ history \in Seq(Items) /\ pending \in Seq(Items)
      /\ turn.base \in Seq(Items) /\ turn.work \in Seq(Items)
  BY DEF DataInv, Turns
<1>00. Fits(<<>>)
  BY DEF Fits
<1>1. CASE Quiet
  BY <1>1 DEF Quiet, SteerInv, Active, Steered, Fits
<1>2. ASSUME NEW item, RecordsNote(item) PROVE SteerInv'
  <2>1. item \in Items /\ item.kind # "steer"
    BY <1>2, NotesAreItems DEF RecordsNote, Notes
  <2>2. Steered(history \o <<item>>)
    <3>1. \A j \in DOMAIN <<item>> : <<item>>[j].kind # "steer"
      BY <2>1
    <3>2. QED  BY <1>0, <2>1, <3>1, One, SteeredNoSteer DEF SteerInv
  <2>3. history' = history \o <<item>>
    BY <1>0, <1>2, <2>1, One DEF RecordsNote
  <2>4. Steered(history)'
    BY <2>2, <2>3 DEF Steered
  <2>5. QED  BY <1>2, <2>4 DEF RecordsNote, SteerInv, Active, Steered, Fits
<1>3. ASSUME NEW item, QueuesInput(item) PROVE SteerInv'
  <2>1. item \in Items
    BY <1>3, QueuedIsItem
  <2>2. item.kind \in TurnKinds /\ (item.kind = "steer" => item.val \in {0, turnID})
    BY <1>3 DEF QueuesInput, Notes, Item, TurnKinds
  <2>3. Fits(<<item>>)
    BY <2>2 DEF Fits
  <2>4. Fits(pending \o <<item>>)
    BY <1>0, <2>1, <2>3, One, FitsConcat DEF SteerInv
  <2>5. pending' = pending \o <<item>>
    BY <1>0, <1>3, <2>1, One DEF QueuesInput
  <2>6. Fits(pending)'
    BY <1>3, <2>4, <2>5 DEF Fits, QueuesInput
  <2>7. QED  BY <1>3, <2>6 DEF QueuesInput, SteerInv, Active, Steered, Fits
<1>4. CASE Refuses
  <2>1. /\ Reminder \in Seq(Items) /\ history' = history \o Reminder
        /\ \A i \in DOMAIN Reminder : Reminder[i] = Item("reminder", ReminderIndex(budget))
    BY <1>4, RemindEffect DEF Refuses, DataInv
  <2>2. \A i \in DOMAIN Reminder : Reminder[i].kind # "steer"
    BY <2>1 DEF Item
  <2>3. Steered(history \o Reminder)
    BY <1>0, <2>1, <2>2, SteeredNoSteer DEF SteerInv
  <2>4. Steered(history)'
    BY <2>1, <2>3 DEF Steered
  <2>5. QED  BY <1>4, <2>4 DEF Refuses, SteerInv, Active, Steered, Fits
<1>5. ASSUME NEW next \in Contexts, Starts(next) PROVE SteerInv'
  <2>1. /\ Steered(history') /\ Steered(turn'.base)
        /\ LastOf(turn'.base, "user") = turnID'
    BY <1>5, PromptSteered DEF SteerInv
  <2>2. turn'.work = <<>> /\ pending' = <<>>
    BY <1>5, PromptEffect
  <2>3. Fits(turn.work)' /\ Fits(pending)'
    BY <2>2 DEF Fits
  <2>4. QED  BY <2>1, <2>3 DEF SteerInv, Steered
<1>6. ASSUME NEW tokens \in Usages, Works(tokens) PROVE SteerInv'
  <2>1. Item("work", 0) \in Items
    BY ItemIsItem DEF ItemKinds
  <2>2. Fits(<<Item("work", 0)>>)
    BY DEF Fits, Item, TurnKinds
  <2>3. Fits(turn.work \o <<Item("work", 0)>>)
    BY <1>0, <2>1, <2>2, One, FitsConcat DEF SteerInv
  <2>4. turn'.work = turn.work \o <<Item("work", 0)>> /\ turn'.base = turn.base
    <3>1. turn'.work = Append(turn.work, Item("work", 0)) /\ turn'.base = turn.base
      BY <1>6 DEF Works, DataInv, Turns
    <3>2. QED  BY <1>0, <2>1, <3>1, One
  <2>5. Fits(turn.work)'
    BY <1>6, <2>3, <2>4 DEF Fits, Works
  <2>6. QED  BY <1>6, <2>4, <2>5 DEF Works, SteerInv, Active, Steered, Fits
<1>7. CASE Drains
  <2>1. Fits(turn.work \o pending)
    BY <1>0, FitsConcat DEF SteerInv
  <2>2. turn'.work = turn.work \o pending /\ turn'.base = turn.base /\ pending' = <<>>
    BY <1>7 DEF Drains, DataInv, Turns
  <2>3. Fits(turn.work)' /\ Fits(pending)'
    BY <1>7, <2>1, <2>2 DEF Fits, Drains
  <2>4. QED  BY <1>7, <2>2, <2>3 DEF Drains, SteerInv, Active, Steered
<1>8. CASE Ends
  <2> DEFINE tail == <<Item("work", 0), Item("marker", 0)>>
  <2>1. tail \in Seq(Items)
    <3>1. Item("work", 0) \in Items /\ Item("marker", 0) \in Items
      BY ItemIsItem DEF ItemKinds
    <3>2. QED  BY <3>1
  <2>2. \A j \in DOMAIN tail : tail[j].kind # "steer"
    BY DEF Item
  <2>3. Steered(turn.base) /\ LastOf(turn.base, "user") = turnID
    BY <1>8 DEF Ends, SteerInv
  <2>4. Steered(turn.base \o tail)
    <3> HIDE DEF tail
    <3>1. QED  BY <1>0, <2>1, <2>2, <2>3, SteeredNoSteer
  <2>5. Steered(turn.base \o turn.work)
    BY <1>0, <2>3, SteeredFits DEF SteerInv
  <2>6. history' \in {history, turn.base \o tail, turn.base \o turn.work}
    BY <1>8 DEF Ends, durable
  <2>7. Steered(history')
    <3> HIDE DEF tail
    <3>1. QED  BY <2>4, <2>5, <2>6 DEF SteerInv
  <2>8. ~Active' /\ turn'.work = <<>> /\ pending' = <<>>
    BY <1>8 DEF Ends, NoTurn, Active
  <2>9. QED  BY <2>7, <2>8 DEF SteerInv, Fits, Steered
<1>9. QED
  BY <1>1, <1>2, <1>3, <1>4, <1>5, <1>6, <1>7, <1>8, Steps

LEMMA SteerInit == Init => SteerInv
<1> SUFFICES ASSUME Init PROVE SteerInv
  OBVIOUS
<1>1. DataInv
  BY SessionAssumption, BudgetAssumption, DataInit
<1>2. Steered(history)
  <2> DEFINE Item1(f) == IF baseline[f] = 0 THEN <<>> ELSE <<Item(f, baseline[f])>>
  <2>1. history = Item1("instructions") \o Item1("environment")
    BY DEF Init
  <2>2. ASSUME NEW f \in Fragments
        PROVE  Item1(f) \in Seq(Items)
               /\ \A j \in DOMAIN Item1(f) : Item1(f)[j].kind # "steer"
    <3>1. CASE baseline[f] = 0
      BY <3>1, EmptySeq
    <3>2. CASE baseline[f] # 0
      <4>1. Item1(f) = <<Item(f, baseline[f])>>
        BY <3>2
      <4>2. Item(f, baseline[f]).kind = f /\ f # "steer" /\ f \in ItemKinds
        BY DEF Item, Fragments, ItemKinds
      <4>3. baseline[f] \in Nat
        <5>1. baseline[f] \in Texts \cup {0}
          BY DEF Init
        <5>2. \A v \in Texts : v \in Nat
          BY SessionAssumption DEF SessionAssumption
        <5>3. QED  BY <3>2, <5>1, <5>2
      <4>4. Item(f, baseline[f]) \in Items
        BY <4>2, <4>3, ItemIsItem
      <4>5. QED  BY <4>1, <4>2, <4>4, One
    <3>3. QED  BY <3>1, <3>2
  <2>3. "instructions" \in Fragments /\ "environment" \in Fragments
    BY DEF Fragments
  <2>4. QED
    <3> HIDE DEF Item1
    <3>1. Item1("instructions") \in Seq(Items) /\ Item1("environment") \in Seq(Items)
      BY <2>2, <2>3
    <3>2. ASSUME NEW i \in DOMAIN history PROVE history[i].kind # "steer"
      BY <2>1, <2>2, <2>3, <3>1, ConcatIndices
    <3>3. QED  BY <3>2 DEF Steered
<1>3. ~Active /\ turn.work = <<>> /\ pending = <<>>
  BY DEF Init, Active, NoTurn
<1>4. QED  BY <1>2, <1>3 DEF SteerInv, Fits

LEMMA SteerInvariant == Spec => []SteerInv
<1>1. Init => SteerInv
  BY SteerInit
<1>2. ChannelInv /\ DataInv /\ SteerInv /\ [Next]_vars => SteerInv'
  BY SessionAssumption, BudgetAssumption, SteerStep
<1>3. QED  BY <1>1, <1>2, TypeInvariant, PTL DEF Spec

\* Input that names its turn is only ever found in that turn: in the history,
\* in the transcript of the turn that runs, and in what waits for it.
THEOREM SteeringStays == Spec => []SteeringStaysInItsTurn
<1>1. DataInv /\ SteerInv => SteeringStaysInItsTurn
  <2> SUFFICES ASSUME DataInv, SteerInv PROVE Steered(Transcript)
    BY DEF SteeringStaysInItsTurn, Steered
  <2>1. CASE ~Active
    BY <2>1 DEF Transcript, SteerInv
  <2>2. CASE Active
    <3>1. turn.base \in Seq(Items) /\ turn.work \in Seq(Items) /\ pending \in Seq(Items)
      BY DEF DataInv, Turns
    <3>2. Steered(turn.base) /\ LastOf(turn.base, "user") = turnID
      BY <2>2 DEF SteerInv
    <3>3. Steered(turn.base \o turn.work)
      BY <3>1, <3>2, SteeredFits DEF SteerInv
    <3>4. LastOf(turn.base \o turn.work, "user") = turnID
      <4>1. \A j \in DOMAIN turn.work : turn.work[j].kind # "user"
        BY DEF SteerInv, Fits, TurnKinds
      <4>2. QED  BY <3>1, <3>2, <4>1, LastOfBefore
    <3>5. turn.base \o turn.work \in Seq(Items)
      BY <3>1, ConcatIndices
    <3>6. Steered((turn.base \o turn.work) \o pending)
      BY <3>1, <3>3, <3>4, <3>5, SteeredFits DEF SteerInv
    <3>7. QED  BY <2>2, <3>6 DEF Transcript
  <2>3. QED  BY <2>1, <2>2
<1>2. QED  BY <1>1, TypeInvariant, SteerInvariant, PTL

-----------------------------------------------------------------------------
(***************************************************************************)
(* What the model was shown.                                               *)
(***************************************************************************)
\* The history shows the context and the reminder the session remembers; the
\* prompt of the active turn shows the context of the turn, and its reminder is
\* the one for all the tokens used.
ShownInv ==
  /\ ContextWasShown
  /\ Active => \A k \in DOMAIN turn.context : LastOf(turn.base, k) = turn.context[k]
  /\ budget.reminded >= 0 => LastOf(history, "reminder") = budget.reminded
  /\ Limit > 0 => budget.reminded <= ReminderIndex(budget)
  /\ Active /\ Limit > 0 => budget.reminded = ReminderIndex(budget)
  /\ Active => LastOf(turn.base, "reminder") = LastOf(history, "reminder")

\* A key is no other kind of item.
LEMMA KeyKinds ==
  ASSUME SessionAssumption, NEW next \in Contexts, NEW k \in DOMAIN next
  PROVE  k \notin ItemKinds
<1>1. PICK i \in DOMAIN Keys : Keys[i] = k
  BY DEF Contexts
<1>2. Keys[i] \in STRING \ ItemKinds
  BY LenProperties DEF SessionAssumption
<1>3. QED  BY <1>1, <1>2

\* What follows the prompt of a turn shows no context and is no reminder.
LEMMA OthersAfter ==
  ASSUME NEW s \in Seq(Items), NEW t \in Seq(Items), NEW k,
         k \notin ItemKinds \/ k = "reminder",
         \A j \in DOMAIN t : t[j].kind \in ItemKinds \ {"reminder"}
  PROVE  LastOf(s \o t, k) = LastOf(s, k)
<1>1. \A j \in DOMAIN t : t[j].kind # k
  OBVIOUS
<1>2. QED  BY <1>1, LastOfBefore

\* A reminder changes what the history says of reminders, and of nothing else.
LEMMA RemindShows ==
  ASSUME SessionAssumption, BudgetAssumption, DataInv, ShownInv, Remind, UNCHANGED context
  PROVE  /\ ContextWasShown'
         /\ budget'.reminded >= 0 => LastOf(history', "reminder") = budget'.reminded
         /\ Limit > 0 => budget'.reminded = ReminderIndex(budget')
<1>1. /\ Reminder \in Seq(Items) /\ history' = history \o Reminder
      /\ ReminderIndex(budget') = ReminderIndex(budget)
      /\ \A i \in DOMAIN Reminder : Reminder[i] = Item("reminder", ReminderIndex(budget))
      /\ NeedsReminder(budget) =>
           1 \in DOMAIN Reminder /\ budget'.reminded = ReminderIndex(budget)
      /\ ~NeedsReminder(budget) => Reminder = <<>> /\ budget' = budget
  BY RemindEffect DEF DataInv
<1>2. history \in Seq(Items)
  BY DEF DataInv
<1>3. \A i \in DOMAIN Reminder : Reminder[i].kind = "reminder"
                                 /\ Reminder[i].val = ReminderIndex(budget)
  BY <1>1 DEF Item
<1>4. ASSUME NEW k \in DOMAIN context PROVE LastOf(history', k) = context[k]
  <2>1. k \notin ItemKinds
    BY KeyKinds DEF DataInv
  <2>2. \A i \in DOMAIN Reminder : Reminder[i].kind # k
    BY <1>3, <2>1 DEF ItemKinds
  <2>3. LastOf(history', k) = LastOf(history, k)
    BY <1>1, <1>2, <2>2, LastOfBefore
  <2>4. QED  BY <2>3 DEF ShownInv, ContextWasShown
<1>5. ContextWasShown'
  BY <1>4 DEF ContextWasShown, LastOf
<1>6. CASE NeedsReminder(budget)
  <2>1. \E i \in DOMAIN Reminder : Reminder[i].kind = "reminder"
    BY <1>1, <1>3, <1>6
  <2>2. LastOf(history \o Reminder, "reminder") = ReminderIndex(budget)
    <3> DEFINE v == ReminderIndex(budget)
               t == Reminder
    <3>1. t \in Seq(Items)
      BY <1>1
    <3>2. PICK h \in DOMAIN t : t[h].kind = "reminder"
      BY <2>1
    <3>3. t[h].val = v /\ \A i \in DOMAIN t : t[i].kind = "reminder" => t[i].val = t[h].val
      BY <1>3, <3>2
    <3> HIDE DEF v, t
    <3>4. LastOf(history \o t, "reminder") = t[h].val
      BY <1>2, <3>1, <3>2, <3>3, LastOfAfter
    <3>5. QED  BY <3>3, <3>4 DEF v, t
  <2>3. QED  BY <1>1, <1>5, <1>6, <2>2
<1>7. CASE ~NeedsReminder(budget)
  <2>1. history' = history
    BY <1>1, <1>2, <1>7, ConcatEmptySeq
  <2>2. Limit > 0 => budget.reminded = ReminderIndex(budget)
    <3>1. budget.reminded \in Int /\ ReminderIndex(budget) \in Int
      <4>1. budget.used \in Nat /\ budget.reminded \in -1 .. Cardinality(Thresholds)
        BY DEF DataInv, Budgets
      <4>2. budget.used <= budget.used
        BY <4>1
      <4>3. ReminderIndex(budget) \in 0 .. Cardinality(Thresholds)
        BY <4>1, <4>2, Reminders
      <4>4. QED  BY <4>1, <4>3
    <3>2. QED  BY <1>7, <3>1 DEF NeedsReminder, ShownInv
  <2>3. QED  BY <1>1, <1>5, <1>7, <2>1, <2>2 DEF ShownInv
<1>8. QED  BY <1>6, <1>7

\* The prompt shows the whole context of the turn: what is new or differs at
\* its end, and the rest since earlier turns.
LEMMA PromptShows ==
  ASSUME SessionAssumption, BudgetAssumption, ChannelInv, DataInv, ShownInv,
         NEW next \in Contexts, Starts(next)
  PROVE  /\ \A k \in DOMAIN next : LastOf(turn'.base, k) = next[k]
         /\ LastOf(turn'.base, "reminder") = LastOf(history', "reminder")
<1> DEFINE C == ContextItems(next)
           u == <<Item("user", turnID')>>
<1>1. /\ history' \in Seq(Items) /\ C \in Seq(Items) /\ u \in Seq(Items)
      /\ turn'.base = history' \o C \o u
  BY PromptEffect
<1>2. history' \o C \in Seq(Items)
  BY <1>1, ConcatIndices
<1>3. \A j \in DOMAIN u : u[j].kind = "user"
  BY DEF Item
<1>4. \A n \in DOMAIN C : C[n].kind \notin ItemKinds
  BY ContextItemsShape
<1>5. ASSUME NEW k, k # "user"
      PROVE  LastOf(turn'.base, k) = LastOf(history' \o C, k)
  <2>1. \A j \in DOMAIN u : u[j].kind # k
    BY <1>3, <1>5
  <2>2. LastOf((history' \o C) \o u, k) = LastOf(history' \o C, k)
    <3> HIDE DEF C, u
    <3>1. QED  BY <1>1, <1>2, <2>1, LastOfBefore
  <2>3. QED  BY <1>1, <2>2
<1>6. LastOf(turn'.base, "reminder") = LastOf(history', "reminder")
  <2>1. \A n \in DOMAIN C : C[n].kind # "reminder"
    BY <1>4 DEF ItemKinds
  <2>2. LastOf(history' \o C, "reminder") = LastOf(history', "reminder")
    <3> HIDE DEF C
    <3>1. QED  BY <1>1, <2>1, LastOfBefore
  <2>3. QED  BY <1>5, <2>2
<1>7. ASSUME NEW k \in DOMAIN next PROVE LastOf(turn'.base, k) = next[k]
  <2>1. k \notin ItemKinds /\ k # "user"
    <3>1. k \notin ItemKinds
      BY KeyKinds
    <3>2. QED  BY <3>1 DEF ItemKinds
  <2>2. CASE Changed(next, k)
    <3>1. \E n \in DOMAIN C : C[n].kind = k
      BY <2>2, ContextItemsShape
    <3>2. \A n \in DOMAIN C : C[n].kind = k => C[n].val = next[k]
      BY ContextItemsShape
    <3>3. LastOf(history' \o C, k) = next[k]
      <4> DEFINE v == next[k]
                 s == history'
                 t == C
      <4>1. s \in Seq(Items) /\ t \in Seq(Items)
        BY <1>1
      <4>2. PICK n \in DOMAIN t : t[n].kind = k
        BY <3>1
      <4>3. t[n].val = v /\ \A j \in DOMAIN t : t[j].kind = k => t[j].val = t[n].val
        BY <3>2, <4>2
      <4> HIDE DEF v, s, t
      <4>4. LastOf(s \o t, k) = t[n].val
        BY <4>1, <4>2, <4>3, LastOfAfter
      <4>5. QED  BY <4>3, <4>4 DEF v, s, t
    <3>4. QED  BY <1>5, <2>1, <3>3
  <2>3. CASE ~Changed(next, k)
    <3>1. k \in DOMAIN context /\ context[k] = next[k]
      BY <2>3 DEF Changed
    <3>2. LastOf(history', k) = context'[k] /\ context' = context
      <4>1. Remind /\ UNCHANGED context
        BY DEF Starts
      <4>2. ContextWasShown'
        BY <4>1, RemindShows
      <4>3. QED  BY <3>1, <4>1, <4>2 DEF ContextWasShown, LastOf
    <3>3. \A n \in DOMAIN C : C[n].kind # k
      BY <2>3, ContextItemsShape
    <3>4. LastOf(history' \o C, k) = LastOf(history', k)
      <4> HIDE DEF C
      <4>1. QED  BY <1>1, <3>3, LastOfBefore
    <3>5. QED  BY <1>5, <2>1, <3>1, <3>2, <3>4
  <2>4. QED  BY <2>2, <2>3
<1>8. QED  BY <1>6, <1>7

\* An ended turn leaves in the history what its prompt showed, and no less.
LEMMA EndShows ==
  ASSUME SessionAssumption, BudgetAssumption, DataInv, SteerInv, ShownInv, Ends
  PROVE  ShownInv'
<1> DEFINE tail == <<Item("work", 0), Item("marker", 0)>>
<1>0. Active /\ turn.base \in Seq(Items) /\ turn.work \in Seq(Items)
      /\ turn.context \in Contexts /\ turn.usage \in Nat /\ budget \in Budgets
  BY DEF Ends, DataInv, Turns
<1>1. ~Active'
  BY DEF Ends, Active
<1>2. tail \in Seq(Items) /\ \A j \in DOMAIN tail : tail[j].kind \in ItemKinds \ {"reminder"}
  <2>1. Item("work", 0) \in Items /\ Item("marker", 0) \in Items
    BY ItemIsItem DEF ItemKinds
  <2>2. tail \in Seq(Items)
    BY <2>1
  <2>3. \A j \in DOMAIN tail : tail[j].kind \in {"work", "marker"}
    BY DEF Item
  <2>4. {"work", "marker"} \subseteq ItemKinds \ {"reminder"}
    BY DEF ItemKinds
  <2>5. QED  BY <2>2, <2>3, <2>4
<1>3. \A j \in DOMAIN turn.work : turn.work[j].kind \in ItemKinds \ {"reminder"}
  <2>1. TurnKinds \subseteq ItemKinds \ {"reminder"}
    BY DEF TurnKinds, ItemKinds
  <2>2. QED  BY <2>1 DEF SteerInv, Fits
<1>4. /\ budget'.reminded = budget.reminded
      /\ Limit > 0 => budget'.reminded <= ReminderIndex(budget')
  <2>1. CASE UNCHANGED budget
    BY <2>1 DEF ShownInv
  <2>2. CASE budget' = Charge(budget, turn.usage)
    <3>1. /\ budget'.reminded = budget.reminded
          /\ ReminderIndex(budget) <= ReminderIndex(budget')
      BY <1>0, <2>2, ChargeEffect
    <3>2. budget.reminded \in Int /\ budget.used \in Nat /\ budget'.used \in Nat
      <4>1. budget' \in Budgets
        BY <1>0, <2>2, ChargeEffect
      <4>2. QED  BY <1>0, <4>1 DEF Budgets
    <3>3. ReminderIndex(budget) \in Int /\ ReminderIndex(budget') \in Int
      <4>1. budget.used <= budget.used /\ budget'.used <= budget'.used
        BY <3>2
      <4>2. ReminderIndex(budget) \in 0 .. Cardinality(Thresholds)
            /\ ReminderIndex(budget') \in 0 .. Cardinality(Thresholds)
        BY <3>2, <4>1, Reminders
      <4>3. QED  BY <4>2
    <3>4. QED  BY <3>1, <3>2, <3>3 DEF ShownInv
  <2>3. QED  BY <2>1, <2>2 DEF Ends, durable
<1>5. ASSUME NEW t \in Seq(Items),
             \A j \in DOMAIN t : t[j].kind \in ItemKinds \ {"reminder"},
             history' = turn.base \o t, context' = turn.context
      PROVE  ShownInv'
  <2>1. ASSUME NEW k \in DOMAIN turn.context PROVE LastOf(history', k) = turn.context[k]
    <3>1. k \notin ItemKinds
      BY <1>0, KeyKinds
    <3>2. LastOf(turn.base \o t, k) = LastOf(turn.base, k)
      BY <1>0, <1>5, <3>1, OthersAfter
    <3>3. QED  BY <1>0, <1>5, <3>2 DEF ShownInv
  <2>2. LastOf(history', "reminder") = LastOf(history, "reminder")
    <3>1. LastOf(turn.base \o t, "reminder") = LastOf(turn.base, "reminder")
      BY <1>0, <1>5, OthersAfter
    <3>2. QED  BY <1>0, <1>5, <3>1 DEF ShownInv
  <2>3. ContextWasShown'
    BY <1>5, <2>1 DEF ContextWasShown, LastOf
  <2>4. budget'.reminded >= 0 => LastOf(history', "reminder") = budget'.reminded
    BY <1>4, <2>2 DEF ShownInv
  <2>5. QED
    BY <1>1, <1>4, <2>3, <2>4 DEF ShownInv, LastOf
<1>6. CASE UNCHANGED durable
  <2>1. UNCHANGED <<history, context, budget>>
    BY <1>6 DEF durable
  <2>2. QED
    BY <1>1, <2>1 DEF ShownInv, ContextWasShown, LastOf, ReminderIndex, Remaining
<1>7. CASE history' = turn.base \o tail /\ context' = turn.context
  <2> HIDE DEF tail
  <2>1. QED  BY <1>2, <1>5, <1>7
<1>8. CASE history' = turn.base \o turn.work /\ context' = turn.context
  BY <1>0, <1>3, <1>5, <1>8
<1>9. QED  BY <1>6, <1>7, <1>8 DEF Ends

\* What the session keeps to itself: nothing ShownInv speaks of.
LEMMA ShownSame ==
  ASSUME ShownInv, UNCHANGED <<history, context, budget, turnID>>,
         turn'.base = turn.base, turn'.context = turn.context
  PROVE  ShownInv'
<1>1. /\ \A k : LastOf(history', k) = LastOf(history, k)
      /\ \A k : LastOf(turn'.base, k) = LastOf(turn.base, k)
      /\ ReminderIndex(budget') = ReminderIndex(budget)
      /\ Active' <=> Active
  BY DEF Active
<1>2. ContextWasShown'
  BY <1>1 DEF ShownInv, ContextWasShown, LastOf
<1>3. Active' => \A k \in DOMAIN turn'.context : LastOf(turn'.base, k) = turn'.context[k]
  BY <1>1 DEF ShownInv
<1>4. /\ budget'.reminded >= 0 => LastOf(history', "reminder") = budget'.reminded
      /\ Active' => LastOf(turn'.base, "reminder") = LastOf(history', "reminder")
  BY <1>1 DEF ShownInv
<1>5. /\ Limit > 0 => budget'.reminded <= ReminderIndex(budget')
      /\ Active' /\ Limit > 0 => budget'.reminded = ReminderIndex(budget')
  BY <1>1 DEF ShownInv
<1>6. QED  BY <1>2, <1>3, <1>4, <1>5 DEF ShownInv, LastOf

LEMMA ShownStep ==
  ASSUME SessionAssumption, BudgetAssumption, ChannelInv, DataInv, SteerInv, ShownInv,
         [Next]_vars
  PROVE  ShownInv'
<1>1. CASE Quiet
  BY <1>1, ShownSame DEF Quiet
<1>2. ASSUME NEW item, RecordsNote(item) PROVE ShownInv'
  <2>1. /\ ~Active /\ item \in Items /\ history \in Seq(Items)
        /\ UNCHANGED <<context, budget, turnID>>
    BY <1>2, NotesAreItems DEF RecordsNote, DataInv
  <2>2. history' = history \o <<item>>
    BY <1>2, <2>1, One DEF RecordsNote
  <2>3. \A j \in DOMAIN <<item>> : <<item>>[j].kind \in ItemKinds \ {"reminder"}
    <3>1. item.kind \in {"note", "instructions", "environment"}
      BY <1>2 DEF RecordsNote, Notes
    <3>2. {"note", "instructions", "environment"} \subseteq ItemKinds \ {"reminder"}
      BY DEF ItemKinds
    <3>3. QED  BY <3>1, <3>2
  <2>4. ASSUME NEW k, k \notin ItemKinds \/ k = "reminder"
        PROVE  LastOf(history', k) = LastOf(history, k)
    <3> DEFINE t == <<item>>
    <3>1. t \in Seq(Items)
      BY <2>1, One
    <3> HIDE DEF t
    <3>2. LastOf(history \o t, k) = LastOf(history, k)
      BY <2>1, <2>3, <2>4, <3>1, OthersAfter DEF t
    <3>3. QED  BY <2>2, <3>2 DEF t
  <2>5. ASSUME NEW k \in DOMAIN context PROVE LastOf(history', k) = context[k]
    <3>1. k \notin ItemKinds
      BY KeyKinds DEF DataInv
    <3>2. QED  BY <2>4, <3>1 DEF ShownInv, ContextWasShown
  <2>6. LastOf(history', "reminder") = LastOf(history, "reminder")
    BY <2>4
  <2>7. ContextWasShown'
    BY <2>1, <2>5 DEF ContextWasShown, LastOf
  <2>8. budget'.reminded >= 0 => LastOf(history', "reminder") = budget'.reminded
    BY <2>1, <2>6 DEF ShownInv
  <2>9. Limit > 0 => budget'.reminded <= ReminderIndex(budget')
    BY <2>1 DEF ShownInv, ReminderIndex, Remaining
  <2>10. ~Active'
    BY <2>1 DEF Active
  <2>11. QED
    BY <2>7, <2>8, <2>9, <2>10 DEF ShownInv, LastOf
<1>3. ASSUME NEW item, QueuesInput(item) PROVE ShownInv'
  BY <1>3, ShownSame DEF QueuesInput
<1>4. CASE Refuses
  <2>1. /\ ContextWasShown'
        /\ budget'.reminded >= 0 => LastOf(history', "reminder") = budget'.reminded
        /\ Limit > 0 => budget'.reminded = ReminderIndex(budget')
    BY <1>4, RemindShows DEF Refuses
  <2>2. Limit > 0 => budget'.reminded <= ReminderIndex(budget')
    <3>1. budget' \in Budgets
      BY <1>4, RemindEffect DEF Refuses, DataInv
    <3>2. budget'.reminded \in Int
      BY <3>1 DEF Budgets
    <3>3. QED  BY <2>1, <3>2
  <2>3. ~Active'
    BY <1>4 DEF Refuses, Active
  <2>4. QED  BY <2>1, <2>2, <2>3 DEF ShownInv, LastOf
<1>5. ASSUME NEW next \in Contexts, Starts(next) PROVE ShownInv'
  <2>1. /\ ContextWasShown'
        /\ budget'.reminded >= 0 => LastOf(history', "reminder") = budget'.reminded
        /\ Limit > 0 => budget'.reminded = ReminderIndex(budget')
    BY <1>5, RemindShows DEF Starts
  <2>2. Limit > 0 => budget'.reminded <= ReminderIndex(budget')
    <3>1. budget' \in Budgets
      BY <1>5, RemindEffect DEF Starts, DataInv
    <3>2. budget'.reminded \in Int
      BY <3>1 DEF Budgets
    <3>3. QED  BY <2>1, <3>2
  <2>3. /\ \A k \in DOMAIN next : LastOf(turn'.base, k) = next[k]
        /\ LastOf(turn'.base, "reminder") = LastOf(history', "reminder")
    BY <1>5, PromptShows
  <2>4. turn'.context = next
    BY <1>5, PromptEffect
  <2>5. QED  BY <2>1, <2>2, <2>3, <2>4 DEF ShownInv, LastOf
<1>6. ASSUME NEW tokens \in Usages, Works(tokens) PROVE ShownInv'
  <2>1. turn'.base = turn.base /\ turn'.context = turn.context
    BY <1>6 DEF Works, DataInv, Turns
  <2>2. QED  BY <1>6, <2>1, ShownSame DEF Works
<1>7. CASE Drains
  <2>1. turn'.base = turn.base /\ turn'.context = turn.context
    BY <1>7 DEF Drains, DataInv, Turns
  <2>2. QED  BY <1>7, <2>1, ShownSame DEF Drains
<1>8. CASE Ends
  BY <1>8, EndShows
<1>9. QED
  BY <1>1, <1>2, <1>3, <1>4, <1>5, <1>6, <1>7, <1>8, Steps

LEMMA ShownInit == Init => ShownInv
<1> SUFFICES ASSUME Init PROVE ShownInv
  OBVIOUS
<1>1. ~Active /\ DOMAIN context = {} /\ budget.reminded = -1 /\ budget.used = 0
  BY DEF Init, Active, EmptyContext, NewBudget
<1>2. ReminderIndex(budget) \in 0 .. Cardinality(Thresholds)
  <2>1. budget.used \in Nat /\ budget.used <= budget.used
    BY <1>1
  <2>2. QED  BY <2>1, BudgetAssumption, Reminders
<1>3. -1 <= ReminderIndex(budget) /\ ~(-1 >= 0)
  BY <1>2
<1>4. QED  BY <1>1, <1>3 DEF ShownInv, ContextWasShown

\* Additional context that the session no longer sends, and the budget reminder
\* it no longer repeats, are in the history the model is given, over every turn
\* that failed, was cut short or was refused.
THEOREM ShownOnce == Spec => []BaselinesWereShown
<1>1. Init => ShownInv
  BY ShownInit
<1>2. ChannelInv /\ DataInv /\ SteerInv /\ ShownInv /\ [Next]_vars => ShownInv'
  BY SessionAssumption, BudgetAssumption, ShownStep
<1>3. DataInv /\ ShownInv => BaselinesWereShown
  <2> SUFFICES ASSUME DataInv, ShownInv, Active, Limit > 0
               PROVE  LastOf(turn.base, "reminder") = ReminderIndex(budget)
    BY DEF BaselinesWereShown, ReminderPrecedesTurn, ShownInv
  <2>1. budget.used \in Nat /\ budget.reminded = ReminderIndex(budget)
    BY DEF DataInv, Budgets, ShownInv
  <2>2. budget.used <= budget.used
    BY <2>1
  <2>3. ReminderIndex(budget) \in 0 .. Cardinality(Thresholds)
    BY <2>1, <2>2, BudgetAssumption, Reminders
  <2>4. budget.reminded >= 0
    BY <2>1, <2>3
  <2>5. QED  BY <2>1, <2>4 DEF ShownInv
<1>4. QED  BY <1>1, <1>2, <1>3, TypeInvariant, SteerInvariant, PTL DEF Spec

-----------------------------------------------------------------------------
(***************************************************************************)
(* The ledger.                                                             *)
(***************************************************************************)
LEMMA PrefixOfConcat ==
  ASSUME NEW S, NEW s \in Seq(S), NEW t \in Seq(S)
  PROVE  Len(s) <= Len(s \o t) /\ SubSeq(s, 1, Len(s)) = SubSeq(s \o t, 1, Len(s))
<1>1. Len(s \o t) = Len(s) + Len(t) /\ Len(s) \in Nat /\ Len(t) \in Nat
  BY ConcatProperties, LenProperties
<1>2. SubSeq(s \o t, 1, Len(s)) = SubSeq(s, 1, Len(s))
  <2>1. CASE Len(s) = 0
    <3>1. \A q : SubSeq(q, 1, Len(s)) = <<>>
      BY <2>1, SubSeqEmpty
    <3>2. QED  BY <3>1
  <2>2. CASE Len(s) > 0
    <3>1. 1 \in 1 .. Len(s) /\ Len(s) \in 1 .. Len(s)
      BY <1>1, <2>2
    <3>2. QED  BY <3>1, SubSeqOfConcat1
  <2>3. Len(s) = 0 \/ Len(s) > 0
    BY <1>1
  <2>4. QED  BY <2>1, <2>2, <2>3
<1>3. QED  BY <1>1, <1>2

\* To append at least one item is to extend strictly.
LEMMA StrictlyLonger ==
  ASSUME NEW S, NEW s \in Seq(S), NEW t \in Seq(S), t # <<>>
  PROVE  s \o t # s
<1>1. Len(s \o t) = Len(s) + Len(t) /\ Len(s) \in Nat /\ Len(t) \in Nat
  BY ConcatProperties, LenProperties
<1>2. Len(t) # 0
  BY EmptySeq
<1>3. QED  BY <1>1, <1>2

LEMMA AppendsLast ==
  ASSUME NEW s \in Seq(Items), NEW e \in Items
  PROVE  Append(s, e) # <<>> /\ Append(s, e) = Append(s, Ledger!Last(Append(s, e)))
<1>1. /\ Len(Append(s, e)) = Len(s) + 1 /\ Len(s) \in Nat
      /\ Append(s, e)[Len(s) + 1] = e
  BY AppendProperties, LenProperties
<1>2. Append(s, e) # <<>>
  <2>1. Len(<<>>) = 0
    BY EmptySeq
  <2>2. Len(s) + 1 # 0
    BY <1>1
  <2>3. QED  BY <1>1, <2>1, <2>2
<1>3. Ledger!Last(Append(s, e)) = e
  BY <1>1 DEF Ledger!Last
<1>4. QED  BY <1>2, <1>3

LEMMA ClosedBetweenTurns ==
  ASSUME DataInv, ~Active
  PROVE  Ledger!Closed
BY DEF DataInv, NoTurn, Ledger!Closed

\* A turn opens with the whole ledger, which a reminder may have extended.
LEMMA StartOpens ==
  ASSUME SessionAssumption, BudgetAssumption, ChannelInv, DataInv,
         NEW next \in Contexts, Starts(next)
  PROVE  Ledger!Open
<1> DEFINE C == ContextItems(next)
           u == <<Item("user", turnID')>>
<1>1. /\ turnID' # 0 /\ pending' = <<>> /\ turn'.work = <<>>
      /\ history' \in Seq(Items) /\ C \in Seq(Items) /\ u \in Seq(Items)
      /\ turn'.base = history' \o C \o u
  BY PromptEffect
<1>2. Ledger!Closed
  BY ClosedBetweenTurns DEF Starts
<1>3. Ledger!IsPrefix(history, history')
  <2>1. /\ Reminder \in Seq(Items) /\ history' = history \o Reminder
        /\ history \in Seq(Items)
    BY RemindEffect DEF Starts, DataInv
  <2>2. QED  BY <2>1, PrefixOfConcat DEF Ledger!IsPrefix
<1>4. Ledger!IsStrictPrefix(history', turn'.base)
  <2>1. C \o u \in Seq(Items) /\ C \o u # <<>>
    <3>1. Len(C \o u) = Len(C) + Len(u) /\ Len(C) \in Nat /\ Len(u) = 1
      <4>1. Len(u) = 1
        OBVIOUS
      <4>2. QED  BY <1>1, <4>1, ConcatProperties, LenProperties
    <3>2. C \o u \in Seq(Items)
      BY <1>1, ConcatIndices
    <3>3. QED  BY <3>1, <3>2, EmptySeq
  <2>2. turn'.base = history' \o (C \o u)
    BY <1>1, ConcatAssociative
  <2> DEFINE tail == C \o u
             h == history'
  <2>3. h \in Seq(Items) /\ tail \in Seq(Items) /\ tail # <<>> /\ turn'.base = h \o tail
    BY <1>1, <2>1, <2>2
  <2> HIDE DEF tail, h
  <2>4. Ledger!IsStrictPrefix(h, turn'.base)
    BY <2>3, PrefixOfConcat, StrictlyLonger DEF Ledger!IsStrictPrefix, Ledger!IsPrefix
  <2>5. QED  BY <2>4 DEF h
<1>5. (turnID' # 0) = TRUE /\ context' = context
  BY <1>1 DEF Starts
<1>6. QED  BY <1>1, <1>2, <1>3, <1>4, <1>5 DEF Ledger!Open, Active

\* The session keeps its ledger: whatever its callers, its queue and the runner
\* do, the durable history is only extended, between turns or by the end of a
\* turn; accepted input enters the turn's work in order and once; and the items
\* of a turn become durable all together, with the context they show, or not
\* at all.
THEOREM KeepsLedger == Spec => ImplementsLedger
<1>1. Init => Ledger!Init
  <2> SUFFICES ASSUME Init PROVE Ledger!Closed
    BY DEF Ledger!Init
  <2>1. QED  BY DEF Init, Active, NoTurn, Ledger!Closed
<1>2. ChannelInv /\ DataInv /\ DataInv' /\ [Next]_vars => [Ledger!Next]_(Ledger!vars)
  <2> SUFFICES ASSUME ChannelInv, DataInv, DataInv', [Next]_vars
               PROVE  Ledger!Next \/ UNCHANGED Ledger!vars
    OBVIOUS
  <2>0. /\ history \in Seq(Items) /\ pending \in Seq(Items)
        /\ turn.base \in Seq(Items) /\ turn.work \in Seq(Items)
    BY DEF DataInv, Turns
  <2>1. CASE Quiet
    BY <2>1 DEF Quiet, Ledger!vars, Ledger!turn, Active
  <2>2. ASSUME NEW item, RecordsNote(item) PROVE Ledger!Next
    <3>1. item \in Items /\ <<item>> \in Seq(Items) /\ history' = history \o <<item>>
      BY <2>0, <2>2, NotesAreItems, One DEF RecordsNote
    <3>2. Ledger!IsPrefix(history, history')
      BY <2>0, <3>1, PrefixOfConcat DEF Ledger!IsPrefix
    <3>3. Ledger!Closed /\ Ledger!Closed'
      BY <2>2, ClosedBetweenTurns DEF RecordsNote, Ledger!Closed, Active
    <3>4. Ledger!Write
      BY <2>2, <3>2, <3>3 DEF RecordsNote, Ledger!Write
    <3>5. QED  BY <3>4 DEF Ledger!Next
  <2>3. ASSUME NEW item, QueuesInput(item) PROVE Ledger!Next
    <3>1. item \in Items
      BY <2>3, QueuedIsItem
    <3>2. pending' # <<>> /\ pending' = Append(pending, Ledger!Last(pending'))
      BY <2>0, <2>3, <3>1, AppendsLast DEF QueuesInput
    <3>3. Ledger!Accept
      BY <2>3, <3>2 DEF QueuesInput, Ledger!Accept, Active
    <3>4. QED  BY <3>3 DEF Ledger!Next
  <2>4. CASE Refuses
    <3>1. /\ Reminder \in Seq(Items) /\ history' = history \o Reminder
      BY <2>4, BudgetAssumption, RemindEffect DEF Refuses, DataInv
    <3>2. Ledger!IsPrefix(history, history')
      BY <2>0, <3>1, PrefixOfConcat DEF Ledger!IsPrefix
    <3>3. Ledger!Closed /\ Ledger!Closed'
      BY <2>4, ClosedBetweenTurns DEF Refuses, Ledger!Closed, Active
    <3>4. Ledger!Write
      BY <2>4, <3>2, <3>3 DEF Refuses, Ledger!Write
    <3>5. QED  BY <3>4 DEF Ledger!Next
  <2>5. ASSUME NEW next \in Contexts, Starts(next) PROVE Ledger!Next
    BY <2>5, SessionAssumption, BudgetAssumption, StartOpens DEF Ledger!Next
  <2>6. ASSUME NEW tokens \in Usages, Works(tokens) PROVE Ledger!Next
    <3>1. Item("work", 0) \in Items
      BY ItemIsItem DEF ItemKinds
    <3>2. /\ turn'.base = turn.base /\ turn'.context = turn.context
          /\ turn'.work = Append(turn.work, Item("work", 0))
      BY <2>6 DEF Works, DataInv, Turns
    <3>3. turn'.work # <<>> /\ turn'.work = Append(turn.work, Ledger!Last(turn'.work))
      BY <2>0, <3>1, <3>2, AppendsLast
    <3>4. Ledger!Respond
      BY <2>6, <3>2, <3>3 DEF Works, Ledger!Respond, Active
    <3>5. QED  BY <3>4 DEF Ledger!Next
  <2>7. CASE Drains
    <3>1. /\ turn'.base = turn.base /\ turn'.context = turn.context
          /\ turn'.work = turn.work \o pending
      BY <2>7 DEF Drains, DataInv, Turns
    <3>2. Ledger!Take
      BY <2>7, <3>1 DEF Drains, Ledger!Take, Active
    <3>3. QED  BY <3>2 DEF Ledger!Next
  <2>8. CASE Ends
    <3> DEFINE tail == <<Item("work", 0), Item("marker", 0)>>
    <3>1. Active /\ ~Active'
      BY <2>8 DEF Ends, Active
    <3>2. Ledger!Closed'
      BY <2>8, <3>1 DEF Ends, NoTurn, Ledger!Closed
    <3>3. CASE UNCHANGED durable
      BY <3>1, <3>2, <3>3 DEF durable, Ledger!Drop, Ledger!Next
    <3>4. CASE history' = turn.base \o tail /\ context' = turn.context
      <4>1. tail \in Seq(Items) /\ tail # <<>>
        <5>1. Item("work", 0) \in Items /\ Item("marker", 0) \in Items
          BY ItemIsItem DEF ItemKinds
        <5>2. QED  BY <5>1
      <4>2. Ledger!IsStrictPrefix(turn.base, history')
        <5> HIDE DEF tail
        <5>1. QED
          BY <2>0, <3>4, <4>1, PrefixOfConcat, StrictlyLonger
          DEF Ledger!IsStrictPrefix, Ledger!IsPrefix
      <4>3. QED  BY <3>1, <3>2, <3>4, <4>2 DEF Ledger!CutShort, Ledger!Next
    <3>5. CASE history' = turn.base \o turn.work /\ context' = turn.context
      BY <3>1, <3>2, <3>5 DEF Ledger!Keep, Ledger!Next
    <3>6. QED  BY <2>8, <3>3, <3>4, <3>5 DEF Ends
  <2>9. QED
    BY <2>1, <2>2, <2>3, <2>4, <2>5, <2>6, <2>7, <2>8, SessionAssumption, Steps
<1>3. QED  BY <1>1, <1>2, TypeInvariant, PTL DEF Spec, ImplementsLedger, Ledger!Spec

=============================================================================
