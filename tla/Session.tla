------------------------------- MODULE Session -------------------------------
(***************************************************************************)
(* A session, internal/session/session.go: the durable history, the one    *)
(* active turn, and the queue of input that arrives while it runs.  Every  *)
(* public method holds s.mu while it touches the session, except that      *)
(* SubmitUserInput lets go of it while the runner works and                *)
(* SteerUserInputWithOptions while it prepares the item.                   *)
(*                                                                         *)
(* The runner is the part of RunTurnWithOptions (module TurnLoop) that the *)
(* session sees: it extends the turn's transcript, asks for the activity   *)
(* channel, drains the queue and returns.                                  *)
(***************************************************************************)
EXTENDS RolloutBudget, Positions, SequencesExt

CONSTANTS
  MaxPending,  \* maxPendingInputItems, 16 in the code
  Steerers,    \* goroutines that steer
  MaxTurns,    \* bound on submitted turns
  MaxInputs,   \* bound on inputs steered or recorded
  MaxWork,     \* bound on model responses, over all turns
  Usages,      \* the tokens a response may cost
  Texts,       \* texts of context instructions, of environments, of context
  Keys         \* additional-context keys, in their sorted order

\* The kinds of item that are no additional context; an item of additional
\* context has its key for a kind.
ItemKinds == {"user", "steer", "work", "marker", "note", "reminder",
              "instructions", "environment"}

ASSUME SessionAssumption ==
  /\ MaxPending \in Nat /\ MaxTurns \in Nat /\ MaxInputs \in Nat /\ MaxWork \in Nat
  /\ Usages \subseteq Nat /\ Texts \subseteq Nat \ {0}
  /\ Keys \in Seq(STRING \ ItemKinds)

Fragments == {"instructions", "environment"}

VARIABLES
  turnID,      \* activeTurnID, 0 when no turn is active
  nextID,      \* nextID
  history,     \* history
  baseline,    \* contextInstructions and environmentContext, 0 for nil
  context,     \* activeContext
  budget,      \* rolloutBudget
  pending,     \* pendingInput
  notify,      \* pendingInputNotify: the channel's number, 0 for nil
  signaled,    \* pendingInputSignaled
  closed,      \* the channels that have been closed
  channels,    \* how many channels were made
  phase,       \* how far the active turn's SubmitUserInput has come
  turn,        \* the active turn: its prompt history, transcript, context, usage
  watch,       \* the channel the turn's running tools watch, 0 for none
  steerer,     \* each steering goroutine: where it is and what it expects
  inputs,      \* counter of inputs
  responses    \* counter of completed responses

durable == <<history, context, budget>>
queue   == <<pending, notify, signaled, closed, channels>>
running == <<turnID, nextID, phase, turn, watch>>
others  == <<baseline, steerer, inputs>>
vars    == <<durable, queue, running, others, responses>>

Active == turnID # 0

\* A user item carries its turn, a steered one the turn its sender expected
\* (0 for any), a fragment its text, a reminder its index.
Item(k, v) == [kind |-> k, val |-> v]
Items == [kind : ItemKinds \cup {Keys[i] : i \in DOMAIN Keys}, val : Nat]

EmptyContext == [k \in {} |-> 0]

NoTurn == [base |-> <<>>, work |-> <<>>, context |-> EmptyContext, usage |-> 0]

TypeOK ==
  /\ turnID \in 0 .. MaxTurns /\ nextID \in 1 .. (MaxTurns + 1)
  /\ turnID < nextID
  /\ history \in Seq(Items)
  /\ baseline \in [Fragments -> Texts \cup {0}]
  /\ DOMAIN context \subseteq {Keys[i] : i \in DOMAIN Keys}
  /\ budget \in Budgets
  /\ pending \in Seq(Items) /\ Len(pending) <= MaxPending
  /\ notify \in 0 .. channels /\ (notify = 0 <=> ~Active)
  /\ signaled \in BOOLEAN
  /\ closed \subseteq 1 .. channels
  /\ phase \in {"idle", "starting", "running", "closing"}
  /\ phase = "idle" <=> ~Active
  /\ turn.base \in Seq(Items) /\ turn.work \in Seq(Items)
  /\ watch \in 0 .. channels
  /\ steerer \in [Steerers -> [checked : BOOLEAN, expects : 0 .. MaxTurns]]

\* New with the instructions and the environment configured or not.
Init ==
  /\ turnID = 0 /\ nextID = 1
  /\ baseline \in [Fragments -> Texts \cup {0}]
  /\ LET Item1(f) == IF baseline[f] = 0 THEN <<>> ELSE <<Item(f, baseline[f])>>
     IN  history = Item1("instructions") \o Item1("environment")
  /\ context = EmptyContext /\ budget = NewBudget
  /\ pending = <<>> /\ notify = 0 /\ signaled = FALSE /\ closed = {} /\ channels = 0
  /\ phase = "idle" /\ turn = NoTurn /\ watch = 0
  /\ steerer = [c \in Steerers |-> [checked |-> FALSE, expects |-> 0]]
  /\ inputs = 0 /\ responses = 0

-----------------------------------------------------------------------------
(***************************************************************************)
(* The queue of pending input.                                             *)
(***************************************************************************)
\* close(pendingInputNotify), once per channel.
Signal ==
  /\ signaled' = (signaled \/ notify # 0)
  /\ closed' = IF ~signaled /\ notify # 0 THEN closed \cup {notify} ELSE closed
  /\ UNCHANGED <<notify, channels>>

Enqueue(item) ==
  /\ pending' = Append(pending, item)
  /\ Signal

\* finishActiveTurn, inlined in SubmitUserInput where the turn aborts or ends.
FinishActiveTurn ==
  /\ turnID' = 0 /\ phase' = "idle" /\ turn' = NoTurn /\ watch' = 0
  /\ pending' = <<>> /\ notify' = 0 /\ signaled' = FALSE
  /\ UNCHANGED <<nextID, closed, channels>>

\* Mutated form: a contextual item always goes to the durable history.
AppendToHistory(item) ==
  /\ history' = Append(history, item)
  /\ UNCHANGED queue

\* appendContextualUserItemLocked: into the queue of the active turn, or else
\* straight into the durable history.
AppendContextualUserItem(item) ==
  \/ /\ Active
     /\ Len(pending) < MaxPending
     /\ Enqueue(item)
     /\ UNCHANGED history
  \/ /\ ~Active
     /\ history' = Append(history, item)
     /\ UNCHANGED queue

NextInput == inputs < MaxInputs /\ inputs' = inputs + 1

\* RecordUserShellCommand and RecordSubagentNotification.
Record ==
  /\ NextInput
  /\ AppendContextualUserItem(Item("note", 0))
  /\ UNCHANGED <<context, budget, running, baseline, steerer, responses>>

\* SetContextInstructions and SetEnvironmentContext: nothing to append when
\* the baseline already has this text.
SetFragment(f, text) ==
  /\ NextInput
  /\ IF baseline[f] = text
       THEN UNCHANGED <<history, queue, baseline>>
       ELSE /\ AppendContextualUserItem(Item(f, text))
            /\ baseline' = [baseline EXCEPT ![f] = text]
  /\ UNCHANGED <<context, budget, running, steerer, responses>>

\* ClearContextInstructions tells the model, ClearEnvironmentContext does not.
ClearFragment(f) ==
  /\ NextInput
  /\ baseline[f] # 0
  /\ baseline' = [baseline EXCEPT ![f] = 0]
  /\ IF f = "instructions" THEN AppendContextualUserItem(Item(f, 0))
                           ELSE UNCHANGED <<history, queue>>
  /\ UNCHANGED <<context, budget, running, steerer, responses>>

(***************************************************************************)
(* SteerUserInputWithOptions, in its two critical sections.                *)
(***************************************************************************)
MaySteer(expects) ==
  /\ Active
  /\ expects \in {0, turnID}
  /\ Len(pending) < MaxPending

SteerCheck(c, expects) ==
  /\ ~steerer[c].checked
  /\ MaySteer(expects)
  /\ NextInput
  /\ steerer' = [steerer EXCEPT ![c] = [checked |-> TRUE, expects |-> expects]]
  /\ UNCHANGED <<durable, queue, running, baseline, responses>>

Leave(c) == steerer' = [steerer EXCEPT ![c].checked = FALSE]

\* Mutated form: the second critical section does not repeat the checks.
SteerQueueUnchecked(c) ==
  /\ steerer[c].checked
  /\ Leave(c)
  /\ IF Active THEN Enqueue(Item("steer", steerer[c].expects))
               ELSE UNCHANGED queue
  /\ UNCHANGED <<durable, running, baseline, inputs, responses>>

SteerQueue(c) ==
  /\ steerer[c].checked
  /\ Leave(c)
  /\ IF MaySteer(steerer[c].expects)
       THEN Enqueue(Item("steer", steerer[c].expects))
       ELSE UNCHANGED queue
  /\ UNCHANGED <<durable, running, baseline, inputs, responses>>

-----------------------------------------------------------------------------
(***************************************************************************)
(* SubmitUserInput.  A submission while a turn is active, and one with the *)
(* budget exhausted, is refused and leaves the session as it was.          *)
(***************************************************************************)
Changed(next, k) == k \in DOMAIN next /\ ~(k \in DOMAIN context /\ context[k] = next[k])

ChangedKeys(next) == {i \in DOMAIN Keys : Changed(next, Keys[i])}

\* additionalContextItemsLocked: the entries that are new or differ, sorted.
ContextItems(next) ==
  LET keys == Pick(Keys, ChangedKeys(next))
  IN  [n \in DOMAIN keys |-> Item(keys[n], next[keys[n]])]

Reminder == IF NeedsReminder(budget) THEN <<Item("reminder", ReminderIndex(budget))>>
                                     ELSE <<>>

Remind ==
  /\ history' = history \o Reminder
  /\ budget' = IF NeedsReminder(budget) THEN Reminded(budget) ELSE budget
  /\ nextID' = nextID + 1

MaySubmit == ~Active /\ ~budget.exhausted /\ nextID <= MaxTurns

Contexts ==
  UNION {[S -> Texts] : S \in SUBSET {Keys[i] : i \in DOMAIN Keys}}

Submit(next) ==
  /\ MaySubmit
  /\ Remind
  /\ turnID' = nextID
  /\ phase' = "starting"
  /\ turn' = [base    |-> history' \o ContextItems(next) \o <<Item("user", nextID)>>,
              work    |-> <<>>,
              context |-> next,
              usage   |-> 0]
  /\ channels' = channels + 1 /\ notify' = channels'
  /\ pending' = <<>> /\ signaled' = FALSE
  /\ UNCHANGED <<context, closed, watch, others, responses>>

\* developerMessagesLocked cannot read the clock: the reminder stays.
SubmitFails ==
  /\ MaySubmit
  /\ Remind
  /\ channels' = channels + 1
  /\ UNCHANGED <<context, pending, notify, signaled, closed>>
  /\ UNCHANGED <<turnID, phase, turn, watch, others, responses>>

\* OnTurnStarted and its client event were published.
TurnStarts ==
  /\ phase = "starting"
  /\ phase' = "running"
  /\ UNCHANGED <<durable, queue, turnID, nextID, turn, watch, others, responses>>

\* A completed response and the results of its tools.
RunnerResponds(tokens) ==
  /\ phase = "running"
  /\ responses < MaxWork
  /\ responses' = responses + 1
  /\ turn' = [turn EXCEPT !.work = Append(@, Item("work", 0)),
                          !.usage = @ + tokens]
  /\ UNCHANGED <<durable, queue, turnID, nextID, phase, watch, others>>

\* pendingInputActivity, called for a tool that waits for pending input.
RunnerWatches ==
  /\ phase = "running"
  /\ watch' = notify
  /\ UNCHANGED <<durable, queue, turnID, nextID, phase, turn, others, responses>>

\* Mutated form: the flag of the closed channel is left standing.
DrainKeepsSignal ==
  /\ phase = "running"
  /\ pending' = <<>>
  /\ IF pending = <<>>
       THEN /\ phase' \in {"running", "closing"}
            /\ UNCHANGED <<turn, notify, signaled, channels>>
       ELSE /\ turn' = [turn EXCEPT !.work = @ \o pending]
            /\ channels' = channels + 1 /\ notify' = channels'
            /\ UNCHANGED <<phase, signaled>>
  /\ watch' = 0
  /\ UNCHANGED <<durable, closed, turnID, nextID, others, responses>>

\* Mutated form: the flag is reset and the closed channel kept.
DrainKeepsChannel ==
  /\ phase = "running"
  /\ pending' = <<>>
  /\ IF pending = <<>>
       THEN /\ phase' \in {"running", "closing"}
            /\ UNCHANGED <<turn, notify, signaled, channels>>
       ELSE /\ turn' = [turn EXCEPT !.work = @ \o pending]
            /\ UNCHANGED <<notify, channels>>
            /\ signaled' = FALSE
            /\ UNCHANGED phase
  /\ watch' = 0
  /\ UNCHANGED <<durable, closed, turnID, nextID, others, responses>>

\* drainPendingInput, at the end of each sampling request, when its tools are
\* gone.  Drained input makes the turn go on; without it the turn may end.
DrainPendingInput ==
  /\ phase = "running"
  /\ pending' = <<>>
  /\ IF pending = <<>>
       THEN /\ phase' \in {"running", "closing"}
            /\ UNCHANGED <<turn, notify, signaled, channels>>
       ELSE /\ turn' = [turn EXCEPT !.work = @ \o pending]
            /\ channels' = channels + 1 /\ notify' = channels'
            /\ signaled' = FALSE
            /\ UNCHANGED phase
  /\ watch' = 0
  /\ UNCHANGED <<durable, closed, turnID, nextID, others, responses>>

\* Mutated form: the failed turn's context counts as shown to the model.
TurnFailsWithContext ==
  /\ Active
  /\ context' = turn.context
  /\ FinishActiveTurn
  /\ UNCHANGED <<history, budget, others, responses>>

\* An error of the sink, of the runner or of OnTurnCompleted.
TurnFails ==
  /\ Active
  /\ FinishActiveTurn
  /\ UNCHANGED <<durable, others, responses>>

\* The runner returned a TurnAbortedError with the interrupted attempt and the
\* turn-aborted marker.
TurnAborts ==
  /\ phase = "running"
  /\ history' = turn.base \o <<Item("work", 0), Item("marker", 0)>>
  /\ context' = turn.context
  /\ FinishActiveTurn
  /\ UNCHANGED <<budget, others, responses>>

TurnCompletes ==
  /\ phase = "closing"
  /\ history' = turn.base \o turn.work
  /\ context' = turn.context
  /\ budget' = Charge(budget, turn.usage)
  /\ FinishActiveTurn
  /\ UNCHANGED <<others, responses>>

-----------------------------------------------------------------------------
Next ==
  \/ Record
  \/ \E f \in Fragments, text \in Texts : SetFragment(f, text)
  \/ \E f \in Fragments : ClearFragment(f)
  \/ \E c \in Steerers, expects \in 0 .. (nextID - 1) : SteerCheck(c, expects)
  \/ \E c \in Steerers : SteerQueue(c)
  \/ \E next \in Contexts : Submit(next)
  \/ SubmitFails
  \/ TurnStarts
  \/ \E tokens \in Usages : RunnerResponds(tokens)
  \/ RunnerWatches
  \/ DrainPendingInput
  \/ TurnFails
  \/ TurnAborts
  \/ TurnCompletes

Spec == Init /\ [][Next]_vars

-----------------------------------------------------------------------------
(***************************************************************************)
(* Properties.                                                             *)
(***************************************************************************)

\* A session keeps the ledger of SessionLedger, whatever its callers, its queue
\* and the runner do: while a turn runs nothing but its end touches the durable
\* history, accepted input enters the turn's work in order and once, and what
\* becomes durable is all of a completed turn, nothing of a failed one, and of an
\* aborted one what it was asked and a part the runner kept, each time with the
\* context it shows.
Ledger == INSTANCE SessionLedger WITH
  ledger  <- history,
  shown   <- context,
  open    <- Active,
  asked   <- turn.base,
  work    <- turn.work,
  showing <- turn.context,
  queue   <- pending

ImplementsLedger == Ledger!Spec

\* A tool that watches the activity channel of this turn sees it closed as
\* soon as there is pending input, whoever queued it and whenever the channel
\* was replaced.
WatcherIsWoken == watch # 0 /\ pending # <<>> => watch \in closed

\* The flag and the channel it stands for never disagree; closing a closed
\* channel would panic.
SignalMatchesChannel == Active => (signaled <=> notify \in closed)

\* The transcript the model sees or will see.
Transcript == IF Active THEN turn.base \o turn.work \o pending ELSE history

\* The turn an item at position i of s belongs to.
TurnAt(s, i) ==
  LET users == {j \in 1 .. i : s[j].kind = "user"}
  IN  IF users = {} THEN 0 ELSE s[Max(users)].val

\* "stale expected-turn steering is rejected before it can attach to a newer
\* turn": an input that names its turn is only ever found in that turn.
SteeringStaysInItsTurn ==
  \A i \in DOMAIN Transcript :
    Transcript[i].kind = "steer" => Transcript[i].val \in {0, TurnAt(Transcript, i)}

LastOf(s, k) == LET at == {i \in DOMAIN s : s[i].kind = k}
                IN  IF at = {} THEN 0 ELSE s[Max(at)].val

\* Additional context is suppressed only while the model has it: the last item
\* of an active key carries its active value, over failed and aborted turns.
ContextWasShown == \A k \in DOMAIN context : LastOf(history, k) = context[k]

\* A turn starts with the model told of every budget threshold crossed so far.
ReminderPrecedesTurn ==
  Active /\ Limit > 0 => LastOf(turn.base, "reminder") = ReminderIndex(budget)

\* What the session believes the model has been shown is in the history.
BaselinesWereShown == ContextWasShown /\ ReminderPrecedesTurn

-----------------------------------------------------------------------------
(***************************************************************************)
(* What docs and comments claim and the code does not keep.                *)
(***************************************************************************)
\* Input queued during a turn is "appended at the next safe model-continuation
\* boundary"; "it is not committed if the active turn fails before that point".
\* This turn does not fail.
CompletedTurnKeepsInput ==
  [][phase = "closing" /\ history' # history => pending = <<>>]_vars

\* SetContextInstructions stays silent "when model-visible scope/text did not
\* change".
InstructionsAreVisible ==
  ~Active => LastOf(history, "instructions") = baseline["instructions"]

=============================================================================
