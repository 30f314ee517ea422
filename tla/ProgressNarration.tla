-------------------------- MODULE ProgressNarration --------------------------
(***************************************************************************)
(* progressNarrator and bufferedSink of internal/runner/runner.go, around  *)
(* one sampling attempt: the receiver publishes its own events; pieces of  *)
(* work (waiting for the model, checking policy, running a tool) register  *)
(* with the narrator; every registration and every removal that leaves     *)
(* other work schedules a timer goroutine, which publishes a narration     *)
(* when the delay has passed, unless its generation is over.               *)
(*                                                                         *)
(* Time is abstract: a timer may fire at any moment.  With model retries   *)
(* configured the events go to a bufferedSink, whose slice of calls is     *)
(* appended to by the receiver and the timers without a lock: the append   *)
(* of a timer reads the slice, then stores the longer one.  (The           *)
(* receiver's append is one step: in two it could only lose narrations.)   *)
(***************************************************************************)
EXTENDS Naturals, Sequences

CONSTANTS
  Works,       \* the pieces of work of an attempt
  ProgressKeys,\* what work is entered under: call id, else tool name, else phase
  KeyChoices,  \* the ways the work may share keys
  None,
  MaxEvents,   \* bound on the receiver's own events
  BufferedChoices, \* is there a bufferedSink? (MaxModelRetries > 0)
  Repeats      \* RepeatInterval > 0

ASSUME NarrationAssumption ==
  /\ None \notin Works
  /\ None \notin ProgressKeys
  /\ KeyChoices \subseteq [Works -> ProgressKeys]
  /\ MaxEvents \in Nat
  /\ BufferedChoices \subseteq BOOLEAN
  /\ Repeats \in BOOLEAN

\* The goroutine scheduled when a piece of work starts, and when it stops.
Timers == Works \X {"start", "stop"}

VARIABLES
  key,        \* the key of each piece of work
  active,     \* n.active: the work entered under each key
  generation, \* n.generation
  closed,     \* n.closed
  work,       \* where each piece of work is
  token,      \* the generation a timer goroutine was, or will be, given
  timer,      \* where each timer goroutine is
  event,      \* the narration a timer has built: the work it tells of
  done,       \* the turn's context is done
  recv,       \* where the receiver is
  sent,       \* how many events the receiver has published
  buffered,   \* the attempt publishes to a bufferedSink
  calls,      \* bufferedSink.calls, as a log
  loaded,     \* the slice each timer has read and not yet stored
  delivered   \* what reached the client's sink, as a log

narrator == <<key, active, generation, closed>>
sink     == <<buffered, calls, loaded, delivered>>
vars == <<narrator, work, token, timer, event, done, recv, sent, sink>>

\* Published events: the receiver's own in order, and whether there were
\* narrations among them.  (Narrations repeat without bound.)
Log == [own : Seq(1 .. MaxEvents), narrated : BOOLEAN]
Idle == None \* a timer that has nothing loaded
EmptyLog == [own |-> <<>>, narrated |-> FALSE]

TypeOK ==
  /\ key \in KeyChoices
  /\ active \in [ProgressKeys -> Works \cup {None}]
  /\ generation \in Nat
  /\ closed \in BOOLEAN
  /\ work \in [Works -> {"idle", "working", "over"}]
  /\ token \in [Timers -> Nat]
  /\ timer \in [Timers -> {"none", "waiting", "firing", "failed", "over"}]
  /\ event \in [Timers -> SUBSET Works]
  /\ done \in BOOLEAN
  /\ recv \in {"receiving", "completed", "failed", "flushed"}
  /\ sent \in 0 .. MaxEvents
  /\ buffered \in BOOLEAN
  /\ calls \in Log
  /\ loaded \in [Timers -> Log \cup {Idle}]
  /\ delivered \in Log

Init ==
  /\ key \in KeyChoices
  /\ active = [k \in ProgressKeys |-> None]
  /\ generation = 0
  /\ closed = FALSE
  /\ work = [w \in Works |-> "idle"]
  /\ token = [g \in Timers |-> 0]
  /\ timer = [g \in Timers |-> "none"]
  /\ event = [g \in Timers |-> {}]
  /\ done = FALSE
  /\ recv = "receiving"
  /\ sent = 0
  /\ buffered \in BufferedChoices
  /\ calls = EmptyLog
  /\ loaded = [g \in Timers |-> Idle]
  /\ delivered = EmptyLog

ActiveWork == {active[k] : k \in ProgressKeys} \ {None}

-----------------------------------------------------------------------------
(***************************************************************************)
(* Work.                                                                   *)
(***************************************************************************)
Others == <<event, done, recv, sent, sink>>

\* Mutated form: no new generation.
SameGeneration == generation

\* Every start and stop begins a generation of its own.
NextGeneration == generation + 1

\* Mutated form: the timer takes the generation before.
ScheduleStale(g) ==
  /\ token' = [token EXCEPT ![g] = generation]
  /\ timer' = [timer EXCEPT ![g] = "waiting"]

\* schedule is called after the lock is released, but a timer that is not yet
\* scheduled and one whose delay has not passed cannot be told apart, so the
\* goroutine is there at once.
Schedule(g) ==
  /\ token' = [token EXCEPT ![g] = generation']
  /\ timer' = [timer EXCEPT ![g] = "waiting"]

\* A later start under the same key replaces the entry of the earlier one; a
\* closed narrator hands out a stop that does nothing.
Start(w) ==
  /\ work[w] = "idle"
  /\ work' = [work EXCEPT ![w] = "working"]
  /\ IF closed THEN UNCHANGED <<narrator, token, timer>>
     ELSE /\ active' = [active EXCEPT ![key[w]] = w]
          /\ generation' = NextGeneration
          /\ Schedule(<<w, "start">>)
          /\ UNCHANGED <<key, closed>>
  /\ UNCHANGED Others

\* Mutated form: the entry stays.
EverythingFor(w) == active

\* What is left when a piece of work stops: whatever is entered under its key
\* goes, be it its own entry or not.
LeftAfter(w) == [active EXCEPT ![key[w]] = None]

Remove(w, after) ==
  /\ work[w] = "working"
  /\ work' = [work EXCEPT ![w] = after]
  /\ IF closed THEN UNCHANGED <<narrator, token, timer>>
     ELSE /\ active' = LeftAfter(w)
          /\ generation' = NextGeneration
          /\ UNCHANGED <<key, closed>>
          /\ IF \E k \in ProgressKeys : active'[k] # None
             THEN Schedule(<<w, "stop">>) ELSE UNCHANGED <<token, timer>>
  /\ UNCHANGED Others

\* The stop function runs once; it schedules again if work is left.
Stop(w) == Remove(w, "over")

-----------------------------------------------------------------------------
(***************************************************************************)
(* Publishing.                                                             *)
(***************************************************************************)
OwnEvent(i) == [own |-> <<i>>, narrated |-> FALSE]
Telling == [own |-> <<>>, narrated |-> TRUE]
Extend(log, e) == [own |-> log.own \o e.own, narrated |-> log.narrated \/ e.narrated]

\* Without a buffer an event reaches the client at once.
Deliver(e) ==
  /\ ~buffered
  /\ delivered' = Extend(delivered, e)
  /\ UNCHANGED <<buffered, calls, loaded>>

\* With one, a timer's append reads the slice ...
LoadCalls(g) ==
  /\ buffered
  /\ loaded[g] = Idle
  /\ loaded' = [loaded EXCEPT ![g] = calls]
  /\ UNCHANGED <<buffered, calls, delivered>>

\* ... and stores the longer one.
StoreCalls(g, e) ==
  /\ buffered
  /\ loaded[g] # Idle
  /\ calls' = Extend(loaded[g], e)
  /\ loaded' = [loaded EXCEPT ![g] = Idle]
  /\ UNCHANGED <<buffered, delivered>>

-----------------------------------------------------------------------------
(***************************************************************************)
(* Timer goroutines.                                                       *)
(***************************************************************************)
\* The delay has passed: n.event checks under the lock and builds the
\* narration, or the goroutine ends.
Fire(g) ==
  /\ timer[g] = "waiting"
  /\ IF closed \/ token[g] # generation \/ ActiveWork = {}
     THEN timer' = [timer EXCEPT ![g] = "over"] /\ UNCHANGED event
     ELSE /\ timer' = [timer EXCEPT ![g] = "firing"]
          /\ event' = [event EXCEPT ![g] = ActiveWork]
  /\ UNCHANGED <<narrator, work, token, done, recv, sent, sink>>

\* ctx.Done wins the select.
TimerCancelled(g) ==
  /\ timer[g] = "waiting"
  /\ done
  /\ timer' = [timer EXCEPT ![g] = "over"]
  /\ UNCHANGED <<narrator, work, token, event, done, recv, sent, sink>>

\* emitClientEvent, outside the lock, and then the next interval if there is
\* one.
Published(g) ==
  /\ timer' = [timer EXCEPT ![g] = IF Repeats THEN "waiting" ELSE "over"]
  /\ event' = [event EXCEPT ![g] = {}]

Narrate(g) ==
  /\ timer[g] = "firing"
  /\ \/ Deliver(Telling) /\ Published(g)
     \/ LoadCalls(g) /\ UNCHANGED <<timer, event>>
     \/ StoreCalls(g, Telling) /\ Published(g)
  /\ UNCHANGED <<narrator, work, token, done, recv, sent>>

\* The client's sink fails: the goroutine ends.
NarrateFails(g) ==
  /\ timer[g] = "firing"
  /\ ~buffered
  /\ timer' = [timer EXCEPT ![g] = "failed"]
  /\ event' = [event EXCEPT ![g] = {}]
  /\ UNCHANGED <<narrator, work, token, done, recv, sent, sink>>

-----------------------------------------------------------------------------
(***************************************************************************)
(* The receiver.                                                           *)
(***************************************************************************)
ReceiverPublishes ==
  /\ recv = "receiving"
  /\ sent < MaxEvents
  /\ sent' = sent + 1
  /\ \/ Deliver(OwnEvent(sent + 1))
     \/ /\ buffered
        /\ calls' = Extend(calls, OwnEvent(sent + 1))
        /\ UNCHANGED <<buffered, loaded, delivered>>
  /\ UNCHANGED <<narrator, work, token, timer, event, done, recv>>

\* Mutated form: the narrator is left open.
ReceiverReturnsUnclosed(how) ==
  /\ recv = "receiving"
  /\ recv' = how
  /\ UNCHANGED <<narrator, work, token, timer, event, done, sent, sink>>

\* receiveSamplingAttempt returns: its deferred Close.
ReceiverReturns(how) ==
  /\ recv = "receiving"
  /\ recv' = how
  /\ closed' = TRUE
  /\ generation' = generation + 1
  /\ active' = [k \in ProgressKeys |-> None]
  /\ UNCHANGED <<key, work, token, timer, event, done, sent, sink>>

\* runSamplingRequest flushes the buffer of an attempt that completed; the
\* loop ranges over the slice as it is now.
Flush ==
  /\ recv = "completed"
  /\ buffered
  /\ delivered' = Extend(delivered, calls)
  /\ recv' = "flushed"
  /\ UNCHANGED <<narrator, work, token, timer, event, done, sent, buffered,
                 calls, loaded>>

Cancel ==
  /\ ~done
  /\ done' = TRUE
  /\ UNCHANGED <<narrator, work, token, timer, event, recv, sent, sink>>

TimerStep(g) == Fire(g) \/ Narrate(g) \/ NarrateFails(g)
WorkStep(w) == Start(w) \/ Stop(w)

Next ==
  \/ \E w \in Works : WorkStep(w)
  \/ \E g \in Timers : TimerStep(g) \/ TimerCancelled(g)
  \/ ReceiverPublishes
  \/ \E how \in {"completed", "failed"} : ReceiverReturns(how)
  \/ Flush
  \/ Cancel

Spec == Init /\ [][Next]_vars

\* A started goroutine keeps being scheduled, and a timer's delay passes.
FairSpec == Spec /\ \A g \in Timers : WF_vars(TimerStep(g))

-----------------------------------------------------------------------------
(***************************************************************************)
(* Properties.                                                             *)
(***************************************************************************)
Alive(g) == timer[g] \in {"waiting", "firing"}

\* Restarting the delay never leaves two timers narrating side by side: of
\* all the goroutines still alive at most one can pass its next check
\* (generation in start, stop and event).
OneNarrationStream ==
  \A g, h \in Timers :
    Alive(g) /\ Alive(h) /\ g # h => token[g] # token[h] 

\* n.active never holds work that has stopped, so a narration tells only of
\* work that was running when it was built, also when several pieces of work
\* share a key.
OnlyRunningWorkIsActive ==
  \A w \in Works : w \in ActiveWork => work[w] = "working"

\* Work that is running is known to the narrator, unless another piece of work
\* with the same key was: two calls of one tool in policy review share the
\* tool's name, and the first to stop removes the entry of the other.
RunningWorkIsActive ==
  \A w \in Works :
    work[w] = "working" /\ ~closed =>
      \/ active[key[w]] = w
      \/ \E v \in Works \ {w} :
           key[v] = key[w] /\ work[v] # "idle"

\* While there is active work a timer of the current generation waits or
\* publishes, however starts and stops restart the delay: narration stops only
\* because the client's sink failed, the context is done, or intervals do not
\* repeat.
ActiveWorkHasTimer ==
  ActiveWork # {} =>
    \E g \in Timers :
      /\ token[g] = generation
      /\ timer[g] \in {"waiting", "firing", "failed"} \/ (timer[g] = "over" /\ (done \/ ~Repeats))

\* A failed attempt shows the client nothing when retries are configured: its
\* timers may outlive it, but they hold the buffer that is thrown away.
FailedAttemptIsInvisible ==
  buffered /\ recv # "flushed" => delivered = EmptyLog

\* When the attempt has returned the narrator falls silent for good: every
\* timer goroutine ends, although work may still be running (its goroutines
\* outlived the attempt), the context is never done and intervals repeat.
NarratorFallsSilent ==
  recv # "receiving" ~> \A g \in Timers : ~Alive(g)

\* Every event of a completed attempt reaches the client: the comment in
\* runSamplingRequest says the callbacks are buffered until
\* response.completed proves the attempt is durable.
DurableEventsReachClient ==
  recv = "flushed" => Len(delivered.own) = sent

=============================================================================
