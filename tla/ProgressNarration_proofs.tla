----------------------- MODULE ProgressNarration_proofs -----------------------
(***************************************************************************)
(* Theorems about ProgressNarration, for any number of pieces of work,     *)
(* however they share keys, and any number of narrations.                  *)
(***************************************************************************)
EXTENDS ProgressNarration, SequenceTheorems, TLAPS

\* The types the arguments below need.
NarratorType ==
  /\ key \in [Works -> ProgressKeys]
  /\ active \in [ProgressKeys -> Works \cup {None}]
  /\ generation \in Nat
  /\ closed \in BOOLEAN
  /\ work \in [Works -> {"idle", "working", "over"}]
  /\ token \in [Timers -> Nat]
  /\ timer \in [Timers -> {"none", "waiting", "firing", "failed", "over"}]

LEMMA TimersOfWork ==
  ASSUME NEW w \in Works
  PROVE  <<w, "start">> \in Timers /\ <<w, "stop">> \in Timers
BY DEF Timers

LEMMA ActiveMembers ==
  \A w : w \in ActiveWork <=> w # None /\ \E k \in ProgressKeys : active[k] = w
BY DEF ActiveWork

\* What registering work, removing it and closing the narrator do, and what no
\* other step does.
LEMMA StartEffect ==
  ASSUME NarratorType, NEW w \in Works, Start(w)
  PROVE  /\ work[w] = "idle" /\ work' = [work EXCEPT ![w] = "working"]
         /\ UNCHANGED <<key, closed, done, recv, sink>>
         /\ \/ closed /\ UNCHANGED <<active, generation, token, timer>>
            \/ /\ ~closed
               /\ active' = [active EXCEPT ![key[w]] = w]
               /\ generation' = generation + 1
               /\ token' = [token EXCEPT ![<<w, "start">>] = generation + 1]
               /\ timer' = [timer EXCEPT ![<<w, "start">>] = "waiting"]
BY DEF Start, Others, NextGeneration, Schedule, narrator

LEMMA StopEffect ==
  ASSUME NarratorType, NEW w \in Works, Stop(w)
  PROVE  /\ work[w] = "working" /\ work' = [work EXCEPT ![w] = "over"]
         /\ UNCHANGED <<key, closed, done, recv, sink>>
         /\ \/ closed /\ UNCHANGED <<active, generation, token, timer>>
            \/ /\ ~closed
               /\ active' = [active EXCEPT ![key[w]] = None]
               /\ generation' = generation + 1
               /\ \/ /\ \A k \in ProgressKeys : active'[k] = None
                     /\ UNCHANGED <<token, timer>>
                  \/ /\ token' = [token EXCEPT ![<<w, "stop">>] = generation + 1]
                     /\ timer' = [timer EXCEPT ![<<w, "stop">>] = "waiting"]
BY DEF Stop, Remove, LeftAfter, Others, NextGeneration, Schedule, narrator

LEMMA ReturnEffect ==
  ASSUME NEW how, ReceiverReturns(how)
  PROVE  /\ UNCHANGED <<key, work, token, timer, done, sink>>
         /\ closed' = TRUE /\ generation' = generation + 1
         /\ active' = [k \in ProgressKeys |-> None]
         /\ recv = "receiving" /\ recv' = how
BY DEF ReceiverReturns

\* A step of a timer that moves it: its place, by what it sees.
LEMMA TimerEffect ==
  ASSUME NarratorType, NEW g \in Timers, TimerStep(g) \/ TimerCancelled(g)
  PROVE  /\ UNCHANGED <<narrator, work, token, done, recv>>
         /\ timer[g] \in {"waiting", "firing"}
         /\ \/ UNCHANGED timer
            \/ \E place \in {"waiting", "firing", "failed", "over"} :
                 /\ timer' = [timer EXCEPT ![g] = place]
                 /\ place = "over" =>
                      closed \/ token[g] # generation \/ ActiveWork = {}
                        \/ done \/ ~Repeats
<1>1. CASE Fire(g)
  BY <1>1 DEF Fire
<1>2. CASE Narrate(g)
  BY <1>2 DEF Narrate, Published
<1>3. CASE NarrateFails(g)
  BY <1>3 DEF NarrateFails
<1>4. CASE TimerCancelled(g)
  BY <1>4 DEF TimerCancelled
<1>5. QED  BY <1>1, <1>2, <1>3, <1>4 DEF TimerStep

\* Neither the narrator nor its timers are touched by the rest.
LEMMA OtherEffect ==
  ASSUME ReceiverPublishes \/ Flush \/ Cancel \/ UNCHANGED vars
  PROVE  UNCHANGED <<narrator, work, token, timer>> /\ (done => done')
BY DEF ReceiverPublishes, Flush, Cancel, vars

LEMMA NarratorTypeInit == Init => NarratorType
<1> SUFFICES ASSUME Init PROVE NarratorType
  OBVIOUS
<1>1. key \in [Works -> ProgressKeys] /\ generation \in Nat /\ closed \in BOOLEAN
  BY NarrationAssumption DEF Init
<1>2. active \in [ProgressKeys -> Works \cup {None}]
  BY DEF Init
<1>3. work \in [Works -> {"idle", "working", "over"}]
  BY DEF Init
<1>4. token \in [Timers -> Nat]
  BY DEF Init
<1>5. timer \in [Timers -> {"none", "waiting", "firing", "failed", "over"}]
  BY DEF Init
<1>6. QED  BY <1>1, <1>2, <1>3, <1>4, <1>5 DEF NarratorType

LEMMA NarratorTypeStep ==
  ASSUME NarratorType, [Next]_vars
  PROVE  NarratorType'
<1>0. /\ key \in [Works -> ProgressKeys]
      /\ active \in [ProgressKeys -> Works \cup {None}]
      /\ generation \in Nat
      /\ closed \in BOOLEAN
      /\ work \in [Works -> {"idle", "working", "over"}]
      /\ token \in [Timers -> Nat]
      /\ timer \in [Timers -> {"none", "waiting", "firing", "failed", "over"}]
  BY DEF NarratorType
<1>1. ASSUME NEW w \in Works, Start(w) PROVE NarratorType'
  <2>1. generation' \in Nat /\ closed' \in BOOLEAN /\ key' = key
    <3>1. generation' \in {generation, generation + 1} /\ closed' = closed /\ key' = key
      BY <1>1, StartEffect
    <3>2. generation' \in Nat
      BY <1>0, <3>1
    <3>3. QED  BY <1>0, <3>1, <3>2
  <2>2. active' \in [ProgressKeys -> Works \cup {None}]
    <3>1. active' \in {active, [active EXCEPT ![key[w]] = w]}
      BY <1>1, StartEffect
    <3>2. QED  BY <1>0, <3>1
  <2>3. work' \in [Works -> {"idle", "working", "over"}]
    BY <1>0, <1>1, StartEffect
  <2>4. token' \in [Timers -> Nat]
    <3>1. generation + 1 \in Nat
      BY <1>0
    <3>2. token' \in {token, [token EXCEPT ![<<w, "start">>] = generation + 1]}
      BY <1>1, StartEffect
    <3>3. QED  BY <1>0, <3>1, <3>2
  <2>5. timer' \in [Timers -> {"none", "waiting", "firing", "failed", "over"}]
    <3>1. timer' \in {timer, [timer EXCEPT ![<<w, "start">>] = "waiting"]}
      BY <1>1, StartEffect
    <3>2. QED  BY <1>0, <3>1
  <2>6. QED  BY <1>0, <2>1, <2>2, <2>3, <2>4, <2>5 DEF NarratorType
<1>2. ASSUME NEW w \in Works, Stop(w) PROVE NarratorType'
  <2>1. generation' \in Nat /\ closed' \in BOOLEAN /\ key' = key
    <3>1. generation' \in {generation, generation + 1} /\ closed' = closed /\ key' = key
      BY <1>2, StopEffect
    <3>2. generation' \in Nat
      BY <1>0, <3>1
    <3>3. QED  BY <1>0, <3>1, <3>2
  <2>2. active' \in [ProgressKeys -> Works \cup {None}]
    <3>1. active' \in {active, [active EXCEPT ![key[w]] = None]}
      BY <1>2, StopEffect
    <3>2. QED  BY <1>0, <3>1
  <2>3. work' \in [Works -> {"idle", "working", "over"}]
    BY <1>0, <1>2, StopEffect
  <2>4. token' \in [Timers -> Nat]
    <3>1. generation + 1 \in Nat
      BY <1>0
    <3>2. token' \in {token, [token EXCEPT ![<<w, "stop">>] = generation + 1]}
      BY <1>2, StopEffect
    <3>3. QED  BY <1>0, <3>1, <3>2
  <2>5. timer' \in [Timers -> {"none", "waiting", "firing", "failed", "over"}]
    <3>1. timer' \in {timer, [timer EXCEPT ![<<w, "stop">>] = "waiting"]}
      BY <1>2, StopEffect
    <3>2. QED  BY <1>0, <3>1
  <2>6. QED  BY <1>0, <2>1, <2>2, <2>3, <2>4, <2>5 DEF NarratorType
<1>3. ASSUME NEW g \in Timers, TimerStep(g) \/ TimerCancelled(g) PROVE NarratorType'
  BY <1>3, TimerEffect DEF NarratorType, narrator
<1>4. ASSUME NEW how, ReceiverReturns(how) PROVE NarratorType'
  <2>1. generation' \in Nat /\ closed' \in BOOLEAN
    <3>1. generation' = generation + 1 /\ closed' = TRUE
      BY <1>4, ReturnEffect
    <3>2. generation' \in Nat
      BY <1>0, <3>1
    <3>3. QED  BY <3>1, <3>2
  <2>2. active' \in [ProgressKeys -> Works \cup {None}]
    BY <1>4, ReturnEffect
  <2>3. QED  BY <1>0, <1>4, <2>1, <2>2, ReturnEffect DEF NarratorType
<1>5. CASE ReceiverPublishes \/ Flush \/ Cancel \/ UNCHANGED vars
  BY <1>5, OtherEffect DEF NarratorType, narrator
<1>6. QED  BY <1>1, <1>2, <1>3, <1>4, <1>5 DEF Next, WorkStep

-----------------------------------------------------------------------------
(***************************************************************************)
(* What is active.                                                         *)
(***************************************************************************)
\* An entry stands under the key of its work, which is running; a closed
\* narrator has none.
EntryInv ==
  /\ \A k \in ProgressKeys :
       active[k] # None => key[active[k]] = k /\ work[active[k]] = "working"
  /\ closed => \A k \in ProgressKeys : active[k] = None

LEMMA EntryInvInit == Init => EntryInv
BY DEF Init, EntryInv

LEMMA EntryInvStep ==
  ASSUME NarratorType, EntryInv, [Next]_vars
  PROVE  EntryInv'
<1>0. /\ key \in [Works -> ProgressKeys]
      /\ active \in [ProgressKeys -> Works \cup {None}]
      /\ work \in [Works -> {"idle", "working", "over"}]
      /\ None \notin Works
  BY NarrationAssumption DEF NarratorType
<1>1. ASSUME NEW w \in Works, Start(w) PROVE EntryInv'
  <2>1. CASE closed
    BY <1>1, <2>1, StartEffect DEF EntryInv
  <2>2. CASE ~closed
    <3>1. /\ key' = key /\ ~closed' /\ work[w] = "idle"
          /\ work' = [work EXCEPT ![w] = "working"]
          /\ active' = [active EXCEPT ![key[w]] = w]
      BY <1>1, <2>2, StartEffect
    <3>2. ASSUME NEW k \in ProgressKeys, active'[k] # None
          PROVE  key'[active'[k]] = k /\ work'[active'[k]] = "working"
      <4>1. CASE k = key[w]
        BY <1>0, <3>1, <4>1
      <4>2. CASE k # key[w]
        <5>1. active'[k] = active[k] /\ active[k] \in Works
          BY <1>0, <3>1, <3>2, <4>2
        <5>2. QED  BY <1>0, <3>1, <3>2, <5>1 DEF EntryInv
      <4>3. QED  BY <4>1, <4>2
    <3>3. QED  BY <3>1, <3>2 DEF EntryInv
  <2>3. QED  BY <2>1, <2>2
<1>2. ASSUME NEW w \in Works, Stop(w) PROVE EntryInv'
  <2>1. CASE closed
    BY <1>2, <2>1, StopEffect DEF EntryInv
  <2>2. CASE ~closed
    <3>1. /\ key' = key /\ ~closed'
          /\ work' = [work EXCEPT ![w] = "over"]
          /\ active' = [active EXCEPT ![key[w]] = None]
      BY <1>2, <2>2, StopEffect
    <3>2. ASSUME NEW k \in ProgressKeys, active'[k] # None
          PROVE  key'[active'[k]] = k /\ work'[active'[k]] = "working"
      <4>1. k # key[w] /\ active'[k] = active[k] /\ active[k] \in Works
        BY <1>0, <3>1, <3>2
      <4>2. key[active[k]] = k /\ work[active[k]] = "working"
        BY <3>2, <4>1 DEF EntryInv
      <4>3. active[k] # w
        BY <4>1, <4>2
      <4>4. QED  BY <1>0, <3>1, <4>1, <4>2, <4>3
    <3>3. QED  BY <3>1, <3>2 DEF EntryInv
  <2>3. QED  BY <2>1, <2>2
<1>3. ASSUME NEW g \in Timers, TimerStep(g) \/ TimerCancelled(g) PROVE EntryInv'
  BY <1>3, TimerEffect DEF EntryInv, narrator
<1>4. ASSUME NEW how, ReceiverReturns(how) PROVE EntryInv'
  BY <1>4, ReturnEffect DEF EntryInv
<1>5. CASE ReceiverPublishes \/ Flush \/ Cancel \/ UNCHANGED vars
  BY <1>5, OtherEffect DEF EntryInv, narrator
<1>6. QED  BY <1>1, <1>2, <1>3, <1>4, <1>5 DEF Next, WorkStep

\* No narration tells of work that had stopped when it was built, however the
\* work shares keys.
THEOREM OnlyRunning == Spec => []OnlyRunningWorkIsActive
<1>1. NarratorType /\ EntryInv => OnlyRunningWorkIsActive
  BY ActiveMembers DEF EntryInv, OnlyRunningWorkIsActive
<1>2. QED
  BY NarratorTypeInit, NarratorTypeStep, EntryInvInit, EntryInvStep, <1>1, PTL
  DEF Spec

LEMMA RunningInit == Init => RunningWorkIsActive
BY DEF Init, RunningWorkIsActive

LEMMA RunningStep ==
  ASSUME NarratorType, RunningWorkIsActive, [Next]_vars
  PROVE  RunningWorkIsActive'
<1>0. /\ key \in [Works -> ProgressKeys]
      /\ active \in [ProgressKeys -> Works \cup {None}]
      /\ work \in [Works -> {"idle", "working", "over"}]
  BY DEF NarratorType
<1>1. ASSUME NEW w \in Works, Start(w) PROVE RunningWorkIsActive'
  <2>1. CASE closed
    BY <1>1, <2>1, StartEffect DEF RunningWorkIsActive
  <2>2. CASE ~closed
    <3>1. /\ key' = key /\ work' = [work EXCEPT ![w] = "working"]
          /\ active' = [active EXCEPT ![key[w]] = w]
      BY <1>1, <2>2, StartEffect
    <3>2. ASSUME NEW u \in Works, work'[u] = "working"
          PROVE  \/ active'[key'[u]] = u
                 \/ \E v \in Works \ {u} : key'[v] = key'[u] /\ work'[v] # "idle"
      <4>1. CASE u = w
        BY <1>0, <3>1, <3>2, <4>1
      <4>2. CASE u # w /\ key[u] = key[w]
        <5>1. w \in Works \ {u} /\ key'[w] = key'[u] /\ work'[w] # "idle"
          BY <1>0, <3>1, <4>2
        <5>2. QED  BY <5>1
      <4>3. CASE u # w /\ key[u] # key[w]
        <5>1. active'[key[u]] = active[key[u]] /\ work[u] = "working"
          BY <1>0, <3>1, <3>2, <4>3
        <5>2. \A v \in Works : work[v] # "idle" => work'[v] # "idle"
          BY <1>0, <3>1
        <5>3. QED  BY <2>2, <3>1, <5>1, <5>2 DEF RunningWorkIsActive
      <4>4. QED  BY <4>1, <4>2, <4>3
    <3>3. QED  BY <3>2 DEF RunningWorkIsActive
  <2>3. QED  BY <2>1, <2>2
<1>2. ASSUME NEW w \in Works, Stop(w) PROVE RunningWorkIsActive'
  <2>1. CASE closed
    BY <1>2, <2>1, StopEffect DEF RunningWorkIsActive
  <2>2. CASE ~closed
    <3>1. /\ key' = key /\ work' = [work EXCEPT ![w] = "over"]
          /\ active' = [active EXCEPT ![key[w]] = None]
      BY <1>2, <2>2, StopEffect
    <3>2. ASSUME NEW u \in Works, work'[u] = "working"
          PROVE  \/ active'[key'[u]] = u
                 \/ \E v \in Works \ {u} : key'[v] = key'[u] /\ work'[v] # "idle"
      <4>1. CASE u = w
        BY <1>0, <3>1, <3>2, <4>1
      <4>2. CASE u # w /\ key[u] = key[w]
        <5>1. w \in Works \ {u} /\ key'[w] = key'[u] /\ work'[w] # "idle"
          BY <1>0, <3>1, <4>2
        <5>2. QED  BY <5>1
      <4>3. CASE u # w /\ key[u] # key[w]
        <5>1. active'[key[u]] = active[key[u]] /\ work[u] = "working"
          BY <1>0, <3>1, <3>2, <4>3
        <5>2. \A v \in Works : work[v] # "idle" => work'[v] # "idle"
          BY <1>0, <3>1
        <5>3. QED  BY <2>2, <3>1, <5>1, <5>2 DEF RunningWorkIsActive
      <4>4. QED  BY <4>1, <4>2, <4>3
    <3>3. QED  BY <3>2 DEF RunningWorkIsActive
  <2>3. QED  BY <2>1, <2>2
<1>3. ASSUME NEW g \in Timers, TimerStep(g) \/ TimerCancelled(g)
      PROVE  RunningWorkIsActive'
  BY <1>3, TimerEffect DEF RunningWorkIsActive, narrator
<1>4. ASSUME NEW how, ReceiverReturns(how) PROVE RunningWorkIsActive'
  BY <1>4, ReturnEffect DEF RunningWorkIsActive
<1>5. CASE ReceiverPublishes \/ Flush \/ Cancel \/ UNCHANGED vars
  BY <1>5, OtherEffect DEF RunningWorkIsActive, narrator
<1>6. QED  BY <1>1, <1>2, <1>3, <1>4, <1>5 DEF Next, WorkStep

\* The narrator of an attempt under way knows all the work that is running,
\* unless it shares its key.
THEOREM Running == Spec => []RunningWorkIsActive
BY NarratorTypeInit, NarratorTypeStep, RunningInit, RunningStep, PTL DEF Spec

-----------------------------------------------------------------------------
(***************************************************************************)
(* Timers.                                                                 *)
(***************************************************************************)
\* A timer that is alive has the generation of its own start or stop, and none
\* has one that is still to come.
StreamInv ==
  /\ \A g \in Timers : Alive(g) => token[g] <= generation
  /\ OneNarrationStream

LEMMA StreamInvInit == Init => StreamInv
BY DEF Init, StreamInv, OneNarrationStream, Alive

\* A timer is scheduled with a generation that no other has.
LEMMA StreamSchedule ==
  ASSUME NarratorType, StreamInv, NEW g \in Timers, generation' = generation + 1,
         token' = [token EXCEPT ![g] = generation + 1],
         timer' = [timer EXCEPT ![g] = "waiting"]
  PROVE  StreamInv'
<1>1. generation \in Nat /\ token \in [Timers -> Nat]
  BY DEF NarratorType
<1>2. token'[g] = generation'
  BY <1>1
<1>3. \A h \in Timers : h # g => token'[h] = token[h] /\ timer'[h] = timer[h]
  BY DEF NarratorType
<1>4. \A h \in Timers : h # g /\ Alive(h)' => Alive(h) /\ token'[h] < generation'
  BY <1>1, <1>3 DEF StreamInv, Alive
<1>5. QED
  BY <1>1, <1>2, <1>3, <1>4 DEF StreamInv, OneNarrationStream

\* Otherwise no timer comes alive.
LEMMA StreamQuiet ==
  ASSUME NarratorType, StreamInv, UNCHANGED token,
         generation' \in {generation, generation + 1},
         \A h \in Timers : Alive(h)' => Alive(h)
  PROVE  StreamInv'
<1>1. generation \in Nat /\ token \in [Timers -> Nat]
  BY DEF NarratorType
<1>2. \A h \in Timers : Alive(h)' => token'[h] <= generation'
  BY <1>1 DEF StreamInv
<1>3. QED  BY <1>2 DEF StreamInv, OneNarrationStream

LEMMA StreamInvStep ==
  ASSUME NarratorType, StreamInv, [Next]_vars
  PROVE  StreamInv'
<1>1. ASSUME NEW w \in Works, Start(w) PROVE StreamInv'
  BY <1>1, StartEffect, TimersOfWork, StreamSchedule, StreamQuiet DEF Alive
<1>2. ASSUME NEW w \in Works, Stop(w) PROVE StreamInv'
  BY <1>2, StopEffect, TimersOfWork, StreamSchedule, StreamQuiet DEF Alive
<1>3. ASSUME NEW g \in Timers, TimerStep(g) \/ TimerCancelled(g) PROVE StreamInv'
  <2>1. \A h \in Timers : Alive(h)' => Alive(h)
    BY <1>3, TimerEffect DEF Alive, NarratorType
  <2>2. QED  BY <1>3, <2>1, TimerEffect, StreamQuiet DEF narrator
<1>4. ASSUME NEW how, ReceiverReturns(how) PROVE StreamInv'
  BY <1>4, ReturnEffect, StreamQuiet DEF Alive
<1>5. CASE ReceiverPublishes \/ Flush \/ Cancel \/ UNCHANGED vars
  BY <1>5, OtherEffect, StreamQuiet DEF narrator, Alive
<1>6. QED  BY <1>1, <1>2, <1>3, <1>4, <1>5 DEF Next, WorkStep

\* Of any two timers that are alive at most one passes its next check.
THEOREM OneStream == Spec => []OneNarrationStream
<1>1. StreamInv => OneNarrationStream  BY DEF StreamInv
<1>2. QED
  BY NarratorTypeInit, NarratorTypeStep, StreamInvInit, StreamInvStep, <1>1, PTL
  DEF Spec

LEMMA HasTimerInit == Init => ActiveWorkHasTimer
BY NarrationAssumption, ActiveMembers DEF Init, ActiveWorkHasTimer, ActiveWork

LEMMA HasTimerStep ==
  ASSUME NarratorType, EntryInv, ActiveWorkHasTimer, [Next]_vars
  PROVE  ActiveWorkHasTimer'
<1>0. /\ generation \in Nat /\ token \in [Timers -> Nat]
      /\ timer \in [Timers -> {"none", "waiting", "firing", "failed", "over"}]
  BY DEF NarratorType
<1>1. ASSUME NEW g \in Timers, generation' = generation + 1,
             token' = [token EXCEPT ![g] = generation + 1],
             timer' = [timer EXCEPT ![g] = "waiting"]
      PROVE  ActiveWorkHasTimer'
  BY <1>0, <1>1 DEF ActiveWorkHasTimer
<1>2. ASSUME \A k \in ProgressKeys : active'[k] = None PROVE ActiveWorkHasTimer'
  BY <1>2 DEF ActiveWorkHasTimer, ActiveWork
<1>3. ASSUME UNCHANGED <<active, generation, token, timer>>, done => done'
      PROVE  ActiveWorkHasTimer'
  BY <1>3 DEF ActiveWorkHasTimer, ActiveWork
<1>4. ASSUME NEW w \in Works, Start(w) PROVE ActiveWorkHasTimer'
  BY <1>1, <1>3, <1>4, StartEffect, TimersOfWork
<1>5. ASSUME NEW w \in Works, Stop(w) PROVE ActiveWorkHasTimer'
  BY <1>1, <1>2, <1>3, <1>5, StopEffect, TimersOfWork
<1>6. ASSUME NEW g \in Timers, TimerStep(g) \/ TimerCancelled(g)
      PROVE  ActiveWorkHasTimer'
  <2>1. /\ UNCHANGED <<active, generation, token, done>> /\ ActiveWork' = ActiveWork
        /\ timer[g] \in {"waiting", "firing"}
    BY <1>6, TimerEffect DEF narrator, ActiveWork
  <2>2. CASE UNCHANGED timer
    BY <1>3, <2>1, <2>2
  <2>3. ASSUME NEW place \in {"waiting", "firing", "failed", "over"},
               timer' = [timer EXCEPT ![g] = place],
               place = "over" =>
                 closed \/ token[g] # generation \/ ActiveWork = {} \/ done \/ ~Repeats
        PROVE  ActiveWorkHasTimer'
    <3> SUFFICES ASSUME ActiveWork # {} PROVE ActiveWorkHasTimer'
      BY <2>1 DEF ActiveWorkHasTimer
    <3>1. ~closed
      BY DEF EntryInv, ActiveWork
    <3>2. PICK h \in Timers :
            /\ token[h] = generation
            /\ \/ timer[h] \in {"waiting", "firing", "failed"}
               \/ timer[h] = "over" /\ (done \/ ~Repeats)
      BY DEF ActiveWorkHasTimer
    <3>3. CASE h = g
      <4>1. timer'[h] = place /\ (place = "over" => done \/ ~Repeats)
        BY <1>0, <2>3, <3>1, <3>2, <3>3
      <4>2. QED  BY <2>1, <3>2, <4>1 DEF ActiveWorkHasTimer
    <3>4. CASE h # g
      <4>1. timer'[h] = timer[h]
        BY <1>0, <2>3, <3>4
      <4>2. QED  BY <2>1, <3>2, <4>1 DEF ActiveWorkHasTimer
    <3>5. QED  BY <3>3, <3>4
  <2>4. QED  BY <1>6, <2>2, <2>3, TimerEffect
<1>7. ASSUME NEW how, ReceiverReturns(how) PROVE ActiveWorkHasTimer'
  BY <1>2, <1>7, ReturnEffect
<1>8. CASE ReceiverPublishes \/ Flush \/ Cancel \/ UNCHANGED vars
  BY <1>3, <1>8, OtherEffect DEF narrator
<1>9. QED  BY <1>4, <1>5, <1>6, <1>7, <1>8 DEF Next, WorkStep

\* While work is active a timer of the current generation is there, or one that
\* ended because the client's sink failed, the context is done or intervals do
\* not repeat.
THEOREM HasTimer == Spec => []ActiveWorkHasTimer
BY NarratorTypeInit, NarratorTypeStep, EntryInvInit, EntryInvStep, HasTimerInit,
   HasTimerStep, PTL DEF Spec

-----------------------------------------------------------------------------
(***************************************************************************)
(* The buffer.                                                             *)
(***************************************************************************)
\* Only Flush delivers what was buffered.
THEOREM Invisible == Spec => []FailedAttemptIsInvisible
<1>1. Init => FailedAttemptIsInvisible
  BY DEF Init, FailedAttemptIsInvisible
<1>2. ASSUME FailedAttemptIsInvisible, [Next]_vars PROVE FailedAttemptIsInvisible'
  <2>1. ASSUME NEW w \in Works, WorkStep(w) PROVE FailedAttemptIsInvisible'
    BY <1>2, <2>1 DEF WorkStep, Start, Stop, Remove, Others, sink,
                      FailedAttemptIsInvisible
  <2>2. ASSUME NEW g \in Timers, TimerStep(g) \/ TimerCancelled(g)
        PROVE  FailedAttemptIsInvisible'
    BY <1>2, <2>2 DEF TimerStep, TimerCancelled, Fire, Narrate, NarrateFails, Deliver,
                      LoadCalls, StoreCalls, sink, FailedAttemptIsInvisible
  <2>3. CASE ReceiverPublishes
    BY <1>2, <2>3 DEF ReceiverPublishes, Deliver, FailedAttemptIsInvisible
  <2>4. ASSUME NEW how, ReceiverReturns(how) PROVE FailedAttemptIsInvisible'
    BY <1>2, <2>4, ReturnEffect DEF sink, FailedAttemptIsInvisible
  <2>5. CASE Flush \/ Cancel \/ UNCHANGED vars
    BY <1>2, <2>5 DEF Flush, Cancel, vars, sink, FailedAttemptIsInvisible
  <2>6. QED  BY <1>2, <2>1, <2>2, <2>3, <2>4, <2>5 DEF Next
<1>3. QED  BY <1>1, <1>2, PTL DEF Spec

-----------------------------------------------------------------------------
(***************************************************************************)
(* The other types.                                                        *)
(***************************************************************************)
SinkType ==
  /\ buffered \in BOOLEAN
  /\ calls \in Log
  /\ loaded \in [Timers -> Log \cup {Idle}]
  /\ delivered \in Log

RestType ==
  /\ key \in KeyChoices
  /\ event \in [Timers -> SUBSET Works]
  /\ done \in BOOLEAN
  /\ recv \in {"receiving", "completed", "failed", "flushed"}
  /\ sent \in 0 .. MaxEvents

LEMMA LogType ==
  /\ EmptyLog \in Log /\ Telling \in Log
  /\ \A i \in 1 .. MaxEvents : OwnEvent(i) \in Log
  /\ \A l, e \in Log : Extend(l, e) \in Log
<1>1. \A l, e \in Log : Extend(l, e) \in Log
  <2> SUFFICES ASSUME NEW l \in Log, NEW e \in Log PROVE Extend(l, e) \in Log
    OBVIOUS
  <2>1. l.own \o e.own \in Seq(1 .. MaxEvents)
    BY ConcatProperties DEF Log
  <2>2. QED  BY <2>1 DEF Log, Extend
<1>2. <<>> \in Seq(1 .. MaxEvents) /\ \A i \in 1 .. MaxEvents : <<i>> \in Seq(1 .. MaxEvents)
  OBVIOUS
<1>3. QED  BY <1>1, <1>2 DEF Log, EmptyLog, Telling, OwnEvent

LEMMA TimerTypes ==
  ASSUME SinkType, RestType, NarratorType, NEW g \in Timers,
         TimerStep(g) \/ TimerCancelled(g)
  PROVE  SinkType' /\ RestType'
<1>1. SinkType'
  <2>1. CASE UNCHANGED sink
    BY <2>1 DEF SinkType, sink
  <2>2. CASE Deliver(Telling)
    BY <2>2, LogType DEF Deliver, SinkType
  <2>3. CASE LoadCalls(g)
    BY <2>3 DEF LoadCalls, SinkType
  <2>4. CASE StoreCalls(g, Telling)
    <3>1. loaded[g] \in Log /\ Idle \in {Idle}
      BY <2>4 DEF StoreCalls, SinkType
    <3>2. calls' \in Log
      BY <2>4, <3>1, LogType DEF StoreCalls
    <3>3. QED  BY <2>4, <3>2 DEF StoreCalls, SinkType
  <2>5. QED
    BY <2>1, <2>2, <2>3, <2>4
    DEF TimerStep, TimerCancelled, Fire, Narrate, NarrateFails
<1>2. event' \in [Timers -> SUBSET Works]
  <2>1. ActiveWork \subseteq Works
    BY DEF ActiveWork, NarratorType
  <2>2. event' \in {event, [event EXCEPT ![g] = {}], [event EXCEPT ![g] = ActiveWork]}
    BY DEF TimerStep, TimerCancelled, Fire, Narrate, NarrateFails, Published
  <2>3. QED  BY <2>1, <2>2 DEF RestType
<1>3. UNCHANGED <<key, done, recv, sent>>
  BY DEF TimerStep, TimerCancelled, Fire, Narrate, NarrateFails, narrator
<1>4. QED  BY <1>1, <1>2, <1>3 DEF RestType

LEMMA ReceiverTypes ==
  ASSUME SinkType, RestType, ReceiverPublishes
  PROVE  SinkType' /\ RestType'
<1>1. sent + 1 \in 1 .. MaxEvents /\ sent' \in 0 .. MaxEvents
  BY NarrationAssumption DEF ReceiverPublishes, RestType
<1>2. Extend(delivered, OwnEvent(sent + 1)) \in Log /\ Extend(calls, OwnEvent(sent + 1)) \in Log
  BY <1>1, LogType DEF SinkType
<1>3. SinkType'
  BY <1>2 DEF ReceiverPublishes, Deliver, SinkType
<1>4. QED  BY <1>1, <1>3 DEF ReceiverPublishes, RestType, narrator

LEMMA RestTypeStep ==
  ASSUME SinkType, RestType, NarratorType, [Next]_vars
  PROVE  SinkType' /\ RestType'
<1>1. ASSUME NEW w \in Works, Start(w) \/ Stop(w) PROVE SinkType' /\ RestType'
  <2>1. UNCHANGED <<key, Others>>
    BY <1>1 DEF Start, Stop, Remove, narrator
  <2>2. QED  BY <2>1 DEF Others, sink, SinkType, RestType
<1>2. ASSUME NEW how \in {"completed", "failed"}, ReceiverReturns(how)
      PROVE  SinkType' /\ RestType'
  BY <1>2 DEF ReceiverReturns, sink, SinkType, RestType
<1>3. CASE Flush
  BY <1>3, LogType DEF Flush, narrator, SinkType, RestType
<1>4. CASE Cancel
  BY <1>4 DEF Cancel, narrator, sink, SinkType, RestType
<1>5. CASE UNCHANGED vars
  BY <1>5 DEF vars, narrator, sink, SinkType, RestType
<1>6. QED
  BY <1>1, <1>2, <1>3, <1>4, <1>5, TimerTypes, ReceiverTypes DEF Next, WorkStep

\* Narrator, timers, buffer and client log are well typed: the client's log and
\* the buffer hold only the receiver's events, and a narration only work.
THEOREM Typing == Spec => []TypeOK
<1>1. Init => SinkType /\ RestType
  <2> SUFFICES ASSUME Init PROVE SinkType /\ RestType
    OBVIOUS
  <2>1. SinkType
    BY NarrationAssumption, LogType DEF Init, SinkType
  <2>2. sent \in 0 .. MaxEvents
    BY NarrationAssumption DEF Init
  <2>3. QED  BY <2>1, <2>2 DEF Init, RestType
<1>2. NarratorType /\ SinkType /\ RestType => TypeOK
  BY DEF NarratorType, SinkType, RestType, TypeOK
<1>3. QED
  BY NarratorTypeInit, NarratorTypeStep, RestTypeStep, <1>1, <1>2, PTL DEF Spec

=============================================================================
