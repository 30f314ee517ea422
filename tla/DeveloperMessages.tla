-------------------------- MODULE DeveloperMessages --------------------------
(***************************************************************************)
(* The developer messages of internal/session/session.go: the settings a   *)
(* caller may change at any time, the log of fragments that turns append   *)
(* when a setting's rendered text has changed, the baselines that decide   *)
(* whether it has, and the part of the log the next prompt shows.          *)
(*                                                                         *)
(* A text is rendered, and cut at a limit, before it is compared, so two   *)
(* texts may be one message (Rendered).  A turn that cannot read the clock *)
(* fails after it has appended: log and baselines stay.                    *)
(***************************************************************************)
EXTENDS Positions

CONSTANTS
  Texts,     \* the texts a caller sets
  Messages,  \* what they are rendered to
  Rendered,  \* render*Instructions with truncate*Instructions
  NoText,    \* the empty text
  Disabled,  \* a setting the configuration disables
  InitialSettings, \* the configurations a session may start with
  MaxSets,   \* bound on the calls of the setters
  MaxTurns,  \* bound on the turns
  MaxTime,   \* bound on the clock
  Interval   \* TimeReminder.Interval

Kinds == {"switch", "permission", "collaboration", "style"}

ASSUME DeveloperAssumption ==
  /\ Rendered \in [Texts -> Messages]
  /\ NoText \notin Texts \cup Messages
  /\ Disabled \notin Texts \cup {NoText}
  /\ InitialSettings \subseteq [Kinds -> Texts \cup {NoText, Disabled}]
  /\ MaxSets \in Nat /\ MaxTurns \in Nat /\ MaxTime \in Nat /\ Interval \in Nat

Never == -1 \* no reminder yet

VARIABLES
  config,   \* the setting of each kind
  log,      \* s.developerMessages
  last,     \* the baseline of each kind; NoText: none yet
  reminded, \* lastReminderAt
  now,      \* what the clock said last
  prompt,   \* the developer messages of the last turn that started
  shown,    \* the kinds that turn showed
  sets,     \* how often a setter was called
  turns,    \* how often a turn was submitted
  carried   \* history: the style a model switch after the last style fragment
            \* was announced with

vars == <<config, log, last, reminded, now, prompt, shown, sets, turns, carried>>

Entry == [kind : Kinds, message : Messages]
           \cup [kind : {"reminder"}, message : 0 .. MaxTime]

DeveloperTypeOK ==
  /\ config \in [Kinds -> Texts \cup {NoText, Disabled}]
  /\ log \in Seq(Entry)
  /\ last \in [Kinds -> Messages \cup {NoText}]
  /\ reminded \in 0 .. MaxTime \cup {Never}
  /\ now \in 0 .. MaxTime
  /\ prompt \in Seq(Entry)
  /\ shown \subseteq Kinds
  /\ sets \in 0 .. MaxSets
  /\ turns \in 0 .. MaxTurns
  /\ Len(log) <= 5 * turns
  /\ carried \in Messages \cup {NoText}
  /\ reminded # Never => \E i \in DOMAIN log : log[i].kind = "reminder"

Init ==
  /\ config \in InitialSettings
  /\ log = <<>>
  /\ last = [k \in Kinds |-> NoText]
  /\ reminded = Never
  /\ now = 0
  /\ prompt = <<>>
  /\ shown = {}
  /\ sets = 0
  /\ turns = 0
  /\ carried = NoText

\* SetPermissionInstructions and its like: a set text enables the setting.
Set(k, text) ==
  /\ sets < MaxSets
  /\ sets' = sets + 1
  /\ config' = [config EXCEPT ![k] = text]
  /\ UNCHANGED <<log, last, reminded, now, prompt, shown, turns, carried>>

-----------------------------------------------------------------------------
(***************************************************************************)
(* developerMessagesLocked.                                                *)
(***************************************************************************)
Present(k) == config[k] \in Texts
Message(k) == Rendered[config[k]]
Changed(k) == Present(k) /\ last[k] # Message(k)

\* A fragment is appended when its message has changed; the style is left out
\* when a model switch is announced in the same turn.
Appended(k) == Changed(k) /\ ~(k = "style" /\ Changed("switch"))

FragmentsOf(k) ==
  IF Appended(k) THEN <<[kind |-> k, message |-> Message(k)]>> ELSE <<>>

Fragments ==
  FragmentsOf("switch") \o FragmentsOf("permission")
    \o FragmentsOf("collaboration") \o FragmentsOf("style")

\* Mutated form: the permission baseline and a suppressed style's do not move.
BaselinesButPermission ==
  [k \in Kinds |-> IF Appended(k) /\ k # "permission" THEN Message(k) ELSE last[k]]

\* The baseline moves to the present message in any case; for a suppressed
\* style that makes the model switch stand for it.
Baselines == [k \in Kinds |-> IF Present(k) THEN Message(k) ELSE last[k]]

\* Mutated form: only the first turn reminds.
RemindsOnlyOnce(t) == reminded = Never

\* A clock that went backwards adds no reminder.
RemindsAfter(t) == reminded = Never \/ Interval = 0 \/ t - reminded >= Interval

Carried ==
  CASE Appended("style") -> NoText
    [] Changed("switch") /\ Present("style") -> Message("style")
    [] OTHER -> carried

\* Which entries a prompt shows: model switch and permissions not while their
\* text is empty, and none of a disabled kind.
Shown(k) ==
  /\ config[k] # Disabled
  /\ k \in {"switch", "permission"} => config[k] # NoText

\* appendDeveloperMessageLocked never changes what is there.
AtTheEnd(entries) == log \o entries

VisibleIn(entries) ==
  Pick(entries, {i \in DOMAIN entries :
                   entries[i].kind \notin Kinds \/ Shown(entries[i].kind)})

\* SubmitUserInput as far as developer messages go; t is the clock's answer.
StartTurn(t) ==
  LET reminder == IF RemindsAfter(t) THEN <<[kind |-> "reminder", message |-> t]>>
                  ELSE <<>>
      entries == AtTheEnd(Fragments \o reminder) IN
  /\ turns < MaxTurns
  /\ turns' = turns + 1
  /\ log' = entries
  /\ last' = Baselines
  /\ reminded' = IF reminder = <<>> THEN reminded ELSE t
  /\ now' = t
  /\ prompt' = VisibleIn(entries)
  /\ shown' = {k \in Kinds : Shown(k)}
  /\ carried' = Carried
  /\ UNCHANGED <<config, sets>>

\* Mutated form: the baselines move and the log does not.
ClockFailsAndForgets ==
  /\ turns < MaxTurns
  /\ turns' = turns + 1
  /\ last' = Baselines
  /\ carried' = Carried
  /\ UNCHANGED <<config, log, reminded, now, prompt, shown, sets>>

\* Mutated form: a reminder is noted before the clock is read.
ClockFailsReminded ==
  /\ turns < MaxTurns
  /\ turns' = turns + 1
  /\ log' = AtTheEnd(Fragments)
  /\ last' = Baselines
  /\ reminded' = now
  /\ carried' = Carried
  /\ UNCHANGED <<config, now, prompt, shown, sets>>

\* The clock fails: the turn never starts.
ClockFails ==
  /\ turns < MaxTurns
  /\ turns' = turns + 1
  /\ log' = AtTheEnd(Fragments)
  /\ last' = Baselines
  /\ carried' = Carried
  /\ UNCHANGED <<config, reminded, now, prompt, shown, sets>>

Next ==
  \/ \E k \in Kinds, text \in Texts \cup {NoText} : Set(k, text)
  \/ \E t \in 0 .. MaxTime : StartTurn(t)
  \/ ClockFails

Spec == Init /\ [][Next]_vars

-----------------------------------------------------------------------------
(***************************************************************************)
(* Properties.                                                             *)
(***************************************************************************)
\* The last entry of kind k has this message.
TellsLast(entries, k, message) ==
  \E i \in DOMAIN entries :
    /\ entries[i] = [kind |-> k, message |-> message]
    /\ \A j \in DOMAIN entries : j > i => entries[j].kind # k

\* The prompt of a turn ends, for each kind of setting that had a text when
\* the turn started, with the message of that text, also when an earlier turn
\* failed after it had appended, or a text was withdrawn and set again.
\* (The baselines of append*InstructionsLocked.)
PromptShowsSettings ==
  [][\A k \in {"switch", "permission", "collaboration"} :
       prompt' # prompt /\ Present(k) => TellsLast(prompt', k, Message(k))]_vars

Positions(k) == {i \in DOMAIN log : log[i].kind = k}

\* The style a caller has set is the one the model was told last: by the last
\* style fragment, or by a model switch announced with that style after it.  A
\* suppressed style is neither lost nor appended late.
\* (appendStyleInstructionsLocked.)
StyleIsTold ==
  [][turns' # turns /\ Present("style") =>
       IF carried' # NoText THEN carried' = Message("style")
       ELSE TellsLast(log', "style", Message("style"))]_vars

\* What the model was told last of each setting is what the caller has set: the
\* prompt shows it, or a model switch stands for it.
SettingsAreTold == PromptShowsSettings /\ StyleIsTold

\* A setting that does not change adds nothing: two fragments of a kind that
\* follow each other differ, whatever failed in between.  (A style may come
\* back after a model switch stood for another one.)
NoFragmentTwice ==
  \A k \in {"switch", "permission", "collaboration"} :
    \A i, j \in Positions(k) :
      i < j /\ (\A h \in Positions(k) : h <= i \/ h >= j) =>
        log[i].message # log[j].message

\* After every turn the model knows the time to within the interval, and
\* reminders are never closer together than that, although turns come at any
\* rate and the clock may go backwards.  Without an interval every turn reminds,
\* of an earlier time too (shouldAppendReminderLocked).
RemindersAreFresh ==
  LET at == Positions("reminder") IN
  /\ turns > 0 /\ prompt # <<>> =>
       \E i \in at : now - log[i].message < Interval \/ Interval = 0
  /\ \A i, j \in at :
       i < j => log[j].message - log[i].message >= Interval \/ Interval = 0

=============================================================================
