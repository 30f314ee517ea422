-------------------------- MODULE HistoryProtection --------------------------
(***************************************************************************)
(* internal/model/history_protection.go, and how RunTurnWithOptions uses   *)
(* it: prior turns reach the model only as transcripts inside a context    *)
(* item, so that old text cannot act as instructions.  The history a turn  *)
(* starts with is protected once; what the turn adds is shown as it is.    *)
(*                                                                         *)
(* An item is its kind, its position and whether it has any text; an entry *)
(* of a prompt is an item or a transcript of the lines it is made from.    *)
(* Limits count lines instead of characters.                               *)
(***************************************************************************)
EXTENDS Integers, SequencesExt

CONSTANTS
  LimitChoices, \* MaxTranscriptChars: NoLimit if negative
  NoLimit,
  MaxItems      \* bound on the items of a conversation

ASSUME ProtectionAssumption ==
  /\ LimitChoices \subseteq Nat \cup {NoLimit}
  /\ MaxItems \in Nat

Modes == {"disabled", "untrusted_transcript", "prior_user_transcript"}

\* Tool calls, tool results and reasoning are treated alike and always have
\* text; hosted items and hook prompts have none.
ItemChoices ==
  {[kind |-> "context", blank |-> FALSE], [kind |-> "tool", blank |-> FALSE],
   [kind |-> "hosted", blank |-> TRUE]}
  \cup [kind : {"user", "assistant"}, blank : BOOLEAN]

VARIABLES
  mode,    \* HistoryProtectionConfig
  limit,
  history, \* the session's history
  work,    \* the turn's, as RunTurnWithOptions extends it
  base,    \* protectedInitialHistory
  baseLen, \* initialHistoryLen
  told,    \* the developer message about protection is in the prompt
  running  \* a turn runs

historyVars == <<mode, limit, history, work, base, baseLen, told, running>>

Item(choice, i) == [kind |-> choice.kind, blank |-> choice.blank, lines |-> <<i>>]
Extended(items, choice) == Append(items, Item(choice, Len(items) + 1))

-----------------------------------------------------------------------------
(***************************************************************************)
(* ProtectPromptHistory.                                                   *)
(***************************************************************************)

\* Mutated form: the first user input, not the last.
CurrentStartAtFirstUser(h) ==
  LET users == {i \in DOMAIN h : h[i].kind = "user"} IN
  IF users = {} THEN Len(h) + 1 ELSE CHOOSE i \in users : \A j \in users : i <= j

\* splitPromptHistoryForProtection: the current turn begins at the last user
\* input, or at the context items in front of it.
CurrentStart(h) ==
  LET last == CHOOSE i \in 0 .. Len(h) :
        /\ i > 0 => h[i].kind = "user"
        /\ \A j \in i + 1 .. Len(h) : h[j].kind # "user" IN
  IF last = 0 THEN Len(h) + 1
  ELSE CHOOSE i \in 1 .. last :
         /\ \A j \in i .. last - 1 : h[j].kind = "context"
         /\ i > 1 => h[i - 1].kind # "context"

\* protectedTranscriptLine: does the item become a line of a transcript?
IsLine(item) ==
  /\ ~item.blank
  /\ mode = "prior_user_transcript" => item.kind = "user"

Omitted(item) ==
  mode = "prior_user_transcript" /\ item.kind \in {"assistant", "tool"}

\* renderUntrustedHistoryTranscript keeps the beginning.
Transcript(lines) ==
  [kind |-> "transcript",
   blank |-> limit # NoLimit /\ Len(lines) > limit, \* truncated
   lines |-> IF limit # NoLimit /\ Len(lines) > limit
             THEN SubSeq(lines, 1, limit) ELSE lines]

Flush(acc) ==
  IF acc.lines = <<>> THEN acc
  ELSE [out |-> Append(acc.out, Transcript(acc.lines)), lines |-> <<>>, protected |-> TRUE]

\* A context item stays, after a transcript of what came before it.
Declassify(acc, item) ==
  IF item.kind = "context"
  THEN LET flushed == Flush(acc) IN [flushed EXCEPT !.out = Append(@, item)]
  ELSE [acc EXCEPT !.lines = IF IsLine(item) THEN @ \o item.lines ELSE @,
                   !.protected = @ \/ (~IsLine(item) /\ Omitted(item))]

\* The loop of declassifyHistoryPrefix: what it has after n items.
Passes(h, last) ==
  LET after[n \in 0 .. last] ==
        IF n = 0 THEN [out |-> <<>>, lines |-> <<>>, protected |-> FALSE]
        ELSE Declassify(after[n - 1], h[n])
  IN  after

ProtectPromptHistory(h) ==
  LET start == CurrentStart(h)
      prefix == Flush(Passes(h, start - 1)[start - 1]) IN
  IF mode = "disabled" \/ start = 1 THEN [items |-> h, told |-> FALSE]
  ELSE [items |-> prefix.out \o SubSeq(h, start, Len(h)), told |-> prefix.protected]

-----------------------------------------------------------------------------
(***************************************************************************)
(* Turns.                                                                  *)
(***************************************************************************)
HistoryInit ==
  /\ mode \in Modes
  /\ limit \in LimitChoices
  /\ history = <<>>
  /\ work = <<>>
  /\ base = <<>>
  /\ baseLen = 0
  /\ told = FALSE
  /\ running = FALSE

\* A context item recorded between turns, or a budget reminder.
RecordContext ==
  /\ ~running
  /\ Len(history) < MaxItems
  /\ history' = Extended(history, [kind |-> "context", blank |-> FALSE])
  /\ UNCHANGED <<mode, limit, work, base, baseLen, told, running>>

\* SubmitUserInput appends additional context and the input.
BeginTurn(withContext, blank) ==
  LET shown == IF withContext
               THEN Extended(history, [kind |-> "context", blank |-> FALSE])
               ELSE history
      initial == Extended(shown, [kind |-> "user", blank |-> blank])
      protected == ProtectPromptHistory(initial) IN
  /\ ~running
  /\ Len(initial) <= MaxItems
  /\ running' = TRUE
  /\ work' = initial
  /\ base' = protected.items
  /\ baseLen' = Len(initial)
  /\ told' = protected.told
  /\ UNCHANGED <<mode, limit, history>>

\* The model, the tools or pending input add to the turn.
AddItem(choice) ==
  /\ running
  /\ Len(work) < MaxItems
  /\ work' = Extended(work, choice)
  /\ UNCHANGED <<mode, limit, history, base, baseLen, told, running>>

\* Only a turn that completes, or is aborted with items, becomes history.
EndTurn(kept) ==
  /\ running
  /\ running' = FALSE
  /\ history' = IF kept THEN work ELSE history
  /\ work' = <<>>
  /\ base' = <<>>
  /\ baseLen' = 0
  /\ told' = FALSE
  /\ UNCHANGED <<mode, limit>>

HistoryNext ==
  \/ RecordContext
  \/ \E withContext, blank \in BOOLEAN : BeginTurn(withContext, blank)
  \/ \E choice \in ItemChoices : AddItem(choice)
  \/ \E kept \in BOOLEAN : EndTurn(kept)

HistorySpec == HistoryInit /\ [][HistoryNext]_historyVars

\* Mutated form: every request protects the history anew.
ProtectEachTime == ProtectPromptHistory(work).items

\* Prompt.History of the turn's next request.
PromptHistory == base \o SubSeq(work, baseLen + 1, Len(work))

-----------------------------------------------------------------------------
(***************************************************************************)
(* Properties.                                                             *)
(***************************************************************************)
Entries == [kind : {"context", "user", "assistant", "tool", "hosted", "transcript"},
            blank : BOOLEAN, lines : Seq(1 .. MaxItems)]

\* No transcript is empty unless the limit leaves it nothing.
HistoryTypeOK ==
  /\ mode \in Modes
  /\ limit \in LimitChoices
  /\ history \in Seq(Entries)
  /\ work \in Seq(Entries)
  /\ base \in Seq(Entries)
  /\ \A i \in DOMAIN base : base[i].lines = <<>> => base[i].blank
  /\ baseLen \in 0 .. Len(work)
  /\ told \in BOOLEAN
  /\ running \in BOOLEAN

TurnStart == Len(history) + 1 \* where the turn's own items begin
Protecting == running /\ mode # "disabled"

\* Nothing of a turn that is over reaches the model as a message or a tool item
\* of its own, whatever was steered in, recorded or left blank: it is a context
\* item or inside a transcript (dexco.go: old text "cannot act as
\* higher-priority instructions").
PriorTurnsAreDeclassified ==
  Protecting =>
    \A i \in DOMAIN PromptHistory :
      LET entry == PromptHistory[i] IN
      entry.kind \notin {"context", "transcript"} =>
        \A j \in DOMAIN entry.lines : entry.lines[j] >= TurnStart

\* Every request of a turn shows all items of that turn as they are, at the
\* end: its input, its context, its tool work and input steered in later.
CurrentTurnIsVerbatim ==
  running => IsSuffix(SubSeq(work, TurnStart, Len(work)), PromptHistory)

\* Rewriting keeps the order and repeats nothing, and an earlier item is missing
\* only if it has no text, is of a kind the mode omits, or was cut off.
ContinuityIsKept ==
  LET prompt == PromptHistory IN
  running =>
    /\ \A i, j \in DOMAIN prompt :
         \A a \in DOMAIN prompt[i].lines, b \in DOMAIN prompt[j].lines :
           i < j \/ (i = j /\ a < b) => prompt[i].lines[a] < prompt[j].lines[b]
    /\ \A p \in DOMAIN work :
         \/ \E i \in DOMAIN prompt : p \in ToSet(prompt[i].lines)
         \/ Protecting /\ work[p].kind # "context" /\ ~IsLine(work[p])
         \/ \E i \in DOMAIN prompt :
              prompt[i].kind = "transcript" /\ prompt[i].blank

\* The model is told that history was rewritten exactly when a prior turn said
\* or did something: never a transcript without its explanation, and no
\* explanation for a conversation that has just begun.
RewritingIsExplained ==
  running =>
    (told <=> Protecting /\ \E p \in 1 .. TurnStart - 1 :
                (IsLine(work[p]) /\ work[p].kind # "context") \/ Omitted(work[p]))

\* Old text is data: it reaches the model declassified, and never without the
\* message that explains it.
OldTextIsData == PriorTurnsAreDeclassified /\ RewritingIsExplained

\* The conversation survives its protection: the turn's own items as they are,
\* the earlier ones in order, without loss or repetition.
PromptKeepsConversation == CurrentTurnIsVerbatim /\ ContinuityIsKept

=============================================================================
