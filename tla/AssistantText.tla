---------------------------- MODULE AssistantText ----------------------------
(***************************************************************************)
(* The assistant's text in one sampling attempt: the citation parser of    *)
(* internal/model/memory_citation.go and what receiveSamplingAttempt in    *)
(* internal/runner/runner.go makes of its chunks.  Providers cut the text  *)
(* anywhere; citation markup must never be shown, whatever the cuts.       *)
(*                                                                         *)
(* A text is a sequence of symbols, with short tags in place of            *)
(* <oai-mem-citation> and its close tag.  In a citation body a symbol      *)
(* stands for a line: a citation entry, a rollout id or neither.           *)
(***************************************************************************)
EXTENDS Integers, SequencesExt

CONSTANTS
  Symbols,
  TagChoices, \* the pairs of tags
  EntryLines, \* the symbols that parse as a citation entry
  IdLines,    \* the symbols that are rollout ids
  MaxText,    \* bound on the symbols of an attempt
  MaxChunk,   \* bound on the symbols of a chunk
  MaxMessages \* bound on the assistant messages of an attempt

ASSUME TextAssumption ==
  /\ TagChoices \subseteq [open : Seq(Symbols) \ {<<>>}, close : Seq(Symbols) \ {<<>>}]
  /\ EntryLines \cup IdLines \subseteq Symbols
  /\ MaxText \in Nat /\ MaxChunk \in Nat /\ MaxMessages \in Nat

VARIABLES
  tags,      \* memoryCitationOpenTag and memoryCitationCloseTag
  parser,    \* the AssistantTextParser
  citation,  \* assistantCitation
  text,      \* assistantText: what the client has seen of this message
  messages,  \* the assistant messages among attempt.items
  phase,     \* of the attempt
  raw,       \* history: the text the provider has sent of this message
  raws       \* history: that of the messages that are finished

textVars == <<tags, parser, citation, text, messages, phase, raw, raws>>

Texts == Seq(Symbols)
Chunks == UNION {[1 .. n -> Symbols] : n \in 1 .. MaxChunk}

NewParser == [pending |-> <<>>, body |-> <<>>, inCitation |-> FALSE]
NoCitation == [entries |-> <<>>, ids |-> <<>>]

-----------------------------------------------------------------------------
(***************************************************************************)
(* AssistantTextParser.                                                    *)
(***************************************************************************)
From(s, i) == SubSeq(s, i, Len(s))

\* strings.Index: where the tag first begins, 0 if nowhere.
IndexOf(s, tag) ==
  LET at == {i \in 1 .. Len(s) - Len(tag) + 1 : SubSeq(s, i, i + Len(tag) - 1) = tag} IN
  IF at = {} THEN 0 ELSE CHOOSE i \in at : \A j \in at : i <= j

\* Mutated form: nothing is held back.
KeepNothing(s, tag) == 0

\* Mutated form: everything is held back.
KeepEverything(s, tag) == Len(s)

\* longestSuffixPrefix: how much of the end may be the beginning of the tag.
Keep(s, tag) ==
  CHOOSE n \in 0 .. Len(s) :
    LET fits(k) == k < Len(tag) /\ IsPrefix(From(s, Len(s) - k + 1), tag) IN
    fits(n) /\ \A k \in n + 1 .. Len(s) : ~fits(k)

\* The next n symbols go to the body of the citation or are visible.
Take(p, n) ==
  LET part == SubSeq(p.pending, 1, n) IN
  IF p.inCitation
  THEN [p EXCEPT !.pending = From(@, n + 1), !.body = @ \o part]
  ELSE [p EXCEPT !.pending = From(@, n + 1), !.visible = @ \o part]

EndCitation(p) ==
  IF p.inCitation
  THEN [p EXCEPT !.citations = Append(@, p.body), !.body = <<>>, !.inCitation = FALSE]
  ELSE p

Tag(p) == IF p.inCitation THEN tags.close ELSE tags.open

\* The next tag opens or closes a citation, what is in front of it is taken.
PassTag(p) ==
  LET at == IndexOf(p.pending, Tag(p))
      q == Take(p, at - 1)
      rest == From(q.pending, Len(Tag(p)) + 1) IN
  IF at = 0 THEN p
  ELSE IF p.inCitation THEN [EndCitation(q) EXCEPT !.pending = rest]
  ELSE [q EXCEPT !.pending = rest, !.inCitation = TRUE]

\* The loop of drain: what it has after n tags.
Rounds(p) ==
  LET after[n \in 0 .. Len(p.pending)] == IF n = 0 THEN p ELSE PassTag(after[n - 1])
  IN  after

Drain(p, finishing) ==
  LET q == Rounds(p)[Len(p.pending)] IN
  IF finishing THEN EndCitation(Take(q, Len(q.pending)))
  ELSE Take(q, Len(q.pending) - Keep(q.pending, Tag(q)))

\* A line path:first-last|note=[...], and a line of the ids block.
IsEntry(l) == l \in EntryLines
IsId(l) == l \in IdLines

\* A rollout id counts once.
AddId(ids, id) == IF Contains(ids, id) THEN ids ELSE Append(ids, id)

\* The ids with n more of them.
Added(ids, more) ==
  LET after[n \in 0 .. Len(more)] == IF n = 0 THEN ids ELSE AddId(after[n - 1], more[n])
  IN  after

AddIds(ids, more) == Added(ids, more)[Len(more)]

Cite(cited, l) ==
  [entries |-> IF IsEntry(l) THEN Append(cited.entries, l) ELSE cited.entries,
   ids |-> IF IsId(l) THEN AddId(cited.ids, l) ELSE cited.ids]

\* The loops of ParseMemoryCitation: what they have after n lines of a body, and
\* after n bodies.
CiteLines(cited, body) ==
  LET after[n \in 0 .. Len(body)] == IF n = 0 THEN cited ELSE Cite(after[n - 1], body[n])
  IN  after

CiteBody(cited, body) == CiteLines(cited, body)[Len(body)]

CiteBodies(bodies) ==
  LET after[n \in 0 .. Len(bodies)] ==
        IF n = 0 THEN NoCitation ELSE CiteBody(after[n - 1], bodies[n])
  IN  after

\* A citation with neither entries nor ids is nil; NoCitation behaves like it.
ParseMemoryCitation(bodies) == CiteBodies(bodies)[Len(bodies)]

\* Mutated form: nothing is deduplicated.
MergeAll(left, right) ==
  [entries |-> left.entries \o right.entries, ids |-> left.ids \o right.ids]

MergeMemoryCitations(left, right) ==
  [entries |-> left.entries \o right.entries, ids |-> AddIds(left.ids, right.ids)]

\* A chunk: the parser after it, what became visible and what was cited.
Chunked(p, more, finishing) ==
  LET left(q) ==
        [parser |-> [pending |-> q.pending, body |-> q.body, inCitation |-> q.inCitation],
         visible |-> q.visible, citation |-> ParseMemoryCitation(q.citations)] IN
  left(Drain([pending |-> p.pending \o more, body |-> p.body, visible |-> <<>>,
              citations |-> <<>>, inCitation |-> p.inCitation], finishing))

Push(p, more) == Chunked(p, more, FALSE)
Finish(p) == Chunked(p, <<>>, TRUE)

StripMemoryCitations(whole) ==
  LET chunk == Push(NewParser, whole)
      tail == Finish(chunk.parser) IN
  [visible |-> chunk.visible \o tail.visible,
   citation |-> MergeMemoryCitations(chunk.citation, tail.citation)]

-----------------------------------------------------------------------------
(***************************************************************************)
(* receiveSamplingAttempt.                                                 *)
(***************************************************************************)
TextInit ==
  /\ tags \in TagChoices
  /\ parser = NewParser
  /\ citation = NoCitation
  /\ text = <<>>
  /\ messages = <<>>
  /\ phase = "receiving"
  /\ raw = <<>>
  /\ raws = <<>>

Sent == Len(raw) + Len(FlattenSeq(raws))

\* output_item.added with text, or a text delta.
Delta(more) ==
  LET chunk == Push(parser, more) IN
  /\ phase = "receiving"
  /\ Sent + Len(more) <= MaxText
  /\ Len(raws) < MaxMessages
  /\ raw' = raw \o more
  /\ parser' = chunk.parser
  /\ citation' = MergeMemoryCitations(citation, chunk.citation)
  /\ text' = text \o chunk.visible
  /\ UNCHANGED <<tags, messages, phase, raws>>

\* receiveSamplingAttempt returns: its locals are gone.
Return(how) ==
  /\ phase' = how
  /\ parser' = NewParser
  /\ citation' = NoCitation
  /\ text' = <<>>
  /\ raw' = <<>>

MayShow == \E more \in Chunks : Push(parser, more).visible # <<>>

\* The client's sink fails on visible text: an empty attempt is returned.
EmitFails ==
  /\ phase = "receiving"
  /\ MayShow = TRUE
  /\ Return("failed")
  /\ messages' = <<>>
  /\ raws' = <<>>
  /\ UNCHANGED tags

NextMessage(finished) ==
  /\ parser' = NewParser
  /\ citation' = NoCitation
  /\ text' = <<>>
  /\ raw' = <<>>
  /\ raws' = Append(raws, raw)

\* output_item.done: the provider repeats the text (content = raw) or leaves
\* it out; then what was streamed is the message.
MessageDone(content) ==
  LET tail == Finish(parser)
      streamed == text \o tail.visible
      item == StripMemoryCitations(content) IN
  /\ phase = "receiving"
  /\ Len(raws) < MaxMessages
  /\ messages' = Append(messages,
       [content |-> IF item.visible = <<>> THEN streamed ELSE item.visible,
        citation |-> IF item.citation = NoCitation
                     THEN MergeMemoryCitations(citation, tail.citation)
                     ELSE item.citation,
        seen |-> streamed])
  /\ NextMessage(tail.parser)
  /\ UNCHANGED <<tags, phase>>

FinalMessage == IF messages = <<>> THEN <<>> ELSE Last(messages).content

\* response.completed: text without an output_item.done becomes a message, but
\* only if no message of the attempt had text.
CompleteText ==
  LET tail == Finish(parser)
      streamed == text \o tail.visible IN
  /\ phase = "receiving"
  /\ Return("completed")
  /\ IF streamed # <<>> /\ FinalMessage = <<>>
     THEN /\ messages' = Append(messages,
               [content |-> streamed,
                citation |-> MergeMemoryCitations(citation, tail.citation),
                seen |-> streamed])
          /\ raws' = Append(raws, raw)
     ELSE UNCHANGED <<messages, raws>>
  /\ UNCHANGED tags

TextNext ==
  \/ \E more \in Chunks : Delta(more)
  \/ EmitFails
  \/ \E content \in {<<>>, raw} : MessageDone(content)
  \/ CompleteText

TextSpec == TextInit /\ [][TextNext]_textVars

-----------------------------------------------------------------------------
(***************************************************************************)
(* Properties.                                                             *)
(***************************************************************************)
\* What the parser holds back is always shorter than a tag, however the
\* text is cut: the next symbols decide whether it is one.
TextTypeOK ==
  /\ tags \in TagChoices
  /\ parser \in [pending : Texts, body : Texts, inCitation : BOOLEAN]
  /\ Len(parser.pending) < Len(IF parser.inCitation THEN tags.close ELSE tags.open)
  /\ text \in Texts
  /\ citation \in [entries : Seq(EntryLines), ids : Seq(IdLines)]
  /\ messages \in Seq([content : Texts, seen : Texts,
                       citation : [entries : Seq(EntryLines), ids : Seq(IdLines)]])
  /\ phase \in {"receiving", "completed", "failed"}

\* Where a tag begins next in t, from its k-th symbol on; 0 if nowhere.
NextTag(t, tag, k) ==
  LET at == {i \in k .. Len(t) - Len(tag) + 1 : SubSeq(t, i, i + Len(tag) - 1) = tag} IN
  IF at = {} THEN 0 ELSE CHOOSE i \in at : \A j \in at : i <= j

\* The reference, from each symbol on: a citation ends at the first close tag,
\* and one that stays open with the text.
Shown(marks, t) ==
  LET from[k \in 1 .. Len(t) + 1] ==
        LET i == NextTag(t, marks.open, k)
            body == i + Len(marks.open)
            j == NextTag(t, marks.close, body)
            after == from[j + Len(marks.close)] IN
        CASE i = 0 -> [visible |-> From(t, k), bodies |-> <<>>]
          [] i > 0 /\ j = 0 -> [visible |-> SubSeq(t, k, i - 1), bodies |-> <<From(t, body)>>]
          [] OTHER -> [visible |-> SubSeq(t, k, i - 1) \o after.visible,
                       bodies |-> <<SubSeq(t, body, j - 1)>> \o after.bodies]
  IN  from

Reference(t) == Shown(tags, t)[1]

\* However the text is cut into chunks, the client has seen what the whole text
\* so far shows without its citations, but for the beginning of a tag: no part
\* of a citation is ever shown, and no text outside is lost or delayed.
ShownIsVisible ==
  LET whole == Reference(raw).visible IN
  phase = "receiving" =>
    /\ IsPrefix(text, whole)
    /\ Len(whole) - Len(text) < Len(tags.open)

\* A finished message says what the client has seen of it and what the whole
\* text says, whether the provider repeats the text or not.
MessagesShowText ==
  \A i \in DOMAIN messages :
    LET whole == Reference(raws[i]).visible IN
    messages[i].content = whole /\ messages[i].seen = whole

\* It carries every citation of the text once, and nothing of the message
\* before it.
MessagesCiteText ==
  \A i \in DOMAIN messages :
    messages[i].citation = ParseMemoryCitation(Reference(raws[i]).bodies)

MessagesMatchStream == MessagesShowText /\ MessagesCiteText

=============================================================================
