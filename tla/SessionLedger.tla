---------------------------- MODULE SessionLedger ----------------------------
(***************************************************************************)
(* What a session promises of the conversation it keeps, without mutex,    *)
(* channels, steering goroutines, budget or baselines: a ledger that is    *)
(* only ever extended, and at most one open turn.  A completed turn enters *)
(* it as a whole, a failed one not at all, and an aborted one with what it *)
(* was asked and some part of its work; the context the turn showed goes   *)
(* with it.                                                                *)
(***************************************************************************)
EXTENDS SequencesExt

VARIABLES
  ledger,  \* the durable conversation
  shown,   \* the additional context the ledger shows
  open,    \* a turn is open
  asked,   \* the prompt the open turn began with
  work,    \* what the open turn has added to it
  showing, \* the context that prompt shows
  queue    \* input accepted for the open turn and not yet part of its work

turn == <<open, asked, work, showing, queue>>
vars == <<ledger, shown, turn>>

Closed == open = FALSE /\ asked = <<>> /\ work = <<>> /\ queue = <<>>

Init == Closed

\* Between turns the ledger may be written to.
Write ==
  /\ Closed /\ Closed'
  /\ IsPrefix(ledger, ledger')
  /\ UNCHANGED <<shown, showing>>

\* A turn begins with everything in the ledger and an input of its own.
Open ==
  /\ Closed
  /\ IsPrefix(ledger, ledger')
  /\ open' = TRUE
  /\ IsStrictPrefix(ledger', asked')
  /\ work' = <<>> /\ queue' = <<>>
  /\ UNCHANGED shown

\* While it is open only the turn's end touches the ledger.
Accept ==
  /\ open
  /\ queue' # <<>> /\ queue' = Append(queue, Last(queue'))
  /\ UNCHANGED <<ledger, shown, open, asked, work, showing>>

Respond ==
  /\ open
  /\ work' # <<>> /\ work' = Append(work, Last(work'))
  /\ UNCHANGED <<ledger, shown, open, asked, showing, queue>>

Take ==
  /\ open
  /\ work' = work \o queue
  /\ queue' = <<>>
  /\ UNCHANGED <<ledger, shown, open, asked, showing>>

\* The end: the work is kept, or cut short after what was asked, or the turn
\* leaves no trace.
Keep == open /\ Closed' /\ ledger' = asked \o work /\ shown' = showing
CutShort == open /\ Closed' /\ IsStrictPrefix(asked, ledger') /\ shown' = showing
Drop == open /\ Closed' /\ UNCHANGED <<ledger, shown>>

Next == Write \/ Open \/ Accept \/ Respond \/ Take \/ Keep \/ CutShort \/ Drop

Spec == Init /\ [][Next]_vars

=============================================================================
