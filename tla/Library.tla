------------------------------- MODULE Library -------------------------------
(***************************************************************************)
(* The parts of the library that share no state with each other: the       *)
(* denial circuit breaker, the assistant's text, history protection and    *)
(* profile sessions.  A behaviour is a behaviour of one of them; component *)
(* says of which, and the variables of the others stay as they are.        *)
(***************************************************************************)
EXTENDS GuardrailReviews, AssistantText, HistoryProtection, ProfileSession

VARIABLE component

libraryVars == <<component, vars, textVars, historyVars, profileVars>>

LibraryInit ==
  /\ component \in {"breaker", "text", "history", "profile"}
  /\ Init /\ TextInit /\ HistoryInit /\ ProfileInit
  /\ component # "text" => tags = CHOOSE t \in TagChoices : TRUE
  /\ component # "history" => mode = "disabled" /\ limit = NoLimit
  /\ component # "profile" => profile = CHOOSE p \in ProfileChoices : TRUE

LibraryNext ==
  /\ UNCHANGED component
  /\ \/ component = "breaker" /\ Next /\ UNCHANGED <<textVars, historyVars, profileVars>>
     \/ component = "text" /\ TextNext /\ UNCHANGED <<vars, historyVars, profileVars>>
     \/ component = "history" /\ HistoryNext /\ UNCHANGED <<vars, textVars, profileVars>>
     \/ component = "profile" /\ ProfileNext /\ UNCHANGED <<vars, textVars, historyVars>>

LibrarySpec == LibraryInit /\ [][LibraryNext]_libraryVars

-----------------------------------------------------------------------------
\* The four type invariants, with what goes with each: the breaker's window is
\* bounded, the parser never holds back a whole tag, no transcript is empty
\* unless the limit leaves it nothing, and the router's names are distinct.
LibraryTypeOK == TypeOK /\ TextTypeOK /\ HistoryTypeOK /\ ProfileTypeOK

=============================================================================
