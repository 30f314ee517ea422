------------------------------ MODULE MCLibrary ------------------------------
(***************************************************************************)
(* A small library: texts and tags, profiles and tools.                    *)
(***************************************************************************)
EXTENDS Library

-----------------------------------------------------------------------------
(***************************************************************************)
(* Assistant text: two tags, one a prefix of the other.                    *)
(***************************************************************************)
MCTags == {[open |-> <<"<", "a">>, close |-> <<"<", "b">>],
           [open |-> <<"<", "a", "a">>, close |-> <<"<", "b", "a">>]}

-----------------------------------------------------------------------------
(***************************************************************************)
(* Profiles.                                                               *)
(***************************************************************************)
Free == [all |-> {}, any |-> {}]
Read == [all |-> {"read"}, any |-> {}]
Either == [all |-> {}, any |-> {"read", "write"}]
Wild == [all |-> {"any"}, any |-> {}]

H(name, deferred, visibility, required, guard) ==
  [name |-> name, deferred |-> deferred, visibility |-> visibility,
   required |-> required, guard |-> guard, spec |-> TRUE, keyed |-> name = 1]

HandlerLists ==
  { <<H(1, FALSE, Read, Either, "none"), H(2, TRUE, Free, Read, "required"),
      H(3, TRUE, Either, Free, "none")>>,
    <<H(2, TRUE, Read, Free, "fails"), H(2, TRUE, Either, Wild, "required"),
      H(3, TRUE, Free, None, "none"), H(1, TRUE, Free, Read, "denied")>>,
    <<H(0, FALSE, Read, Free, "none"), H(3, TRUE, Free, Free, "none")>> }

FailingLists ==
  { <<None>>, <<[H(1, FALSE, Read, Free, "none") EXCEPT !.spec = FALSE]>>,
    <<H(1, FALSE, None, Free, "none")>> }

Plain == [enabled |-> FALSE, initial |-> 0, repeat |-> 0]

Base(handlers, policy, reviewer, caps) ==
  [identified |-> TRUE, mode |-> "single_role", roles |-> 1, activeRole |-> FALSE,
   instructions |-> FALSE, narration |-> Plain, handlers |-> handlers,
   policy |-> policy, reviewer |-> reviewer, hook |-> FALSE, grants |-> FALSE,
   nested |-> FALSE, caps |-> caps]

\* Profiles whose mode, narration or identity may not be valid.
Doubtful ==
  {[Base(<<>>, "allow_all", FALSE, {"read", "write"})
      EXCEPT !.mode = m, !.roles = n, !.activeRole = a, !.narration = w,
             !.identified = a] :
     m \in {"single_role", "active_role", "combined_roles", "other"}, n \in 1 .. 2,
     a \in BOOLEAN,
     w \in [enabled : {TRUE}, initial : {0, 2}, repeat : 0 .. 2]}

\* Who may let a call pass: the reviewer, the hook, a grant; under a policy that
\* never asks, the reviewer alone, or nobody.
Approvers(p) ==
  {{}, {"reviewer"}} \cup
    IF p \in {"allow_all", "deny_all", "unknown"} THEN {}
    ELSE {{"hook"}, {"reviewer", "hook"}, {"reviewer", "grants"}}

Approving == UNION
  {{[Base(h, p, "reviewer" \in a, {"read", "write"})
      EXCEPT !.hook = "hook" \in a, !.grants = "grants" \in a] :
     h \in HandlerLists, a \in Approvers(p)} : p \in Policies}

Failing ==
  {Base(h, "allow_all", FALSE, {"read", "write"}) : h \in FailingLists}
    \cup {[Base(<<>>, "allow_all", FALSE, {"read"}) EXCEPT !.nested = TRUE]}

MCProfiles == Doubtful \cup Approving \cup Failing

MCText == 1 :> {"mail"} @@ 2 :> {"mail", "send"} @@ 3 :> {"send"}
MCQueries == {<<>>, <<"mail">>, <<"send", "mail">>, <<"mail", "mail", "send">>}

=============================================================================
