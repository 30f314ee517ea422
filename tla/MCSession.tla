------------------------------ MODULE MCSession ------------------------------
EXTENDS Session

\* No additional context, for runs about steering.
NoKeys == <<>>

\* Two steering goroutines are interchangeable.
SteererSymmetry == Permutations(Steerers)

\* Two keys, in the order of sort.Strings.
TwoKeys == <<"app", "editor">>

=============================================================================
