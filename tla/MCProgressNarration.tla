------------------------- MODULE MCProgressNarration -------------------------
EXTENDS ProgressNarration

CONSTANTS first, second, k1, k2

\* Two pieces of work with keys of their own, or two calls of one tool in
\* policy review, which share the tool's name.
KeysOfWork == {w \in [Works -> ProgressKeys] : w[first] = k1}

=============================================================================
