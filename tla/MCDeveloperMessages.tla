------------------------- MODULE MCDeveloperMessages -------------------------
EXTENDS DeveloperMessages

CONSTANTS a, long1, long2, mA, mLong

\* Two texts longer than the limit with the same head are one message.
RenderedTexts == [t \in Texts |-> IF t = a THEN mA ELSE mLong]

NothingSet == [k \in Kinds |-> NoText]
StyleDisabled == [NothingSet EXCEPT !["style"] = Disabled, !["permission"] = a]
Everything == [k \in Kinds |-> a]
Settings == {NothingSet, StyleDisabled, Everything}

=============================================================================
