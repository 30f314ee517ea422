-------------------------- MODULE MCSamplingAttempt --------------------------
EXTENDS SamplingAttempt

SerialTool   == [shared |-> FALSE, waits |-> FALSE]
ParallelTool == [shared |-> TRUE,  waits |-> FALSE]
WaitTool     == [shared |-> FALSE, waits |-> TRUE]

\* Tools that return by themselves, for runs with three calls in flight.
QuickTools == {SerialTool, ParallelTool}

\* With a tool that waits for its context, for runs about steering.
AllTools == {SerialTool, ParallelTool, WaitTool}

=============================================================================
