CONSTANT MaxChanges = 4
SPECIFICATION Spec
\* A process blocked on Recv or on waitc does not stop, it hangs: whether it
\* hangs for ever is what TerminatesWhenStreamEnds asks.
CHECK_DEADLOCK FALSE
INVARIANT TypeOK
INVARIANT CleanExitPrintedAll
PROPERTY TerminatesWhenStreamEnds
PROPERTY PrintsNextInOrder
PROPERTY DisplaySpec
