\* A string literal with a line continuation.
CONSTANT Inputs <- LineContinuationInputs
INIT Init
NEXT Next
INVARIANT AcceptsExactlyGrammar
\* A call ends by returning or throwing: its final states have no successor.
CHECK_DEADLOCK FALSE
