\* A string literal ending in an escaped backslash.
CONSTANT Inputs <- EscapedBackslashInputs
INIT Init
NEXT Next
INVARIANT AcceptsExactlyGrammar
\* A call ends by returning or throwing: its final states have no successor.
CHECK_DEADLOCK FALSE
