\* A string literal holding U+2028.
CONSTANT Inputs <- SeparatorInputs
INIT Init
NEXT Next
INVARIANT AcceptsExactlyGrammar
\* A call ends by returning or throwing: its final states have no successor.
CHECK_DEADLOCK FALSE
