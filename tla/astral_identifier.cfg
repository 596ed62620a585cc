\* A function name that starts with an astral code point.
CONSTANT Inputs <- AstralInputs
INIT Init
NEXT Next
INVARIANT AcceptsExactlyGrammar
\* A call ends by returning or throwing: its final states have no successor.
CHECK_DEADLOCK FALSE
