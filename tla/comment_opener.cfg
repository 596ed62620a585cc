\* A block comment opener '/*/' is closed by its own '*'.
CONSTANT Inputs <- CommentInputs
INIT Init
NEXT Next
INVARIANT AcceptsExactlyGrammar
\* A call ends by returning or throwing: its final states have no successor.
CHECK_DEADLOCK FALSE
