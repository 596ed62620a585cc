\* A template literal holding a parenthesis in the parameter list.
CONSTANT Inputs <- TemplateInputs
INIT Init
NEXT Next
INVARIANT AcceptsExactlyGrammar
\* A call ends by returning or throwing: its final states have no successor.
CHECK_DEADLOCK FALSE
