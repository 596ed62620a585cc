\* validateNativeFunctionSource against the NativeFunction grammar.
CONSTANT Inputs <- AgreementInputs
INIT Init
NEXT Next
INVARIANT TypeOK
INVARIANT AgreesOutsideDivergences
INVARIANT AcceptsOnlyMarked
PROPERTY CursorMonotone
\* A call ends by returning or throwing: its final states have no successor.
CHECK_DEADLOCK FALSE
