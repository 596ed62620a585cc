\* Every call of validateNativeFunctionSource returns or throws.
CONSTANT Inputs <- TerminationInputs
SPECIFICATION Spec
PROPERTY Termination
PROPERTY Progress
\* A call ends by returning or throwing: its final states have no successor.
CHECK_DEADLOCK FALSE
