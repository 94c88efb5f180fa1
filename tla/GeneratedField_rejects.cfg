SPECIFICATION Spec
CONSTANTS
  FieldSchemas <- MCFieldSchemas
  Inputs <- MCInputs
  ItemNames <- MCItemNames
  TextLength <- MCTextLength
INVARIANTS
  InvalidIsRejected
\* A life ends.
CHECK_DEADLOCK FALSE
