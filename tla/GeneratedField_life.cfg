SPECIFICATION Spec
CONSTANTS
  FieldSchemas <- MCFieldSchemas
  Inputs <- MCInputs
  ItemNames <- MCItemNames
  TextLength <- MCTextLength
INVARIANTS
  TypeOK
  NilIsNotRead
  AcceptsWhatIsValid
  ValidStaysValid
\* A life ends.
CHECK_DEADLOCK FALSE
