SPECIFICATION Spec
CONSTANTS
  Commands = {"imports", "delete", "nodes", "updates", "node"}
  Lines <- MCLines
INVARIANTS
  ParametersArrive
  KeysArrive
  IdArrives
  LengthArrives
  Routed
PROPERTY Parsed
CHECK_DEADLOCK FALSE
