CONSTANTS
  Messages = {"", "Refusing to write torrc"}
  MaxCalls = 2
SPECIFICATION Spec
PROPERTY ImplementsAbstract
CHECK_DEADLOCK FALSE
