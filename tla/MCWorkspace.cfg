SPECIFICATION Spec
CONSTANTS
  Scopes <- MCScopes
CHECK_DEADLOCK FALSE
INVARIANTS WorkStaysOnItsBranch
PROPERTIES SuppressedWasTold ReminderIsQuiet
