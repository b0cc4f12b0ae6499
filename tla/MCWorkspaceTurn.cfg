SPECIFICATION Spec
CONSTANTS
  Scopes <- MCTurnScopes
CHECK_DEADLOCK FALSE
PROPERTY TurnOnItsCheckout
