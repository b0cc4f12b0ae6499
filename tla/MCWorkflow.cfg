SPECIFICATION Spec
CONSTANT Scopes <- AllScopes
INVARIANTS
  MergeIsBacked
  OneCommentPerMark
  RoutingFollowsEvidence
  OneActiveAssignment
CHECK_DEADLOCK FALSE
