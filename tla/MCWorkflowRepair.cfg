SPECIFICATION Spec
CONSTANT Scopes <- RepairScope
PROPERTY SecondAssignmentRefused
CHECK_DEADLOCK FALSE
