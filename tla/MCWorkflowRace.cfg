SPECIFICATION Spec
CONSTANT Scopes <- RaceScope
PROPERTY LostRaceRestoresWip
CHECK_DEADLOCK FALSE
