SPECIFICATION CSpec
CONSTANTS Maps <- MCMaps MaxTours = 9
INVARIANTS Horloge Cone Front
CHECK_DEADLOCK FALSE
