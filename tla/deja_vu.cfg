SPECIFICATION CSpec
CONSTANTS Maps <- MCMapsAnneau MaxTours = 9
INVARIANTS JamaisDejaVu
CHECK_DEADLOCK FALSE
