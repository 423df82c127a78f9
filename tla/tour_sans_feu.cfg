SPECIFICATION RSpec
CONSTANTS Maps <- MCMaps AllOptions <- MCOptions
PROPERTY PasDeTourSansFeu
CHECK_DEADLOCK FALSE
