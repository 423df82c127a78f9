SPECIFICATION CliSpec
CONSTANTS
  Maps <- MCMaps
  AllOptions <- MCOptions
  Names <- MCNames
  AllFlags <- MCFlags
INVARIANTS ResultatJuste ToutEstPris CodeFidele
PROPERTIES PasDeTourInutile RendLaMain
CHECK_DEADLOCK FALSE
