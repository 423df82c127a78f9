SPECIFICATION Spec
CONSTANTS
  Maps <- MCMaps
  Empreintes <- MCEmpreintes
  Zero <- MCZero
  Tailles <- MCTailles
  Campagnes <- MCCampagnes
  MaxTours = 7
  MaxSeries = 2
  MaxTampons = 6
INVARIANTS SansResidu AllerRetour TamponExclusif RienDePerdu
PROPERTY Fifo
CHECK_DEADLOCK FALSE
