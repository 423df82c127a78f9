SPECIFICATION Spec
CONSTANTS
  Configs <- MCConfigs
  Hasards = {0, 1, 2, 5}
  Rafales = {1, 8}
INVARIANTS CarteJouable ProportionsTenues Extremes
CHECK_DEADLOCK FALSE
