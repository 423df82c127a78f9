SPECIFICATION Spec
CONSTANTS Tabs = {t1, t2} Duree <- MCDuree MaxRequetes = 4 Delais = FALSE Etrangers = FALSE
INVARIANT DecorAJour
CHECK_DEADLOCK FALSE
