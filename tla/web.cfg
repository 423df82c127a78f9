SPECIFICATION FairSpec
CONSTANTS Tabs = {t1, t2} Duree <- MCDuree MaxRequetes = 4 Delais = TRUE Etrangers = TRUE
INVARIANTS ReponseCoherente ServeurCoherent UnSeulMoteur
PROPERTY NAttendPas
CHECK_DEADLOCK FALSE
