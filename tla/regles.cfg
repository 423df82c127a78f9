SPECIFICATION FairSpec
CONSTANT Maps <- MCMaps
INVARIANTS TypeOK Compteurs Confinement
PROPERTIES SansVentSEteint ToutRedevientDisponible
