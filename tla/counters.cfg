SPECIFICATION CSpec
CONSTANT Maps <- MCMaps
INVARIANTS Exact Compte
PROPERTY Conforme
