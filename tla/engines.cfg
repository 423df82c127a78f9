SPECIFICATION Spec
CONSTANTS MapsDe <- MCMapsDe WordBits = 3
INVARIANTS Exact DansLeTampon Replie ListesFideles SansReallocation SansDebordement Remplissage
PROPERTY Conforme
