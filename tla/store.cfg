SPECIFICATION Spec
CONSTANTS
  Demi = 4
  Listes <- MCListes
  Empreintes <- MCEmpreintes
  MaxAppels = 7
INVARIANTS Insertion CompteJuste EmpreinteFidele PlanAJour
CHECK_DEADLOCK FALSE
