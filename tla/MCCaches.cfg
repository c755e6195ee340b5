SPECIFICATION Spec
CONSTANTS
  Layouts <- MCLayouts
INVARIANTS ReadsAreCurrent NoLostWrite
