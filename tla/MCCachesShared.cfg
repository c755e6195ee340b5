SPECIFICATION Spec
CONSTANTS
  Layouts <- MCLayouts
INVARIANT NoLostCoefficients
