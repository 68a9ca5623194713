SPECIFICATION Spec
CONSTANTS
  Install = {i1, i2}
  Activation = {a1, a2, a3}
  Challenge = {c1, c2}
  Lifetime = 2
  None = None
SYMMETRY Symmetry
INVARIANT ReceiverInv
PROPERTIES MovedByConsent SeatedOnOpenGrant ImplementsOneSeat
