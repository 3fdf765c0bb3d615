CONSTANTS
  WorkerId = {w1, w2, w3, w4}
  Fd = {f1, f2, f3, f4}
  GroupId = {g1, g2}
  Worker <- MCWorker
  NoWorker = NoWorker
SPECIFICATION RotSpec
SYMMETRY MCSymmetry
INVARIANTS
  TypeOK
  Consistent
  EvenShare
PROPERTY
  ChoiceIsRegistered
