SPECIFICATION Spec
VIEW MCView
SYMMETRY MCSymmetry
CONSTANTS
  None = None
  s1 = s1
  s2 = s2
  ann = ann
  ANN = ANN
  bob = bob
  Sessions = {s1, s2}
  Names = {ann, ANN, bob}
  Fold <- MCFold
  K_START = 1
  IdLimit = 6
INVARIANTS TypeOK IdsUnique SessionsMatch RoomRefsLive NamesUnique RoomListsAgree
PROPERTY IdsConserved
