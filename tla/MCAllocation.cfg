CONSTANTS
  o1 = o1
  o2 = o2
  Objs <- MCObjs
  VPages = {1, 2, 3}
  HugePages = {1, 2}
  Offsets = {0, 1}
  PageCounts = {1, 2}
  MlockOk = {TRUE, FALSE}
  MaxCalls = 6
SYMMETRY MCSymmetry
SPECIFICATION Spec
INVARIANTS
  TypeOK
  OwnedRegionsMapped
