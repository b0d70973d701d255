CONSTANTS
  t1 = t1
  t2 = t2
  t3 = t3
  t4 = t4
  Thread <- MCThread
  GenMod = 2
SPECIFICATION FairSpec
INVARIANTS
  Inv
PROPERTIES
  ImplementsBarrier
  AllReleased
