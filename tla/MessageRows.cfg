CONSTANTS
  group = group  alice = alice  bob = bob  me = me  aliceLid = aliceLid
  i1 = i1  i2 = i2  w1 = w1  w2 = w2
  NoRow = NoRow
  Idle = Idle
  Groups = {group}
  Pns <- MC_Pns
  Lids = {aliceLid}
  PnOf <- MC_PnOf
  Ids = {i1, i2}
  Workers = {w1, w2}
  Wire <- MC_Wire
  Claims <- MC_Claims
  Admins <- MC_Admins
SPECIFICATION Spec
SYMMETRY MC_WorkerSymmetry
INVARIANTS TypeOK RevokedRowsAreBare
PROPERTIES RevokesAreFinal FirstWriteWins ClaimsAreEntitled ImplementsLifecycle
