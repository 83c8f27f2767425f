CONSTANTS
  group = group  alice = alice  me = me  aliceLid = aliceLid
  i1 = i1  i2 = i2  i3 = i3
  NoRow = NoRow  None = None  Idle = Idle
  Groups = {group}
  Pns <- MC_Pns
  Lids = {}
  PnOf <- MC_NoLids
  Ids = {i1, i2}
  MaxUnread = 2
  Goroutines = {"messages", "reader", "appState"}
  Wire <- MC_GroupWire
  Batches = {}
  Sends <- MC_Sends
  Opened = {group}
  Restarts = TRUE
  Resets = TRUE
  DbErrors = {"messages"}
SPECIFICATION Spec
INVARIANTS TypeOK 
PROPERTY CountsRiseByArrivals
