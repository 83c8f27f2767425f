CONSTANTS
  group = group  alice = alice  me = me  aliceLid = aliceLid
  i1 = i1  i2 = i2  i3 = i3
  NoRow = NoRow  None = None  Idle = Idle
  Groups = {group}
  Pns <- MC_Pns
  Lids = {aliceLid}
  PnOf <- MC_PnOf
  Ids = {i1, i2, i3}
  MaxUnread = 2
  Goroutines = {"messages", "history", "contacts"}
  Wire <- MC_Wire
  Batches <- MC_Batches
  Sends = {}
  Opened = {}
  Restarts = FALSE
  Resets = FALSE
  DbErrors = {"both"}
SPECIFICATION Spec
INVARIANTS UnreadMatchesArrivals SenderIsListed ListIsSaved
