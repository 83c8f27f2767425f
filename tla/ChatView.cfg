CONSTANTS
  pn = pn  lid = lid  o1 = o1  o2 = o2  n1 = n1
  Chats = {pn, lid}
  LidChat = lid
  PnChat = pn
  Ids = {o1, o2, n1}
  TsOf <- MC_TsOf
  ChatOf <- MC_ChatOf
  Live = {n1}
  Infinity = 9
  PageSize = 2
  MorePageSize = 1
  MaxCommands = 1
  MaxDraws = 1
  None = None
SPECIFICATION Spec
INVARIANTS TypeOK FullPageVisible
PROPERTY MoreRevealsPage
