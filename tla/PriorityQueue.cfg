SPECIFICATION Spec
CONSTANTS
  lidChat = lidChat
  pnChat = pnChat
  others = {o1, o2, o3, o4}
  Chats <- MC_Chats
  Groups = {o1, o2, o3, o4}
  Merged <- MC_Merged
  Times = {0, 1}
SYMMETRY MC_Symmetry
INVARIANTS TypeOK IndexIsPlace SameConversations HeapOrdered
PROPERTY ImplementsList
