SPECIFICATION Spec
CONSTANTS
  Requests = {q1}
  Histories = {h1, h2}
  Stored = 4
  Newest = 4
  MaxNewest = 5
  Textless = {2}
  Quantity = 3
  PageSize = 1
  MaxRestarts = 1
INVARIANTS TypeOK   
PROPERTIES RequestsEnd 
CHECK_DEADLOCK FALSE
