SPECIFICATION Spec
CONSTANTS
  m1 = m1
  m2 = m2
  m3 = m3
  report = report
  download = download
  preview = preview
  NoName = NoName
  Foreign = Foreign
  Partial = Partial
  None = None
  Ids = {m1, m2, m3}
  SenderNames = {report}
  NameOf <- MCNameOf
  Downloaders = {d1}
  Dirs = {download, preview}
  Removable = {m2, m3}
  Restarts = TRUE
INVARIANTS SavedFilesAreWhole PartsAreInUse
  
