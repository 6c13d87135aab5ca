SPECIFICATION FairSpec
CONSTANTS
  f1 = f1
  f2 = f2
  f3 = f3
  None = None
  Track = {f1, f2}
  Cell = {"inside"}
  Capacity = 2
  TouchPoints = {1, 2}
  Contacts = 2
  Tilts = {}
  ZoneTables <- OneTable
PROPERTIES Settles TapIsFelt
