CONSTANTS
  BYTE = 3
  SECTOR_STEP = 2
  GroupField = 1
  SectorField = 1
  GroupValues = 2
  SectorValues = 2
  TableField = 1
  MaxCode = 2
  OutputLens = {1, 4, 5}
  SectionLens = {0, 1, 3, 5, 7}
  Budgets = {0, 1, 2, 3}
SPECIFICATION SectionSpec
INVARIANTS
  SectorsCover
  AcceptedIsWhole
CHECK_DEADLOCK FALSE
