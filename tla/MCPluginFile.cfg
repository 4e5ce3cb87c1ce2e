SPECIFICATION Spec
CONSTANTS
  Noise = Noise
  Unset = Unset
  U16_MAX = 20
  U32_MAX = 120
  Texts <- MCTexts
  Ids = {1, 7}
  Groups <- MCGroups
  MAX_MASTERS = 2
  MAX_GROUPS = 2
  MAX_CHANGED = 3
INVARIANTS
  ReadsBack
