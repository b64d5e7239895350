SPECIFICATION FairSpec
CONSTANTS
  Downloads = {d1, d2}
  MaxFile = 2
  Stems = {a}
  NameOf <- Names
  SizeOf <- Sizes
  Slots = 1
  MaxArchive = 2
  MaxDeletions = 1
PROPERTIES EverySlotComesBack
CHECK_DEADLOCK FALSE
