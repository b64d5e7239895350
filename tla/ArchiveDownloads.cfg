SPECIFICATION FairSpec
CONSTANTS
  Downloads = {d1, d2, d3}
  MaxFile = 3
  Stems = {a}
  NameOf <- Names
  SizeOf <- Sizes
  Slots = 2
  MaxArchive = 2
  MaxDeletions = 1
INVARIANTS TypeOK SlotsBalance MembersAreDistinct OnlyWholeArchivesCount
PROPERTIES OthersComeBack
CHECK_DEADLOCK FALSE
