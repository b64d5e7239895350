SPECIFICATION Spec
CONSTANTS
  ann = ann
  bob = bob
  eve = eve
  Users = {ann, bob, eve}
  s1 = s1
  s2 = s2
  Slots = {s1, s2}
  Limit = 2
  Updates <- MCUpdates
  MaxRequests = 8
INVARIANTS TypeOK AnAdminRemains OneFounder SerialGuessesAreCounted
PROPERTIES LocksHold
SYMMETRY MCSymmetry
CHECK_DEADLOCK FALSE
