SPECIFICATION Spec
CONSTANTS
  Emails = {ann}
  Tabs = {o1, o2}
  Guests = {g1, g2}
  MaxTries = 1
  MaxLinks = 2
  MaxCodes = 2
  MaxAtOnce = 2
SYMMETRY Threads
INVARIANTS TypeOK RestrictedHasEmails AccessIsEarned CodesAreSpent
PROPERTIES ReplacedCodesAreDead
CHECK_DEADLOCK FALSE
