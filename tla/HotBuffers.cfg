SPECIFICATION FairSpec
CONSTANTS
  Counters = {views}
  Events = {downloads}
  MaxHits = 2
  MaxFailures = 1
  MaxLostAcks = 1
  MaxRestarts = 1
INVARIANTS TypeOK Conservation StatsNeverOverReport
PROPERTIES OrderlyExitLosesNothing EveryHitIsSettled
