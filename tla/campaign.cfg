SPECIFICATION FairSpec
CONSTANTS
  Drivers = {d1, d2}
  MaxSeed = 2
  NoSeed = NoSeed
  TornLines = TRUE
CHECK_DEADLOCK FALSE
INVARIANTS EverySeedIsAnswered LinesAreOfTheirSeed ReadingsCostNoFinding NoInnocentBlame
PROPERTIES CampaignEnds
