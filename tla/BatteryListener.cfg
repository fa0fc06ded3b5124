CONSTANT Builds = {TRUE, FALSE}
SPECIFICATION FairSpec
INVARIANTS
  PalUpToDate
  NoBadJoin
PROPERTIES
  QuietAfterReset
  ServiceDiedReturns
