SPECIFICATION FairSpec
CONSTANTS
  Packages = {"a"}
  MaxVersion = 4
  MaxAge = 3
  MaxFaults = 1
  Urgencies = {"low", "high", "unheard"}
  _min_days <- MCMinDays
  _default_urgency = "medium"
  _bounty_min_age = 1
  _penalty_immune_urgencies = {"high"}
  Bounties = {0, 2}
  Penalties = {0, 1}
  UrgentHints <- MCUrgentHints
  AgeDayHints <- MCAgeDayHints
INVARIANT AgeNotOverstated
PROPERTIES DatesKept MigratesOldEnough AgedInTheEnd
