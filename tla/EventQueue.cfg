SPECIFICATION FairSpec
CONSTANTS
  Npc = {m1}
  Pc = {p1}
  Timers <- MCTimers
  Named <- MCNamed
  MaxTick = 3
  MaxPerTick = 2
INVARIANTS IndexExact PendingNamesPresent
PROPERTIES DrainingBucketStable ImplementsSchedule NothingStranded
