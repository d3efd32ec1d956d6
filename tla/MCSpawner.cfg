\* A troll with a machine and a club, a bolt with neither, three ticks.
SPECIFICATION SpawnerSpec
CONSTANTS
  Troll = Troll
  Club = Club
  Bolt = Bolt
  Root <- Prefabs
  Child <- Parts
  ChildOf <- PartOf
  Machined = {Troll}
  Unbuildable = {Bolt}
  None = None
  MaxTick = 2
  MaxDelay = 1
  MaxCommands = 2
  DespawnListenersSpawn = FALSE
INVARIANTS DeadlinesKept SpawnsLand
PROPERTIES CapturedExactly LifetimesInOrder
CHECK_DEADLOCK FALSE
