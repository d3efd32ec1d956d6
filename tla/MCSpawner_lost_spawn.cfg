\* Listeners of entity.despawned may spawn.
SPECIFICATION SpawnerSpec
CONSTANTS
  Troll = Troll
  Club = Club
  Bolt = Bolt
  Root <- Prefabs
  Child <- Parts
  ChildOf <- PartOf
  Machined = {Troll}
  Unbuildable = {}
  None = None
  MaxTick = 2
  MaxDelay = 1
  MaxCommands = 2
  DespawnListenersSpawn = TRUE
INVARIANT SpawnsLand
CHECK_DEADLOCK FALSE
