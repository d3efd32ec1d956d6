\* Two slots used twice, the pool of the tree and another one, a queue of two commands, one view deep.
SPECIFICATION FairWorldSpec
CONSTANTS
  MaxSlots = 2
  MaxGeneration = 2
  Component = {node, health}
  Node = node
  TreeComponent = {node}
  MaxCommands = 2
  MaxIterating = 1
INVARIANTS RowsOnlyForAlive SpawnOwed InFlightAlive FreeListExact
PROPERTIES FlushCompletes HandlesKept
