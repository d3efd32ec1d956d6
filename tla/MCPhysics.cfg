\* Two entities, two bodies used twice, two ticks with two inputs.
SPECIFICATION PhysicsSpec
CONSTANTS
  Entity = {a, b}
  Value <- BodyIds
  Absent = Absent
  Input = {jump, fire}
  MaxTick = 2
  MaxBodies = 2
  MaxSequence = 2
  NoBody = NoBody
  None = None
  UserPhases = {5}
  ListenersRebind = FALSE
SYMMETRY Interchangeable
INVARIANTS InputsOnTime FramesJournaled BodiesMatchRows ContactsNameOwners
PROPERTY RowsKept
CHECK_DEADLOCK FALSE
