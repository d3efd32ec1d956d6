SPECIFICATION HierarchySpec
CONSTANTS
  Entity = {a, b, c}
  NULL = NULL
  Component = {hitbox}
  Local = {identity}
  identity_local = identity
VIEW DormancyView
SYMMETRY Interchangeable
INVARIANTS TreeWellFormed DormancyCover CascadeContract
PROPERTIES ForestKept ActivityFollowsCover
CHECK_DEADLOCK FALSE
