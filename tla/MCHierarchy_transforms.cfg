SPECIFICATION HierarchySpec
CONSTANTS
  Entity = {a, b, c}
  NULL = NULL
  Component = {}
  Local = {identity, moved}
  identity_local = identity
VIEW TransformView
SYMMETRY Interchangeable
INVARIANTS TransformsFresh OrderFresh
CHECK_DEADLOCK FALSE
