SPECIFICATION TSpec
CONSTANTS
  TagKeys = {1, 2, 3}
  TagValues = {x, y}
  Local = {d}
  Remote = {e}
  MaxBinds = 2
INVARIANTS
  RoutesToSubsets
  ListsLocalBindings
