SPECIFICATION Spec
CONSTANTS
  Slots <- AllSlots
  Objects = {o1, o2}
  Null = Null
  Addresses = {1, 2, 3, 4, 5}
  Nil = Nil
  Vectors = {v1, v2}
  Lists = {l1, l2}
  Locals = {h1}
  Temp = Temp
  MaxElements = 4
  MaxInLists = 3
SYMMETRY Symmetric
INVARIANTS OwnersCounted LayoutSound
PROPERTY ImplementsCollections
