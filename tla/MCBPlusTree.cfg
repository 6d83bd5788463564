CONSTANTS
  Keys <- KeysTo9
  ValuesFor <- OwnValue
  LeafMax = 2
  InternalMax = 3
  NoPage = NoPage
SPECIFICATION Spec
INVARIANTS Balanced SubtreesSeparated NoPageLost AncestorsSuffice LookupComplete ScansInOrder
PROPERTY ImplementsMap
VIEW TreeShape
CHECK_DEADLOCK FALSE
