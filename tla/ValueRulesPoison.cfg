CONSTANTS
  Columns <- MCColumns
  MaxColumn = 3
  Depth = 3
  Names <- MCNames
  Primitives <- MCPrimitives
  Atoms <- MCAtoms
SPECIFICATION Spec
INVARIANTS
  AcceptedValuesNeverPoison
