CONSTANTS
  Programs <- MCPrograms
  Px <- MCPx
  Argvs <- MCArgvs
  Golden = "golden"
  Fate <- MCFate
  Ir <- MCIr
  Fits <- MCFits
  Vec <- MCVec
  Capacity = 3
  Names = {"popcount"}
  Loaded = {"good", "dirty"}
  MaxAttempts = 2
SPECIFICATION Spec
INVARIANT VectorsRequired
