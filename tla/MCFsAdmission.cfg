CONSTANTS
  SysNs = {9, 10, 12}
  Argvs <- MCArgvs
  Expected = {0, 1, 3, 69}
  MaxLen = 8
SPECIFICATION Spec
INVARIANTS TypeOK AdmittedServes RecipesVerify
