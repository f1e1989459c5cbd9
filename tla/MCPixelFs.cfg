CONSTANTS
  Legs = {"fs", "fs_del", "fs_fault", "tickets", "tickets_fault"}
  Contents <- MCContents
SPECIFICATION Spec
INVARIANTS TypeOK ReadsBack DeleteFrees NamedBeforeUse Delivered Contained
