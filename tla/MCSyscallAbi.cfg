CONSTANTS
  Modes = {"baseline", "unknown", "neg", "huge", "admit", "fs_v2", "posix", "libc"}
  WordMod <- MCWordMod
  Programs <- MCPrograms
  MaxCalls = 3
  Admitted = {2, 4, 5, 6, 9}
SPECIFICATION FairSpec
INVARIANTS TypeOK ProbedNeverRefused
PROPERTIES CallsAreAtomic Answered
