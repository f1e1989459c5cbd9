CONSTANTS
  Legs = {"plain", "save", "fault", "paged"}
  Quanta <- MCQuanta
SPECIFICATION FairSpec
INVARIANTS TypeOK SliceKeepsSlot ContextSurvives
PROPERTY Finishes
