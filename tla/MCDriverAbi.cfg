CONSTANTS
  Legs = {"good", "corrupt", "fault", "corrupt_fault"}
  Requests <- MCRequests
SPECIFICATION Spec
INVARIANTS TypeOK OnlyIntactRequests TransferOrder ReplyTellsDevice
