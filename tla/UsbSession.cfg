SPECIFICATION Spec
CONSTANTS
    MaxTransaction = 2
    MaxPieces = 2
INVARIANTS SessionInv AnsweredOnce InStep DataBeforeResponse ExitsBetweenRequests
PROPERTIES Answers StopHonoured
