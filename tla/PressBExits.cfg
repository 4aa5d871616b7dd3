SPECIFICATION Spec
CONSTANTS
    MaxTransaction = 1
    MaxPieces = 1
PROPERTY PressBExits
