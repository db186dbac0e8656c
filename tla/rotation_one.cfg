SPECIFICATION Spec
CONSTANTS
    a = a
    b = b
    c = c
    p = p
    q = q
    NoAccount = NoAccount
    NoMethod = NoMethod
    NoFile = NoFile
    LegacyKey = LegacyKey
    Legacy = LegacyKey
    Requests <- OneRequest
    Accounts <- ThreeAccounts
    InitialVault <- VaultABC
    MaxEdits = 2
    MaxFaults = 2
INVARIANTS VaultConsistent 
PROPERTIES RotationMovesOnlyPointer RotationSettles
