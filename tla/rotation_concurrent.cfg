SPECIFICATION Spec
CONSTANTS
    a = a
    b = b
    c = c
    p = p
    q = q
    NoAccount = NoAccount
    NoMethod = NoMethod
    NoFile = NoFile
    LegacyKey = LegacyKey
    Legacy = NoMethod
    Requests <- TwoRequests
    Accounts <- TwoAccounts
    InitialVault <- VaultAB
    MaxEdits = 1
    MaxFaults = 0
PROPERTIES RequestEnds SwitchTakesEffect
