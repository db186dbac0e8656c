SPECIFICATION Spec
CONSTANTS
  a = a
  b = b
  c = c
  p = p
  q = q
  e1 = e1
  e2 = e2
  m1 = m1
  m2 = m2
  s1 = s1
  x1 = x1
  x2 = x2
  codex = codex
  vllm = vllm
  u1 = u1
  u2 = u2
  q1 = q1
  q2 = q2
  r1 = r1
  r2 = r2
  token = token
  other = other
  NoAccount = NoAccount
  NoFile = NoFile
  Blank = Blank
  Torn = Torn
  Accounts <- ThreeAccounts
  Processes <- TwoProcesses
  NameOf <- Shown
  FirstVault <- VaultAB
  MaxCommands = 2
  Editors <- TwoEditors
  Keys <- TwoKeys
  Models <- TwoModels
  NewEntries <- SomeEntries
  FirstConfig <- OneDeclared
  NoProvider = NoProvider
  EnvProvider = EnvProvider
  Missing = Missing
  Unparsable = Unparsable
  MaxChanges = 4
  Servers <- OneServer
  Preferences <- TwoPreferences
  MaxMessages = 2
  MaxTasteChanges = 3
  MaxSeconds = 2
  MaxBytes = 3
  Backups = 3
  LineLengths <- SomeLengths
  MaxLines = 6
  Harnesses <- TwoHarnesses
  Settings <- TwoSettings
  UserConfigs <- SomeConfigs
  Absent = Absent
  Empty = Empty
  UserFile = UserFile
  MaxRuns = 3
  Connections <- TwoConnections
  MaxServed = 2
  MaxBody = 1
  WindowSize = 1
  NoKey = NoKey
  Requests <- TwoRequests
  Credentials <- TwoCredentials
  Token <- token
  Gated = TRUE
  MaxRequests = 2
  Window = 3
  MaxWait = 1
  MaxTime = 8
  t1 = t1
  t2 = t2
  t3 = t3
  t4 = t4
  NoId = NoId
  ResponseIds <- FourTurns
  MaxEntries = 2
  TTL = 3
  MaxStoreTime = 6
INVARIANTS TypeOK SaveAtomic RoutesSound  AnsweredInOrder  SetupIdempotent  QuotaKept StoreSound
PROPERTIES LogoutByName OwnAuthorisation OthersKept SetupKeepsOthers NoExpiredChain
CHECK_DEADLOCK FALSE
