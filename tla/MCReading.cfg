SPECIFICATION Spec3
CONSTANTS
  r1 = r1  r2 = r2  r3 = r3  n1 = n1  n2 = n2
  None = None
  Chains = {1, 2, 3}
  Configured = {1, 2}
  Requests = {r1, r2, r3}
  Clients = {n1, n2}
  MaxFaults = 1

  k1 = k1  k2 = k2  d1 = d1  d2 = d2  p1 = p1  p2 = p2
  Nothing = Nothing
  Received = Received
  Failed = Failed
  Contacts = {k1, k2}
  Inbound = {d1}
  Outbound = {d2}
  Loads = {p1, p2}
  MaxBreaks = 1

  NoValue = NoValue
  Me = "me"
  Recipients = {"k1", "k2"}
  Zero = "0"
  Networks = {"sepolia", "goerli"}
  Blank = ""
  Spellings = {"sepolia", "Sepolia ", "goerli", " "}
  Norm <- MCNorm
  Environments <- MCEnvironments
  Length <- MCLength
  FilesIn <- MCFilesIn
  OthersIn <- MCOthersIn
  Sizes = {0, 2, 4}
  Limit = 2
  MaxBlock = 3
  Modulus = 8
  DefaultWindow = 1
  Questions <- MCQuestions
INVARIANTS
  OneClientPerChain
  IInv
  ViewIsSelected
  ScanAnswersQuestion
  DocumentReadAsSent
  NetworkFound
PROPERTIES
  EveryCallReturns
  FailureIsRetried
  AnswerShown
  ComesToShowReceived
