\* Every workload; calls at Redis are cut short, challenges expire.
SPECIFICATION MCSpec
CONSTANTS
  Workloads = {"accounts", "passkeys", "renames", "challenges", "agreement", "kit"}
  u1 = u1  u2 = u2  k1 = k1  k2 = k2  laptop = laptop
  ana = ana  AnaCaps = AnaCaps  ben = ben
  None = None
  Clients = {a, b, c}
  UserIds = {u1, u2}
  Usernames = {ana, AnaCaps, ben}
  Lower <- MCLower
  CredIds = {k1, k2}
  Nicknames = {laptop}
  MaxCount = 1
  Challenges = {h1, h2}
  Lifetimes <- SomeLifetimes
  TicksPerSecond = 2
  MaxTime = 5
  ReplyShape = "pairs"
  Seeds <- MCSeeds
  Ops = {"createUser", "createCredential", "updateCredential", "deleteCredential", "list", "saveChallenge", "takeChallenge"}
  Faults = TRUE
  Instant = 10
  Subjects = {"postgres", "sqlite", "mongoKeys"}
  MaxCalls = 5
SYMMETRY Symmetry
INVARIANTS
  NamesAndAccountsAgree
  OnlyCutCallsStrand
  ListIsSound
  HandedOutOnce
  KeyOutlivesChallenge
  AnswersAsMemoryStore
  KitJudgesRightly
CHECK_DEADLOCK FALSE
