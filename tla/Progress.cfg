\* Racing sign-ups, logins and removals when no store call fails.
SPECIFICATION FairSpec
CONSTANTS
  u1 = u1  u2 = u2  k1 = k1  k2 = k2  k3 = k3
  ana = ana  AnaCaps = AnaCaps  ben = ben
  None = None
  UserIds = {u1, u2}
  Usernames = {ana, AnaCaps}
  NameKey <- MCNameKey
  CredIds = {k1, k2}
  Challenges = {c1, c2}
  Nicknames = {}
  MaxCount = 0
  ChallengeTimeout = 1
  MaxTime = 1
  Requests = {r1, r2}
  Ops = {"signUp", "login", "delete"}
  UVChoices = {TRUE}
  AnswerFlags <- SoundOnly
  HookAllows = {FALSE}
  Counting = {}
  Discoverable = {k1, k2}
  DeviceOf <- OneDeviceEach
  Seeds <- EmptySite
  Faults = FALSE
PROPERTIES
  EveryRequestEnds
  ContestedNameIsWon
CHECK_DEADLOCK FALSE
