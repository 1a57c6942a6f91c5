\* Two removals of one account at once.
SPECIFICATION FairSpec
CONSTANTS
  u1 = u1  u2 = u2  k1 = k1  k2 = k2  k3 = k3
  ana = ana  AnaCaps = AnaCaps  ben = ben
  None = None
  UserIds = {u1, u2}
  Usernames = {ana}
  NameKey <- MCNameKey
  CredIds = {k1, k2}
  Challenges = {c1, c2}
  Nicknames = {}
  MaxCount = 0
  ChallengeTimeout = 1
  MaxTime = 2
  Requests = {r1, r2}
  Ops = {"delete"}
  UVChoices = {TRUE}
  AnswerFlags <- SoundOnly
  HookAllows = {FALSE}
  Counting = {}
  Discoverable = {k1, k2}
  DeviceOf <- OneDeviceEach
  Seeds <- TwoPasskeys
  Faults = FALSE
PROPERTIES
  LastPasskeyIsKept
CHECK_DEADLOCK FALSE
