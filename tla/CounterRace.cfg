\* Two logins with one passkey at once.
SPECIFICATION FairSpec
CONSTANTS
  u1 = u1  u2 = u2  k1 = k1  k2 = k2  k3 = k3
  ana = ana  AnaCaps = AnaCaps  ben = ben
  None = None
  UserIds = {u1, u2}
  Usernames = {ana}
  NameKey <- MCNameKey
  CredIds = {k1, k2}
  Challenges = {c1, c2}
  Nicknames = {}
  MaxCount = 2
  ChallengeTimeout = 1
  MaxTime = 2
  Requests = {r1, r2}
  Ops = {"login"}
  UVChoices = {TRUE}
  AnswerFlags <- SoundOnly
  HookAllows = {FALSE}
  Counting = {k1}
  Discoverable = {k1, k2}
  DeviceOf <- OneDeviceEach
  Seeds <- OnePasskey
  Faults = FALSE
PROPERTIES
  CounterNeverDecreases
CHECK_DEADLOCK FALSE
