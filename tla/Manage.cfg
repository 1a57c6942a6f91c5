\* Logins while the same account adds, removes and renames passkeys.
SPECIFICATION Spec
CONSTANTS
  u1 = u1  u2 = u2  k1 = k1  k2 = k2  k3 = k3
  ana = ana  AnaCaps = AnaCaps  ben = ben
  None = None
  UserIds = {u1, u2}
  Usernames = {ana}
  NameKey <- MCNameKey
  CredIds = {k1, k2, k3}
  Challenges = {c1, c2}
  Nicknames = {phone}
  MaxCount = 2
  ChallengeTimeout = 0
  MaxTime = 1
  Requests = {r1, r2}
  Ops = {"login", "addPasskey", "delete", "rename"}
  UVChoices = {TRUE}
  AnswerFlags <- SoundOnly
  HookAllows = {TRUE, FALSE}
  Counting = {k1}
  Discoverable = {k1, k2, k3}
  DeviceOf <- TwoDevices
  Seeds <- TwoPasskeys
  Faults = TRUE
SYMMETRY Symmetry
INVARIANTS
  RevokedStaysRevoked
PROPERTIES
  LastGoesOnlyToARace
  CounterFallsOnlyToARace
CHECK_DEADLOCK FALSE
