\* Visitors sign up at an empty site, also under one name in two spellings,
\* and add further passkeys once signed in.
SPECIFICATION Spec
CONSTANTS
  u1 = u1  u2 = u2  k1 = k1  k2 = k2  k3 = k3
  ana = ana  AnaCaps = AnaCaps  ben = ben
  None = None
  UserIds = {u1, u2}
  Usernames = {ana, AnaCaps}
  NameKey <- MCNameKey
  CredIds = {k1, k2, k3}
  Challenges = {c1, c2, c3}
  Nicknames = {}
  MaxCount = 0
  ChallengeTimeout = 1
  MaxTime = 2
  Requests = {r1, r2}
  Ops = {"signUp", "addPasskey"}
  UVChoices = {TRUE}
  AnswerFlags <- WithoutUV
  HookAllows = {FALSE}
  Counting = {}
  Discoverable = {k1, k2, k3}
  DeviceOf <- TwoDevices
  Seeds <- EmptySite
  Faults = TRUE
SYMMETRY Symmetry
INVARIANTS
  TypeOK
  OneAccountPerName
  CredentialMatchesPasskey
PROPERTIES
  OnlySignedInGainPasskeys
  ImplementsLedger
CHECK_DEADLOCK FALSE
