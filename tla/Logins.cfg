\* Two people sign in, with and without naming the account, late and twice;
\* one passkey counts its signatures and needs an allow list.
SPECIFICATION Spec
CONSTANTS
  u1 = u1  u2 = u2  k1 = k1  k2 = k2  k3 = k3
  ana = ana  AnaCaps = AnaCaps  ben = ben
  None = None
  UserIds = {u1, u2}
  Usernames = {ana, ben}
  NameKey <- MCNameKey
  CredIds = {k1, k2}
  Challenges = {c1, c2}
  Nicknames = {}
  MaxCount = 2
  ChallengeTimeout = 1
  MaxTime = 2
  Requests = {r1, r2}
  Ops = {"login"}
  UVChoices = {TRUE, FALSE}
  AnswerFlags <- OneFlaw
  HookAllows = {TRUE, FALSE}
  Counting = {k1}
  Discoverable = {k2}
  DeviceOf <- OneDeviceEach
  Seeds <- TwoPeople
  Faults = TRUE
SYMMETRY Symmetry
INVARIANTS
  ChallengeSingleUse
  CeremonyKeepsItsTerms
  CounterNotAhead
PROPERTIES
  ImplementsLedger
CHECK_DEADLOCK FALSE
