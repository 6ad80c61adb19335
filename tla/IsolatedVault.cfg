\* The escrow of one build quest against another's.
CONSTANTS
  Pool = Pool
  Vault = Vault
  Engine = Engine
  Elsewhere = Elsewhere
  None = None
  admin1 = admin1
  employer1 = employer1
  employer2 = employer2
  learner1 = learner1
  learner2 = learner2
  Address <- MCAddress
  Endowment <- MCEndowment
  Admins <- MCAdmins
  ServiceAdmins = {}
  Employers <- TwoEmployers
  Learners <- TwoLearners
  Rewards = {20}
  Donations = {}
  StakeAmounts = {}
  TierLow = 1
  TierHigh = 5
  LockPeriod = 1
  MaxTime = 0
  MaxQuests = 2
SPECIFICATION Spec
INVARIANT IsolatedVault
