\* A learner who stakes before the review.
CONSTANTS
  Pool = Pool
  Vault = Vault
  Engine = Engine
  Elsewhere = Elsewhere
  None = None
  admin1 = admin1
  employer1 = employer1
  employer2 = employer2
  learner1 = learner1
  learner2 = learner2
  Address <- MCAddress
  Endowment <- MCEndowment
  Admins <- MCAdmins
  ServiceAdmins <- MCAdmins
  Employers <- OneEmployer
  Learners <- OneLearner
  Rewards = {20}
  Donations = {10}
  StakeAmounts = {1}
  TierLow = 1
  TierHigh = 5
  LockPeriod = 1
  MaxTime = 1
  MaxQuests = 2
SPECIFICATION Spec
INVARIANT StakeScalesPayout
