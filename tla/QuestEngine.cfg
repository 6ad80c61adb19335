\* Two quests of either kind, two learners, and a pool that can pay one small reward.
CONSTANTS
  Pool = Pool
  Vault = Vault
  Engine = Engine
  Elsewhere = Elsewhere
  None = None
  admin1 = admin1
  employer1 = employer1
  employer2 = employer2
  learner1 = learner1
  learner2 = learner2
  Address <- MCAddress
  Endowment <- MCEndowment
  Admins <- MCAdmins
  ServiceAdmins <- MCAdmins
  Employers <- OneEmployer
  Learners <- TwoLearners
  Rewards <- SmallRewards
  Donations = {6}
  StakeAmounts = {}
  TierLow = 1
  TierHigh = 5
  LockPeriod = 1
  MaxTime = 0
  MaxQuests = 2
SPECIFICATION Spec
INVARIANTS
  TypeOK
  EscrowLedger
  LearnersPaid
PROPERTIES
  
  DisciplineCovers
  ImplementsBoard
