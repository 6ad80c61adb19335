\* All six contracts, one learner, two courses, two quests and one proposal.
CONSTANTS
  Pool = Pool
  Registry = Registry
  Nft = Nft
  Vault = Vault
  Engine = Engine
  Elsewhere = Elsewhere
  Admin = Admin
  None = None
  teacher1 = teacher1
  learner1 = learner1
  employer1 = employer1
  Address <- MCAddress
  Endowment <- MCEndowment
  Instructors <- OneTeacher
  Learners <- OneLearner
  Employers <- OneEmployer
  Donations = {3}
  Reward = 2
  Hashes = {h1}
  MaxCourses = 2
  MaxModules = 1
  BuildRewards = {10}
  ExploreRewards = {2}
  MaxQuests = 2
  StakeAmounts = {5}
  TierLow = 5
  TierHigh = 50
  LockPeriod = 1
  MaxTime = 1
  ProposalIds = {1}
  EndTimes = {0}
  MaxVotes = 3
SPECIFICATION Spec
INVARIANTS
  LearnerIncome
  
  EscrowLedger
  BadgesAreCompletions
  VotesEarned
  StakesBacked
PROPERTIES
  ExecutedByCompletions
  LostOnlyByClaim
