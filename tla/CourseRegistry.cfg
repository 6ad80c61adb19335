\* Two learners finish the same course and compete for the pool's balance.
CONSTANTS
  Pool = Pool
  None = None
  Registry = Registry
  Nft = Nft
  Elsewhere = Elsewhere
  admin1 = admin1
  teacher1 = teacher1
  learner1 = learner1
  learner2 = learner2
  Address <- MCAddress
  Endowment <- MCEndowment
  Admins <- OneAdmin
  Instructors <- Teachers
  Learners <- TwoLearners
  Donations = {2}
  Hashes = {h1}
  Reward = 2
  MaxCourses = 1
  MaxModules = 2
SPECIFICATION Spec
INVARIANTS
  TypeOK
  RewardAtMostOnce
  EventsMatchMoney
  BadgesEarned
PROPERTIES
  FinishedForever
  CompletionAtomic
  ImplementsSettlement
