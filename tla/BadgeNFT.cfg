\* Mints and revocations of three courses over three ledger times.
CONSTANTS
  None = None
  registry = registry
  stranger = stranger
  learner1 = learner1
  Minters <- MCMinters
  Learners <- MCLearners
  Courses <- MCCourses
  MaxTime = 2
SPECIFICATION Spec
INVARIANTS
  TypeOK
  OneBadgePerCourse
  MintOrder
  RevocationExact
PROPERTY ImplementsSets
