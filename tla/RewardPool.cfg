\* Two candidate spenders and two candidate administrators.
CONSTANTS
  Pool = Pool
  None = None
  registry = registry
  engine = engine
  admin1 = admin1
  admin2 = admin2
  learner1 = learner1
  Address <- MCAddress
  Admins <- MCAdmins
  Callers <- MCCallers
  Learners <- MCLearners
  Amounts <- MCAmounts
  Endowment <- MCEndowment
SPECIFICATION Spec
INVARIANTS
  TypeOK
  SpenderFootprint
PROPERTY PausedOnlySwept
