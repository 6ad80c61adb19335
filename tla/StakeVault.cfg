\* Two users; a lock of two ledgers within a history of six.
CONSTANTS
  Vault = Vault
  None = None
  admin1 = admin1
  user1 = user1
  user2 = user2
  Address <- MCAddress
  Admins <- MCAdmins
  Stakers <- MCStakers
  StakeAmounts <- MCAmounts
  Endowment <- MCEndowment
  TierLow = 1
  TierHigh = 3
  LockPeriod = 2
  MaxTime = 6
SPECIFICATION FairSpec
INVARIANTS
  TypeOK
  OwnersKeepTheirTokens
PROPERTIES
  LockHonoured
  LockExpires
\* At the last ledger time, with every stake withdrawn, nothing is left to do.
CHECK_DEADLOCK FALSE
