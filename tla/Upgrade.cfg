\* Two upgrades, of one contract or of two, forward or back, migrated or not.
CONSTANTS
  RegistryContract = RegistryContract
  Unset = Unset
  admin1 = admin1
  Admins <- OneAdmin
  Builds <- Releases
  MaxUpgrades = 2
SPECIFICATION UpgradeSpec
INVARIANTS
  UpgradeTypeOK
  VersionIsHistory

  
CHECK_DEADLOCK FALSE
