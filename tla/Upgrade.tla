-------------------------------- MODULE Upgrade --------------------------------
(***************************************************************************)
(* upgrade_contract and migrate, the two transactions by which each of the *)
(* six contracts is replaced.  The first swaps the code and leaves the     *)
(* storage alone; the second, run by the new code, applies the schema      *)
(* steps the storage has not had yet and records the version.  An operator *)
(* may also go back to an older build, go forward again, or never migrate. *)
(*                                                                         *)
(* A build is known by its VERSION constant, 1 in this repository.  Other  *)
(* builds have the migrate that docs/upgrade-guide.md prescribes, with one *)
(* step per version; a build with VERSION 0 predates it and has none.      *)
(*                                                                         *)
(* The names are apart from those of Platform, the same deployment as its  *)
(* users see it, so that one module can state theorems about both.         *)
(***************************************************************************)
EXTENDS Integers, FiniteSets

CONSTANTS
  Admins,            \* the addresses that may be given the admin role and sign
  RegistryContract,  \* the CourseRegistry contract, which can be a badge admin
  Unset,             \* the value of a storage key that is not set
  Builds,            \* the VERSION constants of the builds that can be deployed
  MaxUpgrades        \* bound on the upgrades that are explored, of all contracts

ASSUME UpgradeAssumption ==
  /\ RegistryContract \notin Admins
  /\ Unset \notin Admins \cup {RegistryContract} \cup Nat
  /\ Builds \subseteq Nat
  /\ MaxUpgrades \in Nat

VARIABLES
  administrator,  \* DataKey::Admin of each contract
  build,          \* VERSION of the code each contract runs
  version,        \* DataKey::Version of each contract
  applied,        \* history: how often each schema step ran on a contract's storage
  upgrades        \* the number of upgrades so far

upgradeVars == <<administrator, build, version, applied, upgrades>>

Contracts == {"RewardPool", "BadgeNFT", "CourseRegistry", "StakeVault", "QuestEngine",
              "Governance"}
Steps == UNION {1..b : b \in Builds}

(* The contracts are one workspace and are deployed from one release.      *)
UpgradeInit ==
  /\ administrator = [c \in Contracts |-> Unset]
  /\ \E b \in Builds : build = [c \in Contracts |-> b]
  /\ version = [c \in Contracts |-> Unset]
  /\ applied = [c \in Contracts |-> [k \in Steps |-> 0]]
  /\ upgrades = 0

-----------------------------------------------------------------------------
ContractVersion(c) == IF version[c] = Unset THEN 0 ELSE version[c]

(* No initialize writes the version: a new contract is one that predates   *)
(* versioning, whatever it was built from.                                 *)
Initialize(c, address) ==
  /\ administrator[c] = Unset
  /\ administrator' = [administrator EXCEPT ![c] = address]
  /\ UNCHANGED <<build, version, applied, upgrades>>

IsAdmin_unchecked(c, caller) == administrator[c] # Unset

IsAdmin(c, caller) == administrator[c] # Unset /\ caller = administrator[c]

(* Any build will do, an older one and the present one included.           *)
UpgradeContract(c, caller, b) ==
  /\ IsAdmin(c, caller)
  /\ upgrades < MaxUpgrades
  /\ build' = [build EXCEPT ![c] = b]
  /\ upgrades' = upgrades + 1
  /\ UNCHANGED <<administrator, version, applied>>

CanMigrate_afterRollback(c, caller) == IsAdmin(c, caller) /\ ContractVersion(c) # build[c]

CanMigrate(c, caller) == IsAdmin(c, caller) /\ ContractVersion(c) < build[c]

(* Step k runs `if current_version < k'.                                   *)
PendingSteps(c) == {k \in 1..build[c] : ContractVersion(c) < k}

Migrate_nextVersion(c, caller) ==
  /\ CanMigrate(c, caller)
  /\ applied' = [applied EXCEPT ![c] =
                   [k \in Steps |-> @[k] + (IF k \in PendingSteps(c) THEN 1 ELSE 0)]]
  /\ version' = [version EXCEPT ![c] = build[c] + 1]
  /\ UNCHANGED <<administrator, build, upgrades>>

Migrate(c, caller) ==
  /\ CanMigrate(c, caller)
  /\ applied' = [applied EXCEPT ![c] =
                   [k \in Steps |-> @[k] + (IF k \in PendingSteps(c) THEN 1 ELSE 0)]]
  /\ version' = [version EXCEPT ![c] = build[c]]
  /\ UNCHANGED <<administrator, build, upgrades>>

-----------------------------------------------------------------------------
(* Only people sign: no contract calls either function, so that an admin   *)
(* that is a contract never does.                                          *)
Maintenance(c) ==
  \E caller \in Admins :
    \/ \E b \in Builds : UpgradeContract(c, caller, b)
    \/ Migrate(c, caller)

RewardPoolLifecycle ==
  \/ \E address \in Admins : Initialize("RewardPool", address)
  \/ Maintenance("RewardPool")

(* initialize takes any address; the platform passes it the registry's.    *)
BadgeNFTLifecycle ==
  \/ \E address \in Admins \cup {RegistryContract} : Initialize("BadgeNFT", address)
  \/ Maintenance("BadgeNFT")

CourseRegistryLifecycle ==
  \/ \E address \in Admins : Initialize("CourseRegistry", address)
  \/ Maintenance("CourseRegistry")

StakeVaultLifecycle ==
  \/ \E address \in Admins : Initialize("StakeVault", address)
  \/ Maintenance("StakeVault")

QuestEngineLifecycle ==
  \/ \E address \in Admins : Initialize("QuestEngine", address)
  \/ Maintenance("QuestEngine")

GovernanceLifecycle ==
  \/ \E address \in Admins : Initialize("Governance", address)
  \/ Maintenance("Governance")

UpgradeNext ==
  \/ RewardPoolLifecycle \/ BadgeNFTLifecycle \/ CourseRegistryLifecycle
  \/ StakeVaultLifecycle \/ QuestEngineLifecycle \/ GovernanceLifecycle

UpgradeSpec == UpgradeInit /\ [][UpgradeNext]_upgradeVars

-----------------------------------------------------------------------------
(* Every storage entry holds a value of its Rust type.                     *)
UpgradeTypeOK ==
  /\ administrator \in [Contracts -> Admins \cup {RegistryContract, Unset}]
  /\ build \in [Contracts -> Builds]
  /\ version \in [Contracts -> Builds \cup {Unset}]
  /\ applied \in [Contracts -> [Steps -> Nat]]
  /\ upgrades \in 0..MaxUpgrades

(* The recorded version is the schema history of the storage: through every *)
(* order of upgrades, rollbacks and migrations each step up to it has run  *)
(* once, and none beyond it.  The double migration that the version key is *)
(* there to prevent would show as a step that ran twice.                   *)
VersionIsHistory ==
  \A c \in Contracts, k \in Steps :
    applied[c][k] = IF k <= ContractVersion(c) THEN 1 ELSE 0

(* A badge contract administered by the registry, as the platform wires    *)
(* it, can never be upgraded or migrated: who may sign for it has no code  *)
(* that does.                                                              *)
BadgeContractFrozen ==
  [][administrator["BadgeNFT"] = RegistryContract =>
       build'["BadgeNFT"] = build["BadgeNFT"] /\ version'["BadgeNFT"] = version["BadgeNFT"]]_upgradeVars
=============================================================================
