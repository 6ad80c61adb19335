------------------------------ MODULE StakeVault ------------------------------
(***************************************************************************)
(* The StakeVault contract (contracts/stake-vault): tokens locked by their *)
(* owner for a period, and the payout multiplier the amount gives.         *)
(***************************************************************************)
EXTENDS Token

CONSTANTS
  Address,      \* every address that can hold tokens, the vault's included
  Vault,        \* the address of the StakeVault contract
  None,         \* the value of a storage key that is not set
  Admins,       \* the addresses that may be given the admin role
  Stakers,      \* the users of the vault
  StakeAmounts, \* the amounts (i128) users stake
  TierLow,      \* the stake from which the multiplier is 120 (100 in the code)
  TierHigh,     \* the stake from which it is 200 (500 in the code)
  LockPeriod,   \* ledger time a stake is locked for (604800 in the code)
  MaxTime,      \* bound on the ledger time that is explored
  Endowment     \* the ledger when the contract is deployed

ASSUME VaultAddressAssumption ==
  /\ IsFiniteSet(Address)
  /\ Vault \in Address /\ None \notin Address
  /\ Admins \subseteq Address
  /\ Stakers \subseteq Address \ {Vault}
ASSUME VaultNumberAssumption ==
  /\ StakeAmounts \subseteq Int
  /\ TierLow \in Nat /\ TierHigh \in Nat /\ LockPeriod \in Nat /\ MaxTime \in Nat
StakeInfo == [amount : Nat \ {0}, lock_timestamp : 0..MaxTime]

ASSUME VaultNoneAssumption == None \notin StakeInfo
ASSUME VaultEndowmentAssumption == Endowment \in [Address -> Nat]

VARIABLES
  balance,     \* the token ledger
  vaultAdmin,  \* DataKey::Admin (DataKey::Token is set with it)
  stakes,      \* DataKey::UserStake(u), for each user u
  now          \* env.ledger().timestamp()

vaultVars == <<balance, vaultAdmin, stakes, now>>

Init ==
  /\ balance = Endowment
  /\ vaultAdmin = None
  /\ stakes = [u \in Stakers |-> None]
  /\ now = 0

-----------------------------------------------------------------------------
StakeOf(user) == IF stakes[user] = None THEN 0 ELSE stakes[user].amount

GetMultiplier(user) ==
  CASE StakeOf(user) >= TierHigh -> 200
    [] StakeOf(user) < TierHigh /\ StakeOf(user) >= TierLow -> 120
    [] OTHER -> 100

InitializeVault(admin) ==
  /\ vaultAdmin = None
  /\ vaultAdmin' = admin
  /\ UNCHANGED <<balance, stakes, now>>

(* The stake after a deposit: amounts add up and the lock starts again.    *)
Deposited_overwrites(user, amount) == [amount |-> amount, lock_timestamp |-> now]

Deposited_keepsLock(user, amount) ==
  [amount |-> StakeOf(user) + amount,
   lock_timestamp |-> IF stakes[user] = None THEN now ELSE stakes[user].lock_timestamp]

Deposited_lockEndStored(user, amount) ==
  [amount |-> StakeOf(user) + amount, lock_timestamp |-> now + LockPeriod]

Deposited(user, amount) == [amount |-> StakeOf(user) + amount, lock_timestamp |-> now]

(* MaxTime leaves room for every stake to mature; the code has no bound.   *)
Stake(user, amount) ==
  /\ amount > 0
  /\ vaultAdmin # None
  /\ now + LockPeriod <= MaxTime
  /\ CanTransfer(balance, user, amount)
  /\ balance' = Transfer(balance, user, Vault, amount)
  /\ stakes' = [stakes EXCEPT ![user] = Deposited(user, amount)]
  /\ UNCHANGED <<vaultAdmin, now>>

Matured(user) == now >= stakes[user].lock_timestamp + LockPeriod

Unstake_leavesEmptyStake(user) ==
  /\ stakes[user] # None
  /\ Matured(user)
  /\ CanTransfer(balance, Vault, stakes[user].amount)
  /\ balance' = Transfer(balance, Vault, user, stakes[user].amount)
  /\ stakes' = [stakes EXCEPT ![user].amount = 0]
  /\ UNCHANGED <<vaultAdmin, now>>

Unstake(user) ==
  /\ stakes[user] # None
  /\ Matured(user)
  /\ CanTransfer(balance, Vault, stakes[user].amount)
  /\ balance' = Transfer(balance, Vault, user, stakes[user].amount)
  /\ stakes' = [stakes EXCEPT ![user] = None]
  /\ UNCHANGED <<vaultAdmin, now>>

(* Ledgers close: time moves on between transactions.                      *)
Tick ==
  /\ now < MaxTime
  /\ now' = now + 1
  /\ UNCHANGED <<balance, vaultAdmin, stakes>>

Next ==
  \/ \E admin \in Admins : InitializeVault(admin)
  \/ \E user \in Stakers :
       \/ \E amount \in StakeAmounts : Stake(user, amount)
       \/ Unstake(user)
  \/ Tick

Spec == Init /\ [][Next]_vaultVars

(* The network closes ledgers whatever the users do; nobody has to unstake. *)
FairSpec == Spec /\ WF_vaultVars(Tick)

-----------------------------------------------------------------------------
(* Every storage entry holds a value of its Rust type.                     *)
TypeOK ==
  /\ balance \in [Address -> Nat]
  /\ vaultAdmin \in Address \cup {None}
  /\ stakes \in [Stakers -> StakeInfo \cup {None}]
  /\ now \in 0..MaxTime

(* The vault holds exactly what its users have staked, so that every one   *)
(* of them can be paid back whatever the others do.                        *)
VaultBacked == balance[Vault] = Endowment[Vault] + Total([u \in Stakers |-> StakeOf(u)])

(* A user's tokens are never lost to the vault: purse and stake together   *)
(* stay what the user started with.                                        *)
OwnersKeepTheirTokens == \A u \in Stakers : balance[u] + StakeOf(u) = Endowment[u]

(* Every deposit starts the lock of the whole stake again, and tokens come *)
(* back only when the lock has run out, and then all of them.              *)
LockHonoured ==
  [][\A u \in Stakers :
       /\ balance'[u] < balance[u] => stakes'[u].lock_timestamp = now
       /\ balance'[u] > balance[u] =>
            /\ now >= stakes[u].lock_timestamp + LockPeriod
            /\ balance'[u] = Endowment[u]]_vaultVars

(* A lock cannot be kept from expiring: repeated deposits start it again,  *)
(* but a stake that nobody withdraws does mature.                          *)
LockExpires == \A u \in Stakers : stakes[u] # None ~> (stakes[u] = None \/ Matured(u))
=============================================================================
