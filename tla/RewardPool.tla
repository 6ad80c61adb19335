------------------------------ MODULE RewardPool ------------------------------
(***************************************************************************)
(* The RewardPool contract (contracts/reward-pool): a treasury that pays   *)
(* learners on behalf of whitelisted spender contracts.                    *)
(*                                                                         *)
(* Only calls that succeed are steps: a call that panics reverts and is a  *)
(* stutter.  `require_auth' is implicit in the choice of the caller; what  *)
(* the code compares the authorised address with is a guard.               *)
(*                                                                         *)
(* Here and in the other modules an operator X_defect is X with that       *)
(* defect.  No specification uses one: they test that the properties below *)
(* fail when the code is wrong.                                            *)
(***************************************************************************)
EXTENDS Token

CONSTANTS
  Address,     \* every address that can hold tokens, the pool's included
  Pool,        \* the address of the RewardPool contract
  None,        \* the value of a storage key that is not set
  Admins,      \* the addresses that may be given the admin role
  Callers,     \* the addresses that call distribute_reward
  Learners,    \* the addresses rewards are paid to
  Amounts,     \* the amounts (i128) donors and callers ask for
  Endowment    \* the ledger when the contract is deployed

ASSUME AddressAssumption ==
  /\ IsFiniteSet(Address)
  /\ Pool \in Address /\ None \notin Address
  /\ Admins \subseteq Address /\ Callers \subseteq Address
  /\ Learners \subseteq Address
ASSUME AmountAssumption == Amounts \subseteq Int
ASSUME EndowmentAssumption == Endowment \in [Address -> Nat]

VARIABLES
  balance,       \* the token ledger
  poolAdmin,     \* DataKey::Admin (DataKey::Token is set with it)
  spenders,      \* the addresses a of the keys DataKey::Spender(a)
  spenderCount,  \* DataKey::SpenderCount
  isPaused       \* DataKey::IsPaused

poolVars == <<balance, poolAdmin, spenders, spenderCount, isPaused>>

Init ==
  /\ balance = Endowment
  /\ poolAdmin = None
  /\ spenders = {}
  /\ spenderCount = 0
  /\ isPaused = FALSE

-----------------------------------------------------------------------------
Initialize(admin) ==
  /\ poolAdmin = None
  /\ poolAdmin' = admin
  /\ UNCHANGED <<balance, spenders, spenderCount, isPaused>>

AddApprovedSpender_countsRepeats(admin, spender) ==
  /\ poolAdmin # None /\ admin = poolAdmin
  /\ spenders' = spenders \cup {spender}
  /\ spenderCount' = spenderCount + 1
  /\ UNCHANGED <<balance, poolAdmin, isPaused>>

AddApprovedSpender(admin, spender) ==
  /\ poolAdmin # None /\ admin = poolAdmin
  /\ spenders' = spenders \cup {spender}
  /\ spenderCount' = IF spender \in spenders THEN spenderCount ELSE spenderCount + 1
  /\ UNCHANGED <<balance, poolAdmin, isPaused>>

SetPause(admin, status) ==
  /\ poolAdmin # None /\ admin = poolAdmin
  /\ isPaused' = status
  /\ UNCHANGED <<balance, poolAdmin, spenders, spenderCount>>

(* Every condition under which distribute_reward does not panic, the       *)
(* token's own included.                                                   *)
CanDistribute_ignoresPause(caller, amount) ==
  /\ amount > 0
  /\ poolAdmin # None
  /\ caller \in spenders
  /\ CanTransfer(balance, Pool, amount)

CanDistribute_overdraws(caller, amount) ==
  /\ ~isPaused
  /\ amount > 0
  /\ poolAdmin # None
  /\ caller \in spenders

CanDistribute(caller, amount) ==
  /\ ~isPaused
  /\ amount > 0
  /\ poolAdmin # None
  /\ caller \in spenders
  /\ CanTransfer(balance, Pool, amount)

DistributeReward(caller, learner, amount) ==
  /\ CanDistribute(caller, amount)
  /\ balance' = Transfer(balance, Pool, learner, amount)
  /\ UNCHANGED <<poolAdmin, spenders, spenderCount, isPaused>>

(* A donation of zero is accepted: the code leaves the amount to the token. *)
FundPool(donor, amount) ==
  /\ poolAdmin # None
  /\ CanTransfer(balance, donor, amount)
  /\ balance' = Transfer(balance, donor, Pool, amount)
  /\ UNCHANGED <<poolAdmin, spenders, spenderCount, isPaused>>

EmergencySweep(admin, wallet) ==
  /\ poolAdmin # None /\ admin = poolAdmin
  /\ balance' = Transfer(balance, Pool, wallet, balance[Pool])
  /\ UNCHANGED <<poolAdmin, spenders, spenderCount, isPaused>>

EstimatedStorageFootprint == spenderCount

(* What an administrator may do, for modules that compose the pool.        *)
AdminStep ==
  \/ \E admin \in Admins : Initialize(admin)
  \/ \E admin \in Admins, spender \in Callers : AddApprovedSpender(admin, spender)
  \/ \E admin \in Admins, status \in BOOLEAN : SetPause(admin, status)
  \/ \E admin, wallet \in Admins : EmergencySweep(admin, wallet)

Next ==
  \/ AdminStep
  \/ \E caller \in Callers, learner \in Learners, amount \in Amounts :
       DistributeReward(caller, learner, amount)
  \/ \E donor \in Address \ {Pool}, amount \in Amounts : FundPool(donor, amount)

Spec == Init /\ [][Next]_poolVars

-----------------------------------------------------------------------------
(* Every storage entry holds a value of its Rust type.                     *)
TypeOK ==
  /\ balance \in [Address -> Nat]
  /\ poolAdmin \in Address \cup {None}
  /\ spenders \in SUBSET Address
  /\ spenderCount \in Nat
  /\ isPaused \in BOOLEAN

(* The counter that estimated_storage_footprint returns is the number of   *)
(* DataKey::Spender entries, however often the admin repeats an approval.  *)
SpenderFootprint == EstimatedStorageFootprint = Cardinality(spenders)

(* Funding, paying and sweeping move tokens and never mint or burn them.   *)
Conservation == Total(balance) = Total(Endowment)

(* While the circuit breaker is on, what leaves the pool leaves it whole,  *)
(* to one wallet: only emergency_sweep may still take tokens out.          *)
PausedOnlySwept ==
  [][isPaused /\ balance'[Pool] < balance[Pool] => balance'[Pool] = 0 /\
     \E wallet \in Admins : balance'[wallet] = balance[wallet] + balance[Pool]]_poolVars
=============================================================================
