--------------------------- MODULE RewardPoolProofs ---------------------------
(***************************************************************************)
(* Theorems about RewardPool, for every set of addresses and amounts and   *)
(* every initial ledger.                                                   *)
(***************************************************************************)
EXTENDS RewardPool, TokenTheorems

(* The fact about the ledger every action that moves tokens relies on: a   *)
(* transfer the token accepts leaves a ledger with the same total.         *)
LEMMA TransferKeepsLedger ==
  ASSUME balance \in [Address -> Nat], Conservation,
         NEW from \in Address, NEW to \in Address, NEW amount \in Int,
         CanTransfer(balance, from, amount),
         balance' = Transfer(balance, from, to, amount)
  PROVE  balance' \in [Address -> Nat] /\ Total(balance') = Total(Endowment)
<1>1. /\ Transfer(balance, from, to, amount) \in [Address -> Nat]
      /\ Total(Transfer(balance, from, to, amount)) = Total(balance)
  BY TransferConserves, AddressAssumption
<1>2. QED
  BY <1>1 DEF Conservation

(* Approving a spender, new or not, keeps the counter equal to the number  *)
(* of Spender entries.                                                     *)
LEMMA ApprovalCounted ==
  ASSUME spenders \in SUBSET Address, SpenderFootprint,
         NEW admin, NEW spender \in Address, AddApprovedSpender(admin, spender)
  PROVE  SpenderFootprint'
<1>1. IsFiniteSet(spenders)
  BY FS_Subset, AddressAssumption
<1>2. /\ Cardinality(spenders) \in Nat
      /\ Cardinality(spenders \cup {spender})
           = IF spender \in spenders THEN Cardinality(spenders)
                                     ELSE Cardinality(spenders) + 1
  BY <1>1, FS_CardinalityType, FS_AddElement
<1>3. QED
  BY <1>2 DEF AddApprovedSpender, SpenderFootprint, EstimatedStorageFootprint

-----------------------------------------------------------------------------
(* The inductive invariant: the footprint needs the type of `spenders' and *)
(* conservation needs the type of `balance', so the three go together.     *)
PoolInv == TypeOK /\ SpenderFootprint /\ Conservation

(* The pool is deployed with no spender counted and the endowment on the   *)
(* ledger.                                                                 *)
LEMMA PoolInvInit == Init => PoolInv
<1> SUFFICES ASSUME Init PROVE PoolInv
  OBVIOUS
<1>1. TypeOK
  BY EndowmentAssumption DEF Init, TypeOK
<1>2. SpenderFootprint
  BY FS_EmptySet DEF Init, SpenderFootprint, EstimatedStorageFootprint
<1>3. Conservation
  BY DEF Init, Conservation
<1>4. QED
  BY <1>1, <1>2, <1>3 DEF PoolInv

(* Every call of the pool preserves the invariant.                         *)
LEMMA PoolInvStep == PoolInv /\ [Next]_poolVars => PoolInv'
<1> SUFFICES ASSUME PoolInv, [Next]_poolVars PROVE PoolInv'
  OBVIOUS
<1> USE DEF PoolInv
<1>1. ASSUME NEW admin \in Admins, Initialize(admin) PROVE PoolInv'
  BY <1>1, AddressAssumption
  DEF Initialize, TypeOK, SpenderFootprint, EstimatedStorageFootprint, Conservation
<1>2. ASSUME NEW admin \in Admins, NEW spender \in Callers,
             AddApprovedSpender(admin, spender)
      PROVE  PoolInv'
  <2>1. SpenderFootprint'
    BY <1>2, ApprovalCounted, AddressAssumption DEF TypeOK
  <2>2. TypeOK'
    BY <1>2, AddressAssumption DEF AddApprovedSpender, TypeOK
  <2>3. Conservation'
    BY <1>2 DEF AddApprovedSpender, Conservation
  <2>4. QED
    BY <2>1, <2>2, <2>3
<1>3. ASSUME NEW admin \in Admins, NEW status \in BOOLEAN, SetPause(admin, status)
      PROVE  PoolInv'
  BY <1>3
  DEF SetPause, TypeOK, SpenderFootprint, EstimatedStorageFootprint, Conservation
<1>4. ASSUME NEW admin \in Admins, NEW wallet \in Admins, EmergencySweep(admin, wallet)
      PROVE  PoolInv'
  <2>1. CanTransfer(balance, Pool, balance[Pool]) /\ balance[Pool] \in Int
    BY AddressAssumption DEF TypeOK, CanTransfer
  <2>2. balance' = Transfer(balance, Pool, wallet, balance[Pool])
    BY <1>4 DEF EmergencySweep
  <2>3. balance' \in [Address -> Nat] /\ Total(balance') = Total(Endowment)
    BY <2>1, <2>2, TransferKeepsLedger, AddressAssumption DEF TypeOK
  <2>4. QED
    BY <1>4, <2>3
    DEF EmergencySweep, TypeOK, SpenderFootprint, EstimatedStorageFootprint, Conservation
<1>5. ASSUME NEW caller \in Callers, NEW learner \in Learners, NEW amount \in Amounts,
             DistributeReward(caller, learner, amount)
      PROVE  PoolInv'
  <2>1. CanTransfer(balance, Pool, amount) /\ amount \in Int
    BY <1>5, AmountAssumption DEF DistributeReward, CanDistribute
  <2>2. balance' = Transfer(balance, Pool, learner, amount)
    BY <1>5 DEF DistributeReward
  <2>3. balance' \in [Address -> Nat] /\ Total(balance') = Total(Endowment)
    BY <2>1, <2>2, TransferKeepsLedger, AddressAssumption DEF TypeOK
  <2>4. QED
    BY <1>5, <2>3
    DEF DistributeReward, TypeOK, SpenderFootprint, EstimatedStorageFootprint, Conservation
<1>6. ASSUME NEW donor \in Address \ {Pool}, NEW amount \in Amounts, FundPool(donor, amount)
      PROVE  PoolInv'
  <2>1. CanTransfer(balance, donor, amount) /\ amount \in Int
    BY <1>6, AmountAssumption DEF FundPool
  <2>2. balance' = Transfer(balance, donor, Pool, amount)
    BY <1>6 DEF FundPool
  <2>3. balance' \in [Address -> Nat] /\ Total(balance') = Total(Endowment)
    BY <2>1, <2>2, TransferKeepsLedger, AddressAssumption DEF TypeOK
  <2>4. QED
    BY <1>6, <2>3
    DEF FundPool, TypeOK, SpenderFootprint, EstimatedStorageFootprint, Conservation
<1>7. CASE UNCHANGED poolVars
  BY <1>7
  DEF poolVars, TypeOK, SpenderFootprint, EstimatedStorageFootprint, Conservation
<1>8. QED
  BY <1>1, <1>2, <1>3, <1>4, <1>5, <1>6, <1>7 DEF Next, AdminStep

(* Type correctness, the footprint counter and conservation of the token   *)
(* hold in every reachable state of the RewardPool.                        *)
THEOREM PoolInvariant == Spec => []PoolInv
BY PoolInvInit, PoolInvStep, PTL DEF Spec

(* Every storage entry keeps its type; no balance is ever negative.        *)
THEOREM TypeCorrect == Spec => []TypeOK
<1>1. PoolInv => TypeOK
  BY DEF PoolInv
<1>2. QED
  BY <1>1, PoolInvariant, PTL

(* estimated_storage_footprint counts the Spender entries.                 *)
THEOREM FootprintCorrect == Spec => []SpenderFootprint
<1>1. PoolInv => SpenderFootprint
  BY DEF PoolInv
<1>2. QED
  BY <1>1, PoolInvariant, PTL

(* The RewardPool neither creates nor destroys tokens.                     *)
THEOREM TokensConserved == Spec => []Conservation
<1>1. PoolInv => Conservation
  BY DEF PoolInv
<1>2. QED
  BY <1>1, PoolInvariant, PTL

-----------------------------------------------------------------------------
(* While the pool is paused, tokens leave it only by an emergency sweep of *)
(* the whole balance to one wallet.                                        *)
THEOREM PauseHolds == Spec => PausedOnlySwept
<1> DEFINE Swept == isPaused /\ balance'[Pool] < balance[Pool] => balance'[Pool] = 0 /\
             \E wallet \in Admins : balance'[wallet] = balance[wallet] + balance[Pool]
<1>1. ASSUME TypeOK, Next PROVE Swept
  <2> SUFFICES ASSUME isPaused, balance'[Pool] < balance[Pool]
               PROVE  /\ balance'[Pool] = 0
                      /\ \E wallet \in Admins : balance'[wallet] = balance[wallet] + balance[Pool]
    OBVIOUS
  <2>1. Pool \in Address /\ balance \in [Address -> Nat] /\ Admins \subseteq Address
    BY <1>1, AddressAssumption DEF TypeOK
  <2>2. ~UNCHANGED balance
    BY <2>1
  <2>3. ASSUME NEW donor \in Address \ {Pool}, NEW amount \in Amounts, FundPool(donor, amount)
        PROVE  FALSE
    BY <2>1, <2>3, AmountAssumption DEF FundPool, CanTransfer, Transfer
  <2>4. PICK admin \in Admins, wallet \in Admins : EmergencySweep(admin, wallet)
    BY <1>1, <2>2, <2>3 DEF Next, AdminStep, Initialize, AddApprovedSpender, SetPause,
                            DistributeReward, CanDistribute
  <2>5. wallet # Pool
    BY <2>1, <2>4 DEF EmergencySweep, Transfer
  <2>6. balance'[Pool] = 0 /\ balance'[wallet] = balance[wallet] + balance[Pool]
    BY <2>1, <2>4, <2>5 DEF EmergencySweep, Transfer
  <2>7. QED
    BY <2>6
<1>2. ASSUME TypeOK, [Next]_poolVars PROVE [Swept]_poolVars
  BY <1>1, <1>2
<1>3. QED
  BY <1>2, TypeCorrect, PTL DEF Spec, PausedOnlySwept
=============================================================================
