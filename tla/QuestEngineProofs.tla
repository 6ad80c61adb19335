--------------------------- MODULE QuestEngineProofs ---------------------------
(***************************************************************************)
(* Proofs about QuestEngine: types, the ledger of the escrow, what         *)
(* learners are paid, the pause, and the board of bounties it implements.  *)
(***************************************************************************)
EXTENDS QuestEngine, TokenTheorems

(* Four addresses that make a set of four are different.                   *)
LEMMA FourApart ==
  ASSUME NEW a, NEW b, NEW c, NEW d, Cardinality({a, b, c, d}) = 4
  PROVE  a \notin {b, c, d}
<1>1. IsFiniteSet({b}) /\ Cardinality({b}) = 1
  BY FS_Singleton
<1>2. IsFiniteSet({b} \cup {c}) /\ Cardinality({b} \cup {c}) \in {1, 2}
  BY <1>1, FS_AddElement
<1>3. Cardinality(({b} \cup {c}) \cup {d}) \in {1, 2, 3}
  BY <1>2, FS_AddElement
<1>4. ({b} \cup {c}) \cup {d} = {b, c, d}
  OBVIOUS
<1>5. a \in {b, c, d} => {a, b, c, d} = {b, c, d}
  OBVIOUS
<1>6. QED
  BY <1>3, <1>4, <1>5

(* The engine is none of the other contracts, nor is the pool the vault.   *)
LEMMA EngineApart == Engine \notin {Pool, Vault, Elsewhere} /\ Pool # Vault
<1>1. Cardinality({Engine, Pool, Vault, Elsewhere}) = 4
  BY EngineAddressAssumption
<1>2. Engine \notin {Pool, Vault, Elsewhere}
  BY <1>1, FourApart
<1>3. {Engine, Pool, Vault, Elsewhere} = {Pool, Vault, Engine, Elsewhere}
  OBVIOUS
<1>4. Pool \notin {Vault, Engine, Elsewhere}
  BY <1>1, <1>3, FourApart
<1>5. QED
  BY <1>2, <1>4

(* The vault's multiplier only ever raises a payout, and what it raises is *)
(* cut back: fee and learner's share are the reward, to the last unit.     *)
FeeOn(reward) == (reward * 15) \div 100

LEMMA PayoutExact ==
  ASSUME NEW reward \in Nat, NEW multiplier \in {100, 120, 200}
  PROVE  /\ ComputeLearnerPayout(reward, multiplier)
              = [fee |-> FeeOn(reward), learner_amount |-> reward - FeeOn(reward)]
         /\ FeeOn(reward) \in Nat /\ FeeOn(reward) <= reward
<1> DEFINE fee == (reward * 1500) \div 10000
           base == reward - fee
<1>1. fee = FeeOn(reward) /\ fee \in Nat /\ fee <= reward
  BY DEF FeeOn
<1> HIDE DEF fee
<1>2. base \in Nat
  BY <1>1
<1> HIDE DEF base
<1>3. (base * multiplier) \div 100 \in Int /\ (base * multiplier) \div 100 >= base
  <2>1. CASE multiplier = 100
    BY <1>2, <2>1
  <2>2. CASE multiplier = 120
    BY <1>2, <2>2
  <2>3. CASE multiplier = 200
    BY <1>2, <2>3
  <2>4. QED
    BY <2>1, <2>2, <2>3
<1>4. (IF (base * multiplier) \div 100 > base THEN base ELSE (base * multiplier) \div 100) = base
  BY <1>2, <1>3
<1> DEFINE share == IF (base * multiplier) \div 100 > base THEN base
                    ELSE (base * multiplier) \div 100
<1>5. ComputeLearnerPayout(reward, multiplier) = [fee |-> fee, learner_amount |-> share]
  BY DEF ComputeLearnerPayout, base, fee
<1> HIDE DEF share
<1>6. share = reward - FeeOn(reward)
  BY <1>1, <1>4 DEF share, base
<1>7. QED
  BY <1>1, <1>5, <1>6

-----------------------------------------------------------------------------
(* Types.                                                                  *)

(* A transfer that the token accepts keeps every balance a natural number. *)
LEMMA TransferTypes ==
  ASSUME balance \in [Address -> Nat], NEW from \in Address, NEW to \in Address, NEW amount,
         CanTransfer(balance, from, amount)
  PROVE  Transfer(balance, from, to, amount) \in [Address -> Nat]
BY DEF CanTransfer, Transfer

(* The other contracts move tokens by the same rules.                      *)
LEMMA SameToken ==
  /\ \A ledger, from, amount :
       /\ RP!CanTransfer(ledger, from, amount) = CanTransfer(ledger, from, amount)
       /\ SV!CanTransfer(ledger, from, amount) = CanTransfer(ledger, from, amount)
  /\ \A ledger, from, to, amount :
       /\ RP!Transfer(ledger, from, to, amount) = Transfer(ledger, from, to, amount)
       /\ SV!Transfer(ledger, from, to, amount) = Transfer(ledger, from, to, amount)
BY DEF RP!CanTransfer, SV!CanTransfer, RP!Transfer, SV!Transfer, CanTransfer, Transfer

(* What a transfer does to each balance.                                   *)
LEMMA TransferEffect ==
  ASSUME balance \in [Address -> Nat], NEW from \in Address, NEW to \in Address, NEW amount,
         CanTransfer(balance, from, amount), NEW a \in Address
  PROVE  /\ amount \in Nat /\ amount <= balance[from]
         /\ a \notin {from, to} => Transfer(balance, from, to, amount)[a] = balance[a]
         /\ from # to =>
              /\ Transfer(balance, from, to, amount)[from] = balance[from] - amount
              /\ Transfer(balance, from, to, amount)[to] = balance[to] + amount
BY DEF CanTransfer, Transfer

(* The pool's other callers do not touch the engine's tokens, nor those of *)
(* a learner who does not administer the pool.                             *)
LEMMA PoolEffect ==
  ASSUME TypeOK, PoolStep
  PROVE  /\ RP!TypeOK'
         /\ \A a \in Address \ ({Pool} \cup ServiceAdmins) : balance'[a] = balance[a]
<1>1. /\ balance \in [Address -> Nat] /\ Pool \in Address /\ balance[Pool] \in Nat
      /\ Engine \in Address /\ ServiceAdmins \subseteq Address
  BY EngineAddressAssumption DEF TypeOK, RP!TypeOK
<1>2. ASSUME NEW donor \in ServiceAdmins, NEW amount, RP!FundPool(donor, amount)
      PROVE  /\ RP!TypeOK'
             /\ \A a \in Address \ ({Pool} \cup ServiceAdmins) : balance'[a] = balance[a]
  <2>1. /\ CanTransfer(balance, donor, amount)
        /\ balance' = Transfer(balance, donor, Pool, amount)
        /\ UNCHANGED <<poolAdmin, spenders, spenderCount, isPaused>>
    BY <1>2, SameToken DEF RP!FundPool
  <2>2. balance' \in [Address -> Nat]
    BY <1>1, <2>1, TransferTypes
  <2>3. ASSUME NEW a \in Address \ ({Pool} \cup ServiceAdmins) PROVE balance'[a] = balance[a]
    BY <1>1, <2>1, TransferEffect
  <2>4. QED
    BY <2>1, <2>2, <2>3 DEF TypeOK, RP!TypeOK
<1>3. ASSUME NEW admin \in ServiceAdmins, NEW wallet \in ServiceAdmins,
             RP!EmergencySweep(admin, wallet)
      PROVE  /\ RP!TypeOK'
             /\ \A a \in Address \ ({Pool} \cup ServiceAdmins) : balance'[a] = balance[a]
  <2>1. /\ balance' = Transfer(balance, Pool, wallet, balance[Pool])
        /\ UNCHANGED <<poolAdmin, spenders, spenderCount, isPaused>>
    BY <1>3, SameToken DEF RP!EmergencySweep
  <2>2. CanTransfer(balance, Pool, balance[Pool])
    BY <1>1 DEF CanTransfer
  <2>3. balance' \in [Address -> Nat]
    BY <1>1, <2>1, <2>2, TransferTypes
  <2>4. ASSUME NEW a \in Address \ ({Pool} \cup ServiceAdmins) PROVE balance'[a] = balance[a]
    BY <1>1, <2>1, <2>2, TransferEffect
  <2>5. QED
    BY <2>1, <2>3, <2>4 DEF TypeOK, RP!TypeOK
<1>4. ASSUME NEW admin \in ServiceAdmins,
             \/ RP!Initialize(admin)
             \/ RP!AddApprovedSpender(admin, Engine)
             \/ \E status \in BOOLEAN : RP!SetPause(admin, status)
      PROVE  RP!TypeOK' /\ balance' = balance
  BY <1>1, <1>4 DEF RP!Initialize, RP!AddApprovedSpender, RP!SetPause, TypeOK, RP!TypeOK
<1>5. QED
  BY <1>2, <1>3, <1>4 DEF PoolStep, RP!AdminStep

(* A stake is money set aside: the vault leaves the engine alone, and each *)
(* learner's purse and stake together what they were.                      *)
LEMMA VaultEffect ==
  ASSUME TypeOK, VaultStep
  PROVE  /\ SV!TypeOK' /\ balance'[Engine] = balance[Engine]
         /\ \A l \in Learners :
              balance'[l] + SV!StakeOf(l)' = balance[l] + SV!StakeOf(l)
<1>1. /\ balance \in [Address -> Nat] /\ Vault \in Address /\ Engine \in Address
      /\ Learners \subseteq Address \ {Engine, Vault} /\ Engine # Vault
      /\ ServiceAdmins \subseteq Address /\ now \in 0..MaxTime /\ MaxTime \in Nat
      /\ LockPeriod \in Nat /\ StakeAmounts \subseteq Int
      /\ stakes \in [Learners -> SV!StakeInfo \cup {None}] /\ None \notin SV!StakeInfo
      /\ vaultAdmin \in Address \cup {None}
  BY EngineAddressAssumption, EngineApart, StakingAssumption, EngineNoneAssumption
  DEF TypeOK, SV!TypeOK
<1>2. \A l \in Learners : SV!StakeOf(l) \in Nat
  BY <1>1 DEF SV!StakeOf, SV!StakeInfo
<1>3. ASSUME NEW user \in Learners, NEW amount \in StakeAmounts, SV!Stake(user, amount)
      PROVE  /\ SV!TypeOK' /\ balance'[Engine] = balance[Engine]
             /\ \A l \in Learners :
                  balance'[l] + SV!StakeOf(l)' = balance[l] + SV!StakeOf(l)
  <2> DEFINE info == SV!Deposited(user, amount)
  <2>1. /\ CanTransfer(balance, user, amount) /\ amount > 0
        /\ balance' = Transfer(balance, user, Vault, amount)
        /\ stakes' = [stakes EXCEPT ![user] = info]
        /\ UNCHANGED <<vaultAdmin, now>>
    BY <1>3, SameToken DEF SV!Stake
  <2>2. /\ balance' \in [Address -> Nat] /\ amount \in Nat
        /\ balance'[Engine] = balance[Engine] /\ balance'[user] = balance[user] - amount
        /\ \A l \in Learners : l # user => balance'[l] = balance[l]
    BY <1>1, <2>1, TransferTypes, TransferEffect
  <2>3. info \in SV!StakeInfo /\ info.amount = SV!StakeOf(user) + amount
    BY <1>1, <1>2, <2>1, <2>2 DEF SV!Deposited, SV!StakeInfo
  <2> HIDE DEF info
  <2>4. \A l \in Learners :
          SV!StakeOf(l)' = IF l = user THEN SV!StakeOf(user) + amount ELSE SV!StakeOf(l)
    BY <1>1, <2>1, <2>3 DEF SV!StakeOf
  <2>5. SV!TypeOK'
    BY <1>1, <2>1, <2>2, <2>3 DEF SV!TypeOK
  <2>6. \A l \in Learners : balance[l] \in Nat
    BY <1>1
  <2>7. QED
    BY <1>2, <2>2, <2>4, <2>5, <2>6
<1>4. ASSUME NEW user \in Learners, SV!Unstake(user)
      PROVE  /\ SV!TypeOK' /\ balance'[Engine] = balance[Engine]
             /\ \A l \in Learners :
                  balance'[l] + SV!StakeOf(l)' = balance[l] + SV!StakeOf(l)
  <2> DEFINE amount == stakes[user].amount
  <2>1. /\ CanTransfer(balance, Vault, amount) /\ stakes[user] # None
        /\ balance' = Transfer(balance, Vault, user, amount)
        /\ stakes' = [stakes EXCEPT ![user] = None]
        /\ UNCHANGED <<vaultAdmin, now>>
    BY <1>4, SameToken DEF SV!Unstake
  <2>2. SV!StakeOf(user) = amount
    BY <2>1 DEF SV!StakeOf
  <2> HIDE DEF amount
  <2>3. /\ balance' \in [Address -> Nat] /\ amount \in Nat
        /\ balance'[Engine] = balance[Engine] /\ balance'[user] = balance[user] + amount
        /\ \A l \in Learners : l # user => balance'[l] = balance[l]
    BY <1>1, <2>1, TransferTypes, TransferEffect
  <2>4. \A l \in Learners :
          SV!StakeOf(l)' = IF l = user THEN 0 ELSE SV!StakeOf(l)
    BY <1>1, <2>1 DEF SV!StakeOf
  <2>5. SV!TypeOK'
    BY <1>1, <2>1, <2>3 DEF SV!TypeOK
  <2>6. \A l \in Learners : balance[l] \in Nat
    BY <1>1
  <2>7. QED
    BY <1>2, <2>2, <2>3, <2>4, <2>5, <2>6
<1>5. ASSUME (\E admin \in ServiceAdmins : SV!InitializeVault(admin)) \/ SV!Tick
      PROVE  /\ SV!TypeOK' /\ UNCHANGED <<balance, stakes>>
  BY <1>1, <1>5 DEF SV!InitializeVault, SV!Tick, SV!TypeOK
<1>6. ASSUME UNCHANGED <<balance, stakes>>
      PROVE  /\ balance'[Engine] = balance[Engine]
             /\ \A l \in Learners :
                  balance'[l] + SV!StakeOf(l)' = balance[l] + SV!StakeOf(l)
  BY <1>6 DEF SV!StakeOf
<1>7. QED
  BY <1>3, <1>4, <1>5, <1>6 DEF VaultStep, SV!Next

-----------------------------------------------------------------------------
(* Payments.                                                               *)
LEMMA MultiplierType ==
  ASSUME TypeOK, NEW l \in Learners
  PROVE  SV!GetMultiplier(l) \in {100, 120, 200}
<1>1. SV!StakeOf(l) \in Nat /\ TierLow \in Nat /\ TierHigh \in Nat
  BY EngineNoneAssumption, StakingAssumption DEF TypeOK, SV!TypeOK, SV!StakeOf, SV!StakeInfo
<1>2. CASE SV!StakeOf(l) >= TierHigh
  BY <1>1, <1>2 DEF SV!GetMultiplier
<1>3. CASE SV!StakeOf(l) < TierHigh /\ SV!StakeOf(l) >= TierLow
  BY <1>1, <1>3 DEF SV!GetMultiplier
<1>4. CASE SV!StakeOf(l) < TierHigh /\ SV!StakeOf(l) < TierLow
  BY <1>1, <1>4 DEF SV!GetMultiplier
<1>5. QED
  BY <1>1, <1>2, <1>3, <1>4

LearnerShare(id) == RewardOf(id) - FeeOn(RewardOf(id))

(* Paying for approvals of a quest takes one whole reward for each from    *)
(* the engine, and gives each learner the reward less the fee.             *)
LEMMA PaymentsEffect ==
  ASSUME TypeOK, NEW chosen \in SUBSET Learners, NEW id \in QuestIds, PayAll(chosen, id),
         quests[id] # None, quests[id].reward_amount \in Nat
  PROVE  /\ balance' \in [Address -> Nat]
         /\ balance'[Engine] = balance[Engine] - Cardinality(chosen) * RewardOf(id)
         /\ \A l \in Learners :
              balance'[l] = balance[l] + IF l \in chosen THEN LearnerShare(id) ELSE 0
         /\ \A a \in Address \ ({Engine} \cup Learners) :
              balance'[a] = balance[a]
                + IF a = rewardPool THEN Cardinality(chosen) * FeeOn(RewardOf(id)) ELSE 0
<1> DEFINE r == quests[id].reward_amount
           fee == FeeOn(r)
           costs == [l \in chosen |-> Cost(l, id)]
           fees == [l \in chosen |-> Payout(l, id).fee]
<1>1. /\ balance \in [Address -> Nat] /\ Learners \subseteq Address /\ Engine \in Address
      /\ rewardPool \in {None, Pool, Elsewhere} /\ None \notin Address
      /\ Engine # rewardPool /\ Learners \cap {Engine, Pool, Elsewhere} = {}
  BY EngineAddressAssumption, EngineApart DEF TypeOK, RP!TypeOK
<1>2. IsFiniteSet(chosen) /\ Cardinality(chosen) \in Nat
  <2>1. chosen \subseteq Address
    BY <1>1
  <2>2. IsFiniteSet(chosen)
    BY <2>1, EngineAddressAssumption, FS_Subset
  <2>3. QED
    BY <2>2, FS_CardinalityType
<1>3. ASSUME NEW l \in chosen
      PROVE  /\ Payout(l, id).fee = fee /\ Payout(l, id).learner_amount = r - fee
             /\ Cost(l, id) = r /\ fee \in 0..r
  <2>1. SV!GetMultiplier(l) \in {100, 120, 200}
    BY MultiplierType
  <2>2. /\ Payout(l, id).fee = fee /\ Payout(l, id).learner_amount = r - fee
        /\ fee \in 0..r
    <3> DEFINE multiplier == SV!GetMultiplier(l)
    <3> HIDE DEF multiplier
    <3>1. Payout(l, id) = ComputeLearnerPayout(r, multiplier)
      BY DEF Payout, multiplier
    <3>2. multiplier \in {100, 120, 200} /\ r \in Nat
      BY <2>1 DEF multiplier
    <3> HIDE DEF r
    <3>3. /\ ComputeLearnerPayout(r, multiplier) = [fee |-> fee, learner_amount |-> r - fee]
          /\ fee \in Nat /\ fee <= r
      BY <3>2, PayoutExact
    <3>4. QED
      BY <3>1, <3>2, <3>3
  <2>3. Cost(l, id) = fee + (r - fee)
    BY <2>2 DEF Cost
  <2> HIDE DEF fee
  <2>4. r \in Nat
    OBVIOUS
  <2>5. QED
    BY <2>2, <2>3, <2>4
<1>4. r \in Nat /\ fee \in Nat /\ fee <= r
  BY PayoutExact
<1> HIDE DEF r, fee
<1>5. Total(costs) = Cardinality(chosen) * r
  <2>1. costs = [l \in chosen |-> IF l \in chosen THEN r ELSE 0]
    BY <1>3
  <2>2. Total([l \in chosen |-> IF l \in chosen THEN r ELSE 0]) = Cardinality(chosen) * r
    BY <1>2, <1>4, TotalConstant
  <2>3. QED
    BY <2>1, <2>2
<1>6. Total(fees) \in Nat /\ Total(fees) = Cardinality(chosen) * fee
  <2>1. fees \in [chosen -> Nat]
    BY <1>3, <1>4
  <2>2. Total(fees) \in Nat
    BY <1>2, <2>1, UnitsFinite
  <2>3. fees = [l \in chosen |-> IF l \in chosen THEN fee ELSE 0]
    BY <1>3
  <2>4. Total([l \in chosen |-> IF l \in chosen THEN fee ELSE 0]) = Cardinality(chosen) * fee
    BY <1>2, <1>4, TotalConstant
  <2>5. QED
    BY <2>2, <2>3, <2>4
<1> HIDE DEF costs, fees
<1>7. /\ Total(costs) \in 0..balance[Engine]
      /\ balance' = [a \in Address |->
           balance[a]
             - (IF a = Engine THEN Total(costs) ELSE 0)
             + (IF a = rewardPool THEN Total(fees) ELSE 0)
             + (IF a \in chosen THEN Payout(a, id).learner_amount ELSE 0)]
  BY <1>1 DEF PayAll, AfterPayments, CanTransfer, costs, fees
<1>8. ASSUME NEW a \in Address PROVE balance'[a] \in Nat
  <2>1. balance[a] \in Nat /\ balance[Engine] \in Nat
    BY <1>1
  <2>2. CASE a \in chosen
    BY <1>1, <1>3, <1>4, <1>6, <1>7, <2>1, <2>2
  <2>3. CASE a \notin chosen
    BY <1>6, <1>7, <2>1, <2>3
  <2>4. QED
    BY <2>2, <2>3
<1>9. balance'[Engine] = balance[Engine] - Total(costs)
  BY <1>1, <1>7
<1>10. ASSUME NEW l \in Learners
       PROVE  balance'[l] = balance[l] + IF l \in chosen THEN r - fee ELSE 0
  <2>1. balance[l] \in Nat /\ l # Engine /\ l # rewardPool /\ l \in Address
    BY <1>1
  <2>2. CASE l \in chosen
    BY <1>3, <1>4, <1>7, <2>1, <2>2
  <2>3. CASE l \notin chosen
    BY <1>7, <2>1, <2>3
  <2>4. QED
    BY <2>2, <2>3
<1>11. RewardOf(id) = r /\ LearnerShare(id) = r - fee /\ FeeOn(RewardOf(id)) = fee
  BY DEF RewardOf, LearnerShare, r, fee
<1>12. ASSUME NEW a \in Address \ ({Engine} \cup Learners)
       PROVE  balance'[a] = balance[a] + IF a = rewardPool THEN Cardinality(chosen) * fee ELSE 0
  <2>1. balance[a] \in Nat /\ a # Engine /\ a \notin chosen
    BY <1>1
  <2>2. balance'[a] = balance[a] - 0 + (IF a = rewardPool THEN Total(fees) ELSE 0) + 0
    BY <1>7, <2>1
  <2>3. CASE a = rewardPool
    BY <1>6, <2>1, <2>2, <2>3
  <2>4. CASE a # rewardPool
    BY <2>1, <2>2, <2>4
  <2>5. QED
    BY <2>3, <2>4
<1>13. QED
  BY <1>5, <1>7, <1>8, <1>9, <1>10, <1>11, <1>12

(* A batch of nobody changes nothing.                                      *)
LEMMA EmptyBatch ==
  ASSUME TypeOK, NEW id \in QuestIds, PayAll({}, id)
  PROVE  balance' = balance
<1>1. balance \in [Address -> Nat] /\ Engine # rewardPool
  BY EngineAddressAssumption, EngineApart DEF TypeOK, RP!TypeOK
<1>2. ASSUME NEW f, DOMAIN f = {} PROVE Total(f) = 0
  <2>1. Units(f) = {}
    BY <1>2 DEF Units
  <2>2. QED
    BY <2>1, FS_EmptySet DEF Total
<1>3. /\ Total([l \in {} |-> Cost(l, id)]) = 0
      /\ Total([l \in {} |-> Payout(l, id).fee]) = 0
  BY <1>2
<1>4. balance' = [a \in Address |-> balance[a] - 0 + 0 + 0]
  BY <1>1, <1>3 DEF PayAll, AfterPayments
<1>5. QED
  BY <1>1, <1>4

-----------------------------------------------------------------------------
(* What a transaction of the platform is to the engine.                    *)
WiringCall ==
  /\ UNCHANGED <<balance, pool, vault, quests, submissions, verified>>
  /\ engineAdmin' \in Admins \cup {None} /\ enginePaused' \in BOOLEAN
  /\ rewardPool' \in {None, Pool, Elsewhere} /\ stakeVault' \in {None, Vault, Elsewhere}
  /\ IF engineAdmin = None
     THEN questCounter' \in {0, questCounter}
     ELSE questCounter' = questCounter /\ engineAdmin' # None

Rejection(employer, learner, id) ==
  /\ MayReview(employer, id, {learner})
  /\ UNCHANGED balance
  /\ Decide({learner}, id, "Rejected")

LEMMA EngineCalls ==
  ASSUME TypeOK, [Next]_vars
  PROVE  \/ WiringCall
         \/ \E employer \in Employers, reward \in Rewards : CreateBuildQuest(employer, reward)
         \/ \E admin \in Admins, reward \in Rewards : CreateExploreQuest(admin, reward)
         \/ \E l \in Learners, id \in QuestIds : SubmitProof(l, id)
         \/ \E employer \in Employers \cup Admins, id \in QuestIds, chosen \in SUBSET Learners :
              chosen # {} /\ BatchReviewSubmissions(employer, id, chosen)
         \/ \E employer \in Employers \cup Admins, l \in Learners, id \in QuestIds :
              Rejection(employer, l, id)
         \/ \E employer \in Employers \cup Admins, id \in QuestIds : RefundQuest(employer, id)
         \/ \E admin \in Admins, l \in Learners, id \in QuestIds :
              VerifyExploreQuest(admin, l, id)
         \/ PoolStep
         \/ VaultStep
<1>1. CASE AdminStep
  <2>1. ASSUME NEW admin \in Admins,
               \/ \E poolAddress \in {Pool, Elsewhere}, vaultAddress \in {Vault, Elsewhere} :
                    Initialize(admin, poolAddress, vaultAddress)
               \/ \E status \in BOOLEAN : SetPause(admin, status)
               \/ \E address \in {Pool, Elsewhere} : SetRewardPoolAddress(admin, address)
               \/ \E address \in {Vault, Elsewhere} : SetStakeVaultAddress(admin, address)
        PROVE  WiringCall
    BY <2>1 DEF Initialize, SetPause, SetRewardPoolAddress, SetStakeVaultAddress, IsAdmin,
                WiringCall, TypeOK, wiring, board
  <2>2. QED
    BY <1>1, <2>1 DEF AdminStep
<1>2. CASE EmployerStep
  <2>1. ASSUME NEW employer \in Employers \cup Admins, NEW l \in Learners, NEW id \in QuestIds,
               NEW approve \in BOOLEAN, ReviewSubmission(employer, l, id, approve)
        PROVE  \/ BatchReviewSubmissions(employer, id, {l})
               \/ Rejection(employer, l, id)
    <3>1. CASE approve
      BY <2>1, <3>1 DEF ReviewSubmission, BatchReviewSubmissions
    <3>2. CASE ~approve
      BY <2>1, <3>2 DEF ReviewSubmission, Rejection
    <3>3. QED
      BY <3>1, <3>2
  <2>2. ASSUME NEW employer \in Employers \cup Admins, NEW l \in Learners, NEW id \in QuestIds,
               NEW approve \in BOOLEAN, ReviewSubmission(employer, l, id, approve)
        PROVE  \/ \E chosen \in SUBSET Learners :
                    chosen # {} /\ BatchReviewSubmissions(employer, id, chosen)
               \/ Rejection(employer, l, id)
    <3>1. {l} \in SUBSET Learners /\ {l} # {}
      OBVIOUS
    <3>2. QED
      BY <2>1, <2>2, <3>1
  <2>3. ASSUME NEW employer \in Employers \cup Admins, NEW id \in QuestIds,
               BatchReviewSubmissions(employer, id, {})
        PROVE  WiringCall
    <3>1. balance' = balance
      BY <2>3, EmptyBatch DEF BatchReviewSubmissions
    <3>2. submissions' = submissions
      BY <2>3 DEF BatchReviewSubmissions, Decide, TypeOK
    <3>3. QED
      BY <2>3, <3>1, <3>2 DEF BatchReviewSubmissions, Decide, WiringCall, TypeOK, wiring, board
  <2>4. CASE \E employer \in Employers, reward \in Rewards : CreateBuildQuest(employer, reward)
    BY <2>4
  <2>5. ASSUME NEW employer \in Employers \cup Admins, NEW id \in QuestIds,
               NEW chosen \in SUBSET Learners, BatchReviewSubmissions(employer, id, chosen)
        PROVE  \/ WiringCall
               \/ chosen # {} /\ BatchReviewSubmissions(employer, id, chosen)
    BY <2>3, <2>5
  <2>6. CASE \E employer \in Employers \cup Admins, id \in QuestIds, l \in Learners,
                approve \in BOOLEAN : ReviewSubmission(employer, l, id, approve)
    BY <2>2, <2>6
  <2>7. CASE \E employer \in Employers \cup Admins, id \in QuestIds, chosen \in SUBSET Learners :
               BatchReviewSubmissions(employer, id, chosen)
    BY <2>5, <2>7
  <2>8. CASE \E employer \in Employers \cup Admins, id \in QuestIds : RefundQuest(employer, id)
    BY <2>8
  <2>9. QED
    BY <1>2, <2>4, <2>6, <2>7, <2>8 DEF EmployerStep
<1>3. CASE LearnerStep
  BY <1>3 DEF LearnerStep
<1>4. CASE UNCHANGED vars
  BY <1>4 DEF vars, WiringCall, TypeOK, wiring, board
<1>5. QED
  BY <1>1, <1>2, <1>3, <1>4 DEF Next

-----------------------------------------------------------------------------
(* The inductive invariant: the types of the engine's storage, and what    *)
(* the keys of a quest, its submissions and its verifications say of each  *)
(* other.                                                                  *)
EngineTypes ==
  /\ engineAdmin \in Admins \cup {None}
  /\ enginePaused \in BOOLEAN
  /\ rewardPool \in {None, Pool, Elsewhere}
  /\ stakeVault \in {None, Vault, Elsewhere}
  /\ questCounter \in 0..MaxQuests
  /\ quests \in [QuestIds -> Quest \cup {None}]
  /\ submissions \in [Pairs -> {None, "Pending", "Approved", "Rejected"}]
  /\ verified \in [Pairs -> Nat]

(* The counter is ahead of every quest, the rewards that were transferred  *)
(* are not negative, submissions are for build quests and verifications    *)
(* for quests with something to pay.                                       *)
QuestFacts ==
  /\ engineAdmin = None => questCounter = 0
  /\ \A id \in QuestIds : id > questCounter => quests[id] = None
  /\ \A id \in QuestIds :
       quests[id] # None /\ (quests[id].quest_type = "Build" \/ ~quests[id].active)
         => quests[id].reward_amount >= 0
  /\ \A p \in Pairs :
       submissions[p] # None => quests[p[2]] # None /\ quests[p[2]].quest_type = "Build"
  /\ \A p \in Pairs :
       verified[p] > 0 => quests[p[2]] # None /\ quests[p[2]].reward_amount > 0

LEMMA TypesSplit == TypeOK <=> RP!TypeOK /\ SV!TypeOK /\ EngineTypes
BY DEF TypeOK, EngineTypes

LEMMA ServicesKept ==
  ASSUME TypeOK, balance' \in [Address -> Nat], UNCHANGED <<pool, vault>>
  PROVE  RP!TypeOK' /\ SV!TypeOK'
BY DEF TypeOK, RP!TypeOK, SV!TypeOK, pool, vault

LEMMA QuestFields ==
  ASSUME EngineTypes, NEW id \in QuestIds, quests[id] # None
  PROVE  /\ quests[id] \in Quest /\ quests[id].employer \in Employers \cup Admins
         /\ quests[id].reward_amount \in Int /\ quests[id].reward_amount \in Rewards
         /\ quests[id].quest_type \in {"Build", "Explore"} /\ quests[id].active \in BOOLEAN
BY QuestAssumption DEF EngineTypes, Quest

(* A new quest takes a key at which nothing has happened.                  *)
LEMMA NewQuestEffect ==
  ASSUME EngineTypes, QuestFacts, NEW employer \in Employers \cup Admins,
         NEW reward \in Rewards, NEW type \in {"Build", "Explore"},
         NewQuest(employer, reward, type)
  PROVE  /\ questCounter + 1 \in QuestIds /\ quests[questCounter + 1] = None
         /\ \A p \in Pairs : p[2] = questCounter + 1 => submissions[p] = None /\ verified[p] = 0
         /\ quests'[questCounter + 1] =
              [employer |-> employer, reward_amount |-> reward,
               quest_type |-> type, active |-> TRUE]
         /\ quests'[questCounter + 1] # None
         /\ \A id \in QuestIds : id # questCounter + 1 => quests'[id] = quests[id]
<1> DEFINE n == questCounter + 1
<1>1. questCounter \in 0..MaxQuests /\ questCounter < MaxQuests /\ MaxQuests \in Nat
  BY QuestAssumption DEF EngineTypes, NewQuest
<1>2. n \in QuestIds /\ n > questCounter
  BY <1>1 DEF QuestIds
<1>3. quests[n] = None
  BY <1>2 DEF QuestFacts
<1>4. ASSUME NEW p \in Pairs, p[2] = n PROVE submissions[p] = None /\ verified[p] = 0
  <2>1. verified[p] \in Nat
    BY DEF EngineTypes
  <2>2. QED
    BY <1>3, <1>4, <2>1 DEF QuestFacts
<1>5. /\ quests \in [QuestIds -> Quest \cup {None}]
      /\ quests' = [quests EXCEPT ![n] =
                      [employer |-> employer, reward_amount |-> reward,
                       quest_type |-> type, active |-> TRUE]]
  BY DEF EngineTypes, NewQuest
<1>6. [employer |-> employer, reward_amount |-> reward,
       quest_type |-> type, active |-> TRUE] \in Quest
  BY DEF Quest
<1>7. QED
  BY <1>2, <1>3, <1>4, <1>5, <1>6, EngineNoneAssumption

LEMMA NewQuestKeeps ==
  ASSUME TypeOK, QuestFacts, NEW employer \in Employers \cup Admins,
         NEW reward \in Rewards, NEW type \in {"Build", "Explore"},
         NewQuest(employer, reward, type), balance' \in [Address -> Nat],
         engineAdmin # None, type = "Build" => reward >= 0
  PROVE  TypeOK' /\ QuestFacts'
<1> DEFINE n == questCounter + 1
           quest == [employer |-> employer, reward_amount |-> reward,
                     quest_type |-> type, active |-> TRUE]
<1>1. EngineTypes
  BY TypesSplit
<1>2. /\ n \in QuestIds /\ quests[n] = None
      /\ \A p \in Pairs : p[2] = n => submissions[p] = None /\ verified[p] = 0
      /\ quests'[n] = quest /\ quests'[n] # None
      /\ \A id \in QuestIds : id # n => quests'[id] = quests[id]
  BY <1>1, NewQuestEffect
<1>3. /\ questCounter' = n /\ quests' = [quests EXCEPT ![n] = quest]
      /\ UNCHANGED <<pool, vault, wiring, enginePaused, submissions, verified>>
      /\ questCounter \in Nat /\ n \in 0..MaxQuests
  BY <1>1, <1>2, QuestAssumption DEF NewQuest, EngineTypes, QuestIds
<1>4. quest \in Quest
  BY DEF Quest
<1>5. EngineTypes'
  <2>1. quests' \in [QuestIds -> Quest \cup {None}]
    BY <1>1, <1>3, <1>4 DEF EngineTypes
  <2> HIDE DEF n, quest
  <2>2. QED
    BY <1>1, <1>3, <2>1 DEF EngineTypes, wiring
<1>6. RP!TypeOK' /\ SV!TypeOK'
  BY <1>3, ServicesKept
<1>7. QuestFacts'
  <2>1. quest.reward_amount = reward /\ quest.quest_type = type /\ quest.active = TRUE
    OBVIOUS
  <2>2. engineAdmin' # None
    BY <1>3 DEF wiring
  <2>3. \A id \in QuestIds : id > n => quests'[id] = None
    BY <1>2, <1>3 DEF QuestFacts, QuestIds
  <2> HIDE DEF quest, n
  <2>4. \A id \in QuestIds :
          quests'[id] # None /\ (quests'[id].quest_type = "Build" \/ ~quests'[id].active)
            => quests'[id].reward_amount >= 0
    BY <1>2, <2>1 DEF QuestFacts
  <2>5. \A p \in Pairs : p[2] \in QuestIds
    BY DEF Pairs
  <2>6. \A p \in Pairs : submissions'[p] # None =>
          quests'[p[2]] # None /\ quests'[p[2]].quest_type = "Build"
    BY <1>2, <1>3, <2>5 DEF QuestFacts
  <2>7. \A p \in Pairs : verified'[p] > 0 =>
          quests'[p[2]] # None /\ quests'[p[2]].reward_amount > 0
    BY <1>2, <1>3, <2>5 DEF QuestFacts
  <2>8. QED
    BY <1>3, <2>2, <2>3, <2>4, <2>6, <2>7 DEF QuestFacts
<1>8. TypeOK'
  BY <1>5, <1>6 DEF TypeOK, EngineTypes
<1>9. QED
  BY <1>7, <1>8

(* Recording one decision for a set of learners leaves everyone else's     *)
(* submissions alone.                                                      *)
LEMMA DecideEffect ==
  ASSUME EngineTypes, NEW chosen \in SUBSET Learners, NEW id \in QuestIds,
         NEW status \in {"Approved", "Rejected"}, Decide(chosen, id, status)
  PROVE  /\ submissions' \in [Pairs -> {None, "Pending", "Approved", "Rejected"}]
         /\ \A p \in Pairs :
              submissions'[p] = IF p \in chosen \X {id} THEN status ELSE submissions[p]
         /\ chosen \X {id} \subseteq Pairs
         /\ UNCHANGED <<pool, vault, wiring, enginePaused, board, verified>>
<1>1. chosen \X {id} \subseteq Pairs
  BY DEF Pairs
<1>2. \A p \in Pairs : (p[1] \in chosen /\ p[2] = id) <=> p \in chosen \X {id}
  BY DEF Pairs
<1>3. QED
  BY <1>1, <1>2 DEF Decide, EngineTypes

(* Both reviews leave the pairs that are not pending alone.                *)
LEMMA DecisionKeeps ==
  ASSUME TypeOK, QuestFacts, NEW employer, NEW id \in QuestIds, NEW chosen \in SUBSET Learners,
         NEW status \in {"Approved", "Rejected"}, MayReview(employer, id, chosen),
         Decide(chosen, id, status), balance' \in [Address -> Nat]
  PROVE  TypeOK' /\ QuestFacts'
<1>1. EngineTypes
  BY TypesSplit
<1>2. /\ submissions' \in [Pairs -> {None, "Pending", "Approved", "Rejected"}]
      /\ \A p \in Pairs :
           submissions'[p] = IF p \in chosen \X {id} THEN status ELSE submissions[p]
      /\ UNCHANGED <<pool, vault, wiring, enginePaused, board, verified>>
  BY <1>1, DecideEffect
<1>3. EngineTypes'
  BY <1>1, <1>2 DEF EngineTypes, wiring, board
<1>4. RP!TypeOK' /\ SV!TypeOK'
  BY <1>2, ServicesKept
<1>5. ASSUME NEW p \in Pairs, submissions'[p] # None
      PROVE  quests'[p[2]] # None /\ quests'[p[2]].quest_type = "Build"
  <2>1. submissions[p] # None
    <3>1. CASE p \in chosen \X {id}
      <4>1. p = <<p[1], id>> /\ p[1] \in chosen
        BY <3>1
      <4>2. submissions[p] = "Pending"
        BY <4>1 DEF MayReview
      <4>3. QED
        BY <4>2, EngineNoneAssumption
    <3>2. CASE p \notin chosen \X {id}
      BY <1>2, <1>5, <3>2
    <3>3. QED
      BY <3>1, <3>2
  <2>2. QED
    BY <1>2, <2>1 DEF QuestFacts, board
<1>6. QuestFacts'
  BY <1>2, <1>5 DEF QuestFacts, wiring, board
<1>7. TypeOK'
  BY <1>3, <1>4 DEF TypeOK, EngineTypes
<1>8. QED
  BY <1>6, <1>7

(* A pending submission is for a build quest, whose reward is not negative. *)
LEMMA PendingReward ==
  ASSUME EngineTypes, QuestFacts, NEW employer, NEW id \in QuestIds,
         NEW chosen \in SUBSET Learners, chosen # {}, MayReview(employer, id, chosen)
  PROVE  /\ quests[id] # None /\ quests[id].quest_type = "Build"
         /\ quests[id].reward_amount \in Nat
<1>1. PICK l \in chosen : submissions[<<l, id>>] = "Pending"
  BY DEF MayReview
<1>2. <<l, id>> \in Pairs /\ <<l, id>>[2] = id
  BY DEF Pairs
<1>3. submissions[<<l, id>>] # None
  BY <1>1, EngineNoneAssumption
<1>4. quests[id] # None /\ quests[id].quest_type = "Build"
  BY <1>2, <1>3 DEF QuestFacts
<1>5. QED
  BY <1>4, QuestFields DEF QuestFacts

LEMMA RefundEffect ==
  ASSUME TypeOK, NEW employer \in Employers \cup Admins, NEW id \in QuestIds,
         RefundQuest(employer, id)
  PROVE  /\ quests[id] # None /\ quests[id].active /\ quests[id].reward_amount \in Nat
         /\ quests' = [quests EXCEPT ![id] = [quests[id] EXCEPT !.active = FALSE]]
         /\ quests'[id] \in Quest /\ quests'[id] # None /\ ~quests'[id].active
         /\ quests'[id].reward_amount = quests[id].reward_amount
         /\ quests'[id].quest_type = quests[id].quest_type
         /\ \A i \in QuestIds : i # id => quests'[i] = quests[i]
         /\ balance' \in [Address -> Nat]
         /\ quests[id].reward_amount <= balance[Engine]
         /\ balance'[Engine] = balance[Engine] - quests[id].reward_amount
         /\ \A l \in Learners \ (Admins \cup Employers) : balance'[l] = balance[l]
<1>1. EngineTypes /\ balance \in [Address -> Nat]
  BY DEF TypeOK, EngineTypes, RP!TypeOK
<1>2. /\ quests[id] # None /\ quests[id].active
      /\ CanTransfer(balance, Engine, quests[id].reward_amount)
      /\ balance' = Transfer(balance, Engine, employer, quests[id].reward_amount)
      /\ quests' = [quests EXCEPT ![id].active = FALSE]
  BY DEF RefundQuest
<1>3. quests[id] \in Quest /\ quests \in [QuestIds -> Quest \cup {None}]
  BY <1>1, <1>2, QuestFields DEF EngineTypes
<1>4. [quests[id] EXCEPT !.active = FALSE] \in Quest
  BY <1>3 DEF Quest
<1>5. Engine \in Address /\ employer \in Address /\ Learners \subseteq Address \ {Engine}
      /\ employer # Engine /\ None \notin Quest
  BY EngineAddressAssumption, EngineNoneAssumption
<1>6. /\ quests[id].reward_amount \in Nat /\ quests[id].reward_amount <= balance[Engine]
      /\ balance' \in [Address -> Nat]
      /\ balance'[Engine] = balance[Engine] - quests[id].reward_amount
      /\ \A l \in Learners \ (Admins \cup Employers) : balance'[l] = balance[l]
  BY <1>1, <1>2, <1>5, TransferEffect, TransferTypes
<1>7. quests' = [quests EXCEPT ![id] = [quests[id] EXCEPT !.active = FALSE]]
  BY <1>2
<1>8. /\ quests'[id] = [quests[id] EXCEPT !.active = FALSE]
      /\ \A i \in QuestIds : i # id => quests'[i] = quests[i]
  BY <1>3, <1>7
<1>9. /\ quests'[id] \in Quest /\ quests'[id] # None /\ ~quests'[id].active
      /\ quests'[id].reward_amount = quests[id].reward_amount
      /\ quests'[id].quest_type = quests[id].quest_type
  BY <1>3, <1>4, <1>5, <1>8 DEF Quest
<1>10. QED
  BY <1>2, <1>6, <1>7, <1>8, <1>9

LEMMA RefundKeeps ==
  ASSUME TypeOK, QuestFacts, NEW employer \in Employers \cup Admins, NEW id \in QuestIds,
         RefundQuest(employer, id)
  PROVE  TypeOK' /\ QuestFacts'
<1>1. EngineTypes
  BY TypesSplit
<1>2. /\ quests[id] # None /\ quests[id].reward_amount \in Nat
      /\ quests' = [quests EXCEPT ![id] = [quests[id] EXCEPT !.active = FALSE]]
      /\ quests'[id] \in Quest /\ quests'[id] # None /\ ~quests'[id].active
      /\ quests'[id].reward_amount = quests[id].reward_amount
      /\ quests'[id].quest_type = quests[id].quest_type
      /\ \A i \in QuestIds : i # id => quests'[i] = quests[i]
      /\ balance' \in [Address -> Nat]
  BY RefundEffect
<1>3. UNCHANGED <<pool, vault, wiring, enginePaused, questCounter, submissions, verified>>
  BY DEF RefundQuest
<1>4. EngineTypes'
  <2>1. quests' \in [QuestIds -> Quest \cup {None}]
    BY <1>1, <1>2 DEF EngineTypes
  <2>2. QED
    BY <1>1, <1>3, <2>1 DEF EngineTypes, wiring
<1>5. RP!TypeOK' /\ SV!TypeOK'
  BY <1>2, <1>3, ServicesKept
<1>6. QuestFacts'
  <2>1. \A i \in QuestIds :
          /\ quests'[i] = None <=> quests[i] = None
          /\ quests[i] # None =>
               /\ quests'[i].quest_type = quests[i].quest_type
               /\ quests'[i].reward_amount = quests[i].reward_amount
          /\ i # id => quests'[i] = quests[i]
    BY <1>2
  <2>2. quests'[id].reward_amount >= 0
    BY <1>2
  <2>3. \A p \in Pairs : p[2] \in QuestIds
    BY DEF Pairs
  <2>4. \A i \in QuestIds :
          quests'[i] # None /\ (quests'[i].quest_type = "Build" \/ ~quests'[i].active)
            => quests'[i].reward_amount >= 0
    BY <2>1, <2>2 DEF QuestFacts
  <2>5. \A p \in Pairs : submissions'[p] # None =>
          quests'[p[2]] # None /\ quests'[p[2]].quest_type = "Build"
    BY <1>3, <2>1, <2>3 DEF QuestFacts
  <2>6. \A p \in Pairs : verified'[p] > 0 =>
          quests'[p[2]] # None /\ quests'[p[2]].reward_amount > 0
    BY <1>3, <2>1, <2>3 DEF QuestFacts
  <2>7. QED
    BY <1>3, <2>1, <2>4, <2>5, <2>6 DEF QuestFacts, wiring
<1>7. TypeOK'
  BY <1>4, <1>5 DEF TypeOK, EngineTypes
<1>8. QED
  BY <1>6, <1>7

(* A verification is paid by the pool, in full, for a quest that pays.     *)
LEMMA VerifyEffect ==
  ASSUME TypeOK, NEW admin, NEW l \in Learners, NEW id \in QuestIds,
         VerifyExploreQuest(admin, l, id)
  PROVE  /\ quests[id] # None /\ quests[id].reward_amount \in Nat \ {0}
         /\ verified' = [verified EXCEPT ![<<l, id>>] = verified[<<l, id>>] + 1]
         /\ UNCHANGED <<pool, vault, wiring, enginePaused, board, submissions>>
         /\ balance' \in [Address -> Nat] /\ balance'[Engine] = balance[Engine]
         /\ \A a \in Learners :
              balance'[a] = balance[a] + IF a = l THEN quests[id].reward_amount ELSE 0
<1>1. /\ EngineTypes /\ balance \in [Address -> Nat] /\ Pool \in Address /\ Engine \in Address
      /\ Learners \subseteq Address \ {Engine, Pool} /\ Engine # Pool
  BY EngineAddressAssumption, EngineApart DEF TypeOK, EngineTypes, RP!TypeOK
<1>2. /\ quests[id] # None
      /\ quests[id].reward_amount > 0
      /\ CanTransfer(balance, Pool, quests[id].reward_amount)
      /\ balance' = Transfer(balance, Pool, l, quests[id].reward_amount)
      /\ UNCHANGED <<poolAdmin, spenders, spenderCount, isPaused>>
      /\ verified' = [verified EXCEPT ![<<l, id>>] = verified[<<l, id>>] + 1]
      /\ UNCHANGED <<vault, wiring, enginePaused, board, submissions>>
  BY SameToken DEF VerifyExploreQuest, RP!DistributeReward, RP!CanDistribute
<1>3. quests[id].reward_amount \in Int
  BY <1>1, <1>2, QuestFields
<1>4. balance' \in [Address -> Nat]
  BY <1>1, <1>2, TransferTypes
<1>5. balance'[Engine] = balance[Engine]
  BY <1>1, <1>2, TransferEffect
<1>6. ASSUME NEW a \in Learners
      PROVE  balance'[a] = balance[a] + IF a = l THEN quests[id].reward_amount ELSE 0
  <2>1. balance[a] \in Nat
    BY <1>1
  <2>2. CASE a = l
    BY <1>1, <1>2, <2>2, TransferEffect
  <2>3. CASE a # l
    <3>1. balance'[a] = balance[a]
      BY <1>1, <1>2, <2>3, TransferEffect
    <3>2. QED
      BY <2>1, <2>3, <3>1
  <2>4. QED
    BY <2>2, <2>3
<1>7. QED
  BY <1>2, <1>3, <1>4, <1>5, <1>6 DEF pool

LEMMA VerifyKeeps ==
  ASSUME TypeOK, QuestFacts, NEW admin, NEW l \in Learners, NEW id \in QuestIds,
         VerifyExploreQuest(admin, l, id)
  PROVE  TypeOK' /\ QuestFacts'
<1>1. EngineTypes /\ <<l, id>> \in Pairs
  BY DEF TypeOK, EngineTypes, Pairs
<1>2. /\ quests[id] # None /\ quests[id].reward_amount > 0
      /\ verified' = [verified EXCEPT ![<<l, id>>] = verified[<<l, id>>] + 1]
      /\ UNCHANGED <<pool, vault, wiring, enginePaused, board, submissions>>
      /\ balance' \in [Address -> Nat]
  BY VerifyEffect
<1>3. verified \in [Pairs -> Nat] /\ verified' \in [Pairs -> Nat]
  BY <1>1, <1>2 DEF EngineTypes
<1>4. EngineTypes'
  BY <1>1, <1>2, <1>3 DEF EngineTypes, wiring, board
<1>5. ASSUME NEW p \in Pairs, verified'[p] > 0
      PROVE  quests'[p[2]] # None /\ quests'[p[2]].reward_amount > 0
  <2>1. CASE p = <<l, id>>
    BY <1>2, <2>1 DEF board
  <2>2. CASE p # <<l, id>>
    BY <1>2, <1>3, <1>5, <2>2 DEF QuestFacts, board
  <2>3. QED
    BY <2>1, <2>2
<1>6. QuestFacts'
  BY <1>2, <1>5 DEF QuestFacts, wiring, board
<1>7. TypeOK'
  BY <1>2, <1>4, ServicesKept DEF TypeOK, EngineTypes
<1>8. QED
  BY <1>6, <1>7

LEMMA SubmitKeeps ==
  ASSUME TypeOK, QuestFacts, NEW l \in Learners, NEW id \in QuestIds, SubmitProof(l, id)
  PROVE  TypeOK' /\ QuestFacts'
<1>1. EngineTypes /\ <<l, id>> \in Pairs /\ balance \in [Address -> Nat]
  BY DEF TypeOK, EngineTypes, Pairs, RP!TypeOK
<1>2. /\ quests[id] # None /\ quests[id].quest_type = "Build"
      /\ submissions' = [submissions EXCEPT ![<<l, id>>] = "Pending"]
      /\ UNCHANGED <<balance, pool, vault, wiring, enginePaused, board, verified>>
  BY DEF SubmitProof
<1>3. EngineTypes'
  BY <1>1, <1>2 DEF EngineTypes, wiring, board
<1>4. ASSUME NEW p \in Pairs, submissions'[p] # None
      PROVE  quests'[p[2]] # None /\ quests'[p[2]].quest_type = "Build"
  <2>1. CASE p = <<l, id>>
    BY <1>2, <2>1 DEF board
  <2>2. CASE p # <<l, id>>
    BY <1>1, <1>2, <1>4, <2>2 DEF QuestFacts, board, EngineTypes
  <2>3. QED
    BY <2>1, <2>2
<1>5. QuestFacts'
  BY <1>2, <1>4 DEF QuestFacts, wiring, board
<1>6. RP!TypeOK' /\ SV!TypeOK'
  BY <1>1, <1>2, ServicesKept
<1>7. QED
  BY <1>3, <1>5, <1>6 DEF TypeOK, EngineTypes

(* The token takes no negative reward for a build quest.                   *)
LEMMA CreateBuildEffect ==
  ASSUME TypeOK, NEW employer \in Employers, NEW reward \in Rewards,
         CreateBuildQuest(employer, reward)
  PROVE  /\ reward \in Nat /\ engineAdmin # None /\ NewQuest(employer, reward, "Build")
         /\ balance' \in [Address -> Nat] /\ balance'[Engine] = balance[Engine] + reward
         /\ \A l \in Learners \ Employers : balance'[l] = balance[l]
<1>1. /\ balance \in [Address -> Nat] /\ Engine \in Address /\ employer \in Address
      /\ employer # Engine /\ Learners \subseteq Address \ {Engine}
  BY EngineAddressAssumption DEF TypeOK, RP!TypeOK
<1>2. QED
  BY <1>1, TransferTypes, TransferEffect DEF CreateBuildQuest

LEMMA CreateExploreEffect ==
  ASSUME TypeOK, NEW admin \in Admins, NEW reward \in Rewards, CreateExploreQuest(admin, reward)
  PROVE  /\ engineAdmin # None /\ NewQuest(admin, reward, "Explore")
         /\ balance' = balance
BY DEF CreateExploreQuest, IsAdmin

LEMMA FactsInit == Init => TypeOK /\ QuestFacts
<1> SUFFICES ASSUME Init PROVE TypeOK /\ QuestFacts
  OBVIOUS
<1>1. RP!TypeOK
  BY EngineAddressAssumption DEF Init, RP!Init, RP!TypeOK
<1>2. SV!TypeOK
  BY EngineAddressAssumption, StakingAssumption DEF Init, SV!Init, SV!TypeOK
<1>3. EngineTypes
  <2>1. questCounter \in 0..MaxQuests
    BY QuestAssumption DEF Init
  <2>2. quests \in [QuestIds -> Quest \cup {None}]
    BY DEF Init
  <2>3. submissions \in [Pairs -> {None, "Pending", "Approved", "Rejected"}]
    BY DEF Init
  <2>4. verified \in [Pairs -> Nat]
    BY DEF Init
  <2>5. QED
    BY <2>1, <2>2, <2>3, <2>4 DEF Init, EngineTypes
<1>4. QuestFacts
  <2>1. /\ \A id \in QuestIds : quests[id] = None
        /\ \A p \in Pairs : submissions[p] = None /\ verified[p] = 0
    BY DEF Init
  <2>2. QED
    BY <2>1 DEF Init, QuestFacts
<1>5. QED
  BY <1>1, <1>2, <1>3, <1>4, TypesSplit

LEMMA FactsStep == TypeOK /\ QuestFacts /\ [Next]_vars => TypeOK' /\ QuestFacts'
<1> SUFFICES ASSUME TypeOK, QuestFacts, [Next]_vars PROVE TypeOK' /\ QuestFacts'
  OBVIOUS
<1>1. EngineTypes /\ balance \in [Address -> Nat]
  BY DEF TypeOK, EngineTypes, RP!TypeOK
<1>2. CASE WiringCall
  <2>1. questCounter' = questCounter
    BY <1>2, QuestAssumption DEF WiringCall, QuestFacts
  <2>2. EngineTypes'
    BY <1>1, <1>2, <2>1 DEF WiringCall, EngineTypes
  <2>3. RP!TypeOK' /\ SV!TypeOK'
    BY <1>1, <1>2, ServicesKept DEF WiringCall
  <2>4. QuestFacts'
    BY <1>2, <2>1 DEF WiringCall, QuestFacts
  <2>5. QED
    BY <2>2, <2>3, <2>4 DEF TypeOK, EngineTypes
<1>3. ASSUME NEW employer \in Employers, NEW reward \in Rewards,
             CreateBuildQuest(employer, reward)
      PROVE  TypeOK' /\ QuestFacts'
  BY <1>3, CreateBuildEffect, NewQuestKeeps
<1>4. ASSUME NEW admin \in Admins, NEW reward \in Rewards, CreateExploreQuest(admin, reward)
      PROVE  TypeOK' /\ QuestFacts'
  BY <1>1, <1>4, CreateExploreEffect, NewQuestKeeps
<1>5. ASSUME NEW employer, NEW id \in QuestIds, NEW chosen \in SUBSET Learners,
             chosen # {}, BatchReviewSubmissions(employer, id, chosen)
      PROVE  TypeOK' /\ QuestFacts'
  <2>1. /\ MayReview(employer, id, chosen) /\ PayAll(chosen, id)
        /\ Decide(chosen, id, "Approved")
    BY <1>5 DEF BatchReviewSubmissions
  <2>2. balance' \in [Address -> Nat]
    BY <1>1, <1>5, <2>1, PendingReward, PaymentsEffect
  <2>3. QED
    BY <2>1, <2>2, DecisionKeeps
<1>6. ASSUME NEW employer, NEW l \in Learners, NEW id \in QuestIds, Rejection(employer, l, id)
      PROVE  TypeOK' /\ QuestFacts'
  <2>1. {l} \in SUBSET Learners
    OBVIOUS
  <2>2. QED
    BY <1>1, <1>6, <2>1, DecisionKeeps DEF Rejection
<1>7. CASE PoolStep
  <2>1. RP!TypeOK' /\ UNCHANGED <<vault, wiring, enginePaused, board, submissions, verified>>
    BY <1>7, PoolEffect DEF PoolStep
  <2>2. SV!TypeOK' /\ EngineTypes' /\ QuestFacts'
    BY <1>1, <2>1
    DEF RP!TypeOK, TypeOK, SV!TypeOK, EngineTypes, QuestFacts, vault, wiring, board
  <2>3. QED
    BY <2>1, <2>2 DEF TypeOK, EngineTypes
<1>8. CASE VaultStep
  <2>1. SV!TypeOK' /\ UNCHANGED <<pool, wiring, enginePaused, board, submissions, verified>>
    BY <1>8, VaultEffect DEF VaultStep
  <2>2. RP!TypeOK' /\ EngineTypes' /\ QuestFacts'
    BY <1>1, <2>1
    DEF RP!TypeOK, TypeOK, SV!TypeOK, EngineTypes, QuestFacts, pool, wiring, board
  <2>3. QED
    BY <2>1, <2>2 DEF TypeOK, EngineTypes
<1>9. QED
  BY <1>2, <1>3, <1>4, <1>5, <1>6, <1>7, <1>8, EngineCalls, SubmitKeeps, RefundKeeps, VerifyKeeps

(* Storage is well-typed in every reachable state, the ledger included: no *)
(* sequence of payments, refunds and batches overdraws an address.         *)
THEOREM QuestTypes == Spec => []TypeOK
<1>1. Spec => [](TypeOK /\ QuestFacts)
  BY FactsInit, FactsStep, PTL DEF Spec
<1>2. TypeOK /\ QuestFacts => TypeOK
  OBVIOUS
<1>3. QED
  BY <1>1, <1>2, PTL

-----------------------------------------------------------------------------
(* The escrow's books: what was locked, approved and refunded.             *)
LEMMA KeysFinite == IsFiniteSet(QuestIds) /\ IsFiniteSet(Pairs)
<1>1. IsFiniteSet(QuestIds)
  BY QuestAssumption, FS_Interval DEF QuestIds
<1>2. IsFiniteSet(Learners)
  BY EngineAddressAssumption, FS_Subset
<1>3. QED
  BY <1>1, <1>2, FS_Product DEF Pairs

LEMMA BookTypes ==
  ASSUME EngineTypes, QuestFacts
  PROVE  /\ Locked \in [QuestIds -> Nat] /\ Refunded \in [QuestIds -> Nat]
         /\ Approved \in [Pairs -> Nat]
         /\ Total(Locked) \in Nat /\ Total(Refunded) \in Nat /\ Total(Approved) \in Nat
<1>1. ASSUME NEW id \in QuestIds, quests[id] # None,
             quests[id].quest_type = "Build" \/ ~quests[id].active
      PROVE  RewardOf(id) \in Nat
  BY <1>1, QuestFields DEF QuestFacts, RewardOf
<1>2. Locked \in [QuestIds -> Nat] /\ Refunded \in [QuestIds -> Nat]
  BY <1>1 DEF Locked, Refunded
<1>3. Approved \in [Pairs -> Nat]
  <2> SUFFICES ASSUME NEW p \in Pairs, submissions[p] = "Approved" PROVE RewardOf(p[2]) \in Nat
    BY DEF Approved
  <2>1. p[2] \in QuestIds /\ submissions[p] # None
    BY EngineNoneAssumption DEF Pairs
  <2>2. QED
    BY <1>1, <2>1 DEF QuestFacts
<1>4. QED
  BY <1>2, <1>3, KeysFinite, UnitsFinite

(* Calls that leave quests and submissions alone leave the books alone.    *)
LEMMA BooksKept ==
  ASSUME UNCHANGED <<quests, submissions>>
  PROVE  UNCHANGED <<Locked, Refunded, Approved>>
<1>1. \A id : RewardOf(id)' = RewardOf(id)
  BY DEF RewardOf
<1>2. QED
  BY <1>1 DEF Locked, Refunded, Approved

LEMMA NewQuestBooks ==
  ASSUME EngineTypes, QuestFacts, NEW employer \in Employers \cup Admins,
         NEW reward \in Rewards, NEW type \in {"Build", "Explore"},
         NewQuest(employer, reward, type), type = "Build" => reward \in Nat
  PROVE  /\ UNCHANGED <<Refunded, Approved>>
         /\ Total(Locked') = Total(Locked) + IF type = "Build" THEN reward ELSE 0
<1> DEFINE v == IF type = "Build" THEN reward ELSE 0
<1>1. PICK n \in QuestIds :
      /\ quests[n] = None
      /\ \A p \in Pairs : p[2] = n => submissions[p] = None /\ verified[p] = 0
      /\ quests'[n] = [employer |-> employer, reward_amount |-> reward,
                       quest_type |-> type, active |-> TRUE]
      /\ quests'[n] # None
      /\ \A id \in QuestIds : id # n => quests'[id] = quests[id]
      /\ UNCHANGED submissions
  BY NewQuestEffect DEF NewQuest
<1> HIDE DEF v
<1>2. /\ \A id \in QuestIds : id # n => RewardOf(id)' = RewardOf(id)
      /\ RewardOf(n)' = reward
      /\ quests'[n].quest_type = type /\ quests'[n].active = TRUE
  <2>1. /\ quests'[n].reward_amount = reward
        /\ quests'[n].quest_type = type /\ quests'[n].active = TRUE
    BY <1>1
  <2>2. \A id \in QuestIds : id # n => RewardOf(id)' = RewardOf(id)
    BY <1>1 DEF RewardOf
  <2>3. RewardOf(n)' = reward
    BY <1>1, <2>1 DEF RewardOf
  <2>4. QED
    BY <2>1, <2>2, <2>3
<1>3. Refunded' = Refunded
  BY <1>1, <1>2 DEF Refunded
<1>4. Approved' = Approved
  <2> SUFFICES ASSUME NEW p \in Pairs, submissions[p] = "Approved"
               PROVE  RewardOf(p[2])' = RewardOf(p[2])
    BY <1>1 DEF Approved
  <2>1. p[2] \in QuestIds /\ p[2] # n
    BY <1>1, EngineNoneAssumption DEF Pairs
  <2>2. QED
    BY <1>2, <2>1
<1>5. Locked \in [QuestIds -> Nat] /\ Total(Locked) \in Nat /\ v \in Nat
  BY BookTypes DEF v
<1>6. Locked' = [Locked EXCEPT ![n] = v] /\ Locked[n] = 0
  <2>1. Locked[n] = 0
    BY <1>1 DEF Locked
  <2>2. ASSUME NEW id \in QuestIds PROVE Locked'[id] = IF id = n THEN v ELSE Locked[id]
    <3>1. CASE id = n
      BY <1>1, <1>2, <3>1 DEF Locked, v
    <3>2. CASE id # n
      BY <1>1, <1>2, <3>2 DEF Locked
    <3>3. QED
      BY <3>1, <3>2
  <2>3. Locked' = [id \in QuestIds |-> Locked'[id]]
    BY DEF Locked
  <2>4. QED
    BY <1>5, <2>1, <2>2, <2>3
<1>7. Total([Locked EXCEPT ![n] = v]) = Total(Locked) - Locked[n] + v
  BY <1>1, <1>5, KeysFinite, TotalUpdate
<1>8. Total(Locked') = Total(Locked) + v
  BY <1>5, <1>6, <1>7
<1>9. QED
  BY <1>3, <1>4, <1>8 DEF v

(* Approvals add one whole reward each to the books, rejections nothing.   *)
LEMMA DecisionBooks ==
  ASSUME EngineTypes, QuestFacts, NEW employer, NEW id \in QuestIds,
         NEW chosen \in SUBSET Learners, chosen # {}, NEW status \in {"Approved", "Rejected"},
         MayReview(employer, id, chosen), Decide(chosen, id, status)
  PROVE  /\ UNCHANGED <<Locked, Refunded>>
         /\ status = "Approved" =>
              Total(Approved') = Total(Approved) + Cardinality(chosen) * RewardOf(id)
         /\ status = "Rejected" => Approved' = Approved
<1> DEFINE T == chosen \X {id}
           r == RewardOf(id)
<1>1. /\ submissions' \in [Pairs -> {None, "Pending", "Approved", "Rejected"}]
      /\ \A p \in Pairs : submissions'[p] = IF p \in T THEN status ELSE submissions[p]
      /\ T \subseteq Pairs /\ UNCHANGED quests
  <2>1. /\ submissions' \in [Pairs -> {None, "Pending", "Approved", "Rejected"}]
        /\ \A p \in Pairs :
             submissions'[p] = IF p \in chosen \X {id} THEN status ELSE submissions[p]
        /\ chosen \X {id} \subseteq Pairs
        /\ UNCHANGED <<pool, vault, wiring, enginePaused, board, verified>>
    BY DecideEffect
  <2>2. UNCHANGED quests
    BY <2>1 DEF board
  <2>3. QED
    BY <2>1, <2>2
<1>2. \A i : RewardOf(i)' = RewardOf(i)
  BY <1>1 DEF RewardOf
<1>3. UNCHANGED <<Locked, Refunded>>
  BY <1>1, <1>2 DEF Locked, Refunded
<1>4. \A p \in T : p[2] = id /\ submissions[p] = "Pending" /\ Approved[p] = 0
  <2> SUFFICES ASSUME NEW p \in T
               PROVE  p[2] = id /\ submissions[p] = "Pending" /\ Approved[p] = 0
    OBVIOUS
  <2>1. p = <<p[1], id>> /\ p[1] \in chosen /\ p[2] = id
    OBVIOUS
  <2>2. submissions[p] = "Pending"
    BY <2>1 DEF MayReview
  <2>3. QED
    BY <1>1, <2>1, <2>2 DEF Approved
<1>5. r \in Nat
  BY PendingReward DEF RewardOf
<1>6. Approved \in [Pairs -> Nat]
  BY BookTypes
<1> HIDE DEF T, r
<1>7. CASE status = "Approved"
  <2>1. Approved' = [p \in Pairs |-> IF p \in T THEN r ELSE Approved[p]]
    BY <1>1, <1>2, <1>4, <1>7 DEF Approved, r
  <2>2. Total([p \in Pairs |-> IF p \in T THEN r ELSE Approved[p]])
          = Total(Approved) + Cardinality(T) * r
    BY <1>1, <1>4, <1>5, <1>6, KeysFinite, TotalRaised
  <2>3. Cardinality(T) = Cardinality(chosen)
    <3>1. IsFiniteSet(chosen)
      BY EngineAddressAssumption, FS_Subset
    <3>2. IsFiniteSet({id}) /\ Cardinality({id}) = 1
      BY FS_Singleton
    <3>3. Cardinality(T) = Cardinality(chosen) * Cardinality({id})
      BY <3>1, <3>2, FS_Product DEF T
    <3>4. QED
      BY <3>1, <3>2, <3>3, FS_CardinalityType
  <2>4. QED
    BY <1>3, <1>7, <2>1, <2>2, <2>3 DEF r
<1>8. CASE status = "Rejected"
  <2>1. \A p \in Pairs : submissions'[p] = "Approved" <=> submissions[p] = "Approved"
    BY <1>1, <1>4, <1>8
  <2>2. QED
    BY <1>2, <1>3, <1>8, <2>1 DEF Approved
<1>9. QED
  BY <1>7, <1>8

(* A refund closes its quest and is booked once.                           *)
LEMMA RefundBooks ==
  ASSUME TypeOK, QuestFacts, NEW employer \in Employers \cup Admins, NEW id \in QuestIds,
         RefundQuest(employer, id)
  PROVE  /\ UNCHANGED <<Locked, Approved>>
         /\ Total(Refunded') = Total(Refunded) + quests[id].reward_amount
         /\ \A i \in QuestIds : RewardOf(i)' = RewardOf(i)
<1> DEFINE r == quests[id].reward_amount
<1>1. /\ quests[id] # None /\ quests[id].active /\ r \in Nat
      /\ quests'[id] # None /\ ~quests'[id].active
      /\ quests'[id].reward_amount = r
      /\ quests'[id].quest_type = quests[id].quest_type
      /\ \A i \in QuestIds : i # id => quests'[i] = quests[i]
  BY RefundEffect
<1>2. UNCHANGED submissions
  BY DEF RefundQuest
<1>3. \A i \in QuestIds : RewardOf(i)' = RewardOf(i)
  BY <1>1 DEF RewardOf
<1>4. Locked' = Locked
  BY <1>1, <1>3 DEF Locked
<1>5. Approved' = Approved
  <2>1. \A p \in Pairs : p[2] \in QuestIds
    BY DEF Pairs
  <2>2. QED
    BY <1>2, <1>3, <2>1 DEF Approved
<1>6. Refunded \in [QuestIds -> Nat] /\ Total(Refunded) \in Nat
  BY BookTypes DEF TypeOK, EngineTypes
<1> HIDE DEF r
<1>7. Refunded' = [Refunded EXCEPT ![id] = r] /\ Refunded[id] = 0
  <2>1. Refunded[id] = 0
    BY <1>1 DEF Refunded
  <2>2. ASSUME NEW i \in QuestIds PROVE Refunded'[i] = IF i = id THEN r ELSE Refunded[i]
    <3>1. CASE i = id
      BY <1>1, <3>1 DEF Refunded, RewardOf
    <3>2. CASE i # id
      BY <1>1, <1>3, <3>2 DEF Refunded
    <3>3. QED
      BY <3>1, <3>2
  <2>3. Refunded' = [i \in QuestIds |-> Refunded'[i]]
    BY DEF Refunded
  <2>4. QED
    BY <1>6, <2>1, <2>2, <2>3
<1>8. Total([Refunded EXCEPT ![id] = r]) = Total(Refunded) - Refunded[id] + r
  BY <1>1, <1>6, KeysFinite, TotalUpdate
<1>9. Total(Refunded') = Total(Refunded) + r
  BY <1>1, <1>6, <1>7, <1>8
<1>10. QED
  BY <1>3, <1>4, <1>5, <1>9 DEF r

(* The ledger of the escrow, one transaction further.                      *)
LEMMA EscrowStep ==
  ASSUME TypeOK, QuestFacts, EscrowLedger, [Next]_vars
  PROVE  EscrowLedger'
<1>1. /\ EngineTypes /\ balance \in [Address -> Nat] /\ Engine \in Address
      /\ balance[Engine] \in Nat /\ Endowment[Engine] \in Nat
      /\ Engine \notin ServiceAdmins /\ Engine # Pool
  BY EngineAddressAssumption, EngineApart DEF TypeOK, EngineTypes, RP!TypeOK
<1>2. Total(Locked) \in Nat /\ Total(Refunded) \in Nat /\ Total(Approved) \in Nat
  BY <1>1, BookTypes
<1>3. balance[Engine] + Total(Approved) + Total(Refunded) = Endowment[Engine] + Total(Locked)
  BY DEF EscrowLedger
<1>4. ASSUME UNCHANGED <<quests, submissions>>, balance'[Engine] = balance[Engine]
      PROVE  EscrowLedger'
  BY <1>3, <1>4, BooksKept DEF EscrowLedger
<1>5. ASSUME NEW employer \in Employers, NEW reward \in Rewards,
             CreateBuildQuest(employer, reward)
      PROVE  EscrowLedger'
  <2>1. /\ reward \in Nat /\ NewQuest(employer, reward, "Build")
        /\ balance'[Engine] = balance[Engine] + reward
    BY <1>5, CreateBuildEffect
  <2>2. Approved' = Approved /\ Refunded' = Refunded /\ Total(Locked') = Total(Locked) + reward
    BY <1>1, <2>1, NewQuestBooks
  <2>3. QED
    BY <1>1, <1>2, <1>3, <2>1, <2>2 DEF EscrowLedger
<1>6. ASSUME NEW admin \in Admins, NEW reward \in Rewards, CreateExploreQuest(admin, reward)
      PROVE  EscrowLedger'
  <2>1. NewQuest(admin, reward, "Explore") /\ balance' = balance
    BY <1>6, CreateExploreEffect
  <2>2. Approved' = Approved /\ Refunded' = Refunded /\ Total(Locked') = Total(Locked) + 0
    BY <1>1, <2>1, NewQuestBooks
  <2>3. QED
    BY <1>2, <1>3, <2>1, <2>2 DEF EscrowLedger
<1>7. ASSUME NEW l \in Learners, NEW id \in QuestIds, SubmitProof(l, id)
      PROVE  EscrowLedger'
  <2>1. /\ submissions[<<l, id>>] = None
        /\ submissions' = [submissions EXCEPT ![<<l, id>>] = "Pending"]
        /\ UNCHANGED <<balance, quests>>
    BY <1>7 DEF SubmitProof, board
  <2>2. \A p \in Pairs : submissions'[p] = "Approved" <=> submissions[p] = "Approved"
    BY <1>1, <2>1, EngineNoneAssumption DEF EngineTypes
  <2>3. \A i : RewardOf(i)' = RewardOf(i)
    BY <2>1 DEF RewardOf
  <2>4. Approved' = Approved /\ Refunded' = Refunded /\ Locked' = Locked
    BY <2>1, <2>2, <2>3 DEF Approved, Refunded, Locked
  <2>5. QED
    BY <1>3, <2>1, <2>4 DEF EscrowLedger
<1>8. ASSUME NEW employer, NEW id \in QuestIds, NEW chosen \in SUBSET Learners,
             chosen # {}, BatchReviewSubmissions(employer, id, chosen)
      PROVE  EscrowLedger'
  <2> DEFINE sum == Cardinality(chosen) * RewardOf(id)
  <2>1. /\ MayReview(employer, id, chosen) /\ PayAll(chosen, id)
        /\ Decide(chosen, id, "Approved")
    BY <1>8 DEF BatchReviewSubmissions
  <2>2. quests[id] # None /\ quests[id].reward_amount \in Nat
    BY <1>1, <1>8, <2>1, PendingReward
  <2>3. balance'[Engine] = balance[Engine] - sum
    BY <2>1, <2>2, PaymentsEffect
  <2>4. /\ Locked' = Locked /\ Refunded' = Refunded
        /\ Total(Approved') = Total(Approved) + sum
    BY <1>1, <1>8, <2>1, DecisionBooks
  <2>5. sum \in Nat
    <3>1. Cardinality(chosen) \in Nat
      BY EngineAddressAssumption, FS_Subset, FS_CardinalityType
    <3>2. RewardOf(id) \in Nat
      BY <2>2 DEF RewardOf
    <3>3. QED
      BY <3>1, <3>2
  <2> HIDE DEF sum
  <2>6. QED
    BY <1>1, <1>2, <1>3, <2>3, <2>4, <2>5 DEF EscrowLedger
<1>9. ASSUME NEW employer, NEW l \in Learners, NEW id \in QuestIds, Rejection(employer, l, id)
      PROVE  EscrowLedger'
  <2>1. {l} \in SUBSET Learners /\ {l} # {}
    OBVIOUS
  <2>2. Locked' = Locked /\ Refunded' = Refunded /\ Approved' = Approved
    BY <1>1, <1>9, <2>1, DecisionBooks DEF Rejection
  <2>3. QED
    BY <1>3, <1>9, <2>2 DEF EscrowLedger, Rejection
<1>10. ASSUME NEW employer \in Employers \cup Admins, NEW id \in QuestIds,
              RefundQuest(employer, id)
       PROVE  EscrowLedger'
  <2> DEFINE r == quests[id].reward_amount
  <2>1. r \in Nat /\ balance'[Engine] = balance[Engine] - r
    BY <1>10, RefundEffect
  <2>2. /\ Locked' = Locked /\ Approved' = Approved
        /\ Total(Refunded') = Total(Refunded) + r
    BY <1>10, RefundBooks
  <2> HIDE DEF r
  <2>3. QED
    BY <1>1, <1>2, <1>3, <2>1, <2>2 DEF EscrowLedger
<1>11. ASSUME NEW admin, NEW l \in Learners, NEW id \in QuestIds,
              VerifyExploreQuest(admin, l, id)
       PROVE  EscrowLedger'
  BY <1>4, <1>11, VerifyEffect DEF board
<1>12. CASE WiringCall
  BY <1>4, <1>12 DEF WiringCall
<1>13. CASE PoolStep
  BY <1>1, <1>4, <1>13, PoolEffect DEF PoolStep, board
<1>14. CASE VaultStep
  BY <1>4, <1>14, VaultEffect DEF VaultStep, board
<1>15. QED
  BY <1>5, <1>6, <1>7, <1>8, <1>9, <1>10, <1>11, <1>12, <1>13, <1>14, EngineCalls

LEMMA EmptyTotal ==
  ASSUME NEW f, \A x \in DOMAIN f : f[x] = 0
  PROVE  Total(f) = 0
<1>1. Units(f) = {}
  BY DEF Units, UnitsAt
<1>2. QED
  BY <1>1, FS_EmptySet DEF Total

(* The engine holds what employers locked, less one whole reward for every *)
(* approval and every refund.                                              *)
THEOREM EscrowBalances == Spec => []EscrowLedger
<1>1. Init => EscrowLedger
  <2> SUFFICES ASSUME Init PROVE EscrowLedger
    OBVIOUS
  <2>1. /\ \A id \in QuestIds : quests[id] = None
        /\ \A p \in Pairs : submissions[p] # "Approved"
        /\ balance = Endowment
    BY EngineNoneAssumption DEF Init, RP!Init
  <2>2. Total(Locked) = 0 /\ Total(Refunded) = 0
    BY <2>1, EmptyTotal DEF Locked, Refunded
  <2>3. Total(Approved) = 0
    BY <2>1, EmptyTotal DEF Approved
  <2>4. Endowment[Engine] \in Nat
    BY EngineAddressAssumption
  <2>5. QED
    BY <2>1, <2>2, <2>3, <2>4 DEF EscrowLedger
<1>2. TypeOK /\ QuestFacts /\ EscrowLedger /\ [Next]_vars => EscrowLedger'
  BY EscrowStep
<1>3. QED
  BY <1>1, <1>2, FactsInit, FactsStep, PTL DEF Spec

-----------------------------------------------------------------------------
(* What learners earn.                                                     *)
EarnedAt(l, id) ==
  (IF submissions[<<l, id>>] = "Approved" THEN LearnerShare(id) ELSE 0)
    + verified[<<l, id>>] * RewardOf(id)

LEMMA EarnedEntries == \A l : Earned(l) = [id \in QuestIds |-> EarnedAt(l, id)]
BY DEF Earned, EarnedAt, LearnerShare, FeeOn

LEMMA ProductOfNaturals == \A m, n \in Nat : m * n \in Nat
OBVIOUS

LEMMA EarnedType ==
  ASSUME EngineTypes, QuestFacts, NEW l \in Learners, NEW id \in QuestIds
  PROVE  /\ EarnedAt(l, id) \in Nat
         /\ verified[<<l, id>>] * RewardOf(id) \in Nat /\ verified[<<l, id>>] \in Nat
         /\ submissions[<<l, id>>] = "Approved" => LearnerShare(id) \in Nat
<1> DEFINE p == <<l, id>>
           times == verified[p]
           r == RewardOf(id)
<1>1. p \in Pairs /\ p[2] = id /\ times \in Nat /\ r \in Int
  BY QuestFields DEF Pairs, EngineTypes, RewardOf
<1>2. times > 0 => r \in Nat
  BY <1>1, QuestFields DEF QuestFacts, RewardOf
<1> HIDE DEF times, r
<1>3. times * r \in Nat
  <2>1. CASE times = 0
    BY <1>1, <2>1
  <2>2. CASE times > 0
    BY <1>1, <1>2, <2>2, ProductOfNaturals
  <2>3. QED
    BY <1>1, <2>1, <2>2
<1>4. submissions[p] = "Approved" => LearnerShare(id) \in Nat
  <2> SUFFICES ASSUME submissions[p] = "Approved" PROVE LearnerShare(id) \in Nat
    OBVIOUS
  <2>1. quests[id] # None /\ quests[id].quest_type = "Build"
    BY <1>1, EngineNoneAssumption DEF QuestFacts
  <2>2. r \in Nat
    BY <2>1, QuestFields DEF QuestFacts, RewardOf, r
  <2>3. FeeOn(r) \in Nat /\ FeeOn(r) <= r
    BY <2>2, PayoutExact
  <2>4. LearnerShare(id) = r - FeeOn(r)
    BY DEF LearnerShare, r
  <2>5. QED
    BY <2>2, <2>3, <2>4
<1>5. EarnedAt(l, id) = (IF submissions[p] = "Approved" THEN LearnerShare(id) ELSE 0) + times * r
  BY DEF EarnedAt, p, times, r
<1>6. EarnedAt(l, id) \in Nat
  <2>1. CASE submissions[p] = "Approved"
    BY <1>3, <1>4, <1>5, <2>1
  <2>2. CASE submissions[p] # "Approved"
    BY <1>3, <1>5, <2>2
  <2>3. QED
    BY <2>1, <2>2
<1>7. QED
  BY <1>1, <1>3, <1>4, <1>6 DEF times, r

(* Earning on one quest adds to the sum, earning nothing leaves it.        *)
LEMMA EarnedOnce ==
  ASSUME EngineTypes, QuestFacts, NEW l \in Learners, NEW id \in QuestIds, NEW v \in Nat,
         EarnedAt(l, id)' = EarnedAt(l, id) + v,
         \A i \in QuestIds : i # id => EarnedAt(l, i)' = EarnedAt(l, i)
  PROVE  Total(Earned(l)') = Total(Earned(l)) + v
<1> DEFINE w == EarnedAt(l, id) + v
<1>1. Earned(l) = [i \in QuestIds |-> EarnedAt(l, i)]
  BY EarnedEntries
<1>2. Earned(l) \in [QuestIds -> Nat] /\ Total(Earned(l)) \in Nat
  BY <1>1, EarnedType, KeysFinite, UnitsFinite
<1>3. Earned(l)[id] = EarnedAt(l, id) /\ EarnedAt(l, id) \in Nat /\ w \in Nat
  <2>1. EarnedAt(l, id) \in Nat
    BY EarnedType
  <2>2. Earned(l)[id] = EarnedAt(l, id)
    BY <1>1
  <2>3. QED
    BY <2>1, <2>2
<1>4. Earned(l)' = [i \in QuestIds |-> EarnedAt(l, i)']
  BY EarnedEntries DEF Earned, EarnedAt, LearnerShare, FeeOn
<1>5. Earned(l)' = [Earned(l) EXCEPT ![id] = w]
  BY <1>1, <1>4
<1> HIDE DEF w
<1>6. Total([Earned(l) EXCEPT ![id] = w]) = Total(Earned(l)) - Earned(l)[id] + w
  BY <1>2, <1>3, KeysFinite, TotalUpdate
<1>7. Total(Earned(l)') = Total(Earned(l)) - EarnedAt(l, id) + w
  BY <1>3, <1>5, <1>6
<1>8. QED
  BY <1>2, <1>3, <1>7 DEF w

LEMMA EarnedNothing ==
  ASSUME NEW l, \A i \in QuestIds : EarnedAt(l, i)' = EarnedAt(l, i)
  PROVE  Earned(l)' = Earned(l)
<1>1. Earned(l)' = [i \in QuestIds |-> EarnedAt(l, i)']
  BY DEF Earned, EarnedAt, LearnerShare, FeeOn
<1>2. Earned(l) = [i \in QuestIds |-> EarnedAt(l, i)]
  BY EarnedEntries
<1>3. QED
  BY <1>1, <1>2

Outsiders == Learners \ (Admins \cup Employers \cup ServiceAdmins)
Purse(l) == balance[l] + SV!StakeOf(l)

LEMMA PurseType ==
  ASSUME TypeOK, NEW l \in Learners
  PROVE  balance[l] \in Nat /\ SV!StakeOf(l) \in Nat /\ Endowment[l] \in Nat
<1>1. balance[l] \in Nat /\ Endowment[l] \in Nat
  BY EngineAddressAssumption DEF TypeOK, RP!TypeOK
<1>2. SV!StakeOf(l) \in Nat
  BY EngineNoneAssumption DEF TypeOK, SV!TypeOK, SV!StakeOf, SV!StakeInfo
<1>3. QED
  BY <1>1, <1>2

LEMMA EarnedSum ==
  ASSUME EngineTypes, QuestFacts, NEW l \in Learners
  PROVE  Total(Earned(l)) \in Nat
<1>1. Earned(l) \in [QuestIds -> Nat]
  BY EarnedEntries, EarnedType
<1>2. QED
  BY <1>1, KeysFinite, UnitsFinite

(* What any step adds to a learner's purse and stake, it adds to what the  *)
(* learner has earned; no step takes anything from them.                   *)
Gains(l, v) == Purse(l)' = Purse(l) + v /\ Total(Earned(l)') = Total(Earned(l)) + v

LEMMA IncomeStep ==
  ASSUME TypeOK, QuestFacts, [Next]_vars, NEW l \in Outsiders
  PROVE  \E v \in Nat : Gains(l, v)
<1>1. /\ EngineTypes /\ l \in Learners /\ l \notin Admins \cup Employers \cup ServiceAdmins
      /\ l \in Address \ ({Pool} \cup ServiceAdmins)
  BY EngineAddressAssumption DEF TypeOK, EngineTypes, Outsiders
<1>2. balance[l] \in Nat /\ SV!StakeOf(l) \in Nat
  BY <1>1, PurseType
<1>3. Purse(l) \in Nat
  BY <1>2 DEF Purse
<1>4. Total(Earned(l)) \in Nat
  BY <1>1, EarnedSum
<1>5. ASSUME Purse(l)' = Purse(l), \A i \in QuestIds : EarnedAt(l, i)' = EarnedAt(l, i)
      PROVE  \E v \in Nat : Gains(l, v)
  <2>1. Gains(l, 0)
    BY <1>3, <1>4, <1>5, EarnedNothing DEF Gains
  <2>2. QED
    BY <2>1
<1>6. ASSUME UNCHANGED <<quests, submissions, verified>>, NEW i
      PROVE  EarnedAt(l, i)' = EarnedAt(l, i)
  BY <1>6 DEF EarnedAt, LearnerShare, RewardOf, FeeOn
<1>7. ASSUME balance'[l] = balance[l], UNCHANGED vault PROVE Purse(l)' = Purse(l)
  BY <1>7 DEF Purse, vault, SV!StakeOf
<1>8. ASSUME NEW i \in QuestIds
      PROVE  <<l, i>> \in Pairs /\ <<l, i>>[1] = l /\ <<l, i>>[2] = i
  BY <1>1 DEF Pairs
<1>9. ASSUME NEW employer \in Employers \cup Admins, NEW reward \in Rewards,
             NEW type \in {"Build", "Explore"}, NewQuest(employer, reward, type),
             balance'[l] = balance[l]
      PROVE  \E v \in Nat : Gains(l, v)
  <2>1. PICK n \in QuestIds :
          /\ quests[n] = None /\ quests'[n] # None /\ quests'[n].reward_amount = reward
          /\ submissions[<<l, n>>] = None /\ verified[<<l, n>>] = 0
          /\ \A i \in QuestIds : i # n => quests'[i] = quests[i]
    <3>1. PICK n \in QuestIds :
            /\ quests[n] = None /\ quests'[n] # None
            /\ quests'[n] = [employer |-> employer, reward_amount |-> reward,
                             quest_type |-> type, active |-> TRUE]
            /\ \A p \in Pairs : p[2] = n => submissions[p] = None /\ verified[p] = 0
            /\ \A i \in QuestIds : i # n => quests'[i] = quests[i]
      BY <1>1, <1>9, NewQuestEffect
    <3>2. quests'[n].reward_amount = reward
      BY <3>1
    <3>3. QED
      BY <1>8, <3>1, <3>2
  <2>2. UNCHANGED <<vault, submissions, verified>>
    BY <1>9 DEF NewQuest
  <2>3. EarnedAt(l, n) = 0 /\ EarnedAt(l, n)' = 0
    <3>1. RewardOf(n) = 0 /\ RewardOf(n)' \in Int
      BY <2>1, QuestAssumption DEF RewardOf
    <3>2. submissions[<<l, n>>] # "Approved" /\ 0 * RewardOf(n) = 0 /\ 0 * RewardOf(n)' = 0
      BY <2>1, <3>1, EngineNoneAssumption
    <3>3. QED
      BY <2>1, <2>2, <3>2 DEF EarnedAt
  <2>4. ASSUME NEW i \in QuestIds, i # n PROVE EarnedAt(l, i)' = EarnedAt(l, i)
    BY <2>1, <2>2, <2>4 DEF EarnedAt, LearnerShare, RewardOf, FeeOn
  <2>5. QED
    BY <1>5, <1>7, <1>9, <2>2, <2>3, <2>4
<1>10. ASSUME NEW employer \in Employers, NEW reward \in Rewards,
              CreateBuildQuest(employer, reward)
       PROVE  \E v \in Nat : Gains(l, v)
  BY <1>1, <1>9, <1>10, CreateBuildEffect
<1>11. ASSUME NEW admin \in Admins, NEW reward \in Rewards, CreateExploreQuest(admin, reward)
       PROVE  \E v \in Nat : Gains(l, v)
  BY <1>1, <1>9, <1>11, CreateExploreEffect
<1>12. ASSUME UNCHANGED <<quests, verified>>, NEW i \in QuestIds,
              submissions'[<<l, i>>] = "Approved" <=> submissions[<<l, i>>] = "Approved"
       PROVE  EarnedAt(l, i)' = EarnedAt(l, i)
  BY <1>12 DEF EarnedAt, LearnerShare, RewardOf, FeeOn
<1>13. ASSUME NEW k \in Learners, NEW id \in QuestIds, SubmitProof(k, id)
       PROVE  \E v \in Nat : Gains(l, v)
  <2>1. /\ submissions[<<k, id>>] = None
        /\ submissions' = [submissions EXCEPT ![<<k, id>>] = "Pending"]
        /\ UNCHANGED <<balance, vault, quests, verified>>
    BY <1>13 DEF SubmitProof, board
  <2>2. \A p \in Pairs : submissions'[p] = "Approved" <=> submissions[p] = "Approved"
    BY <1>1, <2>1, EngineNoneAssumption DEF EngineTypes
  <2>3. QED
    BY <1>5, <1>7, <1>8, <1>12, <2>1, <2>2
<1>14. ASSUME NEW employer, NEW id \in QuestIds, NEW chosen \in SUBSET Learners,
              chosen # {}, BatchReviewSubmissions(employer, id, chosen)
       PROVE  \E v \in Nat : Gains(l, v)
  <2>1. /\ MayReview(employer, id, chosen) /\ PayAll(chosen, id)
        /\ Decide(chosen, id, "Approved")
    BY <1>14 DEF BatchReviewSubmissions
  <2>2. quests[id] # None /\ quests[id].reward_amount \in Nat
    BY <1>1, <1>14, <2>1, PendingReward
  <2>3. balance'[l] = balance[l] + IF l \in chosen THEN LearnerShare(id) ELSE 0
    BY <1>1, <2>1, <2>2, PaymentsEffect
  <2>4. /\ \A p \in Pairs :
             submissions'[p] = IF p \in chosen \X {id} THEN "Approved" ELSE submissions[p]
        /\ UNCHANGED <<pool, vault, wiring, enginePaused, board, verified>>
    BY <1>1, <2>1, DecideEffect
  <2>5. UNCHANGED <<quests, verified>>
    BY <2>4 DEF board
  <2>6. ASSUME NEW i \in QuestIds, l \notin chosen \/ i # id
        PROVE  EarnedAt(l, i)' = EarnedAt(l, i)
    <3>1. <<l, i>> \notin chosen \X {id}
      BY <2>6
    <3>2. QED
      BY <1>8, <1>12, <2>4, <2>5, <3>1
  <2>7. CASE l \notin chosen
    BY <1>2, <1>5, <1>7, <2>3, <2>4, <2>6, <2>7
  <2>8. CASE l \in chosen
    <3>1. submissions[<<l, id>>] = "Pending" /\ submissions'[<<l, id>>] = "Approved"
      BY <1>8, <2>1, <2>4, <2>8 DEF MayReview
    <3>2. LearnerShare(id) \in Nat
      <4>1. RewardOf(id) \in Nat
        BY <2>2 DEF RewardOf
      <4>2. FeeOn(RewardOf(id)) \in Nat /\ FeeOn(RewardOf(id)) <= RewardOf(id)
        BY <4>1, PayoutExact
      <4>3. QED
        BY <4>1, <4>2 DEF LearnerShare
    <3>3. EarnedAt(l, id)' = EarnedAt(l, id) + LearnerShare(id)
      <4>1. verified[<<l, id>>] * RewardOf(id) \in Nat
        BY <1>1, EarnedType
      <4>2. LearnerShare(id)' = LearnerShare(id) /\ RewardOf(id)' = RewardOf(id)
        BY <2>5 DEF LearnerShare, RewardOf, FeeOn
      <4>3. /\ EarnedAt(l, id) = 0 + verified[<<l, id>>] * RewardOf(id)
            /\ EarnedAt(l, id)' = LearnerShare(id) + verified[<<l, id>>] * RewardOf(id)
        BY <2>5, <3>1, <4>2 DEF EarnedAt
      <4>4. QED
        BY <3>2, <4>1, <4>3
    <3>4. Total(Earned(l)') = Total(Earned(l)) + LearnerShare(id)
      BY <1>1, <2>6, <3>2, <3>3, EarnedOnce
    <3>5. Purse(l)' = Purse(l) + LearnerShare(id)
      BY <1>2, <2>3, <2>4, <2>8, <3>2 DEF Purse, vault, SV!StakeOf
    <3>6. QED
      BY <3>2, <3>4, <3>5 DEF Gains
  <2>9. QED
    BY <2>7, <2>8
<1>15. ASSUME NEW employer, NEW k \in Learners, NEW id \in QuestIds, Rejection(employer, k, id)
       PROVE  \E v \in Nat : Gains(l, v)
  <2>1. /\ submissions[<<k, id>>] = "Pending" /\ Decide({k}, id, "Rejected")
        /\ UNCHANGED balance
    BY <1>15 DEF Rejection, MayReview
  <2>2. /\ \A p \in Pairs :
             submissions'[p] = IF p \in {k} \X {id} THEN "Rejected" ELSE submissions[p]
        /\ UNCHANGED <<pool, vault, wiring, enginePaused, board, verified>>
    BY <1>1, <2>1, DecideEffect
  <2>3. ASSUME NEW p \in Pairs
        PROVE  submissions'[p] = "Approved" <=> submissions[p] = "Approved"
    <3>1. CASE p \in {k} \X {id}
      <4>1. p = <<k, id>>
        BY <3>1
      <4>2. QED
        BY <2>1, <2>2, <3>1, <4>1
    <3>2. CASE p \notin {k} \X {id}
      BY <2>2, <3>2
    <3>3. QED
      BY <3>1, <3>2
  <2>4. UNCHANGED <<quests, verified>>
    BY <2>2 DEF board
  <2>5. QED
    BY <1>5, <1>7, <1>8, <1>12, <2>1, <2>2, <2>3, <2>4
<1>16. ASSUME NEW employer \in Employers \cup Admins, NEW id \in QuestIds,
              RefundQuest(employer, id)
       PROVE  \E v \in Nat : Gains(l, v)
  <2>1. balance'[l] = balance[l]
    BY <1>1, <1>16, RefundEffect
  <2>2. UNCHANGED <<vault, submissions, verified>>
    BY <1>16 DEF RefundQuest
  <2>3. \A i \in QuestIds : RewardOf(i)' = RewardOf(i)
    BY <1>16, RefundBooks
  <2>4. ASSUME NEW i \in QuestIds PROVE EarnedAt(l, i)' = EarnedAt(l, i)
    BY <2>2, <2>3 DEF EarnedAt, LearnerShare, FeeOn
  <2>5. QED
    BY <1>5, <1>7, <2>1, <2>2, <2>4
<1>17. ASSUME NEW admin, NEW k \in Learners, NEW id \in QuestIds,
              VerifyExploreQuest(admin, k, id)
       PROVE  \E v \in Nat : Gains(l, v)
  <2> DEFINE r == quests[id].reward_amount
  <2>1. /\ quests[id] # None /\ r \in Nat \ {0}
        /\ verified' = [verified EXCEPT ![<<k, id>>] = verified[<<k, id>>] + 1]
        /\ UNCHANGED <<pool, vault, wiring, enginePaused, board, submissions>>
        /\ balance'[l] = balance[l] + IF l = k THEN r ELSE 0
    BY <1>1, <1>17, VerifyEffect
  <2>2. UNCHANGED <<quests, submissions>> /\ RewardOf(id) = r
    BY <2>1 DEF board, RewardOf
  <2>3. verified \in [Pairs -> Nat]
    BY <1>1 DEF EngineTypes
  <2>4. ASSUME NEW i \in QuestIds, l # k \/ i # id PROVE EarnedAt(l, i)' = EarnedAt(l, i)
    <3>1. verified'[<<l, i>>] = verified[<<l, i>>]
      BY <1>8, <2>1, <2>3, <2>4
    <3>2. QED
      BY <2>2, <3>1 DEF EarnedAt, LearnerShare, RewardOf, FeeOn
  <2>5. CASE l # k
    BY <1>2, <1>5, <1>7, <2>1, <2>4, <2>5
  <2>6. CASE l = k
    <3>1. EarnedAt(l, id)' = EarnedAt(l, id) + r
      <4> DEFINE share == IF submissions[<<l, id>>] = "Approved" THEN LearnerShare(id) ELSE 0
                 times == verified[<<l, id>>]
      <4>1. verified'[<<l, id>>] = times + 1 /\ times \in Nat
        BY <1>8, <2>1, <2>3, <2>6
      <4>2. share \in Nat
        BY <1>1, EarnedType
      <4>3. LearnerShare(id)' = LearnerShare(id) /\ RewardOf(id)' = r
        BY <2>2 DEF LearnerShare, RewardOf, FeeOn
      <4>4. /\ EarnedAt(l, id) = share + times * r
            /\ EarnedAt(l, id)' = share + (times + 1) * r
        BY <2>2, <4>1, <4>3 DEF EarnedAt
      <4> HIDE DEF share, times, r
      <4>5. (times + 1) * r = times * r + r /\ times * r \in Int
        BY <2>1, <4>1
      <4>6. QED
        BY <2>1, <4>2, <4>4, <4>5
    <3>2. Total(Earned(l)') = Total(Earned(l)) + r
      BY <1>1, <2>1, <2>4, <3>1, EarnedOnce
    <3>3. Purse(l)' = Purse(l) + r
      BY <1>2, <2>1, <2>6 DEF Purse, vault, SV!StakeOf
    <3> HIDE DEF r
    <3>4. QED
      BY <2>1, <3>2, <3>3 DEF Gains
  <2>7. QED
    BY <2>5, <2>6
<1>18. CASE WiringCall
  BY <1>5, <1>6, <1>7, <1>18 DEF WiringCall
<1>19. CASE PoolStep
  <2>1. balance'[l] = balance[l] /\ UNCHANGED <<vault, quests, submissions, verified>>
    BY <1>1, <1>19, PoolEffect DEF PoolStep, board
  <2>2. QED
    BY <1>5, <1>6, <1>7, <2>1
<1>20. CASE VaultStep
  <2>1. Purse(l)' = Purse(l) /\ UNCHANGED <<quests, submissions, verified>>
    BY <1>1, <1>20, VaultEffect DEF VaultStep, board, Purse
  <2>2. QED
    BY <1>5, <1>6, <2>1
<1>21. QED
  BY <1>10, <1>11, <1>13, <1>14, <1>15, <1>16, <1>17, <1>18, <1>19, <1>20, EngineCalls

LEMMA PaidStep ==
  ASSUME TypeOK, QuestFacts, LearnersPaid, [Next]_vars
  PROVE  LearnersPaid'
<1> SUFFICES ASSUME NEW l \in Outsiders
             PROVE  Purse(l)' = Endowment[l] + Total(Earned(l)')
  BY DEF LearnersPaid, Outsiders, Purse
<1>1. Purse(l) = Endowment[l] + Total(Earned(l)) /\ l \in Learners
  BY DEF LearnersPaid, Outsiders, Purse
<1>2. Endowment[l] \in Nat
  BY <1>1, PurseType
<1>3. Total(Earned(l)) \in Nat
  BY <1>1, EarnedSum DEF TypeOK, EngineTypes
<1>4. PICK v \in Nat : Gains(l, v)
  BY IncomeStep
<1>5. QED
  BY <1>1, <1>2, <1>3, <1>4 DEF Gains

(* A learner's purse and stake are what the learner started with and       *)
(* earned: the reward less the fee per approval, and all of it per         *)
(* verification.                                                           *)
THEOREM LearnersArePaid == Spec => []LearnersPaid
<1>1. Init => LearnersPaid
  <2> SUFFICES ASSUME Init, NEW l \in Learners
               PROVE  balance[l] + SV!StakeOf(l) = Endowment[l] + Total(Earned(l))
    BY DEF LearnersPaid
  <2>1. balance[l] = Endowment[l] /\ SV!StakeOf(l) = 0
    BY DEF Init, RP!Init, SV!Init, SV!StakeOf
  <2>2. ASSUME NEW id \in QuestIds PROVE Earned(l)[id] = 0
    <3>1. /\ submissions[<<l, id>>] = None /\ verified[<<l, id>>] = 0 /\ RewardOf(id) = 0
          /\ None # "Approved"
      BY EngineNoneAssumption DEF Init, Pairs, RewardOf
    <3>2. QED
      BY <3>1 DEF Earned
  <2>3. Total(Earned(l)) = 0
    BY <2>2, EmptyTotal DEF Earned
  <2>4. Endowment[l] \in Nat
    BY EngineAddressAssumption
  <2>5. QED
    BY <2>1, <2>3, <2>4
<1>2. TypeOK /\ QuestFacts /\ LearnersPaid /\ [Next]_vars => LearnersPaid'
  BY PaidStep
<1>3. QED
  BY <1>1, <1>2, FactsInit, FactsStep, PTL DEF Spec

-----------------------------------------------------------------------------
(* Tokens leave the engine in payments and refunds only.                   *)
LEMMA OutgoingTokens ==
  ASSUME TypeOK, [Next]_vars, balance'[Engine] < balance[Engine]
  PROVE  \/ \E employer \in Employers \cup Admins, id \in QuestIds, chosen \in SUBSET Learners :
              BatchReviewSubmissions(employer, id, chosen)
         \/ \E employer \in Employers \cup Admins, id \in QuestIds : RefundQuest(employer, id)
<1>1. /\ balance \in [Address -> Nat] /\ Engine \in Address /\ balance[Engine] \in Nat
      /\ Engine \notin ServiceAdmins /\ Engine # Pool
  BY EngineAddressAssumption, EngineApart DEF TypeOK, RP!TypeOK
<1>2. ~(balance' = balance) /\ ~(balance'[Engine] = balance[Engine])
  BY <1>1
<1>3. ~WiringCall
  BY <1>2 DEF WiringCall
<1>4. \A employer \in Employers, reward \in Rewards : ~CreateBuildQuest(employer, reward)
  <2> SUFFICES ASSUME NEW employer \in Employers, NEW reward \in Rewards,
                      CreateBuildQuest(employer, reward)
               PROVE  FALSE
    OBVIOUS
  <2>1. reward \in Nat /\ balance'[Engine] = balance[Engine] + reward
    BY CreateBuildEffect
  <2>2. QED
    BY <1>1, <2>1
<1>5. \A admin \in Admins, reward \in Rewards : ~CreateExploreQuest(admin, reward)
  BY <1>2 DEF CreateExploreQuest
<1>6. \A l \in Learners, id \in QuestIds : ~SubmitProof(l, id)
  BY <1>2 DEF SubmitProof
<1>7. \A employer : \A l \in Learners, id \in QuestIds : ~Rejection(employer, l, id)
  BY <1>2 DEF Rejection
<1>8. \A admin \in Admins, l \in Learners, id \in QuestIds : ~VerifyExploreQuest(admin, l, id)
  BY <1>2, VerifyEffect
<1>9. ~PoolStep
  BY <1>1, <1>2, PoolEffect
<1>10. ~VaultStep
  BY <1>2, VaultEffect
<1>11. QED
  BY <1>3, <1>4, <1>5, <1>6, <1>7, <1>8, <1>9, <1>10, EngineCalls

(* While the engine is paused no submission is decided, and tokens leave   *)
(* it only to refund a quest that the same call closes.                    *)
THEOREM PausedEngineRefunds == Spec => PausedOnlyRefunds
<1> DEFINE Held ==
      enginePaused /\ balance'[Engine] < balance[Engine] =>
        /\ submissions' = submissions
        /\ \E id \in QuestIds :
             /\ quests[id] # None /\ quests[id].active /\ ~quests'[id].active
             /\ balance'[Engine] = balance[Engine] - quests[id].reward_amount
<1>1. TypeOK /\ [Next]_vars => Held
  <2> SUFFICES ASSUME TypeOK, [Next]_vars, enginePaused, balance'[Engine] < balance[Engine]
               PROVE  /\ submissions' = submissions
                      /\ \E id \in QuestIds :
                           /\ quests[id] # None /\ quests[id].active /\ ~quests'[id].active
                           /\ balance'[Engine] = balance[Engine] - quests[id].reward_amount
    OBVIOUS
  <2>1. ~\E employer \in Employers \cup Admins, id \in QuestIds, chosen \in SUBSET Learners :
           BatchReviewSubmissions(employer, id, chosen)
    BY DEF BatchReviewSubmissions, MayReview
  <2>2. PICK employer \in Employers \cup Admins, id \in QuestIds : RefundQuest(employer, id)
    BY <2>1, OutgoingTokens
  <2>3. /\ quests[id] # None /\ quests[id].active /\ ~quests'[id].active
        /\ balance'[Engine] = balance[Engine] - quests[id].reward_amount
    BY <2>2, RefundEffect
  <2>4. submissions' = submissions
    BY <2>2 DEF RefundQuest
  <2>5. QED
    BY <2>3, <2>4
<1>2. TypeOK /\ [Next]_vars => [Held]_vars
  BY <1>1
<1>3. QED
  BY <1>2, QuestTypes, PTL DEF Spec, PausedOnlyRefunds

-----------------------------------------------------------------------------
(* The board of bounties: where a quest and a submission stand.            *)
Stages == [id \in QuestIds |-> StageOf(id)]
RewardsPosted == [id \in QuestIds |-> RewardOf(id)]
Standing(p) == IF submissions[p] = None THEN "none" ELSE submissions[p]
Standings == [p \in Pairs |-> Standing(p)]
BoardState == <<Stages, RewardsPosted, Standings, balance[Engine]>>

LEMMA StageByFields ==
  /\ \A id : quests[id] = None => StageOf(id) = "none"
  /\ \A id : quests[id] # None /\ ~quests[id].active => StageOf(id) = "closed"
  /\ \A id : quests[id] # None /\ quests[id].active =>
       /\ quests[id].quest_type = "Build" => StageOf(id) = "build"
       /\ quests[id].quest_type # "Build" => StageOf(id) = "explore"
BY Zenon DEF StageOf

LEMMA StageByFieldsNext ==
  /\ \A id : quests'[id] = None => StageOf(id)' = "none"
  /\ \A id : quests'[id] # None /\ ~quests'[id].active => StageOf(id)' = "closed"
  /\ \A id : quests'[id] # None /\ quests'[id].active =>
       /\ quests'[id].quest_type = "Build" => StageOf(id)' = "build"
       /\ quests'[id].quest_type # "Build" => StageOf(id)' = "explore"
BY Zenon DEF StageOf

LEMMA StageKept ==
  ASSUME NEW id, quests'[id] = quests[id]
  PROVE  StageOf(id)' = StageOf(id) /\ RewardOf(id)' = RewardOf(id)
BY Zenon DEF StageOf, RewardOf

LEMMA StandingKept ==
  ASSUME NEW p, submissions'[p] = submissions[p]
  PROVE  Standing(p)' = Standing(p)
BY DEF Standing

LEMMA BoardKept ==
  ASSUME UNCHANGED <<quests, submissions>>, balance'[Engine] = balance[Engine]
  PROVE  UNCHANGED BoardState
<1>1. \A id : StageOf(id)' = StageOf(id) /\ RewardOf(id)' = RewardOf(id)
  BY StageKept
<1>2. \A p : Standing(p)' = Standing(p)
  BY StandingKept
<1>3. Stages' = Stages /\ RewardsPosted' = RewardsPosted /\ Standings' = Standings
  BY <1>1, <1>2 DEF Stages, RewardsPosted, Standings
<1>4. QED
  BY <1>3 DEF BoardState

LEMMA PostQuest ==
  ASSUME EngineTypes, QuestFacts, NEW employer \in Employers \cup Admins,
         NEW reward \in Rewards, NEW type \in {"Build", "Explore"},
         NewQuest(employer, reward, type), type = "Build" => reward >= 0,
         balance'[Engine] = IF type = "Build" THEN balance[Engine] + reward ELSE balance[Engine]
  PROVE  Board!Next
<1> DEFINE kind == IF type = "Build" THEN "build" ELSE "explore"
<1>1. PICK n \in QuestIds :
        /\ quests[n] = None /\ quests'[n] # None
        /\ quests'[n] = [employer |-> employer, reward_amount |-> reward,
                         quest_type |-> type, active |-> TRUE]
        /\ \A i \in QuestIds : i # n => quests'[i] = quests[i]
  BY NewQuestEffect
<1>2. quests'[n].reward_amount = reward /\ quests'[n].quest_type = type /\ quests'[n].active
  BY <1>1
<1>3. kind \in {"build", "explore"} /\ (kind = "build" <=> type = "Build")
  OBVIOUS
<1>4. StageOf(n) = "none" /\ StageOf(n)' = kind /\ RewardOf(n)' = reward
  <2>1. StageOf(n) = "none"
    BY <1>1, StageByFields
  <2>2. StageOf(n)' = kind
    BY <1>1, <1>2, StageByFieldsNext
  <2>3. RewardOf(n)' = reward
    BY <1>1, <1>2 DEF RewardOf
  <2>4. QED
    BY <2>1, <2>2, <2>3
<1> HIDE DEF kind
<1>5. \A i \in QuestIds : i # n =>
        StageOf(i)' = StageOf(i) /\ RewardOf(i)' = RewardOf(i)
  BY <1>1, StageKept
<1>6. /\ Stages[n] = "none"
      /\ Stages' = [Stages EXCEPT ![n] = kind]
      /\ RewardsPosted' = [RewardsPosted EXCEPT ![n] = reward]
  BY <1>4, <1>5 DEF Stages, RewardsPosted
<1>7. Standings' = Standings
  <2>1. UNCHANGED submissions
    BY DEF NewQuest
  <2>2. QED
    BY <2>1, StandingKept DEF Standings
<1>8. balance'[Engine] = IF kind = "build" THEN balance[Engine] + reward ELSE balance[Engine]
  BY <1>3
<1>9. Board!Post(n, kind, reward)
  BY <1>3, <1>6, <1>7, <1>8
  DEF Board!Post, Stages, RewardsPosted, Standings, Standing
<1>10. QED
  BY <1>3, <1>9 DEF Board!Next

LEMMA SubmitOnBoard ==
  ASSUME EngineTypes, NEW l \in Learners, NEW id \in QuestIds, SubmitProof(l, id)
  PROVE  Board!Next
<1> DEFINE q == <<l, id>>
<1>1. q \in Pairs
  BY DEF Pairs
<1>2. /\ quests[id] # None /\ quests[id].active /\ quests[id].quest_type = "Build"
      /\ submissions[q] = None /\ submissions' = [submissions EXCEPT ![q] = "Pending"]
      /\ UNCHANGED <<balance, quests>>
  BY DEF SubmitProof, board
<1>3. StageOf(id) = "build"
  BY <1>2, StageByFields
<1>4. Stages' = Stages /\ RewardsPosted' = RewardsPosted
  BY <1>2, StageKept DEF Stages, RewardsPosted
<1>5. submissions \in [Pairs -> {None, "Pending", "Approved", "Rejected"}]
  BY DEF EngineTypes
<1> HIDE DEF q
<1>6. Standings[q] = "none" /\ Standings' = [Standings EXCEPT ![q] = "Pending"]
  <2>1. Standing(q) = "none" /\ Standing(q)' = "Pending"
    BY <1>1, <1>2, <1>5, EngineNoneAssumption DEF Standing
  <2>2. \A p \in Pairs : p # q => Standing(p)' = Standing(p)
    BY <1>2, <1>5, StandingKept
  <2>3. QED
    BY <1>1, <2>1, <2>2 DEF Standings
<1>7. Stages[id] = "build"
  BY <1>3 DEF Stages
<1>8. Board!Submit(l, id)
  BY <1>2, <1>4, <1>6, <1>7
  DEF Board!Submit, Stages, RewardsPosted, Standings, Standing, q
<1>9. QED
  BY <1>8 DEF Board!Next

(* The board counts as the engine does: both extend FiniteSets.            *)
LEMMA SameCardinality == \A S : Board!Cardinality(S) = Cardinality(S)
BY DEF Board!Cardinality, Cardinality

LEMMA DecideOnBoard ==
  ASSUME EngineTypes, NEW id \in QuestIds, NEW chosen \in SUBSET Learners,
         NEW decision \in {"Approved", "Rejected"}, NEW employer,
         MayReview(employer, id, chosen), Decide(chosen, id, decision),
         balance' \in [Address -> Nat],
         balance'[Engine] = IF decision = "Approved"
                            THEN balance[Engine] - Cardinality(chosen) * RewardOf(id)
                            ELSE balance[Engine]
  PROVE  Board!Next
<1>1. UNCHANGED quests
  BY DEF Decide, board
<1>2. Stages' = Stages /\ RewardsPosted' = RewardsPosted
  BY <1>1, StageKept DEF Stages, RewardsPosted
<1>3. \A l \in chosen : Standings[<<l, id>>] = "Pending"
  <2>1. ASSUME NEW l \in chosen PROVE <<l, id>> \in Pairs /\ Standing(<<l, id>>) = "Pending"
    BY EngineNoneAssumption DEF MayReview, Standing, Pairs
  <2>2. QED
    BY <2>1 DEF Standings
<1>4. Standings' = [p \in Pairs |->
                      IF p[1] \in chosen /\ p[2] = id THEN decision ELSE Standings[p]]
  <2>1. ASSUME NEW p \in Pairs
        PROVE  Standing(p)' = IF p[1] \in chosen /\ p[2] = id THEN decision ELSE Standing(p)
    <3>1. submissions'[p] = IF p[1] \in chosen /\ p[2] = id THEN decision ELSE submissions[p]
      BY DEF Decide
    <3>2. decision # None
      BY EngineNoneAssumption
    <3>3. QED
      BY <3>1, <3>2 DEF Standing
  <2>2. QED
    BY <2>1 DEF Standings
<1>5. balance'[Engine] >= 0 /\ RewardsPosted[id] = RewardOf(id)
  BY EngineAddressAssumption DEF RewardsPosted
<1>6. DOMAIN Standings = Pairs
  BY DEF Standings
<1>7. Board!Decide(chosen, id, decision)
  BY <1>2, <1>3, <1>4, <1>5, <1>6, SameCardinality
  DEF Board!Decide, Stages, RewardsPosted, Standings, Standing
<1>8. QED
  BY <1>7 DEF Board!Next

LEMMA CloseOnBoard ==
  ASSUME TypeOK, NEW employer \in Employers \cup Admins, NEW id \in QuestIds,
         RefundQuest(employer, id)
  PROVE  Board!Next
<1>1. /\ quests[id] # None /\ quests[id].active /\ quests[id].reward_amount \in Nat
      /\ quests'[id] # None /\ ~quests'[id].active
      /\ quests'[id].reward_amount = quests[id].reward_amount
      /\ \A i \in QuestIds : i # id => quests'[i] = quests[i]
      /\ quests[id].reward_amount <= balance[Engine]
      /\ balance'[Engine] = balance[Engine] - quests[id].reward_amount
  BY RefundEffect
<1>2. balance[Engine] \in Nat
  BY EngineAddressAssumption DEF TypeOK, RP!TypeOK
<1>3. StageOf(id) \in {"build", "explore"} /\ StageOf(id)' = "closed"
  BY <1>1, StageByFields, StageByFieldsNext
<1>4. RewardOf(id) = quests[id].reward_amount /\ RewardOf(id)' = RewardOf(id)
  BY <1>1 DEF RewardOf
<1>5. \A i \in QuestIds : i # id =>
        StageOf(i)' = StageOf(i) /\ RewardOf(i)' = RewardOf(i)
  BY <1>1, StageKept
<1>6. /\ Stages[id] \in {"build", "explore"} /\ Stages' = [Stages EXCEPT ![id] = "closed"]
      /\ RewardsPosted' = RewardsPosted /\ RewardsPosted[id] = RewardOf(id)
  BY <1>3, <1>4, <1>5 DEF Stages, RewardsPosted
<1>7. Standings' = Standings
  <2>1. UNCHANGED submissions
    BY DEF RefundQuest
  <2>2. QED
    BY <2>1, StandingKept DEF Standings
<1>8. /\ RewardsPosted[id] \in 0..balance[Engine]
      /\ balance'[Engine] = balance[Engine] - RewardsPosted[id]
  BY <1>1, <1>2, <1>4, <1>6
<1>9. Board!Close(id)
  BY <1>6, <1>7, <1>8 DEF Board!Close, Stages, RewardsPosted, Standings, Standing
<1>10. QED
  BY <1>9 DEF Board!Next

LEMMA BoardStep ==
  ASSUME TypeOK, QuestFacts, [Next]_vars
  PROVE  Board!Next \/ UNCHANGED BoardState
<1>1. /\ EngineTypes /\ balance \in [Address -> Nat] /\ Engine \in Address
      /\ balance[Engine] \in Nat /\ Engine \notin ServiceAdmins /\ Engine # Pool
  BY EngineAddressAssumption, EngineApart DEF TypeOK, EngineTypes, RP!TypeOK
<1>2. ASSUME NEW employer \in Employers, NEW reward \in Rewards,
             CreateBuildQuest(employer, reward)
      PROVE  Board!Next
  <2>1. /\ reward \in Nat /\ NewQuest(employer, reward, "Build")
        /\ balance'[Engine] = balance[Engine] + reward
    BY <1>2, CreateBuildEffect
  <2>2. QED
    BY <1>1, <2>1, PostQuest
<1>3. ASSUME NEW admin \in Admins, NEW reward \in Rewards, CreateExploreQuest(admin, reward)
      PROVE  Board!Next
  <2>1. NewQuest(admin, reward, "Explore") /\ balance' = balance
    BY <1>3, CreateExploreEffect
  <2>2. QED
    BY <1>1, <2>1, PostQuest
<1>4. ASSUME NEW l \in Learners, NEW id \in QuestIds, SubmitProof(l, id)
      PROVE  Board!Next
  BY <1>1, <1>4, SubmitOnBoard
<1>5. ASSUME NEW employer, NEW id \in QuestIds, NEW chosen \in SUBSET Learners,
             chosen # {}, BatchReviewSubmissions(employer, id, chosen)
      PROVE  Board!Next
  <2>1. /\ MayReview(employer, id, chosen) /\ PayAll(chosen, id)
        /\ Decide(chosen, id, "Approved")
    BY <1>5 DEF BatchReviewSubmissions
  <2>2. quests[id] # None /\ quests[id].reward_amount \in Nat
    BY <1>1, <1>5, <2>1, PendingReward
  <2>3. /\ balance' \in [Address -> Nat]
        /\ balance'[Engine] = balance[Engine] - Cardinality(chosen) * RewardOf(id)
    BY <2>1, <2>2, PaymentsEffect
  <2>4. QED
    BY <1>1, <2>1, <2>3, DecideOnBoard
<1>6. ASSUME NEW employer, NEW l \in Learners, NEW id \in QuestIds, Rejection(employer, l, id)
      PROVE  Board!Next
  <2>1. /\ MayReview(employer, id, {l}) /\ Decide({l}, id, "Rejected") /\ balance' = balance
    BY <1>6 DEF Rejection
  <2>2. {l} \in SUBSET Learners
    OBVIOUS
  <2>3. QED
    BY <1>1, <2>1, <2>2, DecideOnBoard
<1>7. ASSUME NEW employer \in Employers \cup Admins, NEW id \in QuestIds,
             RefundQuest(employer, id)
      PROVE  Board!Next
  BY <1>7, CloseOnBoard
<1>8. ASSUME NEW admin, NEW l \in Learners, NEW id \in QuestIds,
             VerifyExploreQuest(admin, l, id)
      PROVE  UNCHANGED BoardState
  BY <1>8, BoardKept, VerifyEffect DEF board
<1>9. CASE WiringCall
  BY <1>9, BoardKept DEF WiringCall
<1>10. CASE PoolStep
  BY <1>1, <1>10, BoardKept, PoolEffect DEF PoolStep, board
<1>11. CASE VaultStep
  BY <1>11, BoardKept, VaultEffect DEF VaultStep, board
<1>12. QED
  BY <1>2, <1>3, <1>4, <1>5, <1>6, <1>7, <1>8, <1>9, <1>10, <1>11, EngineCalls

(* The engine implements the board of bounties, with whatever fees and     *)
(* multipliers, and whatever the pool and the vault do in between.         *)
THEOREM ImplementsBounties == Spec => ImplementsBoard
<1>1. Init => Board!Init
  <2> SUFFICES ASSUME Init PROVE Board!Init
    OBVIOUS
  <2>1. /\ balance = Endowment /\ quests = [id \in QuestIds |-> None]
        /\ submissions = [p \in Pairs |-> None]
    BY DEF Init, RP!Init
  <2>2. \A id \in QuestIds : StageOf(id) = "none" /\ RewardOf(id) = 0
    BY <2>1, StageByFields DEF RewardOf
  <2>3. balance[Engine] \in Nat
    BY <2>1, EngineAddressAssumption
  <2>4. QED
    BY <2>1, <2>2, <2>3 DEF Board!Init, Pairs
<1>2. TypeOK /\ QuestFacts /\ [Next]_vars => Board!Next \/ UNCHANGED BoardState
  BY BoardStep
<1>3. TypeOK /\ QuestFacts /\ [Next]_vars => [Board!Next]_(Board!boardVars)
  BY <1>2 DEF BoardState, Board!boardVars, Stages, RewardsPosted, Standings, Standing
<1>4. QED
  BY <1>1, <1>3, FactsInit, FactsStep, PTL DEF Spec, ImplementsBoard, Board!Spec

-----------------------------------------------------------------------------
(* What the engine moves in and out of the treasury where one account      *)
(* administers it and the pool, and posts the explore quests: fees and     *)
(* refunds of explore quests come in, explore rewards go out.              *)
FeeBook ==
  [p \in Pairs |-> IF submissions[p] = "Approved" THEN FeeOn(RewardOf(p[2])) ELSE 0]
ExploreBook == [p \in Pairs |-> verified[p] * RewardOf(p[2])]
RefundBook ==
  [id \in QuestIds |->
     IF quests[id] # None /\ quests[id].quest_type = "Explore" /\ ~quests[id].active
     THEN RewardOf(id) ELSE 0]

Treasury(a) == balance[Pool] + balance[a]
TreasuryFlow(a, fees, spent, refunds) ==
  /\ Treasury(a)' = Treasury(a) + fees + refunds - spent
  /\ Total(FeeBook') = Total(FeeBook) + fees
  /\ Total(ExploreBook') = Total(ExploreBook) + spent
  /\ Total(RefundBook') = Total(RefundBook) + refunds
Flows(a) == \E fees, spent, refunds \in Nat : TreasuryFlow(a, fees, spent, refunds)

OneTreasurer(a) ==
  /\ Admins = {a} /\ ServiceAdmins = {a}
  /\ a \notin Learners \cup Employers \cup {Pool, Vault} /\ Pool \notin Employers
  /\ Rewards \subseteq Nat
  /\ rewardPool = Pool
  /\ \A id \in QuestIds : quests[id] # None =>
       IF quests[id].quest_type = "Build"
       THEN quests[id].employer \in Employers ELSE quests[id].employer = a

LEMMA TreasuryTypes ==
  ASSUME TypeOK, QuestFacts, Rewards \subseteq Nat
  PROVE  /\ \A id \in QuestIds : RewardOf(id) \in Nat
         /\ FeeBook \in [Pairs -> Nat] /\ ExploreBook \in [Pairs -> Nat]
         /\ RefundBook \in [QuestIds -> Nat]
         /\ Total(FeeBook) \in Nat /\ Total(ExploreBook) \in Nat /\ Total(RefundBook) \in Nat
<1>1. EngineTypes
  BY TypesSplit
<1>2. \A id \in QuestIds : RewardOf(id) \in Nat
  BY <1>1, QuestFields DEF RewardOf
<1>3. \A p \in Pairs : p[2] \in QuestIds
  BY DEF Pairs
<1>4. FeeBook \in [Pairs -> Nat]
  <2>1. ASSUME NEW p \in Pairs PROVE FeeOn(RewardOf(p[2])) \in Nat
    <3>1. RewardOf(p[2]) \in Nat
      BY <1>2, <1>3
    <3>2. QED
      BY <3>1, PayoutExact
  <2>2. QED
    BY <2>1 DEF FeeBook
<1>5. ExploreBook \in [Pairs -> Nat]
  <2>1. ASSUME NEW p \in Pairs PROVE verified[p] * RewardOf(p[2]) \in Nat
    <3>1. RewardOf(p[2]) \in Nat /\ verified[p] \in Nat
      BY <1>1, <1>2, <1>3 DEF EngineTypes
    <3>2. QED
      BY <3>1, ProductOfNaturals
  <2>2. QED
    BY <2>1 DEF ExploreBook
<1>6. RefundBook \in [QuestIds -> Nat]
  BY <1>2 DEF RefundBook
<1>7. QED
  BY <1>2, <1>4, <1>5, <1>6, KeysFinite, UnitsFinite

(* No move at all.                                                         *)
LEMMA TreasuryStill ==
  ASSUME TypeOK, QuestFacts, Rewards \subseteq Nat, NEW a \in Address,
         Treasury(a)' = Treasury(a), UNCHANGED <<FeeBook, ExploreBook, RefundBook>>
  PROVE  Flows(a)
<1>1. Treasury(a) \in Int
  <2>1. balance[Pool] \in Nat /\ balance[a] \in Nat
    BY EngineAddressAssumption DEF TypeOK, RP!TypeOK
  <2>2. QED
    BY <2>1 DEF Treasury
<1>2. Total(FeeBook) \in Nat /\ Total(ExploreBook) \in Nat /\ Total(RefundBook) \in Nat
  BY TreasuryTypes
<1>3. TreasuryFlow(a, 0, 0, 0)
  BY <1>1, <1>2 DEF TreasuryFlow
<1>4. QED
  BY <1>3 DEF Flows

LEMMA BooksStill ==
  ASSUME UNCHANGED <<quests, submissions, verified>>
  PROVE  UNCHANGED <<FeeBook, ExploreBook, RefundBook>>
BY DEF FeeBook, ExploreBook, RefundBook, RewardOf, FeeOn

(* A new quest has paid and refunded nothing.                              *)
LEMMA NewQuestStill ==
  ASSUME TypeOK, QuestFacts, Rewards \subseteq Nat, NEW employer \in Employers \cup Admins,
         NEW reward \in Rewards, NEW type \in {"Build", "Explore"},
         NewQuest(employer, reward, type)
  PROVE  UNCHANGED <<FeeBook, ExploreBook, RefundBook>>
<1>1. EngineTypes
  BY TypesSplit
<1>2. PICK n \in QuestIds :
        /\ quests[n] = None /\ quests'[n] # None
        /\ quests'[n] = [employer |-> employer, reward_amount |-> reward,
                         quest_type |-> type, active |-> TRUE]
        /\ \A p \in Pairs : p[2] = n => submissions[p] = None /\ verified[p] = 0
        /\ \A id \in QuestIds : id # n => quests'[id] = quests[id]
  BY <1>1, NewQuestEffect
<1>3. quests'[n].active /\ quests'[n].reward_amount = reward
  BY <1>2
<1>4. UNCHANGED <<submissions, verified>>
  BY DEF NewQuest
<1>5. \A id \in QuestIds : id # n => RewardOf(id)' = RewardOf(id)
  BY <1>2 DEF RewardOf
<1>6. RewardOf(n)' \in Nat /\ RewardOf(n) \in Nat
  BY <1>2, <1>3 DEF RewardOf
<1>7. FeeBook' = FeeBook
  <2>1. ASSUME NEW p \in Pairs, submissions[p] = "Approved"
        PROVE  FeeOn(RewardOf(p[2]))' = FeeOn(RewardOf(p[2]))
    <3>1. p[2] \in QuestIds /\ p[2] # n
      BY <1>2, <2>1, EngineNoneAssumption DEF Pairs
    <3>2. QED
      BY <1>5, <3>1 DEF FeeOn
  <2>2. QED
    BY <1>4, <2>1 DEF FeeBook
<1>8. ExploreBook' = ExploreBook
  <2>1. ASSUME NEW p \in Pairs
        PROVE  verified[p] * RewardOf(p[2])' = verified[p] * RewardOf(p[2])
    <3>1. CASE p[2] = n
      <4>1. verified[p] = 0
        BY <1>2, <3>1
      <4>2. 0 * RewardOf(n)' = 0 /\ 0 * RewardOf(n) = 0
        BY <1>6
      <4>3. QED
        BY <3>1, <4>1, <4>2
    <3>2. CASE p[2] # n
      BY <1>5, <3>2 DEF Pairs
    <3>3. QED
      BY <3>1, <3>2
  <2>2. QED
    BY <1>4, <2>1 DEF ExploreBook
<1>9. RefundBook' = RefundBook
  BY <1>2, <1>3, <1>5 DEF RefundBook
<1>10. QED
  BY <1>7, <1>8, <1>9

(* Where the administrator of the treasury is, and what it holds.          *)
LEMMA TreasurerApart ==
  ASSUME TypeOK, QuestFacts, NEW a, OneTreasurer(a)
  PROVE  /\ a \in Address \ ({Engine, Pool, Vault} \cup Learners)
         /\ Pool \in Address \ ({Engine} \cup Learners)
         /\ balance \in [Address -> Nat] /\ balance[Pool] \in Nat /\ balance[a] \in Nat
         /\ Treasury(a) = balance[Pool] + balance[a]
<1>1. /\ a \in Address \ ({Engine, Pool, Vault} \cup Learners)
      /\ Pool \in Address \ ({Engine} \cup Learners) /\ balance \in [Address -> Nat]
  BY EngineAddressAssumption, EngineApart DEF OneTreasurer, TypeOK, RP!TypeOK
<1>2. QED
  BY <1>1 DEF Treasury

(* Every approval brings its fee, and is booked once.                      *)
LEMMA ApprovalFlow ==
  ASSUME TypeOK, QuestFacts, NEW a, OneTreasurer(a), NEW employer, NEW id \in QuestIds,
         NEW chosen \in SUBSET Learners, chosen # {},
         BatchReviewSubmissions(employer, id, chosen)
  PROVE  Flows(a)
<1> DEFINE T == chosen \X {id}
           fee == FeeOn(RewardOf(id))
           sum == Cardinality(chosen) * fee
<1>1. /\ EngineTypes /\ MayReview(employer, id, chosen) /\ PayAll(chosen, id)
      /\ Decide(chosen, id, "Approved") /\ Rewards \subseteq Nat /\ rewardPool = Pool
  BY TypesSplit DEF BatchReviewSubmissions, OneTreasurer
<1>2. /\ \A p \in Pairs : submissions'[p] = IF p \in T THEN "Approved" ELSE submissions[p]
      /\ T \subseteq Pairs /\ UNCHANGED <<quests, verified>>
  <2>1. /\ \A p \in Pairs :
             submissions'[p] = IF p \in chosen \X {id} THEN "Approved" ELSE submissions[p]
        /\ chosen \X {id} \subseteq Pairs
        /\ UNCHANGED <<pool, vault, wiring, enginePaused, board, verified>>
    BY <1>1, DecideEffect
  <2>2. UNCHANGED <<quests, verified>>
    BY <2>1 DEF board
  <2>3. QED
    BY <2>1, <2>2
<1>3. /\ quests[id] # None /\ quests[id].reward_amount \in Nat
      /\ RewardOf(id) \in Nat /\ fee \in Nat
  <2>1. quests[id] # None /\ quests[id].reward_amount \in Nat
    BY <1>1, PendingReward
  <2>2. RewardOf(id) \in Nat
    BY <2>1 DEF RewardOf
  <2>3. QED
    BY <2>1, <2>2, PayoutExact
<1>4. IsFiniteSet(chosen) /\ Cardinality(chosen) \in Nat
  BY EngineAddressAssumption, FS_Subset, FS_CardinalityType
<1>5. \A p \in T : p[2] = id /\ FeeBook[p] = 0
  <2> SUFFICES ASSUME NEW p \in T PROVE p[2] = id /\ FeeBook[p] = 0
    OBVIOUS
  <2>1. p = <<p[1], id>> /\ p[1] \in chosen /\ p[2] = id
    OBVIOUS
  <2>2. submissions[p] = "Pending"
    BY <1>1, <2>1 DEF MayReview
  <2>3. QED
    BY <1>2, <2>1, <2>2 DEF FeeBook
<1>6. \A i : RewardOf(i)' = RewardOf(i)
  BY <1>2 DEF RewardOf
<1>7. UNCHANGED <<ExploreBook, RefundBook>>
  BY <1>2, <1>6 DEF ExploreBook, RefundBook
<1>8. FeeBook \in [Pairs -> Nat] /\ Total(FeeBook) \in Nat /\ Total(ExploreBook) \in Nat
      /\ Total(RefundBook) \in Nat
  BY <1>1, TreasuryTypes
<1>9. Total(FeeBook') = Total(FeeBook) + sum
  <2>1. FeeBook' = [p \in Pairs |-> IF p \in T THEN fee ELSE FeeBook[p]]
    <3>1. FeeBook' = [p \in Pairs |->
            IF submissions'[p] = "Approved" THEN FeeOn(RewardOf(p[2])) ELSE 0]
      BY <1>6 DEF FeeBook, FeeOn
    <3>2. QED
      BY <1>2, <1>5, <3>1 DEF FeeBook
  <2> HIDE DEF T, fee
  <2>2. Total([p \in Pairs |-> IF p \in T THEN fee ELSE FeeBook[p]])
          = Total(FeeBook) + Cardinality(T) * fee
    BY <1>2, <1>3, <1>5, <1>8, KeysFinite, TotalRaised
  <2>3. Cardinality(T) = Cardinality(chosen)
    <3>1. IsFiniteSet({id}) /\ Cardinality({id}) = 1
      BY FS_Singleton
    <3>2. Cardinality(T) = Cardinality(chosen) * Cardinality({id})
      BY <1>4, <3>1, FS_Product DEF T
    <3>3. QED
      BY <1>4, <3>1, <3>2
  <2>4. QED
    BY <2>1, <2>2, <2>3
<1>10. sum \in Nat
  BY <1>3, <1>4, ProductOfNaturals
<1>11. balance'[Pool] = balance[Pool] + sum /\ balance'[a] = balance[a]
  <2>1. PayAll(chosen, id) /\ quests[id] # None /\ quests[id].reward_amount \in Nat
    BY <1>1, <1>3
  <2>2. /\ a \in Address \ ({Engine} \cup Learners) /\ a # rewardPool /\ rewardPool = Pool
        /\ Pool \in Address \ ({Engine} \cup Learners) /\ balance[a] \in Nat
    BY <1>1, TreasurerApart
  <2> HIDE DEF T, fee, sum
  <2>3. balance'[a] = balance[a] + 0
    BY <2>1, <2>2, PaymentsEffect
  <2>4. balance'[Pool] = balance[Pool] + Cardinality(chosen) * FeeOn(RewardOf(id))
    BY <2>1, <2>2, PaymentsEffect
  <2>5. QED
    BY <2>2, <2>3, <2>4 DEF fee, sum
<1> HIDE DEF sum
<1>12. Treasury(a)' = Treasury(a) + sum
  BY <1>10, <1>11, TreasurerApart DEF Treasury
<1>13. TreasuryFlow(a, sum, 0, 0)
  BY <1>7, <1>8, <1>9, <1>10, <1>12, TreasurerApart DEF TreasuryFlow
<1>14. QED
  BY <1>10, <1>13 DEF Flows

(* A refund is booked once; only those of explore quests come in.          *)
LEMMA RefundFlow ==
  ASSUME TypeOK, QuestFacts, NEW a, OneTreasurer(a), NEW employer \in Employers \cup Admins,
         NEW id \in QuestIds, RefundQuest(employer, id)
  PROVE  Flows(a)
<1> DEFINE r == quests[id].reward_amount
<1>1. /\ quests[id] # None /\ quests[id].active /\ r \in Nat
      /\ quests'[id] # None /\ ~quests'[id].active
      /\ quests'[id].reward_amount = r
      /\ quests'[id].quest_type = quests[id].quest_type
      /\ \A i \in QuestIds : i # id => quests'[i] = quests[i]
  BY RefundEffect
<1>2. /\ EngineTypes /\ Rewards \subseteq Nat /\ Admins = {a} /\ quests[id].employer = employer
      /\ UNCHANGED <<submissions, verified>>
      /\ CanTransfer(balance, Engine, r) /\ balance' = Transfer(balance, Engine, employer, r)
  BY TypesSplit DEF RefundQuest, OneTreasurer
<1>3. /\ a \in Address \ ({Engine, Pool, Vault} \cup Learners)
      /\ Pool \in Address \ ({Engine} \cup Learners)
      /\ balance \in [Address -> Nat] /\ balance[Pool] \in Nat /\ balance[a] \in Nat
      /\ Treasury(a) = balance[Pool] + balance[a]
      /\ Engine \in Address /\ employer \in Address /\ employer # Engine /\ employer # Pool
  BY <1>2, TreasurerApart, EngineAddressAssumption DEF OneTreasurer
<1>4. \A i \in QuestIds : RewardOf(i)' = RewardOf(i)
  BY RefundBooks
<1>5. UNCHANGED <<FeeBook, ExploreBook>>
  <2>1. \A p \in Pairs : p[2] \in QuestIds
    BY DEF Pairs
  <2>2. QED
    BY <1>2, <1>4, <2>1 DEF FeeBook, ExploreBook, FeeOn
<1>6. /\ RefundBook \in [QuestIds -> Nat] /\ Total(RefundBook) \in Nat
      /\ Total(FeeBook) \in Nat /\ Total(ExploreBook) \in Nat
  BY <1>2, TreasuryTypes
<1>7. balance'[Pool] = balance[Pool]
  BY <1>2, <1>3, TransferEffect
<1>8. quests[id].quest_type \in {"Build", "Explore"}
  BY <1>1, <1>2, QuestFields
<1>9. CASE quests[id].quest_type = "Build"
  <2>1. employer # a
    BY <1>1, <1>2, <1>9 DEF OneTreasurer
  <2>2. balance'[a] = balance[a]
    BY <1>2, <1>3, <2>1, TransferEffect
  <2>3. RefundBook' = RefundBook
    BY <1>1, <1>4, <1>9 DEF RefundBook
  <2>4. QED
    BY <1>2, <1>3, <1>5, <1>7, <2>2, <2>3, TreasuryStill DEF Treasury
<1>10. CASE quests[id].quest_type = "Explore"
  <2>1. employer = a
    BY <1>1, <1>2, <1>10 DEF OneTreasurer
  <2>2. balance'[a] = balance[a] + r
    BY <1>2, <1>3, <2>1, TransferEffect
  <2>3. RefundBook[id] = 0 /\ RefundBook' = [RefundBook EXCEPT ![id] = r]
    <3>1. RefundBook[id] = 0
      BY <1>1 DEF RefundBook
    <3>2. ASSUME NEW i \in QuestIds PROVE RefundBook'[i] = IF i = id THEN r ELSE RefundBook[i]
      <4>1. CASE i = id
        BY <1>1, <1>10, <4>1 DEF RefundBook, RewardOf
      <4>2. CASE i # id
        BY <1>1, <1>4, <4>2 DEF RefundBook
      <4>3. QED
        BY <4>1, <4>2
    <3>3. RefundBook' = [i \in QuestIds |-> RefundBook'[i]]
      BY DEF RefundBook
    <3>4. QED
      BY <1>6, <3>1, <3>2, <3>3
  <2> HIDE DEF r
  <2>4. Total([RefundBook EXCEPT ![id] = r]) = Total(RefundBook) - RefundBook[id] + r
    <3>1. \A v \in Nat :
            Total([RefundBook EXCEPT ![id] = v]) = Total(RefundBook) - RefundBook[id] + v
      BY <1>6, KeysFinite, TotalUpdate
    <3>2. QED
      BY <1>1, <3>1
  <2>5. Total(RefundBook') = Total(RefundBook) + r
    BY <1>1, <1>6, <2>3, <2>4
  <2>6. Treasury(a)' = Treasury(a) + r
    BY <1>1, <1>3, <1>7, <2>2 DEF Treasury
  <2>7. TreasuryFlow(a, 0, 0, r)
    BY <1>1, <1>3, <1>5, <1>6, <2>5, <2>6 DEF TreasuryFlow
  <2>8. QED
    BY <1>1, <2>7 DEF Flows
<1>11. QED
  BY <1>8, <1>9, <1>10

(* A verification is paid by the pool, in full.                            *)
LEMMA VerificationFlow ==
  ASSUME TypeOK, QuestFacts, NEW a, OneTreasurer(a), NEW admin, NEW l \in Learners,
         NEW id \in QuestIds, VerifyExploreQuest(admin, l, id)
  PROVE  Flows(a)
<1> DEFINE r == quests[id].reward_amount
           p == <<l, id>>
<1>1. /\ quests[id] # None /\ r \in Nat
      /\ verified' = [verified EXCEPT ![p] = verified[p] + 1]
      /\ UNCHANGED <<pool, vault, wiring, enginePaused, board, submissions>>
  BY VerifyEffect
<1>2. /\ EngineTypes /\ Rewards \subseteq Nat /\ UNCHANGED <<quests, submissions>>
      /\ RewardOf(id) = r /\ p \in Pairs /\ p[2] = id
  BY <1>1, TypesSplit DEF OneTreasurer, board, RewardOf, Pairs
<1>3. /\ CanTransfer(balance, Pool, r) /\ balance' = Transfer(balance, Pool, l, r)
  BY SameToken DEF VerifyExploreQuest, RP!DistributeReward, RP!CanDistribute
<1>4. /\ a \in Address \ ({Engine, Pool, Vault} \cup Learners)
      /\ Pool \in Address \ ({Engine} \cup Learners) /\ l \in Address
      /\ balance \in [Address -> Nat] /\ balance[Pool] \in Nat /\ balance[a] \in Nat
      /\ Treasury(a) = balance[Pool] + balance[a]
  BY TreasurerApart, EngineAddressAssumption
<1>5. balance'[Pool] = balance[Pool] - r /\ balance'[a] = balance[a] /\ r <= balance[Pool]
  BY <1>3, <1>4, TransferEffect
<1>6. \A i : RewardOf(i)' = RewardOf(i)
  BY <1>2 DEF RewardOf
<1>7. UNCHANGED <<FeeBook, RefundBook>>
  BY <1>2, <1>6 DEF FeeBook, RefundBook, FeeOn
<1>8. /\ ExploreBook \in [Pairs -> Nat] /\ Total(RefundBook) \in Nat
      /\ Total(FeeBook) \in Nat /\ Total(ExploreBook) \in Nat
  BY <1>2, TreasuryTypes
<1> DEFINE w == ExploreBook[p] + r
<1>9. ExploreBook' = [ExploreBook EXCEPT ![p] = w]
  <2>1. verified \in [Pairs -> Nat]
    BY <1>2 DEF EngineTypes
  <2>2. ASSUME NEW q \in Pairs
        PROVE  verified'[q] * RewardOf(q[2]) = IF q = p THEN w ELSE ExploreBook[q]
    <3>1. CASE q = p
      <4> DEFINE times == verified[p]
      <4>1. times \in Nat /\ verified'[p] = times + 1
        BY <1>1, <1>2, <2>1
      <4>2. ExploreBook[p] = times * r
        BY <1>2 DEF ExploreBook
      <4> HIDE DEF times, r
      <4>3. (times + 1) * r = times * r + r
        BY <1>1, <4>1
      <4>4. QED
        BY <1>2, <3>1, <4>1, <4>2, <4>3
    <3>2. CASE q # p
      BY <1>1, <2>1, <3>2 DEF ExploreBook
    <3>3. QED
      BY <3>1, <3>2
  <2>3. ExploreBook' = [q \in Pairs |-> verified'[q] * RewardOf(q[2])]
    BY <1>6 DEF ExploreBook
  <2>4. QED
    BY <1>8, <2>2, <2>3
<1>10. ExploreBook[p] \in Nat /\ w \in Nat
  BY <1>1, <1>2, <1>8
<1> HIDE DEF w, p, r
<1>11. Total([ExploreBook EXCEPT ![p] = w]) = Total(ExploreBook) - ExploreBook[p] + w
  BY <1>2, <1>8, <1>10, KeysFinite, TotalUpdate
<1>12. Total(ExploreBook') = Total(ExploreBook) + r
  BY <1>1, <1>8, <1>9, <1>10, <1>11 DEF w
<1>13. Treasury(a)' = Treasury(a) - r
  BY <1>1, <1>4, <1>5 DEF Treasury
<1>14. TreasuryFlow(a, 0, r, 0)
  BY <1>1, <1>4, <1>7, <1>8, <1>12, <1>13 DEF TreasuryFlow
<1>15. QED
  BY <1>1, <1>14 DEF Flows

(* Donations and sweeps stay between the pool and its administrator.       *)
LEMMA PoolFlow ==
  ASSUME TypeOK, QuestFacts, NEW a, OneTreasurer(a), PoolStep
  PROVE  Flows(a)
<1>1. /\ a \in Address \ ({Engine, Pool, Vault} \cup Learners)
      /\ Pool \in Address \ ({Engine} \cup Learners)
      /\ balance \in [Address -> Nat] /\ balance[Pool] \in Nat /\ balance[a] \in Nat
      /\ Treasury(a) = balance[Pool] + balance[a]
  BY TreasurerApart
<1>2. /\ Rewards \subseteq Nat /\ ServiceAdmins = {a}
      /\ UNCHANGED <<quests, submissions, verified>>
  BY DEF OneTreasurer, PoolStep, board
<1>3. ASSUME NEW from \in {a, Pool}, NEW to \in {a, Pool}, from # to, NEW amount,
             CanTransfer(balance, from, amount), balance' = Transfer(balance, from, to, amount)
      PROVE  Treasury(a)' = Treasury(a)
  <2>1. /\ amount \in Nat
        /\ balance'[from] = balance[from] - amount /\ balance'[to] = balance[to] + amount
    BY <1>1, <1>3, TransferEffect
  <2>2. {from, to} = {a, Pool}
    BY <1>3
  <2>3. QED
    BY <1>1, <1>3, <2>1, <2>2 DEF Treasury
<1>4. ASSUME UNCHANGED balance PROVE Treasury(a)' = Treasury(a)
  BY <1>4 DEF Treasury
<1>5. ASSUME NEW admin \in ServiceAdmins, NEW wallet \in ServiceAdmins,
             RP!EmergencySweep(admin, wallet)
      PROVE  Treasury(a)' = Treasury(a)
  <2>1. /\ wallet = a /\ CanTransfer(balance, Pool, balance[Pool])
        /\ balance' = Transfer(balance, Pool, wallet, balance[Pool])
    BY <1>1, <1>2, <1>5, SameToken DEF RP!EmergencySweep, CanTransfer
  <2>2. QED
    BY <1>1, <1>3, <2>1
<1>6. ASSUME NEW donor \in ServiceAdmins, NEW amount, RP!FundPool(donor, amount)
      PROVE  Treasury(a)' = Treasury(a)
  <2>1. /\ donor = a /\ CanTransfer(balance, donor, amount)
        /\ balance' = Transfer(balance, donor, Pool, amount)
    BY <1>2, <1>6, SameToken DEF RP!FundPool
  <2>2. QED
    BY <1>1, <1>3, <2>1
<1>7. Treasury(a)' = Treasury(a)
  <2>1. CASE RP!AdminStep
    <3>1. \/ UNCHANGED balance
          \/ \E admin, wallet \in ServiceAdmins : RP!EmergencySweep(admin, wallet)
      BY <2>1 DEF RP!AdminStep, RP!Initialize, RP!AddApprovedSpender, RP!SetPause
    <3>2. QED
      BY <1>4, <1>5, <3>1
  <2>2. CASE \E donor \in ServiceAdmins, amount \in Donations : RP!FundPool(donor, amount)
    BY <1>6, <2>2
  <2>3. QED
    BY <2>1, <2>2 DEF PoolStep
<1>8. QED
  BY <1>1, <1>2, <1>7, BooksStill, TreasuryStill

(* Stakes pass between learners and the vault.                             *)
LEMMA VaultFlow ==
  ASSUME TypeOK, QuestFacts, NEW a, OneTreasurer(a), VaultStep
  PROVE  Flows(a)
<1>1. /\ a \in Address \ ({Engine, Pool, Vault} \cup Learners)
      /\ Pool \in Address \ ({Engine} \cup Learners)
      /\ balance \in [Address -> Nat] /\ balance[Pool] \in Nat /\ balance[a] \in Nat
      /\ Treasury(a) = balance[Pool] + balance[a]
      /\ Vault \in Address /\ Vault # Pool /\ Learners \subseteq Address
  BY TreasurerApart, EngineAddressAssumption, EngineApart
<1>2. /\ Rewards \subseteq Nat /\ UNCHANGED <<quests, submissions, verified>>
  BY DEF OneTreasurer, VaultStep, board
<1>3. \/ UNCHANGED balance
      \/ \E user \in Learners : \E amount :
           \/ /\ CanTransfer(balance, user, amount)
              /\ balance' = Transfer(balance, user, Vault, amount)
           \/ /\ CanTransfer(balance, Vault, amount)
              /\ balance' = Transfer(balance, Vault, user, amount)
  BY SameToken DEF VaultStep, SV!Next, SV!InitializeVault, SV!Stake, SV!Unstake, SV!Tick
<1>4. balance'[Pool] = balance[Pool] /\ balance'[a] = balance[a]
  <2>1. ASSUME NEW user \in Learners, NEW amount,
               \/ /\ CanTransfer(balance, user, amount)
                  /\ balance' = Transfer(balance, user, Vault, amount)
               \/ /\ CanTransfer(balance, Vault, amount)
                  /\ balance' = Transfer(balance, Vault, user, amount)
        PROVE  balance'[Pool] = balance[Pool] /\ balance'[a] = balance[a]
    BY <1>1, <2>1, TransferEffect
  <2>2. QED
    BY <1>3, <2>1
<1>5. QED
  BY <1>1, <1>2, <1>4, BooksStill, TreasuryStill DEF Treasury

(* Whatever the engine does, the treasury moves as its books do.           *)
LEMMA TreasuryStep ==
  ASSUME TypeOK, QuestFacts, NEW a, OneTreasurer(a), [Next]_vars
  PROVE  Flows(a)
<1>1. /\ a \in Address \ ({Engine, Pool, Vault} \cup Learners)
      /\ Pool \in Address \ ({Engine} \cup Learners)
      /\ balance \in [Address -> Nat] /\ balance[Pool] \in Nat /\ balance[a] \in Nat
      /\ Treasury(a) = balance[Pool] + balance[a]
  BY TreasurerApart
<1>2. /\ EngineTypes /\ Rewards \subseteq Nat /\ Admins = {a}
      /\ a \notin Employers /\ Pool \notin Employers
  BY TypesSplit DEF OneTreasurer
<1>3. ASSUME balance'[Pool] = balance[Pool] /\ balance'[a] = balance[a],
             UNCHANGED <<FeeBook, ExploreBook, RefundBook>>
      PROVE  Flows(a)
  BY <1>1, <1>2, <1>3, TreasuryStill DEF Treasury
<1>4. CASE WiringCall
  BY <1>3, <1>4, BooksStill DEF WiringCall
<1>5. ASSUME NEW employer \in Employers, NEW reward \in Rewards,
             CreateBuildQuest(employer, reward)
      PROVE  Flows(a)
  <2>1. /\ NewQuest(employer, reward, "Build") /\ CanTransfer(balance, employer, reward)
        /\ balance' = Transfer(balance, employer, Engine, reward)
    BY <1>5 DEF CreateBuildQuest
  <2>2. Engine \in Address /\ employer \in Address /\ employer \notin {a, Pool}
    BY <1>2, EngineAddressAssumption
  <2>3. balance'[Pool] = balance[Pool] /\ balance'[a] = balance[a]
    BY <1>1, <2>1, <2>2, TransferEffect
  <2>4. UNCHANGED <<FeeBook, ExploreBook, RefundBook>>
    BY <1>2, <2>1, NewQuestStill
  <2>5. QED
    BY <1>3, <2>3, <2>4
<1>6. ASSUME NEW admin \in Admins, NEW reward \in Rewards, CreateExploreQuest(admin, reward)
      PROVE  Flows(a)
  <2>1. NewQuest(admin, reward, "Explore") /\ balance' = balance
    BY <1>6, CreateExploreEffect
  <2>2. UNCHANGED <<FeeBook, ExploreBook, RefundBook>>
    BY <1>2, <2>1, NewQuestStill
  <2>3. QED
    BY <1>3, <2>1, <2>2
<1>7. ASSUME UNCHANGED <<balance, quests, verified>>,
             \A p \in Pairs : submissions'[p] = "Approved" <=> submissions[p] = "Approved"
      PROVE  Flows(a)
  <2>1. UNCHANGED <<FeeBook, ExploreBook, RefundBook>>
    BY <1>7 DEF FeeBook, ExploreBook, RefundBook, RewardOf, FeeOn
  <2>2. QED
    BY <1>3, <1>7, <2>1
<1>8. ASSUME NEW l \in Learners, NEW id \in QuestIds, SubmitProof(l, id)
      PROVE  Flows(a)
  <2>1. /\ submissions[<<l, id>>] = None
        /\ submissions' = [submissions EXCEPT ![<<l, id>>] = "Pending"]
        /\ UNCHANGED <<balance, quests, verified>>
    BY <1>8 DEF SubmitProof, board
  <2>2. \A p \in Pairs : submissions'[p] = "Approved" <=> submissions[p] = "Approved"
    BY <1>2, <2>1, EngineNoneAssumption DEF EngineTypes
  <2>3. QED
    BY <1>7, <2>1, <2>2
<1>9. ASSUME NEW employer, NEW l \in Learners, NEW id \in QuestIds, Rejection(employer, l, id)
      PROVE  Flows(a)
  <2>1. /\ submissions[<<l, id>>] = "Pending" /\ Decide({l}, id, "Rejected")
        /\ UNCHANGED balance
    BY <1>9 DEF Rejection, MayReview
  <2>2. /\ \A p \in Pairs :
             submissions'[p] = IF p \in {l} \X {id} THEN "Rejected" ELSE submissions[p]
        /\ UNCHANGED <<pool, vault, wiring, enginePaused, board, verified>>
    BY <1>2, <2>1, DecideEffect
  <2>3. \A p \in {l} \X {id} : p = <<l, id>>
    OBVIOUS
  <2>4. QED
    BY <1>7, <2>1, <2>2, <2>3 DEF board
<1>10. QED
  BY <1>4, <1>5, <1>6, <1>8, <1>9, EngineCalls, ApprovalFlow, RefundFlow, VerificationFlow,
     PoolFlow, VaultFlow

-----------------------------------------------------------------------------
(* The escrow under the discipline of the quests' owners.                  *)
LEMMA ClaimTypes ==
  ASSUME EngineTypes, QuestFacts
  PROVE  Claims \in [QuestIds -> Nat] /\ Total(Claims) \in Nat
<1>1. ASSUME NEW id \in QuestIds, Unsettled(id) PROVE quests[id].reward_amount \in Nat
  BY <1>1, QuestFields DEF QuestFacts, Unsettled
<1>2. Claims \in [QuestIds -> Nat]
  BY <1>1 DEF Claims
<1>3. QED
  BY <1>2, KeysFinite, UnitsFinite

(* Where neither the quest nor what is approved changes, nor does a claim. *)
LEMMA ClaimKept ==
  ASSUME NEW id \in QuestIds, quests'[id] = quests[id],
         \A l \in Learners : submissions'[<<l, id>>] = "Approved" <=> submissions[<<l, id>>] = "Approved"
  PROVE  (Unsettled(id)' <=> Unsettled(id)) /\ Claims'[id] = Claims[id]
<1>1. Unsettled(id)' <=> Unsettled(id)
  BY DEF Unsettled
<1>2. QED
  BY <1>1 DEF Claims

(* One claim set to a value, the others kept.                              *)
LEMMA ClaimSet ==
  ASSUME EngineTypes, QuestFacts, NEW id \in QuestIds, NEW v \in Nat, Claims'[id] = v,
         \A i \in QuestIds : i # id => Claims'[i] = Claims[i]
  PROVE  Total(Claims') = Total(Claims) - Claims[id] + v /\ Claims[id] \in Nat
<1>1. Claims \in [QuestIds -> Nat]
  BY ClaimTypes
<1>2. Claims' = [i \in QuestIds |-> Claims'[i]]
  BY DEF Claims
<1>3. Claims' = [Claims EXCEPT ![id] = v]
  BY <1>1, <1>2
<1>4. Total([Claims EXCEPT ![id] = v]) = Total(Claims) - Claims[id] + v
  BY <1>1, KeysFinite, TotalUpdate
<1>5. QED
  BY <1>1, <1>3, <1>4

LEMMA ClaimsStill ==
  ASSUME \A id \in QuestIds : Claims'[id] = Claims[id]
  PROVE  Claims' = Claims
BY DEF Claims

(* A new quest opens a claim on what was paid in for it.                   *)
LEMMA NewQuestClaim ==
  ASSUME EngineTypes, QuestFacts, NEW employer \in Employers \cup Admins,
         NEW reward \in Rewards, NEW type \in {"Build", "Explore"},
         NewQuest(employer, reward, type), type = "Build" => reward \in Nat
  PROVE  Total(Claims') = Total(Claims) + IF type = "Build" THEN reward ELSE 0
<1> DEFINE v == IF type = "Build" THEN reward ELSE 0
<1>1. PICK n \in QuestIds :
      /\ quests[n] = None
      /\ \A p \in Pairs : p[2] = n => submissions[p] = None /\ verified[p] = 0
      /\ quests'[n] = [employer |-> employer, reward_amount |-> reward,
                       quest_type |-> type, active |-> TRUE]
      /\ quests'[n] # None
      /\ \A id \in QuestIds : id # n => quests'[id] = quests[id]
      /\ UNCHANGED submissions
  BY NewQuestEffect DEF NewQuest
<1>2. ~Unsettled(n) /\ Claims[n] = 0
  BY <1>1 DEF Claims, Unsettled
<1>3. \A l \in Learners : submissions'[<<l, n>>] # "Approved"
  <2>1. \A l \in Learners : <<l, n>> \in Pairs /\ <<l, n>>[2] = n
    BY DEF Pairs
  <2>2. \A l \in Learners : submissions[<<l, n>>] = None
    BY <1>1, <2>1
  <2>3. QED
    BY <1>1, <2>2, EngineNoneAssumption
<1>4. Claims'[n] = v
  BY <1>1, <1>3 DEF Claims, Unsettled
<1>5. \A id \in QuestIds : id # n => Claims'[id] = Claims[id]
  BY <1>1, ClaimKept
<1>6. v \in Nat
  OBVIOUS
<1> HIDE DEF v
<1>7. Total(Claims') = Total(Claims) - Claims[n] + v
  BY <1>4, <1>5, <1>6, ClaimSet
<1>8. Total(Claims) \in Nat
  BY ClaimTypes
<1>9. Total(Claims') = Total(Claims) + v
  BY <1>2, <1>6, <1>7, <1>8
<1>10. QED
  BY <1>9 DEF v

(* Under the discipline an approval settles the one claim it pays.         *)
LEMMA ApprovalSettles ==
  ASSUME EngineTypes, QuestFacts, PaysOneLearner, NEW employer, NEW id \in QuestIds,
         NEW chosen \in SUBSET Learners, chosen # {}, MayReview(employer, id, chosen),
         Decide(chosen, id, "Approved")
  PROVE  /\ Cardinality(chosen) = 1 /\ RewardOf(id) \in Nat
         /\ Total(Claims') = Total(Claims) - RewardOf(id)
<1>1. /\ \A p \in Pairs : submissions'[p] = IF p \in chosen \X {id} THEN "Approved"
                                           ELSE submissions[p]
      /\ UNCHANGED quests
  <2>1. /\ \A p \in Pairs :
             submissions'[p] = IF p \in chosen \X {id} THEN "Approved" ELSE submissions[p]
        /\ UNCHANGED <<pool, vault, wiring, enginePaused, board, verified>>
    BY DecideEffect
  <2>2. QED
    BY <2>1 DEF board
<1>2. PICK l \in chosen : TRUE
  OBVIOUS
<1>3. ASSUME NEW m \in chosen
      PROVE  /\ submissions[<<m, id>>] = "Pending" /\ submissions'[<<m, id>>] = "Approved"
  <2>1. <<m, id>> \in Pairs /\ <<m, id>> \in chosen \X {id}
    BY DEF Pairs
  <2>2. QED
    BY <1>1, <2>1 DEF MayReview
<1>4. /\ Unsettled(id)
      /\ \A other \in Learners \ {l} : submissions'[<<other, id>>] # "Approved"
  BY <1>3 DEF PaysOneLearner
<1>5. chosen = {l}
  BY <1>3, <1>4
<1>6. Cardinality(chosen) = 1
  BY <1>5, FS_Singleton
<1>7. /\ Claims[id] = RewardOf(id) /\ quests[id] # None
  BY <1>4 DEF Claims, RewardOf, Unsettled
<1>8. RewardOf(id) \in Nat
  BY <1>7, ClaimTypes
<1>9. Claims'[id] = 0
  <2>1. ~Unsettled(id)'
    BY <1>3 DEF Unsettled
  <2>2. QED
    BY <2>1 DEF Claims
<1>10. ASSUME NEW i \in QuestIds, i # id PROVE Claims'[i] = Claims[i]
  <2>1. ASSUME NEW m \in Learners PROVE submissions'[<<m, i>>] = submissions[<<m, i>>]
    <3>1. <<m, i>> \in Pairs /\ <<m, i>> \notin chosen \X {id}
      BY <1>10 DEF Pairs
    <3>2. QED
      BY <1>1, <3>1
  <2>2. QED
    BY <1>1, <2>1, ClaimKept
<1>11. Total(Claims') = Total(Claims) - Claims[id] + 0
  BY <1>9, <1>10, ClaimSet
<1>12. Total(Claims) \in Nat
  BY ClaimTypes
<1>13. QED
  BY <1>6, <1>7, <1>8, <1>11, <1>12

(* Under the discipline a refund gives up an open claim.                   *)
LEMMA RefundSettles ==
  ASSUME TypeOK, QuestFacts, RefundsUnsettled, NEW employer \in Employers \cup Admins,
         NEW id \in QuestIds, RefundQuest(employer, id)
  PROVE  Total(Claims') = Total(Claims) - quests[id].reward_amount
<1>1. EngineTypes
  BY DEF TypeOK, EngineTypes
<1>2. /\ quests[id] # None /\ quests[id].active /\ ~quests'[id].active
      /\ quests[id].reward_amount \in Nat
      /\ \A i \in QuestIds : i # id => quests'[i] = quests[i]
  BY RefundEffect
<1>3. UNCHANGED submissions
  BY DEF RefundQuest
<1>4. quests'[id] # quests[id]
  BY <1>2
<1>5. Unsettled(id) /\ Claims[id] = quests[id].reward_amount
  BY <1>2, <1>4 DEF RefundsUnsettled, Claims
<1>6. Claims'[id] = 0
  BY <1>2 DEF Claims, Unsettled
<1>7. \A i \in QuestIds : i # id => Claims'[i] = Claims[i]
  BY <1>2, <1>3, ClaimKept
<1>8. Total(Claims') = Total(Claims) - Claims[id] + 0 /\ Total(Claims) \in Nat
  BY <1>1, <1>6, <1>7, ClaimSet, ClaimTypes
<1>9. QED
  BY <1>2, <1>5, <1>8

(* Every transaction of the discipline moves the engine's tokens by what   *)
(* it does to the claims.                                                  *)
LEMMA ClaimsStep ==
  ASSUME TypeOK, QuestFacts, ClaimsCovered, [Next /\ PaysOneLearner /\ RefundsUnsettled]_vars
  PROVE  ClaimsCovered'
<1>1. /\ EngineTypes /\ balance[Engine] \in Nat /\ Endowment[Engine] \in Nat
      /\ Engine \in Address \ ({Pool} \cup ServiceAdmins)
  BY EngineAddressAssumption, EngineApart DEF TypeOK, EngineTypes, RP!TypeOK
<1>2. Total(Claims) \in Nat /\ balance[Engine] = Endowment[Engine] + Total(Claims)
  BY <1>1, ClaimTypes DEF ClaimsCovered
<1>3. ASSUME \A id \in QuestIds : Claims'[id] = Claims[id], balance'[Engine] = balance[Engine]
      PROVE  ClaimsCovered'
  BY <1>2, <1>3, ClaimsStill DEF ClaimsCovered
<1>4. ASSUME UNCHANGED <<quests, submissions>>, balance'[Engine] = balance[Engine]
      PROVE  ClaimsCovered'
  BY <1>3, <1>4, ClaimKept
<1>5. ASSUME NEW employer \in Employers, NEW reward \in Rewards,
             CreateBuildQuest(employer, reward)
      PROVE  ClaimsCovered'
  <2>1. /\ reward \in Nat /\ NewQuest(employer, reward, "Build")
        /\ balance'[Engine] = balance[Engine] + reward
    BY <1>5, CreateBuildEffect
  <2>2. Total(Claims') = Total(Claims) + reward
    BY <1>1, <2>1, NewQuestClaim
  <2>3. QED
    BY <1>1, <1>2, <2>1, <2>2 DEF ClaimsCovered
<1>6. ASSUME NEW admin \in Admins, NEW reward \in Rewards, CreateExploreQuest(admin, reward)
      PROVE  ClaimsCovered'
  <2>1. NewQuest(admin, reward, "Explore") /\ balance' = balance
    BY <1>6, CreateExploreEffect
  <2>2. Total(Claims') = Total(Claims) + 0
    BY <1>1, <2>1, NewQuestClaim
  <2>3. QED
    BY <1>2, <2>1, <2>2 DEF ClaimsCovered
<1>7. ASSUME NEW l \in Learners, NEW id \in QuestIds, SubmitProof(l, id)
      PROVE  ClaimsCovered'
  <2>1. /\ submissions[<<l, id>>] = None
        /\ submissions' = [submissions EXCEPT ![<<l, id>>] = "Pending"]
        /\ UNCHANGED <<balance, quests>>
    BY <1>7 DEF SubmitProof, board
  <2>2. \A p \in Pairs : submissions'[p] = "Approved" <=> submissions[p] = "Approved"
    BY <1>1, <2>1, EngineNoneAssumption DEF EngineTypes
  <2>3. \A m \in Learners, i \in QuestIds : <<m, i>> \in Pairs
    BY DEF Pairs
  <2>4. \A i \in QuestIds : Claims'[i] = Claims[i]
    BY <2>1, <2>2, <2>3, ClaimKept
  <2>5. QED
    BY <1>3, <2>1, <2>4
<1>8. ASSUME NEW employer, NEW id \in QuestIds, NEW chosen \in SUBSET Learners, PaysOneLearner,
             chosen # {}, BatchReviewSubmissions(employer, id, chosen)
      PROVE  ClaimsCovered'
  <2>1. /\ MayReview(employer, id, chosen) /\ PayAll(chosen, id)
        /\ Decide(chosen, id, "Approved")
    BY <1>8 DEF BatchReviewSubmissions
  <2>2. /\ Cardinality(chosen) = 1 /\ RewardOf(id) \in Nat
        /\ Total(Claims') = Total(Claims) - RewardOf(id)
    BY <1>1, <1>8, <2>1, ApprovalSettles
  <2>3. quests[id] # None /\ quests[id].reward_amount \in Nat
    BY <1>1, <1>8, <2>1, PendingReward
  <2>4. balance'[Engine] = balance[Engine] - Cardinality(chosen) * RewardOf(id)
    BY <2>1, <2>3, PaymentsEffect
  <2>5. balance'[Engine] = balance[Engine] - RewardOf(id)
    BY <2>2, <2>4
  <2>6. QED
    BY <1>1, <1>2, <2>2, <2>5 DEF ClaimsCovered
<1>9. ASSUME NEW employer, NEW l \in Learners, NEW id \in QuestIds, Rejection(employer, l, id)
      PROVE  ClaimsCovered'
  <2>1. {l} \in SUBSET Learners /\ MayReview(employer, id, {l}) /\ Decide({l}, id, "Rejected")
    BY <1>9 DEF Rejection
  <2>2. /\ \A p \in Pairs :
             submissions'[p] = IF p \in {l} \X {id} THEN "Rejected" ELSE submissions[p]
        /\ UNCHANGED <<pool, vault, wiring, enginePaused, board, verified>>
    BY <1>1, <2>1, DecideEffect
  <2>3. submissions[<<l, id>>] = "Pending"
    BY <2>1 DEF MayReview
  <2>4. \A p \in Pairs : submissions'[p] = "Approved" <=> submissions[p] = "Approved"
    <3>1. ASSUME NEW p \in {l} \X {id} PROVE submissions[p] = "Pending"
      BY <2>3
    <3>2. QED
      BY <2>2, <3>1
  <2>5. \A m \in Learners, i \in QuestIds : <<m, i>> \in Pairs
    BY DEF Pairs
  <2>6. \A i \in QuestIds : Claims'[i] = Claims[i]
    BY <2>2, <2>4, <2>5, ClaimKept DEF board
  <2>7. QED
    BY <1>3, <1>9, <2>6 DEF Rejection
<1>10. ASSUME NEW employer \in Employers \cup Admins, NEW id \in QuestIds, RefundsUnsettled,
              RefundQuest(employer, id)
       PROVE  ClaimsCovered'
  <2>1. /\ quests[id].reward_amount \in Nat
        /\ balance'[Engine] = balance[Engine] - quests[id].reward_amount
    BY <1>10, RefundEffect
  <2>2. Total(Claims') = Total(Claims) - quests[id].reward_amount
    BY <1>10, RefundSettles
  <2>3. QED
    BY <1>1, <1>2, <2>1, <2>2 DEF ClaimsCovered
<1>11. ASSUME NEW admin, NEW l \in Learners, NEW id \in QuestIds,
              VerifyExploreQuest(admin, l, id)
       PROVE  ClaimsCovered'
  BY <1>4, <1>11, VerifyEffect DEF board
<1>12. CASE WiringCall
  BY <1>4, <1>12 DEF WiringCall
<1>13. CASE PoolStep
  BY <1>1, <1>4, <1>13, PoolEffect DEF PoolStep, board
<1>14. CASE VaultStep
  BY <1>4, <1>14, VaultEffect DEF VaultStep, board
<1>15. CASE UNCHANGED vars
  BY <1>4, <1>15 DEF vars, board
<1>16. CASE Next /\ PaysOneLearner /\ RefundsUnsettled
  BY <1>5, <1>6, <1>7, <1>8, <1>9, <1>10, <1>11, <1>12, <1>13, <1>14, <1>16, EngineCalls
<1>17. QED
  BY <1>15, <1>16

(* If owners pay each quest to one learner and refund only what is unpaid, *)
(* the engine always holds exactly the rewards of the unsettled quests.    *)
THEOREM DisciplinedEscrow == DisciplinedSpec => []ClaimsCovered
<1>1. Init => ClaimsCovered
  <2> SUFFICES ASSUME Init PROVE ClaimsCovered
    OBVIOUS
  <2>1. (\A id \in QuestIds : quests[id] = None) /\ balance = Endowment
    BY DEF Init, RP!Init
  <2>2. Total(Claims) = 0
    BY <2>1, EmptyTotal DEF Claims, Unsettled
  <2>3. Endowment[Engine] \in Nat
    BY EngineAddressAssumption
  <2>4. QED
    BY <2>1, <2>2, <2>3 DEF ClaimsCovered
<1>2. TypeOK /\ QuestFacts /\ [Next /\ PaysOneLearner /\ RefundsUnsettled]_vars => TypeOK' /\ QuestFacts'
  BY FactsStep
<1>3. TypeOK /\ QuestFacts /\ ClaimsCovered /\ [Next /\ PaysOneLearner /\ RefundsUnsettled]_vars
        => ClaimsCovered'
  BY ClaimsStep
<1>4. QED
  BY <1>1, <1>2, <1>3, FactsInit, PTL DEF DisciplinedSpec

(* So that no approval and no refund the discipline allows is refused for  *)
(* want of tokens: every unsettled quest's reward is there to be paid.     *)
THEOREM ClaimsPayable ==
  DisciplinedSpec =>
    [](\A id \in QuestIds : Unsettled(id) => CanTransfer(balance, Engine, RewardOf(id)))
<1> DEFINE Payable == \A id \in QuestIds : Unsettled(id) => CanTransfer(balance, Engine, RewardOf(id))
<1>1. ASSUME TypeOK, QuestFacts, ClaimsCovered PROVE Payable
  <2> SUFFICES ASSUME NEW id \in QuestIds, Unsettled(id)
               PROVE  CanTransfer(balance, Engine, RewardOf(id))
    OBVIOUS
  <2>1. EngineTypes /\ Endowment[Engine] \in Nat
    BY <1>1, EngineAddressAssumption DEF TypeOK, EngineTypes
  <2>2. Claims \in [QuestIds -> Nat] /\ Total(Claims) \in Nat
    BY <1>1, <2>1, ClaimTypes
  <2>3. Claims[id] = RewardOf(id) /\ RewardOf(id) \in Nat
    BY <2>2 DEF Claims, RewardOf, Unsettled
  <2>4. [Claims EXCEPT ![id] = 0] \in [QuestIds -> Nat]
    BY <2>2
  <2>5. Total([Claims EXCEPT ![id] = 0]) \in Nat
    BY <2>4, KeysFinite, UnitsFinite
  <2>6. Total([Claims EXCEPT ![id] = 0]) = Total(Claims) - Claims[id] + 0
    <3>1. \A v \in Nat : Total([Claims EXCEPT ![id] = v]) = Total(Claims) - Claims[id] + v
      BY <2>2, KeysFinite, TotalUpdate
    <3>2. QED
      BY <3>1
  <2>7. RewardOf(id) <= balance[Engine] /\ balance[Engine] \in Nat
    BY <1>1, <2>1, <2>2, <2>3, <2>5, <2>6 DEF ClaimsCovered
  <2>8. QED
    BY <2>3, <2>7 DEF CanTransfer
<1> HIDE DEF Payable
<1>2. TypeOK /\ QuestFacts /\ [Next /\ PaysOneLearner /\ RefundsUnsettled]_vars => TypeOK' /\ QuestFacts'
  BY FactsStep
<1>3. DisciplinedSpec => []Payable
  BY <1>1, <1>2, DisciplinedEscrow, FactsInit, PTL DEF DisciplinedSpec
<1>4. QED
  BY <1>3 DEF Payable

(* A call that keeps the discipline leaves covered claims covered, even    *)
(* where earlier calls did not keep it.                                    *)
THEOREM DisciplineCoversClaims == Spec => DisciplineCovers
<1> DEFINE A == ClaimsCovered /\ PaysOneLearner /\ RefundsUnsettled => ClaimsCovered'
<1>1. Spec => [](TypeOK /\ QuestFacts)
  BY FactsInit, FactsStep, PTL DEF Spec
<1>2. TypeOK /\ QuestFacts /\ [Next]_vars => [A]_vars
  BY ClaimsStep
<1>3. Spec => [][A]_vars
  BY <1>1, <1>2, PTL DEF Spec
<1>4. QED
  BY <1>3 DEF DisciplineCovers

-----------------------------------------------------------------------------
(* The vault on the engine's ledger.  Neither an approval, nor a refund,   *)
(* nor a call to the pool moves its tokens, as long as it takes part in    *)
(* none of them itself; a stake moves as much as it books.                 *)
Staked == [l \in Learners |-> SV!StakeOf(l)]

LEMMA StakedTypes ==
  ASSUME TypeOK
  PROVE  Staked \in [Learners -> Nat] /\ Total(Staked) \in Nat /\ IsFiniteSet(Learners)
<1>1. IsFiniteSet(Learners)
  BY FS_Subset, EngineAddressAssumption
<1>2. Staked \in [Learners -> Nat]
  BY EngineNoneAssumption DEF Staked, TypeOK, SV!TypeOK, SV!StakeOf, SV!StakeInfo
<1>3. QED
  BY <1>1, <1>2, UnitsFinite

(* One stake changed changes their sum by as much.                         *)
LEMMA StakedSet ==
  ASSUME TypeOK, NEW user \in Learners, NEW v \in Nat,
         \A l \in Learners : SV!StakeOf(l)' = IF l = user THEN v ELSE SV!StakeOf(l)
  PROVE  Total(Staked') = Total(Staked) - SV!StakeOf(user) + v
<1>1. Staked \in [Learners -> Nat] /\ IsFiniteSet(Learners)
  BY StakedTypes
<1>2. Staked' = [Staked EXCEPT ![user] = v] /\ Staked[user] = SV!StakeOf(user)
  BY DEF Staked
<1>3. Total([Staked EXCEPT ![user] = v]) = Total(Staked) - Staked[user] + v
  BY <1>1, TotalUpdate
<1>4. QED
  BY <1>2, <1>3

LEMMA VaultMoves ==
  ASSUME TypeOK, VaultStep
  PROVE  balance'[Vault] + Total(Staked) = balance[Vault] + Total(Staked')
<1>1. /\ balance \in [Address -> Nat] /\ Vault \in Address /\ balance[Vault] \in Nat
      /\ Learners \subseteq Address \ {Vault}
      /\ stakes \in [Learners -> SV!StakeInfo \cup {None}] /\ None \notin SV!StakeInfo
      /\ now \in 0..MaxTime
  BY EngineAddressAssumption, EngineNoneAssumption DEF TypeOK, SV!TypeOK
<1>2. Total(Staked) \in Nat /\ \A l \in Learners : SV!StakeOf(l) \in Nat
  BY StakedTypes DEF Staked
<1>3. ASSUME NEW user \in Learners, NEW amount \in StakeAmounts, SV!Stake(user, amount)
      PROVE  balance'[Vault] + Total(Staked) = balance[Vault] + Total(Staked')
  <2> DEFINE info == SV!Deposited(user, amount)
             sum == SV!StakeOf(user) + amount
  <2>1. /\ CanTransfer(balance, user, amount)
        /\ balance' = Transfer(balance, user, Vault, amount)
        /\ stakes' = [stakes EXCEPT ![user] = info]
        /\ amount > 0
    BY <1>3, SameToken DEF SV!Stake
  <2>2. amount \in Nat /\ balance'[Vault] = balance[Vault] + amount
    BY <1>1, <2>1, TransferEffect
  <2>3. sum \in Nat /\ info \in SV!StakeInfo /\ info.amount = sum
    BY <1>1, <1>2, <2>1, <2>2 DEF SV!Deposited, SV!StakeInfo
  <2> HIDE DEF info
  <2>4. \A l \in Learners : SV!StakeOf(l)' = IF l = user THEN sum ELSE SV!StakeOf(l)
    BY <1>1, <2>1, <2>3 DEF SV!StakeOf
  <2>5. Total(Staked') = Total(Staked) - SV!StakeOf(user) + sum
    <3> HIDE DEF sum
    <3>1. QED
      BY <2>3, <2>4, StakedSet
  <2>6. QED
    BY <1>1, <1>2, <2>2, <2>5
<1>4. ASSUME NEW user \in Learners, SV!Unstake(user)
      PROVE  balance'[Vault] + Total(Staked) = balance[Vault] + Total(Staked')
  <2> DEFINE amount == stakes[user].amount
  <2>1. /\ CanTransfer(balance, Vault, amount) /\ stakes[user] # None
        /\ balance' = Transfer(balance, Vault, user, amount)
        /\ stakes' = [stakes EXCEPT ![user] = None]
    BY <1>4, SameToken DEF SV!Unstake
  <2>2. SV!StakeOf(user) = amount
    BY <2>1 DEF SV!StakeOf
  <2> HIDE DEF amount
  <2>3. /\ amount \in Nat /\ amount <= balance[Vault]
        /\ balance'[Vault] = balance[Vault] - amount
    BY <1>1, <2>1, TransferEffect
  <2>4. \A l \in Learners : SV!StakeOf(l)' = IF l = user THEN 0 ELSE SV!StakeOf(l)
    BY <1>1, <2>1 DEF SV!StakeOf
  <2>5. ASSUME NEW v \in Nat,
               \A l \in Learners : SV!StakeOf(l)' = IF l = user THEN v ELSE SV!StakeOf(l)
        PROVE  Total(Staked') = Total(Staked) - amount + v
    BY <2>2, <2>5, StakedSet
  <2>6. Total(Staked') = Total(Staked) - amount + 0
    BY <2>4, <2>5
  <2>7. QED
    BY <1>1, <1>2, <2>3, <2>6
<1>5. ASSUME (\E admin \in ServiceAdmins : SV!InitializeVault(admin)) \/ SV!Tick
      PROVE  balance'[Vault] + Total(Staked) = balance[Vault] + Total(Staked')
  <2>1. UNCHANGED <<balance, stakes>>
    BY <1>5 DEF SV!InitializeVault, SV!Tick
  <2>2. Staked' = Staked
    BY <2>1 DEF Staked, SV!StakeOf
  <2>3. QED
    BY <2>1, <2>2
<1>6. QED
  BY <1>3, <1>4, <1>5 DEF VaultStep, SV!Next

LEMMA VaultApart == Vault \notin {Engine, Pool, Elsewhere, None}
<1>1. {Engine, Pool, Vault, Elsewhere} = {Vault, Pool, Engine, Elsewhere}
  OBVIOUS
<1>2. Cardinality({Vault, Pool, Engine, Elsewhere}) = 4
  BY <1>1, EngineAddressAssumption
<1>3. Vault \notin {Pool, Engine, Elsewhere}
  BY <1>2, FourApart
<1>4. Vault \in Address /\ None \notin Address
  BY EngineAddressAssumption
<1>5. QED
  BY <1>3, <1>4

LEMMA VaultStaysBacked ==
  ASSUME TypeOK, QuestFacts, [Next]_vars, Vault \notin Admins \cup Employers \cup ServiceAdmins
  PROVE  balance'[Vault] + Total(Staked) = balance[Vault] + Total(Staked')
<1>1. /\ balance \in [Address -> Nat] /\ balance[Vault] \in Nat
      /\ {Vault, Engine, Pool} \subseteq Address /\ Vault \notin {Engine, Pool, Elsewhere, None}
      /\ Learners \subseteq Address \ {Vault}
      /\ Employers \cup Admins \subseteq Address /\ EngineTypes
  BY EngineAddressAssumption, VaultApart, TypesSplit DEF TypeOK, RP!TypeOK
<1>2. ASSUME balance'[Vault] = balance[Vault], UNCHANGED stakes
      PROVE  balance'[Vault] + Total(Staked) = balance[Vault] + Total(Staked')
  <2>1. Staked' = Staked
    BY <1>2 DEF Staked, SV!StakeOf
  <2>2. QED
    BY <1>2, <2>1
<1>3. ASSUME NEW employer \in Employers, NEW reward \in Rewards,
             CreateBuildQuest(employer, reward)
      PROVE  balance'[Vault] = balance[Vault] /\ UNCHANGED stakes
  <2>1. /\ CanTransfer(balance, employer, reward)
        /\ balance' = Transfer(balance, employer, Engine, reward) /\ UNCHANGED vault
    BY <1>3 DEF CreateBuildQuest, NewQuest
  <2>2. QED
    BY <1>1, <2>1, TransferEffect DEF vault
<1>4. ASSUME NEW employer \in Employers \cup Admins, NEW id \in QuestIds,
             NEW chosen \in SUBSET Learners, chosen # {},
             BatchReviewSubmissions(employer, id, chosen)
      PROVE  balance'[Vault] = balance[Vault] /\ UNCHANGED stakes
  <2>1. /\ MayReview(employer, id, chosen) /\ PayAll(chosen, id)
        /\ Decide(chosen, id, "Approved")
    BY <1>4 DEF BatchReviewSubmissions
  <2>2. quests[id] # None /\ quests[id].reward_amount \in Nat
    BY <1>1, <1>4, <2>1, PendingReward
  <2>3. Vault \in Address \ ({Engine} \cup Learners) /\ Vault # rewardPool
    BY <1>1 DEF EngineTypes
  <2>4. balance'[Vault] = balance[Vault] + 0
    BY <2>1, <2>2, <2>3, PaymentsEffect
  <2>5. QED
    BY <1>1, <2>1, <2>4 DEF Decide, vault
<1>5. ASSUME NEW employer \in Employers \cup Admins, NEW id \in QuestIds,
             RefundQuest(employer, id)
      PROVE  balance'[Vault] = balance[Vault] /\ UNCHANGED stakes
  <2>1. /\ CanTransfer(balance, Engine, quests[id].reward_amount)
        /\ balance' = Transfer(balance, Engine, employer, quests[id].reward_amount)
        /\ UNCHANGED vault
    BY <1>5 DEF RefundQuest
  <2>2. QED
    BY <1>1, <2>1, TransferEffect DEF vault
<1>6. ASSUME NEW admin \in Admins, NEW l \in Learners, NEW id \in QuestIds,
             VerifyExploreQuest(admin, l, id)
      PROVE  balance'[Vault] = balance[Vault] /\ UNCHANGED stakes
  <2>1. /\ CanTransfer(balance, Pool, quests[id].reward_amount)
        /\ balance' = Transfer(balance, Pool, l, quests[id].reward_amount)
        /\ UNCHANGED vault
    BY <1>6, SameToken DEF VerifyExploreQuest, RP!DistributeReward, RP!CanDistribute
  <2>2. QED
    BY <1>1, <2>1, TransferEffect DEF vault
<1>7. ASSUME PoolStep
      PROVE  balance'[Vault] = balance[Vault] /\ UNCHANGED stakes
  BY <1>1, <1>7, PoolEffect DEF PoolStep, vault
<1>8. ASSUME \/ WiringCall
             \/ \E admin \in Admins, reward \in Rewards : CreateExploreQuest(admin, reward)
             \/ \E l \in Learners, id \in QuestIds : SubmitProof(l, id)
             \/ \E employer, l, id : Rejection(employer, l, id)
      PROVE  UNCHANGED <<balance, stakes>>
  BY <1>8 DEF WiringCall, CreateExploreQuest, NewQuest, SubmitProof, Rejection, Decide, vault
<1>9. QED
  BY <1>2, <1>3, <1>4, <1>5, <1>6, <1>7, <1>8, EngineCalls, VaultMoves

-----------------------------------------------------------------------------
(* The boost.  For every learner and every build quest the multiplier      *)
(* leaves the unboosted payout as it is.                                   *)
Unboosted ==
  \A l \in Learners, id \in QuestIds :
    quests[id] # None /\ quests[id].quest_type = "Build" =>
      Payout(l, id) = ComputeLearnerPayout(RewardOf(id), 100)

(* No stake ever changes what a review pays, in any reachable state and    *)
(* for any tiers: compute_learner_payout cuts the whole boost back.        *)
THEOREM StakesNeverScale == Spec => []Unboosted
<1>1. ASSUME TypeOK, QuestFacts PROVE Unboosted
  <2> SUFFICES ASSUME NEW l \in Learners, NEW id \in QuestIds,
                      quests[id] # None, quests[id].quest_type = "Build"
               PROVE  Payout(l, id) = ComputeLearnerPayout(RewardOf(id), 100)
    BY DEF Unboosted
  <2> DEFINE r == quests[id].reward_amount
             multiplier == SV!GetMultiplier(l)
  <2>1. r \in Nat
    <3>1. EngineTypes
      BY <1>1, TypesSplit
    <3>2. quests[id] \in Quest /\ r >= 0
      BY <1>1, <3>1 DEF EngineTypes, QuestFacts
    <3>3. quests[id].reward_amount \in Rewards
      BY <3>2 DEF Quest
    <3>4. r \in Int
      BY <3>3, QuestAssumption
    <3>5. QED
      BY <3>2, <3>4
  <2>2. multiplier \in {100, 120, 200}
    BY <1>1, MultiplierType
  <2>3. Payout(l, id) = ComputeLearnerPayout(r, multiplier) /\ RewardOf(id) = r
    BY DEF Payout, RewardOf
  <2> HIDE DEF r, multiplier
  <2>4. ComputeLearnerPayout(r, multiplier) =
          [fee |-> FeeOn(r), learner_amount |-> r - FeeOn(r)]
    BY <2>1, <2>2, PayoutExact
  <2>5. ComputeLearnerPayout(r, 100) = [fee |-> FeeOn(r), learner_amount |-> r - FeeOn(r)]
    <3>1. \A m \in {100, 120, 200} :
            ComputeLearnerPayout(r, m) = [fee |-> FeeOn(r), learner_amount |-> r - FeeOn(r)]
      BY <2>1, PayoutExact
    <3>2. QED
      BY <3>1
  <2>6. QED
    BY <2>3, <2>4, <2>5
<1>2. TypeOK /\ QuestFacts /\ [Next]_vars => TypeOK' /\ QuestFacts'
  BY FactsStep
<1>3. QED
  BY <1>1, <1>2, FactsInit, PTL DEF Spec
================================================================================
