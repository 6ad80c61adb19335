--------------------------- MODULE StakeVaultProofs ---------------------------
(***************************************************************************)
(* Theorems about StakeVault, for every set of users, every amount and     *)
(* every lock period.                                                      *)
(***************************************************************************)
EXTENDS StakeVault, TokenTheorems

(* The vault's books: what each user has staked, as a ledger.              *)
Books == [u \in Stakers |-> StakeOf(u)]

(* Stakers are addresses, so there are finitely many of them.              *)
LEMMA StakersFinite == IsFiniteSet(Stakers)
BY FS_Subset, VaultAddressAssumption

(* What the stakes amount to is a ledger of natural numbers.               *)
LEMMA StakeOfType == TypeOK => Books \in [Stakers -> Nat]
<1> SUFFICES ASSUME TypeOK, NEW u \in Stakers PROVE StakeOf(u) \in Nat
  BY DEF Books
<1>1. stakes[u] \in StakeInfo \cup {None}
  BY DEF TypeOK
<1>2. QED
  BY <1>1 DEF StakeOf, StakeInfo

(* A step that changes one user's stake changes the sum by the difference. *)
LEMMA BooksUpdate ==
  ASSUME TypeOK, NEW user \in Stakers, NEW v \in Nat,
         \A u \in Stakers : StakeOf(u)' = IF u = user THEN v ELSE StakeOf(u)
  PROVE  /\ Total(Books') = Total(Books) - StakeOf(user) + v
         /\ Total(Books) \in Nat
<1>1. Books \in [Stakers -> Nat]
  BY StakeOfType
<1>2. Books' = [Books EXCEPT ![user] = v]
  BY DEF Books
<1>3. Books[user] = StakeOf(user)
  BY DEF Books
<1>4. Total([Books EXCEPT ![user] = v]) = Total(Books) - Books[user] + v
  <2> HIDE DEF Books
  <2> QED BY <1>1, TotalUpdate, StakersFinite
<1>5. Total(Books) \in Nat
  <2> HIDE DEF Books
  <2> QED BY <1>1, UnitsFinite, StakersFinite
<1>6. QED
  BY <1>2, <1>3, <1>4, <1>5

-----------------------------------------------------------------------------
(* The inductive invariant.  Withdrawals need no conservation argument:    *)
(* the type of `stakes' and the two sums carry each other.                 *)
VaultInv == TypeOK /\ VaultBacked /\ OwnersKeepTheirTokens

(* All stakes are empty at the start, and the sum of nothing is nothing.   *)
LEMMA EmptyBooks ==
  ASSUME \A u \in Stakers : StakeOf(u) = 0
  PROVE  Total(Books) = 0
<1>1. Units(Books) = {}
  BY DEF Units, UnitsAt, Books
<1>2. QED
  BY <1>1, FS_EmptySet DEF Total

(* A vault nobody has called yet holds its endowment and no stake.         *)
LEMMA VaultInvInit == Init => VaultInv
<1> SUFFICES ASSUME Init PROVE VaultInv
  OBVIOUS
<1>1. TypeOK
  BY VaultEndowmentAssumption, VaultNumberAssumption DEF Init, TypeOK
<1>2. \A u \in Stakers : StakeOf(u) = 0
  BY DEF Init, StakeOf
<1>3. Total(Books) = 0 /\ Endowment[Vault] \in Nat
  BY <1>2, EmptyBooks, VaultEndowmentAssumption, VaultAddressAssumption
<1>4. VaultBacked
  BY <1>3 DEF Init, VaultBacked, Books
<1>5. OwnersKeepTheirTokens
  BY <1>2, VaultEndowmentAssumption, VaultAddressAssumption DEF Init, OwnersKeepTheirTokens
<1>6. QED
  BY <1>1, <1>4, <1>5 DEF VaultInv

(* A deposit moves the amount from the purse to the vault and to the books. *)
LEMMA StakeStep ==
  ASSUME VaultInv, NEW user \in Stakers, NEW amount \in StakeAmounts, Stake(user, amount)
  PROVE  VaultInv'
<1> USE DEF VaultInv
<1> DEFINE info == Deposited(user, amount)
<1>1. /\ amount \in Nat \ {0} /\ amount <= balance[user]
      /\ user \in Address /\ Vault \in Address /\ user # Vault
      /\ balance \in [Address -> Nat]
  BY VaultAddressAssumption, VaultNumberAssumption DEF Stake, TypeOK, CanTransfer
<1>2. StakeOf(user) \in Nat
  BY StakeOfType DEF Books
<1>3. info \in StakeInfo /\ info.amount = StakeOf(user) + amount
  BY <1>1, <1>2 DEF Deposited, StakeInfo, TypeOK
<1>4. info # None
  BY <1>3, VaultNoneAssumption
<1> HIDE DEF info
<1>5. stakes' = [stakes EXCEPT ![user] = info] /\ stakes \in [Stakers -> StakeInfo \cup {None}]
  BY DEF Stake, TypeOK, info
<1>6. \A u \in Stakers : StakeOf(u)' = IF u = user THEN StakeOf(user) + amount ELSE StakeOf(u)
  BY <1>3, <1>4, <1>5 DEF StakeOf
<1>7. /\ Total(Books') = Total(Books) - StakeOf(user) + (StakeOf(user) + amount)
      /\ Total(Books) \in Nat
  <2> DEFINE v == StakeOf(user) + amount
  <2>1. v \in Nat
    BY <1>1, <1>2
  <2>2. \A u \in Stakers : StakeOf(u)' = IF u = user THEN v ELSE StakeOf(u)
    BY <1>6
  <2> HIDE DEF v
  <2>3. Total(Books') = Total(Books) - StakeOf(user) + v /\ Total(Books) \in Nat
    BY <2>1, <2>2, BooksUpdate
  <2>4. QED
    BY <2>3 DEF v
<1>8. \A a \in Address : balance'[a] = IF a = user THEN balance[a] - amount
                                       ELSE IF a = Vault THEN balance[a] + amount ELSE balance[a]
  BY <1>1 DEF Stake, Transfer
<1>9. balance' \in [Address -> Nat]
  BY <1>1 DEF Stake, Transfer
<1>10. TypeOK'
  BY <1>3, <1>5, <1>9 DEF TypeOK, Stake
<1>11. VaultBacked'
  <2>1. balance[Vault] = Endowment[Vault] + Total(Books) /\ Endowment[Vault] \in Nat
    BY <1>1, VaultEndowmentAssumption DEF VaultBacked, Books
  <2>2. balance'[Vault] = Endowment[Vault] + Total(Books')
    BY <1>1, <1>2, <1>7, <1>8, <2>1
  <2>3. QED
    BY <2>2 DEF VaultBacked, Books
<1>12. OwnersKeepTheirTokens'
  <2> SUFFICES ASSUME NEW u \in Stakers PROVE balance'[u] + StakeOf(u)' = Endowment[u]
    BY DEF OwnersKeepTheirTokens
  <2>1. balance[u] + StakeOf(u) = Endowment[u] /\ u \in Address /\ u # Vault
    BY VaultAddressAssumption DEF OwnersKeepTheirTokens
  <2>2. QED
    BY <1>1, <1>2, <1>6, <1>8, <2>1
<1>13. QED
  BY <1>10, <1>11, <1>12

(* A withdrawal moves the whole stake back.                                *)
LEMMA UnstakeStep ==
  ASSUME VaultInv, NEW user \in Stakers, Unstake(user)
  PROVE  VaultInv'
<1> USE DEF VaultInv
<1> DEFINE amount == stakes[user].amount
<1>1. /\ stakes[user] \in StakeInfo /\ StakeOf(user) = amount
      /\ stakes \in [Stakers -> StakeInfo \cup {None}]
  BY DEF Unstake, TypeOK, StakeOf
<1>2. amount \in Nat
  BY <1>1 DEF StakeInfo
<1>3. amount <= balance[Vault] /\ balance' = Transfer(balance, Vault, user, amount)
  BY <1>2 DEF Unstake, CanTransfer
<1> HIDE DEF amount
<1>4. /\ user \in Address /\ Vault \in Address /\ user # Vault
      /\ balance \in [Address -> Nat]
  BY VaultAddressAssumption DEF TypeOK
<1>5. \A u \in Stakers : StakeOf(u)' = IF u = user THEN 0 ELSE StakeOf(u)
  BY <1>1 DEF Unstake, StakeOf
<1>6. Total(Books') = Total(Books) - amount + 0 /\ Total(Books) \in Nat
  BY <1>1, <1>5, BooksUpdate
<1>7. \A a \in Address : balance'[a] = IF a = user THEN balance[a] + amount
                                       ELSE IF a = Vault THEN balance[a] - amount ELSE balance[a]
  BY <1>2, <1>3, <1>4 DEF Transfer
<1>8. balance' \in [Address -> Nat]
  BY <1>2, <1>3, <1>4 DEF Transfer
<1>9. TypeOK'
  BY <1>1, <1>8 DEF TypeOK, Unstake
<1>10. VaultBacked'
  <2>1. balance[Vault] = Endowment[Vault] + Total(Books) /\ Endowment[Vault] \in Nat
    BY <1>4, VaultEndowmentAssumption DEF VaultBacked, Books
  <2>2. balance'[Vault] = Endowment[Vault] + Total(Books')
    BY <1>2, <1>4, <1>6, <1>7, <2>1
  <2>3. QED
    BY <2>2 DEF VaultBacked, Books
<1>11. OwnersKeepTheirTokens'
  <2> SUFFICES ASSUME NEW u \in Stakers PROVE balance'[u] + StakeOf(u)' = Endowment[u]
    BY DEF OwnersKeepTheirTokens
  <2>1. balance[u] + StakeOf(u) = Endowment[u] /\ u \in Address /\ u # Vault
    BY VaultAddressAssumption DEF OwnersKeepTheirTokens
  <2>2. QED
    BY <1>1, <1>2, <1>4, <1>5, <1>7, <2>1
<1>12. QED
  BY <1>9, <1>10, <1>11

(* Every call of the vault, and the passing of time, preserves the         *)
(* invariant.                                                              *)
LEMMA VaultInvStep == VaultInv /\ [Next]_vaultVars => VaultInv'
<1> SUFFICES ASSUME VaultInv, [Next]_vaultVars PROVE VaultInv'
  OBVIOUS
<1>1. ASSUME NEW admin \in Admins, InitializeVault(admin) PROVE VaultInv'
  BY <1>1, VaultAddressAssumption
  DEF VaultInv, InitializeVault, TypeOK, VaultBacked, OwnersKeepTheirTokens, StakeOf
<1>2. ASSUME NEW user \in Stakers, NEW amount \in StakeAmounts, Stake(user, amount)
      PROVE  VaultInv'
  BY <1>2, StakeStep
<1>3. ASSUME NEW user \in Stakers, Unstake(user) PROVE VaultInv'
  BY <1>3, UnstakeStep
<1>4. ASSUME Tick PROVE VaultInv'
  <2>1. now' \in 0..MaxTime
    BY <1>4, VaultNumberAssumption DEF Tick, VaultInv, TypeOK
  <2>2. QED
    BY <1>4, <2>1 DEF VaultInv, Tick, TypeOK, VaultBacked, OwnersKeepTheirTokens, StakeOf
<1>5. CASE UNCHANGED vaultVars
  BY <1>5 DEF VaultInv, vaultVars, TypeOK, VaultBacked, OwnersKeepTheirTokens, StakeOf
<1>6. QED
  BY <1>1, <1>2, <1>3, <1>4, <1>5 DEF Next

(* The inductive invariant holds in every reachable state of the vault.    *)
THEOREM VaultInvariant == Spec => []VaultInv
BY VaultInvInit, VaultInvStep, PTL DEF Spec

(* The vault always holds exactly the sum of its users' stakes, so that    *)
(* every one of them can be withdrawn.                                     *)
THEOREM VaultIsBacked == Spec => []VaultBacked
<1>1. VaultInv => VaultBacked
  BY DEF VaultInv
<1>2. QED
  BY <1>1, VaultInvariant, PTL

(* No user's tokens are lost to, or gained from, the vault.                *)
THEOREM OwnersWhole == Spec => []OwnersKeepTheirTokens
<1>1. VaultInv => OwnersKeepTheirTokens
  BY DEF VaultInv
<1>2. QED
  BY <1>1, VaultInvariant, PTL

(* Storage stays well-typed; no stake of nothing is ever recorded.         *)
THEOREM VaultTypes == Spec => []TypeOK
<1>1. VaultInv => TypeOK
  BY DEF VaultInv
<1>2. QED
  BY <1>1, VaultInvariant, PTL

-----------------------------------------------------------------------------
(* A user's purse only falls in a deposit of that user, and only rises in  *)
(* a withdrawal.                                                           *)
LEMMA PurseStep ==
  ASSUME VaultInv, Next, NEW u \in Stakers
  PROVE  /\ balance'[u] < balance[u] => \E amount \in StakeAmounts : Stake(u, amount)
         /\ balance'[u] > balance[u] => Unstake(u)
<1>1. /\ balance \in [Address -> Nat] /\ u \in Address /\ Vault \in Address
      /\ Stakers \subseteq Address \ {Vault}
  BY VaultAddressAssumption DEF VaultInv, TypeOK
<1>2. ASSUME NEW user \in Stakers, NEW amount \in StakeAmounts, Stake(user, amount)
      PROVE  IF u = user THEN balance'[u] < balance[u] ELSE balance'[u] = balance[u]
  BY <1>1, <1>2, VaultNumberAssumption DEF Stake, Transfer, CanTransfer
<1>3. ASSUME NEW user \in Stakers, Unstake(user)
      PROVE  IF u = user THEN balance'[u] > balance[u] ELSE balance'[u] = balance[u]
  <2>1. stakes[user].amount \in Nat \ {0}
    BY <1>3 DEF Unstake, VaultInv, TypeOK, StakeInfo
  <2>2. QED
    BY <1>1, <1>3, <2>1 DEF Unstake, Transfer
<1>4. UNCHANGED balance => balance'[u] = balance[u]
  OBVIOUS
<1>5. balance[u] \in Nat
  BY <1>1
<1>6. CASE \E admin \in Admins : InitializeVault(admin)
  BY <1>4, <1>5, <1>6 DEF InitializeVault
<1>7. CASE Tick
  BY <1>4, <1>5, <1>7 DEF Tick
<1>8. CASE \E user \in Stakers : \E amount \in StakeAmounts : Stake(user, amount)
  <2>1. PICK user \in Stakers, amount \in StakeAmounts : Stake(user, amount)
    BY <1>8
  <2>2. IF u = user THEN balance'[u] < balance[u] ELSE balance'[u] = balance[u]
    BY <1>2, <2>1
  <2>3. balance'[u] \in Int
    BY <1>1, <2>1, VaultNumberAssumption DEF Stake, Transfer, CanTransfer
  <2>4. QED
    BY <1>5, <2>1, <2>2, <2>3
<1>9. CASE \E user \in Stakers : Unstake(user)
  <2>1. PICK user \in Stakers : Unstake(user)
    BY <1>9
  <2>2. IF u = user THEN balance'[u] > balance[u] ELSE balance'[u] = balance[u]
    BY <1>3, <2>1
  <2>3. balance'[u] \in Int
    <3>1. stakes[user].amount \in Nat
      BY <2>1 DEF Unstake, VaultInv, TypeOK, StakeInfo
    <3>2. QED
      BY <1>1, <2>1, <3>1 DEF Unstake, Transfer
  <2>4. QED
    BY <1>5, <2>1, <2>2, <2>3
<1>10. QED
  BY <1>6, <1>7, <1>8, <1>9 DEF Next

(* Every deposit restarts the lock of the whole stake; tokens come back    *)
(* only when it has run out, and then every one of them.                   *)
THEOREM LocksHonoured == Spec => LockHonoured
<1> DEFINE Honoured == \A u \in Stakers :
             /\ balance'[u] < balance[u] => stakes'[u].lock_timestamp = now
             /\ balance'[u] > balance[u] =>
                  /\ now >= stakes[u].lock_timestamp + LockPeriod
                  /\ balance'[u] = Endowment[u]
<1>1. ASSUME VaultInv, Next, NEW u \in Stakers
      PROVE  /\ balance'[u] < balance[u] => stakes'[u].lock_timestamp = now
             /\ balance'[u] > balance[u] =>
                  /\ now >= stakes[u].lock_timestamp + LockPeriod
                  /\ balance'[u] = Endowment[u]
  <2>1. ASSUME NEW amount \in StakeAmounts, Stake(u, amount)
        PROVE  stakes'[u].lock_timestamp = now
    BY <1>1, <2>1 DEF VaultInv, TypeOK, Stake, Deposited
  <2>2. ASSUME Unstake(u) PROVE now >= stakes[u].lock_timestamp + LockPeriod
    BY <2>2 DEF Unstake, Matured
  <2>3. ASSUME Unstake(u) PROVE balance'[u] = Endowment[u]
    <3>1. StakeOf(u) = stakes[u].amount
      BY <2>3 DEF Unstake, StakeOf
    <3>2. stakes[u].amount \in Nat
      BY <1>1, <2>3 DEF Unstake, VaultInv, TypeOK, StakeInfo
    <3>3. balance'[u] = balance[u] + stakes[u].amount
      BY <1>1, <2>3, <3>2, VaultAddressAssumption DEF Unstake, Transfer, VaultInv, TypeOK
    <3>4. QED
      BY <1>1, <3>1, <3>3 DEF VaultInv, OwnersKeepTheirTokens
  <2>4. QED
    BY <1>1, <2>1, <2>2, <2>3, PurseStep
<1>2. ASSUME VaultInv, [Next]_vaultVars PROVE [Honoured]_vaultVars
  BY <1>1, <1>2
<1>3. QED
  BY <1>2, VaultInvariant, PTL DEF Spec, LockHonoured
=============================================================================
