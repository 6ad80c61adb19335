---------------------------- MODULE DeploymentProofs ----------------------------
(***************************************************************************)
(* Proofs about the deployment as a whole.  Platform: the tokens of the    *)
(* escrow, the treasury and the learners, the badges and the votes, from   *)
(* what QuestEngineProofs and CourseRegistryProofs show of one contract.   *)
(* Upgrade: the versions of the contracts' storage.                        *)
(***************************************************************************)
EXTENDS Platform, Upgrade, TokenTheorems, SequenceTheorems, FiniteSetTheorems

(* What QuestEngine and CourseRegistry keep, in the wiring of the platform. *)
QP == INSTANCE QuestEngineProofs WITH
        Admins <- {Admin}, ServiceAdmins <- {Admin}, Rewards <- BuildRewards \cup ExploreRewards
CP == INSTANCE CourseRegistryProofs WITH Admins <- {Admin}

-----------------------------------------------------------------------------
(* The seven accounts are different, and each contract's own assumptions   *)
(* hold on the platform.                                                   *)
LEMMA AccountsApart ==
  /\ Accounts = {Pool, Registry, Nft, Vault, Engine, Elsewhere, Admin}
  /\ Pool \notin {Registry, Nft, Vault, Engine, Elsewhere, Admin}
  /\ Registry \notin {Nft, Vault, Engine, Elsewhere, Admin}
  /\ Nft \notin {Vault, Engine, Elsewhere, Admin}
  /\ Vault \notin {Engine, Elsewhere, Admin}
  /\ Engine \notin {Elsewhere, Admin}
  /\ Elsewhere # Admin
<1> DEFINE D == Deployed
<1>1. /\ D[1] = Pool /\ D[2] = Registry /\ D[3] = Nft /\ D[4] = Vault
      /\ D[5] = Engine /\ D[6] = Elsewhere /\ D[7] = Admin
  BY DEF Deployed
<1>2. 1..7 = {1, 2, 3, 4, 5, 6, 7}
  OBVIOUS
<1>3. \A i, j \in 1..7 : i # j => D[i] # D[j]
  BY AccountAssumption
<1> HIDE DEF D
<1>4. Accounts = {D[i] : i \in 1..7}
  BY DEF Accounts, D
<1>5. Accounts = {D[1], D[2], D[3], D[4], D[5], D[6], D[7]}
  BY <1>2, <1>4
<1>6. /\ D[1] \notin {D[2], D[3], D[4], D[5], D[6], D[7]}
      /\ D[2] \notin {D[3], D[4], D[5], D[6], D[7]} /\ D[3] \notin {D[4], D[5], D[6], D[7]}
      /\ D[4] \notin {D[5], D[6], D[7]} /\ D[5] \notin {D[6], D[7]} /\ D[6] # D[7]
  BY <1>3
<1>7. QED
  BY <1>1, <1>5, <1>6

LEMMA FourAddresses ==
  ASSUME NEW a, NEW b, NEW c, NEW d, a \notin {b, c, d}, b \notin {c, d}, c # d
  PROVE  Cardinality({a, b, c, d}) = 4
<1>1. IsFiniteSet({}) /\ Cardinality({}) = 0
  BY FS_EmptySet
<1>2. IsFiniteSet({d}) /\ Cardinality({d}) = 1
  BY <1>1, FS_AddElement
<1>3. IsFiniteSet({c, d}) /\ Cardinality({c, d}) = 2
  <2>1. {c, d} = {d} \cup {c}
    OBVIOUS
  <2>2. QED
    BY <1>2, <2>1, FS_AddElement
<1>4. IsFiniteSet({b, c, d}) /\ Cardinality({b, c, d}) = 3
  <2>1. {b, c, d} = {c, d} \cup {b}
    OBVIOUS
  <2>2. QED
    BY <1>3, <2>1, FS_AddElement
<1>5. {a, b, c, d} = {b, c, d} \cup {a}
  OBVIOUS
<1>6. QED
  BY <1>4, <1>5, FS_AddElement

LEMMA EngineAssumptions ==
  /\ QP!EngineAddressAssumption /\ QP!QuestAssumption /\ QP!StakingAssumption
  /\ QP!EngineNoneAssumption
<1>1. QP!EngineAddressAssumption
  <2>1. Cardinality({Engine, Pool, Vault, Elsewhere}) = 4
    BY AccountsApart, FourAddresses
  <2>2. \A S : QP!Cardinality(S) = Cardinality(S) /\ (QP!IsFiniteSet(S) <=> IsFiniteSet(S))
    BY DEF QP!Cardinality, QP!IsFiniteSet, Cardinality, IsFiniteSet
  <2>3. /\ Engine \notin Employers /\ Engine # Admin
        /\ Learners \subseteq Address \ {Engine, Pool, Vault, Elsewhere}
        /\ {Engine, Pool, Vault, Elsewhere} \subseteq Address
        /\ {Admin} \cup Employers \cup {Admin} \subseteq Address
    BY AccountsApart, AccountAssumption
  <2>4. QED
    BY <2>1, <2>2, <2>3, AccountAssumption DEF QP!EngineAddressAssumption
<1>2. QP!QuestAssumption /\ QP!StakingAssumption
  BY NumberAssumption DEF QP!QuestAssumption, QP!StakingAssumption
<1>3. QP!EngineNoneAssumption
  BY RecordAssumption DEF QP!EngineNoneAssumption, QP!Quest, QP!SV!StakeInfo, QE!Quest,
                          QE!SV!StakeInfo
<1>4. QED
  BY <1>1, <1>2, <1>3

LEMMA RegistryAssumptions ==
  /\ CP!RegistryAssumption /\ CP!RewardAssumption /\ CP!CourseAssumption
  /\ CP!CourseNoneAssumption
<1>1. CP!RegistryAssumption
  <2>1. Cardinality({Registry, Nft, Elsewhere, Pool}) = 4
    BY AccountsApart, FourAddresses
  <2>2. \A S : CP!Cardinality(S) = Cardinality(S)
    BY DEF CP!Cardinality, Cardinality
  <2>3. /\ Registry # Admin /\ {Registry, Nft, Elsewhere, Pool} \subseteq Address
        /\ {Admin} \cup Instructors \cup Learners \subseteq Address
    BY AccountsApart, AccountAssumption
  <2>4. QED
    BY <2>1, <2>2, <2>3, AccountAssumption DEF CP!RegistryAssumption
<1>2. CP!RewardAssumption /\ CP!CourseAssumption
  BY NumberAssumption DEF CP!RewardAssumption, CP!CourseAssumption
<1>3. CP!CourseNoneAssumption
  BY RecordAssumption DEF CP!CourseNoneAssumption, CP!Course, CR!Course
<1>4. QED
  BY <1>1, <1>2, <1>3

-----------------------------------------------------------------------------
(* The calls of the platform are those the engine's own proofs are about:  *)
(* two instances of one definition.                                        *)
LEMMA SameTotal == \A f : QE!Total(f) = Total(f) /\ QP!Total(f) = Total(f)
BY DEF QE!Total, QE!Units, QE!UnitsAt, QE!Cardinality,
       QP!Total, QP!Units, QP!UnitsAt, QP!Cardinality, Total, Units, UnitsAt, Cardinality

LEMMA SamePayout == \A l, id : QE!Payout(l, id) = QP!Payout(l, id)
BY DEF QE!Payout, QE!ComputeLearnerPayout, QE!SV!GetMultiplier, QE!SV!StakeOf,
       QP!Payout, QP!ComputeLearnerPayout, QP!SV!GetMultiplier, QP!SV!StakeOf

LEMMA SamePayments ==
  ASSUME NEW chosen, NEW id, QE!PayAll(chosen, id)
  PROVE  QP!PayAll(chosen, id)
<1>1. \A l : QE!Cost(l, id) = QP!Cost(l, id)
  BY SamePayout DEF QE!Cost, QP!Cost
<1>2. Total([l \in chosen |-> QE!Cost(l, id)]) = Total([l \in chosen |-> QP!Cost(l, id)])
  BY <1>1
<1>3. Total([l \in chosen |-> QE!Payout(l, id).fee]) =
        Total([l \in chosen |-> QP!Payout(l, id).fee])
  BY SamePayout
<1>4. QE!AfterPayments(chosen, id) = QP!AfterPayments(chosen, id)
  BY <1>2, <1>3, SamePayout, SameTotal DEF QE!AfterPayments, QP!AfterPayments
<1>5. QED
  BY <1>2, <1>4, SameTotal DEF QE!PayAll, QP!PayAll, QE!CanTransfer, QP!CanTransfer

LEMMA SameReview ==
  ASSUME NEW employer, NEW id, NEW chosen, QE!BatchReviewSubmissions(employer, id, chosen)
  PROVE  QP!BatchReviewSubmissions(employer, id, chosen)
BY SamePayments
DEF QE!BatchReviewSubmissions, QE!MayReview, QE!Decide, QE!Pairs, QE!QuestIds, QE!pool, QE!vault,
    QE!wiring, QE!board, QP!BatchReviewSubmissions, QP!MayReview, QP!Decide, QP!Pairs,
    QP!QuestIds, QP!pool, QP!vault, QP!wiring, QP!board

LEMMA SameApproval ==
  ASSUME NEW employer, NEW l, NEW id, QE!ReviewSubmission(employer, l, id, TRUE)
  PROVE  QP!BatchReviewSubmissions(employer, id, {l})
BY SamePayments
DEF QE!ReviewSubmission, QE!MayReview, QE!Decide, QE!Pairs, QE!QuestIds, QE!pool, QE!vault,
    QE!wiring, QE!board, QP!BatchReviewSubmissions, QP!MayReview, QP!Decide, QP!Pairs,
    QP!QuestIds, QP!pool, QP!vault, QP!wiring, QP!board

LEMMA SameNewQuest ==
  ASSUME NEW employer, NEW reward, NEW type, QE!NewQuest(employer, reward, type)
  PROVE  QP!NewQuest(employer, reward, type)
BY DEF QE!NewQuest, QE!pool, QE!vault, QE!wiring, QP!NewQuest, QP!pool, QP!vault, QP!wiring

LEMMA SameCreateBuild ==
  ASSUME NEW employer, NEW reward, QE!CreateBuildQuest(employer, reward)
  PROVE  QP!CreateBuildQuest(employer, reward)
BY SameNewQuest DEF QE!CreateBuildQuest, QE!CanTransfer, QE!Transfer,
                    QP!CreateBuildQuest, QP!CanTransfer, QP!Transfer

LEMMA SameCreateExplore ==
  ASSUME NEW admin, NEW reward, QE!CreateExploreQuest(admin, reward)
  PROVE  QP!CreateExploreQuest(admin, reward)
BY SameNewQuest DEF QE!CreateExploreQuest, QE!IsAdmin, QP!CreateExploreQuest, QP!IsAdmin

LEMMA SameSubmit ==
  ASSUME NEW l, NEW id, QE!SubmitProof(l, id)
  PROVE  QP!SubmitProof(l, id)
BY DEF QE!SubmitProof, QE!pool, QE!vault, QE!wiring, QE!board,
       QP!SubmitProof, QP!pool, QP!vault, QP!wiring, QP!board

LEMMA SameRefund ==
  ASSUME NEW employer, NEW id, QE!RefundQuest(employer, id)
  PROVE  QP!RefundQuest(employer, id)
BY DEF QE!RefundQuest, QE!CanTransfer, QE!Transfer, QE!pool, QE!vault, QE!wiring,
       QP!RefundQuest, QP!CanTransfer, QP!Transfer, QP!pool, QP!vault, QP!wiring

LEMMA SameVerify ==
  ASSUME NEW admin, NEW l, NEW id, QE!VerifyExploreQuest(admin, l, id)
  PROVE  QP!VerifyExploreQuest(admin, l, id)
BY DEF QE!VerifyExploreQuest, QE!IsAdmin, QE!RP!DistributeReward, QE!RP!CanDistribute,
       QE!RP!CanTransfer, QE!RP!Transfer, QE!vault, QE!wiring, QE!board,
       QP!VerifyExploreQuest, QP!IsAdmin, QP!RP!DistributeReward, QP!RP!CanDistribute,
       QP!RP!CanTransfer, QP!RP!Transfer, QP!vault, QP!wiring, QP!board

LEMMA QuestCalls == QuestStep => QP!Next
<1> SUFFICES ASSUME QuestStep PROVE QP!Next
  OBVIOUS
<1>1. QE!QuestIds = QP!QuestIds
  BY DEF QE!QuestIds, QP!QuestIds
<1>2. ASSUME NEW employer \in Employers, NEW reward \in BuildRewards,
             QE!CreateBuildQuest(employer, reward)
      PROVE  QP!Next
  BY <1>2, SameCreateBuild DEF QP!Next, QP!EmployerStep
<1>3. ASSUME NEW reward \in ExploreRewards, QE!CreateExploreQuest(Admin, reward)
      PROVE  QP!Next
  BY <1>3, SameCreateExplore DEF QP!Next, QP!AdminStep
<1>4. ASSUME NEW employer \in Employers \cup {Admin}, NEW id \in QE!QuestIds,
             \/ QE!RefundQuest(employer, id)
             \/ \E l \in Learners : QE!ReviewSubmission(employer, l, id, TRUE)
             \/ \E chosen \in SUBSET Learners : QE!BatchReviewSubmissions(employer, id, chosen)
      PROVE  QP!Next
  <2>1. \A l \in Learners : {l} \in SUBSET Learners
    OBVIOUS
  <2>2. \/ QP!RefundQuest(employer, id)
        \/ \E chosen \in SUBSET Learners : QP!BatchReviewSubmissions(employer, id, chosen)
    BY <1>4, <2>1, SameRefund, SameApproval, SameReview
  <2>3. QED
    BY <1>1, <2>2 DEF QP!Next, QP!EmployerStep
<1>5. ASSUME NEW l \in Learners, NEW id \in QE!QuestIds, QE!SubmitProof(l, id)
      PROVE  QP!Next
  BY <1>1, <1>5, SameSubmit DEF QP!Next, QP!LearnerStep
<1>6. ASSUME NEW l \in Learners, NEW id \in QE!QuestIds, QE!VerifyExploreQuest(Admin, l, id)
      PROVE  QP!Next
  BY <1>1, <1>6, SameVerify DEF QP!Next, QP!AdminStep
<1>7. QED
  BY <1>2, <1>3, <1>4, <1>5, <1>6 DEF QuestStep

LEMMA TreasuryCalls == PoolStep => QP!Next
<1> SUFFICES ASSUME PoolStep PROVE QP!Next
  OBVIOUS
<1>1. UNCHANGED <<QP!vault, QP!wiring, enginePaused, QP!board, submissions, verified>>
  BY DEF PoolStep, vaultOwn, engineOwn, QP!vault, QP!wiring, QP!board
<1>2. ASSUME NEW status \in BOOLEAN, CR!RP!SetPause(Admin, status)
      PROVE  QP!RP!SetPause(Admin, status)
  BY <1>2 DEF CR!RP!SetPause, QP!RP!SetPause
<1>3. CR!RP!EmergencySweep(Admin, Admin) => QP!RP!EmergencySweep(Admin, Admin)
  BY DEF CR!RP!EmergencySweep, QP!RP!EmergencySweep, CR!RP!Transfer, QP!RP!Transfer
<1>4. ASSUME NEW amount \in Donations, CR!RP!FundPool(Admin, amount)
      PROVE  QP!RP!FundPool(Admin, amount)
  BY <1>4 DEF CR!RP!FundPool, QP!RP!FundPool, CR!RP!CanTransfer, QP!RP!CanTransfer,
              CR!RP!Transfer, QP!RP!Transfer
<1>5. QED
  BY <1>1, <1>2, <1>3, <1>4 DEF PoolStep, QP!Next, QP!PoolStep, QP!RP!AdminStep

LEMMA StakingCalls == VaultStep => QP!Next
<1> SUFFICES ASSUME VaultStep PROVE QP!Next
  OBVIOUS
<1>1. UNCHANGED <<QP!pool, QP!wiring, enginePaused, QP!board, submissions, verified>>
  BY DEF VaultStep, poolOwn, engineOwn, QP!pool, QP!wiring, QP!board
<1>2. ASSUME NEW l \in Learners, NEW amount \in StakeAmounts, QE!SV!Stake(l, amount)
      PROVE  QP!SV!Stake(l, amount)
  BY <1>2 DEF QE!SV!Stake, QP!SV!Stake, QE!SV!CanTransfer, QP!SV!CanTransfer, QE!SV!Transfer,
              QP!SV!Transfer, QE!SV!Deposited, QP!SV!Deposited, QE!SV!StakeOf, QP!SV!StakeOf
<1>3. ASSUME NEW l \in Learners, QE!SV!Unstake(l) PROVE QP!SV!Unstake(l)
  BY <1>3 DEF QE!SV!Unstake, QP!SV!Unstake, QE!SV!Matured, QP!SV!Matured, QE!SV!CanTransfer,
              QP!SV!CanTransfer, QE!SV!Transfer, QP!SV!Transfer
<1>4. QE!SV!Tick => QP!SV!Tick
  BY DEF QE!SV!Tick, QP!SV!Tick
<1>5. QED
  BY <1>1, <1>2, <1>3, <1>4 DEF VaultStep, QP!Next, QP!VaultStep, QP!SV!Next

LEMMA GovernanceCalls == GovernanceStep => UNCHANGED QP!vars
BY DEF GovernanceStep, GV!SeedProposal, GV!CastVote, GV!ExecuteProposal, GV!Close, GV!badgeVars,
       poolOwn, vaultOwn, engineOwn, QP!vars, QP!pool, QP!vault, QP!wiring, QP!board

-----------------------------------------------------------------------------
(* What a call of the registry is to the others: it pays one reward and    *)
(* publishes it, or leaves the ledger alone; the clock stands still.       *)
Pays(l, id) ==
  /\ CanTransfer(balance, Pool, Reward) /\ balance' = Transfer(balance, Pool, l, Reward)
  /\ paid' = [paid EXCEPT ![<<l, id>>] = @ + 1]

LEMMA RewardCall ==
  ASSUME NEW l, NEW id, CR!TryDistributeReward(l, id)
  PROVE  UNCHANGED poolOwn /\ (UNCHANGED <<balance, paid>> \/ Pays(l, id))
BY DEF CR!TryDistributeReward, CR!PoolPays, CR!RP!DistributeReward, CR!RP!CanDistribute,
       CR!RP!CanTransfer, CR!RP!Transfer, CanTransfer, Transfer, CR!poolVars, poolOwn, Pays

LEMMA CoursePayments ==
  ASSUME CourseStep
  PROVE  /\ UNCHANGED <<poolOwn, now, vaultOwn, engineOwn, governanceOwn>>
         /\ \/ UNCHANGED <<balance, paid>>
            \/ \E l \in Learners, id \in CR!CourseIds : Pays(l, id)
<1>1. ASSUME NEW instructor, NEW total, NEW hash, CR!CreateCourse(Admin, instructor, total, hash)
      PROVE  UNCHANGED <<poolOwn, now, balance, paid>>
  BY <1>1 DEF CR!CreateCourse, CR!poolVars, CR!badgeVars, CR!learning, poolOwn
<1>2. ASSUME NEW l, NEW id, CR!Enroll(l, id) PROVE UNCHANGED <<poolOwn, now, balance, paid>>
  BY <1>2 DEF CR!Enroll, CR!poolVars, CR!badgeVars, poolOwn
<1>3. ASSUME NEW l, NEW id, CR!CompleteModule(Admin, l, id)
      PROVE  UNCHANGED <<poolOwn, now>> /\ (UNCHANGED <<balance, paid>> \/ Pays(l, id))
  <2>1. CASE CR!IsLastModule(l, id)
    BY <1>3, <2>1, RewardCall
    DEF CR!CompleteModule, CR!MintOnCompletion, CR!badgeVars, CR!BN!MintBadge
  <2>2. CASE ~CR!IsLastModule(l, id)
    BY <1>3, <2>2 DEF CR!CompleteModule, CR!poolVars, CR!badgeVars, poolOwn
  <2>3. QED
    BY <2>1, <2>2
<1>4. ASSUME NEW l, NEW id, CR!ClaimCompletionReward(l, id)
      PROVE  UNCHANGED <<poolOwn, now>> /\ (UNCHANGED <<balance, paid>> \/ Pays(l, id))
  BY <1>4, RewardCall DEF CR!ClaimCompletionReward, CR!badgeVars
<1>5. QED
  BY <1>1, <1>2, <1>3, <1>4 DEF CourseStep

-----------------------------------------------------------------------------
(* The registry's calls are those its own proofs are about.                *)
LEMMA SameTry ==
  ASSUME NEW l, NEW id, CR!TryDistributeReward(l, id)
  PROVE  CP!TryDistributeReward(l, id)
BY DEF CR!TryDistributeReward, CR!PoolPays, CR!RP!DistributeReward, CR!RP!CanDistribute,
       CR!RP!CanTransfer, CR!RP!Transfer, CR!poolVars, CP!TryDistributeReward, CP!PoolPays,
       CP!RP!DistributeReward, CP!RP!CanDistribute, CP!RP!CanTransfer, CP!RP!Transfer, CP!poolVars

LEMMA SameMint ==
  ASSUME NEW l, NEW id, CR!MintOnCompletion(l, id)
  PROVE  CP!MintOnCompletion(l, id)
BY DEF CR!MintOnCompletion, CR!BN!MintBadge, CR!BN!CanMint, CR!BN!HasBadge, CR!BN!NewBadge,
       CR!badgeVars, CP!MintOnCompletion, CP!BN!MintBadge, CP!BN!CanMint, CP!BN!HasBadge,
       CP!BN!NewBadge, CP!badgeVars

LEMMA SameProgress ==
  \A l, id : /\ CR!GetProgress(l, id) = CP!GetProgress(l, id)
             /\ CR!IsCourseFinished(l, id) <=> CP!IsCourseFinished(l, id)
             /\ CR!IsLastModule(l, id) <=> CP!IsLastModule(l, id)
BY DEF CR!GetProgress, CP!GetProgress, CR!IsCourseFinished, CP!IsCourseFinished,
       CR!IsLastModule, CP!IsLastModule

LEMMA SamePending == \A l, id : CR!PendingAfter(l, id) = CP!PendingAfter(l, id)
BY DEF CR!PendingAfter, CR!PoolPays, CR!RP!CanDistribute, CR!RP!CanTransfer,
       CP!PendingAfter, CP!PoolPays, CP!RP!CanDistribute, CP!RP!CanTransfer

LEMMA SameCompletion ==
  ASSUME NEW l, NEW id, CR!CompleteModule(Admin, l, id)
  PROVE  CP!CompleteModule(Admin, l, id)
BY SameTry, SameMint, SameProgress, SamePending
DEF CR!CompleteModule, CR!IsAdmin, CR!poolVars, CR!badgeVars, CR!wiring, CR!catalogue,
    CP!CompleteModule, CP!IsAdmin, CP!poolVars, CP!badgeVars, CP!wiring, CP!catalogue

LEMMA CourseCalls == CourseStep => CP!Next
<1> SUFFICES ASSUME CourseStep PROVE CP!Next
  OBVIOUS
<1>1. CR!CourseIds = CP!CourseIds
  BY DEF CR!CourseIds, CP!CourseIds
<1>2. ASSUME NEW instructor \in Instructors, NEW total \in 1..MaxModules, NEW hash \in Hashes,
             CR!CreateCourse(Admin, instructor, total, hash)
      PROVE  CP!Next
  <2>1. CP!CreateCourse(Admin, instructor, total, hash)
    BY <1>2 DEF CR!CreateCourse, CR!IsAdmin, CR!poolVars, CR!badgeVars, CR!wiring, CR!learning,
                CP!CreateCourse, CP!IsAdmin, CP!poolVars, CP!badgeVars, CP!wiring, CP!learning
  <2>2. total \in 0..MaxModules
    BY NumberAssumption
  <2>3. QED
    BY <2>1, <2>2 DEF CP!Next, CP!RegistryStep
<1>3. ASSUME NEW l \in Learners, NEW id \in CR!CourseIds, CR!Enroll(l, id) PROVE CP!Next
  <2>1. CP!Enroll(l, id)
    BY <1>3 DEF CR!Enroll, CR!poolVars, CR!badgeVars, CR!wiring, CR!catalogue,
                CP!Enroll, CP!poolVars, CP!badgeVars, CP!wiring, CP!catalogue
  <2>2. QED
    BY <1>1, <2>1 DEF CP!Next, CP!LearnerStep
<1>4. ASSUME NEW l \in Learners, NEW id \in CR!CourseIds, CR!CompleteModule(Admin, l, id)
      PROVE  CP!Next
  BY <1>1, <1>4, SameCompletion DEF CP!Next, CP!LearnerStep
<1>5. ASSUME NEW l \in Learners, NEW id \in CR!CourseIds, CR!ClaimCompletionReward(l, id)
      PROVE  CP!Next
  <2>1. CP!ClaimCompletionReward(l, id)
    BY <1>5, SameTry
    DEF CR!ClaimCompletionReward, CR!badgeVars, CR!wiring, CR!catalogue,
        CP!ClaimCompletionReward, CP!badgeVars, CP!wiring, CP!catalogue
  <2>2. QED
    BY <1>1, <2>1 DEF CP!Next, CP!LearnerStep
<1>6. QED
  BY <1>2, <1>3, <1>4, <1>5 DEF CourseStep

-----------------------------------------------------------------------------
(* The inductive invariant of the platform: that of the engine and of the  *)
(* registry, who posts which quests, and the wiring of the deployment,     *)
(* which no call of the platform changes.                                  *)
Posted ==
  \A id \in QP!QuestIds : quests[id] # None =>
    IF quests[id].quest_type = "Build"
    THEN quests[id].employer \in Employers ELSE quests[id].employer = Admin

Wired ==
  /\ poolAdmin = Admin /\ Registry \in spenders
  /\ badgeAdmin = Registry /\ badgeNftAddress = Nft
  /\ rewardPoolAddress = Pool /\ rewardPool = Pool
  /\ badgeContract = Nft

EngineInv == QP!TypeOK /\ QP!QuestFacts
CatalogueInv == CP!RegistryInv /\ CP!ProgressOnCourses
PlatformInv == EngineInv /\ CatalogueInv /\ Posted /\ Wired

LEMMA TransferTypes ==
  ASSUME balance \in [Address -> Nat], NEW l \in Learners, NEW id, Pays(l, id)
  PROVE  balance' \in [Address -> Nat]
BY TransferConserves, AccountAssumption, AccountsApart, NumberAssumption DEF Pays

LEMMA LedgerOnly ==
  ASSUME EngineInv, UNCHANGED <<poolOwn, now, vaultOwn, engineOwn>>,
         balance' \in [Address -> Nat]
  PROVE  EngineInv'
BY DEF EngineInv, poolOwn, vaultOwn, engineOwn, QP!TypeOK, QP!RP!TypeOK, QP!SV!TypeOK,
       QP!QuestFacts

LEMMA EngineInvStep ==
  ASSUME EngineInv, [Next]_vars
  PROVE  EngineInv'
<1>1. ASSUME [QP!Next]_(QP!vars) PROVE EngineInv'
  BY <1>1, EngineAssumptions, QP!FactsStep DEF EngineInv
<1>2. CASE CourseStep
  <2>1. /\ UNCHANGED <<poolOwn, now, vaultOwn, engineOwn>>
        /\ \/ UNCHANGED balance
           \/ \E l \in Learners, id \in CR!CourseIds : Pays(l, id)
    BY <1>2, CoursePayments
  <2>2. balance \in [Address -> Nat]
    BY DEF EngineInv, QP!TypeOK, QP!RP!TypeOK
  <2>3. balance' \in [Address -> Nat]
    BY <2>1, <2>2, TransferTypes
  <2>4. QED
    BY <2>1, <2>3, LedgerOnly
<1>3. CASE QuestStep \/ PoolStep \/ VaultStep \/ GovernanceStep
  BY <1>1, <1>3, QuestCalls, TreasuryCalls, StakingCalls, GovernanceCalls
<1>4. CASE UNCHANGED vars
  <2>1. UNCHANGED QP!vars
    BY <1>4 DEF vars, poolOwn, vaultOwn, engineOwn, QP!vars, QP!pool, QP!vault, QP!wiring, QP!board
  <2>2. QED
    BY <1>1, <2>1
<1>5. QED
  BY <1>2, <1>3, <1>4 DEF Next

LEMMA CatalogueInvStep ==
  ASSUME CatalogueInv, [Next]_vars
  PROVE  CatalogueInv' /\ CP!FinishedStays
<1>1. CASE CourseStep
  <2>1. CP!RegistryInv' /\ CP!FinishedStays
    BY <1>1, CourseCalls, RegistryAssumptions, CP!RegistryInvStep DEF CatalogueInv
  <2>2. CP!ProgressOnCourses'
    BY <1>1, CourseCalls, RegistryAssumptions, CP!ProgressStep DEF CatalogueInv, CP!RegistryInv
  <2>3. QED
    BY <2>1, <2>2 DEF CatalogueInv
<1>2. CASE UNCHANGED <<courseCount, courses, progress, pending, paid>>
  <2>1. CP!RegistryInv' /\ CP!ProgressOnCourses'
    BY <1>2 DEF CatalogueInv, CP!RegistryInv, CP!RegistryTypes, CP!RewardAtMostOnce,
                CP!IsCourseFinished, CP!GetProgress, CP!ProgressOnCourses
  <2>2. CP!FinishedStays
    BY <1>2 DEF CP!FinishedStays, CP!IsCourseFinished, CP!GetProgress
  <2>3. QED
    BY <2>1, <2>2 DEF CatalogueInv
<1>3. QED
  BY <1>1, <1>2 DEF Next, QuestStep, PoolStep, VaultStep, GovernanceStep, vars, registryOwn

(* Who may call what: a call of the quests is a call of the engine, which  *)
(* leaves the wiring of the contracts alone.                               *)
LEMMA QuestWiring == QuestStep => UNCHANGED <<poolAdmin, spenders, rewardPool>>
BY DEF QuestStep, QE!CreateBuildQuest, QE!CreateExploreQuest, QE!NewQuest, QE!RefundQuest,
       QE!ReviewSubmission, QE!BatchReviewSubmissions, QE!Decide, QE!SubmitProof,
       QE!VerifyExploreQuest, QE!RP!DistributeReward, QE!pool, QE!wiring

LEMMA WiredStep ==
  ASSUME Wired, [Next]_vars
  PROVE  Wired'
<1>1. CASE CourseStep
  <2>1. UNCHANGED <<poolAdmin, spenders, rewardPool, badgeContract>>
    BY <1>1, CoursePayments DEF poolOwn, engineOwn, governanceOwn
  <2>2. UNCHANGED <<badgeAdmin, badgeNftAddress, rewardPoolAddress>>
    BY <1>1 DEF CourseStep, CR!CreateCourse, CR!Enroll, CR!CompleteModule, CR!MintOnCompletion,
                CR!BN!MintBadge, CR!ClaimCompletionReward, CR!badgeVars, CR!wiring
  <2>3. QED
    BY <2>1, <2>2 DEF Wired
<1>2. CASE QuestStep
  BY <1>2, QuestWiring DEF QuestStep, Wired, badgeOwn, registryOwn, governanceOwn
<1>3. CASE PoolStep
  BY <1>3 DEF PoolStep, CR!RP!SetPause, CR!RP!EmergencySweep, CR!RP!FundPool, Wired, badgeOwn,
              registryOwn, engineOwn, governanceOwn
<1>4. CASE VaultStep
  BY <1>4 DEF VaultStep, Wired, poolOwn, badgeOwn, registryOwn, engineOwn, governanceOwn
<1>5. CASE GovernanceStep
  BY <1>5 DEF GovernanceStep, GV!SeedProposal, GV!CastVote, GV!ExecuteProposal, GV!Close,
              GV!badgeVars, GV!wiring, Wired, poolOwn, registryOwn, engineOwn
<1>6. CASE UNCHANGED vars
  BY <1>6 DEF vars, Wired, poolOwn, badgeOwn, registryOwn, engineOwn, governanceOwn
<1>7. QED
  BY <1>1, <1>2, <1>3, <1>4, <1>5, <1>6 DEF Next

(* Only an employer posts a build quest, only the administrator an explore *)
(* quest, and neither changes hands.                                       *)
LEMMA PostedStep ==
  ASSUME EngineInv, Posted, [Next]_vars
  PROVE  Posted'
<1>1. QE!QuestIds = QP!QuestIds
  BY DEF QE!QuestIds, QP!QuestIds
<1>2. CASE UNCHANGED quests
  BY <1>2 DEF Posted, QP!QuestIds
<1>3. quests \in [QP!QuestIds -> QP!Quest \cup {None}] /\ questCounter \in Nat
  BY NumberAssumption DEF EngineInv, QP!TypeOK
<1>4. ASSUME NEW employer, NEW reward, NEW type, QE!NewQuest(employer, reward, type),
             IF type = "Build" THEN employer \in Employers ELSE employer = Admin
      PROVE  Posted'
  <2> DEFINE quest == [employer |-> employer, reward_amount |-> reward,
                       quest_type |-> type, active |-> TRUE]
  <2>1. quests' = [quests EXCEPT ![questCounter + 1] = quest]
    BY <1>4 DEF QE!NewQuest
  <2>2. quest.quest_type = type /\ quest.employer = employer
    OBVIOUS
  <2> HIDE DEF quest
  <2>3. \A id \in QP!QuestIds : quests'[id] = quests[id] \/ quests'[id] = quest
    BY <1>3, <2>1
  <2>4. QED
    BY <1>4, <2>2, <2>3 DEF Posted, QP!QuestIds
<1>5. ASSUME NEW employer, NEW id, QE!RefundQuest(employer, id)
      PROVE  Posted'
  <2> DEFINE closed == [quests[id] EXCEPT !.active = FALSE]
  <2>1. quests' = [quests EXCEPT ![id] = closed] /\ quests[id] # None
    BY <1>5 DEF QE!RefundQuest
  <2>2. ASSUME NEW i \in QP!QuestIds, quests'[i] # None
        PROVE  IF quests'[i].quest_type = "Build"
               THEN quests'[i].employer \in Employers ELSE quests'[i].employer = Admin
    <3>1. CASE i # id
      <4>1. quests'[i] = quests[i]
        BY <1>3, <2>1, <3>1
      <4>2. QED
        BY <2>2, <4>1 DEF Posted
    <3>2. CASE i = id
      <4>1. quests[i] \in QP!Quest /\ quests'[i] = closed
        BY <1>3, <2>1, <3>2
      <4>2. closed.quest_type = quests[i].quest_type /\ closed.employer = quests[i].employer
        BY <3>2, <4>1 DEF QP!Quest
      <4>3. QED
        BY <2>1, <3>2, <4>1, <4>2 DEF Posted
    <3>3. QED
      BY <3>1, <3>2
  <2>3. QED
    BY <2>2 DEF Posted, QP!QuestIds
<1>6. CASE QuestStep
  <2>1. \/ UNCHANGED quests
        \/ \E employer \in Employers : \E reward : QE!NewQuest(employer, reward, "Build")
        \/ \E reward : QE!NewQuest(Admin, reward, "Explore")
        \/ \E employer, id : QE!RefundQuest(employer, id)
    BY <1>6 DEF QuestStep, QE!CreateBuildQuest, QE!CreateExploreQuest, QE!ReviewSubmission,
                QE!BatchReviewSubmissions, QE!Decide, QE!SubmitProof, QE!VerifyExploreQuest,
                QE!board
  <2>2. QED
    BY <1>2, <1>4, <1>5, <2>1
<1>7. CASE CourseStep
  BY <1>2, <1>7, CoursePayments DEF engineOwn
<1>8. CASE PoolStep \/ VaultStep \/ GovernanceStep \/ UNCHANGED vars
  BY <1>2, <1>8 DEF PoolStep, VaultStep, GovernanceStep, vars, engineOwn
<1>9. QED
  BY <1>6, <1>7, <1>8 DEF Next

(* The deployment establishes it.                                          *)
LEMMA PlatformInvInit == Init => PlatformInv
<1> SUFFICES ASSUME Init PROVE PlatformInv
  OBVIOUS
<1>1. EngineInv
  <2>1. QP!RP!TypeOK
    BY AccountAssumption, AccountsApart DEF Init, QP!RP!TypeOK
  <2>2. QP!SV!TypeOK
    BY AccountAssumption, AccountsApart, NumberAssumption DEF Init, QP!SV!TypeOK
  <2>3. QE!QuestIds = QP!QuestIds /\ QE!Pairs = QP!Pairs
    BY DEF QP!QuestIds, QE!QuestIds, QP!Pairs, QE!Pairs
  <2>4. /\ quests \in [QP!QuestIds -> QP!Quest \cup {None}]
        /\ submissions \in [QP!Pairs -> {None, "Pending", "Approved", "Rejected"}]
        /\ verified \in [QP!Pairs -> Nat]
    BY <2>3 DEF Init
  <2>5. QP!TypeOK
    <3>1. enginePaused \in BOOLEAN
      BY DEF Init
    <3>2. questCounter = 0 /\ MaxQuests \in Nat
      BY NumberAssumption DEF Init
    <3>3. questCounter \in 0..MaxQuests
      BY <3>2
    <3>4. QED
      BY <2>1, <2>2, <2>4, <3>1, <3>3 DEF Init, QP!TypeOK
  <2>6. \A p \in QP!Pairs : submissions[p] = None /\ verified[p] = 0
    BY <2>3 DEF Init
  <2>7. \A id \in QP!QuestIds : quests[id] = None
    BY <2>3 DEF Init
  <2>8. questCounter = 0
    BY DEF Init
  <2>9. QP!QuestFacts
    BY <2>6, <2>7, <2>8 DEF QP!QuestFacts
  <2>10. QED
    BY <2>5, <2>9 DEF EngineInv
<1>2. CatalogueInv
  BY DEF Init, CatalogueInv, CP!RegistryInv, CP!RegistryTypes, CP!RewardAtMostOnce,
         CP!ProgressOnCourses, CP!CourseIds, CR!CourseIds, CP!Completions, CR!Completions
<1>3. Posted /\ Wired
  BY DEF Init, Posted, Wired, QP!QuestIds, QE!QuestIds
<1>4. QED
  BY <1>1, <1>2, <1>3 DEF PlatformInv

LEMMA PlatformInvStep ==
  ASSUME PlatformInv, [Next]_vars
  PROVE  PlatformInv'
BY EngineInvStep, CatalogueInvStep, PostedStep, WiredStep DEF PlatformInv

(* Together, the contracts keep what each of them keeps on its own.        *)
THEOREM PlatformInvariant == Spec => []PlatformInv
BY PlatformInvInit, PlatformInvStep, PTL DEF Spec

-----------------------------------------------------------------------------
(* The escrow on the platform.                                             *)
LEMMA SameBooks ==
  QE!Locked = QP!Locked /\ QE!Approved = QP!Approved /\ QE!Refunded = QP!Refunded
BY DEF QE!Locked, QE!Approved, QE!Refunded, QE!RewardOf, QE!Pairs, QE!QuestIds,
       QP!Locked, QP!Approved, QP!Refunded, QP!RewardOf, QP!Pairs, QP!QuestIds

LEMMA SameLedger == EscrowLedger <=> QP!EscrowLedger
BY SameBooks, SameTotal DEF EscrowLedger, QE!EscrowLedger, QP!EscrowLedger

(* A call that is one of the engine's, or none of its business.            *)
LEMMA EngineSteps ==
  ASSUME EngineInv, [Next]_vars
  PROVE  \/ [QP!Next]_(QP!vars) /\ UNCHANGED paid
         \/ /\ UNCHANGED <<quests, submissions, verified, stakes>>
            /\ \E l \in Learners, id \in CR!CourseIds : Pays(l, id)
<1>1. CASE CourseStep
  <2>1. UNCHANGED <<poolOwn, now, vaultOwn, engineOwn>>
    BY <1>1, CoursePayments
  <2>2. CASE UNCHANGED <<balance, paid>>
    BY <2>1, <2>2 DEF poolOwn, vaultOwn, engineOwn, QP!vars, QP!pool, QP!vault, QP!wiring,
                      QP!board
  <2>3. CASE \E l \in Learners, id \in CR!CourseIds : Pays(l, id)
    BY <2>1, <2>3 DEF engineOwn, vaultOwn
  <2>4. QED
    BY <1>1, <2>2, <2>3, CoursePayments
<1>2. CASE QuestStep \/ PoolStep \/ VaultStep \/ GovernanceStep
  <2>1. UNCHANGED paid
    BY <1>2 DEF QuestStep, PoolStep, VaultStep, GovernanceStep, registryOwn
  <2>2. QED
    BY <1>2, <2>1, QuestCalls, TreasuryCalls, StakingCalls, GovernanceCalls
<1>3. CASE UNCHANGED vars
  BY <1>3 DEF vars, poolOwn, vaultOwn, engineOwn, registryOwn, QP!vars, QP!pool, QP!vault,
              QP!wiring, QP!board
<1>4. QED
  BY <1>1, <1>2, <1>3 DEF Next

(* What a reward of the registry does to one account.                      *)
LEMMA PaymentEffect ==
  ASSUME EngineInv, NEW l \in Learners, NEW id, Pays(l, id), NEW a \in Address
  PROVE  /\ balance[a] \in Nat
         /\ balance'[a] = IF a = Pool THEN balance[a] - Reward
                          ELSE IF a = l THEN balance[a] + Reward ELSE balance[a]
<1>1. balance \in [Address -> Nat] /\ Reward \in Nat
  BY NumberAssumption DEF EngineInv, QP!TypeOK, QP!RP!TypeOK
<1>2. Pool \in Address /\ l \in Address /\ l # Pool
  BY AccountAssumption, AccountsApart
<1>3. QED
  BY <1>1, <1>2 DEF Pays, Transfer

LEMMA EscrowLedgerStep ==
  ASSUME EngineInv, QP!EscrowLedger, [Next]_vars
  PROVE  QP!EscrowLedger'
<1>1. CASE [QP!Next]_(QP!vars) /\ UNCHANGED paid
  BY <1>1, EngineAssumptions, QP!EscrowStep DEF EngineInv
<1>2. CASE /\ UNCHANGED <<quests, submissions, verified, stakes>>
           /\ \E l \in Learners, id \in CR!CourseIds : Pays(l, id)
  <2>1. UNCHANGED <<QP!Locked, QP!Refunded, QP!Approved>>
    BY <1>2, EngineAssumptions, QP!BooksKept
  <2>2. Engine \in Address /\ Engine # Pool /\ Engine \notin Learners
    BY AccountAssumption, AccountsApart
  <2>3. balance'[Engine] = balance[Engine]
    BY <1>2, <2>2, PaymentEffect
  <2>4. QED
    BY <2>1, <2>3 DEF QP!EscrowLedger, QP!Total, QP!Units, QP!UnitsAt, QP!Cardinality
<1>3. QED
  BY <1>1, <1>2, EngineSteps

LEMMA EscrowLedgerInit == Init => QP!EscrowLedger
<1> SUFFICES ASSUME Init PROVE QP!EscrowLedger
  OBVIOUS
<1>1. QP!QuestIds = QE!QuestIds /\ QP!Pairs = QE!Pairs
  BY DEF QP!QuestIds, QE!QuestIds, QP!Pairs, QE!Pairs
<1>2. QP!Total(QP!Locked) = 0
  <2>1. \A x \in DOMAIN QP!Locked : QP!Locked[x] = 0
    BY <1>1 DEF Init, QP!Locked
  <2>2. QED
    BY <2>1, EngineAssumptions, QP!EmptyTotal
<1>3. QP!Total(QP!Approved) = 0
  <2>1. \A x \in DOMAIN QP!Approved : QP!Approved[x] = 0
    BY <1>1, RecordAssumption DEF Init, QP!Approved
  <2>2. QED
    BY <2>1, EngineAssumptions, QP!EmptyTotal
<1>4. QP!Total(QP!Refunded) = 0
  <2>1. \A x \in DOMAIN QP!Refunded : QP!Refunded[x] = 0
    BY <1>1 DEF Init, QP!Refunded
  <2>2. QED
    BY <2>1, EngineAssumptions, QP!EmptyTotal
<1>5. balance[Engine] = Endowment[Engine] /\ Endowment[Engine] \in Nat
  BY AccountAssumption, AccountsApart DEF Init
<1>6. QED
  BY <1>2, <1>3, <1>4, <1>5 DEF QP!EscrowLedger

(* The engine's balance is what its quests account for, also while the     *)
(* registry spends from the same pool and learners stake what they earn.   *)
THEOREM PlatformEscrow == Spec => []EscrowLedger
<1>1. PlatformInv /\ QP!EscrowLedger /\ [Next]_vars => QP!EscrowLedger'
  BY EscrowLedgerStep DEF PlatformInv
<1>2. Spec => []QP!EscrowLedger
  BY <1>1, EscrowLedgerInit, PlatformInvariant, PTL DEF Spec
<1>3. QED
  BY <1>2, SameLedger, PTL

-----------------------------------------------------------------------------
(* Badges and finished courses.  A call of the registry finishes nothing   *)
(* and mints nothing, or finishes one course and mints its badge.          *)
Mints(l, id) ==
  /\ ~ \E i \in DOMAIN badges[l] : badges[l][i].course_id = id
  /\ badges' = [badges EXCEPT ![l] = Append(badges[l], [course_id |-> id, minted_at |-> now])]
  /\ \A k \in Learners, j \in CR!CourseIds :
       CP!IsCourseFinished(k, j)' <=> CP!IsCourseFinished(k, j) \/ (k = l /\ j = id)

LEMMA SameCourses == CR!CourseIds = CP!CourseIds
BY DEF CR!CourseIds, CP!CourseIds

LEMMA LastModuleMints ==
  ASSUME CatalogueInv, Wired, NEW l \in Learners, NEW id \in CR!CourseIds, NEW verifier,
         CP!CompleteModule(verifier, l, id), CP!IsLastModule(l, id)
  PROVE  Mints(l, id)
<1>1. id \in CP!CourseIds /\ CP!RegistryTypes
  BY SameCourses DEF CatalogueInv, CP!RegistryInv
<1>2. CP!IsCourseFinished(l, id)'
  BY <1>1, RegistryAssumptions, CP!LastModuleFinishes
<1>3. \A k \in Learners, j \in CR!CourseIds :
        <<k, j>> # <<l, id>> => CP!GetProgress(k, j)' = CP!GetProgress(k, j)
  BY <1>1, SameCourses, RegistryAssumptions, CP!ProgressByOne
<1>4. ASSUME NEW k \in Learners, NEW j \in CR!CourseIds
      PROVE  CP!IsCourseFinished(k, j)' <=> CP!IsCourseFinished(k, j) \/ (k = l /\ j = id)
  <2>1. CASE k = l /\ j = id
    BY <1>2, <2>1
  <2>2. CASE ~(k = l /\ j = id)
    <3>1. UNCHANGED courses
      BY DEF CP!CompleteModule, CP!catalogue
    <3>2. QED
      BY <1>3, <2>2, <3>1 DEF CP!IsCourseFinished
  <2>3. QED
    BY <2>1, <2>2
<1>5. CP!BN!MintBadge(Registry, l, id)
  BY AccountAssumption, AccountsApart DEF CP!CompleteModule, CP!MintOnCompletion, Wired
<1>6. QED
  BY <1>4, <1>5 DEF Mints, CP!BN!MintBadge, CP!BN!CanMint, CP!BN!HasBadge, CP!BN!NewBadge

LEMMA CourseMints ==
  ASSUME CatalogueInv, Wired, CourseStep
  PROVE  \/ /\ UNCHANGED badges
            /\ \A l \in Learners, id \in CR!CourseIds :
                 CP!IsCourseFinished(l, id)' <=> CP!IsCourseFinished(l, id)
         \/ \E l \in Learners, id \in CR!CourseIds : Mints(l, id)
<1>1. CASE \E l \in Learners, id \in CR!CourseIds, verifier \in {Admin} :
             CP!CompleteModule(verifier, l, id) /\ CP!IsLastModule(l, id)
  BY <1>1, LastModuleMints
<1>2. CASE ~ \E l \in Learners, id \in CR!CourseIds, verifier \in {Admin} :
             CP!CompleteModule(verifier, l, id) /\ CP!IsLastModule(l, id)
  <2>1. ASSUME NEW l \in Learners, NEW id \in CR!CourseIds, CR!CompleteModule(Admin, l, id)
        PROVE  UNCHANGED badges
    <3>1. ~CR!IsLastModule(l, id)
      BY <1>2, <2>1, SameCompletion, SameProgress
    <3>2. QED
      BY <2>1, <3>1 DEF CR!CompleteModule, CR!badgeVars
  <2>2. UNCHANGED badges
    BY <2>1 DEF CourseStep, CR!CreateCourse, CR!Enroll, CR!ClaimCompletionReward, CR!badgeVars
  <2>3. ASSUME NEW l \in Learners, NEW id \in CR!CourseIds
        PROVE  CP!IsCourseFinished(l, id)' <=> CP!IsCourseFinished(l, id)
    <3>1. CP!IsCourseFinished(l, id) => CP!IsCourseFinished(l, id)'
      BY CatalogueInvStep, SameCourses DEF CP!FinishedStays, Next
    <3>2. ASSUME ~CP!IsCourseFinished(l, id), CP!IsCourseFinished(l, id)'
          PROVE  FALSE
      BY <1>2, <3>2, CourseCalls, SameCourses, RegistryAssumptions, CP!FinishedByLastModule
      DEF CatalogueInv
    <3>3. QED
      BY <3>1, <3>2
  <2>4. QED
    BY <2>2, <2>3
<1>3. QED
  BY <1>1, <1>2

(* Every other call leaves the badges and the courses alone.               *)
LEMMA OtherMints ==
  ASSUME [Next]_vars, ~CourseStep
  PROVE  UNCHANGED <<badges, registryOwn>>
BY DEF Next, QuestStep, PoolStep, VaultStep, GovernanceStep, GV!SeedProposal, GV!CastVote,
       GV!ExecuteProposal, GV!Close, GV!badgeVars, badgeOwn, vars

(* The inductive invariant about badges: a learner's vector has one badge  *)
(* for each course that the learner has finished, and no other.            *)
BadgeCourses(l) == {badges[l][i].course_id : i \in DOMAIN badges[l]}
BadgeRecord == [course_id : CR!CourseIds, minted_at : Int]
BadgesHeld ==
  /\ badges \in [Learners -> Seq(BadgeRecord)]
  /\ \A l \in Learners : \A i, j \in DOMAIN badges[l] :
       badges[l][i].course_id = badges[l][j].course_id => i = j
  /\ \A l \in Learners : BadgeCourses(l) = Finished(l)

LEMMA FinishedMeaning ==
  \A l : Finished(l) = {id \in CR!CourseIds : CP!IsCourseFinished(l, id)}
BY SameProgress DEF Finished

LEMMA FinishedMeaningNext ==
  \A l : Finished(l)' = {id \in CR!CourseIds : CP!IsCourseFinished(l, id)'}
BY DEF Finished, CR!IsCourseFinished, CR!GetProgress, CP!IsCourseFinished, CP!GetProgress

LEMMA HeldStep ==
  ASSUME EngineInv, CatalogueInv, Wired, BadgesHeld, [Next]_vars
  PROVE  BadgesHeld'
<1>1. ASSUME UNCHANGED badges, \A l \in Learners : Finished(l)' = Finished(l)
      PROVE  BadgesHeld'
  <2>1. \A l : BadgeCourses(l)' = BadgeCourses(l)
    BY <1>1 DEF BadgeCourses
  <2>2. BadgeRecord' = BadgeRecord
    BY DEF BadgeRecord, CR!CourseIds
  <2>3. QED
    BY <1>1, <2>1, <2>2 DEF BadgesHeld
<1>2. ASSUME NEW l \in Learners, NEW id \in CR!CourseIds, Mints(l, id)
      PROVE  BadgesHeld'
  <2> DEFINE new == [course_id |-> id, minted_at |-> now]
             list == Append(badges[l], new)
  <2>1. /\ badges[l] \in Seq(BadgeRecord) /\ badges \in [Learners -> Seq(BadgeRecord)]
        /\ badges' = [badges EXCEPT ![l] = list]
    BY <1>2 DEF BadgesHeld, Mints
  <2>2. new \in BadgeRecord /\ new.course_id = id
    BY NumberAssumption DEF EngineInv, QP!TypeOK, QP!SV!TypeOK, BadgeRecord
  <2> HIDE DEF new
  <2>3. /\ list \in Seq(BadgeRecord)
        /\ Len(badges[l]) \in Nat /\ DOMAIN badges[l] = 1..Len(badges[l])
        /\ DOMAIN list = 1..(Len(badges[l]) + 1)
        /\ \A i \in DOMAIN badges[l] : list[i] = badges[l][i]
        /\ list[Len(badges[l]) + 1] = new
    BY <2>1, <2>2
  <2> DEFINE n == Len(badges[l]) + 1
  <2>4. /\ n \in DOMAIN list /\ list[n].course_id = id
        /\ \A i \in DOMAIN list : i = n \/ (i \in DOMAIN badges[l] /\ list[i] = badges[l][i])
    BY <2>2, <2>3
  <2> HIDE DEF list, n
  <2>5. badges' \in [Learners -> Seq(BadgeRecord)] /\ badges'[l] = list
    BY <2>1, <2>3
  <2>6. \A k \in Learners : k # l => badges'[k] = badges[k]
    BY <2>1
  <2>7. \A i \in DOMAIN badges[l] : badges[l][i].course_id # id
    BY <1>2 DEF Mints
  <2>8. ASSUME NEW k \in Learners, NEW i \in DOMAIN badges'[k], NEW j \in DOMAIN badges'[k],
               badges'[k][i].course_id = badges'[k][j].course_id
        PROVE  i = j
    <3>1. CASE k # l
      BY <2>6, <2>8, <3>1 DEF BadgesHeld
    <3>2. CASE k = l
      BY <2>4, <2>5, <2>7, <2>8, <3>2 DEF BadgesHeld
    <3>3. QED
      BY <3>1, <3>2
  <2>9. ASSUME NEW k \in Learners PROVE BadgeCourses(k)' = Finished(k)'
    <3>1. CASE k # l
      <4>1. BadgeCourses(k)' = BadgeCourses(k)
        BY <2>6, <3>1 DEF BadgeCourses
      <4>2. Finished(k)' = Finished(k)
        BY <1>2, <3>1, FinishedMeaning, FinishedMeaningNext DEF Mints
      <4>3. QED
        BY <4>1, <4>2 DEF BadgesHeld
    <3>2. CASE k = l
      <4>1. {list[i].course_id : i \in DOMAIN list} = BadgeCourses(l) \cup {id}
        <5>1. \A i \in DOMAIN badges[l] : i \in DOMAIN list /\ list[i] = badges[l][i]
          BY <2>3 DEF list
        <5>2. QED
          BY <2>4, <5>1 DEF BadgeCourses
      <4>2. BadgeCourses(k)' = {list[i].course_id : i \in DOMAIN list}
        BY <2>5, <3>2 DEF BadgeCourses
      <4>3. Finished(k)' = Finished(l) \cup {id}
        BY <1>2, <3>2, FinishedMeaning, FinishedMeaningNext DEF Mints
      <4>4. QED
        BY <4>1, <4>2, <4>3 DEF BadgesHeld
    <3>3. QED
      BY <3>1, <3>2
  <2>10. QED
    BY <2>5, <2>8, <2>9 DEF BadgesHeld, BadgeRecord, CR!CourseIds
<1>3. CASE CourseStep
  BY <1>1, <1>2, <1>3, CourseMints, FinishedMeaning, FinishedMeaningNext
<1>4. CASE ~CourseStep
  <2>1. UNCHANGED <<badges, courses, progress>>
    BY <1>4, OtherMints DEF registryOwn
  <2>2. \A l \in Learners : Finished(l)' = Finished(l)
    BY <2>1 DEF Finished, CR!IsCourseFinished, CR!GetProgress, CR!CourseIds
  <2>3. QED
    BY <1>1, <2>1, <2>2
<1>5. QED
  BY <1>3, <1>4

(* As many badges as finished courses, and no more than the catalogue has. *)
LEMMA FinishedBound ==
  ASSUME CatalogueInv, NEW l \in Learners
  PROVE  IsFiniteSet(Finished(l)) /\ Cardinality(Finished(l)) <= courseCount
<1>1. courseCount \in Nat
  BY DEF CatalogueInv, CP!RegistryInv, CP!RegistryTypes
<1>2. Finished(l) \subseteq 1..courseCount
  BY SameCourses, NumberAssumption
  DEF CatalogueInv, CP!RegistryInv, CP!RegistryTypes, Finished, CR!IsCourseFinished,
      CR!CourseIds, CP!CourseIds
<1>3. IsFiniteSet(1..courseCount) /\ Cardinality(1..courseCount) = courseCount
  BY <1>1, FS_Interval
<1>4. QED
  BY <1>2, <1>3, FS_Subset

LEMMA BadgeCount ==
  ASSUME BadgesHeld, NEW l \in Learners
  PROVE  /\ GV!BN!GetBadgeCount(l) = Cardinality(Finished(l))
         /\ Cardinality(Finished(l)) \in Nat
<1> DEFINE n == Len(badges[l])
           course == [i \in 1..n |-> badges[l][i].course_id]
<1>1. n \in Nat /\ DOMAIN badges[l] = 1..n
  BY DEF BadgesHeld
<1>2. GV!BN!GetBadgeCount(l) = n
  BY DEF GV!BN!GetBadgeCount
<1> HIDE DEF n
<1>3. course \in Bijection(1..n, Finished(l))
  <2>1. \A i, j \in 1..n : course[i] = course[j] => i = j
    BY <1>1 DEF BadgesHeld
  <2>2. Finished(l) = {course[i] : i \in 1..n}
    BY <1>1 DEF BadgesHeld, BadgeCourses
  <2> HIDE DEF course
  <2>3. course \in [1..n -> Finished(l)]
    BY <2>2 DEF course
  <2>4. QED
    BY <2>1, <2>2, <2>3 DEF Bijection, Injection, Surjection, IsInjective
<1>4. IsFiniteSet(1..n) /\ Cardinality(1..n) = n
  BY <1>1, FS_Interval
<1>5. Cardinality(Finished(l)) = n
  BY <1>3, <1>4, FS_Bijection DEF ExistsBijection
<1>6. QED
  BY <1>1, <1>2, <1>5

LEMMA HeldInit == Init => BadgesHeld
<1> SUFFICES ASSUME Init PROVE BadgesHeld
  OBVIOUS
<1>1. \A l \in Learners : badges[l] = <<>>
  BY DEF Init
<1>2. \A l \in Learners : BadgeCourses(l) = {} /\ Finished(l) = {}
  BY <1>1 DEF Init, BadgeCourses, Finished, CR!IsCourseFinished
<1>3. badges \in [Learners -> Seq(BadgeRecord)]
  BY DEF Init
<1>4. \A l \in Learners : DOMAIN badges[l] = {}
  BY <1>1
<1>5. QED
  BY <1>2, <1>3, <1>4 DEF BadgesHeld

(* In every reachable state a learner holds one badge, of its own course,  *)
(* for every course the learner has finished.                              *)
THEOREM HeldInvariant == Spec => []BadgesHeld
<1>1. PlatformInv /\ BadgesHeld /\ [Next]_vars => BadgesHeld'
  BY HeldStep DEF PlatformInv
<1>2. QED
  BY <1>1, HeldInit, PlatformInvariant, PTL DEF Spec

(* On the platform a badge and a finished course are the same thing: no    *)
(* badge is missing, none is extra, and the catalogue bounds their number. *)
THEOREM OneBadgePerCompletion == Spec => []BadgesAreCompletions
<1>1. PlatformInv /\ BadgesHeld => BadgesAreCompletions
  <2> SUFFICES ASSUME PlatformInv, BadgesHeld, NEW l \in Learners
               PROVE  /\ BadgeCourses(l) = Finished(l)
                      /\ GV!BN!GetBadgeCount(l) = Cardinality(Finished(l))
                      /\ GV!BN!GetBadgeCount(l) <= courseCount
    BY DEF BadgesAreCompletions, BadgeCourses
  <2>1. BadgeCourses(l) = Finished(l)
    BY DEF BadgesHeld
  <2>2. QED
    BY <2>1, BadgeCount, FinishedBound DEF PlatformInv
<1>2. QED
  BY <1>1, PlatformInvariant, HeldInvariant, PTL

-----------------------------------------------------------------------------
(* Votes.  The inductive invariant adds that who has not voted has cast    *)
(* nothing.                                                                *)
VotesHeld ==
  /\ cast \in [GV!Ballots -> [yes : Nat, no : Nat, times : Nat]]
  /\ \A b \in GV!Ballots : b \notin userVotes => cast[b].yes = 0 /\ cast[b].no = 0
  /\ VotesEarned

LEMMA FinishedGrows ==
  ASSUME CatalogueInv, [Next]_vars, NEW l \in Learners
  PROVE  /\ Cardinality(Finished(l)) \in Nat /\ Cardinality(Finished(l)') \in Nat
         /\ Cardinality(Finished(l)) <= Cardinality(Finished(l)')
<1>1. Finished(l) \subseteq Finished(l)'
  BY CatalogueInvStep, SameCourses, FinishedMeaning, FinishedMeaningNext DEF CP!FinishedStays
<1>2. Finished(l)' \subseteq 1..MaxCourses
  BY FinishedMeaningNext DEF CR!CourseIds
<1>3. IsFiniteSet(1..MaxCourses)
  BY NumberAssumption, FS_Interval
<1>4. IsFiniteSet(Finished(l)')
  BY <1>2, <1>3, FS_Subset
<1>5. QED
  BY <1>1, <1>4, FS_Subset, FS_CardinalityType

LEMMA VoteCounts ==
  ASSUME BadgesHeld, VotesHeld, NEW voter \in Learners, NEW id \in ProposalIds,
         NEW support \in BOOLEAN, GV!CastVote(voter, id, support),
         \A l \in Learners : Finished(l)' = Finished(l)
  PROVE  VotesHeld'
<1> DEFINE b == <<voter, id>>
           w == GV!BN!GetBadgeCount(voter)
           ballot == GV!Ballot(voter, id, support, w)
<1>1. /\ b \in GV!Ballots /\ b \notin userVotes /\ userVotes' = userVotes \cup {b}
      /\ cast' = [cast EXCEPT ![b] = ballot]
  BY DEF GV!CastVote, GV!Count, GV!Ballots
<1>2. w \in Nat /\ w = Cardinality(Finished(voter))
  BY BadgeCount
<1>3. /\ cast[b] \in [yes : Nat, no : Nat, times : Nat]
      /\ cast[b].yes = 0 /\ cast[b].no = 0 /\ cast[b].times \in Nat
  BY <1>1 DEF VotesHeld
<1> HIDE DEF w
<1>4. /\ ballot.yes = IF support THEN w ELSE 0
      /\ ballot.no = IF support THEN 0 ELSE w
      /\ ballot.times = cast[b].times + 1
      /\ ballot = [yes |-> ballot.yes, no |-> ballot.no, times |-> ballot.times]
  BY <1>2, <1>3 DEF GV!Ballot
<1> HIDE DEF ballot
<1>5. /\ ballot \in [yes : Nat, no : Nat, times : Nat]
      /\ ballot.yes + ballot.no = w
  <2>1. ballot.yes \in Nat /\ ballot.no \in Nat /\ ballot.times \in Nat
    BY <1>2, <1>3, <1>4
  <2>2. ballot \in [yes : Nat, no : Nat, times : Nat]
    BY <1>4, <2>1
  <2>3. ballot.yes + ballot.no = w
    BY <1>2, <1>4
  <2>4. QED
    BY <2>2, <2>3
<1>6. /\ cast' \in [GV!Ballots -> [yes : Nat, no : Nat, times : Nat]]
      /\ cast'[b] = ballot /\ \A c \in GV!Ballots : c # b => cast'[c] = cast[c]
  <2> HIDE DEF b
  <2>1. QED
    BY <1>1, <1>5 DEF VotesHeld
<1>7. VotesEarned'
  <2>1. ASSUME NEW l \in Learners, NEW i \in ProposalIds
        PROVE  cast'[<<l, i>>].yes + cast'[<<l, i>>].no <= Cardinality(Finished(l)')
    <3>1. <<l, i>> \in GV!Ballots /\ Finished(l)' = Finished(l)
      BY DEF GV!Ballots
    <3>2. CASE <<l, i>> = b
      BY <1>2, <1>5, <1>6, <3>1, <3>2
    <3>3. CASE <<l, i>> # b
      BY <1>6, <3>1, <3>3 DEF VotesHeld, VotesEarned
    <3>4. QED
      BY <3>2, <3>3
  <2>2. QED
    BY <2>1 DEF VotesEarned
<1>8. QED
  BY <1>1, <1>6, <1>7 DEF VotesHeld, GV!Ballots

LEMMA VotesStep ==
  ASSUME CatalogueInv, BadgesHeld, VotesHeld, [Next]_vars
  PROVE  VotesHeld'
<1>1. CASE UNCHANGED <<cast, userVotes>>
  <2>1. ASSUME NEW l \in Learners, NEW id \in ProposalIds
        PROVE  cast'[<<l, id>>].yes + cast'[<<l, id>>].no <= Cardinality(Finished(l)')
    <3>1. /\ cast[<<l, id>>].yes \in Nat /\ cast[<<l, id>>].no \in Nat
          /\ cast[<<l, id>>].yes + cast[<<l, id>>].no <= Cardinality(Finished(l))
      BY DEF VotesHeld, VotesEarned, GV!Ballots
    <3>2. cast' = cast
      BY <1>1
    <3> HIDE DEF VotesHeld
    <3>3. QED
      BY <3>1, <3>2, FinishedGrows
  <2>2. QED
    BY <1>1, <2>1 DEF VotesHeld, VotesEarned, GV!Ballots
<1>2. ASSUME NEW voter \in Learners, NEW id \in ProposalIds, NEW support \in BOOLEAN,
             GV!CastVote(voter, id, support), GovernanceStep
      PROVE  VotesHeld'
  <2>1. UNCHANGED <<courses, progress>>
    BY <1>2 DEF GovernanceStep, registryOwn
  <2>2. \A l \in Learners : Finished(l)' = Finished(l)
    BY <2>1 DEF Finished, CR!IsCourseFinished, CR!GetProgress, CR!CourseIds
  <2>3. QED
    BY <1>2, <2>2, VoteCounts
<1>3. CASE GovernanceStep
  BY <1>1, <1>2, <1>3 DEF GovernanceStep, GV!SeedProposal, GV!ExecuteProposal, GV!Close, GV!history
<1>4. CASE CourseStep \/ QuestStep \/ PoolStep \/ VaultStep \/ UNCHANGED vars
  BY <1>1, <1>4 DEF CourseStep, QuestStep, PoolStep, VaultStep, vars, governanceOwn
<1>5. QED
  BY <1>3, <1>4 DEF Next

LEMMA VotesInit == Init => VotesHeld
<1> SUFFICES ASSUME Init PROVE VotesHeld
  OBVIOUS
<1>1. cast = [b \in GV!Ballots |-> [yes |-> 0, no |-> 0, times |-> 0]]
  BY DEF Init
<1>2. \A b \in GV!Ballots : cast[b].yes = 0 /\ cast[b].no = 0
  BY <1>1
<1>3. cast \in [GV!Ballots -> [yes : Nat, no : Nat, times : Nat]]
  BY <1>1
<1>4. ASSUME NEW l \in Learners, NEW id \in ProposalIds
      PROVE  cast[<<l, id>>].yes + cast[<<l, id>>].no <= Cardinality(Finished(l))
  <2>1. <<l, id>> \in GV!Ballots
    BY DEF GV!Ballots
  <2>2. Cardinality(Finished(l)) \in Nat
    BY HeldInit, BadgeCount
  <2>3. QED
    BY <1>2, <2>1, <2>2
<1>5. QED
  BY <1>2, <1>3, <1>4 DEF VotesHeld, VotesEarned

(* The votes that a learner has cast on a proposal weigh no more than the  *)
(* courses that the learner has finished by now.                           *)
THEOREM VotesAreEarned == Spec => []VotesEarned
<1>1. PlatformInv /\ BadgesHeld /\ VotesHeld /\ [Next]_vars => VotesHeld'
  BY VotesStep DEF PlatformInv
<1>2. VotesHeld => VotesEarned
  BY DEF VotesHeld
<1>3. QED
  BY <1>1, <1>2, VotesInit, PlatformInvariant, HeldInvariant, PTL DEF Spec

-----------------------------------------------------------------------------
(* What learners receive from all six contracts.                           *)
CoursePay(l) == [id \in CR!CourseIds |-> paid[<<l, id>>]]
Income(l) ==
  QP!Purse(l) = Endowment[l] + Reward * Total(CoursePay(l)) + Total(QP!Earned(l))

LEMMA SamePurse ==
  \A l : /\ QE!Earned(l) = QP!Earned(l)
         /\ QP!Purse(l) = balance[l] + QE!SV!StakeOf(l)
BY DEF QE!Earned, QE!RewardOf, QE!QuestIds, QE!SV!StakeOf,
       QP!Earned, QP!RewardOf, QP!QuestIds, QP!SV!StakeOf, QP!Purse

LEMMA SameIncome == LearnerIncome <=> \A l \in Learners : Income(l)
BY SamePurse DEF LearnerIncome, Income, CoursePay

LEMMA CoursePayType ==
  ASSUME CatalogueInv, NEW l \in Learners
  PROVE  /\ CoursePay(l) \in [CR!CourseIds -> Nat] /\ IsFiniteSet(CR!CourseIds)
         /\ Total(CoursePay(l)) \in Nat
<1>1. paid \in [Learners \X CR!CourseIds -> Nat]
  BY SameCourses DEF CatalogueInv, CP!RegistryInv, CP!RegistryTypes, CP!Completions
<1>2. CoursePay(l) \in [CR!CourseIds -> Nat] /\ IsFiniteSet(CR!CourseIds)
  BY <1>1, NumberAssumption, FS_Interval DEF CoursePay, CR!CourseIds
<1>3. QED
  BY <1>2, UnitsFinite

(* One more course is paid: the sum of the events of the course's learner  *)
(* grows by one, the others' stay.                                         *)
LEMMA OneMorePaid ==
  ASSUME CatalogueInv, NEW k \in Learners, NEW i \in CR!CourseIds, Pays(k, i),
         NEW l \in Learners
  PROVE  /\ Total(CoursePay(l)) \in Nat
         /\ Total(CoursePay(l)') = Total(CoursePay(l)) + IF l = k THEN 1 ELSE 0
<1>1. paid \in [Learners \X CR!CourseIds -> Nat]
  BY SameCourses DEF CatalogueInv, CP!RegistryInv, CP!RegistryTypes, CP!Completions
<1>2. paid' = [paid EXCEPT ![<<k, i>>] = paid[<<k, i>>] + 1] /\ paid[<<k, i>>] \in Nat
  BY <1>1 DEF Pays
<1>3. CoursePay(l) \in [CR!CourseIds -> Nat] /\ IsFiniteSet(CR!CourseIds)
  BY CoursePayType
<1>4. Total(CoursePay(l)) \in Nat
  BY CoursePayType
<1>5. CoursePay(l)' = [id \in CR!CourseIds |-> paid'[<<l, id>>]]
  BY DEF CoursePay, CR!CourseIds
<1>6. CASE l # k
  <2>1. \A id \in CR!CourseIds : paid'[<<l, id>>] = paid[<<l, id>>]
    BY <1>1, <1>2, <1>6
  <2>2. CoursePay(l)' = CoursePay(l)
    BY <1>5, <2>1 DEF CoursePay
  <2>3. QED
    BY <1>4, <1>6, <2>2
<1>7. CASE l = k
  <2>1. \A id \in CR!CourseIds :
          paid'[<<l, id>>] = IF id = i THEN CoursePay(l)[i] + 1 ELSE CoursePay(l)[id]
    BY <1>1, <1>2, <1>7 DEF CoursePay
  <2>2. CoursePay(l)' = [CoursePay(l) EXCEPT ![i] = CoursePay(l)[i] + 1]
    BY <1>3, <1>5, <2>1
  <2>3. CoursePay(l)[i] \in Nat /\ CoursePay(l)[i] + 1 \in Nat
    BY <1>3
  <2>4. Total([CoursePay(l) EXCEPT ![i] = CoursePay(l)[i] + 1]) =
          Total(CoursePay(l)) - CoursePay(l)[i] + (CoursePay(l)[i] + 1)
    BY <1>3, <2>3, TotalUpdate
  <2>5. QED
    BY <1>4, <1>7, <2>2, <2>3, <2>4
<1>8. QED
  BY <1>4, <1>6, <1>7

LEMMA EngineSums ==
  ASSUME EngineInv, NEW l \in Learners
  PROVE  /\ Total(QP!Earned(l)) \in Nat /\ QP!Purse(l) \in Nat /\ Endowment[l] \in Nat
         /\ l \in QP!Outsiders
<1>1. Total(QP!Earned(l)) \in Nat
  BY EngineAssumptions, QP!EarnedSum, SameTotal DEF EngineInv, QP!TypeOK, QP!EngineTypes
<1>2. QP!Purse(l) \in Nat /\ Endowment[l] \in Nat
  BY EngineAssumptions, QP!PurseType DEF EngineInv, QP!Purse
<1>3. l \in QP!Outsiders
  BY AccountAssumption, AccountsApart DEF QP!Outsiders
<1>4. QED
  BY <1>1, <1>2, <1>3

LEMMA IncomeStep ==
  ASSUME EngineInv, CatalogueInv, [Next]_vars, NEW l \in Learners, Income(l)
  PROVE  Income(l)'
<1>1. /\ Total(QP!Earned(l)) \in Nat /\ Endowment[l] \in Nat /\ Reward \in Nat
  BY EngineSums, NumberAssumption
<1>2. Total(CoursePay(l)) \in Nat
  BY CoursePayType
<1>3. QP!Purse(l) = Endowment[l] + Reward * Total(CoursePay(l)) + Total(QP!Earned(l))
  BY DEF Income
<1>4. SUFFICES QP!Purse(l)' = Endowment[l] + Reward * Total(CoursePay(l)') + Total(QP!Earned(l)')
  BY DEF Income
<1>5. CASE [QP!Next]_(QP!vars) /\ UNCHANGED paid
  <2>1. PICK v \in Nat : QP!Gains(l, v)
    BY <1>5, EngineSums, EngineAssumptions, QP!IncomeStep DEF EngineInv
  <2>2. /\ QP!Purse(l)' = QP!Purse(l) + v
        /\ Total(QP!Earned(l)') = Total(QP!Earned(l)) + v
    BY <2>1, SameTotal DEF QP!Gains
  <2>3. CoursePay(l)' = CoursePay(l)
    BY <1>5 DEF CoursePay, CR!CourseIds
  <2> DEFINE pay == Reward * Total(CoursePay(l))
  <2>4. pay \in Nat
    BY <1>1, <1>2
  <2>5. Reward * Total(CoursePay(l)') = pay
    BY <2>3
  <2> HIDE DEF pay
  <2>6. QP!Purse(l) = Endowment[l] + pay + Total(QP!Earned(l))
    BY <1>3 DEF pay
  <2>7. QED
    BY <1>1, <2>2, <2>4, <2>5, <2>6
<1>6. CASE /\ UNCHANGED <<quests, submissions, verified, stakes>>
           /\ \E k \in Learners, i \in CR!CourseIds : Pays(k, i)
  <2>1. PICK k \in Learners, i \in CR!CourseIds : Pays(k, i)
    BY <1>6
  <2>2. QP!Earned(l)' = QP!Earned(l)
    BY <1>6 DEF QP!Earned, QP!RewardOf, QP!QuestIds
  <2>3. l \in Address /\ l # Pool
    BY AccountAssumption, AccountsApart
  <2>4. balance[l] \in Nat /\ balance'[l] = IF l = k THEN balance[l] + Reward ELSE balance[l]
    BY <2>1, <2>3, PaymentEffect
  <2>5. /\ QP!SV!StakeOf(l)' = QP!SV!StakeOf(l)
        /\ QP!SV!StakeOf(l) \in Nat
    BY <1>6, EngineAssumptions, QP!PurseType DEF QP!SV!StakeOf, EngineInv
  <2>6. QP!Purse(l)' = QP!Purse(l) + (IF l = k THEN Reward ELSE 0)
    BY <1>1, <2>4, <2>5 DEF QP!Purse
  <2> DEFINE t == Total(CoursePay(l))
  <2>7. Total(CoursePay(l)') = IF l = k THEN t + 1 ELSE t
    BY <1>2, <2>1, OneMorePaid
  <2>8. t \in Nat /\ QP!Purse(l) = Endowment[l] + Reward * t + Total(QP!Earned(l))
    BY <1>2, <1>3
  <2> HIDE DEF t
  <2>9. Reward * (t + 1) = Reward * t + Reward /\ Reward * t \in Nat
    BY <1>1, <2>8
  <2>10. CASE l = k
    BY <1>1, <2>2, <2>6, <2>7, <2>8, <2>9, <2>10
  <2>11. CASE l # k
    BY <1>1, <2>2, <2>6, <2>7, <2>8, <2>9, <2>11
  <2>12. QED
    BY <2>10, <2>11
<1>7. QED
  BY <1>5, <1>6, EngineSteps

LEMMA ZeroTotal ==
  ASSUME NEW f, \A x \in DOMAIN f : f[x] = 0
  PROVE  Total(f) = 0
BY EngineAssumptions, QP!EmptyTotal, SameTotal

LEMMA IncomeInit ==
  ASSUME Init, NEW l \in Learners
  PROVE  Income(l)
<1>1. QP!Purse(l) = Endowment[l] + 0
  BY DEF Init, QP!Purse, QP!SV!StakeOf
<1>2. Total(CoursePay(l)) = 0
  <2>1. \A id \in DOMAIN CoursePay(l) : CoursePay(l)[id] = 0
    BY SameCourses DEF Init, CoursePay, CR!Completions
  <2>2. QED
    BY <2>1, ZeroTotal
<1>3. Total(QP!Earned(l)) = 0
  <2>1. ASSUME NEW id \in QP!QuestIds PROVE QP!Earned(l)[id] = 0
    <3>1. /\ submissions[<<l, id>>] = None /\ verified[<<l, id>>] = 0 /\ quests[id] = None
          /\ None # "Approved"
      BY RecordAssumption DEF Init, QE!Pairs, QE!QuestIds, QP!QuestIds
    <3>2. QED
      BY <3>1 DEF QP!Earned, QP!RewardOf
  <2>2. QED
    BY <2>1, ZeroTotal DEF QP!Earned
<1>4. Endowment[l] \in Nat /\ Reward * 0 = 0
  BY AccountAssumption, NumberAssumption
<1>5. QED
  BY <1>1, <1>2, <1>3, <1>4 DEF Income

(* What a learner has and stakes is the endowment, the rewards of the      *)
(* courses whose completion was published, and what quests paid.           *)
THEOREM IncomeAccounted == Spec => []LearnerIncome
<1> DEFINE All == \A l \in Learners : Income(l)
<1>1. Init => All
  BY IncomeInit
<1>2. PlatformInv /\ All /\ [Next]_vars => All'
  BY IncomeStep DEF PlatformInv
<1>3. Spec => []All
  BY <1>1, <1>2, PlatformInvariant, PTL DEF Spec
<1>4. All => LearnerIncome
  BY SameIncome
<1>5. QED
  BY <1>3, <1>4, PTL

-----------------------------------------------------------------------------
(* The treasury: the pool, and what was swept to the administrator.        *)
LEMMA SameBalanceSheet ==
  /\ FeesTaken = QP!FeeBook /\ ExplorePaid = QP!ExploreBook /\ ExploreRefunded = QP!RefundBook
  /\ QP!Treasury(Admin) = balance[Pool] + balance[Admin]
BY DEF FeesTaken, ExplorePaid, ExploreRefunded, Fee, QE!RewardOf, QE!Pairs, QE!QuestIds,
       QP!FeeBook, QP!ExploreBook, QP!RefundBook, QP!FeeOn, QP!RewardOf, QP!Pairs, QP!QuestIds,
       QP!Treasury

(* The same, over the totals, with the treasury's books by their names.    *)
Balanced ==
  QP!Treasury(Admin) + Reward * Total(paid) + Total(QP!ExploreBook) =
    Endowment[Pool] + Endowment[Admin] + Total(QP!FeeBook) + Total(QP!RefundBook)

LEMMA SameTreasury == TreasuryLedger <=> Balanced
BY SameBalanceSheet DEF TreasuryLedger, Balanced

LEMMA AdminIsTreasurer ==
  ASSUME Posted, Wired
  PROVE  QP!OneTreasurer(Admin)
<1>1. Admin \notin Learners \cup Employers \cup {Pool, Vault} /\ Pool \notin Employers
  BY AccountAssumption, AccountsApart
<1>2. BuildRewards \cup ExploreRewards \subseteq Nat
  BY NumberAssumption
<1>3. QED
  BY <1>1, <1>2 DEF QP!OneTreasurer, Posted, Wired

LEMMA TreasuryTotals ==
  ASSUME EngineInv, CatalogueInv
  PROVE  /\ QP!Treasury(Admin) \in Int /\ Total(QP!FeeBook) \in Nat
         /\ Total(QP!ExploreBook) \in Nat /\ Total(QP!RefundBook) \in Nat
         /\ Endowment[Pool] \in Nat /\ Endowment[Admin] \in Nat
         /\ Reward \in Nat /\ Total(paid) \in Nat
         /\ paid \in [CR!Completions -> Nat] /\ IsFiniteSet(CR!Completions)
<1>1. BuildRewards \cup ExploreRewards \subseteq Nat /\ Reward \in Nat
  BY NumberAssumption
<1>2. /\ Total(QP!FeeBook) \in Nat /\ Total(QP!ExploreBook) \in Nat
      /\ Total(QP!RefundBook) \in Nat
  BY <1>1, EngineAssumptions, QP!TreasuryTypes, SameTotal DEF EngineInv
<1>3. Pool \in Address /\ Admin \in Address /\ Learners \subseteq Address
  BY AccountAssumption, AccountsApart
<1>4. QP!Treasury(Admin) \in Int /\ Endowment[Pool] \in Nat /\ Endowment[Admin] \in Nat
  BY <1>3, AccountAssumption DEF EngineInv, QP!TypeOK, QP!RP!TypeOK, QP!Treasury
<1>5. paid \in [CR!Completions -> Nat]
  BY SameCourses DEF CatalogueInv, CP!RegistryInv, CP!RegistryTypes, CP!Completions,
                     CR!Completions
<1>6. IsFiniteSet(CR!Completions)
  <2>1. IsFiniteSet(Learners)
    BY <1>3, AccountAssumption, FS_Subset
  <2>2. MaxCourses \in Int
    BY NumberAssumption
  <2>3. IsFiniteSet(CR!CourseIds)
    BY <2>2, FS_Interval DEF CR!CourseIds
  <2>4. QED
    BY <2>1, <2>3, FS_Product DEF CR!Completions
<1>7. Total(paid) \in Nat
  BY <1>5, <1>6, UnitsFinite
<1>8. QED
  BY <1>1, <1>2, <1>4, <1>5, <1>6, <1>7

LEMMA BalancedStep ==
  ASSUME EngineInv, CatalogueInv, Posted, Wired, Balanced, [Next]_vars
  PROVE  Balanced'
<1> DEFINE t == Total(paid)
           spent == Total(QP!ExploreBook)
           fees == Total(QP!FeeBook)
           refunds == Total(QP!RefundBook)
           start == Endowment[Pool] + Endowment[Admin]
<1>1. /\ QP!Treasury(Admin) \in Int /\ t \in Nat /\ spent \in Nat /\ fees \in Nat
      /\ refunds \in Nat /\ start \in Nat /\ Reward \in Nat
  BY TreasuryTotals
<1>2. QP!Treasury(Admin) + Reward * t + spent = start + fees + refunds
  BY DEF Balanced
<1>3. SUFFICES QP!Treasury(Admin)' + Reward * Total(paid') + Total(QP!ExploreBook') =
                 start + Total(QP!FeeBook') + Total(QP!RefundBook')
  BY DEF Balanced
<1>4. CASE [QP!Next]_(QP!vars) /\ UNCHANGED paid
  <2>1. QP!Flows(Admin)
    BY <1>4, AdminIsTreasurer, EngineAssumptions, QP!TreasuryStep DEF EngineInv
  <2>2. PICK f, s, r \in Nat : QP!TreasuryFlow(Admin, f, s, r)
    BY <2>1 DEF QP!Flows
  <2>3. /\ QP!Treasury(Admin)' = QP!Treasury(Admin) + f + r - s
        /\ Total(QP!FeeBook') = fees + f /\ Total(QP!ExploreBook') = spent + s
        /\ Total(QP!RefundBook') = refunds + r
    BY <2>2, SameTotal DEF QP!TreasuryFlow
  <2> DEFINE pay == Reward * t
  <2>4. pay \in Nat /\ Reward * Total(paid') = pay
    BY <1>1, <1>4
  <2> HIDE DEF pay, t, spent, fees, refunds, start
  <2>5. QP!Treasury(Admin) + pay + spent = start + fees + refunds
    BY <1>2 DEF pay
  <2>6. QED
    BY <1>1, <2>2, <2>3, <2>4, <2>5
<1>5. CASE /\ UNCHANGED <<quests, submissions, verified, stakes>>
           /\ \E l \in Learners, id \in CR!CourseIds : Pays(l, id)
  <2>1. PICK l \in Learners, id \in CR!CourseIds : Pays(l, id)
    BY <1>5
  <2>2. UNCHANGED <<QP!FeeBook, QP!ExploreBook, QP!RefundBook>>
    BY <1>5, EngineAssumptions, QP!BooksStill
  <2>3. Pool \in Address /\ Admin \in Address /\ Admin # Pool /\ Admin # l /\ l # Pool
    BY AccountAssumption, AccountsApart
  <2>4. /\ balance'[Pool] = balance[Pool] - Reward /\ balance'[Admin] = balance[Admin]
        /\ balance[Pool] \in Nat /\ balance[Admin] \in Nat
    BY <2>1, <2>3, PaymentEffect
  <2>5. QP!Treasury(Admin)' = QP!Treasury(Admin) - Reward
    BY <1>1, <2>4 DEF QP!Treasury
  <2>6. Total(paid') = t + 1
    <3> DEFINE p == <<l, id>>
               v == paid[p] + 1
    <3>1. /\ paid \in [CR!Completions -> Nat] /\ IsFiniteSet(CR!Completions)
          /\ p \in CR!Completions
      BY TreasuryTotals DEF CR!Completions
    <3>2. paid' = [paid EXCEPT ![p] = v] /\ paid[p] \in Nat /\ v \in Nat
      BY <2>1, <3>1 DEF Pays
    <3> HIDE DEF p, v
    <3>3. Total([paid EXCEPT ![p] = v]) = Total(paid) - paid[p] + v
      BY <3>1, <3>2, TotalUpdate
    <3>4. QED
      BY <1>1, <3>2, <3>3 DEF v
  <2> HIDE DEF t, spent, fees, refunds, start
  <2>7. Reward * (t + 1) = Reward * t + Reward /\ Reward * t \in Nat
    BY <1>1
  <2>8. /\ Total(QP!ExploreBook') = spent /\ Total(QP!FeeBook') = fees
        /\ Total(QP!RefundBook') = refunds
    BY <2>2 DEF spent, fees, refunds
  <2>9. QED
    BY <1>1, <1>2, <2>5, <2>6, <2>7, <2>8
<1>6. QED
  BY <1>4, <1>5, EngineSteps

LEMMA BalancedInit == Init => Balanced
<1> SUFFICES ASSUME Init PROVE Balanced
  OBVIOUS
<1>1. \A p \in QP!Pairs : submissions[p] # "Approved" /\ verified[p] = 0
  BY RecordAssumption DEF Init, QE!Pairs, QE!QuestIds, QP!Pairs, QP!QuestIds
<1>2. \A id \in QP!QuestIds : quests[id] = None
  BY DEF Init, QE!QuestIds, QP!QuestIds
<1>3. Total(QP!FeeBook) = 0 /\ Total(QP!RefundBook) = 0
  <2>1. \A p \in DOMAIN QP!FeeBook : QP!FeeBook[p] = 0
    BY <1>1 DEF QP!FeeBook
  <2>2. \A id \in DOMAIN QP!RefundBook : QP!RefundBook[id] = 0
    BY <1>2 DEF QP!RefundBook
  <2>3. QED
    BY <2>1, <2>2, ZeroTotal
<1>4. Total(QP!ExploreBook) = 0
  <2>1. ASSUME NEW p \in QP!Pairs PROVE QP!ExploreBook[p] = 0
    <3>1. QP!RewardOf(p[2]) = 0 /\ verified[p] = 0
      BY <1>1, <1>2 DEF QP!RewardOf, QP!Pairs
    <3>2. QED
      BY <3>1 DEF QP!ExploreBook
  <2>2. QED
    BY <2>1, ZeroTotal DEF QP!ExploreBook
<1>5. Total(paid) = 0
  <2>1. \A p \in DOMAIN paid : paid[p] = 0
    BY DEF Init
  <2>2. QED
    BY <2>1, ZeroTotal
<1>6. QP!Treasury(Admin) = Endowment[Pool] + Endowment[Admin]
  BY DEF Init, QP!Treasury
<1>7. Endowment[Pool] \in Nat /\ Endowment[Admin] \in Nat /\ Reward * 0 = 0
  BY AccountAssumption, AccountsApart, NumberAssumption
<1>8. QED
  BY <1>3, <1>4, <1>5, <1>6, <1>7 DEF Balanced

(* The pool and what was swept from it are the endowment, plus the fees of *)
(* approved build quests and the refunds of explore quests, less one       *)
(* reward per published completion and per verification: neither the       *)
(* registry nor the engine draws a unit the other's books do not show.     *)
THEOREM TreasuryAccounted == Spec => []TreasuryLedger
<1>1. PlatformInv /\ Balanced /\ [Next]_vars => Balanced'
  BY BalancedStep DEF PlatformInv
<1>2. Spec => []Balanced
  BY <1>1, BalancedInit, PlatformInvariant, PTL DEF Spec
<1>3. QED
  BY <1>2, SameTreasury, PTL

-----------------------------------------------------------------------------
(* The vault on the platform.                                              *)
Backed == balance[Vault] = Endowment[Vault] + Total(QP!Staked)

LEMMA SameStakes == StakesBacked <=> Backed
BY DEF StakesBacked, Backed, QE!SV!VaultBacked, QE!SV!StakeOf, QE!SV!Total, QE!SV!Units,
       QE!SV!UnitsAt, QE!SV!Cardinality, QP!Staked, QP!SV!StakeOf, Total, Units, UnitsAt,
       Cardinality

LEMMA BackedStep ==
  ASSUME EngineInv, Backed, [Next]_vars
  PROVE  Backed'
<1>1. /\ Endowment[Vault] \in Nat /\ Vault \in Address /\ Vault # Pool /\ Vault \notin Learners
      /\ Vault \notin {Admin} \cup Employers \cup {Admin}
  BY AccountAssumption, AccountsApart
<1>2. Total(QP!Staked) \in Nat /\ Total(QP!Staked') \in Nat
  <2>1. QP!TypeOK /\ QP!TypeOK'
    BY EngineInvStep DEF EngineInv
  <2>2. Total(QP!Staked) \in Nat
    BY <2>1, EngineAssumptions, QP!StakedTypes, SameTotal
  <2>3. QP!Staked' \in [Learners -> Nat] /\ IsFiniteSet(Learners)
    BY <2>1, AccountAssumption, FS_Subset, EngineAssumptions
    DEF QP!Staked, QP!TypeOK, QP!SV!TypeOK, QP!SV!StakeOf, QP!SV!StakeInfo,
        QP!EngineNoneAssumption
  <2>4. QED
    BY <2>2, <2>3, UnitsFinite
<1>3. CASE [QP!Next]_(QP!vars) /\ UNCHANGED paid
  <2>1. balance'[Vault] + QP!Total(QP!Staked) = balance[Vault] + QP!Total(QP!Staked')
    BY <1>1, <1>3, EngineAssumptions, QP!VaultStaysBacked DEF EngineInv
  <2>2. balance'[Vault] + Total(QP!Staked) = balance[Vault] + Total(QP!Staked')
    BY <2>1, SameTotal
  <2>3. balance'[Vault] \in Nat
    BY <1>1, EngineInvStep DEF EngineInv, QP!TypeOK, QP!RP!TypeOK
  <2>4. QED
    BY <1>1, <1>2, <2>2, <2>3 DEF Backed
<1>4. CASE /\ UNCHANGED <<quests, submissions, verified, stakes>>
           /\ \E l \in Learners, id \in CR!CourseIds : Pays(l, id)
  <2>1. balance'[Vault] = balance[Vault]
    BY <1>1, <1>4, PaymentEffect
  <2>2. QP!Staked' = QP!Staked
    BY <1>4 DEF QP!Staked, QP!SV!StakeOf
  <2>3. QED
    BY <2>1, <2>2 DEF Backed
<1>5. QED
  BY <1>3, <1>4, EngineSteps

LEMMA BackedInit == Init => Backed
<1> SUFFICES ASSUME Init PROVE Backed
  OBVIOUS
<1>1. \A l \in Learners : QP!Staked[l] = 0
  BY DEF Init, QP!Staked, QP!SV!StakeOf
<1>2. Total(QP!Staked) = 0
  BY <1>1, ZeroTotal DEF QP!Staked
<1>3. Endowment[Vault] \in Nat /\ balance[Vault] = Endowment[Vault]
  BY AccountAssumption, AccountsApart DEF Init
<1>4. QED
  BY <1>2, <1>3 DEF Backed

(* The vault holds the tokens of every stake, whatever the other five      *)
(* contracts pay: each unstake can be paid in full.                        *)
THEOREM StakesAreBacked == Spec => []StakesBacked
<1>1. PlatformInv /\ Backed /\ [Next]_vars => Backed'
  BY BackedStep DEF PlatformInv
<1>2. Spec => []Backed
  BY <1>1, BackedInit, PlatformInvariant, PTL DEF Spec
<1>3. QED
  BY <1>2, SameStakes, PTL

-----------------------------------------------------------------------------
(* Rewards on the platform.                                                *)
LEMMA PayGrows ==
  ASSUME CatalogueInv, NEW p \in CR!Completions,
         UNCHANGED paid \/ \E l \in Learners, id \in CR!CourseIds : Pays(l, id)
  PROVE  paid[p] \in Nat /\ (paid'[p] = 0 => paid[p] = 0)
<1>1. paid \in [CR!Completions -> Nat] /\ paid[p] \in Nat
  BY SameCourses DEF CatalogueInv, CP!RegistryInv, CP!RegistryTypes, CP!Completions,
                     CR!Completions
<1>2. ASSUME NEW l \in Learners, NEW id \in CR!CourseIds, Pays(l, id)
      PROVE  paid'[p] = paid[p] \/ paid'[p] = paid[p] + 1
  BY <1>1, <1>2 DEF Pays
<1>3. QED
  BY <1>1, <1>2

(* The pool the registry is wired to refuses it only while it is paused or *)
(* short of one reward.                                                    *)
LEMMA PoolRefuses ==
  ASSUME EngineInv, Wired, ~CR!PoolPays
  PROVE  isPaused \/ balance[Pool] < Reward
<1>1. Reward \in Nat /\ Reward > 0 /\ balance[Pool] \in Nat
  BY NumberAssumption, AccountAssumption, AccountsApart DEF EngineInv, QP!TypeOK, QP!RP!TypeOK
<1>2. Admin # None
  BY AccountAssumption, AccountsApart
<1>3. QED
  BY <1>1, <1>2 DEF Wired, CR!PoolPays, CR!RP!CanDistribute, CR!RP!CanTransfer

(* A payment attempt either publishes the completion or was refused.       *)
LEMMA TryOutcome ==
  ASSUME CatalogueInv, NEW l \in Learners, NEW id \in CR!CourseIds,
         CR!TryDistributeReward(l, id), paid'[<<l, id>>] = 0
  PROVE  ~CR!PoolPays
<1> DEFINE p == <<l, id>>
<1>1. p \in CR!Completions
  BY DEF CR!Completions
<1>2. paid \in [CR!Completions -> Nat] /\ paid[p] \in Nat
  BY <1>1, SameCourses DEF CatalogueInv, CP!RegistryInv, CP!RegistryTypes, CP!Completions,
                           CR!Completions
<1>3. CR!PoolPays => paid' = [paid EXCEPT ![p] = paid[p] + 1]
  BY DEF CR!TryDistributeReward
<1> HIDE DEF p
<1>4. CR!PoolPays => paid'[p] = paid[p] + 1
  BY <1>1, <1>2, <1>3
<1>5. QED
  BY <1>2, <1>4 DEF p

LEMMA LostStep ==
  ASSUME EngineInv, CatalogueInv, Wired, [Next]_vars,
         NEW p \in CR!Completions, ~Lost(p), Lost(p)'
  PROVE  p \in pending /\ (isPaused \/ balance[Pool] < Reward)
<1>1. PICK l \in Learners, id \in CR!CourseIds : p = <<l, id>>
  BY DEF CR!Completions
<1>2. /\ p \notin pending' /\ paid'[p] = 0 /\ CP!IsCourseFinished(l, id)'
      /\ ~CP!IsCourseFinished(l, id) \/ p \in pending \/ paid[p] # 0
  BY <1>1, FinishedMeaning, FinishedMeaningNext DEF Lost
<1>3. CourseStep
  <2>1. SUFFICES ASSUME ~CourseStep PROVE FALSE
    OBVIOUS
  <2>2. UNCHANGED registryOwn
    BY <2>1, OtherMints
  <2>3. Finished(l)' = Finished(l)
    BY <2>2 DEF registryOwn, Finished, CR!IsCourseFinished, CR!GetProgress, CR!CourseIds
  <2>4. QED
    BY <1>2, <2>2, <2>3, FinishedMeaning, FinishedMeaningNext DEF registryOwn
<1>4. paid[p] = 0
  BY <1>2, <1>3, CoursePayments, PayGrows
<1>5. Pool # None
  BY AccountAssumption, AccountsApart
<1>6. CP!IsCourseFinished(l, id)
  <2>1. SUFFICES ASSUME ~CP!IsCourseFinished(l, id) PROVE FALSE
    OBVIOUS
  <2>2. \E verifier \in {Admin} : CP!CompleteModule(verifier, l, id) /\ CP!IsLastModule(l, id)
    BY <1>2, <1>3, <2>1, CourseCalls, SameCourses, RegistryAssumptions, CP!FinishedByLastModule
    DEF CatalogueInv
  <2>3. CP!TryDistributeReward(l, id) /\ pending' = CP!PendingAfter(l, id)
    BY <2>2 DEF CP!CompleteModule
  <2>4. CP!PoolPays
    BY <1>1, <1>2, <1>5, <2>3 DEF CP!PendingAfter, Wired
  <2>5. paid' = [paid EXCEPT ![p] = paid[p] + 1]
    BY <1>1, <2>3, <2>4 DEF CP!TryDistributeReward
  <2>6. paid \in [CR!Completions -> Nat]
    BY SameCourses DEF CatalogueInv, CP!RegistryInv, CP!RegistryTypes, CP!Completions,
                       CR!Completions
  <2>7. QED
    BY <1>2, <1>4, <2>5, <2>6
<1>7. p \in pending
  BY <1>2, <1>4, <1>6
<1>8. ASSUME NEW k \in Learners, NEW i \in CR!CourseIds, CR!CompleteModule(Admin, k, i)
      PROVE  FALSE
  <2>1. CASE ~CR!IsLastModule(k, i)
    BY <1>2, <1>7, <1>8, <2>1 DEF CR!CompleteModule
  <2>2. CASE CR!IsLastModule(k, i)
    <3>1. CR!TryDistributeReward(k, i) /\ pending' = CR!PendingAfter(k, i)
      BY <1>8, <2>2 DEF CR!CompleteModule
    <3>2. CR!PoolPays /\ p = <<k, i>>
      BY <1>2, <1>7, <3>1 DEF CR!PendingAfter
    <3>3. QED
      BY <1>2, <3>1, <3>2, TryOutcome
  <2>3. QED
    BY <2>1, <2>2
<1>9. PICK k \in Learners, i \in CR!CourseIds : CR!ClaimCompletionReward(k, i)
  BY <1>2, <1>3, <1>7, <1>8 DEF CourseStep, CR!CreateCourse, CR!Enroll, CR!learning
<1>10. p = <<k, i>> /\ CR!TryDistributeReward(k, i)
  BY <1>2, <1>7, <1>9 DEF CR!ClaimCompletionReward
<1>11. ~CR!PoolPays
  BY <1>2, <1>10, TryOutcome
<1>12. QED
  BY <1>7, <1>11, PoolRefuses

(* With everything wired, a reward is lost only by claiming it while the   *)
(* pool is paused or holds too little, never by finishing the course.      *)
THEOREM RewardsLostOnlyByClaim == Spec => LostOnlyByClaim
<1> DEFINE A == \A p \in CR!Completions : ~Lost(p) /\ Lost(p)' =>
                  p \in pending /\ (isPaused \/ balance[Pool] < Reward)
<1>1. PlatformInv /\ [Next]_vars => [A]_vars
  BY LostStep DEF PlatformInv
<1>2. Spec => [][A]_vars
  BY <1>1, PlatformInvariant, PTL DEF Spec
<1>3. QED
  BY <1>2 DEF LostOnlyByClaim

-----------------------------------------------------------------------------
(* Proposals on the platform.  What Governance keeps on its own holds here *)
(* too: the badges it counts come only from the registry.                  *)
GP == INSTANCE GovernanceProofs WITH
        Courses <- 1..MaxCourses, Minters <- {Registry}, Admins <- {Admin}

LEMMA GovernanceAssumptions == GP!GovernanceAssumption /\ GP!ProposalAssumption
<1>1. /\ None \notin {Registry} \cup {Admin} \cup {Nft, Elsewhere} /\ Nft # Elsewhere
      /\ EndTimes \subseteq Nat /\ MaxTime \in Nat /\ MaxVotes \in Nat
  BY AccountAssumption, AccountsApart, NumberAssumption
<1>2. IsFiniteSet(Learners)
  BY AccountAssumption, FS_Subset
<1>3. GP!IsFiniteSet(Learners)
  BY <1>2 DEF GP!IsFiniteSet, IsFiniteSet
<1>4. GP!GovernanceAssumption
  BY <1>1, <1>3 DEF GP!GovernanceAssumption
<1>5. GP!ProposalAssumption
  BY RecordAssumption DEF GP!ProposalAssumption, GP!Proposal, GV!Proposal
<1>6. QED
  BY <1>4, <1>5

LEMMA SameCount == \A l : GV!BN!GetBadgeCount(l) = GP!BN!GetBadgeCount(l)
BY DEF GV!BN!GetBadgeCount, GP!BN!GetBadgeCount

LEMMA SameVote ==
  ASSUME NEW voter, NEW id, NEW support, GV!CastVote(voter, id, support)
  PROVE  GP!CastVote(voter, id, support)
BY SameCount
DEF GV!CastVote, GV!Count, GV!Countable, GV!Tallied, GV!Ballot, GV!badgeVars, GV!wiring,
    GP!CastVote, GP!Count, GP!Countable, GP!Tallied, GP!Ballot, GP!badgeVars, GP!wiring

LEMMA SameProposal ==
  ASSUME NEW proposer, NEW id, NEW end, GV!SeedProposal(proposer, id, end)
  PROVE  GP!SeedProposal(proposer, id, end)
BY DEF GV!SeedProposal, GV!badgeVars, GV!wiring, GV!history,
       GP!SeedProposal, GP!badgeVars, GP!wiring, GP!history

LEMMA SameExecution ==
  ASSUME NEW id, GV!ExecuteProposal(id)
  PROVE  GP!ExecuteProposal(id)
BY DEF GV!ExecuteProposal, GV!Close, GV!badgeVars, GV!wiring,
       GP!ExecuteProposal, GP!Close, GP!badgeVars, GP!wiring

LEMMA QuestClock == QuestStep => UNCHANGED now
BY DEF QuestStep, QE!CreateBuildQuest, QE!CreateExploreQuest, QE!NewQuest, QE!RefundQuest,
       QE!ReviewSubmission, QE!BatchReviewSubmissions, QE!Decide, QE!SubmitProof,
       QE!VerifyExploreQuest, QE!vault

LEMMA BallotCalls ==
  ASSUME CatalogueInv, Wired, [Next]_vars
  PROVE  [GP!Next]_(GP!vars)
<1>1. ASSUME UNCHANGED <<badgeOwn, governanceOwn, now>>
      PROVE  UNCHANGED GP!vars
  BY <1>1 DEF badgeOwn, governanceOwn, GP!vars, GP!badgeVars, GP!wiring, GP!history
<1>2. CASE CourseStep
  <2>1. UNCHANGED <<governanceOwn, now>>
    BY <1>2, CoursePayments
  <2>2. badgeAdmin = Registry /\ badgeAdmin' = Registry
    BY WiredStep DEF Wired
  <2>3. CASE UNCHANGED badges
    BY <1>1, <2>1, <2>2, <2>3 DEF badgeOwn
  <2>4. ASSUME NEW l \in Learners, NEW id \in CR!CourseIds, Mints(l, id)
        PROVE  GP!Next
    <3>1. Registry # None /\ id \in 1..MaxCourses
      BY AccountAssumption, AccountsApart DEF CR!CourseIds
    <3>2. GP!BN!MintBadge(Registry, l, id)
      BY <2>1, <2>2, <2>4, <3>1
      DEF Mints, GP!BN!MintBadge, GP!BN!CanMint, GP!BN!HasBadge, GP!BN!NewBadge
    <3>3. GP!BN!Next
      BY <3>1, <3>2 DEF GP!BN!Next
    <3>4. QED
      BY <2>1, <3>3 DEF governanceOwn, GP!Next, GP!BadgeStep, GP!wiring, GP!history
  <2>5. QED
    BY <1>2, <2>3, <2>4, CourseMints
<1>3. CASE QuestStep
  BY <1>1, <1>3, QuestClock DEF QuestStep
<1>4. CASE PoolStep
  BY <1>1, <1>4 DEF PoolStep
<1>5. CASE VaultStep
  <2>1. UNCHANGED now \/ GP!BN!Tick
    BY <1>5 DEF VaultStep, badgeOwn, QE!SV!Stake, QE!SV!Unstake, QE!SV!Tick, GP!BN!Tick
  <2>2. GP!BN!Tick => GP!Next
    BY <1>5 DEF VaultStep, governanceOwn, GP!Next, GP!BadgeStep, GP!BN!Next, GP!wiring,
                GP!history
  <2>3. QED
    BY <1>1, <1>5, <2>1, <2>2 DEF VaultStep
<1>6. CASE GovernanceStep
  BY <1>6, SameVote, SameProposal, SameExecution DEF GovernanceStep, GP!Next, GP!GovernanceStep
<1>7. CASE UNCHANGED vars
  BY <1>1, <1>7 DEF vars
<1>8. QED
  BY <1>2, <1>3, <1>4, <1>5, <1>6, <1>7 DEF Next

(* Nothing has been voted on, and no badge minted, when the platform is    *)
(* deployed.                                                               *)
BallotInv == GP!GovernanceInv /\ GP!TallyInv

LEMMA BallotInit == Init => BallotInv
<1> SUFFICES ASSUME Init PROVE BallotInv
  OBVIOUS
<1>1. /\ badgeAdmin = Registry /\ badges = [l \in Learners |-> <<>>] /\ now = 0
      /\ proposals = [id \in ProposalIds |-> None] /\ userVotes = {}
      /\ outcomes = [id \in ProposalIds |-> <<>>]
      /\ cast = [b \in GP!Ballots |-> [yes |-> 0, no |-> 0, times |-> 0]]
  BY DEF Init, GV!Ballots, GP!Ballots
<1>2. \A S : <<>> \in Seq(S)
  BY EmptySeq
<1>3. GP!BP!BadgeInv
  <2>1. badges \in [Learners -> Seq(GP!BP!Badge)]
    BY <1>1, <1>2
  <2>2. 0 \in 0..MaxTime
    BY NumberAssumption
  <2>3. GP!BP!TypeOK
    BY <1>1, <2>1, <2>2 DEF GP!BP!TypeOK
  <2>4. \A l \in Learners : GP!BP!WellKept(badges[l], now)
    BY <1>1 DEF GP!BP!WellKept
  <2>5. QED
    BY <2>3, <2>4 DEF GP!BP!BadgeInv
<1>4. GP!GovernanceTypes
  BY <1>1, <1>2 DEF GP!GovernanceTypes
<1>5. GP!OneOutcome
  BY <1>1 DEF GP!OneOutcome
<1>6. GP!VoteRecords
  BY <1>1 DEF GP!VoteRecords
<1>7. GP!TallyIsBallots
  BY <1>1 DEF GP!TallyIsBallots, GP!Ballots
<1>8. QED
  BY <1>3, <1>4, <1>5, <1>6, <1>7 DEF BallotInv, GP!GovernanceInv, GP!TallyInv

LEMMA BallotStep ==
  ASSUME CatalogueInv, Wired, BallotInv, [Next]_vars
  PROVE  BallotInv'
BY BallotCalls, GovernanceAssumptions, GP!GovernanceInvStep, GP!TallyInvStep DEF BallotInv

LEMMA SameTally ==
  \A id : GV!For(id) = GP!For(id) /\ GV!Against(id) = GP!Against(id)
BY DEF GV!For, GV!Against, GP!For, GP!Against

LEMMA SameSum == \A f : GP!Total(f) = Total(f)
BY DEF GP!Total, GP!Units, GP!UnitsAt, GP!Cardinality, Total, Units, UnitsAt, Cardinality

(* All the votes for a proposal are no more than all finished courses.     *)
LEMMA VotesWithinCompletions ==
  ASSUME CatalogueInv, VotesHeld, NEW id \in ProposalIds
  PROVE  Total(GV!For(id)) <= Total([l \in Learners |-> Cardinality(Finished(l))])
<1> DEFINE for == GV!For(id)
           finished == [l \in Learners |-> Cardinality(Finished(l))]
<1>1. IsFiniteSet(Learners)
  BY AccountAssumption, FS_Subset
<1>2. ASSUME NEW l \in Learners
      PROVE  /\ for[l] \in Nat /\ finished[l] \in Nat /\ for[l] <= finished[l]
  <2>1. /\ cast[<<l, id>>].yes \in Nat /\ cast[<<l, id>>].no \in Nat
        /\ cast[<<l, id>>].yes + cast[<<l, id>>].no <= Cardinality(Finished(l))
    BY DEF VotesHeld, VotesEarned, GV!Ballots
  <2>2. Cardinality(Finished(l)) \in Nat
    BY FinishedBound, FS_CardinalityType
  <2>3. for[l] = cast[<<l, id>>].yes /\ finished[l] = Cardinality(Finished(l))
    BY DEF GV!For
  <2> HIDE DEF for, finished
  <2>4. QED
    BY <2>1, <2>2, <2>3
<1>3. for \in [Learners -> Nat] /\ finished \in [Learners -> Nat]
  BY <1>2 DEF GV!For
<1> HIDE DEF for, finished
<1>4. Total(for) <= Total(finished)
  BY <1>1, <1>2, <1>3, TotalMonotone
<1>5. QED
  BY <1>4 DEF for, finished

LEMMA ExecutionStep ==
  ASSUME CatalogueInv, VotesHeld, BallotInv, [Next]_vars,
         NEW id \in ProposalIds, outcomes'[id] # outcomes[id]
  PROVE  /\ now > proposals[id].end_time
         /\ Total(GV!For(id)) > Total(GV!Against(id))
         /\ Total(GV!For(id)) <= Total([l \in Learners |-> Cardinality(Finished(l))])
<1>1. GovernanceStep
  BY DEF Next, CourseStep, QuestStep, PoolStep, VaultStep, vars, governanceOwn
<1>2. PICK i \in ProposalIds : GV!ExecuteProposal(i)
  BY <1>1 DEF GovernanceStep, GV!SeedProposal, GV!CastVote, GV!history
<1>3. outcomes' = [outcomes EXCEPT ![i] = Append(outcomes[i], "executed")]
  BY <1>2 DEF GV!ExecuteProposal, GV!Close
<1>4. outcomes \in [ProposalIds -> Seq({"executed", "cancelled"})]
  BY DEF BallotInv, GP!GovernanceInv, GP!GovernanceTypes
<1>5. i = id
  BY <1>3, <1>4
<1>6. /\ proposals[id] # None /\ now > proposals[id].end_time
      /\ proposals[id].votes_for > proposals[id].votes_against
  BY <1>2, <1>5 DEF GV!ExecuteProposal
<1>7. /\ proposals[id].votes_for = GP!Total(GP!For(id))
      /\ proposals[id].votes_against = GP!Total(GP!Against(id))
  BY <1>6 DEF BallotInv, GP!TallyInv, GP!TallyIsBallots
<1>8. /\ proposals[id].votes_for = Total(GV!For(id))
      /\ proposals[id].votes_against = Total(GV!Against(id))
  BY <1>7, SameTally, SameSum
<1>9. QED
  BY <1>6, <1>8, VotesWithinCompletions

(* A proposal is executed after its end, by a majority whose votes are no  *)
(* more than the courses that have been finished by then.                  *)
THEOREM CompletionsExecute == Spec => ExecutedByCompletions
<1> DEFINE A ==
      \A id \in ProposalIds : outcomes'[id] # outcomes[id] =>
        /\ now > proposals[id].end_time
        /\ Total(GV!For(id)) > Total(GV!Against(id))
        /\ Total(GV!For(id)) <= Total([l \in Learners |-> Cardinality(Finished(l))])
           Kept == BadgesHeld /\ VotesHeld /\ BallotInv
<1>1. PlatformInv /\ Kept /\ [Next]_vars => Kept'
  BY HeldStep, VotesStep, BallotStep DEF PlatformInv
<1>2. Init => Kept
  BY HeldInit, VotesInit, BallotInit
<1>3. PlatformInv /\ Kept /\ [Next]_vars => [A]_vars
  BY ExecutionStep DEF PlatformInv
<1>4. Spec => [][A]_vars
  BY <1>1, <1>2, <1>3, PlatformInvariant, PTL DEF Spec
<1>5. QED
  BY <1>4 DEF ExecutedByCompletions

-----------------------------------------------------------------------------
(* The same deployment over time: the builds its contracts run.  Whatever  *)
(* the builds, the administrators and the order of upgrades, rollbacks and *)
(* migrations, the version is the history of the storage, and a badge      *)
(* contract that the registry administers keeps its code.  The storage of  *)
(* Upgrade shares nothing with that of Platform.                           *)

(* The inductive invariant: the types, and what the version stands for.    *)
UpgradeInv == UpgradeTypeOK /\ VersionIsHistory

(* A contract that was just deployed has run no schema step.               *)
LEMMA UpgradeInvInit ==
  ASSUME UpgradeInit
  PROVE  UpgradeInv
  <1> USE UpgradeAssumption
  <1>1. UpgradeTypeOK
    BY DEF UpgradeInit, UpgradeTypeOK
  <1>2. VersionIsHistory
    BY DEF UpgradeInit, VersionIsHistory, ContractVersion, Steps
  <1> QED
    BY <1>1, <1>2 DEF UpgradeInv

(* initialize writes neither the version nor a record.                     *)
LEMMA InitializeInv ==
  ASSUME UpgradeInv, NEW c \in Contracts, NEW address \in Admins \cup {RegistryContract},
         Initialize(c, address)
  PROVE  UpgradeInv'
  <1>1. UpgradeTypeOK'
    BY DEF UpgradeInv, UpgradeTypeOK, Initialize
  <1>2. VersionIsHistory'
    BY DEF UpgradeInv, VersionIsHistory, ContractVersion, Initialize
  <1> QED
    BY <1>1, <1>2 DEF UpgradeInv

(* upgrade_contract changes the code and leaves the storage alone.         *)
LEMMA UpgradeContractInv ==
  ASSUME UpgradeInv, NEW c \in Contracts, NEW caller \in Admins, NEW b \in Builds,
         UpgradeContract(c, caller, b)
  PROVE  UpgradeInv'
  <1> USE UpgradeAssumption
  <1>1. UpgradeTypeOK'
    BY DEF UpgradeInv, UpgradeTypeOK, UpgradeContract
  <1>2. VersionIsHistory'
    BY DEF UpgradeInv, VersionIsHistory, ContractVersion, UpgradeContract
  <1> QED
    BY <1>1, <1>2 DEF UpgradeInv

(* migrate runs the steps after the recorded version, up to its own.       *)
LEMMA MigrateInv ==
  ASSUME UpgradeInv, NEW c \in Contracts, NEW caller \in Admins, Migrate(c, caller)
  PROVE  UpgradeInv'
  <1> USE UpgradeAssumption
  <1>1. Steps \subseteq Nat \ {0}
    BY DEF Steps
  <1>2. ContractVersion(c) \in Nat /\ build[c] \in Nat /\ ContractVersion(c) < build[c]
    BY DEF UpgradeInv, UpgradeTypeOK, ContractVersion, Migrate, CanMigrate
  <1>3. ContractVersion(c)' = build[c]
    BY <1>2 DEF UpgradeInv, UpgradeTypeOK, ContractVersion, Migrate
  <1>4. ASSUME NEW k \in Steps
        PROVE  applied'[c][k] = applied[c][k] + (IF k \in PendingSteps(c) THEN 1 ELSE 0)
    BY DEF UpgradeInv, UpgradeTypeOK, Migrate
  <1>5. UpgradeTypeOK'
    <2>1. applied' \in [Contracts -> [Steps -> Nat]]
      <3>1. [k \in Steps |-> applied[c][k] + (IF k \in PendingSteps(c) THEN 1 ELSE 0)]
              \in [Steps -> Nat]
        BY DEF UpgradeInv, UpgradeTypeOK
      <3> QED
        BY <3>1 DEF UpgradeInv, UpgradeTypeOK, Migrate
    <2> QED
      BY <2>1 DEF UpgradeInv, UpgradeTypeOK, Migrate
  <1>6. ASSUME NEW k \in Steps
        PROVE  applied'[c][k] = IF k <= ContractVersion(c)' THEN 1 ELSE 0
    <2>1. applied[c][k] = IF k <= ContractVersion(c) THEN 1 ELSE 0
      BY DEF UpgradeInv, VersionIsHistory
    <2>2. k \in PendingSteps(c) <=> k <= build[c] /\ ContractVersion(c) < k
      BY <1>1, <1>2 DEF PendingSteps
    <2> QED
      BY <1>1, <1>2, <1>3, <1>4, <2>1, <2>2
  <1>7. ASSUME NEW d \in Contracts, d # c, NEW k \in Steps
        PROVE  applied'[d][k] = IF k <= ContractVersion(d)' THEN 1 ELSE 0
    <2>1. applied'[d] = applied[d] /\ version'[d] = version[d]
      BY <1>7 DEF UpgradeInv, UpgradeTypeOK, Migrate
    <2> QED
      BY <2>1, <1>7 DEF UpgradeInv, VersionIsHistory, ContractVersion
  <1>8. VersionIsHistory'
    BY <1>6, <1>7 DEF VersionIsHistory
  <1> QED
    BY <1>5, <1>8 DEF UpgradeInv

(* Each of the six contracts takes one of the three steps.                 *)
LEMMA StepCases ==
  ASSUME UpgradeNext
  PROVE  \E c \in Contracts :
           \/ \E address \in Admins \cup {RegistryContract} : Initialize(c, address)
           \/ \E caller \in Admins :
                \/ \E b \in Builds : UpgradeContract(c, caller, b)
                \/ Migrate(c, caller)
  <1>1. CASE RewardPoolLifecycle
    BY <1>1 DEF RewardPoolLifecycle, Maintenance, Contracts
  <1>2. CASE BadgeNFTLifecycle
    BY <1>2 DEF BadgeNFTLifecycle, Maintenance, Contracts
  <1>3. CASE CourseRegistryLifecycle
    BY <1>3 DEF CourseRegistryLifecycle, Maintenance, Contracts
  <1>4. CASE StakeVaultLifecycle
    BY <1>4 DEF StakeVaultLifecycle, Maintenance, Contracts
  <1>5. CASE QuestEngineLifecycle
    BY <1>5 DEF QuestEngineLifecycle, Maintenance, Contracts
  <1>6. CASE GovernanceLifecycle
    BY <1>6 DEF GovernanceLifecycle, Maintenance, Contracts
  <1> QED
    BY <1>1, <1>2, <1>3, <1>4, <1>5, <1>6 DEF UpgradeNext

(* Every step of every contract keeps the invariant.                       *)
LEMMA UpgradeInvStep ==
  ASSUME UpgradeInv, [UpgradeNext]_upgradeVars
  PROVE  UpgradeInv'
  <1>1. CASE UpgradeNext
    <2>1. PICK c \in Contracts :
            \/ \E address \in Admins \cup {RegistryContract} : Initialize(c, address)
            \/ \E caller \in Admins :
                 \/ \E b \in Builds : UpgradeContract(c, caller, b)
                 \/ Migrate(c, caller)
      BY <1>1, StepCases
    <2> QED
      BY <2>1, InitializeInv, UpgradeContractInv, MigrateInv
  <1>2. CASE UNCHANGED upgradeVars
    BY <1>2 DEF upgradeVars, UpgradeInv, UpgradeTypeOK, VersionIsHistory, ContractVersion
  <1> QED
    BY <1>1, <1>2

-----------------------------------------------------------------------------
(* The invariant holds in every reachable state.                           *)
THEOREM UpgradeInvariant == UpgradeSpec => []UpgradeInv
  BY UpgradeInvInit, UpgradeInvStep, PTL DEF UpgradeSpec

(* Every schema step up to the recorded version ran exactly once, none     *)
(* beyond it, for any set of builds and any order of calls.                *)
THEOREM HistoryKept ==
  UpgradeSpec => []VersionIsHistory
  <1>1. UpgradeInv => VersionIsHistory
    BY DEF UpgradeInv
  <1> QED
    BY <1>1, UpgradeInvariant, PTL

(* Storage stays well-typed.                                               *)
THEOREM UpgradeTypes ==
  UpgradeSpec => []UpgradeTypeOK
  <1>1. UpgradeInv => UpgradeTypeOK
    BY DEF UpgradeInv
  <1> QED
    BY <1>1, UpgradeInvariant, PTL

(* Nobody upgrades or migrates a badge contract that has the registry as   *)
(* its administrator.                                                      *)
THEOREM FrozenBadges ==
  UpgradeSpec => BadgeContractFrozen
  <1> DEFINE Kept == administrator["BadgeNFT"] = RegistryContract =>
       build'["BadgeNFT"] = build["BadgeNFT"] /\ version'["BadgeNFT"] = version["BadgeNFT"]
  <1>1. ASSUME UpgradeInv, [UpgradeNext]_upgradeVars PROVE [Kept]_upgradeVars
    <2> SUFFICES ASSUME UpgradeNext, administrator["BadgeNFT"] = RegistryContract
                 PROVE  build'["BadgeNFT"] = build["BadgeNFT"] /\ version'["BadgeNFT"] = version["BadgeNFT"]
      BY <1>1
    <2>1. PICK c \in Contracts :
            \/ \E address \in Admins \cup {RegistryContract} : Initialize(c, address)
            \/ \E caller \in Admins :
                 \/ \E b \in Builds : UpgradeContract(c, caller, b)
                 \/ Migrate(c, caller)
      BY StepCases
    <2>2. CASE \E address \in Admins \cup {RegistryContract} : Initialize(c, address)
      BY <2>2 DEF Initialize
    <2>3. ASSUME NEW caller \in Admins, IsAdmin(c, caller) PROVE c # "BadgeNFT"
      BY <2>3, UpgradeAssumption DEF IsAdmin
    <2>4. ASSUME NEW caller \in Admins, NEW b \in Builds, UpgradeContract(c, caller, b)
          PROVE  build'["BadgeNFT"] = build["BadgeNFT"] /\ version' = version
      BY <1>1, <2>3, <2>4 DEF UpgradeContract, UpgradeInv, UpgradeTypeOK, Contracts
    <2>5. ASSUME NEW caller \in Admins, Migrate(c, caller)
          PROVE  build' = build /\ version'["BadgeNFT"] = version["BadgeNFT"]
      BY <1>1, <2>3, <2>5 DEF Migrate, CanMigrate, UpgradeInv, UpgradeTypeOK, Contracts
    <2> QED
      BY <2>1, <2>2, <2>4, <2>5
  <1> HIDE DEF Kept
  <1>2. UpgradeSpec => [][Kept]_upgradeVars
    BY <1>1, UpgradeInvariant, PTL DEF UpgradeSpec
  <1> QED
    BY <1>2 DEF Kept, BadgeContractFrozen
================================================================================
