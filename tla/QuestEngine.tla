----------------------------- MODULE QuestEngine -----------------------------
(***************************************************************************)
(* The QuestEngine contract (contracts/quest-engine) together with the two *)
(* contracts it calls: StakeVault (get_multiplier) and RewardPool          *)
(* (distribute_reward); here a panic of either reverts the transaction.    *)
(* Build quests are paid out of tokens the engine holds for the employer,  *)
(* explore quests out of the RewardPool.                                   *)
(***************************************************************************)
EXTENDS Token

CONSTANTS
  Address, Pool, Vault, None, Endowment,
  Engine,       \* the address of this contract
  Elsewhere,    \* an address where no contract answers
  Admins, Employers, Learners,
  ServiceAdmins, \* the addresses that may administer the pool and the vault
  Rewards,      \* the reward amounts (i128) quests are created with
  Donations,    \* the amounts the pool's administrators fund it with
  StakeAmounts, TierLow, TierHigh, LockPeriod, MaxTime,   \* see StakeVault
  MaxQuests     \* bound on the number of quests

(* The engine signs for nothing but the calls in its own code: it is       *)
(* nobody's administrator and no employer.                                 *)
ASSUME EngineAddressAssumption ==
  /\ IsFiniteSet(Address) /\ None \notin Address
  /\ {Engine, Pool, Vault, Elsewhere} \subseteq Address
  /\ Cardinality({Engine, Pool, Vault, Elsewhere}) = 4
  /\ Admins \cup Employers \cup ServiceAdmins \subseteq Address \ {Engine}
  /\ Learners \subseteq Address \ {Engine, Pool, Vault, Elsewhere}
  /\ Endowment \in [Address -> Nat]
ASSUME QuestAssumption == Rewards \subseteq Int /\ MaxQuests \in Nat
ASSUME StakingAssumption ==
  /\ Donations \cup StakeAmounts \subseteq Int
  /\ {TierLow, TierHigh, LockPeriod, MaxTime} \subseteq Nat

VARIABLES
  balance, poolAdmin, spenders, spenderCount, isPaused,   \* RewardPool
  vaultAdmin, stakes, now,                                \* StakeVault
  engineAdmin,     \* DataKey::Admin (DataKey::Token is set with it)
  enginePaused,    \* DataKey::IsPaused
  rewardPool,      \* DataKey::RewardPool
  stakeVault,      \* DataKey::StakeVault
  questCounter,    \* DataKey::QuestCounter
  quests,          \* DataKey::Quest(id)
  submissions,     \* DataKey::Submission(learner, id), proofs left out
  verified         \* history: ExploreQuestVerified events published per pair

pool == <<poolAdmin, spenders, spenderCount, isPaused>>
vault == <<vaultAdmin, stakes, now>>
wiring == <<engineAdmin, rewardPool, stakeVault>>
board == <<questCounter, quests>>
vars == <<balance, pool, vault, wiring, enginePaused, board, submissions, verified>>

QuestIds == 1..MaxQuests
Pairs == Learners \X QuestIds

RP == INSTANCE RewardPool WITH Callers <- {Engine}, Amounts <- Donations, Admins <- ServiceAdmins
SV == INSTANCE StakeVault WITH Stakers <- Learners, Admins <- ServiceAdmins

Quest == [employer : Employers \cup Admins, reward_amount : Rewards,
          quest_type : {"Build", "Explore"}, active : BOOLEAN]

ASSUME EngineNoneAssumption ==
  None \notin Quest \cup SV!StakeInfo \cup {"none", "Pending", "Approved", "Rejected"}

Init ==
  /\ RP!Init /\ SV!Init
  /\ engineAdmin = None /\ rewardPool = None /\ stakeVault = None
  /\ enginePaused = FALSE
  /\ questCounter = 0
  /\ quests = [id \in QuestIds |-> None]
  /\ submissions = [p \in Pairs |-> None]
  /\ verified = [p \in Pairs |-> 0]

-----------------------------------------------------------------------------
(* The fee is fifteen percent, rounded down; the boosted remainder is cut  *)
(* back to the remainder.                                                  *)
ComputeLearnerPayout_uncapped(reward, multiplier) ==
  LET fee == (reward * 1500) \div 10000
  IN  [fee |-> fee, learner_amount |-> ((reward - fee) * multiplier) \div 100]

ComputeLearnerPayout_feeRoundedUp(reward, multiplier) ==
  LET fee == (reward * 1500 + 9999) \div 10000
  IN  [fee |-> fee, learner_amount |-> reward - fee]

ComputeLearnerPayout(reward, multiplier) ==
  LET fee == (reward * 1500) \div 10000
      base == reward - fee
      boosted == (base * multiplier) \div 100
  IN  [fee |-> fee, learner_amount |-> IF boosted > base THEN base ELSE boosted]

Payout(learner, id) ==
  ComputeLearnerPayout(quests[id].reward_amount, SV!GetMultiplier(learner))

Cost(learner, id) == Payout(learner, id).fee + Payout(learner, id).learner_amount

(* Every approval moves its fee to the registered pool address and the     *)
(* rest to the learner.                                                    *)
AfterPayments(chosen, id) ==
  [a \in DOMAIN balance |->
     balance[a]
       - (IF a = Engine THEN Total([l \in chosen |-> Cost(l, id)]) ELSE 0)
       + (IF a = rewardPool THEN Total([l \in chosen |-> Payout(l, id).fee]) ELSE 0)
       + (IF a \in chosen THEN Payout(a, id).learner_amount ELSE 0)]

PayAll_unchecked(chosen, id) ==
  /\ chosen # {} => stakeVault = Vault
  /\ balance' = AfterPayments(chosen, id)

(* Approvals are paid from what the engine holds; one that is not covered, *)
(* or a multiplier nobody answers for, undoes them all, so that only their *)
(* sum matters.                                                            *)
PayAll(chosen, id) ==
  /\ chosen # {} => stakeVault = Vault
  /\ CanTransfer(balance, Engine, Total([l \in chosen |-> Cost(l, id)]))
  /\ balance' = AfterPayments(chosen, id)

IsAdmin(caller) == engineAdmin # None /\ caller = engineAdmin

-----------------------------------------------------------------------------
(* Administration.                                                         *)
Initialize(admin, poolAddress, vaultAddress) ==
  /\ engineAdmin = None
  /\ engineAdmin' = admin
  /\ rewardPool' = poolAddress
  /\ stakeVault' = vaultAddress
  /\ questCounter' = 0
  /\ UNCHANGED <<balance, pool, vault, enginePaused, quests, submissions, verified>>

SetPause(admin, status) ==
  /\ IsAdmin(admin)
  /\ enginePaused' = status
  /\ UNCHANGED <<balance, pool, vault, wiring, board, submissions, verified>>

SetRewardPoolAddress(admin, address) ==
  /\ IsAdmin(admin)
  /\ rewardPool' = address
  /\ UNCHANGED <<balance, pool, vault, engineAdmin, stakeVault, enginePaused, board,
                 submissions, verified>>

SetStakeVaultAddress(admin, address) ==
  /\ IsAdmin(admin)
  /\ stakeVault' = address
  /\ UNCHANGED <<balance, pool, vault, engineAdmin, rewardPool, enginePaused, board,
                 submissions, verified>>

-----------------------------------------------------------------------------
(* Quests.                                                                 *)
NewQuest(employer, reward, type) ==
  /\ questCounter < MaxQuests
  /\ questCounter' = questCounter + 1
  /\ quests' = [quests EXCEPT ![questCounter + 1] =
                  [employer |-> employer, reward_amount |-> reward,
                   quest_type |-> type, active |-> TRUE]]
  /\ UNCHANGED <<pool, vault, wiring, enginePaused, submissions, verified>>

(* The token rejects a negative reward; a reward of zero is accepted.      *)
CreateBuildQuest(employer, reward) ==
  /\ engineAdmin # None
  /\ CanTransfer(balance, employer, reward)
  /\ balance' = Transfer(balance, employer, Engine, reward)
  /\ NewQuest(employer, reward, "Build")

(* The reward is not looked at before it is paid.                          *)
CreateExploreQuest(admin, reward) ==
  /\ IsAdmin(admin)
  /\ NewQuest(admin, reward, "Explore")
  /\ UNCHANGED balance

SubmitProof_afterRejection(learner, id) ==
  /\ quests[id] # None /\ quests[id].active /\ quests[id].quest_type = "Build"
  /\ submissions[<<learner, id>>] \in {None, "Rejected"}
  /\ submissions' = [submissions EXCEPT ![<<learner, id>>] = "Pending"]
  /\ UNCHANGED <<balance, pool, vault, wiring, enginePaused, board, verified>>

SubmitProof(learner, id) ==
  /\ quests[id] # None /\ quests[id].active /\ quests[id].quest_type = "Build"
  /\ submissions[<<learner, id>>] = None
  /\ submissions' = [submissions EXCEPT ![<<learner, id>>] = "Pending"]
  /\ UNCHANGED <<balance, pool, vault, wiring, enginePaused, board, verified>>

(* What both review calls check; that the quest is still active is not     *)
(* among it.                                                               *)
MayReview_whilePaused(employer, id, chosen) ==
  /\ quests[id] # None /\ quests[id].employer = employer
  /\ \A l \in chosen : submissions[<<l, id>>] = "Pending"

MayReview(employer, id, chosen) ==
  /\ ~enginePaused
  /\ quests[id] # None /\ quests[id].employer = employer
  /\ \A l \in chosen : submissions[<<l, id>>] = "Pending"

Decide(chosen, id, status) ==
  /\ submissions' = [p \in Pairs |->
                       IF p[1] \in chosen /\ p[2] = id THEN status ELSE submissions[p]]
  /\ UNCHANGED <<pool, vault, wiring, enginePaused, board, verified>>

ReviewSubmission(employer, learner, id, approve) ==
  /\ MayReview(employer, id, {learner})
  /\ IF approve THEN PayAll({learner}, id) ELSE UNCHANGED balance
  /\ Decide({learner}, id, IF approve THEN "Approved" ELSE "Rejected")

(* The vector of learners as a set: a repeated learner is not pending the  *)
(* second time, and the order does not matter to the sum.                  *)
BatchReviewSubmissions(employer, id, chosen) ==
  /\ MayReview(employer, id, chosen)
  /\ PayAll(chosen, id)
  /\ Decide(chosen, id, "Approved")

RefundQuest_staysActive(employer, id) ==
  /\ quests[id] # None /\ quests[id].employer = employer
  /\ quests[id].active
  /\ CanTransfer(balance, Engine, quests[id].reward_amount)
  /\ balance' = Transfer(balance, Engine, employer, quests[id].reward_amount)
  /\ UNCHANGED <<pool, vault, wiring, enginePaused, board, submissions, verified>>

(* Neither the type of the quest nor what it has paid already is checked.  *)
RefundQuest(employer, id) ==
  /\ quests[id] # None /\ quests[id].employer = employer
  /\ quests[id].active
  /\ CanTransfer(balance, Engine, quests[id].reward_amount)
  /\ balance' = Transfer(balance, Engine, employer, quests[id].reward_amount)
  /\ quests' = [quests EXCEPT ![id].active = FALSE]
  /\ UNCHANGED <<pool, vault, wiring, enginePaused, questCounter, submissions, verified>>

(* Nothing records the verification, and the quest need not be active.     *)
VerifyExploreQuest(admin, learner, id) ==
  /\ IsAdmin(admin)
  /\ quests[id] # None /\ quests[id].quest_type = "Explore"
  /\ rewardPool = Pool
  /\ RP!DistributeReward(Engine, learner, quests[id].reward_amount)
  /\ verified' = [verified EXCEPT ![<<learner, id>>] = @ + 1]
  /\ UNCHANGED <<vault, wiring, enginePaused, board, submissions>>

-----------------------------------------------------------------------------
AdminStep ==
  \E admin \in Admins :
    \/ \E poolAddress \in {Pool, Elsewhere}, vaultAddress \in {Vault, Elsewhere} :
         Initialize(admin, poolAddress, vaultAddress)
    \/ \E status \in BOOLEAN : SetPause(admin, status)
    \/ \E address \in {Pool, Elsewhere} : SetRewardPoolAddress(admin, address)
    \/ \E address \in {Vault, Elsewhere} : SetStakeVaultAddress(admin, address)
    \/ \E reward \in Rewards : CreateExploreQuest(admin, reward)
    \/ \E learner \in Learners, id \in QuestIds : VerifyExploreQuest(admin, learner, id)

EmployerStep ==
  \/ \E employer \in Employers, reward \in Rewards : CreateBuildQuest(employer, reward)
  \/ \E employer \in Employers \cup Admins, id \in QuestIds :
       \/ \E learner \in Learners, approve \in BOOLEAN :
            ReviewSubmission(employer, learner, id, approve)
       \/ \E chosen \in SUBSET Learners : BatchReviewSubmissions(employer, id, chosen)
       \/ RefundQuest(employer, id)

LearnerStep == \E learner \in Learners, id \in QuestIds : SubmitProof(learner, id)

(* Calls the other two contracts receive from anyone but the engine.       *)
PoolStep ==
  /\ \/ RP!AdminStep
     \/ \E donor \in ServiceAdmins, amount \in Donations : RP!FundPool(donor, amount)
  /\ UNCHANGED <<vault, wiring, enginePaused, board, submissions, verified>>

VaultStep ==
  /\ SV!Next
  /\ UNCHANGED <<pool, wiring, enginePaused, board, submissions, verified>>

Next == AdminStep \/ EmployerStep \/ LearnerStep \/ PoolStep \/ VaultStep

Spec == Init /\ [][Next]_vars

-----------------------------------------------------------------------------
(* Every storage entry holds a value of its Rust type.                     *)
TypeOK ==
  /\ RP!TypeOK /\ SV!TypeOK
  /\ engineAdmin \in Admins \cup {None}
  /\ enginePaused \in BOOLEAN
  /\ rewardPool \in {None, Pool, Elsewhere}
  /\ stakeVault \in {None, Vault, Elsewhere}
  /\ questCounter \in 0..MaxQuests
  /\ quests \in [QuestIds -> Quest \cup {None}]
  /\ submissions \in [Pairs -> {None, "Pending", "Approved", "Rejected"}]
  /\ verified \in [Pairs -> Nat]

RewardOf(id) == IF quests[id] = None THEN 0 ELSE quests[id].reward_amount
Locked == [id \in QuestIds |->
             IF quests[id] # None /\ quests[id].quest_type = "Build" THEN RewardOf(id) ELSE 0]
Approved == [p \in Pairs |-> IF submissions[p] = "Approved" THEN RewardOf(p[2]) ELSE 0]
Refunded == [id \in QuestIds |->
               IF quests[id] # None /\ ~quests[id].active THEN RewardOf(id) ELSE 0]

(* The engine's balance is what employers locked, less one whole reward    *)
(* per approval (no dust is left by the fee) and per refund, whatever the  *)
(* multipliers, the batches and the order of calls.                        *)
EscrowLedger ==
  balance[Engine] + Total(Approved) + Total(Refunded) = Endowment[Engine] + Total(Locked)

(* A learner receives the reward less the fee once per approved quest, and *)
(* the whole reward per verification; what is staked is not lost (unless   *)
(* the learner also posts quests, or funds and sweeps the pool).           *)
Earned(l) == [id \in QuestIds |->
   (IF submissions[<<l, id>>] = "Approved" THEN RewardOf(id) - (RewardOf(id) * 15) \div 100 ELSE 0)
     + verified[<<l, id>>] * RewardOf(id)]
LearnersPaid ==
  \A l \in Learners \ (Admins \cup Employers \cup ServiceAdmins) :
    balance[l] + SV!StakeOf(l) = Endowment[l] + Total(Earned(l))

(* While the engine is paused no submission is decided, and tokens leave   *)
(* it only to refund a quest that is closed by the same call.              *)
PausedOnlyRefunds ==
  [][enginePaused /\ balance'[Engine] < balance[Engine] =>
       /\ submissions' = submissions
       /\ \E id \in QuestIds :
            /\ quests[id] # None /\ quests[id].active /\ ~quests'[id].active
            /\ balance'[Engine] = balance[Engine] - quests[id].reward_amount]_vars

(* The engine implements a board of bounties: whatever is reviewed, closed *)
(* and paid in whatever order, a decision is final, a quest is closed once *)
(* and takes no proof afterwards, and no payment or refund is partial.     *)
StageOf(id) ==
  CASE quests[id] = None -> "none"
    [] quests[id] # None /\ ~quests[id].active -> "closed"
    [] quests[id] # None /\ quests[id].active /\ quests[id].quest_type = "Build" -> "build"
    [] OTHER -> "explore"
Board == INSTANCE BountyBoard WITH
  stage  <- [id \in QuestIds |-> StageOf(id)],
  reward <- [id \in QuestIds |-> RewardOf(id)],
  status <- [p \in Pairs |-> IF submissions[p] = None THEN "none" ELSE submissions[p]],
  pot    <- balance[Engine]
ImplementsBoard == Board!Spec
-----------------------------------------------------------------------------
(* The code leaves it to the employers that no quest is paid or refunded   *)
(* out of another's escrow.  A discipline under which none is: nothing but *)
(* an unpaid, active build quest is paid, it is paid to one learner, and   *)
(* nothing else is refunded.  It restricts only what the owners of quests  *)
(* sign; the administrators, the learners and the stakers do as they like. *)
Unsettled(id) ==
  /\ quests[id] # None /\ quests[id].quest_type = "Build" /\ quests[id].active
  /\ \A l \in Learners : submissions[<<l, id>>] # "Approved"

PaysOneLearner ==
  \A l \in Learners, id \in QuestIds :
    submissions'[<<l, id>>] = "Approved" /\ submissions[<<l, id>>] # "Approved" =>
      /\ Unsettled(id)
      /\ \A other \in Learners \ {l} : submissions'[<<other, id>>] # "Approved"

RefundsUnsettled ==
  \A id \in QuestIds : quests[id] # None /\ quests'[id] # quests[id] => Unsettled(id)

DisciplinedSpec == Init /\ [][Next /\ PaysOneLearner /\ RefundsUnsettled]_vars

(* Under the discipline each build quest is a vault of its own: the engine *)
(* holds exactly the rewards of the quests that are neither paid nor       *)
(* refunded, so that none of them ever waits for another's tokens.         *)
Claims == [id \in QuestIds |-> IF Unsettled(id) THEN quests[id].reward_amount ELSE 0]
ClaimsCovered == balance[Engine] = Endowment[Engine] + Total(Claims)

(* So much of it can be seen on the calls that keep to nothing: wherever   *)
(* undisciplined calls have led, if the claims are covered, a call that    *)
(* keeps the discipline leaves them covered.                               *)
DisciplineCovers ==
  [][ClaimsCovered /\ PaysOneLearner /\ RefundsUnsettled => ClaimsCovered']_vars

-----------------------------------------------------------------------------
(* What the repository says of the escrow: each build quest is an isolated *)
(* vault that can never go negative.                                       *)
IsolatedVault ==
  \A id \in QuestIds : quests[id] # None /\ quests[id].quest_type = "Build" =>
    Refunded[id] + Total([l \in Learners |-> Approved[<<l, id>>]]) <= RewardOf(id)

(* What the repository says of staking: a learner in a higher tier is paid *)
(* more for the same build quest.                                          *)
StakeScalesPayout ==
  \A l \in Learners, id \in QuestIds :
    quests[id] # None /\ quests[id].quest_type = "Build" /\ SV!GetMultiplier(l) > 100 =>
      Payout(l, id).learner_amount > ComputeLearnerPayout(RewardOf(id), 100).learner_amount
=============================================================================
