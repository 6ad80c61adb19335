------------------------------- MODULE Platform -------------------------------
(***************************************************************************)
(* The six contracts on one ledger, deployed and wired as the integration  *)
(* tests do it.  One RewardPool pays for the courses of CourseRegistry and *)
(* the explore quests of QuestEngine and receives the fees of its build    *)
(* quests; the badges that CourseRegistry mints are the votes Governance   *)
(* counts; stakes and quests draw on the purse that courses fill.          *)
(*                                                                         *)
(* A step is one transaction of one contract, with the calls it makes; the *)
(* addresses the contracts know each other by stay as the deployment set   *)
(* them (CourseRegistry and QuestEngine explore other wirings).            *)
(***************************************************************************)
EXTENDS Token

CONSTANTS
  Address, None, Endowment,
  Pool, Registry, Nft, Vault, Engine, Elsewhere,   \* the contracts, and none of them
  Admin,           \* the platform administrator
  Instructors, Learners, Employers,
  Donations, Reward, Hashes, MaxCourses, MaxModules,        \* see CourseRegistry
  BuildRewards, ExploreRewards, MaxQuests,                  \* see QuestEngine
  StakeAmounts, TierLow, TierHigh, LockPeriod, MaxTime,     \* see StakeVault
  ProposalIds, EndTimes, MaxVotes                           \* see Governance

(* Seven accounts; a contract signs for nothing but the calls in its code, *)
(* and the administrator does not post build quests.                       *)
Deployed == <<Pool, Registry, Nft, Vault, Engine, Elsewhere, Admin>>
Accounts == {Deployed[i] : i \in 1..7}

ASSUME AccountAssumption ==
  /\ IsFiniteSet(Address) /\ None \notin Address
  /\ Accounts \subseteq Address
  /\ \A i, j \in 1..7 : i # j => Deployed[i] # Deployed[j]
  /\ Learners \subseteq Address \ Accounts
  /\ Employers \subseteq Address \ (Accounts \cup Learners)
  /\ Instructors \subseteq Address
  /\ Endowment \in [Address -> Nat]
ASSUME NumberAssumption ==
  /\ BuildRewards \cup ExploreRewards \cup EndTimes \subseteq Nat
  /\ Donations \cup StakeAmounts \subseteq Int
  /\ Reward \in Nat \ {0}
  /\ {MaxCourses, MaxModules, MaxQuests, TierLow, TierHigh, LockPeriod, MaxTime, MaxVotes}
       \subseteq Nat

VARIABLES
  balance, poolAdmin, spenders, spenderCount, isPaused,     \* RewardPool
  badgeAdmin, badges,                                       \* BadgeNFT
  regAdmin, rewardPoolAddress, badgeNftAddress,             \* CourseRegistry
  courseCount, courses, progress, pending, paid,
  vaultAdmin, stakes,                                       \* StakeVault
  engineAdmin, enginePaused, rewardPool, stakeVault,        \* QuestEngine
  questCounter, quests, submissions, verified,
  govAdmin, badgeContract, proposals, userVotes, cast, outcomes,   \* Governance
  now                                                       \* the clock they share

registryOwn == <<regAdmin, rewardPoolAddress, badgeNftAddress, courseCount, courses,
                 progress, pending, paid>>
badgeOwn == <<badgeAdmin, badges>>
vaultOwn == <<vaultAdmin, stakes>>
engineOwn == <<engineAdmin, enginePaused, rewardPool, stakeVault, questCounter, quests,
               submissions, verified>>
governanceOwn == <<govAdmin, badgeContract, proposals, userVotes, cast, outcomes>>
poolOwn == <<poolAdmin, spenders, spenderCount, isPaused>>
vars == <<balance, poolOwn, badgeOwn, registryOwn, vaultOwn, engineOwn, governanceOwn, now>>

CR == INSTANCE CourseRegistry WITH Admins <- {Admin}
QE == INSTANCE QuestEngine WITH
        Admins <- {Admin}, ServiceAdmins <- {Admin}, Rewards <- BuildRewards \cup ExploreRewards
GV == INSTANCE Governance WITH
        Courses <- 1..MaxCourses, Minters <- {Registry}, Admins <- {Admin}

ASSUME RecordAssumption ==
  None \notin CR!Course \cup QE!Quest \cup QE!SV!StakeInfo \cup GV!Proposal \cup Nat
               \cup {"none", "Pending", "Approved", "Rejected"}

-----------------------------------------------------------------------------
(* setup_full_platform: every contract is initialized, the registry and    *)
(* the engine may spend from the pool, and nothing else has been called.   *)
Init ==
  /\ balance = Endowment
  /\ poolAdmin = Admin /\ spenders = {Registry, Engine} /\ spenderCount = 2
  /\ isPaused = FALSE
  /\ badgeAdmin = Registry /\ badges = [l \in Learners |-> <<>>]
  /\ regAdmin = Admin /\ rewardPoolAddress = Pool /\ badgeNftAddress = Nft
  /\ courseCount = 0 /\ courses = [id \in CR!CourseIds |-> None]
  /\ progress = [p \in CR!Completions |-> None]
  /\ pending = {} /\ paid = [p \in CR!Completions |-> 0]
  /\ vaultAdmin = Admin /\ stakes = [l \in Learners |-> None]
  /\ engineAdmin = Admin /\ enginePaused = FALSE
  /\ rewardPool = Pool /\ stakeVault = Vault
  /\ questCounter = 0 /\ quests = [id \in QE!QuestIds |-> None]
  /\ submissions = [p \in QE!Pairs |-> None] /\ verified = [p \in QE!Pairs |-> 0]
  /\ govAdmin = Admin /\ badgeContract = Nft
  /\ proposals = [id \in ProposalIds |-> None] /\ userVotes = {}
  /\ cast = [b \in GV!Ballots |-> [yes |-> 0, no |-> 0, times |-> 0]]
  /\ outcomes = [id \in ProposalIds |-> <<>>]
  /\ now = 0

-----------------------------------------------------------------------------
(* Courses: the registry, the badges it mints and the rewards it asks for. *)
CourseStep ==
  /\ \/ \E instructor \in Instructors, total \in 1..MaxModules, hash \in Hashes :
          CR!CreateCourse(Admin, instructor, total, hash)
     \/ \E learner \in Learners, id \in CR!CourseIds :
          \/ CR!Enroll(learner, id)
          \/ CR!CompleteModule(Admin, learner, id)
          \/ CR!ClaimCompletionReward(learner, id)
  /\ UNCHANGED <<vaultOwn, engineOwn, governanceOwn>>

(* Quests: the engine, the multiplier it reads and the pool it pays from.  *)
(* What a rejection does concerns no other contract; QuestEngine explores  *)
(* it, and its pause.                                                      *)
QuestStep ==
  /\ \/ \E employer \in Employers, reward \in BuildRewards : QE!CreateBuildQuest(employer, reward)
     \/ \E reward \in ExploreRewards : QE!CreateExploreQuest(Admin, reward)
     \/ \E employer \in Employers \cup {Admin}, id \in QE!QuestIds :
          \/ QE!RefundQuest(employer, id)
          \/ \E learner \in Learners : QE!ReviewSubmission(employer, learner, id, TRUE)
          \/ \E chosen \in SUBSET Learners : QE!BatchReviewSubmissions(employer, id, chosen)
     \/ \E learner \in Learners, id \in QE!QuestIds :
          QE!SubmitProof(learner, id) \/ QE!VerifyExploreQuest(Admin, learner, id)
  /\ UNCHANGED <<badgeOwn, registryOwn, governanceOwn>>

(* The treasury: payouts stopped and resumed, money in and out.            *)
PoolStep ==
  /\ \/ \E status \in BOOLEAN : CR!RP!SetPause(Admin, status)
     \/ CR!RP!EmergencySweep(Admin, Admin)
     \/ \E amount \in Donations : CR!RP!FundPool(Admin, amount)
  /\ UNCHANGED <<badgeOwn, registryOwn, vaultOwn, engineOwn, governanceOwn, now>>

(* Stakes, and the clock.                                                  *)
VaultStep ==
  /\ \/ \E learner \in Learners :
          \/ \E amount \in StakeAmounts : QE!SV!Stake(learner, amount)
          \/ QE!SV!Unstake(learner)
     \/ QE!SV!Tick
  /\ UNCHANGED <<poolOwn, badgeOwn, registryOwn, engineOwn, governanceOwn>>

(* Proposals of learners, and the votes their badges give them.  What      *)
(* cancelling does concerns no other contract; Governance explores it.     *)
GovernanceStep ==
  /\ \E id \in ProposalIds :
       \/ \E proposer \in Learners, end \in EndTimes : GV!SeedProposal(proposer, id, end)
       \/ \E voter \in Learners, support \in BOOLEAN : GV!CastVote(voter, id, support)
       \/ GV!ExecuteProposal(id)
  /\ UNCHANGED <<balance, poolOwn, registryOwn, vaultOwn, engineOwn>>

Next == CourseStep \/ QuestStep \/ PoolStep \/ VaultStep \/ GovernanceStep

Spec == Init /\ [][Next]_vars

-----------------------------------------------------------------------------
Finished(learner) == {id \in CR!CourseIds : CR!IsCourseFinished(learner, id)}

(* Every token a learner has was there at the start, is the reward of a    *)
(* course whose completion was published, or was earned by a quest: the    *)
(* six contracts neither lose nor invent any between them.                 *)
LearnerIncome ==
  \A l \in Learners :
    balance[l] + QE!SV!StakeOf(l) =
      Endowment[l] + Reward * Total([id \in CR!CourseIds |-> paid[<<l, id>>]])
                   + Total(QE!Earned(l))

Fee(id) == (QE!RewardOf(id) * 15) \div 100
FeesTaken == [p \in QE!Pairs |-> IF submissions[p] = "Approved" THEN Fee(p[2]) ELSE 0]
ExplorePaid == [p \in QE!Pairs |-> verified[p] * QE!RewardOf(p[2])]
ExploreRefunded ==
  [id \in QE!QuestIds |->
     IF quests[id] # None /\ quests[id].quest_type = "Explore" /\ ~quests[id].active
     THEN QE!RewardOf(id) ELSE 0]

(* The treasury, in the pool or swept to the administrator, is what it     *)
(* started with, plus the fees of approved build quests and the refunds of *)
(* explore quests, less the course and explore rewards: two spenders that  *)
(* draw on one pool are each paid in full or not at all.                   *)
TreasuryLedger ==
  balance[Pool] + balance[Admin] + Reward * Total(paid) + Total(ExplorePaid) =
    Endowment[Pool] + Endowment[Admin] + Total(FeesTaken) + Total(ExploreRefunded)

(* The engine's tokens are those of its quests also while the learners who *)
(* are paid stake, and the pool that takes its fees is paused or swept.    *)
EscrowLedger == QE!EscrowLedger

(* Wired like this, badges and finished courses are the same thing, so     *)
(* that the number of badges is bounded by the catalogue, no completion is *)
(* undone by a badge contract that refuses, and no badge is missing.       *)
BadgesAreCompletions ==
  \A l \in Learners :
    /\ {badges[l][i].course_id : i \in DOMAIN badges[l]} = Finished(l)
    /\ GV!BN!GetBadgeCount(l) = Cardinality(Finished(l))
    /\ GV!BN!GetBadgeCount(l) <= courseCount

(* A vote on a proposal weighs no more than the courses its voter has      *)
(* finished, whatever the learner earned, staked or was refused since.     *)
VotesEarned ==
  \A l \in Learners, id \in ProposalIds :
    cast[<<l, id>>].yes + cast[<<l, id>>].no <= Cardinality(Finished(l))

(* The vault can pay every stake back, also when the tokens that were      *)
(* staked came from courses and quests, between two reviews that read the  *)
(* stake: no other contract's payment ever leaves from the vault.          *)
StakesBacked == QE!SV!VaultBacked

(* A proposal is executed after its end, by more votes for it than against *)
(* it, and those for it are no more than the courses finished by all the   *)
(* learners together: from the verifier's last module to the tally nothing *)
(* makes a vote out of anything but a completion, or counts one twice.     *)
ExecutedByCompletions ==
  [][\A id \in ProposalIds : outcomes'[id] # outcomes[id] =>
       /\ now > proposals[id].end_time
       /\ Total(GV!For(id)) > Total(GV!Against(id))
       /\ Total(GV!For(id)) <= Total([l \in Learners |-> Cardinality(Finished(l))])]_vars

(* With everything wired, the reward of a finished course is paid or can   *)
(* be claimed, unless it was claimed while the pool was paused or held too *)
(* little: no other order of completions, sweeps, pauses and payments to   *)
(* the other spender loses one.                                            *)
Lost(p) == p \notin pending /\ paid[p] = 0 /\ p[2] \in Finished(p[1])
LostOnlyByClaim ==
  [][\A p \in CR!Completions : ~Lost(p) /\ Lost(p)' =>
       p \in pending /\ (isPaused \/ balance[Pool] < Reward)]_vars
=============================================================================
