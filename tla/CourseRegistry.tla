---------------------------- MODULE CourseRegistry ----------------------------
(***************************************************************************)
(* The CourseRegistry contract (contracts/course-registry) together with   *)
(* the two contracts it calls: BadgeNFT (mint_badge, whose panic reverts   *)
(* the whole transaction) and RewardPool (try_distribute_reward, whose     *)
(* panic is caught and leaves the rest of the transaction in place).       *)
(***************************************************************************)
EXTENDS Integers, FiniteSets

CONSTANTS
  Address, Pool, None, Endowment,
  Registry,     \* the address of this contract
  Nft,          \* the address of the BadgeNFT contract
  Elsewhere,    \* an address where neither contract answers
  Admins, Instructors, Learners,
  Donations,    \* the amounts the administrators fund the pool with
  Reward,       \* base_reward, 10_0000000 in the code
  Hashes,       \* metadata hashes
  MaxCourses,   \* bound on the number of courses
  MaxModules    \* bound on the modules of a course

(* The registry signs for nothing but the calls in its own code: it is     *)
(* nobody's administrator, apart from the badge contract's, where it is    *)
(* the caller.                                                             *)
ASSUME RegistryAssumption ==
  /\ {Registry, Nft, Elsewhere, Pool} \subseteq Address /\ None \notin Address
  /\ Cardinality({Registry, Nft, Elsewhere, Pool}) = 4
  /\ Admins \cup Instructors \cup Learners \subseteq Address
  /\ Registry \notin Admins
  /\ Endowment \in [Address -> Nat]
ASSUME RewardAssumption == Reward \in Nat \ {0}
ASSUME CourseAssumption == MaxCourses \in Nat /\ MaxModules \in Nat

VARIABLES
  balance, poolAdmin, spenders, spenderCount, isPaused,   \* RewardPool
  badgeAdmin, badges, now,                                \* BadgeNFT
  regAdmin,            \* DataKey::Admin
  rewardPoolAddress,   \* DataKey::RewardPoolAddress
  badgeNftAddress,     \* DataKey::BadgeNftAddress
  courseCount,         \* DataKey::CourseCount
  courses,             \* DataKey::Course(id)
  progress,            \* DataKey::Progress(learner, id)
  pending,             \* the keys DataKey::PendingReward(learner, id) that are set
  paid                 \* history: CourseCompleted events published per pair

poolVars == <<balance, poolAdmin, spenders, spenderCount, isPaused>>
badgeVars == <<badgeAdmin, badges, now>>
wiring == <<regAdmin, rewardPoolAddress, badgeNftAddress>>
catalogue == <<courseCount, courses>>
learning == <<progress, pending, paid>>
vars == <<poolVars, badgeVars, wiring, catalogue, learning>>

CourseIds == 1..MaxCourses
Completions == Learners \X CourseIds

RP == INSTANCE RewardPool WITH Callers <- {Registry}, Amounts <- Donations
BN == INSTANCE BadgeNFT WITH
        Courses <- CourseIds, Minters <- Admins \cup {Registry}, MaxTime <- 0

Course == [instructor : Instructors, total_modules : 1..MaxModules,
           metadata_hash : Hashes, active : BOOLEAN]

ASSUME CourseNoneAssumption == None \notin Course /\ None \notin Nat

Init ==
  /\ RP!Init /\ BN!Init
  /\ regAdmin = None /\ rewardPoolAddress = None /\ badgeNftAddress = None
  /\ courseCount = 0
  /\ courses = [id \in CourseIds |-> None]
  /\ progress = [p \in Completions |-> None]
  /\ pending = {}
  /\ paid = [p \in Completions |-> 0]

-----------------------------------------------------------------------------
GetProgress(learner, id) ==
  IF progress[<<learner, id>>] = None THEN 0 ELSE progress[<<learner, id>>]

IsCourseFinished(learner, id) ==
  courses[id] # None /\ GetProgress(learner, id) >= courses[id].total_modules

IsAdmin(caller) == regAdmin # None /\ caller = regAdmin

-----------------------------------------------------------------------------
(* Administration.                                                         *)
Initialize(admin) ==
  /\ regAdmin = None
  /\ regAdmin' = admin
  /\ UNCHANGED <<poolVars, badgeVars, rewardPoolAddress, badgeNftAddress, catalogue, learning>>

SetRewardPoolAddress(admin, address) ==
  /\ IsAdmin(admin)
  /\ rewardPoolAddress' = address
  /\ UNCHANGED <<poolVars, badgeVars, regAdmin, badgeNftAddress, catalogue, learning>>

SetBadgeNftAddress(admin, address) ==
  /\ IsAdmin(admin)
  /\ badgeNftAddress' = address
  /\ UNCHANGED <<poolVars, badgeVars, regAdmin, rewardPoolAddress, catalogue, learning>>

CreateCourse_empty(admin, instructor, total, hash) ==
  /\ IsAdmin(admin)
  /\ courseCount < MaxCourses
  /\ courseCount' = courseCount + 1
  /\ courses' = [courses EXCEPT ![courseCount + 1] =
                   [instructor |-> instructor, total_modules |-> total,
                    metadata_hash |-> hash, active |-> TRUE]]
  /\ UNCHANGED <<poolVars, badgeVars, wiring, learning>>

CreateCourse(admin, instructor, total, hash) ==
  /\ IsAdmin(admin)
  /\ total > 0
  /\ courseCount < MaxCourses
  /\ courseCount' = courseCount + 1
  /\ courses' = [courses EXCEPT ![courseCount + 1] =
                   [instructor |-> instructor, total_modules |-> total,
                    metadata_hash |-> hash, active |-> TRUE]]
  /\ UNCHANGED <<poolVars, badgeVars, wiring, learning>>

(* Every later change of a course rewrites one field of the stored record. *)
Rewrite(id, course) ==
  /\ courses' = [courses EXCEPT ![id] = course]
  /\ UNCHANGED <<poolVars, badgeVars, wiring, courseCount, learning>>

(* The record's instructor signs; nobody else is asked.                    *)
UpdateMetadata(id, hash) ==
  /\ courses[id] # None
  /\ Rewrite(id, [courses[id] EXCEPT !.metadata_hash = hash])

SetCourseStatus(admin, id, active) ==
  /\ IsAdmin(admin)
  /\ courses[id] # None
  /\ Rewrite(id, [courses[id] EXCEPT !.active = active])

TransferOwnership(current, new, id) ==
  /\ courses[id] # None
  /\ courses[id].instructor = current
  /\ Rewrite(id, [courses[id] EXCEPT !.instructor = new])

-----------------------------------------------------------------------------
(* Learning.                                                               *)
Enroll_again(learner, id) ==
  /\ courses[id] # None
  /\ courses[id].active
  /\ progress' = [progress EXCEPT ![<<learner, id>>] = 0]
  /\ UNCHANGED <<poolVars, badgeVars, wiring, catalogue, pending, paid>>

Enroll(learner, id) ==
  /\ courses[id] # None
  /\ courses[id].active
  /\ progress[<<learner, id>>] = None
  /\ progress' = [progress EXCEPT ![<<learner, id>>] = 0]
  /\ UNCHANGED <<poolVars, badgeVars, wiring, catalogue, pending, paid>>

(* The reward can be paid: the registered address is the pool and the pool *)
(* accepts.  Whatever else that address does is a caught failure.          *)
PoolPays == rewardPoolAddress = Pool /\ RP!CanDistribute(Registry, Reward)

TryDistributeReward_eventFirst(learner, id) ==
  /\ IF PoolPays THEN RP!DistributeReward(Registry, learner, Reward)
     ELSE UNCHANGED poolVars
  /\ paid' = [paid EXCEPT ![<<learner, id>>] = @ + 1]

TryDistributeReward(learner, id) ==
  IF PoolPays
  THEN /\ RP!DistributeReward(Registry, learner, Reward)
       /\ paid' = [paid EXCEPT ![<<learner, id>>] = @ + 1]
  ELSE UNCHANGED <<poolVars, paid>>

(* With a registered badge contract the mint must succeed, or the whole    *)
(* transaction is undone.                                                  *)
MintOnCompletion_bestEffort(learner, id) ==
  IF badgeNftAddress = Nft /\ BN!CanMint(Registry, learner, id)
  THEN BN!MintBadge(Registry, learner, id)
  ELSE UNCHANGED badgeVars

MintOnCompletion(learner, id) ==
  IF badgeNftAddress = None THEN UNCHANGED badgeVars
  ELSE badgeNftAddress = Nft /\ BN!MintBadge(Registry, learner, id)

(* The pending record around the payment: set first when a pool is         *)
(* registered, removed again when the pool pays.                           *)
PendingAfter_notCleared(learner, id) ==
  IF rewardPoolAddress = None THEN pending ELSE pending \cup {<<learner, id>>}

PendingAfter_clearedAnyway(learner, id) == pending \ {<<learner, id>>}

PendingAfter(learner, id) ==
  (IF rewardPoolAddress = None THEN pending ELSE pending \cup {<<learner, id>>})
     \ (IF PoolPays THEN {<<learner, id>>} ELSE {})

IsLastModule_early(learner, id) == GetProgress(learner, id) + 2 >= courses[id].total_modules

IsLastModule(learner, id) == GetProgress(learner, id) + 1 = courses[id].total_modules

(* The learner need not be enrolled, nor the course active.                *)
CompleteModule(verifier, learner, id) ==
  /\ IsAdmin(verifier)
  /\ courses[id] # None
  /\ GetProgress(learner, id) < courses[id].total_modules
  /\ progress' = [progress EXCEPT ![<<learner, id>>] = GetProgress(learner, id) + 1]
  /\ IF IsLastModule(learner, id)
     THEN /\ MintOnCompletion(learner, id)
          /\ TryDistributeReward(learner, id)
          /\ pending' = PendingAfter(learner, id)
     ELSE UNCHANGED <<poolVars, badgeVars, pending, paid>>
  /\ UNCHANGED <<wiring, catalogue>>

ClaimCompletionReward_keepsRecord(learner, id) ==
  /\ <<learner, id>> \in pending
  /\ TryDistributeReward(learner, id)
  /\ UNCHANGED <<badgeVars, wiring, catalogue, progress, pending>>

(* The record goes first, and the outcome of the payment is not looked at. *)
ClaimCompletionReward(learner, id) ==
  /\ <<learner, id>> \in pending
  /\ pending' = pending \ {<<learner, id>>}
  /\ TryDistributeReward(learner, id)
  /\ UNCHANGED <<badgeVars, wiring, catalogue, progress>>

-----------------------------------------------------------------------------
RegistryStep ==
  \/ \E admin \in Admins :
       \/ Initialize(admin)
       \/ SetRewardPoolAddress(admin, Pool) \/ SetRewardPoolAddress(admin, Elsewhere)
       \/ SetBadgeNftAddress(admin, Nft) \/ SetBadgeNftAddress(admin, Elsewhere)
       \/ \E instructor \in Instructors, total \in 0..MaxModules, hash \in Hashes :
            CreateCourse(admin, instructor, total, hash)
       \/ \E id \in CourseIds, active \in BOOLEAN : SetCourseStatus(admin, id, active)
  \/ \E id \in CourseIds :
       \/ \E hash \in Hashes : UpdateMetadata(id, hash)
       \/ \E current, new \in Instructors : TransferOwnership(current, new, id)

LearnerStep ==
  \E learner \in Learners, id \in CourseIds :
    \/ Enroll(learner, id)
    \/ \E verifier \in Admins : CompleteModule(verifier, learner, id)
    \/ ClaimCompletionReward(learner, id)

(* Calls the other two contracts receive from anyone but the registry.     *)
PoolStep ==
  /\ \/ RP!AdminStep
     \/ \E donor \in Admins, amount \in Donations : RP!FundPool(donor, amount)
  /\ UNCHANGED <<badgeVars, wiring, catalogue, learning>>

BadgeStep ==
  /\ \/ \E admin \in Admins \cup {Registry} : BN!InitializeBadge(admin)
     \/ \E admin \in Admins, learner \in Learners, id \in CourseIds :
          BN!MintBadge(admin, learner, id) \/ BN!RevokeBadge(admin, learner, id)
  /\ UNCHANGED <<poolVars, wiring, catalogue, learning>>

Next == RegistryStep \/ LearnerStep \/ PoolStep \/ BadgeStep

Spec == Init /\ [][Next]_vars

-----------------------------------------------------------------------------
(* Every storage entry holds a value of its Rust type.                     *)
TypeOK ==
  /\ RP!TypeOK /\ BN!TypeOK
  /\ regAdmin \in Admins \cup {None}
  /\ rewardPoolAddress \in {None, Pool, Elsewhere}
  /\ badgeNftAddress \in {None, Nft, Elsewhere}
  /\ courseCount \in 0..MaxCourses
  /\ courses \in [CourseIds -> Course \cup {None}]
  /\ progress \in [Completions -> Nat \cup {None}]
  /\ pending \subseteq Completions
  /\ paid \in [Completions -> Nat]

(* However completion, failed payments, claims and rewiring interleave, a  *)
(* completion is rewarded at most once; a reward that was paid cannot be   *)
(* claimed, and only a finished course has one.                            *)
RewardAtMostOnce ==
  \A p \in Completions :
    /\ paid[p] <= 1
    /\ p \in pending => paid[p] = 0
    /\ p \in pending \/ paid[p] = 1 => IsCourseFinished(p[1], p[2])

(* CourseCompleted is published for exactly the rewards that reached the   *)
(* learner: a learner's tokens are the reward times those events (unless   *)
(* the learner is also an administrator, who donates and sweeps).          *)
EventsMatchMoney ==
  \A l \in Learners \ (Admins \cup {Pool}) :
    balance[l] = Endowment[l] + Reward * Cardinality({id \in CourseIds : paid[<<l, id>>] > 0})

(* While the registry is the badge contract's admin, a badge is proof of a *)
(* finished course.                                                        *)
BadgesEarned ==
  badgeAdmin = Registry =>
    \A l \in Learners, id \in CourseIds : BN!HasBadge(l, id) => IsCourseFinished(l, id)

(* A finished course stays finished: neither a second enrolment nor any    *)
(* rewrite of the course record undoes it.                                 *)
FinishedForever ==
  [][\A l \in Learners, id \in CourseIds :
       IsCourseFinished(l, id) => IsCourseFinished(l, id)']_vars

(* A course is finished as a whole: the transaction that records the last  *)
(* module also leaves the badge, when a badge contract is registered, and  *)
(* either the payment or the claim on it, when a pool is registered.       *)
CompletionAtomic ==
  [][\A l \in Learners, id \in CourseIds :
       ~IsCourseFinished(l, id) /\ IsCourseFinished(l, id)' =>
         /\ badgeNftAddress # None => BN!HasBadge(l, id)'
         /\ rewardPoolAddress # None => (paid'[<<l, id>>] = 1) # (<<l, id>> \in pending')]_vars

(* The rewards implement the life cycle of CompletionReward.               *)
RewardStatus(p) ==
  CASE paid[p] = 1 /\ p \notin pending -> "paid"
    [] paid[p] = 0 /\ p \in pending -> "pending"
    [] paid[p] = 0 /\ p \notin pending /\ IsCourseFinished(p[1], p[2]) -> "lost"
    [] paid[p] = 0 /\ p \notin pending /\ ~IsCourseFinished(p[1], p[2]) -> "open"
    [] OTHER -> "paid twice"
Settlement == INSTANCE CompletionReward WITH status <- [p \in Completions |-> RewardStatus(p)]
ImplementsSettlement == Settlement!Spec

-----------------------------------------------------------------------------
(* What the repository says of a failed payout: the record stays, so that  *)
(* the learner can retry.  It goes only when the reward is paid.           *)
PendingUntilPaid ==
  [][\A p \in Completions : p \in pending /\ p \notin pending' => paid'[p] = paid[p] + 1]_vars
=============================================================================
