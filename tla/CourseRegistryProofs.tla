------------------------- MODULE CourseRegistryProofs -------------------------
(***************************************************************************)
(* Theorems about CourseRegistry, for every set of learners, courses and   *)
(* reward, and whatever the pool and the badge contract do.                *)
(***************************************************************************)
EXTENDS CourseRegistry, SequenceTheorems, FiniteSetTheorems, TLAPS

(* The badge contract's own invariant and its proof.                       *)
BP == INSTANCE BadgeNFTProofs WITH
        Courses <- CourseIds, Minters <- Admins \cup {Registry}, MaxTime <- 0

(* The inductive invariant.  A reward is settled in the transaction that   *)
(* finishes the course, so the invariant ties each reward to its course's  *)
(* progress; courses are created past the counter, so that no progress can *)
(* be there before its course.                                             *)
RegistryTypes ==
  /\ courseCount \in Nat
  /\ courses \in [CourseIds -> Course \cup {None}]
  /\ \A id \in CourseIds : courses[id] # None => id <= courseCount
  /\ progress \in [Completions -> Nat \cup {None}]
  /\ pending \subseteq Completions
  /\ paid \in [Completions -> Nat]

RegistryInv == RegistryTypes /\ RewardAtMostOnce

FinishedStays ==
  \A l \in Learners, id \in CourseIds : IsCourseFinished(l, id) => IsCourseFinished(l, id)'

(* A registry nobody has called yet has neither courses nor rewards.       *)
LEMMA RegistryInvInit == Init => RegistryInv
<1> SUFFICES ASSUME Init PROVE RegistryInv
  OBVIOUS
<1>1. RegistryTypes
  BY DEF Init, RegistryTypes
<1>2. RewardAtMostOnce
  BY DEF Init, RewardAtMostOnce
<1>3. QED
  BY <1>1, <1>2 DEF RegistryInv

(* A call that settles no reward and undoes no finished course.            *)
LEMMA NothingSettled ==
  ASSUME RegistryInv, RegistryTypes', UNCHANGED <<pending, paid>>, FinishedStays
  PROVE  RegistryInv'
<1>1. ASSUME NEW p \in Completions
      PROVE  /\ paid'[p] <= 1
             /\ p \in pending' => paid'[p] = 0
             /\ p \in pending' \/ paid'[p] = 1 => IsCourseFinished(p[1], p[2])'
  <2>1. p[1] \in Learners /\ p[2] \in CourseIds
    BY DEF Completions
  <2>2. QED
    BY <2>1 DEF RegistryInv, RewardAtMostOnce, FinishedStays
<1>2. RewardAtMostOnce'
  BY <1>1 DEF RewardAtMostOnce
<1>3. QED
  BY <1>2 DEF RegistryInv

(* get_progress returns a number of modules, zero for an absent record.    *)
LEMMA GetProgressType ==
  ASSUME RegistryTypes, NEW l \in Learners, NEW id \in CourseIds
  PROVE  GetProgress(l, id) \in Nat
BY DEF RegistryTypes, GetProgress, Completions

-----------------------------------------------------------------------------
(* The catalogue.                                                          *)
LEMMA CreateStep ==
  ASSUME RegistryInv, NEW admin, NEW instructor \in Instructors,
         NEW total \in 0..MaxModules, NEW hash \in Hashes,
         CreateCourse(admin, instructor, total, hash)
  PROVE  RegistryInv' /\ FinishedStays
<1> DEFINE new == courseCount + 1
           course == [instructor |-> instructor, total_modules |-> total,
                      metadata_hash |-> hash, active |-> TRUE]
<1>1. /\ new \in CourseIds /\ courses[new] = None
      /\ courses' = [courses EXCEPT ![new] = course] /\ courseCount' = new
      /\ UNCHANGED learning
  BY CourseAssumption DEF RegistryInv, RegistryTypes, CreateCourse, CourseIds
<1>2. course \in Course
  BY CourseAssumption DEF CreateCourse, Course
<1> HIDE DEF course
<1>3. RegistryTypes'
  <2>1. courses' \in [CourseIds -> Course \cup {None}]
    BY <1>1, <1>2 DEF RegistryInv, RegistryTypes
  <2>2. ASSUME NEW id \in CourseIds, courses'[id] # None PROVE id <= courseCount'
    BY <1>1, <2>2, CourseAssumption DEF RegistryInv, RegistryTypes, CourseIds
  <2>3. courseCount' \in Nat /\ UNCHANGED <<progress, pending, paid>>
    BY <1>1 DEF RegistryInv, RegistryTypes, learning
  <2>4. QED
    BY <2>1, <2>2, <2>3 DEF RegistryInv, RegistryTypes
<1>4. FinishedStays
  BY <1>1 DEF RegistryInv, RegistryTypes, FinishedStays, IsCourseFinished, GetProgress, learning
<1>5. QED
  BY <1>1, <1>3, <1>4, NothingSettled DEF learning

(* Every rewrite of a course record keeps the number of its modules.       *)
LEMMA RewriteStep ==
  ASSUME RegistryInv, NEW id \in CourseIds, NEW course \in Course,
         courses[id] # None, course.total_modules = courses[id].total_modules,
         Rewrite(id, course)
  PROVE  RegistryInv' /\ FinishedStays
<1>1. /\ courses' = [courses EXCEPT ![id] = course]
      /\ UNCHANGED courseCount /\ UNCHANGED <<progress, pending, paid>>
  BY DEF Rewrite, learning
<1>2. course # None
  BY CourseNoneAssumption
<1>3. RegistryTypes'
  BY <1>1 DEF RegistryInv, RegistryTypes
<1>4. FinishedStays
  BY <1>1, <1>2 DEF RegistryInv, RegistryTypes, FinishedStays, IsCourseFinished, GetProgress
<1>5. QED
  BY <1>1, <1>3, <1>4, NothingSettled

(* The calls on an existing course, from update_course_metadata to         *)
(* transfer_course_ownership, rewrite its record and none the number of    *)
(* its modules.                                                            *)
LEMMA RewriteCalls ==
  ASSUME RegistryTypes, NEW id \in CourseIds,
         \/ \E hash \in Hashes : UpdateMetadata(id, hash)
         \/ \E admin \in Admins, active \in BOOLEAN : SetCourseStatus(admin, id, active)
         \/ \E current, new \in Instructors : TransferOwnership(current, new, id)
  PROVE  /\ courses[id] # None
         /\ \E course \in Course : /\ course.total_modules = courses[id].total_modules
                                   /\ Rewrite(id, course)
<1> DEFINE old == courses[id]
<1>1. old # None
  BY DEF UpdateMetadata, SetCourseStatus, TransferOwnership
<1>2. old \in Course
  BY <1>1 DEF RegistryTypes
<1>3. ASSUME NEW hash \in Hashes, UpdateMetadata(id, hash)
      PROVE  \E course \in Course : course.total_modules = old.total_modules /\ Rewrite(id, course)
  <2> DEFINE course == [old EXCEPT !.metadata_hash = hash]
  <2>1. course \in Course /\ course.total_modules = old.total_modules
    BY <1>2 DEF Course
  <2>2. Rewrite(id, course)
    BY <1>3 DEF UpdateMetadata
  <2>3. QED
    BY <2>1, <2>2
<1>4. ASSUME NEW active \in BOOLEAN, NEW admin, SetCourseStatus(admin, id, active)
      PROVE  \E course \in Course : course.total_modules = old.total_modules /\ Rewrite(id, course)
  <2> DEFINE course == [old EXCEPT !.active = active]
  <2>1. course \in Course /\ course.total_modules = old.total_modules
    BY <1>2 DEF Course
  <2>2. Rewrite(id, course)
    BY <1>4 DEF SetCourseStatus
  <2>3. QED
    BY <2>1, <2>2
<1>5. ASSUME NEW current, NEW new \in Instructors, TransferOwnership(current, new, id)
      PROVE  \E course \in Course : course.total_modules = old.total_modules /\ Rewrite(id, course)
  <2> DEFINE course == [old EXCEPT !.instructor = new]
  <2>1. course \in Course /\ course.total_modules = old.total_modules
    BY <1>2 DEF Course
  <2>2. Rewrite(id, course)
    BY <1>5 DEF TransferOwnership
  <2>3. QED
    BY <2>1, <2>2
<1>6. QED
  BY <1>1, <1>3, <1>4, <1>5

-----------------------------------------------------------------------------
(* Learning.                                                               *)
LEMMA EnrollStep ==
  ASSUME RegistryInv, NEW learner \in Learners, NEW id \in CourseIds, Enroll(learner, id)
  PROVE  RegistryInv' /\ FinishedStays
<1> DEFINE p == <<learner, id>>
<1>1. /\ p \in Completions /\ progress[p] = None
      /\ progress' = [progress EXCEPT ![p] = 0]
      /\ UNCHANGED <<courseCount, courses, pending, paid>>
  BY DEF Enroll, catalogue, Completions
<1>2. RegistryTypes'
  BY <1>1 DEF RegistryInv, RegistryTypes
<1>3. FinishedStays
  <2>1. ASSUME NEW l \in Learners, NEW i \in CourseIds
        PROVE  GetProgress(l, i)' = GetProgress(l, i)
    BY <1>1, CourseNoneAssumption DEF RegistryInv, RegistryTypes, GetProgress, Completions
  <2>2. QED
    BY <1>1, <2>1 DEF FinishedStays, IsCourseFinished
<1>4. QED
  BY <1>1, <1>2, <1>3, NothingSettled

(* The payment counts one reward, or none.                                 *)
LEMMA PaidOnceMore ==
  ASSUME NEW learner, NEW id, TryDistributeReward(learner, id)
  PROVE  paid' = IF PoolPays THEN [paid EXCEPT ![<<learner, id>>] = @ + 1] ELSE paid
BY DEF TryDistributeReward

(* The count of payments remains a count.                                  *)
LEMMA PaidType ==
  ASSUME paid \in [Completions -> Nat], NEW p \in Completions,
         paid' = IF PoolPays THEN [paid EXCEPT ![p] = @ + 1] ELSE paid
  PROVE  paid' \in [Completions -> Nat]
<1>1. [paid EXCEPT ![p] = @ + 1] \in [Completions -> Nat]
  OBVIOUS
<1>2. QED
  BY <1>1

(* A reward that was not paid before, on a course that is finished now, is *)
(* either paid or pending afterwards.                                      *)
LEMMA SettleStep ==
  ASSUME RegistryInv, RegistryTypes', FinishedStays,
         NEW p \in Completions, IsCourseFinished(p[1], p[2])', paid[p] = 0,
         paid' = IF PoolPays THEN [paid EXCEPT ![p] = @ + 1] ELSE paid,
         PoolPays => p \notin pending',
         \A q \in Completions : q # p => (q \in pending' <=> q \in pending)
  PROVE  RegistryInv'
<1>1. ASSUME NEW q \in Completions
      PROVE  /\ paid'[q] <= 1
             /\ q \in pending' => paid'[q] = 0
             /\ q \in pending' \/ paid'[q] = 1 => IsCourseFinished(q[1], q[2])'
  <2>1. paid \in [Completions -> Nat]
    BY DEF RegistryInv, RegistryTypes
  <2>2. CASE q = p
    <3>1. CASE PoolPays
      BY <2>1, <2>2, <3>1
    <3>2. CASE ~PoolPays
      BY <2>1, <2>2, <3>2
    <3>3. QED
      BY <3>1, <3>2
  <2>3. CASE q # p
    <3>1. paid'[q] = paid[q] /\ (q \in pending' <=> q \in pending)
      BY <2>1, <2>3
    <3>2. q[1] \in Learners /\ q[2] \in CourseIds
      BY DEF Completions
    <3>3. QED
      BY <3>1, <3>2 DEF RegistryInv, RewardAtMostOnce, FinishedStays
  <2>4. QED
    BY <2>2, <2>3
<1>2. RewardAtMostOnce'
  BY <1>1 DEF RewardAtMostOnce
<1>3. QED
  BY <1>2 DEF RegistryInv

(* complete_module moves one learner's progress in one course, by one.     *)
LEMMA ProgressByOne ==
  ASSUME RegistryTypes, NEW verifier, NEW learner \in Learners, NEW id \in CourseIds,
         CompleteModule(verifier, learner, id)
  PROVE  /\ GetProgress(learner, id)' = GetProgress(learner, id) + 1
         /\ \A l \in Learners, i \in CourseIds :
              <<l, i>> # <<learner, id>> => GetProgress(l, i)' = GetProgress(l, i)
<1>1. /\ progress \in [Completions -> Nat \cup {None}]
      /\ GetProgress(learner, id) \in Nat
      /\ progress' = [progress EXCEPT ![<<learner, id>>] = GetProgress(learner, id) + 1]
  BY GetProgressType DEF RegistryTypes, CompleteModule
<1> DEFINE done == GetProgress(learner, id)
<1> HIDE DEF done
<1>2. progress' = [progress EXCEPT ![<<learner, id>>] = done + 1] /\ done \in Nat
  BY <1>1 DEF done
<1>3. GetProgress(learner, id)' = done + 1
  BY <1>1, <1>2, CourseNoneAssumption DEF GetProgress, Completions
<1>4. ASSUME NEW l \in Learners, NEW i \in CourseIds, <<l, i>> # <<learner, id>>
      PROVE  GetProgress(l, i)' = GetProgress(l, i)
  BY <1>1, <1>2, <1>4 DEF GetProgress, Completions
<1>5. QED
  BY <1>3, <1>4 DEF done

(* The last module finishes the course.                                    *)
LEMMA LastModuleFinishes ==
  ASSUME RegistryTypes, NEW verifier, NEW learner \in Learners, NEW id \in CourseIds,
         CompleteModule(verifier, learner, id), IsLastModule(learner, id)
  PROVE  IsCourseFinished(learner, id)'
<1>1. GetProgress(learner, id)' = courses[id].total_modules
  BY ProgressByOne DEF IsLastModule
<1>2. UNCHANGED courses /\ courses[id] # None
  BY DEF CompleteModule, catalogue
<1>3. courses[id].total_modules \in Int
  BY <1>2, CourseAssumption DEF RegistryTypes, Course
<1>4. QED
  BY <1>1, <1>2, <1>3 DEF IsCourseFinished

(* complete_module preserves the invariant and undoes no finished course.  *)
LEMMA CompleteStep ==
  ASSUME RegistryInv, NEW verifier, NEW learner \in Learners, NEW id \in CourseIds,
         CompleteModule(verifier, learner, id)
  PROVE  RegistryInv' /\ FinishedStays
<1> DEFINE p == <<learner, id>>
           done == GetProgress(learner, id)
<1>1. done \in Nat
  BY GetProgressType DEF RegistryInv
<1>2. /\ p \in Completions /\ p[1] = learner /\ p[2] = id
      /\ courses[id] # None /\ done < courses[id].total_modules
      /\ progress' = [progress EXCEPT ![p] = done + 1]
      /\ UNCHANGED <<courseCount, courses>>
  BY DEF CompleteModule, catalogue, Completions
<1>3. progress \in [Completions -> Nat \cup {None}]
  BY DEF RegistryInv, RegistryTypes
<1>4. ASSUME NEW l \in Learners, NEW i \in CourseIds, <<l, i>> # p
      PROVE  GetProgress(l, i)' = GetProgress(l, i)
  BY <1>4, ProgressByOne DEF RegistryInv
<1> HIDE DEF done
<1>6. FinishedStays
  <2>1. ASSUME NEW l \in Learners, NEW i \in CourseIds, IsCourseFinished(l, i)
        PROVE  IsCourseFinished(l, i)'
    <3>1. CASE <<l, i>> = p
      <4>1. i = id /\ l = learner /\ courses[id] \in Course
        BY <1>2, <3>1 DEF RegistryInv, RegistryTypes
      <4>2. courses[id].total_modules \in Int
        BY <4>1, CourseAssumption DEF Course
      <4>3. ~(done >= courses[id].total_modules)
        BY <1>1, <1>2, <4>2
      <4>4. QED
        BY <2>1, <4>1, <4>3 DEF IsCourseFinished, done
    <3>2. CASE <<l, i>> # p
      BY <1>2, <1>4, <2>1, <3>2 DEF IsCourseFinished
    <3>3. QED
      BY <3>1, <3>2
  <2>2. QED
    BY <2>1 DEF FinishedStays
<1>7. ~IsCourseFinished(learner, id)
  <2>1. courses[id] \in Course
    BY <1>2 DEF RegistryInv, RegistryTypes
  <2>2. courses[id].total_modules \in Int
    BY <2>1, CourseAssumption DEF Course
  <2>3. QED
    BY <1>1, <1>2, <2>2 DEF IsCourseFinished, done
<1>8. paid[p] = 0 /\ p \notin pending /\ paid \in [Completions -> Nat]
  BY <1>2, <1>7 DEF RegistryInv, RegistryTypes, RewardAtMostOnce
<1>9. CASE ~IsLastModule(learner, id)
  <2>1. UNCHANGED <<pending, paid>>
    BY <1>9 DEF CompleteModule
  <2>2. RegistryTypes'
    BY <1>1, <1>2, <2>1 DEF RegistryInv, RegistryTypes
  <2>3. QED
    BY <1>6, <2>1, <2>2, NothingSettled
<1>10. CASE IsLastModule(learner, id)
  <2>1. TryDistributeReward(learner, id) /\ pending' = PendingAfter(learner, id)
    BY <1>10 DEF CompleteModule
  <2>2. paid' = IF PoolPays THEN [paid EXCEPT ![p] = @ + 1] ELSE paid
    BY <2>1, PaidOnceMore
  <2>3. /\ PoolPays => p \notin pending'
        /\ \A q \in Completions : q # p => (q \in pending' <=> q \in pending)
        /\ pending' \subseteq Completions
    BY <1>2, <2>1 DEF PendingAfter, RegistryInv, RegistryTypes
  <2>4. paid' \in [Completions -> Nat]
    BY <1>2, <1>8, <2>2, PaidType
  <2>5. RegistryTypes'
    <3>1. progress' \in [Completions -> Nat \cup {None}]
      BY <1>1, <1>2, <1>3
    <3>2. QED
      BY <1>2, <2>3, <2>4, <3>1 DEF RegistryInv, RegistryTypes
  <2>6. IsCourseFinished(learner, id)'
    BY <1>10, LastModuleFinishes DEF RegistryInv
  <2>7. QED
    BY <1>2, <1>6, <1>8, <2>2, <2>3, <2>5, <2>6, SettleStep
<1>11. QED
  BY <1>9, <1>10

(* claim_completion_reward preserves the invariant: the record it removes  *)
(* is that of a finished course not paid yet.                              *)
LEMMA ClaimStep ==
  ASSUME RegistryInv, NEW learner \in Learners, NEW id \in CourseIds,
         ClaimCompletionReward(learner, id)
  PROVE  RegistryInv' /\ FinishedStays
<1> DEFINE p == <<learner, id>>
<1>1. /\ p \in Completions /\ p[1] = learner /\ p[2] = id
      /\ p \in pending /\ pending' = pending \ {p}
      /\ UNCHANGED <<courseCount, courses, progress>>
  BY DEF ClaimCompletionReward, catalogue, Completions
<1>2. paid' = IF PoolPays THEN [paid EXCEPT ![p] = @ + 1] ELSE paid
  BY PaidOnceMore DEF ClaimCompletionReward
<1>3. paid[p] = 0 /\ paid \in [Completions -> Nat] /\ IsCourseFinished(learner, id)
  BY <1>1 DEF RegistryInv, RegistryTypes, RewardAtMostOnce
<1>4. paid' \in [Completions -> Nat]
  BY <1>1, <1>2, <1>3, PaidType
<1>5. RegistryTypes'
  BY <1>1, <1>4 DEF RegistryInv, RegistryTypes
<1>6. FinishedStays
  BY <1>1 DEF FinishedStays, IsCourseFinished, GetProgress
<1>7. IsCourseFinished(learner, id)'
  BY <1>3, <1>6 DEF FinishedStays
<1>8. QED
  BY <1>1, <1>2, <1>3, <1>5, <1>6, <1>7, SettleStep

-----------------------------------------------------------------------------
(* A step that touches neither the catalogue nor what learners have done.  *)
LEMMA OtherStep ==
  ASSUME RegistryInv, UNCHANGED <<catalogue, learning>>
  PROVE  RegistryInv' /\ FinishedStays
<1>1. RegistryTypes'
  BY DEF RegistryInv, RegistryTypes, catalogue, learning
<1>2. FinishedStays
  BY DEF FinishedStays, IsCourseFinished, GetProgress, catalogue, learning
<1>3. QED
  BY <1>1, <1>2, NothingSettled DEF learning

(* Every call of the registry, the pool and the badge contract preserves   *)
(* the invariant and keeps finished courses finished.                      *)
LEMMA RegistryInvStep == RegistryInv /\ [Next]_vars => RegistryInv' /\ FinishedStays
<1> SUFFICES ASSUME RegistryInv, [Next]_vars PROVE RegistryInv' /\ FinishedStays
  OBVIOUS
<1>1. ASSUME NEW admin \in Admins, NEW address,
             \/ Initialize(admin)
             \/ SetRewardPoolAddress(admin, address)
             \/ SetBadgeNftAddress(admin, address)
      PROVE  RegistryInv' /\ FinishedStays
  BY <1>1, OtherStep DEF Initialize, SetRewardPoolAddress, SetBadgeNftAddress
<1>2. ASSUME NEW admin \in Admins, NEW instructor \in Instructors, NEW total \in 0..MaxModules,
             NEW hash \in Hashes, CreateCourse(admin, instructor, total, hash)
      PROVE  RegistryInv' /\ FinishedStays
  BY <1>2, CreateStep
<1>3. ASSUME NEW id \in CourseIds,
             \/ \E hash \in Hashes : UpdateMetadata(id, hash)
             \/ \E admin \in Admins, active \in BOOLEAN : SetCourseStatus(admin, id, active)
             \/ \E current, new \in Instructors : TransferOwnership(current, new, id)
      PROVE  RegistryInv' /\ FinishedStays
  BY <1>3, RewriteCalls, RewriteStep DEF RegistryInv
<1>4. CASE RegistryStep
  BY <1>1, <1>2, <1>3, <1>4 DEF RegistryStep
<1>5. ASSUME NEW learner \in Learners, NEW id \in CourseIds, Enroll(learner, id)
      PROVE  RegistryInv' /\ FinishedStays
  BY <1>5, EnrollStep
<1>6. ASSUME NEW learner \in Learners, NEW id \in CourseIds, NEW verifier \in Admins,
             CompleteModule(verifier, learner, id)
      PROVE  RegistryInv' /\ FinishedStays
  BY <1>6, CompleteStep
<1>7. ASSUME NEW learner \in Learners, NEW id \in CourseIds, ClaimCompletionReward(learner, id)
      PROVE  RegistryInv' /\ FinishedStays
  BY <1>7, ClaimStep
<1>8. CASE PoolStep \/ BadgeStep \/ UNCHANGED vars
  BY <1>8, OtherStep DEF PoolStep, BadgeStep, vars
<1>9. QED
  BY <1>4, <1>5, <1>6, <1>7, <1>8 DEF Next, LearnerStep

(* Records keep their types and completions are rewarded at most once,     *)
(* together through every step.                                            *)
THEOREM RegistryInvariant == Spec => []RegistryInv
BY RegistryInvInit, RegistryInvStep, PTL DEF Spec

(* A completion is rewarded at most once, only when its course is          *)
(* finished, and never both paid and claimable, however failed payments,   *)
(* claims and rewiring interleave.                                         *)
THEOREM RewardedOnce == Spec => []RewardAtMostOnce
<1>1. RegistryInv => RewardAtMostOnce
  BY DEF RegistryInv
<1>2. QED
  BY <1>1, RegistryInvariant, PTL

(* No call undoes a finished course.                                       *)
THEOREM FinishedKept == Spec => FinishedForever
<1>1. RegistryInv /\ [Next]_vars
        => [\A l \in Learners, id \in CourseIds :
              IsCourseFinished(l, id) => IsCourseFinished(l, id)']_vars
  BY RegistryInvStep DEF FinishedStays
<1>2. QED
  BY <1>1, RegistryInvariant, PTL DEF Spec, FinishedForever

-----------------------------------------------------------------------------
(* What a transaction can do to the pool's storage: nothing, what anyone   *)
(* but the registry asks of it, or one attempt at a payment.               *)
LEMMA PoolCalls ==
  ASSUME [Next]_vars
  PROVE  \/ UNCHANGED poolVars
         \/ PoolStep
         \/ \E l \in Learners, id \in CourseIds : TryDistributeReward(l, id)
<1>1. CASE RegistryStep
  BY <1>1 DEF RegistryStep, Initialize, SetRewardPoolAddress, SetBadgeNftAddress, CreateCourse,
              SetCourseStatus, UpdateMetadata, TransferOwnership, Rewrite
<1>2. CASE LearnerStep
  BY <1>2 DEF LearnerStep, Enroll, CompleteModule, ClaimCompletionReward
<1>3. CASE BadgeStep \/ UNCHANGED vars
  BY <1>3 DEF BadgeStep, vars
<1>4. QED
  BY <1>1, <1>2, <1>3 DEF Next

(* What a transaction can do to the badge contract's storage.              *)
LEMMA BadgeCalls ==
  ASSUME [Next]_vars
  PROVE  \/ UNCHANGED badgeVars
         \/ BadgeStep
         \/ \E l \in Learners, id \in CourseIds, verifier \in Admins :
              /\ CompleteModule(verifier, l, id) /\ IsLastModule(l, id)
              /\ BN!MintBadge(Registry, l, id)
<1>1. CASE RegistryStep
  BY <1>1 DEF RegistryStep, Initialize, SetRewardPoolAddress, SetBadgeNftAddress, CreateCourse,
              SetCourseStatus, UpdateMetadata, TransferOwnership, Rewrite
<1>2. CASE LearnerStep
  <2>1. ASSUME NEW l \in Learners, NEW id \in CourseIds, NEW verifier \in Admins,
               CompleteModule(verifier, l, id)
        PROVE  \/ UNCHANGED badgeVars
               \/ IsLastModule(l, id) /\ BN!MintBadge(Registry, l, id)
    BY <2>1 DEF CompleteModule, MintOnCompletion
  <2>2. QED
    BY <1>2, <2>1 DEF LearnerStep, Enroll, ClaimCompletionReward
<1>3. CASE PoolStep \/ UNCHANGED vars
  BY <1>3 DEF PoolStep, vars
<1>4. QED
  BY <1>1, <1>2, <1>3 DEF Next

(* A transfer that does not panic leaves natural numbers.                  *)
LEMMA TransferTypes ==
  ASSUME balance \in [Address -> Nat], NEW from \in Address, NEW to \in Address, NEW amount,
         RP!CanTransfer(balance, from, amount)
  PROVE  RP!Transfer(balance, from, to, amount) \in [Address -> Nat]
BY DEF RP!CanTransfer, RP!Transfer

(* The pool's storage keeps its types, whoever calls it.                   *)
LEMMA PoolTypesStep ==
  ASSUME RP!TypeOK, [Next]_vars
  PROVE  RP!TypeOK'
<1>1. balance \in [Address -> Nat] /\ Pool \in Address /\ balance[Pool] \in Nat
  BY RegistryAssumption DEF RP!TypeOK
<1>2. CASE UNCHANGED poolVars
  BY <1>2 DEF poolVars, RP!TypeOK
<1>3. ASSUME NEW l \in Learners, NEW id \in CourseIds, TryDistributeReward(l, id)
      PROVE  RP!TypeOK'
  <2>1. CASE PoolPays
    BY <1>1, <1>3, <2>1, TransferTypes, RegistryAssumption
    DEF TryDistributeReward, RP!DistributeReward, RP!CanDistribute, RP!TypeOK
  <2>2. CASE ~PoolPays
    BY <1>3, <2>2 DEF TryDistributeReward, poolVars, RP!TypeOK
  <2>3. QED
    BY <2>1, <2>2
<1>4. ASSUME NEW donor \in Admins, NEW amount, RP!FundPool(donor, amount) PROVE RP!TypeOK'
  BY <1>1, <1>4, TransferTypes, RegistryAssumption DEF RP!FundPool, RP!TypeOK
<1>5. ASSUME NEW admin \in Admins, NEW wallet \in Admins, RP!EmergencySweep(admin, wallet)
      PROVE  RP!TypeOK'
  <2>1. RP!CanTransfer(balance, Pool, balance[Pool])
    BY <1>1 DEF RP!CanTransfer
  <2>2. RP!Transfer(balance, Pool, wallet, balance[Pool]) \in [Address -> Nat]
    BY <1>1, <2>1, TransferTypes, RegistryAssumption
  <2>3. QED
    BY <1>5, <2>2 DEF RP!EmergencySweep, RP!TypeOK
<1>6. ASSUME NEW admin \in Admins,
             \/ RP!Initialize(admin)
             \/ RP!AddApprovedSpender(admin, Registry)
             \/ \E status \in BOOLEAN : RP!SetPause(admin, status)
      PROVE  RP!TypeOK'
  BY <1>6, RegistryAssumption
  DEF RP!Initialize, RP!AddApprovedSpender, RP!SetPause, RP!TypeOK
<1>7. CASE PoolStep
  BY <1>4, <1>5, <1>6, <1>7 DEF PoolStep, RP!AdminStep
<1>8. QED
  BY <1>2, <1>3, <1>7, PoolCalls

(* Every change of the badges is a step of the badge contract, which keeps *)
(* its own invariant.                                                      *)
LEMMA BadgeInvKept ==
  ASSUME BP!BadgeInv, [Next]_vars
  PROVE  BP!BadgeInv'
<1>1. BP!BadgeAssumption
  BY RegistryAssumption DEF BP!BadgeAssumption
<1>2. ASSUME NEW list, NEW course PROVE BN!Without(list, course) = BP!Without(list, course)
  BY DEF BN!Without, BN!RemoveFirstMatch, BN!RemoveAt, BN!SelectInSeq, BN!Min,
         BP!Without, BP!RemoveFirstMatch, BP!RemoveAt, BP!SelectInSeq, BP!Min
<1>3. ASSUME NEW caller \in Admins \cup {Registry}, NEW learner \in Learners,
             NEW course \in CourseIds,
             \/ BN!MintBadge(caller, learner, course)
             \/ BN!RevokeBadge(caller, learner, course)
      PROVE  BP!Next
  <2>1. BN!MintBadge(caller, learner, course) => BP!MintBadge(caller, learner, course)
    BY DEF BN!MintBadge, BN!CanMint, BN!HasBadge, BN!NewBadge,
           BP!MintBadge, BP!CanMint, BP!HasBadge, BP!NewBadge
  <2>2. BN!RevokeBadge(caller, learner, course) => BP!RevokeBadge(caller, learner, course)
    <3>1. BN!Without(badges[learner], course) = BP!Without(badges[learner], course)
      BY <1>2
    <3>2. QED
      BY <3>1 DEF BN!RevokeBadge, BP!RevokeBadge
  <2>3. QED
    BY <1>3, <2>1, <2>2 DEF BP!Next
<1>4. ASSUME NEW admin \in Admins \cup {Registry}, BN!InitializeBadge(admin)
      PROVE  BP!Next
  BY <1>4 DEF BN!InitializeBadge, BP!Next, BP!InitializeBadge
<1>5. UNCHANGED badgeVars => UNCHANGED BP!badgeVars
  BY DEF badgeVars, BP!badgeVars
<1>6. [BP!Next]_(BP!badgeVars)
  BY <1>3, <1>4, <1>5, BadgeCalls DEF BadgeStep
<1>7. QED
  BY <1>1, <1>6, BP!BadgeInvStep

(* The addresses and the counter: keys that one setter each writes.        *)
WiringTypes ==
  /\ regAdmin \in Admins \cup {None}
  /\ rewardPoolAddress \in {None, Pool, Elsewhere}
  /\ badgeNftAddress \in {None, Nft, Elsewhere}
  /\ courseCount \in 0..MaxCourses

(* Only the setters and create_course write these keys.                    *)
LEMMA WiringStep ==
  ASSUME WiringTypes, [Next]_vars
  PROVE  WiringTypes'
<1>1. CASE UNCHANGED <<wiring, courseCount>>
  BY <1>1 DEF WiringTypes, wiring
<1>2. ASSUME NEW admin \in Admins, NEW instructor, NEW total, NEW hash,
             \/ Initialize(admin)
             \/ SetRewardPoolAddress(admin, Pool) \/ SetRewardPoolAddress(admin, Elsewhere)
             \/ SetBadgeNftAddress(admin, Nft) \/ SetBadgeNftAddress(admin, Elsewhere)
             \/ CreateCourse(admin, instructor, total, hash)
      PROVE  WiringTypes'
  BY <1>2, CourseAssumption DEF WiringTypes, Initialize, SetRewardPoolAddress,
       SetBadgeNftAddress, CreateCourse, catalogue, wiring
<1>3. CASE RegistryStep
  <2>1. CASE UNCHANGED <<wiring, courseCount>>
    BY <1>1, <2>1
  <2>2. CASE ~UNCHANGED <<wiring, courseCount>>
    BY <1>2, <1>3, <2>2
    DEF RegistryStep, SetCourseStatus, UpdateMetadata, TransferOwnership, Rewrite
  <2>3. QED
    BY <2>1, <2>2
<1>4. CASE LearnerStep
  BY <1>1, <1>4 DEF LearnerStep, Enroll, CompleteModule, ClaimCompletionReward, catalogue
<1>5. CASE PoolStep \/ BadgeStep \/ UNCHANGED vars
  BY <1>1, <1>5 DEF PoolStep, BadgeStep, vars, catalogue
<1>6. QED
  BY <1>3, <1>4, <1>5 DEF Next

(* No learner has progress in a course that does not exist yet: a course   *)
(* that is created later cannot be finished at once.                       *)
ProgressOnCourses ==
  \A l \in Learners, id \in CourseIds : progress[<<l, id>>] # None => courses[id] # None

(* Courses are never deleted, and progress starts on existing ones.        *)
LEMMA ProgressStep ==
  ASSUME RegistryTypes, ProgressOnCourses, [Next]_vars
  PROVE  ProgressOnCourses'
<1>1. CASE UNCHANGED <<courses, progress>>
  BY <1>1 DEF ProgressOnCourses
<1>2. ASSUME NEW id \in CourseIds, NEW course \in Course, Rewrite(id, course)
      PROVE  ProgressOnCourses'
  BY <1>2, CourseNoneAssumption DEF Rewrite, learning, ProgressOnCourses, RegistryTypes
<1>3. ASSUME NEW admin \in Admins, NEW instructor, NEW total, NEW hash,
             CreateCourse(admin, instructor, total, hash)
      PROVE  ProgressOnCourses'
  <2>1. ASSUME NEW id \in CourseIds, courses[id] # None PROVE courses'[id] # None
    BY <1>3, <2>1 DEF CreateCourse, RegistryTypes
  <2>2. QED
    BY <1>3, <2>1 DEF CreateCourse, learning, ProgressOnCourses
<1>4. ASSUME NEW learner \in Learners, NEW id \in CourseIds,
             \/ Enroll(learner, id)
             \/ \E verifier \in Admins : CompleteModule(verifier, learner, id)
      PROVE  ProgressOnCourses'
  <2>1. /\ courses[id] # None /\ UNCHANGED courses
        /\ \E m : progress' = [progress EXCEPT ![<<learner, id>>] = m]
    BY <1>4 DEF Enroll, CompleteModule, catalogue
  <2>2. QED
    BY <2>1 DEF ProgressOnCourses, RegistryTypes, Completions
<1>5. CASE RegistryStep
  <2>1. CASE UNCHANGED <<courses, progress>>
    BY <1>1, <2>1
  <2>2. CASE ~UNCHANGED <<courses, progress>>
    BY <1>2, <1>3, <1>5, <2>2, RewriteCalls
    DEF RegistryStep, Initialize, SetRewardPoolAddress, SetBadgeNftAddress, catalogue, learning
  <2>3. QED
    BY <2>1, <2>2
<1>6. CASE LearnerStep
  BY <1>1, <1>4, <1>6 DEF LearnerStep, ClaimCompletionReward, catalogue
<1>7. CASE PoolStep \/ BadgeStep \/ UNCHANGED vars
  BY <1>1, <1>7 DEF PoolStep, BadgeStep, vars, catalogue, learning
<1>8. QED
  BY <1>5, <1>6, <1>7 DEF Next

(* The types of all three contracts are one inductive invariant together   *)
(* with what they rest on: badge vectors keep theirs only while they are   *)
(* well kept.                                                              *)
StorageInv ==
  RegistryInv /\ ProgressOnCourses /\ WiringTypes /\ RP!TypeOK /\ BP!BadgeInv

(* Deployed and not called yet, the three contracts satisfy it.            *)
LEMMA StorageInvInit == Init => StorageInv
<1> SUFFICES ASSUME Init PROVE StorageInv
  OBVIOUS
<1>1. RP!TypeOK
  BY RegistryAssumption DEF Init, RP!Init, RP!TypeOK
<1>2. BP!BadgeInv
  BY BP!BadgeInvInit, RegistryAssumption DEF Init, BN!Init, BP!Init, BP!BadgeAssumption
<1>3. WiringTypes
  BY CourseAssumption DEF Init, WiringTypes
<1>4. ProgressOnCourses
  BY DEF Init, ProgressOnCourses, Completions
<1>5. QED
  BY <1>1, <1>2, <1>3, <1>4, RegistryInvInit DEF StorageInv

(* The invariant under which the other theorems of this module are proved. *)
THEOREM StorageInvariant == Spec => []StorageInv
<1>1. StorageInv /\ [Next]_vars => StorageInv'
  BY RegistryInvStep, ProgressStep, WiringStep, PoolTypesStep, BadgeInvKept
  DEF StorageInv, RegistryInv
<1>2. QED
  BY <1>1, StorageInvInit, PTL DEF Spec

(* The storage of the registry and of both contracts it calls stays well   *)
(* typed: no failed or caught call leaves a balance below zero or a record *)
(* half written.                                                           *)
THEOREM RegistryTypeCorrect == Spec => []TypeOK
<1>1. BP!BadgeInv => BN!TypeOK
  BY DEF BP!BadgeInv, BP!TypeOK, BN!TypeOK, BP!Badge, BN!Badge
<1>2. StorageInv => TypeOK
  BY <1>1 DEF StorageInv, RegistryInv, RegistryTypes, WiringTypes, TypeOK
<1>3. QED
  BY <1>2, StorageInvariant, PTL

-----------------------------------------------------------------------------
(* One attempt at a payment: a counted event and the tokens go together.   *)
LEMMA PaymentCounted ==
  ASSUME StorageInv, NEW l \in Learners, l # Pool, NEW learner \in Learners,
         NEW id \in CourseIds, TryDistributeReward(learner, id)
  PROVE  \/ UNCHANGED <<balance, paid>>
         \/ /\ paid' = [paid EXCEPT ![<<learner, id>>] = @ + 1]
            /\ balance'[l] = balance[l] + (IF l = learner THEN Reward ELSE 0)
<1>1. CASE PoolPays
  <2>1. /\ balance \in [Address -> Nat] /\ Pool \in Address /\ l \in Address
        /\ learner \in Address /\ Reward \in Nat
    BY RegistryAssumption, RewardAssumption DEF StorageInv, RP!TypeOK
  <2>2. balance' = RP!Transfer(balance, Pool, learner, Reward)
    BY <1>1 DEF TryDistributeReward, RP!DistributeReward
  <2>3. balance'[l] = balance[l] + (IF l = learner THEN Reward ELSE 0)
    BY <2>1, <2>2 DEF RP!Transfer
  <2>4. QED
    BY <1>1, <2>3 DEF TryDistributeReward
<1>2. CASE ~PoolPays
  BY <1>2 DEF TryDistributeReward, poolVars
<1>3. QED
  BY <1>1, <1>2

(* A reward is only ever attempted where none was paid.                    *)
LEMMA NotPaidBefore ==
  ASSUME StorageInv, NEW learner \in Learners, NEW id \in CourseIds,
         \/ ClaimCompletionReward(learner, id)
         \/ \E verifier \in Admins : CompleteModule(verifier, learner, id)
  PROVE  paid[<<learner, id>>] = 0
<1> DEFINE p == <<learner, id>>
<1>1. p \in Completions /\ p[1] = learner /\ p[2] = id /\ paid \in [Completions -> Nat]
  BY DEF Completions, StorageInv, RegistryInv, RegistryTypes
<1>2. CASE ClaimCompletionReward(learner, id)
  BY <1>1, <1>2 DEF ClaimCompletionReward, StorageInv, RegistryInv, RewardAtMostOnce
<1>3. ASSUME NEW verifier \in Admins, CompleteModule(verifier, learner, id)
      PROVE  paid[p] = 0
  <2>1. courses[id] \in Course /\ GetProgress(learner, id) \in Nat
    BY <1>3, GetProgressType DEF CompleteModule, StorageInv, RegistryInv, RegistryTypes
  <2>2. courses[id].total_modules \in Int
    BY <2>1, CourseAssumption DEF Course
  <2>3. ~IsCourseFinished(learner, id)
    BY <1>3, <2>1, <2>2 DEF CompleteModule, IsCourseFinished
  <2>4. QED
    BY <1>1, <2>3 DEF StorageInv, RegistryInv, RewardAtMostOnce
<1>4. QED
  BY <1>2, <1>3

(* What a transaction can do to the money and the published events.        *)
LEMMA PaymentCalls ==
  ASSUME StorageInv, [Next]_vars
  PROVE  \/ UNCHANGED <<balance, paid>>
         \/ PoolStep
         \/ \E l \in Learners, id \in CourseIds :
              TryDistributeReward(l, id) /\ paid[<<l, id>>] = 0
<1>1. CASE RegistryStep
  BY <1>1 DEF RegistryStep, Initialize, SetRewardPoolAddress, SetBadgeNftAddress, CreateCourse,
              SetCourseStatus, UpdateMetadata, TransferOwnership, Rewrite, poolVars, learning
<1>2. CASE LearnerStep
  <2>1. ASSUME NEW l \in Learners, NEW id \in CourseIds, NEW verifier \in Admins,
               CompleteModule(verifier, l, id)
        PROVE  UNCHANGED <<balance, paid>> \/ TryDistributeReward(l, id)
    BY <2>1 DEF CompleteModule, poolVars
  <2>2. QED
    BY <1>2, <2>1, NotPaidBefore DEF LearnerStep, Enroll, ClaimCompletionReward, poolVars
<1>3. CASE BadgeStep \/ UNCHANGED vars
  BY <1>3 DEF BadgeStep, vars, poolVars, learning
<1>4. QED
  BY <1>1, <1>2, <1>3 DEF Next

PaidCourses(l) == {id \in CourseIds : paid[<<l, id>>] > 0}

(* An event published for a completion that had none makes one more course *)
(* of that learner a paid one, and no course of anyone else.               *)
LEMMA OneMorePaid ==
  ASSUME paid \in [Completions -> Nat], NEW learner \in Learners, NEW id \in CourseIds,
         paid[<<learner, id>>] = 0, paid' = [paid EXCEPT ![<<learner, id>>] = @ + 1],
         NEW l \in Learners
  PROVE  /\ Cardinality(PaidCourses(l)) \in Nat
         /\ Cardinality(PaidCourses(l)')
              = Cardinality(PaidCourses(l)) + (IF l = learner THEN 1 ELSE 0)
<1>1. /\ IsFiniteSet(PaidCourses(l)) /\ Cardinality(PaidCourses(l)) \in Nat
  <2>1. IsFiniteSet(CourseIds)
    BY FS_Interval, CourseAssumption DEF CourseIds
  <2>2. PaidCourses(l) \in SUBSET CourseIds
    BY DEF PaidCourses
  <2>3. QED
    BY <2>1, <2>2, FS_Subset, FS_CardinalityType
<1>2. CASE l = learner
  <2>1. PaidCourses(l)' = PaidCourses(l) \cup {id} /\ id \notin PaidCourses(l)
    BY <1>2 DEF PaidCourses, Completions
  <2>2. QED
    BY <1>1, <1>2, <2>1, FS_AddElement
<1>3. CASE l # learner
  <2>1. PaidCourses(l)' = PaidCourses(l)
    BY <1>3 DEF PaidCourses, Completions
  <2>2. QED
    BY <1>1, <1>3, <2>1
<1>4. QED
  BY <1>2, <1>3

(* What others ask of the pool moves no token of a learner who is not an   *)
(* administrator.                                                          *)
LEMMA OthersMoney ==
  ASSUME RP!TypeOK, PoolStep, NEW l \in Learners \ (Admins \cup {Pool})
  PROVE  balance'[l] = balance[l] /\ UNCHANGED paid
<1>1. /\ balance \in [Address -> Nat] /\ Pool \in Address /\ l \in Address
      /\ l # Pool /\ l \notin Admins /\ Admins \subseteq Address
  BY RegistryAssumption DEF RP!TypeOK
<1>2. ASSUME NEW donor \in Admins, NEW amount, RP!FundPool(donor, amount)
      PROVE  balance'[l] = balance[l]
  BY <1>1, <1>2 DEF RP!FundPool, RP!Transfer
<1>3. ASSUME NEW admin \in Admins, NEW wallet \in Admins, RP!EmergencySweep(admin, wallet)
      PROVE  balance'[l] = balance[l]
  BY <1>1, <1>3 DEF RP!EmergencySweep, RP!Transfer
<1>4. QED
  BY <1>2, <1>3 DEF PoolStep, learning, RP!AdminStep, RP!Initialize, RP!AddApprovedSpender,
                    RP!SetPause

(* Every transaction keeps a learner's tokens and events in agreement.     *)
LEMMA MoneyStep ==
  ASSUME StorageInv, EventsMatchMoney, [Next]_vars
  PROVE  EventsMatchMoney'
<1> SUFFICES ASSUME NEW l \in Learners \ (Admins \cup {Pool})
             PROVE  balance'[l] = Endowment[l] + Reward * Cardinality(PaidCourses(l)')
  BY DEF EventsMatchMoney, PaidCourses
<1>1. balance[l] = Endowment[l] + Reward * Cardinality(PaidCourses(l))
  BY DEF EventsMatchMoney, PaidCourses
<1>2. CASE UNCHANGED <<balance, paid>>
  BY <1>1, <1>2 DEF PaidCourses
<1>3. CASE PoolStep
  BY <1>1, <1>3, OthersMoney DEF PaidCourses, StorageInv
<1>4. ASSUME NEW learner \in Learners, NEW id \in CourseIds,
             TryDistributeReward(learner, id), paid[<<learner, id>>] = 0
      PROVE  balance'[l] = Endowment[l] + Reward * Cardinality(PaidCourses(l)')
  <2>1. \/ UNCHANGED <<balance, paid>>
        \/ /\ paid' = [paid EXCEPT ![<<learner, id>>] = @ + 1]
           /\ balance'[l] = balance[l] + (IF l = learner THEN Reward ELSE 0)
    BY <1>4, PaymentCounted
  <2>2. CASE /\ paid' = [paid EXCEPT ![<<learner, id>>] = @ + 1]
             /\ balance'[l] = balance[l] + (IF l = learner THEN Reward ELSE 0)
    <3> DEFINE c == Cardinality(PaidCourses(l))
    <3>1. c \in Nat /\ Cardinality(PaidCourses(l)') = c + (IF l = learner THEN 1 ELSE 0)
      BY <1>4, <2>2, OneMorePaid DEF StorageInv, RegistryInv, RegistryTypes
    <3>2. Reward \in Nat /\ Endowment[l] \in Nat
      BY RewardAssumption, RegistryAssumption
    <3> HIDE DEF c
    <3>3. Reward * (c + 1) = Reward * c + Reward /\ Reward * c \in Nat
      BY <3>1, <3>2
    <3>4. balance[l] = Endowment[l] + Reward * c
      BY <1>1 DEF c
    <3>5. QED
      BY <2>2, <3>1, <3>2, <3>3, <3>4
  <2>3. QED
    BY <1>2, <2>1, <2>2
<1>5. QED
  BY <1>2, <1>3, <1>4, PaymentCalls

(* CourseCompleted is published exactly for the rewards that arrive: what  *)
(* a learner holds is the reward times the courses with such an event.     *)
THEOREM MoneyMatchesEvents == Spec => []EventsMatchMoney
<1>1. Init => EventsMatchMoney
  <2> SUFFICES ASSUME Init, NEW l \in Learners PROVE balance[l] = Endowment[l] + Reward * Cardinality(PaidCourses(l))
    BY DEF EventsMatchMoney, PaidCourses
  <2>1. PaidCourses(l) = {}
    BY DEF Init, PaidCourses, Completions
  <2>2. Endowment[l] \in Nat /\ Reward \in Nat
    BY RegistryAssumption, RewardAssumption
  <2>3. QED
    BY <2>1, <2>2, FS_EmptySet DEF Init, RP!Init
<1>2. QED
  BY <1>1, MoneyStep, StorageInvariant, PTL DEF Spec

-----------------------------------------------------------------------------
(* A course is finished by the transaction that records its last module    *)
(* and by no other.                                                        *)
LEMMA FinishedByLastModule ==
  ASSUME RegistryInv, ProgressOnCourses, [Next]_vars, NEW l \in Learners, NEW id \in CourseIds,
         ~IsCourseFinished(l, id), IsCourseFinished(l, id)'
  PROVE  \E verifier \in Admins : CompleteModule(verifier, l, id) /\ IsLastModule(l, id)
<1> USE DEF RegistryInv
<1>1. CASE UNCHANGED <<courses, progress>>
  BY <1>1 DEF IsCourseFinished, GetProgress
<1>2. ASSUME NEW i \in CourseIds, NEW course \in Course, courses[i] # None,
             course.total_modules = courses[i].total_modules, Rewrite(i, course)
      PROVE  FALSE
  <2>1. /\ courses' = [courses EXCEPT ![i] = course] /\ courses \in [CourseIds -> Course \cup {None}]
        /\ GetProgress(l, id)' = GetProgress(l, id)
    BY <1>2 DEF Rewrite, learning, GetProgress, RegistryTypes
  <2>2. QED
    BY <1>2, <2>1 DEF IsCourseFinished
<1>3. ASSUME NEW admin \in Admins, NEW instructor \in Instructors, NEW total \in 0..MaxModules,
             NEW hash \in Hashes, CreateCourse(admin, instructor, total, hash)
      PROVE  FALSE
  <2> DEFINE new == courseCount + 1
             course == [instructor |-> instructor, total_modules |-> total,
                        metadata_hash |-> hash, active |-> TRUE]
  <2>1. /\ new \in CourseIds /\ courses[new] = None
        /\ courses' = [courses EXCEPT ![new] = course]
        /\ GetProgress(l, id)' = GetProgress(l, id)
        /\ courses \in [CourseIds -> Course \cup {None}]
    BY <1>3, CourseAssumption
    DEF RegistryTypes, CreateCourse, CourseIds, learning, GetProgress
  <2>2. course.total_modules = total /\ total > 0
    BY <1>3 DEF CreateCourse
  <2> HIDE DEF course
  <2>3. CASE id = new
    <3>1. progress[<<l, id>>] = None
      BY <2>1, <2>3 DEF ProgressOnCourses
    <3>2. GetProgress(l, id)' = 0 /\ courses'[id] = course
      BY <2>1, <2>3, <3>1 DEF GetProgress
    <3>3. QED
      BY <2>2, <3>2, CourseAssumption DEF IsCourseFinished
  <2>4. CASE id # new
    BY <2>1, <2>4 DEF IsCourseFinished
  <2>5. QED
    BY <2>3, <2>4
<1>4. ASSUME NEW learner \in Learners, NEW i \in CourseIds, Enroll(learner, i)
      PROVE  FALSE
  <2>1. GetProgress(l, id)' = GetProgress(l, id)
    BY <1>4, CourseNoneAssumption DEF Enroll, RegistryTypes, GetProgress, Completions
  <2>2. QED
    BY <1>4, <2>1 DEF Enroll, catalogue, IsCourseFinished
<1>5. ASSUME NEW learner \in Learners, NEW i \in CourseIds, NEW verifier \in Admins,
             CompleteModule(verifier, learner, i)
      PROVE  learner = l /\ i = id /\ IsLastModule(l, id)
  <2>1. UNCHANGED courses /\ courses[i] # None
    BY <1>5 DEF CompleteModule, catalogue
  <2>2. learner = l /\ i = id
    BY <1>5, <2>1, ProgressByOne DEF IsCourseFinished
  <2>3. GetProgress(l, id)' = GetProgress(l, id) + 1 /\ GetProgress(l, id) \in Nat
    BY <1>5, <2>2, ProgressByOne, GetProgressType
  <2>4. courses[id] \in Course
    BY <2>1, <2>2 DEF RegistryTypes
  <2>5. courses[id].total_modules \in Int
    BY <2>4, CourseAssumption DEF Course
  <2>6. QED
    BY <2>1, <2>2, <2>3, <2>5 DEF IsCourseFinished, IsLastModule
<1>6. CASE RegistryStep
  <2>1. CASE UNCHANGED <<courses, progress>>
    BY <1>1, <2>1
  <2>2. CASE ~UNCHANGED <<courses, progress>>
    BY <1>2, <1>3, <1>6, <2>2, RewriteCalls
    DEF RegistryStep, Initialize, SetRewardPoolAddress, SetBadgeNftAddress, catalogue, learning
  <2>3. QED
    BY <2>1, <2>2
<1>7. CASE LearnerStep
  BY <1>1, <1>4, <1>5, <1>7 DEF LearnerStep, ClaimCompletionReward, catalogue
<1>8. CASE PoolStep \/ BadgeStep \/ UNCHANGED vars
  BY <1>1, <1>8 DEF PoolStep, BadgeStep, vars, catalogue, learning
<1>9. QED
  BY <1>6, <1>7, <1>8 DEF Next

(* What the last module's transaction leaves of the reward: it is paid, or *)
(* kept to be claimed, or, without a registered pool, neither.             *)
LEMMA LastModuleSettles ==
  ASSUME StorageInv, NEW verifier \in Admins, NEW l \in Learners, NEW id \in CourseIds,
         CompleteModule(verifier, l, id), IsLastModule(l, id)
  PROVE  /\ paid[<<l, id>>] = 0 /\ <<l, id>> \notin pending
         /\ ~IsCourseFinished(l, id) /\ IsCourseFinished(l, id)'
         /\ \A q \in Completions : q # <<l, id>> =>
              paid'[q] = paid[q] /\ (q \in pending' <=> q \in pending)
         /\ IF PoolPays THEN paid'[<<l, id>>] = 1 /\ <<l, id>> \notin pending'
            ELSE /\ paid'[<<l, id>>] = 0
                 /\ <<l, id>> \in pending' <=> rewardPoolAddress # None
<1> DEFINE p == <<l, id>>
<1>1. /\ p \in Completions /\ p[1] = l /\ p[2] = id
      /\ paid \in [Completions -> Nat] /\ pending \subseteq Completions
  BY DEF Completions, StorageInv, RegistryInv, RegistryTypes
<1>2. ~IsCourseFinished(l, id)
  <2>1. courses[id] \in Course /\ GetProgress(l, id) \in Nat
    BY GetProgressType DEF CompleteModule, StorageInv, RegistryInv, RegistryTypes
  <2>2. courses[id].total_modules \in Int
    BY <2>1, CourseAssumption DEF Course
  <2>3. QED
    BY <2>1, <2>2 DEF CompleteModule, IsCourseFinished
<1>3. IsCourseFinished(l, id)'
  BY LastModuleFinishes DEF StorageInv, RegistryInv
<1>4. paid[p] = 0 /\ p \notin pending
  BY <1>1, <1>2 DEF StorageInv, RegistryInv, RewardAtMostOnce
<1>5. paid' = IF PoolPays THEN [paid EXCEPT ![p] = @ + 1] ELSE paid
  BY PaidOnceMore DEF CompleteModule
<1>6. pending' = PendingAfter(l, id)
  BY DEF CompleteModule
<1>7. PoolPays => rewardPoolAddress = Pool /\ rewardPoolAddress # None
  BY RegistryAssumption DEF PoolPays
<1>8. CASE PoolPays
  BY <1>1, <1>2, <1>3, <1>4, <1>5, <1>6, <1>8 DEF PendingAfter
<1>9. CASE ~PoolPays
  BY <1>1, <1>2, <1>3, <1>4, <1>5, <1>6, <1>9 DEF PendingAfter
<1>10. QED
  BY <1>8, <1>9

(* A course is finished as a whole: the transaction of the last module     *)
(* leaves the badge when a badge contract is registered, and the payment   *)
(* or the claim on it, never both, when a pool is.                         *)
THEOREM CompletedAtOnce == Spec => CompletionAtomic
<1> DEFINE Atomic == \A l \in Learners, id \in CourseIds :
             ~IsCourseFinished(l, id) /\ IsCourseFinished(l, id)' =>
               /\ badgeNftAddress # None => BN!HasBadge(l, id)'
               /\ rewardPoolAddress # None =>
                    (paid'[<<l, id>>] = 1) # (<<l, id>> \in pending')
<1>1. ASSUME StorageInv, [Next]_vars, NEW l \in Learners, NEW id \in CourseIds,
             ~IsCourseFinished(l, id), IsCourseFinished(l, id)'
      PROVE  /\ badgeNftAddress # None => BN!HasBadge(l, id)'
             /\ rewardPoolAddress # None => (paid'[<<l, id>>] = 1) # (<<l, id>> \in pending')
  <2>1. PICK verifier \in Admins : CompleteModule(verifier, l, id) /\ IsLastModule(l, id)
    BY <1>1, FinishedByLastModule DEF StorageInv
  <2>2. ASSUME badgeNftAddress # None PROVE BN!HasBadge(l, id)'
    <3>1. badges' = [badges EXCEPT ![l] = Append(badges[l], BN!NewBadge(id))]
      BY <2>1, <2>2 DEF CompleteModule, MintOnCompletion, BN!MintBadge
    <3>2. badges \in [Learners -> Seq(BP!Badge)]
      BY <1>1 DEF StorageInv, BP!BadgeInv, BP!TypeOK
    <3>3. badges[l] \in Seq(BP!Badge) /\ BN!NewBadge(id) \in BP!Badge
      BY <1>1, <3>2 DEF BN!NewBadge, BP!Badge, StorageInv, BP!BadgeInv, BP!TypeOK
    <3> DEFINE list == Append(badges[l], BN!NewBadge(id))
    <3>4. /\ list[Len(badges[l]) + 1] = BN!NewBadge(id)
          /\ Len(list) = Len(badges[l]) + 1 /\ list \in Seq(BP!Badge)
      BY <3>3, AppendProperties
    <3>5. Len(badges[l]) \in Nat /\ DOMAIN list = 1..Len(list)
      BY <3>3, <3>4, LenProperties
    <3>6. badges'[l] = list
      BY <3>1, <3>2
    <3> HIDE DEF list
    <3>7. Len(badges[l]) + 1 \in DOMAIN list
      BY <3>4, <3>5
    <3>8. QED
      BY <3>4, <3>6, <3>7 DEF BN!HasBadge, BN!NewBadge
  <2>3. ASSUME rewardPoolAddress # None
        PROVE  (paid'[<<l, id>>] = 1) # (<<l, id>> \in pending')
    BY <1>1, <2>1, <2>3, LastModuleSettles
  <2>4. QED
    BY <2>2, <2>3
<1>2. StorageInv /\ [Next]_vars => [Atomic]_vars
  BY <1>1
<1>3. QED
  BY <1>2, StorageInvariant, PTL DEF Spec, CompletionAtomic

-----------------------------------------------------------------------------
(* While nobody administers the badge contract it has no badges, so that   *)
(* the registry inherits none.                                             *)
NoBadgesYet == badgeAdmin = None => \A l \in Learners : badges[l] = <<>>

(* Badges stay earned whatever is completed, minted, revoked or rewired.   *)
LEMMA EarnedStep ==
  ASSUME StorageInv, NoBadgesYet, BadgesEarned, [Next]_vars
  PROVE  NoBadgesYet' /\ BadgesEarned'
<1>1. FinishedStays
  BY RegistryInvStep DEF StorageInv
<1>2. badges \in [Learners -> Seq(BP!Badge)]
  BY DEF StorageInv, BP!BadgeInv, BP!TypeOK
<1>3. Registry # None /\ Registry \notin Admins /\ None \notin Admins
  BY RegistryAssumption
<1>4. CASE UNCHANGED badgeVars
  BY <1>1, <1>4 DEF badgeVars, NoBadgesYet, BadgesEarned, BN!HasBadge, FinishedStays
<1>5. ASSUME NEW admin \in Admins \cup {Registry}, BN!InitializeBadge(admin)
      PROVE  NoBadgesYet' /\ BadgesEarned'
  <2>1. \A l \in Learners : badges'[l] = <<>>
    BY <1>5 DEF BN!InitializeBadge, NoBadgesYet
  <2>2. \A l \in Learners, id \in CourseIds : ~BN!HasBadge(l, id)'
    BY <2>1, EmptySeq DEF BN!HasBadge
  <2>3. QED
    BY <2>1, <2>2 DEF NoBadgesYet, BadgesEarned
<1>6. ASSUME NEW admin \in Admins, NEW l \in Learners, NEW id \in CourseIds,
             BN!MintBadge(admin, l, id) \/ BN!RevokeBadge(admin, l, id)
      PROVE  badgeAdmin' # None /\ badgeAdmin' # Registry
  BY <1>3, <1>6 DEF BN!MintBadge, BN!CanMint, BN!RevokeBadge
<1>7. CASE BadgeStep
  BY <1>5, <1>6, <1>7 DEF BadgeStep, NoBadgesYet, BadgesEarned
<1>8. ASSUME NEW l \in Learners, NEW id \in CourseIds, NEW verifier \in Admins,
             CompleteModule(verifier, l, id), IsLastModule(l, id), BN!MintBadge(Registry, l, id)
      PROVE  NoBadgesYet' /\ BadgesEarned'
  <2>1. badgeAdmin = Registry /\ badgeAdmin' = Registry
    BY <1>8 DEF BN!MintBadge, BN!CanMint
  <2>2. IsCourseFinished(l, id)'
    BY <1>8, LastModuleFinishes DEF StorageInv, RegistryInv
  <2>3. ASSUME NEW l2 \in Learners, NEW c \in CourseIds, BN!HasBadge(l2, c)'
        PROVE  BN!HasBadge(l2, c) \/ (l2 = l /\ c = id)
    <3> DEFINE list == Append(badges[l], BN!NewBadge(id))
    <3>1. badges' = [badges EXCEPT ![l] = list]
      BY <1>8 DEF BN!MintBadge
    <3>2. badges[l] \in Seq(BP!Badge) /\ BN!NewBadge(id) \in BP!Badge
      BY <1>2 DEF BN!NewBadge, BP!Badge, StorageInv, BP!BadgeInv, BP!TypeOK
    <3>3. /\ Len(list) = Len(badges[l]) + 1 /\ list \in Seq(BP!Badge)
          /\ list[Len(badges[l]) + 1] = BN!NewBadge(id)
          /\ \A i \in 1..Len(badges[l]) : list[i] = badges[l][i]
      BY <3>2, AppendProperties
    <3>4. /\ Len(badges[l]) \in Nat /\ DOMAIN badges[l] = 1..Len(badges[l])
          /\ DOMAIN list = 1..Len(list)
      BY <3>2, <3>3, LenProperties
    <3> HIDE DEF list
    <3>5. CASE l2 = l
      <4>1. PICK i \in DOMAIN list : list[i].course_id = c
        BY <1>2, <2>3, <3>1, <3>5 DEF BN!HasBadge
      <4>2. CASE i \in 1..Len(badges[l])
        BY <3>3, <3>4, <3>5, <4>1, <4>2 DEF BN!HasBadge
      <4>3. CASE i = Len(badges[l]) + 1
        BY <3>3, <3>5, <4>1, <4>3 DEF BN!NewBadge
      <4>4. QED
        BY <3>3, <3>4, <4>1, <4>2, <4>3
    <3>6. CASE l2 # l
      BY <1>2, <2>3, <3>1, <3>6 DEF BN!HasBadge
    <3>7. QED
      BY <3>5, <3>6
  <2>4. QED
    BY <1>1, <1>3, <2>1, <2>2, <2>3 DEF NoBadgesYet, BadgesEarned, FinishedStays
<1>9. QED
  BY <1>4, <1>7, <1>8, BadgeCalls

(* While the registry administers the badge contract, every badge is proof *)
(* of a finished course, whatever the contract was before.                 *)
THEOREM BadgesAreEarned == Spec => []BadgesEarned
<1>1. Init => NoBadgesYet /\ BadgesEarned
  <2> SUFFICES ASSUME Init PROVE NoBadgesYet /\ BadgesEarned
    OBVIOUS
  <2>1. badgeAdmin = None /\ badgeAdmin # Registry /\ \A l \in Learners : badges[l] = <<>>
    BY RegistryAssumption DEF Init, BN!Init
  <2>2. QED
    BY <2>1 DEF NoBadgesYet, BadgesEarned
<1>2. QED
  BY <1>1, EarnedStep, StorageInvariant, PTL DEF Spec

-----------------------------------------------------------------------------
(* What a transaction can do to rewards: nothing, settle one with a last   *)
(* module, or use up one claim.                                            *)
LEMMA RewardCalls ==
  ASSUME StorageInv, [Next]_vars
  PROVE  \/ /\ UNCHANGED <<paid, pending>>
            /\ \A l \in Learners, id \in CourseIds :
                 IsCourseFinished(l, id)' <=> IsCourseFinished(l, id)
         \/ \E l \in Learners, id \in CourseIds, verifier \in Admins :
              CompleteModule(verifier, l, id) /\ IsLastModule(l, id)
         \/ \E l \in Learners, id \in CourseIds : ClaimCompletionReward(l, id)
<1>1. FinishedStays
  BY RegistryInvStep DEF StorageInv
<1>2. CASE \E l \in Learners, id \in CourseIds, verifier \in Admins :
              CompleteModule(verifier, l, id) /\ IsLastModule(l, id)
  BY <1>2
<1>3. CASE ~\E l \in Learners, id \in CourseIds, verifier \in Admins :
               CompleteModule(verifier, l, id) /\ IsLastModule(l, id)
  <2>1. ASSUME NEW l \in Learners, NEW id \in CourseIds
        PROVE  IsCourseFinished(l, id)' <=> IsCourseFinished(l, id)
    BY <1>1, <1>3, FinishedByLastModule DEF FinishedStays, StorageInv
  <2>2. UNCHANGED <<paid, pending>>
          \/ \E l \in Learners, id \in CourseIds : ClaimCompletionReward(l, id)
    <3>1. CASE RegistryStep
      BY <3>1 DEF RegistryStep, Initialize, SetRewardPoolAddress, SetBadgeNftAddress,
           CreateCourse, SetCourseStatus, UpdateMetadata, TransferOwnership, Rewrite, learning
    <3>2. CASE LearnerStep
      BY <1>3, <3>2 DEF LearnerStep, Enroll, CompleteModule
    <3>3. CASE PoolStep \/ BadgeStep \/ UNCHANGED vars
      BY <3>3 DEF PoolStep, BadgeStep, vars, learning
    <3>4. QED
      BY <3>1, <3>2, <3>3 DEF Next
  <2>3. QED
    BY <2>1, <2>2
<1>4. QED
  BY <1>2, <1>3

Statuses == [p \in Completions |-> RewardStatus(p)]

(* Where only one completion's reward changes, only its status does.       *)
LEMMA OneStatusChanged ==
  ASSUME NEW p \in Completions, NEW s, RewardStatus(p)' = s,
         \A q \in Completions : q # p => RewardStatus(q)' = RewardStatus(q)
  PROVE  Statuses' = [Statuses EXCEPT ![p] = s]
BY DEF Statuses

(* Another completion's status, while one reward is settled.               *)
LEMMA OtherStatus ==
  ASSUME StorageInv, [Next]_vars, NEW p \in Completions, NEW q \in Completions, q # p,
         paid'[q] = paid[q], q \in pending' <=> q \in pending,
         IsCourseFinished(q[1], q[2])' => IsCourseFinished(q[1], q[2])
  PROVE  RewardStatus(q)' = RewardStatus(q)
<1>1. IsCourseFinished(q[1], q[2])' <=> IsCourseFinished(q[1], q[2])
  <2>1. q[1] \in Learners /\ q[2] \in CourseIds
    BY DEF Completions
  <2>2. QED
    BY <2>1, RegistryInvStep DEF StorageInv, FinishedStays
<1>2. QED
  BY <1>1 DEF RewardStatus

(* complete_module, with the last module, completes an open reward.        *)
LEMMA CompleteSettles ==
  ASSUME StorageInv, [Next]_vars, NEW verifier \in Admins, NEW l \in Learners,
         NEW id \in CourseIds, CompleteModule(verifier, l, id), IsLastModule(l, id)
  PROVE  Settlement!Complete(<<l, id>>)
<1> DEFINE p == <<l, id>>
<1>1. p \in Completions /\ p[1] = l /\ p[2] = id
  BY DEF Completions
<1>2. /\ paid[p] = 0 /\ p \notin pending
      /\ ~IsCourseFinished(l, id) /\ IsCourseFinished(l, id)'
      /\ \A q \in Completions : q # p =>
           paid'[q] = paid[q] /\ (q \in pending' <=> q \in pending)
      /\ paid'[p] \in {0, 1}
      /\ paid'[p] = 1 => p \notin pending'
  BY LastModuleSettles
<1> HIDE DEF p
<1>3. RewardStatus(p) = "open"
  BY <1>1, <1>2 DEF RewardStatus
<1>4. RewardStatus(p)' \in {"paid", "pending", "lost"}
  <2>1. CASE paid'[p] = 1
    BY <1>2, <2>1 DEF RewardStatus
  <2>2. CASE paid'[p] = 0
    BY <1>1, <1>2, <2>2 DEF RewardStatus
  <2>3. QED
    BY <1>2, <2>1, <2>2
<1>5. ASSUME NEW q \in Completions, q # p PROVE RewardStatus(q)' = RewardStatus(q)
  <2>1. IsCourseFinished(q[1], q[2])' => IsCourseFinished(q[1], q[2])
    <3>1. q[1] \in Learners /\ q[2] \in CourseIds /\ q = <<q[1], q[2]>>
      BY DEF Completions
    <3>2. <<q[1], q[2]>> # <<l, id>>
      BY <1>5, <3>1 DEF p
    <3>3. UNCHANGED courses
      BY DEF CompleteModule, catalogue
    <3>4. GetProgress(q[1], q[2])' = GetProgress(q[1], q[2])
      BY <3>1, <3>2, ProgressByOne DEF StorageInv, RegistryInv
    <3>5. QED
      BY <3>3, <3>4 DEF IsCourseFinished
  <2>2. QED
    BY <1>1, <1>2, <1>5, <2>1, OtherStatus
<1>6. Statuses' = [Statuses EXCEPT ![p] = RewardStatus(p)'] /\ Statuses[p] = "open"
  BY <1>1, <1>3, <1>5, OneStatusChanged DEF Statuses
<1>7. QED
  BY <1>1, <1>4, <1>6 DEF Settlement!Complete, Settlement!Set, Statuses, p

(* claim_completion_reward uses up a pending reward.                       *)
LEMMA ClaimSettles ==
  ASSUME StorageInv, [Next]_vars, NEW l \in Learners, NEW id \in CourseIds,
         ClaimCompletionReward(l, id)
  PROVE  Settlement!Claim(<<l, id>>)
<1> DEFINE p == <<l, id>>
<1>1. /\ p \in Completions /\ p[1] = l /\ p[2] = id /\ paid \in [Completions -> Nat]
      /\ p \in pending /\ pending' = pending \ {p} /\ UNCHANGED <<courses, progress>>
  BY DEF Completions, ClaimCompletionReward, catalogue, StorageInv, RegistryInv, RegistryTypes
<1>2. paid' = IF PoolPays THEN [paid EXCEPT ![p] = @ + 1] ELSE paid
  BY PaidOnceMore DEF ClaimCompletionReward
<1>3. paid[p] = 0 /\ IsCourseFinished(l, id)
  BY <1>1 DEF StorageInv, RegistryInv, RewardAtMostOnce
<1>4. /\ paid'[p] \in {0, 1}
      /\ \A q \in Completions : q # p => paid'[q] = paid[q]
  BY <1>1, <1>2, <1>3
<1>5. \A x, y : IsCourseFinished(x, y)' <=> IsCourseFinished(x, y)
  BY <1>1 DEF IsCourseFinished, GetProgress
<1> HIDE DEF p
<1>6. RewardStatus(p) = "pending"
  <2>1. paid[p] = 0 /\ p \in pending
    BY <1>1, <1>3
  <2>2. QED
    BY <2>1 DEF RewardStatus
<1>7. RewardStatus(p)' \in {"paid", "lost"}
  <2>1. p \notin pending' /\ IsCourseFinished(p[1], p[2])'
    BY <1>1, <1>3, <1>5
  <2>2. CASE paid'[p] = 1
    BY <2>1, <2>2 DEF RewardStatus
  <2>3. CASE paid'[p] = 0
    BY <2>1, <2>3 DEF RewardStatus
  <2>4. QED
    BY <1>4, <2>2, <2>3
<1>8. ASSUME NEW q \in Completions, q # p PROVE RewardStatus(q)' = RewardStatus(q)
  BY <1>1, <1>4, <1>5, <1>8, OtherStatus
<1>9. Statuses' = [Statuses EXCEPT ![p] = RewardStatus(p)'] /\ Statuses[p] = "pending"
  BY <1>1, <1>6, <1>8, OneStatusChanged DEF Statuses
<1>10. QED
  BY <1>1, <1>7, <1>9 DEF Settlement!Claim, Settlement!Set, Statuses, p

(* The registry implements the life cycle of a reward: open, then paid,    *)
(* pending or lost in one transaction, and a claim is final.               *)
THEOREM ImplementsRewards == Spec => ImplementsSettlement
<1>1. Init => Settlement!Init
  <2> SUFFICES ASSUME Init, NEW p \in Completions PROVE RewardStatus(p) = "open"
    BY DEF Settlement!Init
  <2>1. paid[p] = 0 /\ p \notin pending /\ ~IsCourseFinished(p[1], p[2])
    BY DEF Init, Completions, IsCourseFinished
  <2>2. QED
    BY <2>1 DEF RewardStatus
<1>2. StorageInv /\ [Next]_vars => [Settlement!Next]_Statuses
  <2> SUFFICES ASSUME StorageInv, [Next]_vars PROVE Settlement!Next \/ UNCHANGED Statuses
    OBVIOUS
  <2>1. ASSUME UNCHANGED <<paid, pending>>,
               \A l \in Learners, id \in CourseIds :
                 IsCourseFinished(l, id)' <=> IsCourseFinished(l, id)
        PROVE  UNCHANGED Statuses
    <3>1. ASSUME NEW p \in Completions PROVE RewardStatus(p)' = RewardStatus(p)
      <4>1. IsCourseFinished(p[1], p[2])' <=> IsCourseFinished(p[1], p[2])
        BY <2>1 DEF Completions
      <4>2. QED
        BY <2>1, <4>1 DEF RewardStatus
    <3>2. QED
      BY <3>1 DEF Statuses
  <2>2. ASSUME NEW l \in Learners, NEW id \in CourseIds,
               \/ \E verifier \in Admins : CompleteModule(verifier, l, id) /\ IsLastModule(l, id)
               \/ ClaimCompletionReward(l, id)
        PROVE  Settlement!Next
    BY <2>2, CompleteSettles, ClaimSettles DEF Settlement!Next, Completions
  <2>3. QED
    BY <2>1, <2>2, RewardCalls
<1>3. QED
  BY <1>1, <1>2, StorageInvariant, PTL DEF Spec, ImplementsSettlement, Settlement!Spec, Statuses
=============================================================================
