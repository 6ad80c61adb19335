---------------------------- MODULE BadgeNFTProofs ----------------------------
(***************************************************************************)
(* Theorems about BadgeNFT, for every set of learners, courses and minters *)
(* and every bound on time.                                                *)
(***************************************************************************)
EXTENDS BadgeNFT, SequenceTheorems, TLAPS

(* A vector with one badge per course, in minting order and none of it     *)
(* dated after `time'.                                                     *)
WellKept(list, time) ==
  /\ \A i, j \in 1..Len(list) : list[i].course_id = list[j].course_id => i = j
  /\ \A i, j \in 1..Len(list) :
       /\ list[i].minted_at <= time
       /\ i < j => list[i].minted_at <= list[j].minted_at

(* revoke_badge's scan: where the vector holds one badge for the course,   *)
(* the badges before it stay and the badges after it move down by one.     *)
LEMMA WithoutShifts ==
  ASSUME NEW list \in Seq(Badge), NEW course, NEW k \in 1..Len(list),
         \A i \in 1..Len(list) : list[i].course_id = course <=> i = k
  PROVE  /\ Without(list, course) \in Seq(Badge)
         /\ Len(Without(list, course)) = Len(list) - 1
         /\ \A i \in 1..Len(list) - 1 :
              Without(list, course)[i] = IF i < k THEN list[i] ELSE list[i + 1]
<1> DEFINE I == {i \in 1..Len(list) : list[i].course_id = course}
           left == SubSeq(list, 1, k - 1)
           right == SubSeq(list, k + 1, Len(list))
<1>1. I = {k}
  OBVIOUS
<1>2. Min(I) = k
  BY <1>1 DEF Min
<1>3. SelectInSeq(list, LAMBDA b : b.course_id = course) = k
  BY <1>1, <1>2 DEF SelectInSeq
<1>4. Without(list, course) = left \o right
  BY <1>1, <1>3 DEF Without, RemoveFirstMatch, RemoveAt
<1>5. /\ left \in Seq(Badge) /\ Len(left) = k - 1
      /\ \A i \in 1..k - 1 : left[i] = list[i]
  BY SubSeqProperties
<1>6. /\ right \in Seq(Badge) /\ Len(right) = Len(list) - k
      /\ \A i \in 1..Len(list) - k : right[i] = list[k + i]
  BY SubSeqProperties
<1> HIDE DEF left, right, I
<1>7. /\ left \o right \in Seq(Badge)
      /\ Len(left \o right) = Len(list) - 1
      /\ \A i \in 1..Len(list) - 1 :
           (left \o right)[i] = IF i < k THEN list[i] ELSE list[i + 1]
  <2>1. /\ left \o right \in Seq(Badge)
        /\ Len(left \o right) = Len(left) + Len(right)
        /\ \A i \in 1..Len(left) + Len(right) :
             (left \o right)[i] = IF i <= Len(left) THEN left[i] ELSE right[i - Len(left)]
    BY <1>5, <1>6, ConcatProperties
  <2>2. Len(list) \in Nat
    BY LenProperties
  <2>3. Len(left) + Len(right) = Len(list) - 1
    BY <1>5, <1>6, <2>2
  <2>4. ASSUME NEW i \in 1..Len(list) - 1
        PROVE  (left \o right)[i] = IF i < k THEN list[i] ELSE list[i + 1]
    <3>1. CASE i < k
      <4>1. (left \o right)[i] = left[i]
        BY <1>5, <2>1, <2>3, <3>1
      <4>2. QED
        BY <1>5, <3>1, <4>1
    <3>2. CASE ~(i < k)
      <4>1. (left \o right)[i] = right[i - (k - 1)]
        BY <1>5, <2>1, <2>2, <2>3, <3>2
      <4>2. i - (k - 1) \in 1..Len(list) - k /\ k + (i - (k - 1)) = i + 1
        BY <2>2, <3>2
      <4>3. QED
        BY <1>6, <3>2, <4>1, <4>2
    <3>3. QED
      BY <3>1, <3>2
  <2>5. QED
    BY <2>1, <2>3, <2>4
<1>8. QED
  BY <1>4, <1>7

(* Without a badge for the course the vector is returned as it was.        *)
LEMMA WithoutAbsent ==
  ASSUME NEW list, NEW course,
         \A i \in 1..Len(list) : list[i].course_id # course
  PROVE  Without(list, course) = list
BY DEF Without, RemoveFirstMatch

(* mint_badge's append keeps a vector well kept: the course is new and the *)
(* badge is not older than any other.                                      *)
LEMMA MintKeepsOrder ==
  ASSUME NEW list \in Seq(Badge), NEW time \in Int, WellKept(list, time),
         NEW course \in Courses, NEW badge \in Badge,
         badge.course_id = course, badge.minted_at = time,
         \A i \in 1..Len(list) : list[i].course_id # course
  PROVE  Append(list, badge) \in Seq(Badge) /\ WellKept(Append(list, badge), time)
<1>1. /\ Append(list, badge) \in Seq(Badge)
      /\ Len(Append(list, badge)) = Len(list) + 1
      /\ \A i \in 1..Len(list) : Append(list, badge)[i] = list[i]
      /\ Append(list, badge)[Len(list) + 1] = badge
  BY AppendProperties
<1>2. Len(list) \in Nat
  BY LenProperties
<1> DEFINE longer == Append(list, badge)
<1> HIDE DEF longer
<1>3. longer \in Seq(Badge) /\ Len(longer) = Len(list) + 1
  BY <1>1 DEF longer
<1>4. \A i \in 1..Len(longer) :
        \/ i \in 1..Len(list) /\ longer[i] = list[i]
        \/ i = Len(list) + 1 /\ longer[i] = badge
  BY <1>1, <1>2, <1>3 DEF longer
<1>5. ASSUME NEW i \in 1..Len(longer), NEW j \in 1..Len(longer),
             longer[i].course_id = longer[j].course_id
      PROVE  i = j
  BY <1>2, <1>4, <1>5 DEF WellKept
<1>6. ASSUME NEW i \in 1..Len(longer) PROVE longer[i].minted_at <= time
  BY <1>4, <1>6 DEF WellKept
<1>7. ASSUME NEW i \in 1..Len(longer), NEW j \in 1..Len(longer), i < j
      PROVE  longer[i].minted_at <= longer[j].minted_at
  <2>1. i \in 1..Len(list) /\ longer[i] = list[i]
    BY <1>2, <1>3, <1>4, <1>7
  <2>2. CASE j \in 1..Len(list) /\ longer[j] = list[j]
    BY <1>7, <2>1, <2>2 DEF WellKept
  <2>3. CASE longer[j] = badge
    BY <2>1, <2>3 DEF WellKept
  <2>4. QED
    BY <1>4, <2>2, <2>3
<1>8. QED
  BY <1>3, <1>5, <1>6, <1>7 DEF WellKept, longer

(* revoke_badge keeps a vector well kept, with and without a badge for the *)
(* course.                                                                 *)
LEMMA RevokeKeepsOrder ==
  ASSUME NEW list \in Seq(Badge), NEW time \in Int, WellKept(list, time), NEW course
  PROVE  Without(list, course) \in Seq(Badge) /\ WellKept(Without(list, course), time)
<1>1. CASE \A i \in 1..Len(list) : list[i].course_id # course
  BY <1>1, WithoutAbsent
<1>2. CASE \E i \in 1..Len(list) : list[i].course_id = course
  <2>1. PICK k \in 1..Len(list) : list[k].course_id = course
    BY <1>2
  <2>2. \A i \in 1..Len(list) : list[i].course_id = course <=> i = k
    BY <2>1 DEF WellKept
  <2>3. /\ Without(list, course) \in Seq(Badge)
        /\ Len(Without(list, course)) = Len(list) - 1
        /\ \A i \in 1..Len(list) - 1 :
             Without(list, course)[i] = IF i < k THEN list[i] ELSE list[i + 1]
    BY <2>2, WithoutShifts
  <2>4. Len(list) \in Nat
    BY LenProperties
  <2> DEFINE rest == Without(list, course)
             old(i) == IF i < k THEN i ELSE i + 1
  <2> HIDE DEF rest
  <2>5. ASSUME NEW i \in 1..Len(rest)
        PROVE  old(i) \in 1..Len(list) /\ rest[i] = list[old(i)]
    BY <2>3, <2>4 DEF rest
  <2>6. ASSUME NEW i \in 1..Len(rest), NEW j \in 1..Len(rest)
        PROVE  /\ rest[i].course_id = rest[j].course_id => i = j
               /\ rest[i].minted_at <= time
               /\ i < j => rest[i].minted_at <= rest[j].minted_at
    <3>1. /\ old(i) \in 1..Len(list) /\ rest[i] = list[old(i)]
          /\ old(j) \in 1..Len(list) /\ rest[j] = list[old(j)]
      BY <2>5
    <3>2. i \in Int /\ j \in Int
      OBVIOUS
    <3>3. (old(i) = old(j) => i = j) /\ (i < j => old(i) < old(j))
      BY <3>2
    <3> HIDE DEF old
    <3>4. QED
      BY <3>1, <3>3 DEF WellKept
  <2>7. WellKept(rest, time)
    BY <2>6 DEF WellKept
  <2>8. QED
    BY <2>3, <2>7 DEF rest
<1>3. QED
  BY <1>1, <1>2

-----------------------------------------------------------------------------
(* The inductive invariant: every vector is well kept, and its badges have *)
(* times that can be compared.                                             *)
BadgeInv == TypeOK /\ \A l \in Learners : WellKept(badges[l], now)

(* A badge contract that nobody has called yet keeps empty vectors, which  *)
(* are well kept.                                                          *)
LEMMA BadgeInvInit == Init => BadgeInv
<1> SUFFICES ASSUME Init PROVE BadgeInv
  OBVIOUS
<1>1. TypeOK
  BY BadgeAssumption, EmptySeq DEF Init, TypeOK
<1>2. \A l \in Learners : WellKept(badges[l], now)
  BY EmptySeq DEF Init, WellKept
<1>3. QED
  BY <1>1, <1>2 DEF BadgeInv

(* A call that replaces one learner's vector by a well kept one.           *)
LEMMA OneVectorChanged ==
  ASSUME BadgeInv, NEW learner \in Learners, NEW list \in Seq(Badge), WellKept(list, now),
         badges' = [badges EXCEPT ![learner] = list], UNCHANGED <<badgeAdmin, now>>
  PROVE  BadgeInv'
<1>1. TypeOK'
  BY DEF BadgeInv, TypeOK
<1>2. ASSUME NEW l \in Learners PROVE WellKept(badges'[l], now')
  BY DEF BadgeInv, TypeOK
<1>3. (\A l \in Learners : WellKept(badges[l], now))'
  BY <1>2
<1>4. QED
  BY <1>1, <1>3 DEF BadgeInv

(* mint_badge preserves the invariant.                                     *)
LEMMA MintStep ==
  ASSUME BadgeInv, NEW caller \in Minters, NEW learner \in Learners,
         NEW course \in Courses, MintBadge(caller, learner, course)
  PROVE  BadgeInv'
<1> DEFINE list == Append(badges[learner], NewBadge(course))
<1>1. badges[learner] \in Seq(Badge) /\ now \in 0..MaxTime /\ WellKept(badges[learner], now)
  BY DEF BadgeInv, TypeOK
<1>2. \A i \in 1..Len(badges[learner]) : badges[learner][i].course_id # course
  BY <1>1, LenProperties DEF MintBadge, CanMint, HasBadge
<1>3. NewBadge(course) \in Badge
  BY <1>1 DEF NewBadge, Badge
<1>4. list \in Seq(Badge) /\ WellKept(list, now)
  BY <1>1, <1>2, <1>3, MintKeepsOrder DEF NewBadge
<1>5. badges' = [badges EXCEPT ![learner] = list] /\ UNCHANGED <<badgeAdmin, now>>
  BY DEF MintBadge
<1> HIDE DEF list
<1>6. QED
  BY <1>4, <1>5, OneVectorChanged

(* revoke_badge preserves the invariant.                                   *)
LEMMA RevokeStep ==
  ASSUME BadgeInv, NEW caller \in Minters, NEW learner \in Learners,
         NEW course \in Courses, RevokeBadge(caller, learner, course)
  PROVE  BadgeInv'
<1> DEFINE list == Without(badges[learner], course)
<1>1. badges[learner] \in Seq(Badge) /\ now \in Int /\ WellKept(badges[learner], now)
  BY BadgeAssumption DEF BadgeInv, TypeOK
<1>2. list \in Seq(Badge) /\ WellKept(list, now)
  BY <1>1, RevokeKeepsOrder
<1>3. badges' = [badges EXCEPT ![learner] = list] /\ UNCHANGED <<badgeAdmin, now>>
  BY DEF RevokeBadge
<1> HIDE DEF list
<1>4. QED
  BY <1>2, <1>3, OneVectorChanged

(* Every call of the badge contract, and the passing of time, preserves    *)
(* the invariant.                                                          *)
LEMMA BadgeInvStep == BadgeInv /\ [Next]_badgeVars => BadgeInv'
<1> SUFFICES ASSUME BadgeInv, [Next]_badgeVars PROVE BadgeInv'
  OBVIOUS
<1>1. ASSUME NEW admin \in Minters, InitializeBadge(admin) PROVE BadgeInv'
  BY <1>1 DEF BadgeInv, TypeOK, InitializeBadge
<1>2. ASSUME NEW caller \in Minters, NEW learner \in Learners, NEW course \in Courses,
             MintBadge(caller, learner, course)
      PROVE  BadgeInv'
  BY <1>2, MintStep
<1>3. ASSUME NEW caller \in Minters, NEW learner \in Learners, NEW course \in Courses,
             RevokeBadge(caller, learner, course)
      PROVE  BadgeInv'
  BY <1>3, RevokeStep
<1>4. CASE Tick
  <2>1. TypeOK'
    BY <1>4, BadgeAssumption DEF BadgeInv, TypeOK, Tick
  <2>2. ASSUME NEW l \in Learners PROVE WellKept(badges[l], now')
    <3>1. WellKept(badges[l], now) /\ badges[l] \in Seq(Badge) /\ now \in Int /\ now' = now + 1
      BY <1>4, BadgeAssumption DEF BadgeInv, TypeOK, Tick
    <3>2. \A i \in 1..Len(badges[l]) : badges[l][i].minted_at \in Int
      <4>1. \A b \in Badge : b.minted_at \in Int
        BY BadgeAssumption DEF Badge
      <4>2. \A i \in 1..Len(badges[l]) : badges[l][i] \in Badge
        BY <3>1, ElementOfSeq
      <4>3. QED
        BY <4>1, <4>2
    <3>3. QED
      BY <3>1, <3>2 DEF WellKept
  <2>3. (\A l \in Learners : WellKept(badges[l], now))'
    BY <1>4, <2>2 DEF Tick
  <2>4. QED
    BY <2>1, <2>3 DEF BadgeInv
<1>5. CASE UNCHANGED badgeVars
  BY <1>5 DEF BadgeInv, TypeOK, badgeVars
<1>6. QED
  BY <1>1, <1>2, <1>3, <1>4, <1>5 DEF Next

(* Through every sequence of mints and revocations all vectors are well    *)
(* kept.                                                                   *)
THEOREM BadgeInvariant == Spec => []BadgeInv
BY BadgeInvInit, BadgeInvStep, PTL DEF Spec

(* Every storage entry of the badge contract keeps its type, for every     *)
(* number of calls.                                                        *)
THEOREM BadgeTypes == Spec => []TypeOK
<1>1. BadgeInv => TypeOK
  BY DEF BadgeInv
<1>2. QED
  BY <1>1, BadgeInvariant, PTL

(* No learner ever holds two badges for one course.                        *)
THEOREM OneBadge == Spec => []OneBadgePerCourse
<1>1. BadgeInv => OneBadgePerCourse
  BY LenProperties DEF BadgeInv, TypeOK, WellKept, OneBadgePerCourse
<1>2. QED
  BY <1>1, BadgeInvariant, PTL

(* Every vector stays in minting order with no badge from the future.      *)
THEOREM MintOrderKept == Spec => []MintOrder
<1>1. BadgeInv => MintOrder
  BY LenProperties DEF BadgeInv, TypeOK, WellKept, MintOrder
<1>2. QED
  BY <1>1, BadgeInvariant, PTL

-----------------------------------------------------------------------------
(* What a revocation does to a well kept vector, seen as a set of courses  *)
(* and a count.                                                            *)
LEMMA RevokedSet ==
  ASSUME NEW list \in Seq(Badge), NEW time, WellKept(list, time), NEW course
  PROVE  /\ CoursesIn(Without(list, course)) = CoursesIn(list) \ {course}
         /\ course \in CoursesIn(list) => Len(Without(list, course)) = Len(list) - 1
         /\ course \notin CoursesIn(list) => Without(list, course) = list
<1>1. CoursesIn(list) = {list[i].course_id : i \in 1..Len(list)} /\ Len(list) \in Nat
  BY LenProperties DEF CoursesIn
<1>2. CASE \A i \in 1..Len(list) : list[i].course_id # course
  BY <1>1, <1>2, WithoutAbsent
<1>3. CASE \E i \in 1..Len(list) : list[i].course_id = course
  <2>1. PICK k \in 1..Len(list) : list[k].course_id = course
    BY <1>3
  <2>2. \A i \in 1..Len(list) : list[i].course_id = course <=> i = k
    BY <2>1 DEF WellKept
  <2> DEFINE rest == Without(list, course)
  <2>3. /\ rest \in Seq(Badge)
        /\ Len(rest) = Len(list) - 1
        /\ \A i \in 1..Len(list) - 1 : rest[i] = IF i < k THEN list[i] ELSE list[i + 1]
    BY <2>2, WithoutShifts
  <2> HIDE DEF rest
  <2>4. CoursesIn(rest) = {rest[i].course_id : i \in 1..Len(list) - 1}
    BY <2>3, LenProperties DEF CoursesIn
  <2>5. ASSUME NEW c \in CoursesIn(rest) PROVE c \in CoursesIn(list) \ {course}
    <3>1. PICK i \in 1..Len(list) - 1 : c = rest[i].course_id
      BY <2>4, <2>5
    <3>2. PICK j \in 1..Len(list) : j # k /\ rest[i] = list[j]
      <4>1. CASE i < k
        BY <1>1, <2>3, <4>1
      <4>2. CASE ~(i < k)
        BY <1>1, <2>3, <4>2
      <4>3. QED
        BY <4>1, <4>2
    <3>3. QED
      BY <1>1, <2>2, <3>1, <3>2
  <2>6. ASSUME NEW c \in CoursesIn(list) \ {course} PROVE c \in CoursesIn(rest)
    <3>1. PICK j \in 1..Len(list) : c = list[j].course_id
      BY <1>1
    <3>2. j # k
      BY <2>1, <3>1
    <3>3. PICK i \in 1..Len(list) - 1 : rest[i] = list[j]
      <4>1. CASE j < k
        BY <1>1, <2>3, <4>1
      <4>2. CASE j > k
        <5>1. j - 1 \in 1..Len(list) - 1 /\ ~(j - 1 < k) /\ (j - 1) + 1 = j
          BY <1>1, <4>2
        <5>2. QED
          BY <2>3, <5>1
      <4>3. QED
        BY <3>2, <4>1, <4>2
    <3>4. QED
      BY <2>4, <3>1, <3>3
  <2>7. QED
    BY <1>1, <2>1, <2>3, <2>5, <2>6 DEF rest
<1>4. QED
  BY <1>2, <1>3

(* Revoking takes away the revoked course and no other.                    *)
THEOREM RevocationsExact == Spec => []RevocationExact
<1>1. BadgeInv => RevocationExact
  BY RevokedSet DEF BadgeInv, TypeOK, RevocationExact
<1>2. QED
  BY <1>1, BadgeInvariant, PTL

(* mint_badge is one gained course, counted once.                          *)
LEMMA GainStep ==
  ASSUME BadgeInv, NEW caller \in Minters, NEW learner \in Learners,
         NEW course \in Courses, MintBadge(caller, learner, course)
  PROVE  Held!Gain(learner, course)
<1>1. /\ badges[learner] \in Seq(Badge)
      /\ DOMAIN badges[learner] = 1..Len(badges[learner])
      /\ Len(badges[learner]) \in Nat
  BY LenProperties DEF BadgeInv, TypeOK
<1>2. NewBadge(course) \in Badge /\ NewBadge(course).course_id = course
  BY DEF BadgeInv, TypeOK, NewBadge, Badge
<1> DEFINE list == Append(badges[learner], NewBadge(course))
<1>3. /\ list \in Seq(Badge)
      /\ Len(list) = Len(badges[learner]) + 1
      /\ \A i \in 1..Len(badges[learner]) : list[i] = badges[learner][i]
      /\ list[Len(badges[learner]) + 1] = NewBadge(course)
  BY <1>1, <1>2, AppendProperties
<1>4. badges' = [badges EXCEPT ![learner] = list] /\ badges \in [Learners -> Seq(Badge)]
  BY DEF MintBadge, BadgeInv, TypeOK
<1> HIDE DEF list
<1>5. DOMAIN list = 1..Len(badges[learner]) + 1
  BY <1>3, LenProperties
<1>6. CoursesIn(list) = CoursesIn(badges[learner]) \cup {course}
  <2>1. CoursesIn(list) \subseteq CoursesIn(badges[learner]) \cup {course}
    BY <1>1, <1>2, <1>3, <1>5 DEF CoursesIn
  <2>2. CoursesIn(badges[learner]) \subseteq CoursesIn(list)
    BY <1>1, <1>3, <1>5 DEF CoursesIn
  <2>3. course \in CoursesIn(list)
    BY <1>1, <1>2, <1>3, <1>5 DEF CoursesIn
  <2>4. QED
    BY <2>1, <2>2, <2>3
<1>7. course \notin CoursesIn(badges[learner])
  BY DEF MintBadge, CanMint, HasBadge, CoursesIn
<1>8. QED
  BY <1>1, <1>3, <1>4, <1>6, <1>7 DEF Held!Gain, GetBadgeCount

(* revoke_badge is one lost course, or nothing for a course that is not    *)
(* held.                                                                   *)
LEMMA LoseStep ==
  ASSUME BadgeInv, NEW caller \in Minters, NEW learner \in Learners,
         NEW course \in Courses, RevokeBadge(caller, learner, course)
  PROVE  Held!Lose(learner, course) \/ UNCHANGED badges
<1> DEFINE list == Without(badges[learner], course)
<1>1. badges[learner] \in Seq(Badge) /\ WellKept(badges[learner], now)
  BY DEF BadgeInv, TypeOK
<1>2. /\ CoursesIn(list) = CoursesIn(badges[learner]) \ {course}
      /\ course \in CoursesIn(badges[learner]) => Len(list) = Len(badges[learner]) - 1
      /\ course \notin CoursesIn(badges[learner]) => list = badges[learner]
  BY <1>1, RevokedSet
<1>3. badges' = [badges EXCEPT ![learner] = list] /\ badges \in [Learners -> Seq(Badge)]
  BY DEF RevokeBadge, BadgeInv, TypeOK
<1> HIDE DEF list
<1>4. CASE course \in CoursesIn(badges[learner])
  BY <1>2, <1>3, <1>4 DEF Held!Lose, GetBadgeCount
<1>5. CASE course \notin CoursesIn(badges[learner])
  BY <1>2, <1>3, <1>5
<1>6. QED
  BY <1>4, <1>5

(* The badge contract implements sets of courses with a matching count:    *)
(* what governance weighs a vote by moves by one with each course.         *)
THEOREM ImplementsSoulbound == Spec => ImplementsSets
<1>1. Init => Held!Init
  BY EmptySeq DEF Init, Held!Init, CoursesIn, GetBadgeCount
<1>2. BadgeInv /\ [Next]_badgeVars
        => [Held!Next]_<<[l \in Learners |-> CoursesIn(badges[l])],
                         [l \in Learners |-> GetBadgeCount(l)]>>
  <2> SUFFICES ASSUME BadgeInv, [Next]_badgeVars
               PROVE  Held!Next \/ UNCHANGED badges
    BY DEF GetBadgeCount
  <2>1. ASSUME NEW caller \in Minters, NEW learner \in Learners, NEW course \in Courses,
               MintBadge(caller, learner, course)
        PROVE  Held!Next
    BY <2>1, GainStep DEF Held!Next
  <2>2. ASSUME NEW caller \in Minters, NEW learner \in Learners, NEW course \in Courses,
               RevokeBadge(caller, learner, course)
        PROVE  Held!Next \/ UNCHANGED badges
    BY <2>2, LoseStep DEF Held!Next
  <2>3. QED
    BY <2>1, <2>2 DEF Next, InitializeBadge, Tick, badgeVars
<1>3. QED
  BY <1>1, <1>2, BadgeInvariant, PTL DEF Spec, ImplementsSets, Held!Spec
=============================================================================
