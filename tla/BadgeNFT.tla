------------------------------- MODULE BadgeNFT -------------------------------
(***************************************************************************)
(* The BadgeNFT contract (contracts/badge-nft): soulbound course badges.   *)
(* A learner's badges are one vector under DataKey::UserBadges(learner); a *)
(* key that is not set reads as the empty vector.                          *)
(***************************************************************************)
EXTENDS Integers, SequencesExt

CONSTANTS
  Learners,   \* the addresses badges are minted to
  Courses,    \* the course identifiers (u32)
  Minters,    \* the addresses that may be given the admin role
  None,       \* the value of a storage key that is not set
  MaxTime     \* bound on the ledger time that is explored

ASSUME BadgeAssumption ==
  /\ None \notin Minters
  /\ MaxTime \in Nat

VARIABLES
  badgeAdmin,  \* DataKey::Admin
  badges,      \* DataKey::UserBadges(l), for each learner l
  now          \* env.ledger().timestamp()

badgeVars == <<badgeAdmin, badges, now>>

Badge == [course_id : Courses, minted_at : 0..MaxTime]

Init ==
  /\ badgeAdmin = None
  /\ badges = [l \in Learners |-> <<>>]
  /\ now = 0

-----------------------------------------------------------------------------
GetBadgeCount(learner) == Len(badges[learner])

HasBadge(learner, course) == \E i \in DOMAIN badges[learner] : badges[learner][i].course_id = course

(* Whoever calls first names the admin: the code asks for no signature.    *)
InitializeBadge(admin) ==
  /\ badgeAdmin = None
  /\ badgeAdmin' = admin
  /\ UNCHANGED <<badges, now>>

(* Every condition under which mint_badge does not panic.                  *)
CanMint_duplicate(caller, learner, course) ==
  badgeAdmin # None /\ caller = badgeAdmin

CanMint(caller, learner, course) ==
  /\ badgeAdmin # None /\ caller = badgeAdmin
  /\ ~HasBadge(learner, course)

NewBadge_nextLedger(course) == [course_id |-> course, minted_at |-> now + 1]

NewBadge(course) == [course_id |-> course, minted_at |-> now]

MintBadge(caller, learner, course) ==
  /\ CanMint(caller, learner, course)
  /\ badges' = [badges EXCEPT ![learner] = Append(@, NewBadge(course))]
  /\ UNCHANGED <<badgeAdmin, now>>

Without_swapLast(list, course) ==
  LET i == SelectInSeq(list, LAMBDA b : b.course_id = course)
  IN  IF i = 0 THEN list
      ELSE SubSeq([list EXCEPT ![i] = list[Len(list)]], 1, Len(list) - 1)

Without_lastBadge(list, course) ==
  IF \E i \in DOMAIN list : list[i].course_id = course THEN Front(list) ELSE list

Without_truncates(list, course) ==
  LET i == SelectInSeq(list, LAMBDA b : b.course_id = course)
  IN  IF i = 0 THEN list ELSE SubSeq(list, 1, i - 1)

(* The first badge for the course is removed; without one nothing changes. *)
Without(list, course) == RemoveFirstMatch(list, LAMBDA b : b.course_id = course)

RevokeBadge(admin, learner, course) ==
  /\ badgeAdmin # None /\ admin = badgeAdmin
  /\ badges' = [badges EXCEPT ![learner] = Without(@, course)]
  /\ UNCHANGED <<badgeAdmin, now>>

(* Ledgers close: time moves on between transactions.                      *)
Tick ==
  /\ now < MaxTime
  /\ now' = now + 1
  /\ UNCHANGED <<badgeAdmin, badges>>

Next ==
  \/ \E admin \in Minters : InitializeBadge(admin)
  \/ \E caller \in Minters, learner \in Learners, course \in Courses :
       \/ MintBadge(caller, learner, course)
       \/ RevokeBadge(caller, learner, course)
  \/ Tick

Spec == Init /\ [][Next]_badgeVars

-----------------------------------------------------------------------------
(* Every storage entry holds a value of its Rust type.                     *)
TypeOK ==
  /\ badgeAdmin \in Minters \cup {None}
  /\ badges \in [Learners -> Seq(Badge)]
  /\ now \in 0..MaxTime

(* mint_badge's scan enforces one badge per learner and course, through    *)
(* every order of mints and revocations.                                   *)
OneBadgePerCourse ==
  \A l \in Learners : \A i, j \in DOMAIN badges[l] :
    badges[l][i].course_id = badges[l][j].course_id => i = j

(* A learner's vector stays in the order of minting, and no badge is dated *)
(* in the future: removal in the middle must shift, never swap.            *)
MintOrder ==
  \A l \in Learners : \A i, j \in DOMAIN badges[l] :
    /\ badges[l][i].minted_at <= now
    /\ i < j => badges[l][i].minted_at <= badges[l][j].minted_at

CoursesIn(list) == {list[i].course_id : i \in DOMAIN list}

(* From whatever vector the calls so far have built, revoking a course     *)
(* takes away that course and no other, and is a no-op for a course that   *)
(* is not there.                                                           *)
RevocationExact ==
  \A l \in Learners, c \in Courses :
    CoursesIn(Without(badges[l], c)) = CoursesIn(badges[l]) \ {c}

(* The vectors implement sets of courses with a matching count: every call *)
(* gains a learner one course, loses one, or leaves set and count alone.   *)
Held == INSTANCE SoulboundBadges WITH
          held  <- [l \in Learners |-> CoursesIn(badges[l])],
          count <- [l \in Learners |-> GetBadgeCount(l)]
ImplementsSets == Held!Spec
=============================================================================
