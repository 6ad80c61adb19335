--------------------------- MODULE MCCourseRegistry ---------------------------
(* One administrator, who also donates, and one or two learners: two when  *)
(* they compete for the balance of the pool.                               *)
EXTENDS CourseRegistry

CONSTANTS admin1, teacher1, learner1, learner2

MCAddress == {Pool, Registry, Nft, Elsewhere, admin1, teacher1, learner1, learner2}
(* The administrator can pay for two rewards; sweeping recovers them.      *)
MCEndowment == [a \in MCAddress |-> IF a = admin1 THEN 2 * Reward ELSE 0]

OneAdmin == {admin1}
OneLearner == {learner1}
TwoLearners == {learner1, learner2}
Teachers == {teacher1}
=============================================================================
