---------------------------- MODULE MCQuestEngine ----------------------------
(* An administrator, two employers, of whom the first can lock two quests, *)
(* and learners who can stake one token, enough for the lower tier.        *)
EXTENDS QuestEngine

CONSTANTS admin1, employer1, employer2, learner1, learner2

MCAddress == {Pool, Vault, Engine, Elsewhere, admin1, employer1, employer2, learner1, learner2}
MCEndowment == [a \in MCAddress |->
  CASE a = employer1 -> 20
    [] a = employer2 -> 20
    [] a = admin1 -> 6
    [] a \in {learner1, learner2} -> 1
    [] OTHER -> 0]

MCAdmins == {admin1}
OneEmployer == {employer1}
TwoEmployers == {employer1, employer2}
OneLearner == {learner1}
TwoLearners == {learner1, learner2}
(* The fee on 6 is rounded down to nothing; -1 is a reward the code lets   *)
(* an explore quest have.                                                  *)
SmallRewards == {-1, 6, 20}
=============================================================================
