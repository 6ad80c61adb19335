------------------------------ MODULE MCPlatform ------------------------------
(* One of each role.  The pool starts with one reward and a half; the      *)
(* employer can lock two build quests.                                     *)
EXTENDS Platform

CONSTANTS teacher1, learner1, employer1

MCAddress == {Pool, Registry, Nft, Vault, Engine, Elsewhere, Admin, teacher1, learner1,
              employer1}
MCEndowment == [a \in MCAddress |->
  CASE a = Pool -> 3
    [] a = employer1 -> 20
    [] a = learner1 -> 3
    [] OTHER -> 0]

OneTeacher == {teacher1}
OneLearner == {learner1}
OneEmployer == {employer1}
=============================================================================
