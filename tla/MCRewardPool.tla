----------------------------- MODULE MCRewardPool -----------------------------
(* A small RewardPool: two spender contracts, an admin who is also a donor, *)
(* a learner, and amounts on both sides of what the pool and the donor hold. *)
EXTENDS RewardPool

CONSTANTS registry, engine, admin1, admin2, learner1

MCAddress == {Pool, registry, engine, admin1, admin2, learner1}
MCAdmins == {admin1, admin2}
MCCallers == {registry, engine}
MCLearners == {learner1}
MCAmounts == -1..2
MCEndowment == [a \in MCAddress |->
                  CASE a = admin1 -> 2 [] a = learner1 -> 1 [] OTHER -> 0]
=============================================================================
