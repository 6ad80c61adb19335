----------------------------- MODULE MCStakeVault -----------------------------
(* Two users with three tokens each: enough for both tiers, and for a      *)
(* second deposit while the first is locked.                               *)
EXTENDS StakeVault

CONSTANTS admin1, user1, user2

MCAddress == {Vault, admin1, user1, user2}
MCAdmins == {admin1}
MCStakers == {user1, user2}
MCAmounts == 0..2
MCEndowment == [a \in MCAddress |-> IF a \in MCStakers THEN 3 ELSE 0]
=============================================================================
