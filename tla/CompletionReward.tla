--------------------------- MODULE CompletionReward ---------------------------
(***************************************************************************)
(* What becomes of the reward for one learner completing one course, with  *)
(* the contracts left out.  A transaction settles at most one reward.      *)
(***************************************************************************)
CONSTANT Completions    \* the pairs of a learner and a course

VARIABLE status    \* "open", "pending", "paid" or "lost"

Init == status = [p \in Completions |-> "open"]

Set(p, s) == status' = [status EXCEPT ![p] = s]

(* The last module: paid at once, kept to be claimed, or, when no pool is  *)
(* registered, never to be paid.                                           *)
Complete(p) ==
  /\ status[p] = "open"
  /\ \E s \in {"paid", "pending", "lost"} : Set(p, s)

(* A claim is final: it pays, or it gives the reward up.                   *)
Claim(p) ==
  /\ status[p] = "pending"
  /\ \E s \in {"paid", "lost"} : Set(p, s)

Next == \E p \in Completions : Complete(p) \/ Claim(p)

Spec == Init /\ [][Next]_status
=============================================================================
