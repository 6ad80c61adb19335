----------------------------- MODULE BountyBoard -----------------------------
(***************************************************************************)
(* What the QuestEngine promises of its quests, with fees, multipliers and *)
(* the other contracts left out: decisions are final, a quest is closed    *)
(* once, and one pot pays whole rewards for approvals and refunds.         *)
(***************************************************************************)
EXTENDS Integers, FiniteSets

CONSTANTS Learners, QuestIds, Rewards

VARIABLES
  stage,    \* of each quest: "none", "build", "explore" or "closed"
  reward,   \* of each quest
  status,   \* of each pair of a learner and a quest
  pot       \* the tokens behind the board

boardVars == <<stage, reward, status, pot>>

Init ==
  /\ stage = [q \in QuestIds |-> "none"]
  /\ reward = [q \in QuestIds |-> 0]
  /\ status = [p \in Learners \X QuestIds |-> "none"]
  /\ pot \in Nat

(* A build quest brings its reward along, an explore quest does not.       *)
Post(q, kind, r) ==
  /\ stage[q] = "none"
  /\ stage' = [stage EXCEPT ![q] = kind]
  /\ reward' = [reward EXCEPT ![q] = r]
  /\ pot' = IF kind = "build" THEN pot + r ELSE pot
  /\ kind = "build" => r >= 0
  /\ UNCHANGED status

Submit(l, q) ==
  /\ stage[q] = "build" /\ status[<<l, q>>] = "none"
  /\ status' = [status EXCEPT ![<<l, q>>] = "Pending"]
  /\ UNCHANGED <<stage, reward, pot>>

(* Pending submissions are decided together, and approved only if the pot  *)
(* pays for every one of them; a closed quest is decided like an open one. *)
Decide(chosen, q, decision) ==
  /\ \A l \in chosen : status[<<l, q>>] = "Pending"
  /\ status' = [p \in DOMAIN status |->
                  IF p[1] \in chosen /\ p[2] = q THEN decision ELSE status[p]]
  /\ pot' = IF decision = "Approved" THEN pot - Cardinality(chosen) * reward[q] ELSE pot
  /\ pot' >= 0
  /\ UNCHANGED <<stage, reward>>

Close(q) ==
  /\ stage[q] \in {"build", "explore"}
  /\ reward[q] \in 0..pot
  /\ stage' = [stage EXCEPT ![q] = "closed"]
  /\ pot' = pot - reward[q]
  /\ UNCHANGED <<reward, status>>

Next ==
  \E q \in QuestIds :
    \/ \E kind \in {"build", "explore"}, r \in Rewards : Post(q, kind, r)
    \/ \E l \in Learners : Submit(l, q)
    \/ \E chosen \in SUBSET Learners, decision \in {"Approved", "Rejected"} :
         Decide(chosen, q, decision)
    \/ Close(q)

Spec == Init /\ [][Next]_boardVars
=============================================================================
