--------------------------- MODULE SoulboundBadges ---------------------------
(***************************************************************************)
(* What the badge contract promises: a learner holds a set of courses, and *)
(* the badge count, which governance uses as voting weight, moves by one   *)
(* with every course gained or lost.                                       *)
(***************************************************************************)
EXTENDS Integers

CONSTANTS Learners, Courses

VARIABLES
  held,   \* the courses each learner holds a badge for
  count   \* each learner's badge count

Init ==
  /\ held = [l \in Learners |-> {}]
  /\ count = [l \in Learners |-> 0]

Gain(l, c) ==
  /\ c \notin held[l]
  /\ held' = [held EXCEPT ![l] = @ \cup {c}]
  /\ count' = [count EXCEPT ![l] = @ + 1]

Lose(l, c) ==
  /\ c \in held[l]
  /\ held' = [held EXCEPT ![l] = @ \ {c}]
  /\ count' = [count EXCEPT ![l] = @ - 1]

Next == \E l \in Learners, c \in Courses : Gain(l, c) \/ Lose(l, c)

Spec == Init /\ [][Next]_<<held, count>>
=============================================================================
