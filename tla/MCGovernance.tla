----------------------------- MODULE MCGovernance -----------------------------
(* Two voters, two courses and one proposal that voting on ends at time 1. *)
EXTENDS Governance

CONSTANTS admin1, registry, learner1, learner2

MCAdmins == {admin1}
MCMinters == {registry}
MCLearners == {learner1, learner2}
MCCourses == 1..2
MCProposalIds == {1}
MCEndTimes == {1}
=============================================================================
