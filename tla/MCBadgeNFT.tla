------------------------------ MODULE MCBadgeNFT ------------------------------
(* Three courses, so that a badge in the middle of a vector can be revoked. *)
EXTENDS BadgeNFT

CONSTANTS registry, stranger, learner1

MCMinters == {registry, stranger}
MCLearners == {learner1}
MCCourses == 1..3
=============================================================================
