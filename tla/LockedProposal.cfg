\* The same instance, for one documented statement.
CONSTANTS
  None = None
  Nft = Nft
  Elsewhere = Elsewhere
  admin1 = admin1
  registry = registry
  learner1 = learner1
  learner2 = learner2
  Admins <- MCAdmins
  Minters <- MCMinters
  Learners <- MCLearners
  Courses <- MCCourses
  ProposalIds <- MCProposalIds
  EndTimes <- MCEndTimes
  MaxTime = 2
  MaxVotes = 3
SPECIFICATION Spec
PROPERTY LockedProposal
