--------------------------- MODULE GovernanceProofs ---------------------------
(***************************************************************************)
(* Theorems about Governance, for every set of voters, proposals and ends  *)
(* of voting, and every bound on a tally.                                  *)
(***************************************************************************)
EXTENDS Governance, TokenTheorems, SequenceTheorems

(* The badge contract's own invariant and its proof.                       *)
BP == INSTANCE BadgeNFTProofs

(* The inductive invariant.  A tally keeps its type because a weight is    *)
(* the length of a vector, which is why the badge contract's invariant is  *)
(* part of it; the shared flag and the published events go together.       *)
GovernanceTypes ==
  /\ proposals \in [ProposalIds -> Proposal \cup {None}]
  /\ userVotes \subseteq Ballots
  /\ outcomes \in [ProposalIds -> Seq({"executed", "cancelled"})]

GovernanceInv == BP!BadgeInv /\ GovernanceTypes /\ OneOutcome

(* Before the first call there are no proposals and no outcomes.           *)
LEMMA GovernanceInvInit == Init => GovernanceInv
<1> SUFFICES ASSUME Init PROVE GovernanceInv
  OBVIOUS
<1>1. BP!BadgeInv
  BY BP!BadgeInvInit, GovernanceAssumption DEF Init, BN!Init, BP!Init, BP!BadgeAssumption
<1>2. GovernanceTypes
  BY EmptySeq DEF Init, GovernanceTypes
<1>3. OneOutcome
  BY EmptySeq DEF Init, OneOutcome
<1>4. QED
  BY <1>1, <1>2, <1>3 DEF GovernanceInv

(* The badge count that weighs a vote is a natural number.                 *)
LEMMA WeightIsNatural ==
  ASSUME BP!BadgeInv, NEW voter \in Learners
  PROVE  BN!GetBadgeCount(voter) \in Nat
BY LenProperties DEF BP!BadgeInv, BP!TypeOK, BN!GetBadgeCount

(* Governance does not touch the badge contract, whose own steps keep its  *)
(* invariant.                                                              *)
LEMMA BadgesStayKept ==
  ASSUME BP!BadgeInv, BN!Next \/ UNCHANGED badgeVars
  PROVE  BP!BadgeInv'
<1>1. BP!BadgeAssumption
  BY GovernanceAssumption DEF BP!BadgeAssumption
<1>2. BN!Next => BP!Next
  <2>1. ASSUME NEW list, NEW course
        PROVE  BN!Without(list, course) = BP!Without(list, course)
    BY DEF BN!Without, BN!RemoveFirstMatch, BN!RemoveAt, BN!SelectInSeq, BN!Min,
           BP!Without, BP!RemoveFirstMatch, BP!RemoveAt, BP!SelectInSeq, BP!Min
  <2>2. ASSUME NEW caller, NEW learner, NEW course, BN!RevokeBadge(caller, learner, course)
        PROVE  BP!RevokeBadge(caller, learner, course)
    BY <2>1, <2>2 DEF BN!RevokeBadge, BP!RevokeBadge
  <2>3. ASSUME NEW caller, NEW learner, NEW course, BN!MintBadge(caller, learner, course)
        PROVE  BP!MintBadge(caller, learner, course)
    BY <2>3 DEF BN!MintBadge, BN!CanMint, BN!HasBadge, BN!NewBadge,
                BP!MintBadge, BP!CanMint, BP!HasBadge, BP!NewBadge
  <2>4. QED
    BY <2>2, <2>3 DEF BN!Next, BN!InitializeBadge, BN!Tick, BP!Next, BP!InitializeBadge, BP!Tick
<1>3. UNCHANGED badgeVars => UNCHANGED BP!badgeVars
  BY DEF badgeVars, BP!badgeVars
<1>4. QED
  BY <1>1, <1>2, <1>3, BP!BadgeInvStep

(* A vote that is counted leaves a proposal of the right type, closed or   *)
(* open as it was.                                                         *)
LEMMA TallyKeepsFlag ==
  ASSUME NEW proposal \in Proposal, NEW support, NEW weight \in Nat,
         Countable(Tallied(proposal, support, weight))
  PROVE  /\ Tallied(proposal, support, weight) \in Proposal
         /\ Tallied(proposal, support, weight).executed = proposal.executed
BY GovernanceAssumption DEF Proposal, Tallied, Countable

(* cast_vote preserves the invariant, on open and on closed proposals.     *)
LEMMA VoteStep ==
  ASSUME GovernanceInv, NEW voter \in Learners, NEW id \in ProposalIds,
         NEW support \in BOOLEAN, CastVote(voter, id, support)
  PROVE  GovernanceInv'
<1> DEFINE weight == BN!GetBadgeCount(voter)
           proposal == Tallied(proposals[id], support, weight)
<1>1. weight \in Nat
  BY WeightIsNatural DEF GovernanceInv
<1>2. /\ proposals \in [ProposalIds -> Proposal \cup {None}]
      /\ proposals[id] \in Proposal
  BY DEF GovernanceInv, GovernanceTypes, CastVote
<1>3. proposals' = [proposals EXCEPT ![id] = proposal] /\ Countable(proposal)
  BY DEF CastVote, Count
<1>4. UNCHANGED badgeVars /\ UNCHANGED outcomes /\ userVotes' = userVotes \cup {<<voter, id>>}
  BY DEF CastVote
<1>5. proposal \in Proposal /\ proposal.executed = proposals[id].executed
  BY <1>1, <1>2, <1>3, TallyKeepsFlag
<1> HIDE DEF weight, proposal
<1>6. BP!BadgeInv'
  BY <1>4, BadgesStayKept DEF GovernanceInv
<1>7. GovernanceTypes'
  BY <1>2, <1>3, <1>4, <1>5 DEF GovernanceInv, GovernanceTypes, Ballots
<1>8. OneOutcome'
  BY <1>2, <1>3, <1>4, <1>5, ProposalAssumption DEF GovernanceInv, GovernanceTypes, OneOutcome
<1>9. QED
  BY <1>6, <1>7, <1>8 DEF GovernanceInv

(* Cancelling and executing: the proposal was open, so this is its first   *)
(* event.                                                                  *)
LEMMA CloseStep ==
  ASSUME GovernanceInv, NEW id \in ProposalIds, NEW event \in {"executed", "cancelled"},
         proposals[id] # None, ~proposals[id].executed, Close(id, event)
  PROVE  GovernanceInv'
<1>1. /\ proposals \in [ProposalIds -> Proposal \cup {None}]
      /\ proposals[id] \in Proposal
      /\ outcomes \in [ProposalIds -> Seq({"executed", "cancelled"})]
      /\ outcomes[id] = <<>>
  BY DEF GovernanceInv, GovernanceTypes, OneOutcome
<1> DEFINE closed == [proposals[id] EXCEPT !.executed = TRUE]
           events == Append(outcomes[id], event)
<1>2. closed \in Proposal /\ closed.executed
  BY <1>1 DEF Proposal
<1>3. events \in Seq({"executed", "cancelled"}) /\ Len(events) = 1 /\ events # <<>>
  BY <1>1, EmptySeq, AppendProperties
<1>4. /\ proposals' = [proposals EXCEPT ![id] = closed]
      /\ outcomes' = [outcomes EXCEPT ![id] = events]
      /\ UNCHANGED badgeVars /\ UNCHANGED userVotes
  BY DEF Close
<1> HIDE DEF closed, events
<1>5. BP!BadgeInv'
  BY <1>4, BadgesStayKept DEF GovernanceInv
<1>6. GovernanceTypes'
  BY <1>1, <1>2, <1>3, <1>4 DEF GovernanceInv, GovernanceTypes
<1>7. ASSUME NEW other \in ProposalIds
      PROVE  /\ Len(outcomes'[other]) <= 1
             /\ outcomes'[other] # <<>>
                  <=> proposals'[other] # None /\ proposals'[other].executed
  <2>1. CASE other = id
    <3>1. proposals'[other] = closed /\ outcomes'[other] = events
      BY <1>1, <1>4, <2>1
    <3>2. Len(outcomes'[other]) <= 1 /\ outcomes'[other] # <<>>
      BY <1>3, <3>1
    <3>3. proposals'[other] # None /\ proposals'[other].executed
      BY <1>2, <3>1, ProposalAssumption, Zenon
    <3>4. QED
      BY <3>2, <3>3
  <2>2. CASE other # id
    <3>1. proposals'[other] = proposals[other] /\ outcomes'[other] = outcomes[other]
      BY <1>1, <1>4, <2>2
    <3>2. QED
      BY <3>1 DEF GovernanceInv, OneOutcome
  <2>3. QED
    BY <2>1, <2>2
<1>8. QED
  BY <1>5, <1>6, <1>7 DEF GovernanceInv, OneOutcome

(* A new proposal is open and has no outcome.                              *)
LEMMA SeedStep ==
  ASSUME GovernanceInv, NEW proposer \in Learners \cup Admins, NEW id \in ProposalIds,
         NEW end \in EndTimes, SeedProposal(proposer, id, end)
  PROVE  GovernanceInv'
<1> DEFINE seeded == [proposer |-> proposer, votes_for |-> 0, votes_against |-> 0,
                      end_time |-> end, executed |-> FALSE]
<1>1. seeded \in Proposal /\ ~seeded.executed
  BY GovernanceAssumption DEF Proposal
<1>2. /\ proposals' = [proposals EXCEPT ![id] = seeded]
      /\ UNCHANGED badgeVars /\ UNCHANGED <<userVotes, outcomes>> /\ proposals[id] = None
  BY DEF SeedProposal, history
<1> HIDE DEF seeded
<1>3. BP!BadgeInv'
  BY <1>2, BadgesStayKept DEF GovernanceInv
<1>4. GovernanceTypes'
  BY <1>1, <1>2 DEF GovernanceInv, GovernanceTypes
<1>5. OneOutcome'
  BY <1>1, <1>2, ProposalAssumption DEF GovernanceInv, GovernanceTypes, OneOutcome
<1>6. QED
  BY <1>3, <1>4, <1>5 DEF GovernanceInv

(* Every call of governance and of the badge contract preserves the        *)
(* invariant.                                                              *)
LEMMA GovernanceInvStep == GovernanceInv /\ [Next]_vars => GovernanceInv'
<1> SUFFICES ASSUME GovernanceInv, [Next]_vars PROVE GovernanceInv'
  OBVIOUS
<1>1. ASSUME NEW admin \in Admins, NEW address \in {Nft, Elsewhere}, Initialize(admin, address)
      PROVE  GovernanceInv'
  <2>1. UNCHANGED badgeVars /\ UNCHANGED <<proposals, userVotes, outcomes>>
    BY <1>1 DEF Initialize, history
  <2>2. QED
    BY <2>1, BadgesStayKept DEF GovernanceInv, GovernanceTypes, OneOutcome
<1>2. ASSUME NEW id \in ProposalIds, NEW proposer \in Learners \cup Admins, NEW end \in EndTimes,
             SeedProposal(proposer, id, end)
      PROVE  GovernanceInv'
  BY <1>2, SeedStep
<1>3. ASSUME NEW id \in ProposalIds, NEW voter \in Learners, NEW support \in BOOLEAN,
             CastVote(voter, id, support)
      PROVE  GovernanceInv'
  BY <1>3, VoteStep
<1>4. ASSUME NEW id \in ProposalIds, NEW caller \in Learners \cup Admins,
             CancelProposal(caller, id)
      PROVE  GovernanceInv'
  BY <1>4, CloseStep DEF CancelProposal
<1>5. ASSUME NEW id \in ProposalIds, ExecuteProposal(id)
      PROVE  GovernanceInv'
  BY <1>5, CloseStep DEF ExecuteProposal
<1>6. CASE BadgeStep
  <2>1. BN!Next /\ UNCHANGED <<proposals, userVotes, outcomes>>
    BY <1>6 DEF BadgeStep, history
  <2>2. QED
    BY <2>1, BadgesStayKept DEF GovernanceInv, GovernanceTypes, OneOutcome
<1>7. CASE UNCHANGED vars
  <2>1. UNCHANGED badgeVars /\ UNCHANGED <<proposals, userVotes, outcomes>>
    BY <1>7 DEF vars, history
  <2>2. QED
    BY <2>1, BadgesStayKept DEF GovernanceInv, GovernanceTypes, OneOutcome
<1>8. QED
  BY <1>1, <1>2, <1>3, <1>4, <1>5, <1>6, <1>7 DEF Next, GovernanceStep

(* Types and the agreement of flag and outcome hold through every step.    *)
THEOREM GovernanceInvariant == Spec => []GovernanceInv
BY GovernanceInvInit, GovernanceInvStep, PTL DEF Spec

(* A proposal has at most one published outcome, and the flag shared by    *)
(* execution and cancellation is set exactly when it has one.              *)
THEOREM OutcomeUnique == Spec => []OneOutcome
<1>1. GovernanceInv => OneOutcome
  BY DEF GovernanceInv
<1>2. QED
  BY <1>1, GovernanceInvariant, PTL

-----------------------------------------------------------------------------
(* The tallies.  A voter without a UserVote key has cast nothing, and on a *)
(* proposal that does not exist nobody has.                                *)
VoteRecords ==
  /\ cast \in [Ballots -> [yes : Nat, no : Nat, times : Nat]]
  /\ \A b \in Ballots : cast[b].times = IF b \in userVotes THEN 1 ELSE 0
  /\ \A b \in Ballots : b \notin userVotes => cast[b].yes = 0 /\ cast[b].no = 0
  /\ \A b \in Ballots : b \in userVotes => proposals[b[2]] # None

TallyInv == VoteRecords /\ TallyIsBallots

(* A ledger of zeros has no units.                                         *)
LEMMA TotalZero ==
  ASSUME NEW S
  PROVE  Total([s \in S |-> 0]) = 0
<1>1. Units([s \in S |-> 0]) = {}
  BY DEF Units, UnitsAt
<1>2. QED
  BY <1>1, FS_EmptySet DEF Total

(* Before the first vote every total is zero.                              *)
LEMMA TallyInvInit == Init => TallyInv
<1> SUFFICES ASSUME Init PROVE TallyInv
  OBVIOUS
<1>1. VoteRecords
  BY DEF Init, VoteRecords
<1>2. TallyIsBallots
  BY <1>1 DEF Init, VoteRecords, TallyIsBallots, Ballots
<1>3. QED
  BY <1>1, <1>2 DEF TallyInv

(* One more weight for one learner is one more weight in the total.        *)
LEMMA VoteTotal ==
  ASSUME NEW f \in [Learners -> Nat], NEW l \in Learners, NEW v \in Nat, f[l] = 0
  PROVE  Total([f EXCEPT ![l] = v]) = Total(f) + v
<1>1. IsFiniteSet(Learners)
  BY GovernanceAssumption
<1>2. Total([f EXCEPT ![l] = v]) = Total(f) - f[l] + v
  BY <1>1, TotalUpdate
<1>3. Total(f) \in Nat
  BY <1>1, UnitsFinite
<1>4. QED
  BY <1>2, <1>3

(* The vote of one learner on one proposal, seen by the totals of every    *)
(* proposal.                                                               *)
LEMMA TallyVoteStep ==
  ASSUME GovernanceInv, TallyInv, NEW voter \in Learners, NEW id \in ProposalIds,
         NEW support \in BOOLEAN, CastVote(voter, id, support)
  PROVE  TallyInv'
<1> DEFINE weight == BN!GetBadgeCount(voter)
           b == <<voter, id>>
           yes == IF support THEN weight ELSE 0
           no == IF support THEN 0 ELSE weight
           ballot == Ballot(voter, id, support, weight)
           proposal == Tallied(proposals[id], support, weight)
<1>1. weight \in Nat
  BY WeightIsNatural DEF GovernanceInv
<1>2. /\ b \in Ballots /\ b \notin userVotes
      /\ cast \in [Ballots -> [yes : Nat, no : Nat, times : Nat]]
      /\ cast[b] \in [yes : Nat, no : Nat, times : Nat]
      /\ cast[b].times = 0 /\ cast[b].yes = 0 /\ cast[b].no = 0
      /\ userVotes' = userVotes \cup {b}
  BY DEF TallyInv, VoteRecords, Ballots, CastVote
<1>3. /\ proposals \in [ProposalIds -> Proposal \cup {None}]
      /\ proposals[id] \in Proposal
  BY DEF GovernanceInv, GovernanceTypes, CastVote
<1>4. proposals' = [proposals EXCEPT ![id] = proposal] /\ cast' = [cast EXCEPT ![b] = ballot]
  BY DEF CastVote, Count
<1>5. yes \in Nat /\ no \in Nat
  BY <1>1
<1>6. ballot = [yes |-> yes, no |-> no, times |-> 1]
  BY <1>1, <1>2 DEF Ballot
<1>7. /\ proposal \in Proposal
      /\ proposal.votes_for = proposals[id].votes_for + yes
      /\ proposal.votes_against = proposals[id].votes_against + no
  <2>1. Countable(proposal)
    BY DEF CastVote, Count
  <2>2. proposal \in Proposal
    BY <1>1, <1>3, <2>1, TallyKeepsFlag
  <2>3. CASE support
    BY <1>3, <2>2, <2>3, GovernanceAssumption DEF Tallied, Proposal
  <2>4. CASE ~support
    BY <1>3, <2>2, <2>4, GovernanceAssumption DEF Tallied, Proposal
  <2>5. QED
    BY <2>2, <2>3, <2>4
<1> HIDE DEF weight, yes, no, ballot, proposal
<1>8. VoteRecords'
  <2>1. cast' \in [Ballots -> [yes : Nat, no : Nat, times : Nat]]
    BY <1>2, <1>4, <1>5, <1>6
  <2>2. ASSUME NEW c \in Ballots
        PROVE  /\ cast'[c].times = IF c \in userVotes' THEN 1 ELSE 0
               /\ c \notin userVotes' => cast'[c].yes = 0 /\ cast'[c].no = 0
               /\ c \in userVotes' => proposals'[c[2]] # None
    <3>1. CASE c = b
      BY <1>2, <1>3, <1>4, <1>6, <1>7, <3>1, ProposalAssumption
    <3>2. CASE c # b
      <4>1. cast'[c] = cast[c] /\ (c \in userVotes' <=> c \in userVotes)
        BY <1>2, <1>4, <3>2
      <4>2. c[2] \in ProposalIds
        BY DEF Ballots
      <4>3. proposals[c[2]] # None => proposals'[c[2]] # None
        BY <1>3, <1>4, <1>7, <4>2, ProposalAssumption
      <4>4. QED
        BY <4>1, <4>3 DEF TallyInv, VoteRecords
    <3>3. QED
      BY <3>1, <3>2
  <2>3. QED
    BY <2>1, <2>2 DEF VoteRecords
<1>9. /\ For(id) \in [Learners -> Nat] /\ For(id)[voter] = 0
      /\ Against(id) \in [Learners -> Nat] /\ Against(id)[voter] = 0
  BY <1>2 DEF For, Against, Ballots
<1>10. /\ For(id)' = [For(id) EXCEPT ![voter] = yes]
       /\ Against(id)' = [Against(id) EXCEPT ![voter] = no]
  <2>1. ASSUME NEW l \in Learners
        PROVE  /\ cast'[<<l, id>>].yes = IF l = voter THEN yes ELSE For(id)[l]
               /\ cast'[<<l, id>>].no = IF l = voter THEN no ELSE Against(id)[l]
    BY <1>2, <1>4, <1>6 DEF For, Against, Ballots
  <2>2. QED
    BY <1>9, <2>1 DEF For, Against
<1>11. /\ Total(For(id)') = Total(For(id)) + yes
       /\ Total(Against(id)') = Total(Against(id)) + no
  <2> DEFINE for == For(id)
             against == Against(id)
  <2>1. /\ for \in [Learners -> Nat] /\ for[voter] = 0
        /\ against \in [Learners -> Nat] /\ against[voter] = 0
    BY <1>9
  <2> HIDE DEF for, against
  <2>2. Total([for EXCEPT ![voter] = yes]) = Total(for) + yes
    BY <1>5, <2>1, VoteTotal
  <2>3. Total([against EXCEPT ![voter] = no]) = Total(against) + no
    BY <1>5, <2>1, VoteTotal
  <2>4. QED
    BY <1>10, <2>2, <2>3 DEF for, against
<1>12. TallyIsBallots'
  <2>1. ASSUME NEW other \in ProposalIds, proposals'[other] # None
        PROVE  /\ proposals'[other].votes_for = Total(For(other)')
               /\ proposals'[other].votes_against = Total(Against(other)')
    <3>1. CASE other = id
      BY <1>3, <1>4, <1>7, <1>11, <3>1 DEF TallyInv, TallyIsBallots, GovernanceInv, CastVote
    <3>2. CASE other # id
      <4>1. For(other)' = For(other) /\ Against(other)' = Against(other)
        BY <1>2, <1>4, <3>2 DEF For, Against, Ballots
      <4>2. proposals'[other] = proposals[other]
        BY <1>3, <1>4, <3>2
      <4>3. QED
        BY <2>1, <4>1, <4>2 DEF TallyInv, TallyIsBallots
    <3>3. QED
      BY <3>1, <3>2
  <2>2. ASSUME NEW other \in ProposalIds, NEW l \in Learners
        PROVE  cast'[<<l, other>>].times <= 1
    BY <1>8 DEF VoteRecords, Ballots
  <2>3. QED
    BY <2>1, <2>2 DEF TallyIsBallots
<1>13. QED
  BY <1>8, <1>12 DEF TallyInv

(* A new proposal has no votes, and nobody has cast one on it.             *)
LEMMA TallySeedStep ==
  ASSUME GovernanceInv, TallyInv, NEW proposer \in Learners \cup Admins,
         NEW id \in ProposalIds, NEW end \in EndTimes, SeedProposal(proposer, id, end)
  PROVE  TallyInv'
<1> DEFINE seeded == [proposer |-> proposer, votes_for |-> 0, votes_against |-> 0,
                      end_time |-> end, executed |-> FALSE]
<1>1. /\ proposals \in [ProposalIds -> Proposal \cup {None}]
      /\ proposals[id] = None
      /\ proposals' = [proposals EXCEPT ![id] = seeded]
      /\ UNCHANGED <<cast, userVotes>>
  BY DEF GovernanceInv, GovernanceTypes, SeedProposal, history
<1>2. seeded \in Proposal /\ seeded.votes_for = 0 /\ seeded.votes_against = 0
  BY GovernanceAssumption DEF Proposal
<1> HIDE DEF seeded
<1>3. seeded # None
  BY <1>2, ProposalAssumption
<1>4. VoteRecords'
  BY <1>1, <1>3 DEF TallyInv, VoteRecords, Ballots
<1>5. For(id) = [l \in Learners |-> 0] /\ Against(id) = [l \in Learners |-> 0]
  <2>1. ASSUME NEW l \in Learners PROVE cast[<<l, id>>].yes = 0 /\ cast[<<l, id>>].no = 0
    <3>1. <<l, id>> \in Ballots /\ <<l, id>>[2] = id
      BY DEF Ballots
    <3>2. QED
      BY <1>1, <3>1 DEF TallyInv, VoteRecords
  <2>2. QED
    BY <2>1 DEF For, Against
<1>6. \A other \in ProposalIds :
        For(other)' = For(other) /\ Against(other)' = Against(other)
  BY <1>1 DEF For, Against
<1>7. ASSUME NEW other \in ProposalIds, proposals'[other] # None
      PROVE  /\ proposals'[other].votes_for = Total(For(other)')
             /\ proposals'[other].votes_against = Total(Against(other)')
  <2>1. CASE other = id
    <3>1. proposals'[other] = seeded
      BY <1>1, <2>1
    <3>2. Total(For(other)') = 0 /\ Total(Against(other)') = 0
      BY <1>5, <1>6, <2>1, TotalZero
    <3>3. QED
      BY <1>2, <3>1, <3>2
  <2>2. CASE other # id
    <3>1. proposals'[other] = proposals[other]
      BY <1>1, <2>2
    <3>2. QED
      BY <1>6, <1>7, <3>1 DEF TallyInv, TallyIsBallots
  <2>3. QED
    BY <2>1, <2>2
<1>8. TallyIsBallots'
  BY <1>1, <1>7 DEF TallyInv, TallyIsBallots
<1>9. QED
  BY <1>4, <1>8 DEF TallyInv

(* A step that casts nothing and leaves what proposals exist, and their    *)
(* tallies, as they were.                                                  *)
LEMMA TallyUntouched ==
  ASSUME TallyInv, UNCHANGED <<cast, userVotes>>,
         \A id \in ProposalIds :
           /\ proposals'[id] = None <=> proposals[id] = None
           /\ proposals'[id] # None =>
                /\ proposals'[id].votes_for = proposals[id].votes_for
                /\ proposals'[id].votes_against = proposals[id].votes_against
  PROVE  TallyInv'
<1>1. \A id \in ProposalIds : For(id)' = For(id) /\ Against(id)' = Against(id)
  BY DEF For, Against
<1>2. VoteRecords'
  BY DEF TallyInv, VoteRecords, Ballots
<1>3. TallyIsBallots'
  BY <1>1 DEF TallyInv, TallyIsBallots
<1>4. QED
  BY <1>2, <1>3 DEF TallyInv

(* Cancelling and executing leave votes and tallies as they are.           *)
LEMMA TallyCloseStep ==
  ASSUME GovernanceInv, TallyInv, NEW id \in ProposalIds, NEW event,
         proposals[id] # None, Close(id, event)
  PROVE  TallyInv'
<1> DEFINE closed == [proposals[id] EXCEPT !.executed = TRUE]
<1>1. /\ proposals \in [ProposalIds -> Proposal \cup {None}]
      /\ proposals[id] \in Proposal
      /\ proposals' = [proposals EXCEPT ![id] = closed]
      /\ UNCHANGED <<cast, userVotes>>
  BY DEF GovernanceInv, GovernanceTypes, Close
<1>2. /\ closed \in Proposal
      /\ closed.votes_for = proposals[id].votes_for
      /\ closed.votes_against = proposals[id].votes_against
  BY <1>1 DEF Proposal
<1> HIDE DEF closed
<1>3. closed # None
  BY <1>2, ProposalAssumption
<1>4. QED
  BY <1>1, <1>2, <1>3, TallyUntouched

(* Every call of governance and of the badge contract keeps tallies equal  *)
(* to the ballots cast.                                                    *)
LEMMA TallyInvStep == GovernanceInv /\ TallyInv /\ [Next]_vars => TallyInv'
<1> SUFFICES ASSUME GovernanceInv, TallyInv, [Next]_vars PROVE TallyInv'
  OBVIOUS
<1>1. ASSUME NEW admin \in Admins, NEW address \in {Nft, Elsewhere}, Initialize(admin, address)
      PROVE  TallyInv'
  BY <1>1, TallyUntouched DEF Initialize, history
<1>2. ASSUME NEW id \in ProposalIds, NEW proposer \in Learners \cup Admins, NEW end \in EndTimes,
             SeedProposal(proposer, id, end)
      PROVE  TallyInv'
  BY <1>2, TallySeedStep
<1>3. ASSUME NEW id \in ProposalIds, NEW voter \in Learners, NEW support \in BOOLEAN,
             CastVote(voter, id, support)
      PROVE  TallyInv'
  BY <1>3, TallyVoteStep
<1>4. ASSUME NEW id \in ProposalIds, NEW caller \in Learners \cup Admins,
             CancelProposal(caller, id)
      PROVE  TallyInv'
  BY <1>4, TallyCloseStep DEF CancelProposal
<1>5. ASSUME NEW id \in ProposalIds, ExecuteProposal(id)
      PROVE  TallyInv'
  BY <1>5, TallyCloseStep DEF ExecuteProposal
<1>6. CASE BadgeStep
  BY <1>6, TallyUntouched DEF BadgeStep, history
<1>7. CASE UNCHANGED vars
  BY <1>7, TallyUntouched DEF vars, history
<1>8. QED
  BY <1>1, <1>2, <1>3, <1>4, <1>5, <1>6, <1>7 DEF Next, GovernanceStep

(* Tallies and ballots agree through every step.                           *)
THEOREM TallyInvariant == Spec => []TallyInv
BY GovernanceInvariant, TallyInvInit, TallyInvStep, PTL DEF Spec

(* The tallies are the sums of the weights that voters had when they       *)
(* voted, each of them once, whatever is minted or revoked around it.      *)
THEOREM TalliesExact == Spec => []TallyIsBallots
<1>1. TallyInv => TallyIsBallots
  BY DEF TallyInv
<1>2. QED
  BY <1>1, TallyInvariant, PTL

(* A proposal is executed only by a strict majority of the weights cast,   *)
(* and after the end of voting.                                            *)
THEOREM MajorityExecutes == Spec => ExecutedByMajority
<1> DEFINE Step ==
      \A id \in ProposalIds :
        outcomes'[id] # outcomes[id] /\ Last(outcomes'[id]) = "executed" =>
          /\ now > proposals[id].end_time
          /\ Total(For(id)) > Total(Against(id))
<1>1. ASSUME GovernanceInv, TallyInv, [Next]_vars PROVE Step
  <2>1. ASSUME NEW id \in ProposalIds, ExecuteProposal(id) PROVE Step
    <3>1. \A other \in ProposalIds : outcomes'[other] # outcomes[other] => other = id
      BY <1>1, <2>1 DEF ExecuteProposal, Close, GovernanceInv, GovernanceTypes
    <3>2. /\ now > proposals[id].end_time
          /\ proposals[id].votes_for > proposals[id].votes_against
          /\ proposals[id] # None
      BY <2>1 DEF ExecuteProposal
    <3>3. Total(For(id)) > Total(Against(id))
      BY <1>1, <3>2 DEF TallyInv, TallyIsBallots
    <3>4. QED
      BY <3>1, <3>2, <3>3
  <2>2. ASSUME NEW id \in ProposalIds, NEW caller \in Learners \cup Admins,
               CancelProposal(caller, id)
        PROVE  Step
    <3>1. \A other \in ProposalIds : outcomes'[other] # outcomes[other] => other = id
      BY <1>1, <2>2 DEF CancelProposal, Close, GovernanceInv, GovernanceTypes
    <3>2. outcomes[id] \in Seq({"executed", "cancelled"})
      BY <1>1 DEF GovernanceInv, GovernanceTypes
    <3>3. outcomes'[id] = Append(outcomes[id], "cancelled")
      BY <1>1, <2>2 DEF CancelProposal, Close, GovernanceInv, GovernanceTypes
    <3>4. Last(outcomes'[id]) = "cancelled"
      BY <3>2, <3>3, AppendProperties DEF Last
    <3>5. QED
      BY <3>1, <3>4
  <2>3. CASE UNCHANGED outcomes
    BY <2>3
  <2>4. QED
    BY <1>1, <2>1, <2>2, <2>3
      DEF Next, GovernanceStep, BadgeStep, Initialize, SeedProposal, CastVote, history, vars
<1>2. QED
  BY <1>1, GovernanceInvariant, TallyInvariant, PTL DEF Spec, ExecutedByMajority

-----------------------------------------------------------------------------
(* The two wiring keys, which only initialize writes.                      *)
WiringTypes ==
  /\ govAdmin \in Admins \cup {None}
  /\ badgeContract \in {None, Nft, Elsewhere}

(* No call but initialize touches the wiring.                              *)
LEMMA WiringStep == WiringTypes /\ [Next]_vars => WiringTypes'
<1> SUFFICES ASSUME WiringTypes, [Next]_vars PROVE WiringTypes'
  OBVIOUS
<1>1. ASSUME NEW admin \in Admins, NEW address \in {Nft, Elsewhere}, Initialize(admin, address)
      PROVE  WiringTypes'
  BY <1>1 DEF WiringTypes, Initialize
<1>2. CASE UNCHANGED wiring
  BY <1>2 DEF WiringTypes, wiring
<1>3. QED
  BY <1>1, <1>2 DEF Next, GovernanceStep, BadgeStep, SeedProposal, CastVote, CancelProposal,
                    ExecuteProposal, Close, wiring, vars

(* Storage stays well-typed; in particular no tally leaves its range.      *)
THEOREM TypesKept == Spec => []TypeOK
<1>1. Init => WiringTypes
  BY DEF Init, WiringTypes
<1>2. GovernanceInv /\ TallyInv /\ WiringTypes => TypeOK
  BY DEF GovernanceInv, GovernanceTypes, TallyInv, VoteRecords, WiringTypes, TypeOK,
         BP!BadgeInv, BP!TypeOK, BN!TypeOK, BP!Badge, BN!Badge
<1>3. QED
  BY <1>1, <1>2, WiringStep, GovernanceInvariant, TallyInvariant, PTL DEF Spec
=============================================================================
