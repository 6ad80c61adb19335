------------------------------ MODULE Governance ------------------------------
(***************************************************************************)
(* The Governance contract (contracts/governance): proposals decided by    *)
(* votes that weigh as many badges as the voter holds in the BadgeNFT      *)
(* contract when the vote is cast.  No call of the contract creates a      *)
(* proposal; its tests write the record, and so does SeedProposal.         *)
(***************************************************************************)
EXTENDS Token, SequencesExt

CONSTANTS
  Learners, Courses, Minters, None, MaxTime,   \* see BadgeNFT
  Admins,      \* the addresses that may be given the admin role
  Nft,         \* the address of the BadgeNFT contract
  Elsewhere,   \* an address where no contract answers
  ProposalIds, \* the keys proposals are stored under
  EndTimes,    \* the ends of voting that proposals are given
  MaxVotes     \* the largest tally, u32::MAX in the code

ASSUME GovernanceAssumption ==
  /\ None \notin Minters \cup Admins \cup {Nft, Elsewhere}
  /\ Nft # Elsewhere
  /\ IsFiniteSet(Learners)
  /\ EndTimes \subseteq Nat
  /\ MaxTime \in Nat /\ MaxVotes \in Nat

VARIABLES
  badgeAdmin, badges, now,   \* BadgeNFT
  govAdmin,        \* DataKey::Admin
  badgeContract,   \* BADGE_NFT_KEY
  proposals,       \* DataKey::Proposal(id), the metadata left out
  userVotes,       \* the keys DataKey::UserVote(voter, id) that are set
  cast,            \* history: what each voter has cast on each proposal
  outcomes         \* history: the events published for each proposal

badgeVars == <<badgeAdmin, badges, now>>
wiring == <<govAdmin, badgeContract>>
history == <<cast, outcomes>>
vars == <<badgeVars, wiring, proposals, userVotes, history>>

BN == INSTANCE BadgeNFT

Proposal == [proposer : Learners \cup Admins, votes_for : 0..MaxVotes,
             votes_against : 0..MaxVotes, end_time : EndTimes, executed : BOOLEAN]

ASSUME ProposalAssumption == None \notin Proposal

Ballots == Learners \X ProposalIds

Init ==
  /\ BN!Init
  /\ govAdmin = None /\ badgeContract = None
  /\ proposals = [id \in ProposalIds |-> None]
  /\ userVotes = {}
  /\ cast = [b \in Ballots |-> [yes |-> 0, no |-> 0, times |-> 0]]
  /\ outcomes = [id \in ProposalIds |-> <<>>]

-----------------------------------------------------------------------------
Initialize(admin, address) ==
  /\ badgeContract = None
  /\ govAdmin' = admin
  /\ badgeContract' = address
  /\ UNCHANGED <<badgeVars, proposals, userVotes, history>>

SeedProposal(proposer, id, end) ==
  /\ proposals[id] = None
  /\ proposals' = [proposals EXCEPT ![id] =
                     [proposer |-> proposer, votes_for |-> 0, votes_against |-> 0,
                      end_time |-> end, executed |-> FALSE]]
  /\ UNCHANGED <<badgeVars, wiring, userVotes, history>>

Tallied(proposal, support, weight) ==
  IF support THEN [proposal EXCEPT !.votes_for = @ + weight]
  ELSE [proposal EXCEPT !.votes_against = @ + weight]

(* checked_add refuses the vote that a u32 cannot count.                   *)
Countable_unchecked(proposal) == TRUE

Countable(proposal) == proposal.votes_for <= MaxVotes /\ proposal.votes_against <= MaxVotes

Ballot(voter, id, support, weight) ==
  LET before == cast[<<voter, id>>]
  IN  [yes   |-> before.yes + (IF support THEN weight ELSE 0),
       no    |-> before.no + (IF support THEN 0 ELSE weight),
       times |-> before.times + 1]

Count(voter, id, support, weight) ==
  LET proposal == Tallied(proposals[id], support, weight)
  IN  /\ Countable(proposal)
      /\ proposals' = [proposals EXCEPT ![id] = proposal]
      /\ cast' = [cast EXCEPT ![<<voter, id>>] = Ballot(voter, id, support, weight)]

CastVote_again(voter, id, support) ==
  /\ badgeContract = Nft
  /\ proposals[id] # None
  /\ Count(voter, id, support, BN!GetBadgeCount(voter))
  /\ userVotes' = userVotes \cup {<<voter, id>>}
  /\ UNCHANGED <<badgeVars, wiring, outcomes>>

(* Neither the end of voting nor the proposal's state is looked at.        *)
CastVote(voter, id, support) ==
  /\ <<voter, id>> \notin userVotes
  /\ badgeContract = Nft
  /\ proposals[id] # None
  /\ Count(voter, id, support, BN!GetBadgeCount(voter))
  /\ userVotes' = userVotes \cup {<<voter, id>>}
  /\ UNCHANGED <<badgeVars, wiring, outcomes>>

(* Both ends of a proposal set the same flag and differ in their event.    *)
Close(id, event) ==
  /\ proposals' = [proposals EXCEPT ![id].executed = TRUE]
  /\ outcomes' = [outcomes EXCEPT ![id] = Append(@, event)]
  /\ UNCHANGED <<badgeVars, wiring, userVotes, cast>>

CancelProposal(caller, id) ==
  /\ proposals[id] # None
  /\ govAdmin # None
  /\ caller \in {proposals[id].proposer, govAdmin}
  /\ now < proposals[id].end_time
  /\ ~proposals[id].executed
  /\ Close(id, "cancelled")

ExecuteProposal_again(id) ==
  /\ proposals[id] # None
  /\ now > proposals[id].end_time
  /\ proposals[id].votes_for > proposals[id].votes_against
  /\ Close(id, "executed")

ExecuteProposal_onTie(id) ==
  /\ proposals[id] # None
  /\ now > proposals[id].end_time
  /\ proposals[id].votes_for >= proposals[id].votes_against
  /\ ~proposals[id].executed
  /\ Close(id, "executed")

ExecuteProposal(id) ==
  /\ proposals[id] # None
  /\ now > proposals[id].end_time
  /\ proposals[id].votes_for > proposals[id].votes_against
  /\ ~proposals[id].executed
  /\ Close(id, "executed")

-----------------------------------------------------------------------------
GovernanceStep ==
  \/ \E admin \in Admins, address \in {Nft, Elsewhere} : Initialize(admin, address)
  \/ \E id \in ProposalIds :
       \/ \E proposer \in Learners \cup Admins, end \in EndTimes :
            SeedProposal(proposer, id, end)
       \/ \E voter \in Learners, support \in BOOLEAN : CastVote(voter, id, support)
       \/ \E caller \in Learners \cup Admins : CancelProposal(caller, id)
       \/ ExecuteProposal(id)

BadgeStep ==
  /\ BN!Next
  /\ UNCHANGED <<wiring, proposals, userVotes, history>>

Next == GovernanceStep \/ BadgeStep

Spec == Init /\ [][Next]_vars

-----------------------------------------------------------------------------
(* Every storage entry holds a value of its Rust type; no tally wraps.     *)
TypeOK ==
  /\ BN!TypeOK
  /\ govAdmin \in Admins \cup {None}
  /\ badgeContract \in {None, Nft, Elsewhere}
  /\ proposals \in [ProposalIds -> Proposal \cup {None}]
  /\ userVotes \subseteq Ballots
  /\ cast \in [Ballots -> [yes : Nat, no : Nat, times : Nat]]
  /\ outcomes \in [ProposalIds -> Seq({"executed", "cancelled"})]

(* The flag that execution and cancellation share stands for exactly one   *)
(* published outcome: a proposal that was cancelled early is not executed  *)
(* after the end of voting, and none is executed twice.                    *)
OneOutcome ==
  \A id \in ProposalIds :
    /\ Len(outcomes[id]) <= 1
    /\ outcomes[id] # <<>> <=> proposals[id] # None /\ proposals[id].executed

For(id) == [l \in Learners |-> cast[<<l, id>>].yes]
Against(id) == [l \in Learners |-> cast[<<l, id>>].no]

(* Each side's tally is the sum of the weights its voters had when they    *)
(* voted, each of them once, whatever was minted or revoked since.         *)
TallyIsBallots ==
  \A id \in ProposalIds :
    /\ \A l \in Learners : cast[<<l, id>>].times <= 1
    /\ proposals[id] # None =>
         /\ proposals[id].votes_for = Total(For(id))
         /\ proposals[id].votes_against = Total(Against(id))

(* A proposal is executed only by the votes cast on it, more of them for   *)
(* than against, and after its end of voting.                              *)
ExecutedByMajority ==
  [][\A id \in ProposalIds :
       outcomes'[id] # outcomes[id] /\ Last(outcomes'[id]) = "executed" =>
         /\ now > proposals[id].end_time
         /\ Total(For(id)) > Total(Against(id))]_vars

-----------------------------------------------------------------------------
(* What the repository says of the end of a proposal: voting comes before  *)
(* it, and it locks the proposal.                                          *)
LockedProposal ==
  [][\A id \in ProposalIds :
       proposals[id] # None /\ proposals[id].executed => proposals'[id] = proposals[id]]_vars
=============================================================================
