# Orivex contracts in TLA+

Orivex is a learning platform on Stellar: six Soroban contracts, written in
Rust under `contracts/`, that register courses, issue badges, pay rewards, hold
bounties, lock stakes and count votes. This directory holds TLA+ modules of
those contracts, the TLC configurations that check them on small instances, and
TLAPS proofs of the properties that matter most, for every value of the
constants.

Run `tlc -config X.cfg MCModule` for a run of the table below, and
`tlapm Module.tla` for a module of proofs.

## 1. The system

| Component | State it keeps | Operations that change it | Calls |
|---|---|---|---|
| RewardPool | admin, token, spender keys and their counter, pause flag | `initialize`, `add_approved_spender`, `set_pause`, `distribute_reward`, `fund_pool`, `emergency_sweep` | token |
| BadgeNFT | admin, one vector of badges per learner | `initialize`, `mint_badge`, `revoke_badge` | |
| CourseRegistry | admin, two service addresses, course counter and records, progress per learner and course, pending rewards | `initialize`, `set_reward_pool_address`, `set_badge_nft_address`, `create_course`, `update_course_metadata`, `set_course_status`, `transfer_course_ownership`, `enroll`, `complete_module`, `claim_completion_reward` | RewardPool, BadgeNFT |
| StakeVault | admin, token, one stake per user | `initialize`, `stake`, `unstake` | token |
| QuestEngine | admin, token, two service addresses, pause flag, quest counter and records, submissions | `initialize`, `set_pause`, two address setters, `create_build_quest`, `create_explore_quest`, `submit_proof`, `review_submission`, `batch_review_submissions`, `refund_quest`, `verify_explore_quest` | RewardPool, StakeVault, token |
| Governance | admin, badge contract, proposals, vote keys | `initialize`, `cast_vote`, `cancel_proposal`, `execute_proposal` | BadgeNFT |
| upgrade and migration | code hash and `ContractVersion`, the same code in all six | `upgrade_contract`, `migrate` | host |
| common | constants and helpers that no contract calls | | |
| token | balances; a Stellar Asset Contract, external | `transfer` | |
| integration-tests | deployment order and wiring, tests only | | all six |

**How they interact.** A transaction is atomic and transactions are ordered;
within one, a contract may call others. What happens when the callee panics is
the heart of the matter, and the code has both kinds:

* `complete_module` calls `mint_badge` directly: a badge contract that refuses
  undoes the whole completion. It then calls `try_distribute_reward`: a pool
  that refuses is caught, and what the registry wrote before stands.
* QuestEngine calls `get_multiplier`, the token and `distribute_reward`
  directly: any refusal undoes the review, or the whole batch.
* `cast_vote` reads `get_badge_count` directly.

All payments of a contract draw on one token balance. Administrators can
re-point addresses, pause and sweep at any time between two transactions, and
ledger time moves between them.

The contracts also meet where neither calls the other: CourseRegistry and
QuestEngine are two spenders of one RewardPool, build quests feed the pool that
explore quests and courses empty, what learners are paid they may stake, and
what they stake sets the multiplier their reviews read; the badges that courses
mint are the votes Governance counts. And each contract can be replaced: an
upgrade is two transactions of its administrator, one that swaps the code and one
by which the new code migrates the storage.

**What is hard.** There are no threads: the difficulty is in orders of calls by
several parties, in what is left behind when one of several steps fails, in
values read now and used by a later transaction (addresses, weights,
multipliers, pending records), in sharing one balance between many claims, and
in rounding and time boundaries. `PROJECT.json` lists these hazards at their
lines, each with the properties that would catch it going wrong.

**What makes each component correct.**

* RewardPool: no call creates or destroys tokens; nothing but a whole sweep
  leaves a paused pool; the spender counter is the number of spenders.
* BadgeNFT: a learner's vector is a set of courses in minting order; revoking
  takes away one course and keeps the order of the others.
* CourseRegistry: a completion is rewarded at most once; badge, payment or claim
  follow from the same transaction; the published events agree with the money; a
  finished course stays finished.
* StakeVault: every user can be paid back whatever the others did; no stake
  leaves early; every lock ends.
* QuestEngine: what it holds is what was locked less what was paid and refunded,
  to the unit; learners receive exactly what the approvals say; a paused engine
  only refunds.
* QuestEngine, seen from outside: a board of bounties where decisions are final.
* Governance: a tally is the sum of the weights cast, each voter once; a
  proposal has one outcome; it is executed by a majority after its end.
* Upgrade: each schema step runs once on a contract's storage, whatever the order
  of upgrades, rollbacks and migrations.
* The platform: what learners and the treasury hold is accounted for to the unit
  across all six contracts; badges are finished courses, votes are badges, and a
  proposal is executed by no more votes than courses were finished; every stake can
  be paid back; no reward is lost but by a claim that the pool could not pay.

## 2. How the modules read

* **A step is a call that succeeds.** A Soroban call that panics reverts, which
  is a stuttering step. The guard of an action is therefore the conjunction of
  every check of the handler and of the calls it makes, and its primed part is
  everything the handler and those calls write.
* **Authorisation.** `require_auth` is the choice of the caller in `Next`; what
  the code compares the signer with is a guard. A handler that does not look at
  the signer has no such guard (BadgeNFT's `initialize`, for example).
* **Storage.** A key that may be unset maps to `None`; keys that hold a bare
  flag are sets.
* **Left out of the data.** Proof and metadata hashes are members of a small set
  or absent, strings and most events are left out. Events are counted where a
  property is about them: `paid` (CourseCompleted), `verified`
  (ExploreQuestVerified), `outcomes` (ProposalExecuted, ProposalCancelled).
  These three and `cast` are history variables: no guard reads them.
* **Tokens.** `Total(f)` is the sum of a function to the naturals, defined as
  the cardinality of the set of its units (`{a} \X 1..f[a]`), because a sum
  written with recursion or a fold is out of the prover's reach.
* **Defects.** An operator `X_defect` next to `X` is `X` with a plausible bug (a
  dropped guard, a missing reset). No specification uses one: `PROJECT.json`
  pairs each with a property that fails when it replaces `X`.

## 3. Modules

| Module | Models | Correspondence |
|---|---|---|
| `Token` | the asset contract, external | `CanTransfer` is what `transfer` does not panic on; `Transfer` debits, then credits. |
| `RewardPool` | `contracts/reward-pool/src/lib.rs` | One action per call; `CanDistribute` collects the checks of `distribute_reward` and the token's. `AdminStep` is what compositions let administrators do. |
| `BadgeNFT` | `contracts/badge-nft/src/lib.rs` | Vectors are sequences; `Without` is the scan of `revoke_badge`. |
| `SoulboundBadges` | what BadgeNFT promises | Sets of courses and a count that moves by one. BadgeNFT implements it (`ImplementsSets`). |
| `CourseRegistry` | `contracts/course-registry/src/lib.rs`, with `RewardPool` and `BadgeNFT` instantiated | `TryDistributeReward` is the caught call, `MintOnCompletion` the uncaught one, `PendingAfter` the record set before the payment and removed after it. `PoolStep` and `BadgeStep` are calls that others make to the two services. |
| `CompletionReward` | the life cycle of one reward | open, then paid, pending or lost; a claim is final. CourseRegistry implements it (`ImplementsSettlement`). |
| `StakeVault` | `contracts/stake-vault/src/lib.rs` | `Deposited` is the record after a deposit; `Matured` the lock test of `unstake`; `GetMultiplier` the tiers. |
| `QuestEngine` | `contracts/quest-engine/src/lib.rs`, with `RewardPool` and `StakeVault` instantiated | `ComputeLearnerPayout` is the integer arithmetic of the code, `PayAll` a review or a batch, all or nothing. Within one transaction only the sum decides whether a batch is covered, so `AfterPayments` gives each address its debits and credits at once. |
| `BountyBoard` | what QuestEngine promises of its quests | Quests that are posted and closed, submissions that are decided once, one pot that pays whole rewards. Fees, multipliers and verifications are left out. QuestEngine implements it (`ImplementsBoard`). |
| `Governance` | `contracts/governance/src/lib.rs`, with `BadgeNFT` instantiated | `Count` is the tally update with its `checked_add`; `Close` what `cancel_proposal` and `execute_proposal` share. No call of the contract creates a proposal: `SeedProposal` writes the record the way the tests' `seed_proposal` does. |
| `Platform` | the six contracts, wired by `setup_full_platform` of `contracts/integration-tests/src/lib.rs` | `Init` is the state that function leaves. Each disjunct of `Next` is the calls of one contract, taken from its module; what they do not touch of the other contracts is unchanged. Learners, employers and the seven accounts are different addresses. |
| `Upgrade` | `upgrade_contract`, `migrate` and `contract_version` of the six contracts | A build is its `VERSION`. `build` is the code a contract runs, `version` the key `DataKey::Version`, `applied` a history of the schema steps. One disjunct per contract; their code is the same but for `initialize`. Its definitions carry the prefix `Upgrade`, so that one module can hold the theorems of both `Platform` and `Upgrade`. |
| `TokenTheorems` | | facts about `Transfer` and `Total` |
| `RewardPoolProofs`, `BadgeNFTProofs`, `CourseRegistryProofs`, `StakeVaultProofs`, `QuestEngineProofs`, `GovernanceProofs` | | theorems about the module of that name |
| `DeploymentProofs` | | theorems about `Platform`, from instances of `QuestEngineProofs`, `CourseRegistryProofs` and `GovernanceProofs`, and about `Upgrade` |
| `MC*` | | values of the constants for TLC |

All contracts share one `balance` and one clock in a composition. An address
that is registered with a contract may be the service or `Elsewhere`, an
address where no contract answers.

## 4. Runs

| Run | Distinct states | What it shows |
|---|---|---|
| `reward_pool` | 305 | Types, `SpenderFootprint`, `PausedOnlySwept` with two candidate administrators and spenders and amounts from -1 to 2: negative, zero, and more than one of the donors has. |
| `badge_nft` | 345 | `OneBadgePerCourse`, `MintOrder`, `RevocationExact`, and the refinement `ImplementsSets`, with three courses so that a badge in the middle is revoked. |
| `course_registry` | 62,920 | `RewardAtMostOnce`, `EventsMatchMoney`, `BadgesEarned`, `FinishedForever`, `CompletionAtomic`, `ImplementsSettlement`: two learners complete the same course of one or two modules, and a pool that can pay both rewards, one or none is wired, paused, swept and re-pointed between any two calls. |
| `stake_vault` | 1,109 | `OwnersKeepTheirTokens`, `LockHonoured`, and under fairness `LockExpires`: two users deposit, top up and withdraw across both tiers. |
| `quest_engine` | 350,194 | `EscrowLedger`, `LearnersPaid`, `PausedOnlyRefunds`, `DisciplineCovers`, and the refinement `ImplementsBoard`: two quests of either kind, single and batch reviews of two learners, refunds before, between and after approvals, repeated verifications, pauses and rewiring, a pool that is funded and swept. One reward is so small that its fee rounds to nothing, one is negative. `DisciplineCovers` says that what the open quests can claim stays in the engine for as long as owners pay and refund each quest once; `isolated_vault` shows that otherwise it does not. |
| `governance` | 129,513 | `OneOutcome`, `TallyIsBallots`, `ExecutedByMajority`: two voters vote before, at and after the end, while badges are minted and revoked and the proposal is cancelled or executed. A tally can reach its limit. |
| `platform` | 600,478 | `LearnerIncome`, `TreasuryLedger`, `EscrowLedger`, `BadgesAreCompletions`, `VotesEarned`, `StakesBacked`, `LostOnlyByClaim`, `ExecutedByCompletions`: a learner finishes two courses, is paid for two quests of either kind out of a pool that cannot pay everything, stakes what was earned so that a review reads the higher multiplier, and votes on a proposal that is executed. |
| `upgrade` | 133,454 | `UpgradeTypeOK`, `VersionIsHistory`, `BadgeContractFrozen`: two upgrades, to the build before versioning, this one or a later one, of any of the six contracts, with migrations before, between, after or never. |
| `pending_claim`, `isolated_vault`, `stake_boost`, `locked_proposal` | | Each checks one statement of the repository that the code does not keep, and finds it violated: section 7. |

**Bounds, and why they are enough.** State counts stay finite through
`MaxCourses`, `MaxModules`, `MaxQuests`, `MaxTime`, `MaxVotes` and the
endowments. No contract relates two courses, two proposals, or more than two
quests (through the shared balance) with one another, so one course and one
proposal and two quests show what a larger catalogue would. Two actors in a role
are the fewest that compete. `MaxModules = 2` has a module that is last and one
that is not. `MaxTime` admits a moment before, at and after every deadline; in
StakeVault, `Stake` also asks that the lock can end before `MaxTime`, so that
liveness is not decided by the bound. Tiers, lock period and reward are scaled
down (500 to 3, a week to two ledgers, 10_0000000 to 2): the code only
compares and adds them. `MaxVotes = 3` stands for `u32::MAX`, and four badges
exist, so that a vote which does not fit happens. Percentages are not scaled:
rewards of 6, 10 and 20 units are below the smallest fee, on a fee with a
remainder, and on an exact fee.

Every run of two contracts lets the administrators re-point addresses. `platform`
does not, since that is where contracts keep to their wiring, and leaves out
rejections and cancellations, which concern one contract only; it has one learner
and one proposal, because what it is about are sums over contracts. The pool starts
with 3 tokens against four rewards of 2, so payments fail and succeed in both
spenders; the learner needs one payment to stake the 5 tokens of the lower tier.
Learners compete in the runs of the single contracts; that the two action properties
hold for several learners on the platform, where votes and claims of many are summed,
is proved (`CompletionsExecute`, `RewardsLostOnlyByClaim`). In `upgrade` two upgrades
suffice for a step forward, a rollback and the way back, since contracts may be
deployed from the later build.

**Fairness.** Only `StakeVault!FairSpec` assumes any: weak fairness of `Tick`,
since the network closes ledgers whatever users do. Nobody is assumed to stake,
withdraw or claim, and no other property is a liveness property.
`stake_vault` disables the deadlock check because time ends at `MaxTime`, and
`upgrade` because the explored upgrades end at `MaxUpgrades`; the other passing
runs have it enabled.

## 5. What is proved

The theorems hold for every value of the constants allowed by the named
assumptions of each module (those of `Platform` are `AccountAssumption`,
`NumberAssumption` and `RecordAssumption`): finite sets of addresses, distinct contracts, an
endowment of naturals, `None` outside the values it stands beside, and contracts
that sign for nothing but the calls in their own code (so that no contract is an
employer, or administers another one, except where the code makes it so). TLC
evaluates those assumptions in the runs. On the platform the learners and the
employers are none of the seven accounts, and no learner is an employer: the sums
attribute each movement of tokens to one role. That each contract's own assumptions
follow is proved (`EngineAssumptions`, `RegistryAssumptions`, `GovernanceAssumptions`).

Two proofs that failed changed a definition: the guards of
`CourseRegistry!RewardStatus` overlapped, so that `CASE` did not determine the
status of a completion that was paid twice, and they are disjoint now; and
`LearnersPaid` speaks of learners who neither administer nor post quests, since the
tokens of one who does also move with what they post, fund or sweep.

| Theorem | Statement | Argument |
|---|---|---|
| `TokenTheorems!TransferConserves` | a transfer that does not panic keeps `Total` | `TotalUpdate`: setting one balance replaces that address's units by as many as the new balance and keeps the others, so `Total` changes by the difference. A transfer is two such updates. `TotalMonotone`: a function that is nowhere larger has no larger sum, since its units are a subset. |
| `RewardPoolProofs!TypeCorrect`, `FootprintCorrect`, `TokensConserved` | `[]TypeOK`, `[]SpenderFootprint`, `[]Conservation` | `PoolInv`, the conjunction, is inductive. The footprint needs that `spenders` is finite, conservation needs that balances are natural numbers. |
| `RewardPoolProofs!PauseHolds` | `PausedOnlySwept` | From `PoolInv`, one step per call. |
| `StakeVaultProofs!LocksHonoured` | `LockHonoured` | From `VaultInv`: a purse shrinks only in `Stake`, which dates the whole stake anew, and grows only in `Unstake`, whose guard is the end of the lock; that it is then back at its endowment is the owner's sum. |
| `StakeVaultProofs!VaultIsBacked`, `OwnersWhole`, `VaultTypes` | `[]VaultBacked`, `[]OwnersKeepTheirTokens`, `[]TypeOK` | `VaultInv`: types, the vault's balance as a sum of stakes, and each owner's sum. A deposit adds to the vault what it adds to one term of the sum. |
| `BadgeNFTProofs!OneBadge`, `MintOrderKept`, `RevocationsExact`, `BadgeTypes` | the invariants of BadgeNFT | `BadgeInv` says every vector is `WellKept`: no course twice, times ascending and not in the future. Without uniqueness a revocation could leave a second badge; without order a mint could not be compared with all earlier ones. `WithoutShifts` says what the scan leaves at each index. |
| `BadgeNFTProofs!ImplementsSoulbound` | `Spec => Held!Spec` | Under `BadgeInv` a mint is a `Gain`, a revocation a `Lose` or a stutter; the count moves by one because no course occurs twice. |
| `CourseRegistryProofs!RewardedOnce` | `[]RewardAtMostOnce` | `RegistryInv`: types and the property. Completion settles an unfinished course, hence one neither paid nor pending; a claim removes its record before it pays. |
| `CourseRegistryProofs!FinishedKept` | `FinishedForever` | `total_modules` never changes and progress never falls. |
| `CourseRegistryProofs!RegistryTypeCorrect` | `[]TypeOK` | `StorageInv`: `RegistryInv`, `BadgeInv` of the badge contract, the pool's types, and `ProgressOnCourses`. The badge contract's types alone are not inductive: a revocation keeps a vector well-typed only because it is well kept. |
| `CourseRegistryProofs!MoneyMatchesEvents` | `[]EventsMatchMoney` | From `StorageInv`: the transaction that publishes the event is the one that credits the learner, and it can do so once, so that the number of courses with an event grows by one. |
| `CourseRegistryProofs!CompletedAtOnce`, `BadgesAreEarned` | `CompletionAtomic`, `[]BadgesEarned` | Under `StorageInv` only the last module finishes a course; that needs `ProgressOnCourses`, since a learner with progress in a course to be created later could be finished by its creation. |
| `CourseRegistryProofs!ImplementsRewards` | `ImplementsSettlement` | Each completion's status maps to one of the life cycle; a completion or a claim moves one of them, every other call none. |
| `QuestEngineProofs!QuestTypes` | `[]TypeOK` | With `QuestFacts`: rewards of build and of refunded quests are not negative (the token has checked them), submissions are for build quests, the counter is ahead of every quest. Without them an approval could credit the engine. |
| `QuestEngineProofs!EscrowBalances` | `[]EscrowLedger` | `PayoutExact`: fee and share add up to the reward for every multiplier of the vault. `PaymentsEffect`: a batch of n approvals costs n rewards. `DecisionBooks`, `RefundBooks`, `NewQuestBooks`: each book changes by the same sum (`TotalRaised`, `TotalUpdate`). |
| `QuestEngineProofs!LearnersArePaid` | `[]LearnersPaid` | Under the same invariant: `Earned` changes at one quest for the learners of a batch or the one verified, by what `PaymentsEffect` or the pool's transfer credits; the vault moves tokens between purse and stake. |
| `QuestEngineProofs!PausedEngineRefunds` | `PausedOnlyRefunds` | `OutgoingTokens`: only reviews and refunds take tokens from the engine, and a review asks for the pause flag. |
| `QuestEngineProofs!ImplementsBounties` | `ImplementsBoard` | One lemma per operation of the board (`PostQuest`, `SubmitOnBoard`, `DecideOnBoard`, `CloseOnBoard`); every other call leaves the board's state alone (`BoardKept`). |
| `QuestEngineProofs!DisciplinedEscrow`, `DisciplineCoversClaims` | `DisciplinedSpec => []ClaimsCovered`, `DisciplineCovers` | The discipline is a hypothesis about what owners of quests sign, not about the code, which does not enforce it. An approval settles one quest and takes its whole reward (`PayoutExact`), a refund likewise, a new quest adds its own; every other call moves neither the engine's tokens nor a claim. `DisciplineCovers` is that step on its own, from any state that undisciplined calls can reach. |
| `QuestEngineProofs!ClaimsPayable` | `DisciplinedSpec => []` every unsettled quest's reward can be transferred | From `ClaimsCovered`: one term of a sum of naturals is no more than the sum. |
| `QuestEngineProofs!StakesNeverScale` | `[]Unboosted`: the payout of a build quest is the one at multiplier 100 | `PayoutExact`: the boosted amount is never below the base, and is cut back to it. The general form of what `stake_boost` finds. |
| `GovernanceProofs!OutcomeUnique` | `[]OneOutcome` | `GovernanceInv`, which contains `BadgeInv` of the badge contract, so that a weight is a number; its steps are cited from `BadgeNFTProofs` through an instance. |
| `GovernanceProofs!TalliesExact`, `MajorityExecutes` | `[]TallyIsBallots`, `ExecutedByMajority` | `TallyInv`: a ballot is recorded only for a voter key that is set and a proposal that exists, so a first vote finds nothing cast and a new proposal starts at zero. |
| `GovernanceProofs!TypesKept` | `[]TypeOK` | The two invariants above, with `WiringTypes` for the keys only `initialize` writes. |
| `DeploymentProofs!PlatformInvariant` | `[]PlatformInv`: the invariants of QuestEngine and CourseRegistry on one ledger, `Posted` (build quests are an employer's, explore quests the administrator's) and `Wired` (the addresses and the spender the deployment registered) | `AccountsApart`: the seven accounts differ, so each contract's assumptions hold on the platform (`EngineAssumptions`, `RegistryAssumptions`). A call of the platform is a call of the engine (`QuestCalls`, `TreasuryCalls`, `StakingCalls`), of the registry (`CourseCalls`), or a transfer from the pool that the other's invariant survives, so that each invariant is cited from that contract's own proof. |
| `DeploymentProofs!PlatformEscrow` | `[]EscrowLedger` | `EngineSteps` splits a step into one of the engine, for which `EscrowStep` is cited, and a reward of the registry, which neither debits nor credits the engine. |
| `DeploymentProofs!IncomeAccounted` | `[]LearnerIncome` | In a step of the engine a learner gains as much as is booked as earned (`QuestEngineProofs!IncomeStep`); a course reward adds one to one term of `paid` (`OneMorePaid`). |
| `DeploymentProofs!TreasuryAccounted` | `[]TreasuryLedger` | `QuestEngineProofs!TreasuryStep`: where one account administers engine and pool (`OneTreasurer`, which `Posted` and `Wired` establish), every call of the engine, the vault or the pool moves pool and administrator by fees plus explore refunds less explore rewards, and the three books by the same (`Flows`). Donations and sweeps stay inside. A course reward takes from the pool what it adds to `Reward * Total(paid)`. |
| `DeploymentProofs!HeldInvariant`, `OneBadgePerCompletion` | `[]BadgesHeld`, `[]BadgesAreCompletions` | `BadgesHeld`: no course twice in a vector, and its courses are the finished ones. Only the last module of a course mints (`CourseMints`, `OtherMints`), so the course is new to the vector; `Wired` has nobody else mint or revoke. Counting is then a bijection between indices and courses (`BadgeCount`). |
| `DeploymentProofs!VotesAreEarned` | `[]VotesEarned` | `VotesHeld` adds that who has no vote key has cast nothing, so a vote is the badge count of its moment; finished courses only grow (`FinishedGrows`). |
| `DeploymentProofs!StakesAreBacked` | `[]StakesBacked` | `QuestEngineProofs!VaultStaysBacked`: a deposit or a withdrawal moves the vault's balance by what it books, and no approval, refund, verification or call to the pool touches an account that takes part in none of them; a course reward goes from the pool to a learner. |
| `DeploymentProofs!RewardsLostOnlyByClaim` | `LostOnlyByClaim` | From `PlatformInv`. Only the last module finishes a course, and it leaves the payment or the record, since a pool is registered (`Wired`); only a claim takes a record away without publishing the completion, when the pool refuses, and `PoolRefuses` lists why it can: the registry is a spender, the pool has its administrator, the reward is positive, so it is paused or short. |
| `DeploymentProofs!CompletionsExecute` | `ExecutedByCompletions` | `BallotCalls`: a call of the platform is one of `Governance` or of its badge contract, so that `GovernanceInv` and `TallyInv` are cited from `GovernanceProofs`. They make the tally the sum of the ballots; `VotesHeld` bounds each ballot, and `TotalMonotone` the sum. |
| `DeploymentProofs!HistoryKept`, `UpgradeTypes` | `[]VersionIsHistory`, `[]UpgradeTypeOK` | `UpgradeInv`, their conjunction, is inductive: a migration runs exactly the steps between the stored version and its own, and its guard keeps the version from falling when the code went back. The types are needed to compare versions as numbers. |
| `DeploymentProofs!FrozenBadges` | `BadgeContractFrozen` | Both calls compare the signer with the stored administrator, and people are not the registry. |

## 6. What is only model-checked

* `LockExpires`: the prover does not handle liveness under fairness or ENABLED.
* What a fold computes for every input needs induction over data, which the
  prover cannot do. Sums are therefore written as `Total`, and a batch of payments
  as its effect on each address. No module here declares a RECURSIVE
  operator, since the prover loses its arithmetic in a module that has one.

The other way round, four invariants are stated by theorems and by no run:
`Conservation` (`TreasuryLedger` accounts for the pool's tokens), `VaultBacked`
(`StakesBacked` is the same sum on the platform), `ClaimsCovered`
(`DisciplineCovers` is its step) and `Unboosted` (`stake_boost` runs the claim it
contradicts).

## 7. Where the code and what is said of it differ

Each of these has a run and an entry under `findings`.

* `PendingUntilPaid`: a claim made while the pool does not pay removes the
  pending record, and with it the reward that a retry was promised for. On the
  platform this is the only way to lose a reward (`RewardsLostOnlyByClaim`).
* `IsolatedVault`: each approval pays the whole reward of a build quest, and
  neither a second approval nor one after a refund is refused: a quest can spend
  another employer's tokens. That is left to the owners of quests; what they would
  have to keep to is `DisciplinedSpec`, and that it suffices is `DisciplinedEscrow`.
* `StakeScalesPayout`: the boosted payout is cut back to the unboosted one and
  the multiplier is never below 100, so no stake changes a payout
  (`StakesNeverScale`).
* `LockedProposal`: votes are taken on cancelled and executed proposals, and
  after the end of voting.

Differences met while modelling that have no run:

* The comment on `refund_quest` speaks of the employer of a build quest. The code
  does not look at the type: an explore quest, which locked nothing, is refunded
  to the administrator from what employers locked. `EscrowLedger`, `BountyBoard`
  (`Close`) and the term `ExploreRefunded` of `TreasuryLedger` account for it.
* `docs/upgrade-guide.md` says that `migrate` does not panic when the stored
  version is above `VERSION`, after a rollback. The assertion it quotes, `current_version
  < VERSION`, does panic then, and `VersionIsHistory` depends on it
  (`CanMigrate_afterRollback` is the guard the guide describes).
* The comments on `contract_version` say that 0 means deployed before versioning.
  No `initialize` writes the version, so a new deployment answers 0 as well, and the
  migration steps of a later build would run on records it wrote itself.
* The guide has the protocol administrator send both upgrade transactions for all
  six contracts. In the wiring of the integration tests the administrator of
  BadgeNFT is CourseRegistry, which calls neither, nor `revoke_badge`:
  `BadgeContractFrozen`.
* The guide asks for no other call between `upgrade_contract` and `migrate`.
  Nothing in the contracts refuses one.

* `MAX_BADGES_PER_LEARNER`, `MAX_SPENDERS`, `MAX_QUEST_REWARD` and
  `QUORUM_BASIS_POINTS` are defined in `contracts/common` or in the contracts
  themselves, and no code reads them: vectors, approvals and rewards are not
  limited, and no quorum is asked for. `BASE_REWARD_AMOUNT` is 10_000_000 in
  `contracts/common` and 10_0000000, ten times as much, in the registry.
* The course-registry README says that deactivating a course stops new
  enrolments. `enroll` is refused then, but `complete_module` starts progress for
  a learner who never enrolled, on an inactive course as well.
* `verify_explore_quest` can be called again for the same learner and quest, and
  after the quest was refunded: `LearnersPaid` counts each verification.

## 8. What is not modelled

* What a schema step does to records: the only one of this commit, from version 0
  to 1, does nothing. `Upgrade` counts steps.
* `contracts/common`: nothing calls it.
* `contracts/integration-tests` beyond its setup: the scripted journeys are among
  the behaviours of `Platform`, and the one with a spender missing among those of
  `CourseRegistry`.
* Trust lines, issuing and clawback of the token; direct token transfers to a
  contract that go around its entry points; storage archival and TTL extension;
  fees and resource limits of the host.
* The u64 and i128 ranges of time and amounts: the code traps on overflow in
  release builds, and the token's supply bounds amounts far below.

## 9. Plan

**Done**: the six contracts and what three of them promise (`SoulboundBadges`,
`CompletionReward`, `BountyBoard`), `Upgrade`, `Platform`, the runs of section 4,
and a theorem for every property of a passing run but `LockExpires`.

**Next**:

* `Platform` keeps the addresses of the deployment. A variant in which the
  administrator re-points them would show which of its sums survive.
* That `Platform` implements `CompletionReward` and `BountyBoard`, which the
  registry and the engine are shown to implement on their own.
