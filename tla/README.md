# ICON-USDS in TLA+

This directory is a formal model of the programs in this repository: the stable
coin contract (Java, `src/stable-coin`), and the governance contract of the
local ICON chain it is tested on (Python, `src/gochain-local/data/config/governance`).
The models are TLA+ modules; TLC checks them on small instances, and TLAPS
checks proofs of all their safety properties for every instance.

Paths below are abbreviated: `StableCoin.java` and `AbstractStableCoin.java`
are in `src/stable-coin/src/main/java/com/icon/score/`, `governance.py` and
`network_proposal.py` in `src/gochain-local/data/config/governance/`, and
`TransactionHandler.java` and `TestBase.java` in
`src/testinteg/src/main/java/foundation/icon/test/`.

- [The system](#the-system)
- [The modules](#the-modules)
- [What is abstracted](#what-is-abstracted)
- [The runs](#the-runs)
- [What is proved](#what-is-proved)
- [Findings](#findings)
- [What is not modelled](#what-is-not-modelled)
- [Plan](#plan)

## The system

### Stable coin contract (`StableCoin.java`, `AbstractStableCoin.java`)

*State.* `admin`, `nIssuers`, the array `issuers`, `totalSupply`, `_paused`,
`freeDailyTxLimit`, and by account `_balances`, `_allowances` and `_whitelist`
(START_HEIGHT, TXN_COUNT); name, symbol and decimals never change once set.

*Operations.* Deployment and update (the constructor), `transfer`, `mint`,
`mintTo`, `burn` by anyone who holds tokens, and the administrator's
`addIssuer`, `removeIssuer`, `approve`, `transferAdminRight`, `togglePause`,
`changeFreeDailyTxLimit`. The rest are queries.

*Interaction.* A transfer to a contract calls its `tokenFallback`, between the
writes of the balances and the `Transfer` event. That contract may call the coin
again, call other contracts, or fail, which fails the transfer.

*Hard.* Interleaving by nested calls on one stack, roll-back of a part of the
stack, an administrator that is itself a contract, the swap with the last
element in `removeIssuer`, an update that runs the constructor again.

*Correct when* the supply is what the accounts hold, the events tell what
happened, no more is minted than was approved, the issuers are a set within its
maximum, and callbacks get nothing that belongs to the administrator or to a
wallet that did not send it.

### Fee sharing (the `_whitelist` of the same contract)

*State.* For each account the block at which its term began and the number of
its transfers since for which the contract paid the fee.

*Operations.* `setFeeSharingPercentage` at the start of each transfer,
`_whitelistWallet` in each mint, the query `remainingFreeTxThisTerm`.

*Hard.* Terms of 43120 blocks that start at each account's own transfers, so that
boundaries and two terms next to each other matter; counts taken under one limit
and compared with another; keys of the database that were never set.

*Correct when* the contract pays for no more than it means to in a term, in any
window of one term's length, and the query tells the truth.

### Network proposals (`network_proposal.py`, and the callers in `governance.py`)

*State.* For each proposal the proposer, the end of the term, its content, its
status, the ballots for and against and those missing, with the delegations they
weigh; the network's values; the list of main P-Reps the platform reports.

*Operations.* `registerProposal`, `cancelProposal`, `voteProposal`, the queries
`getProposal` and `getProposals`; a vote that approves applies the content.

*Interaction.* The platform changes the list of main P-Reps and their
delegations between any two calls. Approved proposals change the platform's
values; some effects revert, and the vote with them, others may be refused
without (a disqualification).

*Hard.* Votes after the decision, values stale by the time they are used
(delegations, the step price that a new price is compared with), two proposals
pulling one value in opposite directions, expiry that no transaction performs.

*Correct when* every registered P-Rep is counted once, decisions follow from the
ballots and are final, each approval takes effect exactly once, the network's
values stay in order, and every proposal is settled at last.

### Auditing of contracts (`governance.py`)

*State.* `_auditor_list`, `_audit_status`, `_reject_status`; the platform's record
of the current and the pending deployment of each SCORE.

*Operations.* `acceptScore`, `rejectScore`, `addAuditor`, `removeAuditor`.

*Hard.* Accepting runs the code of the contract it deploys before the verdict is
written; pending deployments are superseded; auditors are swapped in the list.

*Correct when* verdicts exclude each other, nothing rejected runs, no old version
comes back, and auditors keep their seats.

### Installation, migrations and the import white list (`governance.py`)

*State.* The version, and the containers of the releases before 1.1.0: step costs
and the list of their types, step price, step limits, revision, service
configuration, import white list and the list of its packages, black list and
deployers. Since 1.1.0 the platform holds these values.

*Operations.* `on_install`, `on_update` with the migrations to 0.0.2, 0.0.3, 0.0.5
and 1.1.0, the queries `isInImportWhiteList` and `getMaxStepLimit`.

*Interaction.* The last migration hands the values to the platform and empties
the containers; from then on approved proposals change the platform's values only.

*Hard.* One update runs several migrations, each of which relies on how the ones
before it laid out the containers, whatever release it starts from; versions are
compared part by part; values are found through lists of keys kept beside them; a
migration that runs again would undo what proposals have changed.

*Correct when* the platform receives exactly what the old release had and what the
migrations add, the white list neither opens nor closes what it should not,
nothing but the misplaced limits is left in the containers, and no migration runs twice.

### Transaction handler of the integration tests (`TransactionHandler.java`, `TestBase.java`)

*State.* The transactions sent, the one waited for, its deadline, and the node's
answer to the last poll.

*Operations.* `transfer`, `getResult`, and in `TestBase` `transferAndCheckResult`
and `ensureIcxBalance`.

*Interaction.* The node is polled once a second; meanwhile it executes the
transactions in any order, fails some and loses some.

*Hard.* A result that arrives while an answer without it is on its way; a
deadline that passes meanwhile; transactions that are never executed, which look
the same as ones that are late.

*Correct when* success is only reported for what succeeded, what is in time is not
given up, and every test ends.

## The modules

| Module | Models | State |
| --- | --- | --- |
| `FeeSharing` | one account's entry of `_whitelist` | none: operators on an entry |
| `StableCoin` | the whole contract, with nested calls | `db`, `log`, `frames`, `blockHeight` |
| `FeeHistory` | `StableCoin` with a record of what the contract paid | and `granted`, `peak` |
| `NetworkProposal` | one proposal | none: operators on its record |
| `Governance` | proposals, voting, their effects | `proposals`, `network`, `mainPreps`, `termEnd`, `blockHeight` |
| `Audit` | auditing, with the deployments it runs | `db`, `deploying`, `requests`, `deployInfo` |
| `Migration` | installation, updates from every release, the white list's query | `db`, `network` |
| `TransactionHandler` | a test that sends and waits, the node, the clock | `pc`, `mode`, `queue`, `answer`, `left`, `pause`, `node`, `inTime` |
| `Ledger` | abstract: the coin as seen between transactions | `signer`, `admin`, `paused`, `issuers`, `supply`, `balances`, `allowances`, `approved` |
| `Transactions` | `StableCoin` with the signer of the last complete transaction; implements `Ledger` | and `signer` |
| `StableCoinProofs`, `CallbackProofs` | theorems about `StableCoin` | |
| `TransactionsProofs` | the theorem that `Transactions` implements `Ledger` | |
| `FeeHistoryProofs`, `GovernanceProofs`, `AuditProofs`, `MigrationProofs`, `TransactionHandlerProofs` | theorems about the module of that name | |
| `MCStableCoin`, `MCTransactions`, `MCFeeHistory`, `MCGovernance`, `MCAudit`, `MCMigration`, `MCTransactionHandler` | the instances TLC checks | |

**Steps.** A call that fails a `require` or calls `revert` leaves nothing behind
and is no step, so a guard is the conjunction of what the code requires. A call
that is accepted is one step, since transactions are executed one at a time: the
exceptions are the two calls that run someone else's code in the middle.

**Calls in progress.** In `StableCoin`, a transfer to a contract writes the
balances and pushes a frame with a copy of the state before the call. As long as
there are frames, the contract on top is the only caller: it makes any call of
the contract, calls another contract, returns (`Return`, which emits the Transfer
event of the transfer it answers) or fails (`Revert`, which restores the copy:
the failure of `tokenFallback` is not caught, so the transfer is undone as well).
A failed transfer leaves its own caller running, which is why roll-backs of a part
of the stack are in the model. `Audit` does the same for the deployment that
`acceptScore` runs (`AcceptScore`, then `Deployed` or `DeployFails`).

**Events.** `log` keeps what the properties need of the events: for each account
the tokens received less the tokens sent in Transfer events, and the sum of the
positive Approval events. It is rolled back with the state, as events are.

**Fee sharing.** `StableCoin` uses `FeeSharing` as it is called in the code, in
`transfer` before the balances are looked at and in a mint. `FeeHistory` adds two
history variables that no guard reads: for each account the blocks of its
sponsored transfers in order, and the highest limit; it is for wallets only
(`FeeHistoryAssumption`), since a history could not follow roll-backs.

**The ledger.** `Ledger` says what a transaction may do, whoever it calls: only its
signer and contracts pay; the supply stays what the accounts hold; no more comes
into existence than was approved; and unless the signer or a contract is the
administrator, the rights stay as they are, nothing moves during a pause and
allowances only shrink, those of issuers only. It has no calls and no stack.
`Transactions` maps to it the state in which the transaction in progress began
(`At(1)`), so that the ledger moves when the outermost call ends, all at once. The
history variable `signer` tells whose transaction that was; no guard reads it.

**Migration.** Each migration is a function of the storage, in the order in which
`on_update` calls them, and an update is one step, since it is one transaction.
`Init` is a new chain, or one that any release has left with its containers laid
out in any of the ways listed in `MCMigration`. The white list is part of the storage
and, from 1.1.0, of the platform's values; this version has no operation that
changes it.

**Transaction handler.** The test's steps, the node's and the clock's interleave.
A poll samples the node when it is sent and the answer arrives up to `Latency`
seconds later: that is the gap in which a result can be missed. A test waits for
results (`transferAndCheckResult`) or for balances (`ensureIcxBalance`), which show
success only.

**Governance.** `NetworkProposal` has the functions of `network_proposal.py` as
operators on a proposal's record, `Governance` the callers in `governance.py`: who
may call, the validation of contents, and the effects of approval. An effect that
reverts (`Applicable` is false) makes the vote no step.

## What is abstracted

- Accounts, contracts, hashes and texts are model values; names, symbols,
  decimals, `_data`, titles and descriptions are left out, and the parsing of a
  proposal's value is replaced by the value.
- `BigInteger.intValue` keeps 32 bits in the code; the model keeps `IntRange`,
  so that a small number can go over it.
- `TERM_LENGTH` is a constant: 43120 in the code, 2 in the runs. The initial
  free limit, 50 in the code, is `DefaultFreeLimit`.
- The rates of approval and disapproval are compared as fractions; the code
  compares floating-point quotients with 0.66 and 0.33. A quotient with
  denominator 0, when nothing is delegated to any main P-Rep, is caught in the code
  and counts as a rate not reached, as in the model.
- The order of a list of main P-Reps is the platform's; the model takes one.
- What the platform may refuse by itself (`validate_irep`, `validate_reward_fund`,
  the disqualification of a P-Rep) may happen or not.
- In `Migration`, step costs, limits and white lists are small functions, `Nothing`
  is storage without a key, and a version is the sequence of its parts, `Null` for
  one that is not a number. An
  import statement is its parse: by package the names imported, none for all.
- In `TransactionHandler`, time is counted in whole seconds, relative to the
  deadline in force, and stops at -1 once that has passed; the test's own steps take
  none. What a transfer or a query may throw is one step, `TransferFails` or
  `PollFails`.
- In `Audit`, a deployment's hash is its number, which is only used to tell which
  of two was requested first. The platform records a version when its code has
  run, and only between transactions takes requests. The model assumes that the
  platform sends every deployment through an audit: one that takes effect at once, as
  a service configuration without audits allows, is not there, and `VerdictsStand`
  says nothing of such a chain.

## The runs

Every run that passes checks for deadlock too, except `transaction_handler`, where
a test that has ended stops. The bounds are `MaxDepth` (nested
calls), `MaxHeight` (blocks), `MaxApproved` (sum of the approvals),
`MaxRequests` (deployments) and `Latency` (seconds a poll takes); they are guards of
the actions.

| Run | Instance | Checks |
| --- | --- | --- |
| `reentrancy` | a wallet, an administrator, a contract, the zero address; two blocks; three nested calls; up to two tokens; arguments -1, 0, 1 and 2 | `SupplyBacked`, `LogSettles`, `CallbackCannotAdminister`, `WalletsAreSafe` |
| `transactions` | the same accounts, and the administrator's rights may pass to the contract; two nested calls; one token | `TypeOK`, `MintedWithinApprovals`, `TransactionsAreAtomic` |
| `issuers` | four accounts, up to three issuers, maxima -1, 0 (meaning 2), 3, and 4 and 9, which do not fit the integers of -4 to 3 that the run keeps; amounts -1 and 1; two tokens approved | `IssuersOK`, `MintedWithinApprovals`, `OthersKeepRights` |
| `fee_history` | two wallets, six blocks of terms of two, limits 0, 1 and 2 | `CountIsGrants`, `WindowBudget`, `FreshIsSponsored` |
| `voting` | one proposal, of a text or of a revision that cannot be applied; three P-Reps in lists of four kinds; four blocks | `BallotsAddUp`, `StatusJustified`, `DecisionsAreFinal`, `EventuallySettled` |
| `effects` | two proposals of one term, of every type but text, good and bad | `Governance!TypeOK`, `EffectsFollowApprovals`, `NetworkStaysValid`, `StepPriceCompounds` |
| `audit` | three users, two SCOREs, four deployments | `VerdictsStand`, `VersionsAdvance`, `SeatsAreKept` |
| `migration` | a new chain, and 237 storages left by eleven releases; proposals that change prices, costs and the black list | `OldStorageRemoved`, `CarriedOver`, `ImportsStayRestricted`, `UpdatesKeepNetwork` |
| `transaction_handler` | two transfers, deadlines of three seconds, answers that take up to two | `SuccessIsConfirmed`, `GivesUpOnLate`, `Ends` |
| `remaining_defined`, `remaining_exact`, `limits` | as `fee_history` and `migration` | see [Findings](#findings) |

Why the bounds are enough:

- *Reentrancy.* A hazard needs a call within a callback and a roll-back around
  it; three levels let the outer and the middle one be completed or undone
  independently of the inner one. Two tokens let a callback spend a part of what it
  received. The zero address is an argument everywhere, as a bad administrator and
  a bad receiver. Amounts that the contract must refuse are offered.
- *Transactions.* The contract needs one callback to use its rights as administrator
  and another around it to be undone; one token approved is enough to exceed the
  approvals by one. No block passes: what the refinement sees does not depend on it.
- *Issuers.* With three, the one removed, the last one, and one that is neither
  are different accounts. Two tokens let an allowance be used and approved again, a
  negative amount overwrite it in between. Of the maxima that do not fit, one
  becomes negative and one small.
- *Fees.* Six blocks hold three whole terms of two blocks, so two terms within any
  window of two blocks, a boundary on either side and a third term are covered.
  Mints are a step, so an enrolment by mint and one by transfer are both there.
- *Voting.* Three P-Reps, one with most of the delegation, make the count of
  heads and of delegation differ and the 66% and 33% both attainable and not. Lists
  and delegations change between any two steps, and four blocks let a proposal
  registered in either of two terms expire. One of the lists has no delegation, so
  that no side can reach its share; and the vote that would approve the lower
  revision is reverted each time, so that only the end of the term settles it.
- *Effects.* Two proposals are what it takes for the second to find the
  network not as it was at its registration. P-Reps have equal delegations
  there; heights do not matter. The step price starts at 2, where a quarter is
  rounded in both directions, and reaches 1, from which 0 passes the validation; a 2
  registered before the price falls to 1 doubles it afterwards. The proposals are interchangeable (symmetry).
- *Migration.* The releases lie on both sides of every version the code compares
  with, and include one without a version, one that is a proper prefix and one with
  parts that are no numbers. Containers are empty, filled without the list of their
  keys where releases did so, or filled. Updates and proposals alternate without end.
- *Transaction handler.* Two transfers can be executed in either order, each before,
  during and after the wait for either; the answer to a poll can be as late as the
  deadline and later; three seconds hold several polls. Time has no bound.
- *Audit.* Four deployments let one SCORE have a current version, a superseded
  one and a pending one while another SCORE is deployed. The stack may hold two
  acceptances, of which the code admits only one: a contract cannot be an auditor.

What the properties say, beyond a restatement of the code:

- `SupplyBacked` holds also while callbacks run, and in every state a failing one
  returns to. `LogSettles` says how far the events lag behind: by exactly the
  transfers whose callback has not returned.
- `CallbackCannotAdminister` and `WalletsAreSafe` compare the state in which a
  call began with each later one: with a wallet as administrator no sequence of
  calls made in a callback raises an allowance, changes the list of issuers, the
  pause or the limit; and no wallet but the sender loses a token.
- `MintedWithinApprovals` bounds what exists by what was approved, over every order
  of approvals that overwrite one another, mints, burns, removals and roll-backs.
- `WindowBudget` is the bound the fee sharing really gives: twice the limit in any
  window of a term's length, not the limit once.
- `FreshIsSponsored` is its counterpart: an account that has not been paid for in a
  term's length is paid for, unless the limit is below two; then a mint that
  enrols it may use up the only grant.
- `BallotsAddUp` holds for the amounts only as a sum: the votes may weigh more or
  less than was delegated at registration, and then the amount of the missing
  ballots is what absorbs the difference, and may be negative.
- `StatusJustified` holds after late votes too, since a side that has its share keeps it.
- `TransactionsAreAtomic` is the refinement: whatever is nested in a transaction,
  completed or rolled back in part, its outcome is one that `Ledger` allows. It
  relates the state in which a transaction began with the one it leaves, over
  everything its callbacks did.
- `StepPriceCompounds` is what validating a price against that of the registration
  still gives: an approval may change the price by more than a quarter, up or down,
  since the price has moved meanwhile, but n approvals never by more than n quarters
  upon each other.
- `CarriedOver` compares what the platform receives with the old storage itself, not
  with what the migrations in between produced. The limits it requires only of
  releases from 0.0.3 on: what earlier ones hand over contradicts the documentation
  (`LimitsUpdated`). `OldStorageRemoved` looks at every container, down to the
  deployer list, which nothing reads any more; `ImportsStayRestricted` asks every
  import statement of up to two packages before and after; `UpdatesKeepNetwork` fails
  as soon as an installation or an update leaves a version older than itself.
- `GivesUpOnLate` is what polling with a deadline really gives: a result that comes
  within the last answer's latency of the deadline may be missed, though it was in
  time; one that comes earlier is always seen.
- `EffectsFollowApprovals` says that the network is a function of the approvals: a
  proposal that could not be applied is not approved, one that was is applied once.

**Fairness.** `EventuallySettled` needs weak fairness of `Governance!NewBlock`:
blocks keep coming. Nobody is assumed to vote, nor the list of P-Reps to stand
still. What settles a proposal is the end of the term, which the queries compare with
the height (`network_proposal.py`, `get_proposal`). `MaxHeight` is beyond every end of
term in `TermEnds`, so the bound does not hide a proposal that stays open. `Ends`
needs weak fairness of `TransactionHandler!Client` and of `Tick`: the test runs and
its calls return, and time passes. The node is assumed to answer, and to do nothing
with what it was sent: it need not execute any transfer.

**Mutants.** Each property has a mutant beside the definition it changes (the
comments that begin "Mutant"): a plausible mistake in that code, which violates the
property in the run's own instance. No specification uses them.

## What is proved

Every safety property and every action property of the passing runs is a theorem,
for every value of the constants that the modules' assumptions admit. In each proof
module the properties follow from an invariant that is inductive, with one lemma
for each action that says the action keeps it; nearly none of the properties is
inductive by itself, and what follows says why and what had to be added.

### The stable coin (`StableCoinProofs`, `CallbackProofs`)

| Theorem | States |
| --- | --- |
| `TypeCorrect` | `Spec => []TypeOK`: no balance, supply or limit is negative, and every copy saved for a roll-back is as well typed as the state |
| `SupplyIsBacked` | `Spec => []SupplyBacked` |
| `MintingIsApproved` | `Spec => []MintedWithinApprovals` |
| `IssuersInOrder` | `Spec => []IssuersOK` |
| `EventsSettle` | `Spec => []LogSettles` |
| `CallbacksRuleNothing` | `Spec => []CallbackCannotAdminister` |
| `CallbacksSpareWallets` | `Spec => []WalletsAreSafe` |
| `RemovalIsPrecise` | `Spec => OthersKeepRights` |

`Revert` makes an earlier state the current one, so what is to hold now must have held
in every state on the stack. The inductive invariant `IInv` says that the current
state and the copy in each frame are `Sound`, which is the conjunction of

- `Typed`: the types of the storage and the log;
- `Backed`: the supply is the total of the balances;
- `Covered`: supply and positive allowances are within the approvals;
- `Orderly`: the issuers are distinct, fit the maximum, and alone have allowances;
- `Fresh`: before the deployment there are no balances, no supply and no issuers.
  `Constructor` sets the supply to 0 without looking at the balances, so that it is
  sound only because it runs for the first time on an empty storage.

The theorems of `CallbackProofs` relate the states on the stack with one another, and
each has an invariant of its own beside `IInv`:

- `LogInv`: between two states next to each other on the stack the events fall behind
  by exactly the transfer that separates them, and in the first one by nothing. The
  property itself speaks of the current state, and would say nothing of the state a
  failing callback brings back.
- `RuleInv`: every state on the stack stands in the relation that the property asks
  for with every later one, not with the current one alone, since any later one may
  become current. The relation is transitive (`SinceOn`); this is where it is
  needed that a callback cannot change a wallet administrator.
- `SafeInv`: the same of the first state on the stack, for what wallets hold.

`OthersKeepRights` follows from `IInv` and from what `Without` does to a list without
duplicates: that the issuers are distinct is what makes the swap with the last one
precise.

*Sums.* The total of a function is defined as the number of pairs of an account and
one of its units, `Total(f) == Cardinality(UNION {{a} \X (1..f[a]) : ...})`, which is the
sum where `f` is not negative and leaves negative values out. So it needs no
recursion, and its laws follow from those of finite sets: `TotalSplit` takes one
account out of a total, `TotalWrite` gives the total after one account's value
changes, and `TotalMove` says that `Move` between two accounts, equal or not, keeps
it. There is one lemma per action, each of which shows that the action leaves a
sound state sound; `NextSound` combines them and `Invariant` is the induction.

*Assumptions.* The accounts are finite, `Null` is none of them and no number, the zero
address is no contract, the arguments are integers. Nothing is assumed of the
contracts, nor of how `IntValue` narrows the maximum of the issuers.

### Whole transactions (`TransactionsProofs`)

| Theorem | States |
| --- | --- |
| `Atomicity` | `TxSpec => TransactionsAreAtomic`: `Transactions` implements `Ledger` |

A step of the ledger is what a whole transaction did, so the proof has
to say what a part of one may have done: `Follows(u, o, s)` relates the state `o` in
which a transaction of `u` began with a state `s` it has come to. It is reflexive on
sound states (`FollowsItself`) and transitive (`FollowsOn`), one lemma per call shows
that the call adds to it, and a last one that from `Follows` a transaction of the
ledger is made (`LedgerStep`). The invariant `TxInv` says that the current state follows
from the beginning of the transaction in progress, and so does every copy on the
stack, since a failing call may bring any of them back. Transitivity is where the rule
that nobody but the administrator administers is needed: as long as the administrator is
neither the sender nor a contract, it stays the same one. The assumptions are those of
the stable coin.

### Fee sharing (`FeeHistoryProofs`)

| Theorem | States |
| --- | --- |
| `CountsAreGrants` | `FeeSpec => []CountIsGrants` |
| `BudgetHolds` | `FeeSpec => []WindowBudget` |
| `FreshAccountsPayNothing` | `FeeSpec => []FreshIsSponsored` |

`WindowBudget` speaks of the window that ends now and is not inductive: nothing in it
prevents a third term from being paid for. The invariant `FInv` keeps `Books` for each
account, in which every sum is anchored at the beginning of the account's term and
not at the present: what was paid for since then is the count or one less and within the
ceiling, what was paid for in a term's length before it adds at most another
ceiling, and nothing was paid for after the term's end. A window that ends now and is no longer than a term then begins either in the
current term or in the part before it that `Books` bounds. The ceiling is the highest
limit there was, and at least one, since the first transfer of a later term is free
under a limit of 0 too. The count may be one more than the payments after a mint,
which is the reason why `FreshIsSponsored` needs a limit of two. `Since` counts the
blocks of a sequence from a block on; its laws (`SinceLater` and those after it) follow
from those of finite sets, without an induction over the sequence.

*Assumptions.* Those of the stable coin, a term of at least one block, and no
contracts (`FeeHistoryAssumption`): the history variables are not rolled back, so they
would count a payment in a transfer that was undone. Fees are not changed by callbacks
otherwise, and the contract's side of it is in `StableCoin`.

### Network proposals (`GovernanceProofs`)

| Theorem | States |
| --- | --- |
| `GovernanceTypes` | `Spec => []TypeOK` |
| `BallotsStayWhole` | `Spec => []BallotsAddUp` |
| `StatusesAreJustified` | `Spec => []StatusJustified` |
| `EffectsAreApprovals` | `Spec => []EffectsFollowApprovals` |
| `NetworkIsValid` | `Spec => []NetworkStaysValid` |
| `PricesCompound` | `Spec => []StepPriceCompounds` |
| `DecisionsStand` | `Spec => DecisionsAreFinal` |

`GInv` is the conjunction of

- `ProposalsInOrder`: in each registered proposal the three lists have together as many
  entries as there are P-Reps on them and as were registered, so that none is on two or
  on one twice; the amounts add up; the status has its ballots, and an open proposal has
  none that would settle it; and its content is as it was validated. Only finitely many
  are registered, without which the numbers of approvals would not be defined;
- `PlatformInOrder`: types of what the platform reports;
- `NetworkInOrder`: types and ranges of the network's values. The fund's split is kept
  in order only because a proposal's content was validated when it was registered and is
  never changed, which is why `ProposalsInOrder` has to remember it;
- `RevisionFollows`: the revision is no lower than any that was approved, and is one of
  them or the first. The property says maximum; that follows, but is not what a step
  can be shown to keep;
- `BlackListFollows`: a SCORE is on the black list once more, or once less, than at the
  start, as freezing was approved more often than unfreezing.

`StatusJustified` holds after late votes because a vote only adds to a side, whose share
is taken of the numbers at registration; the amount of those missing, which may be
negative, plays no part in it. `BallotsAddUp` is a matter of lists: a vote moves one entry
from one list to another, and the lemmas on sequences at the beginning of the module say
what that does to their lengths and to the set of their entries.

`StepPriceCompounds` has an invariant of its own beside `GInv`: `PriceInv` adds that each
open proposal's price is within the bounds that one approval more will make. A price is
that when it registers (`ValidatedPrice`); and it remains so, however many others are
approved first, because every approval moves the bounds apart (`BoundsMoveApart`). The
bounds are a recursive function; that it exists is `IterationExists`, by the least number
at which it would fail.

*Assumptions.* Main P-Reps are finite lists with delegations that are not negative; the
network starts in order, as the platform's genesis does; contents are what parsing
yields (`ContentsAssumption`), numbers where numbers are parsed: their ranges are not
assumed, since checking them is the code's task; and `Null` is no proposal.
There may be any number of proposals.

### Auditing (`AuditProofs`)

| Theorem | States |
| --- | --- |
| `VerdictsHold` | `Spec => []VerdictsStand` |
| `AcceptancesDoNotNest` | `Spec => [](deploying # <<>> => Len(deploying) = 1)` |
| `VersionsOnlyAdvance` | `Spec => VersionsAdvance` |
| `SeatsStand` | `Spec => SeatsAreKept` |

`acceptScore` tests the verdicts, runs the new contract, and only then writes the
verdict, so that `VerdictsStand` depends on nothing happening in between. `OneAtATime`
says why nothing does: the contract being deployed is the only caller, it is no
auditor, and so what was undecided still is. `Versions` orders the waiting request after
the current version of its SCORE, without which `VersionsAdvance` is not kept, and
`Seats` makes the swap in `removeAuditor` precise, as for the issuers.

*Assumptions.* Every deployment goes through an audit, by the shape of the model. The
owner is an account, and no contract is one. That contracts do not
become auditors is not assumed: `addAuditor` refuses them.

### Updates (`MigrationProofs`)

| Theorem | States |
| --- | --- |
| `StorageIsRetired` | `Spec => []OldStorageRemoved` |
| `UpdatesAreIdempotent` | `Spec => UpdatesKeepNetwork` |
| `ValuesAreCarriedOver` | `Spec => CarriedOver` |
| `ImportsAreKept` | `Spec => ImportsStayRestricted` |
| `EveryImportIsKept` | the same for any set of import statements |

`MInv` says that there are two kinds of states. Either the values are in the storage, laid
out as `Legacy` says and of a version before 1.1.0; or they are the platform's, and the
storage, if there is one, is `Retired` and of a version from 1.1.0 on. That the version
and the layout go together is what no property says and all need. The comparison of
versions is transitive enough (`EarlierStill`: what is not older than 1.1.0 is not older
than 0.0.2, 0.0.3 or 0.0.5), and `Versions`, a recursive function, collects numbers: this
is the one induction, done with the least number at which it would fail
(`AllNumbers`). `MigratedParts` is what the migrations together do to each container,
case by case of the release; the properties compare it with the old storage.

*Assumptions.* `Legacy` is what releases before 1.1.0 leave: costs listed by their types,
or, from the oldest, unlisted and of the types set at first (other types could not be
found by any migration); limits by context; and a white list whose entries name packages,
with a star, if any, first. The star is what `isInImportWhiteList` presumes: it looks at
the first name only. What releases from 1.1.0 leave is `Retired`. The import statements of
`EveryImportIsKept` name no package `invoke` or `query`, for which the misplaced limits
would be taken.

### The transaction handler (`TransactionHandlerProofs`)

| Theorem | States |
| --- | --- |
| `SuccessIsReal` | `Spec => []SuccessIsConfirmed` |
| `GivesUpNoSooner` | `Spec => []GivesUpOnLate` |

`SuccessIsConfirmed` says of the end what `Finished` says at each moment: a transfer that
is no longer queued has succeeded. An answer on its way is old, so `Answered` says what
the node has said stays true. `GivesUpOnLate` needs `AsksAgain`: when a transfer has been
executed early enough, an answer without it arrives with time left to ask again.

*Assumptions.* The transfers are distinct, and their number, the waiting time and the
latency are natural numbers.

### What is only model-checked

Liveness (`EventuallySettled`, `Ends`), which is out of the prover's reach, and the
violations under [Findings](#findings), each of which is a counterexample.

## Findings

Where the code does not do what its documentation says; each is a run that ends in
a violation.

- `remaining_defined` / `RemainingDefined`: `remainingFreeTxThisTerm` fails for an
  account whose first transfer met a limit of 0, whose count was never set.
- `remaining_exact` / `RemainingIsExact`: in the block in which a term ends the query
  still counts the old term (`< 0`, `StableCoin.java:145`), the transfer does not
  (`> 0`, `AbstractStableCoin.java:104`).
- `limits` / `LimitsUpdated`: the migration to 0.0.3 writes the initial step limits
  into the container of the white list (`governance.py:472`), from which the migration
  to 1.1.0 does not read them, so that the platform receives limits of 0.

Seen while modelling, without a run of their own: the first transfer of each term after
an account's first term is free without a look at the limit
(`AbstractStableCoin.java:109-113`), so that one remains free after the limit has been set
to 0 (`StableCoin.java:180`, "Changes daily free transactions limit for whitelisted
users"); `addIssuer` compares with the maximum narrowed to an `int` (`StableCoin.java:206`),
so that with a maximum of 2^31 or more it refuses issuers with the message "Cannot have
more than [maximum] issuers" long before there are so many; the limits misplaced in the white list's container
stay there, since its list of keys does not name them; `ensureIcxBalance` called with
the same old and new balance can only time out; a transaction whose result was given
up on may still be executed, and the handler does not send it again; the constructor rejects 0 decimals with
the message "Decimals cannot be less than 0" and has no default of 18; an allowance
may be negative; a first transfer whitelists its sender without the
`WhitelistWallet` event; the query of remaining free transactions may be negative
after the limit is lowered; tokens are burnt by any holder, not by issuers only;
`vote_proposal` returns whether the vote approved the proposal, where its
documentation says whether the vote succeeded.

## What is not modelled

- *The token interface* (`IRC2Base`): declarations without state or code.
- *Queries and formatting*: getters, `getProposals`, `getScoreStatus` and the like are
  read-only; the status that the queries of proposals show is `ShownStatus`. The
  parsing of an import statement and its errors are left out.
- *Deployments and calls sent by the transaction handler*: sent and awaited like
  transfers, with a longer deadline.
- *Test support, tests, node configuration, build files*: no state that evolves. The
  tests were read as documentation.
- *Crashes and restarts*: a contract's storage is written and rolled back by the
  platform, per transaction, and neither contract keeps anything elsewhere. The tests
  keep nothing either.

## Plan

Every part of the system whose state evolves is modelled, and every safety property
and every action property a run checks is proved. What is left, in the order of its
worth:

1. An abstract ballot box, in which a P-Rep has one ballot and a proposal is settled
   by the ballots, which `Governance` implements.
2. An abstract budget of free transfers, which `FeeHistory` implements.
3. The twice-used lemmas about the entries of a list (`Without` in `StableCoin` and in
   `Audit`) stated once, and the longest proofs (`GovernanceProofs`,
   `CallbackProofs`) divided further.
