# The exSat consensus contracts in TLA+

This directory specifies the contracts of the repository in TLA+, model-checks
them with TLC on small instances, and proves with TLAPS what the endorsements, the
uploads, the chain, their composition and the rewards keep.

exSat brings Bitcoin blocks on chain. *Synchronizers* upload the raw blocks in
chunks and parse them; *validators* endorse the hash they hold to be right at a
height. A block that is verified and endorsed by more than two thirds of its
validators reaches consensus; once a height is `IRREVERSIBLE_BLOCKS` deep, one of
its blocks becomes irreversible, its outputs enter the UTXO set and the
validators, the synchronizer and the parser are rewarded.

## Inventory

Every contract is a single-threaded actor: a transaction is atomic, its inline
actions run inside it, and if one of them aborts nothing happened. Concurrency
is the interleaving of transactions of many accounts, most of which process a
long job in batches (`process_row`, `num_validators_per_distribution`,
`num_txs_per_verification`), so that between two batches of one job anything
else may happen. Time enters as block numbers and timestamps (the priority of
miners, parser timeouts, release dates). There are no messages to lose; calls
are repeated, arrive late or never, and reach a state other than the caller saw.

| Contract | State | Operations | Must hold |
|---|---|---|---|
| `blkendt.xsat` | endorsements per height and role, revote records, configuration | `endorse`, `revote`, `erase`, `config`, `setconheight`, `setqualify` | the list of voters is fixed per block; a quorum is more than two thirds; votes are void only by a revote with more votes on record than half the synchronizers active at its last vote |
| `blksync.xsat` | buckets and chunks of uploads, passed indexes, miners with priority | `initbucket`, `pushchunk`, `delchunk`, `delbucket`, `verify`, `consensus`, `delchunks` | what passes is the block that was hashed; a miner has priority for a while and no longer |
| `utxomng.xsat` | chain state, consensus blocks, irreversible blocks, UTXOs, spent and pending rows | `consensus`, `processblock`, maintenance actions | one chain that only grows; the UTXO set is that of the chain |
| `rwddist.xsat` | reward logs and balances of a height | `distribute`, `endtreward`, `endtreward2`, `delrewardlog` | everything issued is paid once, whatever the batches |
| `poolreg.xsat` | synchronizers, their miners, slots and rewards | `updateheight`, `initpool`, `delpool`, `unbundle`, `setfinacct`, `claim`, `buyslot`, the transfer of a reward | a miner's address belongs to a pool that exists; the contract holds what may be claimed |
| `endrmng.xsat` | validators, stakes of five kinds, rewards per unit of stake, credit weights | staking, claims, `distribute`, `endorse`, `setstakebase`, `setcreditwei`, ... | totals are the sums of the rows; claims never exceed what was distributed; only a short qualification keeps a stake of BTC |
| `rescmng.xsat` | prepaid balances, fee statistics by height | `pay`, `withdraw`, deposits | balances and statistics add up to the tokens held |
| `gasfund.xsat` | shares of fees per receiver, a record per EVM window | `distribute`, `claim`, `enfclaim`, `ramsclaim`, the EVM's transfer, `deldistribut` | shares follow the rewards; every claim is covered |
| `staking.xsat`, `xsatstk.xsat` | tokens, staked balances, locked releases | deposits, `release`, `withdraw` | the tokens held are those staked or locked |
| `custody.xsat` | watched Bitcoin addresses, enrollments | `addcustody`, `delcustody`, `creditstake`, `enroll`, `verifytx` | credit exists only under custody |
| `compete.xsat` | rounds and their quotas, activations | `addround`, `activate` | rounds are filled in order |
| `exsat.xsat`, `btc.xsat` | token balances | standard token | - |
| `external/bitcoin` | none | parsing, scripts, hashes, difficulty | pure data |

How they interact (arrows are inline actions; the rest is reading tables):

    validator --endorse--> blkendt --endorse--> endrmng        (vote counter)
                              |
                              +------consensus------+
    synchronizer --verify--> blksync --consensus--> utxomng --consensus--> blksync (forget)
                                                      |  \---updateheight--> poolreg
    synchronizer ------processblock-----------------> |
                                                      +--distribute, endtreward, endtreward2--> rwddist
                                                      |        rwddist --distribute--> endrmng, transfer --> poolreg
                                                      +--erase--> blkendt,  delchunks --> blksync
    accounts --transfer--> staking, xsatstk --stake, unstake--> endrmng <--creditstake-- custody
    blkendt, blksync, utxomng, poolreg --pay--> rescmng (fees to fees.xsat)
    anybody --distribute--> gasfund (reads rescmng, rwddist; takes from fees.xsat) <--transfer-- EVM

The hard parts, all listed with their lines under `hazards` in `PROJECT.json`:
either of two contracts may complete a block, and each checks the other's
tables; revotes void votes that other tables already relied on; several forked
blocks are parsed at once by synchronizers that take over from each other; a
height is migrated, deleted, rewarded and made irreversible over many
transactions while verifications and endorsements go on; two reward lists of
different length are paid by one batch counter; stakes of five kinds change one
validator's sums under rewards that are settled lazily, with weights and
activation heights that change in between; fees are shared by logs that another
account may delete, and by a division that the logs' contract made before in
other pieces.

## Modules

| Module | Models | State |
|---|---|---|
| `ExsatTables` | the tables that one contract owns and others read, and the operators on them (`reached_consensus`, `is_xsat_consensus_active`, ...) | `config`, `endorsement`, the heights and status of `chainstate`, `consensus_block`, `synchronizer` |
| `BlockEndorse` | `blkendt.xsat` with `endrmng.xsat::endorse` | plus `validators`, `revote_record`, `final_endorsement` |
| `SyncTables` | the tables `blksync.xsat` and `utxomng.xsat` read of each other | `passed_index`, `block_miner`, `miner_window`, `uploader`, `block` |
| `BlockSync` | `blksync.xsat`: `InitBucket`, `PushChunk`, `DelChunk`, `DelBucket`, `verify` as one action per state and outcome | `bucket`, `block_chunk` |
| `UtxoManage` | `utxomng.xsat`: `Consensus`, `ProcessBlock` in its phases, `ParserTimeout` | the whole chain state, consensus rows, UTXO tables |
| `IrreversibleChain` | what `utxomng.xsat` promises: a chain that grows by agreed children of its tip | `chain`, `agreed` |
| `RewardDistribution` | `rwddist.xsat` (without `delrewardlog`) and the batches `utxomng.xsat` cuts | logs, balances, payments |
| `ExsatConsensus` | the composition of `BlockEndorse`, `UtxoManage` and the last step of `blksync.xsat::verify` | all of the above but rewards |
| `ExsatSync` | the composition of `BlockSync` and `UtxoManage` | buckets, chunks and all of `UtxoManage` |
| `EndorseManage` | `endrmng.xsat`: native, EVM, deposit, credit and XSAT stakes, qualification, rewards, claims | `validator`, `staker`, `stat`, `credit_config`; of others `base_stake`, `xsat_active`, `head_height` |
| `TokenStaking` | `staking.xsat` and `xsatstk.xsat` | `token`, `staking`, `releases`, `token_balance` |
| `Custody` | `custody.xsat` and `compete.xsat`, over `EndorseManage` | `custody`, `enrollment`, `rounds`, `activation` |
| `ExsatStaking` | the composition of the three: a deposit, a release or a credit stake is one step of two contracts | |
| `StakeHistory` | `ExsatStaking` with a history variable, which the code does not keep: how often a stake changed what it counts for | `changes` |
| `ResourceManage` | `rescmng.xsat` | `account`, `feestat`, `resource_config`, `btc` (who holds the BTC tokens) |
| `PoolRegister` | `poolreg.xsat`, over `ResourceManage` | `pool`, `miner`, `pool_xsat` |
| `GasFund` | `gasfund.xsat` and `rwddist.xsat::delrewardlog`, over `PoolRegister` and `RewardDistribution` | `gas_config`, `fees_stat`, `distributes`, `details`, `consensus_fees`, `reward_logs` |
| `ExsatFees` | the composition: a height is charged, rewarded, made irreversible, and its fees are shared | `migrating`, the history `received` |
| `BlockEndorseProofs` | theorems about `BlockEndorse` | |
| `UtxoManageProofs` | theorems about `UtxoManage`: its inductive invariant; the refinement of `IrreversibleChain` and the ledger | |
| `BlockSyncProofs` | theorems about `BlockSync` | |
| `ExsatSyncProofs` | theorems about `ExsatSync`: its parts' invariants, the refinement of `UtxoSpec` | |
| `ExsatConsensusProofs` | theorems about `ExsatConsensus`: its parts' invariants, the refinement of `EndorseSpec` and of `IrreversibleChain`, the ledger | |
| `RewardDistributionProofs` | theorems about `RewardDistribution`, alone and in `ExsatFees`, and about `PoolRegister`, `ResourceManage` and `GasFund` there | |
| `ExsatStakingProofs` | theorems about `ExsatStaking` and `StakeHistory`, and so about `EndorseManage`, `TokenStaking` and `Custody` | |
| `FoldTheorems` | lemmas on minima, iterations, folds, sums over finite sets and `RemoveFirst` | |
| `MC...` | instances for TLC | |

One action stands for one contract action with every inline action it makes. A
`check` that fails is a disabled action. A component module carries, in its last
section, the *environment*: what the other contracts may do to the tables it
reads. For `BlockEndorse` the environment is an over-approximation of
`utxomng.xsat` and `poolreg.xsat`; the composed module `ExsatConsensus` has
`EndorseSpec` as a property: the real actions stay within it, which `ExsatConsensusProofs`
proves.
In the same way `ExsatSync` has `UtxoSpec` as a property: what `UtxoManage`
assumes of uploads (`Verified`, `VerifiedLate`, `Withdrawn`) is all that
`blksync.xsat` does to the tables `UtxoManage` reads; `ExsatSyncProofs` proves it.

An inline action runs after the action that sends it, on the tables that one
leaves. `Consensus(t, y, b)`, `Store(y, rows, b)` and `StoreBlock` therefore take the
tables as values, and the step is the caller's guard and the call together
(`VerifyPasses(s, b) /\ StoreBlock(...)`). `BlockSync` alone combines its steps with a
call that stores the block or returns, `ExsatSync` with the real `Consensus` and
its call back into `blksync.xsat`.

Names follow the code. Operators with a suffix (`MayEndorse_Migrating`) are
mutations of the operator after them; nothing uses them, and replacing the
original by one shows that a property can fail.

What was abstracted:

- A block is a member of `Blocks` with a height, parent, miner and work. Its
  content is the sequence of its inputs and outputs, `Ops[b]`; a coin is
  created by one output and spent by one input.
- Heights count from `START_HEIGHT`, 0 here and 839999 in the code.
- Stakes are counted in units of the qualification; only comparisons with the
  qualification matter to endorsements.
- An endorsement row is created with its first provider, so an empty pair of
  sets stands for no row.
- Time is a choice: a window or a timeout may end at any moment. An iteration
  order the code leaves to hashes or ids (which parser's block, which of two
  blocks of equal work) is a choice as well.
- In `BlockSync` the data of a block is a sequence of units: the header with the
  number of transactions, then the transactions. A Merkle root stands for the
  transactions it is computed from, so the layers in which batches are combined
  and duplicated transactions are not seen. A batch may fail for any reason
  (the rules of a valid transaction, and the missing return of
  `check_transaction`); it passes only if sizes and root agree.
- A bucket is named by its synchronizer and block, of which at most one exists
  at a time, and not by its number.
- In `BlockEndorse`, `BlockSync`, `UtxoManage` and their compositions the fees
  (`rescmng.xsat::pay`) are left out: an account that cannot pay does not act.
- In `EndorseManage` an operator on tables stands for a function of the contract
  and returns the set of tables it may leave, none if it aborts, so that one
  action can call several. An unsigned difference below zero aborts. Of a
  validator with several credit stakers, whichever comes first is re-weighted;
  which one is left open.
- Left out of the staking contracts: the part of a claim that is donated, totals
  that are only counted up, names of reward and financial accounts, the clock.
  The tables of proxies are constants and a proxy has one kind. A validator has
  a stake address from its registration on. XSAT consensus, once active, stays
  so, and a token is an amount without precision.
- In the fee modules fees are not told apart by the contract that charged them,
  a fee is charged for one unit, the fee account is `fees.xsat`; in the runs all configurations have one `start_distribute_height`, and the
  reward rates leave the BTC validators a staking part (hypotheses of the theorems, below). `delrewardlog` erases
  the BTC log of a height; the XSAT log stays in the table (its key is looked up
  wrongly) but is read through the BTC log only.
- The names of accounts have no bits: `Masked[s]` is what the name of a synchronizer
  becomes with the bit of `XSAT_SCOPE_MASK` set, and any function to names will do. The
  rows of `gasfund.xsat` are found by these ids (`receiver_id`), and receivers whose ids
  coincide share a row, as an account of the form `xxxxx.sat` in both roles does.
- The height of a block is one more than that of its parent (`SyncAssumption`), as the
  buckets of honest uploads have it. The code finds a parent in consensus by height and hash
  (`get_ancestor`), but an irreversible one by its hash alone, and `verify` does not
  compare the heights: an upload of a child of an irreversible block under a wrong height is
  not covered; to get consensus it needs the endorsement of that hash at that height.
- `_creditstake` without a change of what is counted succeeds only if there is a row, be it an
  emptied one. Rows without a stake are not told apart from none, so once
  a weight is configured the call may succeed here.
- `deldistribut` erases rows of the loop it iterates: it may delete all rows, or
  leave some.

## Runs and bounds

| Run | Instance | Shows |
|---|---|---|
| `endorse_votes` | 3 BTC validators, one of which changes its stake; two configurations; two blocks at height 1, one at 2 | `EndorseInv`, the inductive invariant of the proofs; `ForkNeedsDoubleVotes`; `ElectorateFrozen`; `MigratingEndorsementsFrozen` |
| `endorse_revote` | 4 synchronizers, limits 0 and 1; one BTC and one XSAT validator; a block at height 2 | `NoEndorsementsBelowIrreversible`, `EndorsementsLeaveByMajority` |
| `endorse_list` | 2 BTC, 1 XSAT validator; two blocks at height 2 | a counterexample to `ListedHaveVoted` |
| `utxo_tree` | either two branches of 3 and 2 blocks (`IRREVERSIBLE_BLOCKS = 2`), or a line of 4 blocks with 6 inputs and outputs; 2 synchronizers, batches of 2 or all rows | `LedgerInv`, the inductive invariant of the proofs; `MigratedBlockIsParsed`, `NoRowsBelowTip`, `ParentsReachedConsensus`, `UtxoSetIsLedger`, `NoSecondConsensus`, refinement of `IrreversibleChain` |
| `utxo_live` | the line, one synchronizer, batches of 1, 0 offered too | `MigrationsEnd` |
| `sync` | a race: two blocks of height 1, one with a miner, and a child, two synchronizers; or one block of a header and two transactions, right and wrong chunks, a transaction per batch; or a block of the wrong difficulty | `BucketsMatchChunks`, `VerifiedPrefix`, `ConsensusDataIsTheBlock`, `PassedRowsHaveBuckets`, `MinerComesFirst`, `ChunksHaveOwners`, `RetainedBlocksHaveData` |
| `sync_chain` | 3 blocks, the first with a miner; two synchronizers with one slot | `ReadyBlocksHaveAWaiter`, `ParsedDataIsTheBlock`, `UtxoSpec` of the composition |
| `fees` | up to 4 validators, 2 synchronizers, one of which shares its row with a validator, 4 heights, rewards in batches of 2 and of both versions, in one of 8 scenarios | `RewardsConserved`, `ShareIndependentOfBatch`, `FeesAreHeld`, `FeesCanBeShared`, `PoolsKeepTheirs`, `FeesFollowRewards` |
| `reward_stall` | 3 validators, batches of 1 | a counterexample to `RewardsAreDistributed` |
| `consensus` | 3 blocks, one with a miner; 2 BTC and 1 XSAT validator whose stake changes; 2 synchronizers; one revote at height 1 | `MigratedBlockKeepsProviders`; `ReadyBlocksAreStored`; `EndorseSpec` of the composition |
| `consensus_revote` | as `consensus` | a counterexample to `RewardedBlockReachedConsensus` |
| `staking` | 2 validators, a native staker and four EVM stakers (deposit, XSAT deposit, credit, delegation), stakes of up to 3 units, 2 heights of rewards, in one of 9 scenarios | `StakesAddUp`, `RewardsCovered`, `DueIsKept`, `StakesCanBeWithdrawn`, `StakesAreBacked`, `CreditInCustody`, `RoundsFilledInOrder` |

Why these bounds reach the interesting cases. Three validators are the fewest
for which a quorum (3 of 3 for 3, 2 of 2 for 2, 1 of 1) leaves room for a missing
vote to matter and for a dropped `+ 1` to show a fork; four synchronizers are
the fewest for which half and more than half differ by a vote that is missing.
`EndorsementsLeaveByMajority` holds the votes on record against the synchronizers that are active at
the last vote; votes of some that became inactive or were deleted since are on record and count,
in the code and in the property.
`IRREVERSIBLE_BLOCKS = 2` (6 in the code) keeps every comparison with it: the
block at the depth, one below and one above are different heights. Batches
smaller than a block cut it inside; 0 is offered because it means "all" in two
places and "none" in a third. In `sync` the chunks of a block come
in the right and the wrong order, too few or one twice, and one header announces
a wrong number of transactions; the three cases are explored one at a time (`UploadIsAlone`), and the blocks of the race are
pushed in one chunk and, but for the block with a miner, fail only when the block
reached consensus meanwhile (`RaceIsPlain`); one chunk each is pushed as well in `sync_chain`, where the second
synchronizer uploads the block of height 1 only. In `consensus` stakes change
only in behaviours without revotes and at low heights (`StakesOrRevotes`), and only
the block with a miner is verified twice (`OneVerification`). Parsers run late on the
line of `utxo_tree` up to height 2, in `utxo_live` and in `sync_chain`, not on its fork
and in `consensus` (`NoTimeouts`); in `utxo_tree` uploads are withdrawn at height 1 of
the line only, and above height 2 a block is verified only once it is endorsed.
`RevoteBound`, `OneRevote` and `RevoteAt1` bound
the voided rows, which no contract reads, to one per block, and say at which
height revotes are asked for. `MaxHeight`, `MaxStake` and `ProcessRows` are
bounds of the explored values.

`staking` and `fees` have more actors than can be explored at once: a behaviour
plays in one *scenario*, a record that says who acts, what the bounds are and
which moves there are besides the central ones, and each scenario is there for
an interaction. In `staking`: native stakes moved between two validators under
rewards (`Native`), the release cycle with tokens disabled and deleted
(`Cycle`), deposits and delegations while XSAT consensus becomes active and the
base stake and stake addresses change (`Delegated`), rewards that do not divide
(`Rounding`), credit under falling weights with endorsements and rewards
(`Weights`), rounds (`Rounds`), enrollments, with stake addresses and base stakes replaced under credit (`Enrolling`), XSAT stakes and
validators (`Xsat`, `XsatRestake`). In `fees`: every division of four validators
into the two lists (`Batches`), windows of one and two heights (`Windows`), both
versions of the rewards (`Versions`), claims of shared and other rows with pools deleted (`Claims`), late
fees and fees for slots (`Late`), deleted logs and records under a changing
configuration (`Deletions`), accounts (`Prepaid`), pools and miners (`Miner`).
Rewards of 12 divide by every quantity of stake, so that `RewardsCovered` is
exact there and `changes` stays 0; in `Rounding` changes are counted
(`CountChanges`), and less than a unit is allowed for each, which is what its two
roundings may cost. `restakes` bounds the changes of a behaviour to 4.

`Careful` names what `staking` leaves out: `updcreditstk`, a call of the contract's own account,
where it drops the native stakes from the sum of a validator, and weights that rise, which the theorems
cover. `evmsetstaker`,
which validators call themselves, is in the run, with stakes and credit on the
validator, and so is a base stake that changes under a credit stake. They leave
qualifications that are too short for the stakes, up to 3 units (a bound of `InScenario`),
and `StakesCanBeWithdrawn` says that nothing else keeps a stake. See the hazards
of `endrmng.xsat`.

Deadlock is not checked in the runs of `UtxoManage`, `BlockSync`, `RewardDistribution`
and the compositions, which stop when the last block is irreversible or paid, or when the
bounds of a scenario leave no step.

Fairness is used in `utxo_live` and `reward_stall` alone: synchronizers keep
calling `processblock` with a positive `process_row` (they are paid for it, and
after the timeout any of them may), and time passes. Nobody is assumed to
endorse or verify anything. `MigrationsEnd` is about `utxomng.xsat` by itself,
with one provider per block: the reward distribution, which is called in one of
its phases, can stop it as `reward_stall` shows.

## Findings

1. `endorse_list` - the list of a height counts a validator whose latest vote is
   at that height for one with an unbroken run, though it skipped the height
   before; the comment above the test says otherwise.
2. `reward_stall` - `endtreward_per_symbol` tests `>` where a list that is
   exactly used up needs `>=`; the next batch transfers zero, is refused, and
   no height becomes irreversible any more.
3. `consensus_revote` - a revote on a height whose block already has a consensus
   row leaves that row; the first new endorsement then lets it be migrated and
   rewarded without a quorum.

## Proofs

### Endorsements

`BlockEndorseProofs` proves about `EndorseSpec`, for any finite sets of
validators and synchronizers, any blocks, heights, stakes and configurations:

| Theorem | Property |
|---|---|
| `InvHolds` | `EndorseInv` |
| `TypesAreCorrect` | `EndorseTypeOK`, part of `EndorseInv` |
| `RowsPartitioned` | `RowsArePartitions`, part of `EndorseInv` |
| `NothingBelowIrreversible` | `NoEndorsementsBelowIrreversible` |
| `MigratingRowsFrozen` | `MigratingEndorsementsFrozen` |
| `ListsFrozen` | `ElectorateFrozen` |
| `RowsLeaveByMajority` | `EndorsementsLeaveByMajority` |
| `ForksNeedDoubleVotes` | `ForkNeedsDoubleVotes` |

The assumptions are `TablesAssumption` and `EndorseAssumption`, both evaluated
by TLC in the runs. None of the properties is inductive by itself: that no
endorsement lies at or below the tip depends on the height being erased before
the tip moves to it, and on nobody writing it in between. `EndorseInv` adds

- `ChainProgress`: a height is migrated directly above the tip, not above the
  head, and rewards are distributed only for a migrated height;
- `ErasedWhileRewarding`: from the erasure to the move of the tip the migrated
  height has no rows.

A step lemma says what any step may do to a row (gain one provider from its
requested list, be created, be voided by a revote, be erased with its height),
to the chain state and to the records; preservation of each conjunct and the
action properties follow from it. The fork theorem counts: two quorums of more
than two thirds inside one list overlap in more than a third.

### The UTXO manager

`UtxoManageProofs` proves about `UtxoSpec`, for any blocks, tree,
work, inputs and outputs, any synchronizers, batch sizes and `IRREVERSIBLE_BLOCKS`:

| Theorem | Property |
|---|---|
| `UtxoInvHolds` | `UtxoInv`, the inductive invariant |
| `MigrationWindowHolds` | `MigrationWindow`, part of `UtxoInv` |
| `MigratedBlockIsParsedHolds` | `MigratedBlockIsParsed` |
| `NoRowsBelowTipHolds` | `NoRowsBelowTip` |
| `ParentsReachedConsensusHolds` | `ParentsReachedConsensus` |
| `NoSecondConsensusHolds` | `NoSecondConsensus` |
| `ImplementsChain` | `ImplementsIrreversibleChain`, the refinement |
| `LedgerInvHolds` | `LedgerInv` |
| `UtxoSetIsLedgerHolds` | `UtxoSetIsLedger` |

The assumptions are `TablesAssumption`, `SyncAssumption` and `UtxoAssumption`, and for
the count of the last theorem `OutputsOnce`: no block and its ancestors output a coin
twice, as bitcoin demands (BIP 30). Without it `migrate` would overwrite a row and
still count it; `MCUtxoManage` has it as an assumption TLC evaluates. That the UTXO
*set* is the ledger (`UtxoSetFollowsChain`, part of `LedgerInv`) needs no such thing.

None of the properties is inductive. `UtxoInv` adds to them

- `PhasesAlternate` and `ParsingInOrder`: parsing stops at the top of the window
  until the height below is migrated, and works on rows of one height only. From
  these follows that the block chosen for migration was parsed.
- `ConsensusRowsVerified` and `VerifiedOnce`: a consensus row has an uploader, its
  parent is in consensus or irreversible, and a synchronizer has one row of a
  block it verified; removing one row then removes the block from what that
  synchronizer verified.
- `OneBlockPerHeight`: the stored blocks are one per height up to the tip, of which
  the refinement mapping builds the chain.
- `MigratedBlockIsDeep`: the block that is migrated extends the tip and has a line
  of agreed descendants of the length of the window, from the walk back of
  `find_next_irreversible_block` until the block is stored. Rows of the line cannot
  leave meanwhile: only rows at the migrated height are deleted.
- `UtxosCounted`: no subtraction from `num_utxos` wraps.

There is a lemma for every action (`StoreStep`, `ParseRowsStep`, `MigrateStep`, ...);
`NextUtxoInv` puts them together. The walk back is a function on heights, and
`WalkIsLine` shows that it yields a line of parents down to a child of the tip.

`ImplementsChain` maps each step: `StoreIrreversible` appends the migrated block
(`StoreExtends`), a consensus row grows what is agreed (`ConsensusAgrees`), every
other step stutters (`ChainStep`, which assumes of a step only what `UtxoTablesStep` says).

`LedgerInv` is `UtxoInv`, the UTXO set, and `PendingRows`: the pending rows of a block
are the parsed prefix of its inputs and outputs or, of the block that is migrated,
the suffix not moved yet. `MigratedBatch` shows by induction over a batch that moving rows
moves the ledger forward by as many inputs and outputs, and `OpsUpToStep` and `UnspentAfter`
say what the two recursive functions of the reference definition do in one step.

### Uploads

`BlockSyncProofs` proves about `BlockSyncSpec`, for any blocks, chunks, sizes, miners and
synchronizers and any number of transactions per call:

| Theorem | Property |
|---|---|
| `BlockSyncInvHolds` | `BlockSyncInv`, the inductive invariant |
| `BucketsMatchChunksHolds` | `BucketsMatchChunks` |
| `VerifiedPrefixHolds` | `VerifiedPrefix` |
| `ConsensusDataIsTheBlockHolds` | `ConsensusDataIsTheBlock` |
| `PassedRowsHaveBucketsHolds` | `PassedRowsHaveBuckets` |
| `MinerComesFirstHolds` | `MinerComesFirst` |
| `ChunksHaveOwnersHolds` | `ChunksHaveOwners` |
| `RetainedBlocksHaveDataHolds` | `RetainedBlocksHaveData` |

The assumptions are `SyncAssumption` and `BlockSyncAssumption`. The latter says that a
`chunk_id` is a byte, so that a bucket has finitely many chunks, and that two headers of
one hash and one number of transactions are the same unit of data (a unit stands for what
`check_merkle` decodes). TLC evaluates both, and found no state of the instance of `sync`
in which `BlockSyncInv` fails.

`BlockSyncInv` adds what the properties leave unsaid between two calls:

- `RowInv` and `VerifiedInv` relate a bucket, its chunks and the stage of `verify`: in
  `verify_merkle` the gathered transactions are those after the header and more are to
  come; past it the data *is* the block. `ConsensusDataIsTheBlock` follows only because
  this is known when the block passes, long before it is stored.
- `PassedInv`: whoever is on file has a marked bucket, while the height is open.
- `ConsensusInv`: the uploader of a block in consensus has its chunks and no bucket of it,
  so that neither `pushchunk` nor `delchunk` nor `delbucket` reaches them.
- `RetainedInv` says the same of the irreversible blocks that are kept.

Most actions write one row with its chunks. `FlattenedLength`, `PutLength` and
`RestrictLength` say what a chunk adds to the data, whatever its place;
`BatchContinues` and `DataIsTheBlock` what a batch adds to the verification; the
`...Writes` lemmas that each action writes a row for which `RowInv` holds.
`RowWrittenKeepsBuckets` and `RowWrittenKeepsVerified` then need not know which action it
was. The steps that write several tables (`PassEffect`, `DelBucketStep`, `BlockStoredStep`,
`ChainProceedsStep`) follow one by one; `RemoveFirstOrder`, `PrependedInOrder` and
`AppendedInOrder` keep the miner in front.

### Uploads and the chain together

`UtxoSpec` and `BlockSyncSpec` each come with an environment that stands for the other
contract. `ExsatSyncProofs` shows of the composition `ExsatSyncSpec` that neither
environment leaves anything out:

| Theorem | Property |
|---|---|
| `ExsatSyncInvHolds` | `ExsatSyncInv`, the inductive invariant |
| `SyncImplementsUtxo` | `UtxoSpec`: the uploads do to the chain what its environment may do |
| `SyncImplementsChain` | `ImplementsIrreversibleChain`, in the composition |
| `SyncKeepsUploads` | four properties of `BlockSync`, in the composition |
| `ParsedDataIsTheBlockHolds` | `ParsedDataIsTheBlock` |
| `ReadyBlocksHaveAWaiterHolds` | `ReadyBlocksHaveAWaiter` |

The assumptions are those of the two components, without `OutputsOnce`. `StepIsUtxoStep` and
`StepIsUploadStep` map a step of the composition to one of each part, under the
invariants of both: that what becomes irreversible is a block in consensus directly above the
last (`StoredBlockIsExpected`) is known from `UtxoInv`, that who reaches the last
step of `verify` is not on file (`FirstPass`) from `BlockSyncInv`. Neither knows that a
`verify` repeated after the window of the miner finds its own row, nor that an
endorsement of a settled height cannot be there, so `ExsatSyncInv` adds

- `WaitersInOrder`: while a height is open, whoever waits for the miner of a block is on
  file and, in the window, all on file but the miner wait; a block that is ready and yet not
  stored has only rows of synchronizers that wait. `MinerNotYet` is the argument: had
  the miner come, it would be first and the block ready before.
- `ErasedBelowFloor`: no endorsement survives the erasure of its height.

### Endorsements and the chain together

`ExsatConsensusProofs` proves about `ConsensusSpec`, in which the real `utxomng.xsat` takes
the place of the environment of `EndorseSpec`, and endorsements that come and go
are those `UtxoManage` reads:

| Theorem | Property |
|---|---|
| `ConsensusInvHolds` | `ConsensusInv`, the inductive invariant |
| `ConsensusImplementsEndorse` | `EndorseSpec`: the chain does to endorsements what their environment may do |
| `ConsensusKeepsEndorsements` | `MigratingEndorsementsFrozen` and `ElectorateFrozen`, in the composition |
| `MigratedBlockKeepsProvidersHolds` | `MigratedBlockKeepsProviders` |
| `ReadyBlocksAreStoredHolds` | `ReadyBlocksAreStored`, under `FixedActivation` |
| `ConsensusImplementsChain` | `ImplementsIrreversibleChain`, in the composition |
| `ConsensusKeepsLedger` | `LedgerInv`, in the composition |
| `ConsensusKeepsUtxoSet` | `UtxoSetIsLedger`, in the composition, under `OutputsOnce` |

The assumptions are those of `BlockEndorse` and `UtxoManage`; only the last theorem needs `OutputsOnce`.
`ConsensusInv` is the invariants of both contracts, `MigratedBlockKeepsProviders`, and
two facts the environment of `EndorseSpec` takes for granted: `RowsBelowHead`, by which
only a height up to the head is chosen for migration, and `LimitsOfPools`. Each action
has one lemma that shows two things of it (`EndorseBlockStep`, `VoteToVoidStep`,
`ParseBlockStep`, ...): the invariant is kept, and the step is one of `EndorseNext` or leaves its
tables alone. `ConsensusEffect` is the call they share: what `utxomng.xsat::consensus` leaves of the
chain state, whoever sends it, and that the providers it notes for a migration are those of the row.
The count stays right until the erasure because nobody may endorse or revote at the
migrated height; that needs `EndorseInv`, and that the block has this height, `UtxoInv`.

`ConsensusSpec` does not implement `UtxoSpec`, whose endorsements are never voided, so the chain and
the ledger do not follow from the theorems about it. They follow from the same lemmas: `ChainStep` and `LedgerNext`
assume of a step only `UtxoTablesStep`, that to the tables of `utxomng.xsat` it does nothing, or what a
`consensus` does for a ready block (whatever the endorsements and files are by then), or a batch of `processblock` with the call
that may follow it, or what is done when the winning parser's time has passed. `StepOfTables` shows this of the steps of `UtxoSpec`,
`ConsensusStepOfTables` of those of `ConsensusSpec`.

`ReadyBlocksAreStored` is about the two ways a block gets its consensus row, by its last
endorsement or by a verification, whichever comes second. `ReadyInv` adds what
`verify` and `delbucket` leave of the file of a block (`WindowsHaveMiners`, `PassedAreKnown`) and
`EndorsedAwaitMiner`: a verified block with its endorsements and no consensus row waits for a miner that is not on
file. Its lemmas show that an endorsement which sends no consensus completed nothing (`UnsentIncomplete`),
that one which does leaves no such block behind (`ConsensusReady`), that a revote only takes endorsements away
(`VoidedRows`), and that `RemoveFirst` never moves a miner to a later place (`WithdrawnFile`).

`FixedActivation` says that all configurations have one `xsat_stake_activation_height`, as those of
the run have. It is needed: `setconheight` may move that height so that the BTC endorsements a block has suffice
without the XSAT ones. No action of anyone accompanies that, so nobody sends `consensus` (the hazard at
`blkendt.xsat.cpp:77`). None of the other theorems assumes it. TLC found no state of the instance of
`consensus` in which `ReadyInv` fails.

### Rewards

`RewardDistributionProofs` proves about `RewardSpec`, for any finite set of validators,
any stakes, subsidies, rates and size of the batches, under `RewardAssumption`; and in its
second half about the composition `FeesSpec`:

| Theorem | Property |
|---|---|
| `RewardInvHolds` | `RewardInv`, the inductive invariant |
| `RewardsConservedHolds` | `RewardsConserved` |
| `ShareIndependentOfBatchHolds` | `ShareIndependentOfBatch` |
| `FeesImplementRewards` | `FeesSpec => RewardSpec`: the other contracts leave the distribution alone |
| `FeesConserveRewards` | `RewardsConserved`, in the composition |
| `PoolsKeepTheirsHolds` | `PoolsKeepTheirs`, in the composition |
| `FeesAreHeldHolds` | `FeesAreHeld`, if `SubsidyIsStaked` |
| `FeesFollowRewardsHolds` | `FeesFollowRewards` |
| `FeesCanBeSharedHolds` | `FeesCanBeShared`, if `StartsLater` and no step breaks `StartKept` |

That the amounts add up says nothing about the next batch: the last provider gets what
is left of the balance, which must be what it is due and not below zero. `LogInv` therefore
says of each log, after `n` providers, what is left of both parts (the part less `n` even
shares, or less the rounded shares of the first `n` stakes), that payments and balance
make up the log, and what each provider but the last has. `LogsOfHeight` relates the two logs to the subsidy, and the
number of providers the caller counts to the longer of them. The lemmas follow the
amounts: `PartsFit` (the rates fit into the subsidy after rounding down), `StakingSums` and
`ConsensusSums` (so do the shares), `SharesSplit` (a batch is the difference of two
prefixes), `BatchShares` and `SharesReceived` (what a batch pays is what reaches the
validators), `EndTRewardEffect` (one log), `BatchStep` (one transaction for both).

### Fees

The other four theorems of the table are about `FeesSpec` for any finite sets of pools, miners and
receivers, any costs, deposits, configurations and heights. Their hypotheses:

- `SubsidyIsStaked`: there is a subsidy at every height, and the three rates are less than the whole. The
  default rates are; `setrwdconfig` checks no sum. A window in which no validator has a reward has nobody
  to take what the synchronizers leave, and `fees_stat.consensus_unclaimed` grows by fees of no row.
- `StartsLater`: `start_distribute_height` is not below the height the chain starts at. `config` requires more
  than 840000, and the main net starts at 839999.
- `StartKept`: from the first distribution to the first EVM transfer nobody changes that height. `config`
  does not refuse it, and the record is then looked for under a height that has none.

`FeesInv` is the inductive invariant of the ledger. It has three parts beside `RewardInv`:

- `LogsHeld`, what the logs of a migrated height say whatever the batches were: somebody endorsed its
  block, the providers of a list are distinct, the parts add up.
- `StakingLogged`, under `SubsidyIsStaked`: there was something for the BTC validators.
- `FundInv`: the balances, the types, and of each record from the last EVM height on that its total is not
  zero and each id has at most one row. Without it the next EVM transfer may divide by zero, or pay a row twice.

`btc.fees` covers the fees above the last *shared* height (`FeesAbove`), because a change of the configuration may
move `WindowStart` before the first distribution. The arithmetic is in lemmas about any rewards:
`SharesOfFees` (each receiver gets its part of the fees, the last validator at most one unit per receiver more, and all shares make
the fees if any validator has a reward), `SharesOfTransfer` (taken one after the other from what is left, the shares of an EVM transfer
are all of it, although the total they are divided by may be smaller than their sum), `AccumulatedRows`
(a record grows by the rewards of each id, once). The sums over receivers become sums over ids by `AmountsById`, for
every `Masked`: the receivers of an id are a class, and each is in one.

For `FeesFollowRewards` two more facts are invariant: `PaidToProviders`, that nobody but the providers of a
log is paid from it, and `ReceivedHeld`, that the history `received` of a logged height is what
`gasfund.xsat` computes from the logs. The latter is where the two divisions meet: `PaidAsDivided` compares
the sums a provider got over all batches with the fund's division in one piece, the remainder of the last
included; `RewardedAsLogged` adds the synchronizers, and `RemaindersById` collects the parts of those who share a row.
The theorem has no hypothesis, whichever ids coincide.

For `FeesCanBeShared`, `HeightsHeld` says that no height between the window and the tip lacks fees or logs, and
that a height being rewarded was charged before; `RecordHeld` that the record's rows are what the
receivers of each id got from `EvmStart` to the last shared height. `RecordGrows` splits that sum at the window of a
distribution (`RewardedSplit`); `HistoryStays` says that the history of an irreversible height does not change.
TLC found both invariant on the instance of `fees` before they were proved.

### Stakes

`ExsatStakingProofs` proves about `StakingSpec`, for any finite sets of validators, native and
EVM stakers and tokens, any quotas, weights, base stakes, rewards and heights:

| Theorem | Property | Hypotheses |
|---|---|---|
| `StakingInvariant` | `StakingInv`, the inductive invariant | |
| `StakingTypes` | `StakingTypeOK`, part of `StakingInv` | |
| `CustodyHoldsCredit` | `CreditInCustody`, part of `StakingInv` | |
| `RoundsAreFilledInOrder` | `RoundsFilledInOrder`, part of `StakingInv` | |
| `StakesStayBacked` | `StakesAreBacked`, part of `StakingInv` | |
| `DebtsStayCovered` | `DebtsCovered`: no stake but a credit one has a debt above what it earned | |
| `WhatIsDueIsKept` | `DueIsKept` | `OneCustodyPerValidator` |
| `StakesStayAddedUp` | `StakesAddUp` | `OneCustodyPerValidator`, `SumsWithoutNativeStakes` |
| `RewardsStayCovered`, of `CountingSpec` | `RewardsCovered` | the same two |
| `StakesCanBeWithdrawnHolds` | `StakesCanBeWithdrawn` | the same two |

The assumptions are `EndorseManageAssumption`, `CustodyAssumption` and `TokenStakingAssumption`,
which TLC evaluates. No theorem but the last four leaves a call out: `evmsetstaker`, `updcreditstk`,
any `setstakebase` and rising weights are steps of `StakingSpec`, though `Careful` keeps some from
the run. What the four need the proofs found out, and each is a call the contracts allow:

- `OneCustodyPerValidator`. `addcustody` does not look whether a validator has a custody already,
  and `endorse` counts only the first of its credit stakes again when the weight falls. The
  other stake then counts for more than the sum has of it. The run has one proxy of credit,
  so it satisfies the hypothesis.
- `SumsWithoutNativeStakes`. `updcreditstk` makes the sum of a validator anew from the EVM stakes
  alone. With native stakes on the validator the sum would be too small.

Both are hypotheses on a behaviour, not on the constants: `[]` of a state predicate, and of what one
action may do.

The operators on tables return sets, so that the lemmas say what every member of such a set is:
`StakingChange`, `XsatChange`, `CreditChange` for the three ways an amount changes, and
`StakedMoves`, `UnstakedMoves`, ... for the calls built of them. All of them are a `Moved`: one row and
one validator change by the same numbers, and so do the totals. From `Moved` follow the types, the backing
(`AmountMoves`, whose `q` the staking contract takes or gives at the same time) and the sums. The other
calls change rows of validators only (`RowsFollow`), and none lowers what was earned per share,
which is all `DueIsKept` needs of them. `StepSettles` is the division of the steps that it and
`RewardsCovered` share: a step is a claim, or adds a validator, or lets rewards in (`RowsFollow`) and
then settles stakes that are due what they were (`DueSame`). A claim that settles a credit stake at another
weight than it counted with is caught by the custody: credit is with the validator
of its custody only, and with one custody `endorse` re-weights the stake there is.

`RewardsCovered` is not inductive, because what is due is rounded and the part that is rounded off
can come due later. `FundsHeld` strengthens it in the unit rewards are divided in, `RATE_BASE` for one
token: what a stake is *owed* is what its shares earned before the division, and the *surplus* of a
validator is what is held for its stakers beyond that. Rewards that come in fund what they add
(`Funded`, part of `RowsFollow`): the share is rounded down, and the number of shares is the
validator's quantity by `StakesAddUp` (`SurplusFollows`). A settlement rounds what the stake
earned and the new debt, and so costs less than `RATE_BASE`, and nothing where the
stake counts for what it did (`SurplusSame`). A claim lowers both sides by what it pays, at whatever weight it
settles a credit stake (`ClaimKeepsFunds`). A new validator holds and owes nothing, for which
`NothingElsewhere` says that no stake with an account that is not registered has debts or rewards. So
the surplus never falls below `RATE_BASE - 1` per counted change, and what is due is at
most what is owed (`FundsCover`). The bound holds for rising weights too, which the run leaves out.
TLC found `FundsHeld` invariant on the instance of `staking` before it was proved, and that the
surplus does fall below 0 in `Rounding`: the part of a unit per change is needed.

`StakesCanBeWithdrawn` is about stakes of BTC that are not credit, and of a deposit about the one of the present
stake address. Such a stake is refused to its staker if an unsigned difference would fall below zero:
of the debts, of the sum of the validator, or of the qualification. `StakesComeBack` shows that the
first two cannot (`DebtsCovered`, `AddUp`). The third can, and not only by a call of an administrator: a
validator that calls `evmsetstaker` loses the qualification that delegations brought before XSAT
consensus. The property says so in its hypothesis, and no more can be said: while XSAT consensus is
active a delegation leaves the qualification alone and always comes back, otherwise it does as far as the
qualification goes.

### Induction

The library's induction theorems take an operator as parameter, which the provers
cannot instantiate. `FoldTheorems` states induction with sets instead, from the
well-ordering of the naturals (`LeastElement`): a set of naturals with 0 and with
`n + 1` whenever `n` is all of `Nat` (`SetOfNaturals`), and the same over finite sets
(`SetOfFiniteSets`). Recursive functions are reduced to them: `Iteration` gives the
sequence of values of a step function, `FoldExists` and `SumIsFold` the folds of the
community modules, `SumRemove`, `SumUpdate` and `SumBound` the laws of sums.

### Model-checked only

- Liveness, which is out of the prover's reach: `MigrationsEnd`.

## What the staking and fee runs say

`StakesAddUp` makes the sum a validator's rewards are divided by the number of
shares there are, credit counted at the weight the validator last had; with it
`RewardsCovered` says the balance covers all claims but for less than a unit per
change of a stake, and `DueIsKept` that no call
but its own claim lowers what a staker is due. `StakesCanBeWithdrawn` says that neither the debts nor the
sums keep a stake, only the qualification, which moves apart from the stakes when
XSAT consensus becomes active or the stake address changes. `StakesAreBacked` and `CreditInCustody` relate the rows of
`endrmng.xsat` to the tokens of the staking contracts and the custody.

`FeesAreHeld` is the ledger of the BTC tokens over three contracts. `FeesFollowRewards`
relates the two divisions of a subsidy: the one `rwddist.xsat` paid in batches and
the one `gasfund.xsat` recomputes, row by row, whoever shares one; it is stated for heights with XSAT rewards,
because before them the BTC validators' consensus part is divided by a total that
leaves it out (a hazard of its own). `FeesCanBeShared` says that neither deleted
logs nor deleted records, nor a change of the configuration, leave a height or an
EVM transfer that can never be shared.

## Not modelled

The layers of Merkle trees and the rules of single transactions of
`blksync.xsat`; donations of `poolreg.xsat` and `endrmng.xsat`; heartbeats of
`rescmng.xsat`; the tables of proxies and the whitelist of `endrmng.xsat`; the
maintenance actions of `utxomng.xsat` (`addutxo`, `delblock`, ...), by which its
account may write any row. Token contracts and `external/bitcoin` stay external: of
the former only the refusal of a transfer that is not positive matters, the
latter is data.

## Plan

1. Runs of the composition with `setconheight` and the endorsement interval;
   liveness of forks.
2. What `Careful` leaves out, as runs of their own: `updcreditstk` over native stakes, rising weights.
