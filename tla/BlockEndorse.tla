--------------------------- MODULE BlockEndorse ---------------------------
(***************************************************************************)
(* blkendt.xsat: validators endorse candidate blocks, in a BTC and an XSAT *)
(* table per height, and synchronizers may vote to void the endorsements   *)
(* of a height.  endrmng.xsat::endorse, the inline action that keeps each  *)
(* validator's run of consecutive votes, is part of the endorsement.       *)
(*                                                                         *)
(* The chain state is utxomng.xsat's.  Here it moves by the environment    *)
(* actions of the last section, an over-approximation of that contract.    *)
(***************************************************************************)
EXTENDS ExsatTables

CONSTANTS
  MaxStake,     \* bound on the stake of a validator, in units of the base stake
  Stakers       \* validators whose stake changes

VARIABLES
  validators,         \* endrmng.xsat validators
  revote_record,      \* blkendt.xsat revoterecord, by height
  final_endorsement   \* endorsements in the scopes with the FINAL_MASK bit

endorseVars == <<endorsement, chainTables, synchronizer,
                 config, validators, revote_record, final_endorsement>>

ASSUME EndorseAssumption ==
  /\ MaxStake \in Nat
  /\ Stakers \subseteq Validators

-----------------------------------------------------------------------------
ScopeOf(v) == IF v \in XsatValidators THEN "xsat" ELSE "btc"
OtherScope(s) == IF s = "btc" THEN "xsat" ELSE "btc"

\* The first revote record of the height succeeded.
is_revote(h) == revote_record[h].succeeded

active_vote_count(h) == IF is_revote(h) THEN 0 ELSE config.validator_active_vote_count

\* The filter of the two lists once it applies: the validator is active and,
\* if a number n of votes is asked for, its current run of votes is long enough.
Eligible(v, h, n) ==
  /\ validators[v].active
  /\ n > 0 => /\ h <= validators[v].latest_consensus_block + 1
              /\ validators[v].consecutive_vote_count >= n

get_valid_validator_by_btc_stake(h, n) ==
  {v \in Validators \ XsatValidators :
     /\ validators[v].stake >= config.min_btc_qualification
     /\ is_xsat_consensus_active(h) => Eligible(v, h, n)}

get_valid_validator_by_xsat_stake(h, n) ==
  {v \in XsatValidators :
     /\ validators[v].stake >= config.min_xsat_qualification
     /\ is_xsat_reward_active(h) => Eligible(v, h, n)}

ValidValidators(s, h, n) ==
  IF s = "xsat" THEN get_valid_validator_by_xsat_stake(h, n)
                ELSE get_valid_validator_by_btc_stake(h, n)

\* The list the endorsement of b is counted against: that of the row, or a
\* fresh one when there is no row.
Requested(s, b) ==
  IF RowExists(s, b) THEN Row(s, b).requested_validators
                     ELSE ValidValidators(s, Height[b], active_vote_count(Height[b]))

\* endrmng.xsat::endorse; it aborts unless the height is above the last one
\* counted.
CountVote(v, h) ==
  /\ h > validators[v].latest_consensus_block
  /\ validators' = [validators EXCEPT
       ![v].consecutive_vote_count =
          IF h = validators[v].latest_consensus_block + 1 THEN @ + 1 ELSE 1,
       ![v].latest_consensus_block = h]

CountVoteIfNew(v, h) ==
  IF ~is_revote(h) /\ validators[v].latest_consensus_block < h
    THEN CountVote(v, h)
    ELSE UNCHANGED validators

\* The next endorsement time has been reached: time always passes, so only the
\* existence of a consensus block one height below is a condition.
IntervalReached(h) ==
  config.consensus_interval /\ h - 1 > START_HEIGHT
    => \E b \in consensus_block : Height[b] = h - 1

\* Mutant: the height being migrated is not refused.
MayEndorse_Migrating(h) ==
  /\ config.limit_endorse_height = 0 \/ config.limit_endorse_height >= h
  /\ irreversible_height < h
  /\ config.limit_num_endorsed_blocks = 0
       \/ parsed_height + config.limit_num_endorsed_blocks >= h

\* Checks 1001 to 1003.
MayEndorse(h) ==
  /\ config.limit_endorse_height = 0 \/ config.limit_endorse_height >= h
  /\ irreversible_height < h /\ migrating_height # h
  /\ config.limit_num_endorsed_blocks = 0
       \/ parsed_height + config.limit_num_endorsed_blocks >= h

\* A validator that is not on the list only keeps its run of votes alive.
VotesToReturn(v, b) ==
  LET h == Height[b] IN
  /\ v \notin Requested(ScopeOf(v), b)
  /\ is_xsat_reward_active(h)
  /\ active_vote_count(h) > 0
  /\ h > validators[v].latest_consensus_block

ReturnVote(v, b) ==
  LET h == Height[b] IN
  /\ VotesToReturn(v, b)
  /\ validators[v].active
  /\ head_height >= h
  /\ head_height - h <= active_vote_count(h) - 1
  /\ CountVote(v, h)
  /\ UNCHANGED endorsement

\* The first endorsement of a block fixes the list of validators it needs.
OpenEndorsement(v, b) ==
  LET h == Height[b]
      s == ScopeOf(v)
      list == Requested(s, b) IN
  /\ ~VotesToReturn(v, b)
  /\ ~RowExists(s, b)
  /\ IntervalReached(h)
  /\ is_xsat_consensus_active(h) => validators[v].active
  /\ Cardinality(list) >= config.min_validators
  /\ v \in list
  /\ endorsement' = [endorsement EXCEPT ![s][b] =
       [provider_validators |-> {v}, requested_validators |-> list \ {v}]]
  /\ CountVoteIfNew(v, h)

\* Mutant: the list is taken again at every endorsement.
JoinEndorsement_FreshList(v, b) ==
  LET s == ScopeOf(v)
      providers == Row(s, b).provider_validators \cup {v} IN
  /\ RowExists(s, b)
  /\ v \in Row(s, b).requested_validators
  /\ endorsement' = [endorsement EXCEPT ![s][b] =
       [provider_validators |-> providers,
        requested_validators |->
          ValidValidators(s, Height[b], active_vote_count(Height[b])) \ providers]]
  /\ CountVoteIfNew(v, Height[b])

JoinEndorsement(v, b) ==
  LET s == ScopeOf(v)
      row == Row(s, b) IN
  /\ RowExists(s, b)
  /\ v \in row.requested_validators
  /\ v \notin row.provider_validators
  /\ endorsement' = [endorsement EXCEPT ![s][b] =
       [provider_validators |-> row.provider_validators \cup {v},
        requested_validators |-> row.requested_validators \ {v}]]
  /\ CountVoteIfNew(v, Height[b])

\* The row exists and does not ask for this validator.
LateVote(v, b) ==
  LET s == ScopeOf(v) IN
  /\ ~VotesToReturn(v, b)
  /\ RowExists(s, b)
  /\ v \notin Electorate(Row(s, b))
  /\ CountVote(v, Height[b])
  /\ UNCHANGED endorsement

\* The part of endorse that writes the tables of blkendt and endrmng.  The fee
\* paid to rescmng.xsat is left out.
EndorseTables(v, b) ==
  /\ MayEndorse(Height[b])
  /\ \/ ReturnVote(v, b)
     \/ OpenEndorsement(v, b)
     \/ JoinEndorsement(v, b)
     \/ LateVote(v, b)
  /\ UNCHANGED <<config, revote_record, final_endorsement>>

\* Mutant: the row is looked at as it was before the endorsement.
SendsConsensus_Stale(v, b) ==
  /\ Row(ScopeOf(v), b)' # Row(ScopeOf(v), b)
  /\ reached_consensus(Row(ScopeOf(v), b))
  /\ is_xsat_consensus_active(Height[b]) =>
       reached_consensus(Row(OtherScope(ScopeOf(v)), b))

\* The inline utxomng.xsat::consensus is sent when the row just written
\* reached consensus and, with XSAT consensus on, so did the other scope's.
SendsConsensus(v, b) ==
  /\ Row(ScopeOf(v), b)' # Row(ScopeOf(v), b)
  /\ reached_consensus(Row(ScopeOf(v), b)')
  /\ is_xsat_consensus_active(Height[b]) =>
       reached_consensus(Row(OtherScope(ScopeOf(v)), b))

-----------------------------------------------------------------------------
\* Mutant: half of the active synchronizers are enough.
RequiredVotes_Half ==
  Cardinality({s \in Synchronizers : ActiveSynchronizer(s, head_height)}) \div 2

\* More than half of the active synchronizers.
RequiredVotes ==
  Cardinality({s \in Synchronizers : ActiveSynchronizer(s, head_height)}) \div 2 + 1

\* migrate_endorsements for both scopes of the height.
VoidEndorsements(h) ==
  /\ endorsement' = [s \in Scopes |-> [b \in Blocks |->
       IF Height[b] = h THEN NoRow ELSE endorsement[s][b]]]
  /\ final_endorsement' = [s \in Scopes |-> [b \in Blocks |->
       IF Height[b] = h /\ RowExists(s, b)
         THEN final_endorsement[s][b] \cup {Row(s, b)}
         ELSE final_endorsement[s][b]]]

\* Mutant: the height being migrated is not refused.
RevoteGuards_Migrating(s, h) ==
  /\ irreversible_height < h
  /\ ActiveSynchronizer(s, head_height)

RevoteGuards(s, h) ==
  /\ irreversible_height < h /\ migrating_height # h
  /\ ActiveSynchronizer(s, head_height)

\* No record is pending: a new one is stored and the action returns.
OpenRevote(s, h) ==
  /\ revote_record[h].pending = {}
  /\ revote_record' = [revote_record EXCEPT ![h].pending = {s}]
  /\ UNCHANGED <<endorsement, final_endorsement>>

JoinRevote(s, h) ==
  LET votes == revote_record[h].pending \cup {s} IN
  /\ revote_record[h].pending # {}
  /\ s \notin revote_record[h].pending
  /\ IF Cardinality(votes) >= RequiredVotes
       THEN /\ revote_record' = [revote_record EXCEPT ![h] =
                 [succeeded |-> TRUE, pending |-> {}]]
            /\ VoidEndorsements(h)
       ELSE /\ revote_record' = [revote_record EXCEPT ![h].pending = votes]
            /\ UNCHANGED <<endorsement, final_endorsement>>

Revote(s, h) ==
  /\ RevoteGuards(s, h)
  /\ OpenRevote(s, h) \/ JoinRevote(s, h)
  /\ UNCHANGED <<chainTables, synchronizer, config, validators>>

\* config, setconheight and setqualify, each for the fields it sets.
Configure(c) ==
  /\ \/ config' = [c EXCEPT
          !.xsat_stake_activation_height = config.xsat_stake_activation_height,
          !.xsat_reward_height = config.xsat_reward_height,
          !.min_btc_qualification = config.min_btc_qualification,
          !.min_xsat_qualification = config.min_xsat_qualification]
     \/ /\ c.xsat_reward_height > START_HEIGHT
        /\ c.xsat_stake_activation_height >= c.xsat_reward_height
        /\ config' = [config EXCEPT
             !.xsat_stake_activation_height = c.xsat_stake_activation_height,
             !.xsat_reward_height = c.xsat_reward_height]
     \/ config' = [config EXCEPT
          !.min_btc_qualification = c.min_btc_qualification,
          !.min_xsat_qualification = c.min_xsat_qualification]
  /\ UNCHANGED <<endorsement, chainTables, synchronizer, validators, revote_record,
                 final_endorsement>>

\* A deposit or withdrawal in endrmng.xsat: the total stake changes, and the
\* active flag follows the deposited part, which is at most the total.
StakeChange(v, q, deposit) ==
  /\ deposit <= q
  /\ validators' = [validators EXCEPT
       ![v].stake = q,
       ![v].active = deposit >= IF v \in XsatValidators
                                  THEN config.min_xsat_qualification
                                  ELSE config.min_btc_qualification]
  /\ UNCHANGED <<endorsement, chainTables, synchronizer, config, revote_record,
                 final_endorsement>>

-----------------------------------------------------------------------------
(***************************************************************************)
(* The environment: what utxomng.xsat and poolreg.xsat may do to the       *)
(* tables read above.  Module ExsatConsensus checks that the real actions  *)
(* stay within it.                                                         *)
(***************************************************************************)
\* poolreg.xsat::updateheight: the miner of a block at height h is registered
\* or its latest height raised.
Produced(h) ==
  \/ UNCHANGED synchronizer
  \/ \E s \in Synchronizers :
       /\ ~synchronizer[s].registered \/ synchronizer[s].latest_produced_block_height < h
       /\ \E limit \in ProducedLimits :
            /\ synchronizer[s].registered => limit = synchronizer[s].produced_block_limit
            /\ synchronizer' = [synchronizer EXCEPT ![s] =
                 [registered |-> TRUE, produced_block_limit |-> limit,
                  latest_produced_block_height |-> h]]

\* A migration may be chosen for the height above the irreversible one.
MayChooseMigration(head) ==
  \/ UNCHANGED migrating_height
  \/ /\ migrating_height = 0
     /\ irreversible_height < head
     /\ migrating_height' = irreversible_height + 1

\* utxomng.xsat::consensus on the endorsement table t: it returns early or
\* stores b.
InlineConsensus(t, b) ==
  \/ UNCHANGED <<chainTables, synchronizer>>
  \/ /\ is_endorsement_consensus_reached(t, b)
     /\ b \notin consensus_block
     /\ consensus_block' = consensus_block \cup {b}
     /\ head_height' = MaxOf(head_height, Height[b])
     /\ MayChooseMigration(head_height')
     /\ Produced(Height[b])
     /\ UNCHANGED <<irreversible_height, parsed_height, status>>

Endorse(v, b) ==
  /\ EndorseTables(v, b)
  /\ IF SendsConsensus(v, b) THEN InlineConsensus(endorsement', b)
                             ELSE UNCHANGED <<chainTables, synchronizer>>

\* The same call made by blksync.xsat, once the block is verified.
SyncConsensus(b) ==
  /\ InlineConsensus(endorsement, b)
  /\ UNCHANGED <<endorsement, config, validators, revote_record, final_endorsement>>

\* utxomng.xsat::processblock up to the erasure of the endorsements.
ChainParses ==
  /\ status = "parsing" \/ (status = "waiting" /\ migrating_height = 0)
  /\ status' \in {"parsing", "waiting"}
  /\ parsed_height' \in {parsed_height} \cup {Height[b] : b \in consensus_block}
  /\ MayChooseMigration(head_height)
  /\ UNCHANGED <<endorsement, head_height, irreversible_height, consensus_block, synchronizer,
                 config, validators, revote_record, final_endorsement>>

ChainMigrates ==
  /\ migrating_height # 0
  /\ status \in {"waiting", "migrating"}
  /\ status' \in {"migrating", "deleting_data"}
  /\ UNCHANGED <<endorsement, head_height, irreversible_height, migrating_height, parsed_height,
                 consensus_block, synchronizer, config, validators, revote_record,
                 final_endorsement>>

ChainErases ==
  /\ status = "deleting_data"
  /\ migrating_height # 0
  /\ EraseEndorsements(migrating_height)
  /\ consensus_block' = {b \in consensus_block : Height[b] # migrating_height}
  /\ status' = "distributing_rewards"
  /\ UNCHANGED <<head_height, irreversible_height, migrating_height, parsed_height, synchronizer,
                 config, validators, revote_record, final_endorsement>>

ChainFinalizes ==
  /\ status = "distributing_rewards"
  /\ irreversible_height' = migrating_height
  /\ migrating_height' = 0
  /\ status' = "parsing"
  /\ UNCHANGED <<endorsement, head_height, parsed_height, consensus_block, synchronizer,
                 config, validators, revote_record, final_endorsement>>

\* poolreg.xsat::delpool.
DeletePool(s) ==
  /\ synchronizer[s].registered
  /\ synchronizer' = [synchronizer EXCEPT ![s].registered = FALSE]
  /\ UNCHANGED <<endorsement, chainTables, config, validators, revote_record,
                 final_endorsement>>

-----------------------------------------------------------------------------
EndorseInit ==
  /\ endorsement = [s \in Scopes |-> [b \in Blocks |-> NoRow]]
  /\ final_endorsement = [s \in Scopes |-> [b \in Blocks |-> {}]]
  /\ revote_record = [h \in Heights |-> [succeeded |-> FALSE, pending |-> {}]]
  /\ head_height = START_HEIGHT /\ irreversible_height = START_HEIGHT
  /\ parsed_height = START_HEIGHT /\ migrating_height = 0
  /\ status = "waiting"
  /\ consensus_block = {}
  /\ config \in Configs
  /\ \E limit \in ProducedLimits : synchronizer = [s \in Synchronizers |->
       [registered |-> TRUE, produced_block_limit |-> limit,
        latest_produced_block_height |-> START_HEIGHT]]
  /\ validators = [v \in Validators |->
       [stake |-> MaxStake, active |-> TRUE, latest_consensus_block |-> 0,
        consecutive_vote_count |-> 0]]

EndorseNext ==
  \/ \E v \in Validators, b \in Blocks : Endorse(v, b)
  \/ \E s \in Synchronizers, h \in Heights : Revote(s, h)
  \/ \E c \in Configs : Configure(c)
  \/ \E v \in Stakers, q, deposit \in 0..MaxStake : StakeChange(v, q, deposit)
  \/ \E b \in Blocks : SyncConsensus(b)
  \/ ChainParses
  \/ ChainMigrates
  \/ ChainErases
  \/ ChainFinalizes
  \/ \E s \in Synchronizers : DeletePool(s)

EndorseSpec == EndorseInit /\ [][EndorseNext]_endorseVars

-----------------------------------------------------------------------------
\* Every table holds values of its type.
EndorseTypeOK ==
  /\ TablesTypeOK
  /\ validators \in [Validators -> [stake : Nat, active : BOOLEAN,
                                    latest_consensus_block : 0..MaxHeight,
                                    consecutive_vote_count : Nat]]
  /\ revote_record \in [Heights -> [succeeded : BOOLEAN, pending : SUBSET Synchronizers]]
  /\ final_endorsement \in [Scopes -> [Blocks -> SUBSET Rows]]

\* The two lists of a row are disjoint, and both hold validators of the row's
\* own role.  num_validators() adds the two lengths and every quorum is taken
\* of that sum, so an account in both lists, or one of the other role, would
\* move the threshold.
RowsArePartitions ==
  \A s \in Scopes, b \in Blocks :
    /\ Row(s, b).provider_validators \cap Row(s, b).requested_validators = {}
    /\ Row(s, b).provider_validators = {} => Row(s, b).requested_validators = {}
    /\ \A v \in Electorate(Row(s, b)) : ScopeOf(v) = s

\* Nobody can endorse at or below the irreversible height, and nothing an
\* earlier endorser wrote there outlives the erasure that precedes the move of
\* irreversible_height: endorse, revote, erase and processblock together.
NoEndorsementsBelowIrreversible ==
  \A s \in Scopes, b \in Blocks :
    Height[b] <= irreversible_height => Row(s, b) = NoRow

\* While a height is migrated its endorsements do not change, except that the
\* erasure removes them all: processblock counted the providers when it chose
\* the block and pays them in batches over many later transactions.
MigratingEndorsementsFrozen ==
  [][\A s \in Scopes, b \in Blocks :
       Height[b] = migrating_height /\ migrating_height' = migrating_height =>
         Row(s, b)' \in {Row(s, b), NoRow}]_endorseVars

\* The list a block is voted on is fixed by its first endorsement: whatever
\* happens to stakes, activity, votes and configuration while the row lives,
\* no account enters or leaves it and no endorsement is taken back.
ElectorateFrozen ==
  [][\A s \in Scopes, b \in Blocks :
       RowExists(s, b) /\ RowExists(s, b)' =>
         /\ Electorate(Row(s, b)') = Electorate(Row(s, b))
         /\ Row(s, b).provider_validators \subseteq Row(s, b)'.provider_validators]_endorseVars

\* Two blocks of one height that both reached consensus in a scope, on the same
\* list, share more than a third of the list: a fork needs that many accounts
\* to endorse both blocks (which endorse allows).
ForkNeedsDoubleVotes ==
  \A s \in Scopes, b, c \in Blocks :
    LET P == Row(s, b).provider_validators
        Q == Row(s, c).provider_validators IN
    /\ b # c /\ Height[b] = Height[c]
    /\ Electorate(Row(s, b)) = Electorate(Row(s, c))
    /\ reached_consensus(Row(s, b)) /\ reached_consensus(Row(s, c))
    => 3 * Cardinality(P \cap Q) > Cardinality(Electorate(Row(s, b)))

\* An endorsement leaves a table only when its height is migrated, or into the
\* final table by a revote with more votes on record than half the synchronizers
\* active at the last vote.  Votes of accounts that are not active any more, or
\* were deleted, are on record like others.
EndorsementsLeaveByMajority ==
  [][\A s \in Scopes, b \in Blocks :
       RowExists(s, b) /\ ~RowExists(s, b)' /\ Height[b] # migrating_height =>
         /\ Row(s, b) \in final_endorsement'[s][b]
         /\ \E r \in Synchronizers :
              2 * Cardinality(revote_record[Height[b]].pending \cup {r})
                > Cardinality({t \in Synchronizers : ActiveSynchronizer(t, head_height)})]_endorseVars

\* Once the filter by votes applies, a validator on the list of a block has
\* endorsed each of the n heights before it: its run of consecutive votes, which
\* ends at latest_consensus_block, reaches back that far.  The comment in
\* get_valid_validator_by_btc_stake says so of the height just before; a
\* validator that skipped it and then voted late at this height is listed.
ListedHaveVoted ==
  [][\A s \in Scopes, b \in Blocks :
       LET h == Height[b]
           n == active_vote_count(h) IN
       /\ ~RowExists(s, b) /\ RowExists(s, b)'
       /\ is_xsat_reward_active(h)
       /\ n > 0
       => \A v \in Electorate(Row(s, b)') :
            validators[v].latest_consensus_block - validators[v].consecutive_vote_count
              < h - n]_endorseVars

-----------------------------------------------------------------------------
(***************************************************************************)
(* The inductive invariant.  What makes the safety invariants inductive is *)
(* that a height is migrated directly above the tip, and that from the     *)
(* erasure to the move of the tip no row of it comes back.                 *)
(***************************************************************************)
ChainProgress ==
  /\ irreversible_height <= head_height
  /\ migrating_height # 0 => /\ migrating_height = irreversible_height + 1
                             /\ migrating_height <= head_height
  /\ status = "distributing_rewards" => migrating_height # 0

ErasedWhileRewarding ==
  status = "distributing_rewards" =>
    \A s \in Scopes, b \in Blocks : Height[b] = migrating_height => Row(s, b) = NoRow

\* All of it: the types, the shape of the rows, and where rows may be.
EndorseInv ==
  /\ EndorseTypeOK
  /\ RowsArePartitions
  /\ ChainProgress
  /\ ErasedWhileRewarding
  /\ NoEndorsementsBelowIrreversible
=============================================================================
