---------------------------- MODULE ExsatTables ----------------------------
(***************************************************************************)
(* The on-chain tables that one exSat contract owns and others read.  A    *)
(* transaction of the chain is atomic and its inline actions run inside    *)
(* it, so contracts interact only through these tables and through the     *)
(* inline calls: a component module declares its private tables, and reads *)
(* or writes the ones below.                                               *)
(*                                                                         *)
(* Heights are counted from START_HEIGHT, which is 0 here (839999 in       *)
(* defines.hpp).  A member of Blocks is a pair (height, hash) that a       *)
(* synchronizer may upload or a validator may endorse.                     *)
(***************************************************************************)
EXTENDS Integers, FiniteSets

CONSTANTS
  Blocks,          \* the candidate blocks, (height, hash) pairs
  Height,          \* Height[b]: the height of candidate b
  MaxHeight,       \* bound on the heights explored
  Validators,      \* accounts with a row in endrmng.xsat validators
  XsatValidators,  \* those whose role is 1 (XSAT); the others are BTC validators
  Synchronizers,   \* accounts that may have a row in poolreg.xsat synchronizers
  Configs,         \* the configurations the account of blkendt.xsat may set
  ProducedLimits   \* values of produced_block_limit, 0 for none

START_HEIGHT == 0
Heights == 1..MaxHeight

\* The scopes of the endorsement table for one height: the height itself, and
\* the height or-ed with XSAT_SCOPE_MASK.
Scopes == {"btc", "xsat"}

Statuses == {"waiting", "migrating", "deleting_data", "distributing_rewards", "parsing"}

ConfigType == [limit_endorse_height : Nat, limit_num_endorsed_blocks : Nat,
               min_validators : Nat \ {0}, consensus_interval : BOOLEAN,
               xsat_stake_activation_height : Nat, xsat_reward_height : Nat,
               min_btc_qualification : Nat \ {0}, min_xsat_qualification : Nat \ {0},
               validator_active_vote_count : Nat]

ASSUME TablesAssumption ==
  /\ MaxHeight \in Nat
  /\ Height \in [Blocks -> Heights]
  /\ XsatValidators \subseteq Validators
  /\ IsFiniteSet(Validators)
  /\ IsFiniteSet(Synchronizers)
  /\ Configs \subseteq ConfigType
  /\ ProducedLimits \subseteq Nat

VARIABLES
  config,               \* blkendt.xsat config
  endorsement,          \* blkendt.xsat endorsements, by scope and block
  head_height,          \* utxomng.xsat chainstate fields from here on
  irreversible_height,
  migrating_height,     \* 0 when nothing is migrated
  parsed_height,
  status,
  consensus_block,      \* utxomng.xsat consensusblk: the blocks that have a row
  synchronizer          \* poolreg.xsat synchronizers, by account

chainTables == <<head_height, irreversible_height, migrating_height, parsed_height,
                 status, consensus_block>>

\* config_row::is_xsat_consensus_active and is_xsat_reward_active.
is_xsat_consensus_active(h) == h >= config.xsat_stake_activation_height
is_xsat_reward_active(h) ==
  /\ config.xsat_reward_height > START_HEIGHT
  /\ config.xsat_reward_height <= h

(***************************************************************************)
(* endorsement_row: the validators that endorsed the block and those still *)
(* asked to.  A row is created with its first provider, so the pair of     *)
(* empty sets stands for the absence of the row.                           *)
(***************************************************************************)
Rows == [provider_validators : SUBSET Validators, requested_validators : SUBSET Validators]
NoRow == [provider_validators |-> {}, requested_validators |-> {}]

Row(s, b) == endorsement[s][b]
RowExists(s, b) == Row(s, b).provider_validators # {}
Electorate(row) == row.provider_validators \cup row.requested_validators

\* Mutant: two thirds, without the one above.
num_reached_consensus_TwoThirds(n) == (n * 2) \div 3

\* utils.hpp: more than two thirds.
num_reached_consensus(n) == (n * 2) \div 3 + 1

\* endorsement_row::num_validators() adds the lengths of the two lists.
num_validators(row) == Cardinality(row.provider_validators) + Cardinality(row.requested_validators)

\* endorsement_row::reached_consensus().
reached_consensus(row) ==
  /\ row.provider_validators # {}
  /\ Cardinality(row.provider_validators) >= num_reached_consensus(num_validators(row))

\* utxo_manage::is_endorsement_consensus_reached, on the endorsement table t.
is_endorsement_consensus_reached(t, b) ==
  /\ reached_consensus(t["btc"][b])
  /\ is_xsat_consensus_active(Height[b]) => reached_consensus(t["xsat"][b])

\* Mutant: the XSAT scope is forgotten.
EraseEndorsements_BtcOnly(h) ==
  endorsement' = [endorsement EXCEPT !["btc"] =
    [b \in Blocks |-> IF Height[b] = h THEN NoRow ELSE @[b]]]

\* blkendt.xsat::erase, the inline action of utxomng.xsat: both tables of the
\* height go.
EraseEndorsements(h) ==
  endorsement' = [s \in Scopes |-> [b \in Blocks |->
    IF Height[b] = h THEN NoRow ELSE endorsement[s][b]]]

(***************************************************************************)
(* synchronizer_row: produced_block_limit 0 means no limit.  The code      *)
(* subtracts unsigned heights, so a synchronizer ahead of the head would   *)
(* be inactive.                                                            *)
(***************************************************************************)
ActiveSynchronizer(s, head) ==
  /\ synchronizer[s].registered
  /\ \/ synchronizer[s].produced_block_limit = 0
     \/ /\ head >= synchronizer[s].latest_produced_block_height
        /\ head - synchronizer[s].latest_produced_block_height
             <= synchronizer[s].produced_block_limit

TablesTypeOK ==
  /\ config \in ConfigType
  /\ endorsement \in [Scopes -> [Blocks -> Rows]]
  /\ head_height \in 0..MaxHeight
  /\ irreversible_height \in 0..MaxHeight
  /\ migrating_height \in 0..MaxHeight
  /\ parsed_height \in 0..MaxHeight
  /\ status \in Statuses
  /\ consensus_block \subseteq Blocks
  /\ synchronizer \in [Synchronizers -> [registered : BOOLEAN,
                                         produced_block_limit : Nat,
                                         latest_produced_block_height : 0..MaxHeight]]

\* The table f with the row of key k set to v.
Put(f, k, v) == [x \in DOMAIN f \cup {k} |-> IF x = k THEN v ELSE f[x]]

MaxOf(a, b) == IF a >= b THEN a ELSE b
=============================================================================
