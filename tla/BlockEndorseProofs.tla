------------------------ MODULE BlockEndorseProofs ------------------------
(***************************************************************************)
(* Proofs about BlockEndorse: its type invariant, its safety invariants    *)
(* and its action properties hold for every set of validators, blocks and  *)
(* synchronizers, every configuration and every bound on the heights.      *)
(***************************************************************************)
EXTENDS BlockEndorse, FiniteSetTheorems, TLAPS

-----------------------------------------------------------------------------
\* The initial state is well typed.
LEMMA InitTypeOK == EndorseInit => EndorseTypeOK
<1> SUFFICES ASSUME EndorseInit PROVE EndorseTypeOK
  OBVIOUS
<1> USE TablesAssumption, EndorseAssumption
<1>1. config \in ConfigType
  BY DEF EndorseInit
<1>2. NoRow \in Rows
  BY DEF NoRow, Rows
<1>3. endorsement \in [Scopes -> [Blocks -> Rows]]
  BY <1>2 DEF EndorseInit
<1>4. synchronizer \in [Synchronizers -> [registered : BOOLEAN, produced_block_limit : Nat,
                                          latest_produced_block_height : 0..MaxHeight]]
  BY DEF EndorseInit, START_HEIGHT
<1>5. TablesTypeOK
  BY <1>1, <1>3, <1>4 DEF EndorseInit, TablesTypeOK, START_HEIGHT, Statuses
<1> QED
  BY <1>5 DEF EndorseInit, EndorseTypeOK

-----------------------------------------------------------------------------
(***************************************************************************)
(* Types.  One lemma for each kind of step; USE brings the assumptions on  *)
(* the constants.                                                          *)
(***************************************************************************)
\* What counts a vote keeps the validators table well typed.
LEMMA CountVoteType ==
  ASSUME NEW v \in Validators, NEW h \in Heights, EndorseTypeOK, TablesAssumption,
         CountVote(v, h)
  PROVE  validators' \in [Validators -> [stake : Nat, active : BOOLEAN,
                                         latest_consensus_block : 0..MaxHeight,
                                         consecutive_vote_count : Nat]]
<1>1. h \in 0..MaxHeight
  BY DEF TablesAssumption, Heights
<1> QED
  BY <1>1 DEF CountVote, EndorseTypeOK

LEMMA CountVoteIfNewType ==
  ASSUME NEW v \in Validators, NEW h \in Heights, EndorseTypeOK, TablesAssumption,
         CountVoteIfNew(v, h)
  PROVE  validators' \in [Validators -> [stake : Nat, active : BOOLEAN,
                                         latest_consensus_block : 0..MaxHeight,
                                         consecutive_vote_count : Nat]]
<1>1. CASE CountVote(v, h)
  BY <1>1, CountVoteType
<1>2. CASE UNCHANGED validators
  BY <1>2 DEF EndorseTypeOK
<1> QED
  BY <1>1, <1>2 DEF CountVoteIfNew

\* The list of a block holds validators of the scope only.
LEMMA RequestedType ==
  ASSUME NEW s \in Scopes, NEW b \in Blocks, EndorseTypeOK
  PROVE  Requested(s, b) \subseteq Validators
<1>1. Row(s, b).requested_validators \subseteq Validators
  BY DEF EndorseTypeOK, TablesTypeOK, Row, Rows
<1>2. ValidValidators(s, Height[b], active_vote_count(Height[b])) \subseteq Validators
  BY TablesAssumption DEF ValidValidators, get_valid_validator_by_btc_stake,
     get_valid_validator_by_xsat_stake, TablesAssumption
<1> QED
  BY <1>1, <1>2 DEF Requested

\* An endorsement keeps the two tables it writes well typed.
LEMMA EndorseTablesType ==
  ASSUME NEW v \in Validators, NEW b \in Blocks, EndorseTypeOK, EndorseTables(v, b)
  PROVE  /\ endorsement' \in [Scopes -> [Blocks -> Rows]]
         /\ validators' \in [Validators -> [stake : Nat, active : BOOLEAN,
                                            latest_consensus_block : 0..MaxHeight,
                                            consecutive_vote_count : Nat]]
         /\ UNCHANGED <<config, revote_record, final_endorsement>>
<1> USE TablesAssumption
<1>1. Height[b] \in Heights
  BY DEF TablesAssumption
<1>2. endorsement \in [Scopes -> [Blocks -> Rows]]
  BY DEF EndorseTypeOK, TablesTypeOK
<1>3. ScopeOf(v) \in Scopes
  BY DEF ScopeOf, Scopes
<1>4. CASE ReturnVote(v, b)
  BY <1>1, <1>2, <1>4, CountVoteType DEF ReturnVote, EndorseTables
<1>5. CASE OpenEndorsement(v, b)
  <2>1. [provider_validators |-> {v},
         requested_validators |-> Requested(ScopeOf(v), b) \ {v}] \in Rows
    BY <1>3, RequestedType DEF Rows
  <2>2. endorsement' \in [Scopes -> [Blocks -> Rows]]
    BY <1>2, <1>3, <1>5, <2>1 DEF OpenEndorsement
  <2> QED
    BY <1>1, <1>5, <2>2, CountVoteIfNewType DEF OpenEndorsement, EndorseTables
<1>6. CASE JoinEndorsement(v, b)
  <2> DEFINE row == Row(ScopeOf(v), b)
  <2>1. [provider_validators |-> row.provider_validators \cup {v},
         requested_validators |-> row.requested_validators \ {v}] \in Rows
    BY <1>2, <1>3 DEF Row, Rows
  <2>2. endorsement' \in [Scopes -> [Blocks -> Rows]]
    BY <1>2, <1>3, <1>6, <2>1 DEF JoinEndorsement, Row
  <2> QED
    BY <1>1, <1>6, <2>2, CountVoteIfNewType DEF JoinEndorsement, EndorseTables
<1>7. CASE LateVote(v, b)
  BY <1>1, <1>2, <1>7, CountVoteType DEF LateVote, EndorseTables
<1> QED
  BY <1>4, <1>5, <1>6, <1>7 DEF EndorseTables

SynchronizerRows == [Synchronizers -> [registered : BOOLEAN, produced_block_limit : Nat,
                                       latest_produced_block_height : 0..MaxHeight]]

LEMMA ProducedType ==
  ASSUME NEW h \in Heights, EndorseTypeOK, Produced(h)
  PROVE  synchronizer' \in SynchronizerRows
<1> USE TablesAssumption DEF TablesAssumption, SynchronizerRows
<1>1. synchronizer \in SynchronizerRows
  BY DEF EndorseTypeOK, TablesTypeOK
<1>2. ASSUME NEW s \in Synchronizers, NEW limit \in ProducedLimits,
             synchronizer' = [synchronizer EXCEPT ![s] =
                 [registered |-> TRUE, produced_block_limit |-> limit,
                  latest_produced_block_height |-> h]]
      PROVE  synchronizer' \in SynchronizerRows
  <2>1. [registered |-> TRUE, produced_block_limit |-> limit, latest_produced_block_height |-> h]
          \in [registered : BOOLEAN, produced_block_limit : Nat,
               latest_produced_block_height : 0..MaxHeight]
    BY DEF Heights
  <2> QED
    BY <1>1, <1>2, <2>1
<1> QED
  BY <1>1, <1>2 DEF Produced

\* A chosen migration is one above the tip and at most at the head.
LEMMA MigrationType ==
  ASSUME NEW head \in 0..MaxHeight, EndorseTypeOK, MayChooseMigration(head)
  PROVE  migrating_height' \in 0..MaxHeight
BY TablesAssumption DEF TablesAssumption, MayChooseMigration, EndorseTypeOK, TablesTypeOK

LEMMA InlineConsensusType ==
  ASSUME NEW t, NEW b \in Blocks, EndorseTypeOK, InlineConsensus(t, b)
  PROVE  /\ head_height' \in 0..MaxHeight
         /\ irreversible_height' \in 0..MaxHeight
         /\ migrating_height' \in 0..MaxHeight
         /\ parsed_height' \in 0..MaxHeight
         /\ status' \in Statuses
         /\ consensus_block' \subseteq Blocks
         /\ synchronizer' \in SynchronizerRows
<1> USE TablesAssumption DEF TablesAssumption
<1>1. CASE UNCHANGED <<chainTables, synchronizer>>
  BY <1>1 DEF chainTables, EndorseTypeOK, TablesTypeOK, SynchronizerRows
<1>2. CASE ~UNCHANGED <<chainTables, synchronizer>>
  <2>1. head_height' \in 0..MaxHeight
    BY <1>2 DEF InlineConsensus, MaxOf, EndorseTypeOK, TablesTypeOK, Heights
  <2>2. /\ migrating_height' \in 0..MaxHeight
        /\ synchronizer' \in SynchronizerRows
    BY <1>2, <2>1, MigrationType, ProducedType DEF InlineConsensus
  <2> QED
    BY <1>2, <2>1, <2>2 DEF InlineConsensus, EndorseTypeOK, TablesTypeOK
<1> QED
  BY <1>1, <1>2

\* The chain state has its types after every step of the environment.
LEMMA ChainStepType ==
  ASSUME EndorseTypeOK,
         ChainParses \/ ChainMigrates \/ ChainErases \/ ChainFinalizes
  PROVE  EndorseTypeOK'
<1> USE TablesAssumption DEF TablesAssumption, EndorseTypeOK, TablesTypeOK, Statuses
<1>1. CASE ChainParses
  <2>1. parsed_height' \in 0..MaxHeight
    BY <1>1 DEF ChainParses, Heights
  <2>2. migrating_height' \in 0..MaxHeight
    BY <1>1, MigrationType DEF ChainParses
  <2> QED
    BY <1>1, <2>1, <2>2 DEF ChainParses
<1>2. CASE ChainMigrates
  BY <1>2 DEF ChainMigrates
<1>3. CASE ChainErases
  <2>1. NoRow \in Rows
    BY DEF NoRow, Rows
  <2>2. endorsement' \in [Scopes -> [Blocks -> Rows]]
    BY <1>3, <2>1 DEF ChainErases, EraseEndorsements
  <2> QED
    BY <1>3, <2>2 DEF ChainErases
<1>4. CASE ChainFinalizes
  BY <1>4 DEF ChainFinalizes
<1> QED
  BY <1>1, <1>2, <1>3, <1>4

LEMMA RevoteType ==
  ASSUME NEW s \in Synchronizers, NEW h \in Heights, EndorseTypeOK, Revote(s, h)
  PROVE  EndorseTypeOK'
<1> DEFINE Records == [Heights -> [succeeded : BOOLEAN, pending : SUBSET Synchronizers]]
<1>1. revote_record \in Records
  BY DEF EndorseTypeOK
<1>2. CASE OpenRevote(s, h)
  <2>1. revote_record' \in Records
    BY <1>1, <1>2 DEF OpenRevote
  <2> QED
    BY <1>2, <2>1 DEF OpenRevote, Revote, chainTables, EndorseTypeOK, TablesTypeOK
<1>3. CASE JoinRevote(s, h)
  <2> DEFINE votes == revote_record[h].pending \cup {s}
  <2>1. CASE Cardinality(votes) >= RequiredVotes
    <3>1. NoRow \in Rows
      BY DEF NoRow, Rows
    <3>2. endorsement' \in [Scopes -> [Blocks -> Rows]]
      BY <1>3, <2>1, <3>1 DEF JoinRevote, VoidEndorsements, EndorseTypeOK, TablesTypeOK
    <3>3. final_endorsement' \in [Scopes -> [Blocks -> SUBSET Rows]]
      BY <1>3, <2>1 DEF JoinRevote, VoidEndorsements, EndorseTypeOK, TablesTypeOK, Row
    <3>4. revote_record' = [revote_record EXCEPT ![h] = [succeeded |-> TRUE, pending |-> {}]]
      BY <1>3, <2>1 DEF JoinRevote
    <3>5. [succeeded |-> TRUE, pending |-> {}] \in [succeeded : BOOLEAN, pending : SUBSET Synchronizers]
      OBVIOUS
    <3>6. revote_record' \in Records
      BY <1>1, <3>4, <3>5
    <3> QED
      BY <3>2, <3>3, <3>6 DEF Revote, chainTables, EndorseTypeOK, TablesTypeOK
  <2>2. CASE ~(Cardinality(votes) >= RequiredVotes)
    <3>1. revote_record' \in Records
      BY <1>1, <1>3, <2>2 DEF JoinRevote
    <3> QED
      BY <1>3, <2>2, <3>1 DEF JoinRevote, Revote, chainTables, EndorseTypeOK, TablesTypeOK
  <2> QED
    BY <2>1, <2>2
<1> QED
  BY <1>2, <1>3 DEF Revote

LEMMA ConfigureType ==
  ASSUME NEW c \in Configs, EndorseTypeOK, Configure(c)
  PROVE  EndorseTypeOK'
<1>1. c \in ConfigType /\ config \in ConfigType
  BY TablesAssumption DEF TablesAssumption, EndorseTypeOK, TablesTypeOK
<1>2. config' \in ConfigType
  BY <1>1 DEF Configure, ConfigType
<1> QED
  BY <1>2 DEF Configure, chainTables, EndorseTypeOK, TablesTypeOK

LEMMA StakeChangeType ==
  ASSUME NEW v \in Validators, NEW q \in 0..MaxStake, NEW deposit \in 0..MaxStake,
         EndorseTypeOK, StakeChange(v, q, deposit)
  PROVE  EndorseTypeOK'
<1>1. PICK flag \in BOOLEAN :
        validators' = [validators EXCEPT ![v].stake = q, ![v].active = flag]
  <2> DEFINE active == deposit >= IF v \in XsatValidators THEN config.min_xsat_qualification
                                                          ELSE config.min_btc_qualification
  <2>1. validators' = [validators EXCEPT ![v].stake = q, ![v].active = active]
    BY DEF StakeChange
  <2>2. config.min_xsat_qualification \in Nat /\ config.min_btc_qualification \in Nat
    BY DEF EndorseTypeOK, TablesTypeOK, ConfigType
  <2>3. active \in BOOLEAN
    BY <2>2, EndorseAssumption, SMT DEF EndorseAssumption
  <2> QED
    BY <2>1, <2>3, Zenon
<1>2. validators' \in [Validators -> [stake : Nat, active : BOOLEAN,
                                      latest_consensus_block : 0..MaxHeight,
                                      consecutive_vote_count : Nat]]
  <2>1. q \in Nat
    BY EndorseAssumption DEF EndorseAssumption
  <2> QED
    BY <1>1, <2>1 DEF EndorseTypeOK
<1> QED
  BY <1>2 DEF StakeChange, chainTables, EndorseTypeOK, TablesTypeOK

LEMMA DeletePoolType ==
  ASSUME NEW s \in Synchronizers, EndorseTypeOK, DeletePool(s)
  PROVE  EndorseTypeOK'
BY DEF DeletePool, chainTables, EndorseTypeOK, TablesTypeOK

\* Every step keeps the types.
LEMMA StepTypeOK ==
  ASSUME EndorseTypeOK, EndorseNext
  PROVE  EndorseTypeOK'
<1>1. ASSUME NEW v \in Validators, NEW b \in Blocks, Endorse(v, b)
      PROVE  EndorseTypeOK'
  <2>1. EndorseTables(v, b)
    BY <1>1 DEF Endorse
  <2>2. CASE SendsConsensus(v, b)
    <3>1. InlineConsensus(endorsement', b)
      BY <1>1, <2>2 DEF Endorse
    <3> QED
      BY <2>1, <3>1, EndorseTablesType, InlineConsensusType
      DEF EndorseTypeOK, TablesTypeOK, SynchronizerRows
  <2>3. CASE ~SendsConsensus(v, b)
    BY <1>1, <2>1, <2>3, EndorseTablesType DEF Endorse, chainTables, EndorseTypeOK, TablesTypeOK
  <2> QED
    BY <2>2, <2>3
<1>2. ASSUME NEW b \in Blocks, SyncConsensus(b)
      PROVE  EndorseTypeOK'
  <2>1. InlineConsensus(endorsement, b)
    BY <1>2 DEF SyncConsensus
  <2> QED
    BY <1>2, <2>1, InlineConsensusType
    DEF SyncConsensus, EndorseTypeOK, TablesTypeOK, SynchronizerRows
<1>3. ASSUME NEW v \in Stakers, NEW q \in 0..MaxStake, NEW deposit \in 0..MaxStake,
             StakeChange(v, q, deposit)
      PROVE  EndorseTypeOK'
  BY <1>3, EndorseAssumption, StakeChangeType DEF EndorseAssumption
<1> QED
  BY <1>1, <1>2, <1>3, RevoteType, ConfigureType, ChainStepType, DeletePoolType DEF EndorseNext

\* Every table of the two contracts holds values of its type in every
\* reachable state.
THEOREM TypesAreCorrect == EndorseSpec => []EndorseTypeOK
<1>1. EndorseInit => EndorseTypeOK
  BY InitTypeOK
<1>2. EndorseTypeOK /\ [EndorseNext]_endorseVars => EndorseTypeOK'
  <2>1. ASSUME EndorseTypeOK, UNCHANGED endorseVars PROVE EndorseTypeOK'
    BY <2>1 DEF endorseVars, chainTables, EndorseTypeOK, TablesTypeOK
  <2> QED
    BY <2>1, StepTypeOK
<1> QED
  BY <1>1, <1>2, PTL DEF EndorseSpec

-----------------------------------------------------------------------------
(***************************************************************************)
(* What a step may do to the rows and to the chain state.                  *)
(***************************************************************************)
ScopeValidators(s) == {v \in Validators : ScopeOf(v) = s}

Opened(s, b, v) ==
  /\ ~RowExists(s, b)
  /\ \E list \in SUBSET ScopeValidators(s) :
       Row(s, b)' = [provider_validators |-> {v}, requested_validators |-> list \ {v}]

Joined(s, b, v) ==
  /\ RowExists(s, b)
  /\ v \in Row(s, b).requested_validators
  /\ Row(s, b)' = [provider_validators |-> Row(s, b).provider_validators \cup {v},
                   requested_validators |-> Row(s, b).requested_validators \ {v}]

\* The row goes to the final table, and more than half as many synchronizers
\* as are active asked for it.
VoidedByMajority(s, b) ==
  /\ RowExists(s, b) => Row(s, b) \in final_endorsement'[s][b]
  /\ \E r \in Synchronizers :
       2 * Cardinality(revote_record[Height[b]].pending \cup {r})
         > Cardinality({t \in Synchronizers : ActiveSynchronizer(t, head_height)})

\* A row stays, goes with its height or by a revote, or is opened or joined by
\* one validator of its role.
RowChange(s, b) ==
  \/ Row(s, b)' = Row(s, b)
  \/ Row(s, b)' = NoRow /\ (Height[b] = migrating_height \/ VoidedByMajority(s, b))
  \/ /\ MayEndorse(Height[b])
     /\ \E v \in ScopeValidators(s) : Opened(s, b, v) \/ Joined(s, b, v)

RowChanges == \A s \in Scopes, b \in Blocks : RowChange(s, b)

\* The chain state moves at most by the head and the choice of a migration.
ChainLeft ==
  /\ UNCHANGED <<irreversible_height, status>>
  /\ head_height <= head_height'
  /\ MayChooseMigration(head_height')

LEMMA InlineConsensusLeavesChain ==
  ASSUME NEW t, NEW b \in Blocks, EndorseTypeOK, InlineConsensus(t, b)
  PROVE  ChainLeft
<1>1. head_height \in Nat /\ Height[b] \in Nat
  BY TablesAssumption DEF TablesAssumption, Heights, EndorseTypeOK, TablesTypeOK
<1> QED
  BY <1>1 DEF InlineConsensus, ChainLeft, MayChooseMigration, chainTables, MaxOf

LEMMA UnchangedChainLeft ==
  ASSUME EndorseTypeOK, UNCHANGED chainTables
  PROVE  ChainLeft
BY DEF ChainLeft, MayChooseMigration, chainTables, EndorseTypeOK, TablesTypeOK

LEMMA UnchangedRows ==
  ASSUME UNCHANGED endorsement
  PROVE  RowChanges
BY DEF RowChanges, RowChange, Row

LEMMA ListsHaveOneRole ==
  ASSUME NEW s \in Scopes, NEW h, NEW n
  PROVE  ValidValidators(s, h, n) \subseteq ScopeValidators(s)
<1>1. CASE s = "xsat"
  <2>1. get_valid_validator_by_xsat_stake(h, n) \subseteq XsatValidators
    BY DEF get_valid_validator_by_xsat_stake
  <2> QED
    BY <1>1, <2>1, TablesAssumption DEF TablesAssumption, ValidValidators, ScopeValidators, ScopeOf
<1>2. CASE s = "btc"
  <2>1. get_valid_validator_by_btc_stake(h, n) \subseteq Validators \ XsatValidators
    BY DEF get_valid_validator_by_btc_stake
  <2> QED
    BY <1>2, <2>1 DEF ValidValidators, ScopeValidators, ScopeOf
<1> QED
  BY <1>1, <1>2 DEF Scopes

LEMMA EndorseStep ==
  ASSUME NEW v \in Validators, NEW b \in Blocks, EndorseTypeOK, Endorse(v, b)
  PROVE  RowChanges /\ ChainLeft
<1> DEFINE scope == ScopeOf(v)
<1>1. EndorseTables(v, b)
  BY DEF Endorse
<1>2. scope \in Scopes /\ v \in ScopeValidators(scope)
  BY DEF ScopeOf, Scopes, ScopeValidators
<1>3. ASSUME NEW row, endorsement' = [endorsement EXCEPT ![scope][b] = row],
             MayEndorse(Height[b]),
             Row(scope, b)' = row => Opened(scope, b, v) \/ Joined(scope, b, v)
      PROVE  RowChanges
  <2>1. endorsement \in [Scopes -> [Blocks -> Rows]]
    BY DEF EndorseTypeOK, TablesTypeOK
  <2> SUFFICES ASSUME NEW s \in Scopes, NEW c \in Blocks PROVE RowChange(s, c)
    BY DEF RowChanges
  <2>2. CASE s = scope /\ c = b
    <3>1. Row(scope, b)' = row
      BY <1>2, <1>3, <2>1 DEF Row
    <3> QED
      BY <1>2, <1>3, <2>2, <3>1 DEF RowChange
  <2>3. CASE ~(s = scope /\ c = b)
    <3>1. Row(s, c)' = Row(s, c)
      BY <1>2, <1>3, <2>1, <2>3 DEF Row
    <3> QED
      BY <3>1 DEF RowChange
  <2> QED
    BY <2>2, <2>3
<1>4. RowChanges
  <2>1. MayEndorse(Height[b])
    BY <1>1 DEF EndorseTables
  <2>2. CASE ReturnVote(v, b) \/ LateVote(v, b)
    BY <2>2, UnchangedRows DEF ReturnVote, LateVote
  <2>3. CASE OpenEndorsement(v, b)
    <3> DEFINE list == Requested(scope, b)
               row == [provider_validators |-> {v}, requested_validators |-> list \ {v}]
    <3>1. /\ ~RowExists(scope, b)
          /\ endorsement' = [endorsement EXCEPT ![scope][b] = row]
      BY <2>3 DEF OpenEndorsement
    <3>2. list \in SUBSET ScopeValidators(scope)
      BY <1>2, <3>1, ListsHaveOneRole DEF Requested
    <3>3. Row(scope, b)' = row => Opened(scope, b, v)
      BY <3>1, <3>2 DEF Opened
    <3> QED
      BY <1>3, <2>1, <3>1, <3>3
  <2>4. CASE JoinEndorsement(v, b)
    <3> DEFINE old == Row(scope, b)
               row == [provider_validators |-> old.provider_validators \cup {v},
                       requested_validators |-> old.requested_validators \ {v}]
    <3>1. /\ RowExists(scope, b)
          /\ v \in old.requested_validators
      BY <2>4 DEF JoinEndorsement
    <3>2. endorsement' = [endorsement EXCEPT ![scope][b] = row]
      BY <2>4 DEF JoinEndorsement
    <3>3. Row(scope, b)' = row => Joined(scope, b, v)
      BY <3>1 DEF Joined
    <3> QED
      BY <1>3, <2>1, <3>2, <3>3
  <2> QED
    BY <1>1, <2>2, <2>3, <2>4 DEF EndorseTables
<1>5. ChainLeft
  <2>1. CASE SendsConsensus(v, b)
    BY <2>1, InlineConsensusLeavesChain DEF Endorse
  <2>2. CASE ~SendsConsensus(v, b)
    BY <2>2, UnchangedChainLeft DEF Endorse
  <2> QED
    BY <2>1, <2>2
<1> QED
  BY <1>4, <1>5

LEMMA ErasedRows ==
  ASSUME ChainErases
  PROVE  RowChanges
BY DEF ChainErases, EraseEndorsements, RowChanges, RowChange, Row

\* The votes that complete a revote are more than half of the active
\* synchronizers.
LEMMA RequiredVotesIsMajority ==
  ASSUME NEW votes \in SUBSET Synchronizers, Cardinality(votes) >= RequiredVotes
  PROVE  2 * Cardinality(votes)
           > Cardinality({t \in Synchronizers : ActiveSynchronizer(t, head_height)})
<1> DEFINE A == {t \in Synchronizers : ActiveSynchronizer(t, head_height)}
<1>1. A \subseteq Synchronizers
  OBVIOUS
<1>2. IsFiniteSet(A) /\ IsFiniteSet(votes)
  BY <1>1, TablesAssumption, FS_Subset DEF TablesAssumption
<1>3. Cardinality(A) \in Nat /\ Cardinality(votes) \in Nat
  BY <1>2, FS_CardinalityType
<1>4. RequiredVotes = Cardinality(A) \div 2 + 1
  BY DEF RequiredVotes
<1> HIDE DEF A
<1>5. 2 * Cardinality(votes) > Cardinality(A)
  BY <1>3, <1>4
<1> QED
  BY <1>5 DEF A

LEMMA RevoteStep ==
  ASSUME NEW s \in Synchronizers, NEW h \in Heights, EndorseTypeOK, Revote(s, h)
  PROVE  RowChanges /\ ChainLeft
<1> DEFINE votes == revote_record[h].pending \cup {s}
<1>1. ChainLeft
  BY UnchangedChainLeft DEF Revote
<1>2. (VoidEndorsements(h) /\ Cardinality(votes) >= RequiredVotes) \/ UNCHANGED endorsement
  BY DEF Revote, OpenRevote, JoinRevote
<1>3. CASE VoidEndorsements(h) /\ Cardinality(votes) >= RequiredVotes
  <2>1. votes \in SUBSET Synchronizers
    BY DEF EndorseTypeOK
  <2>2. 2 * Cardinality(votes)
          > Cardinality({t \in Synchronizers : ActiveSynchronizer(t, head_height)})
    BY <1>3, <2>1, RequiredVotesIsMajority
  <2> SUFFICES ASSUME NEW scope \in Scopes, NEW b \in Blocks PROVE RowChange(scope, b)
    BY <1>1 DEF RowChanges
  <2>3. CASE Height[b] = h
    <3>1. Row(scope, b)' = NoRow
      BY <1>3, <2>3 DEF VoidEndorsements, Row
    <3>2. RowExists(scope, b) => Row(scope, b) \in final_endorsement'[scope][b]
      BY <1>3, <2>3 DEF VoidEndorsements
    <3>3. VoidedByMajority(scope, b)
      BY <2>2, <2>3, <3>2 DEF VoidedByMajority
    <3> QED
      BY <3>1, <3>3 DEF RowChange
  <2>4. CASE Height[b] # h
    <3>1. Row(scope, b)' = Row(scope, b)
      BY <1>3, <2>4 DEF VoidEndorsements, Row
    <3> QED
      BY <3>1 DEF RowChange
  <2> QED
    BY <2>3, <2>4
<1> QED
  BY <1>1, <1>2, <1>3, UnchangedRows

\* A step of a validator, a synchronizer, an administrator or a staker.
AccountStep == RowChanges /\ ChainLeft

LEMMA StepShape ==
  ASSUME EndorseTypeOK, EndorseNext
  PROVE  /\ RowChanges
         /\ \/ AccountStep
            \/ (ChainParses \/ ChainMigrates) /\ UNCHANGED endorsement
            \/ ChainErases
            \/ ChainFinalizes /\ UNCHANGED endorsement
<1>1. ASSUME NEW v \in Validators, NEW b \in Blocks, Endorse(v, b) PROVE AccountStep
  BY <1>1, EndorseStep DEF AccountStep
<1>2. ASSUME NEW s \in Synchronizers, NEW h \in Heights, Revote(s, h) PROVE AccountStep
  BY <1>2, RevoteStep DEF AccountStep
<1>3. ASSUME NEW c \in Configs, Configure(c) PROVE AccountStep
  BY <1>3, UnchangedRows, UnchangedChainLeft DEF Configure, AccountStep
<1>4. ASSUME NEW v \in Stakers, NEW q \in 0..MaxStake, NEW deposit \in 0..MaxStake,
             StakeChange(v, q, deposit)
      PROVE  AccountStep
  BY <1>4, UnchangedRows, UnchangedChainLeft DEF StakeChange, AccountStep
<1>5. ASSUME NEW b \in Blocks, SyncConsensus(b) PROVE AccountStep
  BY <1>5, UnchangedRows, InlineConsensusLeavesChain DEF SyncConsensus, AccountStep
<1>6. ASSUME NEW s \in Synchronizers, DeletePool(s) PROVE AccountStep
  BY <1>6, UnchangedRows, UnchangedChainLeft DEF DeletePool, AccountStep
<1>7. CASE ChainParses \/ ChainMigrates
  BY <1>7, UnchangedRows DEF ChainParses, ChainMigrates
<1>8. CASE ChainErases
  BY <1>8, ErasedRows
<1>9. CASE ChainFinalizes
  BY <1>9, UnchangedRows DEF ChainFinalizes
<1> QED
  BY <1>1, <1>2, <1>3, <1>4, <1>5, <1>6, <1>7, <1>8, <1>9 DEF EndorseNext, AccountStep

-----------------------------------------------------------------------------
(***************************************************************************)
(* The inductive invariant.                                                *)
(***************************************************************************)
LEMMA InitInv == EndorseInit => EndorseInv
<1> SUFFICES ASSUME EndorseInit PROVE EndorseInv
  OBVIOUS
<1>1. EndorseTypeOK
  BY InitTypeOK
<1>2. \A s \in Scopes, b \in Blocks : Row(s, b) = NoRow
  BY DEF EndorseInit, Row
<1>3. RowsArePartitions
  BY <1>2 DEF RowsArePartitions, Electorate, NoRow
<1>4. ChainProgress /\ ErasedWhileRewarding
  BY DEF EndorseInit, ChainProgress, ErasedWhileRewarding, START_HEIGHT
<1>5. NoEndorsementsBelowIrreversible
  BY <1>2 DEF NoEndorsementsBelowIrreversible
<1> QED
  BY <1>1, <1>3, <1>4, <1>5 DEF EndorseInv

\* Row changes keep the lists disjoint and of one role.
LEMMA RowChangesKeepPartitions ==
  ASSUME RowsArePartitions, RowChanges
  PROVE  RowsArePartitions'
<1> SUFFICES ASSUME NEW s \in Scopes, NEW b \in Blocks
             PROVE  LET row == Row(s, b)' IN
                    /\ row.provider_validators \cap row.requested_validators = {}
                    /\ row.provider_validators = {} => row.requested_validators = {}
                    /\ \A v \in Electorate(row) : ScopeOf(v) = s
  BY DEF RowsArePartitions, Electorate
<1>1. /\ Row(s, b).provider_validators \cap Row(s, b).requested_validators = {}
      /\ Row(s, b).provider_validators = {} => Row(s, b).requested_validators = {}
      /\ \A v \in Electorate(Row(s, b)) : ScopeOf(v) = s
  BY DEF RowsArePartitions
<1>2. CASE Row(s, b)' = Row(s, b)
  BY <1>1, <1>2
<1>3. CASE Row(s, b)' = NoRow
  BY <1>3 DEF NoRow, Electorate
<1>4. ASSUME NEW v \in ScopeValidators(s), Opened(s, b, v)
      PROVE  /\ Row(s, b)'.provider_validators \cap Row(s, b)'.requested_validators = {}
             /\ Row(s, b)'.provider_validators = {} => Row(s, b)'.requested_validators = {}
             /\ \A u \in Electorate(Row(s, b)') : ScopeOf(u) = s
  <2>1. PICK list \in SUBSET ScopeValidators(s) :
          Row(s, b)' = [provider_validators |-> {v}, requested_validators |-> list \ {v}]
    BY <1>4 DEF Opened
  <2>2. Electorate(Row(s, b)') \subseteq ScopeValidators(s)
    BY <2>1 DEF Electorate
  <2> QED
    BY <2>1, <2>2 DEF ScopeValidators
<1>5. ASSUME NEW v \in ScopeValidators(s), Joined(s, b, v)
      PROVE  /\ Row(s, b)'.provider_validators \cap Row(s, b)'.requested_validators = {}
             /\ Row(s, b)'.provider_validators = {} => Row(s, b)'.requested_validators = {}
             /\ \A u \in Electorate(Row(s, b)') : ScopeOf(u) = s
  <2>1. Electorate(Row(s, b)') = Electorate(Row(s, b))
    BY <1>5 DEF Joined, Electorate
  <2> QED
    BY <1>1, <1>5, <2>1 DEF Joined
<1> QED
  BY <1>2, <1>3, <1>4, <1>5 DEF RowChanges, RowChange

\* The three conjuncts about the height that is migrated depend on each other:
\* an account's step adds no row to it, the erasure empties it, and only then
\* does the tip move.
LEMMA AccountStepKeepsHeights ==
  ASSUME EndorseInv, EndorseTypeOK', AccountStep
  PROVE  ChainProgress' /\ ErasedWhileRewarding' /\ NoEndorsementsBelowIrreversible'
<1> USE DEF EndorseInv
<1>1. /\ irreversible_height \in Nat /\ head_height \in Nat /\ head_height' \in Nat
      /\ migrating_height \in Nat
      /\ \A b \in Blocks : Height[b] \in Nat
  BY TablesAssumption DEF TablesAssumption, Heights, EndorseTypeOK, TablesTypeOK
<1>2. ChainProgress'
  BY <1>1 DEF AccountStep, ChainLeft, MayChooseMigration, ChainProgress
<1>3. ASSUME NEW s \in Scopes, NEW b \in Blocks,
             Height[b] <= irreversible_height \/ Height[b] = migrating_height
      PROVE  Row(s, b)' \in {Row(s, b), NoRow}
  <2>1. ~MayEndorse(Height[b])
    BY <1>1, <1>3 DEF MayEndorse
  <2> QED
    BY <2>1 DEF AccountStep, RowChanges, RowChange
<1>4. ErasedWhileRewarding'
  <2> SUFFICES ASSUME status' = "distributing_rewards",
                      NEW s \in Scopes, NEW b \in Blocks, Height[b] = migrating_height'
               PROVE  Row(s, b)' = NoRow
    BY DEF ErasedWhileRewarding, Row
  <2>1. status = "distributing_rewards" /\ migrating_height' = migrating_height
    BY DEF AccountStep, ChainLeft, MayChooseMigration, ChainProgress
  <2>2. Row(s, b) = NoRow
    BY <2>1 DEF ErasedWhileRewarding
  <2> QED
    BY <1>3, <2>1, <2>2
<1>5. NoEndorsementsBelowIrreversible'
  <2> SUFFICES ASSUME NEW s \in Scopes, NEW b \in Blocks, Height[b] <= irreversible_height'
               PROVE  Row(s, b)' = NoRow
    BY DEF NoEndorsementsBelowIrreversible, Row
  <2>1. Height[b] <= irreversible_height
    BY DEF AccountStep, ChainLeft
  <2> QED
    BY <1>3, <2>1 DEF NoEndorsementsBelowIrreversible
<1> QED
  BY <1>2, <1>4, <1>5

LEMMA ChainStepKeepsHeights ==
  ASSUME EndorseInv, EndorseTypeOK',
         \/ (ChainParses \/ ChainMigrates) /\ UNCHANGED endorsement
         \/ ChainErases
         \/ ChainFinalizes /\ UNCHANGED endorsement
  PROVE  ChainProgress' /\ ErasedWhileRewarding' /\ NoEndorsementsBelowIrreversible'
<1> USE DEF EndorseInv
<1>1. /\ irreversible_height \in Nat /\ head_height \in Nat /\ migrating_height \in Nat
      /\ \A b \in Blocks : Height[b] \in Nat
  BY TablesAssumption DEF TablesAssumption, Heights, EndorseTypeOK, TablesTypeOK
<1>2. CASE (ChainParses \/ ChainMigrates) /\ UNCHANGED endorsement
  <2>1. status' # "distributing_rewards" /\ UNCHANGED <<irreversible_height, head_height>>
    BY <1>2 DEF ChainParses, ChainMigrates
  <2>2. ChainProgress'
    BY <1>1, <1>2, <2>1 DEF ChainParses, ChainMigrates, MayChooseMigration, ChainProgress
  <2>3. ErasedWhileRewarding'
    BY <2>1 DEF ErasedWhileRewarding
  <2>4. NoEndorsementsBelowIrreversible'
    BY <1>2, <2>1 DEF NoEndorsementsBelowIrreversible, Row
  <2> QED
    BY <2>2, <2>3, <2>4
<1>3. CASE ChainErases
  <2>1. ChainProgress'
    BY <1>3 DEF ChainErases, ChainProgress
  <2>2. ErasedWhileRewarding'
    BY <1>3 DEF ChainErases, EraseEndorsements, ErasedWhileRewarding, Row
  <2>3. \A s \in Scopes, b \in Blocks : Row(s, b)' \in {Row(s, b), NoRow}
    BY <1>3 DEF ChainErases, EraseEndorsements, Row
  <2>4. NoEndorsementsBelowIrreversible'
    BY <1>3, <2>3 DEF ChainErases, NoEndorsementsBelowIrreversible
  <2> QED
    BY <2>1, <2>2, <2>4
<1>4. CASE ChainFinalizes /\ UNCHANGED endorsement
  <2>1. migrating_height = irreversible_height + 1 /\ migrating_height <= head_height
    BY <1>4 DEF ChainFinalizes, ChainProgress
  <2>2. ChainProgress' /\ ErasedWhileRewarding'
    BY <1>1, <1>4, <2>1 DEF ChainFinalizes, ChainProgress, ErasedWhileRewarding
  <2>3. ASSUME NEW s \in Scopes, NEW b \in Blocks, Height[b] <= irreversible_height'
        PROVE  Row(s, b)' = NoRow
    <3>1. Height[b] <= irreversible_height \/ Height[b] = migrating_height
      BY <1>1, <1>4, <2>1, <2>3 DEF ChainFinalizes
    <3>2. Row(s, b) = NoRow
      BY <1>4, <3>1 DEF ChainFinalizes, ErasedWhileRewarding, NoEndorsementsBelowIrreversible
    <3> QED
      BY <1>4, <3>2 DEF Row
  <2> QED
    BY <2>2, <2>3 DEF NoEndorsementsBelowIrreversible, Row
<1> QED
  BY <1>2, <1>3, <1>4

LEMMA StepInv ==
  ASSUME EndorseInv, [EndorseNext]_endorseVars
  PROVE  EndorseInv'
<1>1. CASE EndorseNext
  <2>1. EndorseTypeOK'
    BY <1>1, StepTypeOK DEF EndorseInv
  <2>2. RowsArePartitions'
    BY <1>1, StepShape, RowChangesKeepPartitions DEF EndorseInv
  <2>3. ChainProgress' /\ ErasedWhileRewarding' /\ NoEndorsementsBelowIrreversible'
    BY <1>1, <2>1, StepShape, AccountStepKeepsHeights, ChainStepKeepsHeights DEF EndorseInv
  <2> QED
    BY <2>1, <2>2, <2>3 DEF EndorseInv
<1>2. CASE UNCHANGED endorseVars
  BY <1>2 DEF endorseVars, chainTables, EndorseInv, EndorseTypeOK, TablesTypeOK,
     RowsArePartitions, ChainProgress, ErasedWhileRewarding, NoEndorsementsBelowIrreversible,
     Row, Electorate
<1> QED
  BY <1>1, <1>2

\* The inductive invariant holds: types, shape of the rows, and no endorsement
\* at a height that is irreversible or being rewarded.
THEOREM InvHolds == EndorseSpec => []EndorseInv
<1> QED
  BY InitInv, StepInv, PTL DEF EndorseSpec

\* No endorsement outlives the height it was given for: at and below the
\* irreversible height blkendt.xsat has no row, in either scope.
THEOREM NothingBelowIrreversible == EndorseSpec => []NoEndorsementsBelowIrreversible
<1>1. EndorseInv => NoEndorsementsBelowIrreversible
  BY DEF EndorseInv
<1> QED
  BY <1>1, InvHolds, PTL

\* The two lists of every row are disjoint and hold the row's role only, which
\* is what makes num_validators() the size of the electorate.
THEOREM RowsPartitioned == EndorseSpec => []RowsArePartitions
<1>1. EndorseInv => RowsArePartitions
  BY DEF EndorseInv
<1> QED
  BY <1>1, InvHolds, PTL

-----------------------------------------------------------------------------
(***************************************************************************)
(* Action properties.                                                      *)
(***************************************************************************)
\* No step opens or joins a row of the height that is being migrated, so the
\* providers that are counted and then paid in batches stay the same.
THEOREM MigratingRowsFrozen == EndorseSpec => MigratingEndorsementsFrozen
<1>1. ASSUME EndorseInv, EndorseNext, NEW s \in Scopes, NEW b \in Blocks,
             Height[b] = migrating_height
      PROVE  Row(s, b)' \in {Row(s, b), NoRow}
  <2>1. RowChange(s, b)
    BY <1>1, StepShape DEF EndorseInv, RowChanges
  <2>2. ~MayEndorse(Height[b])
    BY <1>1 DEF MayEndorse
  <2> QED
    BY <2>1, <2>2 DEF RowChange
<1>2. EndorseInv /\ [EndorseNext]_endorseVars =>
        [\A s \in Scopes, b \in Blocks :
           Height[b] = migrating_height /\ migrating_height' = migrating_height =>
             Row(s, b)' \in {Row(s, b), NoRow}]_endorseVars
  BY <1>1
<1> QED
  BY <1>2, InvHolds, PTL DEF EndorseSpec, MigratingEndorsementsFrozen

\* Once the first validator has endorsed a block, the list it is voted on stays
\* the same until the row goes, and no endorsement is withdrawn.
THEOREM ListsFrozen == EndorseSpec => ElectorateFrozen
<1>1. ASSUME EndorseInv, EndorseNext, NEW s \in Scopes, NEW b \in Blocks,
             RowExists(s, b), RowExists(s, b)'
      PROVE  /\ Electorate(Row(s, b)') = Electorate(Row(s, b))
             /\ Row(s, b).provider_validators \subseteq Row(s, b)'.provider_validators
  <2>1. RowChange(s, b)
    BY <1>1, StepShape DEF EndorseInv, RowChanges
  <2>2. CASE Row(s, b)' = Row(s, b)
    BY <2>2 DEF Electorate
  <2>3. CASE Row(s, b)' = NoRow
    BY <1>1, <2>3 DEF RowExists, NoRow
  <2>4. ASSUME NEW v \in ScopeValidators(s), Joined(s, b, v)
        PROVE  /\ Electorate(Row(s, b)') = Electorate(Row(s, b))
               /\ Row(s, b).provider_validators \subseteq Row(s, b)'.provider_validators
    BY <2>4 DEF Joined, Electorate
  <2>5. \A v \in ScopeValidators(s) : ~Opened(s, b, v)
    BY <1>1 DEF Opened
  <2> QED
    BY <2>1, <2>2, <2>3, <2>4, <2>5 DEF RowChange
<1>2. EndorseInv /\ [EndorseNext]_endorseVars =>
        [\A s \in Scopes, b \in Blocks :
           RowExists(s, b) /\ RowExists(s, b)' =>
             /\ Electorate(Row(s, b)') = Electorate(Row(s, b))
             /\ Row(s, b).provider_validators \subseteq Row(s, b)'.provider_validators]_endorseVars
  BY <1>1
<1> QED
  BY <1>2, InvHolds, PTL DEF EndorseSpec, ElectorateFrozen

\* A row leaves a table only with its height or by a revote with enough votes on
\* record, which keeps it in the final table.
THEOREM RowsLeaveByMajority == EndorseSpec => EndorsementsLeaveByMajority
<1>1. ASSUME EndorseInv, EndorseNext, NEW s \in Scopes, NEW b \in Blocks,
             RowExists(s, b), ~RowExists(s, b)', Height[b] # migrating_height
      PROVE  /\ Row(s, b) \in final_endorsement'[s][b]
             /\ \E r \in Synchronizers :
                  2 * Cardinality(revote_record[Height[b]].pending \cup {r})
                    > Cardinality({t \in Synchronizers : ActiveSynchronizer(t, head_height)})
  <2>1. RowChange(s, b)
    BY <1>1, StepShape DEF EndorseInv, RowChanges
  <2>2. Row(s, b)' # Row(s, b)
    BY <1>1 DEF RowExists
  <2>3. \A v \in ScopeValidators(s) : ~Opened(s, b, v)
    BY <1>1 DEF Opened
  <2>4. \A v \in ScopeValidators(s) : ~Joined(s, b, v)
    BY <1>1 DEF Joined, RowExists
  <2>5. VoidedByMajority(s, b)
    BY <1>1, <2>1, <2>2, <2>3, <2>4 DEF RowChange
  <2> QED
    BY <1>1, <2>5 DEF VoidedByMajority
<1>2. EndorseInv /\ [EndorseNext]_endorseVars =>
        [\A s \in Scopes, b \in Blocks :
           RowExists(s, b) /\ ~RowExists(s, b)' /\ Height[b] # migrating_height =>
             /\ Row(s, b) \in final_endorsement'[s][b]
             /\ \E r \in Synchronizers :
                  2 * Cardinality(revote_record[Height[b]].pending \cup {r})
                    > Cardinality({t \in Synchronizers : ActiveSynchronizer(t, head_height)})]_endorseVars
  BY <1>1
<1> QED
  BY <1>2, InvHolds, PTL DEF EndorseSpec, EndorsementsLeaveByMajority

-----------------------------------------------------------------------------
(***************************************************************************)
(* Quorums.                                                                *)
(***************************************************************************)
\* Two sets of more than two thirds of a finite set share more than a third.
LEMMA TwoThirdsIntersect ==
  ASSUME NEW E, IsFiniteSet(E), NEW P \in SUBSET E, NEW Q \in SUBSET E,
         Cardinality(P) >= num_reached_consensus(Cardinality(E)),
         Cardinality(Q) >= num_reached_consensus(Cardinality(E))
  PROVE  3 * Cardinality(P \cap Q) > Cardinality(E)
<1>1. /\ IsFiniteSet(P) /\ IsFiniteSet(Q)
      /\ IsFiniteSet(P \cup Q) /\ IsFiniteSet(P \cap Q)
  BY FS_Subset
<1>2. /\ Cardinality(E) \in Nat /\ Cardinality(P) \in Nat /\ Cardinality(Q) \in Nat
      /\ Cardinality(P \cup Q) \in Nat /\ Cardinality(P \cap Q) \in Nat
  BY <1>1, FS_CardinalityType
<1>3. Cardinality(P \cup Q) = Cardinality(P) + Cardinality(Q) - Cardinality(P \cap Q)
  BY <1>1, FS_Union
<1>4. Cardinality(P \cup Q) <= Cardinality(E)
  BY FS_Subset
<1>5. 3 * num_reached_consensus(Cardinality(E)) > 2 * Cardinality(E)
  BY <1>2 DEF num_reached_consensus
<1>6. num_reached_consensus(Cardinality(E)) \in Nat
  BY <1>2 DEF num_reached_consensus
<1> QED
  BY <1>2, <1>3, <1>4, <1>5, <1>6

\* num_validators(), the sum of two lengths, is the size of the electorate.
LEMMA NumValidatorsIsElectorate ==
  ASSUME EndorseInv, NEW s \in Scopes, NEW b \in Blocks
  PROVE  /\ IsFiniteSet(Electorate(Row(s, b)))
         /\ num_validators(Row(s, b)) = Cardinality(Electorate(Row(s, b)))
<1> DEFINE P == Row(s, b).provider_validators
           R == Row(s, b).requested_validators
<1>1. P \subseteq Validators /\ R \subseteq Validators
  BY DEF EndorseInv, EndorseTypeOK, TablesTypeOK, Rows, Row
<1>2. IsFiniteSet(P) /\ IsFiniteSet(R) /\ IsFiniteSet(P \cup R)
  BY <1>1, TablesAssumption, FS_Subset DEF TablesAssumption
<1>3. P \cap R = {}
  BY DEF EndorseInv, RowsArePartitions
<1>4. Cardinality(P \cup R) = Cardinality(P) + Cardinality(R) - Cardinality(P \cap R)
  BY <1>2, FS_Union
<1>5. Cardinality(P \cap R) = 0
  BY <1>3, FS_EmptySet
<1>6. Cardinality(P) \in Nat /\ Cardinality(R) \in Nat
  BY <1>2, FS_CardinalityType
<1> QED
  BY <1>2, <1>4, <1>5, <1>6 DEF Electorate, num_validators

\* Two blocks of one height can both reach consensus on the same list only if
\* more than a third of it endorsed both.
THEOREM ForksNeedDoubleVotes == EndorseSpec => []ForkNeedsDoubleVotes
<1>1. ASSUME EndorseInv, NEW s \in Scopes, NEW b \in Blocks, NEW c \in Blocks,
             Electorate(Row(s, b)) = Electorate(Row(s, c)),
             reached_consensus(Row(s, b)), reached_consensus(Row(s, c))
      PROVE  3 * Cardinality(Row(s, b).provider_validators \cap Row(s, c).provider_validators)
               > Cardinality(Electorate(Row(s, b)))
  <2> DEFINE E == Electorate(Row(s, b))
             P == Row(s, b).provider_validators
             Q == Row(s, c).provider_validators
  <2>1. P \in SUBSET E /\ Q \in SUBSET E
    BY <1>1 DEF Electorate
  <2>2. /\ Cardinality(P) >= num_reached_consensus(Cardinality(E))
        /\ Cardinality(Q) >= num_reached_consensus(Cardinality(E))
    BY <1>1, NumValidatorsIsElectorate DEF reached_consensus
  <2>3. IsFiniteSet(E)
    BY <1>1, NumValidatorsIsElectorate
  <2> HIDE DEF E, P, Q
  <2>4. 3 * Cardinality(P \cap Q) > Cardinality(E)
    BY <2>1, <2>2, <2>3, TwoThirdsIntersect
  <2> QED
    BY <2>4 DEF E, P, Q
<1>2. EndorseInv => ForkNeedsDoubleVotes
  BY <1>1 DEF ForkNeedsDoubleVotes
<1> QED
  BY <1>2, InvHolds, PTL
=============================================================================
