---------------------------- MODULE UtxoManage ----------------------------
(***************************************************************************)
(* utxomng.xsat: blocks that reached consensus are parsed into pending     *)
(* rows, height by height; once a height is IRREVERSIBLE_BLOCKS deep one   *)
(* of its blocks is migrated into the UTXO set, its rewards are            *)
(* distributed and it becomes the irreversible tip.  Every transition is a *)
(* call of processblock, which any synchronizer may make, or of the inline *)
(* action consensus.                                                       *)
(*                                                                         *)
(* A block is abstracted to the sequence of its inputs and outputs.  A     *)
(* call handles at most `rows` of them, and 0 stands for all.              *)
(***************************************************************************)
EXTENDS SyncTables, FiniteSetsExt, SequencesExt

CONSTANTS
  Work,                 \* Work[b]: the cumulative work of b
  Coins,                \* transaction outputs
  Ops,                  \* Ops[b]: the inputs and outputs of b, in order
  IRREVERSIBLE_BLOCKS,
  ProcessRows,          \* values of the argument process_row
  num_validators_per_distribution,  \* config of utxomng.xsat
  retained_spent_utxo_blocks

OpType == [type : {"vin", "vout"}, coin : Coins]

ASSUME UtxoAssumption ==
  /\ Work \in [Blocks -> Nat \ {0}]
  /\ Ops \in [Blocks -> Seq(OpType)]
  /\ IRREVERSIBLE_BLOCKS \in Nat \ {0, 1}
  /\ ProcessRows \subseteq Nat
  /\ num_validators_per_distribution \in Nat \ {0}
  /\ retained_spent_utxo_blocks \in Nat

VARIABLES
  irreversible_hash,       \* the remaining fields of chainstate
  migrating_hash,
  migrating_num_utxos,
  migrated_num_utxos,
  num_provider_validators,
  num_validators_assigned,
  parsing_height,          \* 0 when no height is parsed
  parsing_progress_of,     \* by block: parser, timeout reached, rows parsed
  num_utxos,
  parsed,                  \* consensusblk: the rows with the parse flag
  utxo, spent_utxo, pending_utxo

migrationVars == <<migrating_hash, migrating_num_utxos, migrated_num_utxos,
                   num_provider_validators, num_validators_assigned>>
parsingVars == <<parsing_height, parsing_progress_of>>
consensusRows == <<consensus_block, parsed, uploader>>
utxoTables == <<num_utxos, utxo, spent_utxo, pending_utxo>>
utxoVars == <<chainTables, irreversible_hash, migrationVars, parsingVars, parsed, uploader,
              utxoTables, block>>

\* A block to migrate, when there is none.
NoBlock == Genesis

NewProgress(s) == [parser |-> s, expired |-> FALSE, rows |-> 0]

-----------------------------------------------------------------------------
(***************************************************************************)
(* find_set_next_parsable_block: with no height in progress, the blocks of *)
(* the lowest unparsed height above the irreversible one are parsed next,  *)
(* each by its uploader.  The operators take the tables as the caller has  *)
(* just changed them.                                                      *)
(***************************************************************************)
Unparsed(cons, done) == {b \in cons \ done : Height[b] > irreversible_height}

NextParsable(cons, done, up) ==
  IF Unparsed(cons, done) = {}
    THEN parsing_height' = 0 /\ parsing_progress_of' = << >>
    ELSE LET h == Min({Height[b] : b \in Unparsed(cons, done)}) IN
         /\ parsing_height' = h
         /\ parsing_progress_of' =
              [b \in {c \in Unparsed(cons, done) : Height[c] = h} |-> NewProgress(up[b])]

(***************************************************************************)
(* find_next_irreversible_block.  A lone block must extend the tip.  Of    *)
(* several the one on the path with the most work after                    *)
(* IRREVERSIBLE_BLOCKS blocks is taken, walking back from there.  Equal    *)
(* work is decided by the order of the rows, here by choice.  An empty     *)
(* result is the check that fails, and aborts the calling transaction.     *)
(***************************************************************************)
HeaviestAt(cons, h) ==
  {p \in cons : Height[p] = h /\ \A q \in cons : Height[q] = h => Work[q] <= Work[p]}

\* The i-th ancestor of p.
Ancestor(p, i) ==
  LET up[k \in 0..i] == IF k = 0 THEN p
                        ELSE IF up[k - 1] = Genesis THEN Genesis ELSE Prev[up[k - 1]]
  IN up[i]

\* Mutant: any child of the tip, however few blocks follow it.
find_next_irreversible_block_AnyChild(cons) ==
  {b \in cons : Height[b] = irreversible_height + 1 /\ Prev[b] = irreversible_hash}

find_next_irreversible_block(cons) ==
  LET first == {b \in cons : Height[b] = irreversible_height + 1}
      depth == IRREVERSIBLE_BLOCKS - 1 IN
  IF Cardinality(first) = 1
    THEN {b \in first : Prev[b] = irreversible_hash}
    ELSE {b \in first :
            /\ Prev[b] = irreversible_hash
            /\ \E p \in HeaviestAt(cons, irreversible_height + IRREVERSIBLE_BLOCKS) :
                 /\ Ancestor(p, depth) = b
                 /\ \A i \in 1..depth : Ancestor(p, i) \in cons}

\* Providers to reward: those of the longer table once XSAT rewards are active
\* at the head.
ProvidersToReward(t, b, head) ==
  LET btc == Cardinality(t["btc"][b].provider_validators)
      xsat == Cardinality(t["xsat"][b].provider_validators) IN
  IF is_xsat_reward_active(head) THEN MaxOf(btc, xsat) ELSE btc

\* The chainstate fields a migration starts with, `total` rows to be moved.
StartMigration(t, b, head, total) ==
  /\ t["btc"][b].provider_validators # {}
  /\ migrating_height' = Height[b]
  /\ migrating_hash' = b
  /\ migrating_num_utxos' = total
  /\ migrated_num_utxos' = 0
  /\ num_provider_validators' = ProvidersToReward(t, b, head)
  /\ num_validators_assigned' = 0

NumUtxos(b, done) == IF b \in done THEN Len(Ops[b]) ELSE 0

\* Mutant: the migration starts one height too early.
NextIrreversible_Early(t, cons, done, head) ==
  IF migrating_height # 0 \/ parsing_height' < irreversible_height + IRREVERSIBLE_BLOCKS
    THEN UNCHANGED <<migrating_height, migrationVars>>
    ELSE \E b \in find_next_irreversible_block(cons) :
           StartMigration(t, b, head, NumUtxos(b, done))

\* Mutant: the head decides, and not what was parsed.
NextIrreversible_ByHead(t, cons, done, head) ==
  IF migrating_height # 0 \/ head <= irreversible_height + IRREVERSIBLE_BLOCKS
    THEN UNCHANGED <<migrating_height, migrationVars>>
    ELSE \E b \in find_next_irreversible_block(cons) :
           StartMigration(t, b, head, NumUtxos(b, done))

\* Mutant: the inputs of the block are not counted.
NextIrreversible_OutputsOnly(t, cons, done, head) ==
  IF migrating_height # 0 \/ parsing_height' <= irreversible_height + IRREVERSIBLE_BLOCKS
    THEN UNCHANGED <<migrating_height, migrationVars>>
    ELSE \E b \in find_next_irreversible_block(cons) :
           StartMigration(t, b, head, Cardinality({i \in DOMAIN Ops[b] : Ops[b][i].type = "vout"}))

\* find_set_next_irreversible_block, after the parsing height was set.
NextIrreversible(t, cons, done, head) ==
  IF migrating_height # 0 \/ parsing_height' <= irreversible_height + IRREVERSIBLE_BLOCKS
    THEN UNCHANGED <<migrating_height, migrationVars>>
    ELSE \E b \in find_next_irreversible_block(cons) :
           StartMigration(t, b, head, NumUtxos(b, done))

-----------------------------------------------------------------------------
\* Mutant: a verified block need not be endorsed.
MayReachConsensus_Unendorsed(t, y, b) == Passed(y, b) /\ ~WaitsForMiner(y, b)

MayReachConsensus(t, y, b) ==
  /\ Passed(y, b)
  /\ is_endorsement_consensus_reached(t, b)
  /\ ~WaitsForMiner(y, b)

(***************************************************************************)
(* consensus, on the tables t of blkendt.xsat and y of blksync.xsat as the *)
(* caller leaves them.  It returns without effect, and its caller goes on, *)
(* until the block is both verified and endorsed.                          *)
(***************************************************************************)
Consensus(t, y, b) ==
  IF ~MayReachConsensus(t, y, b)
    THEN SetSync(y) /\ UNCHANGED <<utxoVars, synchronizer>>
    ELSE LET cons == consensus_block \cup {b}
             up == [uploader EXCEPT ![b] = PassedBy(y, b)]
             head == MaxOf(head_height, Height[b]) IN
         /\ consensus_block' = cons
         /\ uploader' = up
         /\ head_height' = head
         /\ IF Miner[b] = NoAccount THEN UNCHANGED synchronizer
                                  ELSE updateheight(Miner[b], Height[b])
         /\ IF parsing_height = Height[b]
              THEN /\ parsing_progress_of' = Put(parsing_progress_of, b, NewProgress(PassedBy(y, b)))
                   /\ UNCHANGED parsing_height
              ELSE IF parsing_height # 0 THEN UNCHANGED parsingVars
                                         ELSE NextParsable(cons, parsed, up)
         /\ NextIrreversible(t, cons, parsed, head)
         /\ SetSync(Forget(y, b))
         /\ UNCHANGED <<irreversible_height, irreversible_hash, parsed_height, status, parsed,
                        utxoTables, block>>

-----------------------------------------------------------------------------
(***************************************************************************)
(* processblock.  The caller is the parser of one of the blocks in         *)
(* progress or takes over one whose timeout was reached; when several      *)
(* qualify the order of the hashes decides, here a choice.                 *)
(***************************************************************************)
MayProcess(s, b) ==
  /\ parsing_height > 0
  /\ b \in DOMAIN parsing_progress_of
  /\ IF parsing_progress_of[b].expired THEN synchronizer[s].registered
                                       ELSE parsing_progress_of[b].parser = s

\* Mutant: a synchronizer that takes a block over parses it from the start.
Claimed_Restarts(s, b) ==
  IF b \in DOMAIN parsing_progress_of /\ s # parsing_progress_of[b].parser
    THEN [parsing_progress_of EXCEPT ![b] = NewProgress(s)]
    ELSE parsing_progress_of

Claimed(s, b) ==
  IF parsing_progress_of[b].expired
    THEN [parsing_progress_of EXCEPT ![b].parser = s, ![b].expired = FALSE]
    ELSE parsing_progress_of

\* The phase the call works in: waiting is left at once.
Phase == IF status # "waiting" THEN status
         ELSE IF migrating_height > 0 THEN "migrating" ELSE "parsing"

AtMost(rows, n) == IF rows = 0 \/ rows >= n THEN n ELSE rows

\* One pending row applied to the UTXO set.  An input whose output is unknown
\* is logged and skipped.
MigrateRow(u, row) ==
  IF row.type = "vout"
    THEN [u EXCEPT !.utxo = @ \cup {row.coin}, !.num = @ + 1]
    ELSE IF row.coin \in u.utxo
           THEN [u EXCEPT !.utxo = @ \ {row.coin}, !.num = @ - 1,
                          !.spent = @ \cup {<<migrating_height, row.coin>>}]
           ELSE u

MigrateRows(u, batch) == FoldLeft(MigrateRow, u, batch)

Migrate(rows) ==
  LET pending == pending_utxo[migrating_hash]
      n == AtMost(rows, Len(pending))
      u == MigrateRows([utxo |-> utxo, spent |-> spent_utxo, num |-> num_utxos],
                       SubSeq(pending, 1, n)) IN
  /\ utxo' = u.utxo /\ spent_utxo' = u.spent /\ num_utxos' = u.num
  /\ pending_utxo' = [pending_utxo EXCEPT ![migrating_hash] = SubSeq(@, n + 1, Len(@))]
  /\ migrated_num_utxos' = migrated_num_utxos + n
  /\ status' = IF migrated_num_utxos' = migrating_num_utxos THEN "deleting_data" ELSE "migrating"
  /\ UNCHANGED <<head_height, irreversible_height, migrating_height, parsed_height,
                 consensus_block, irreversible_hash, migrating_hash, migrating_num_utxos,
                 num_provider_validators, num_validators_assigned, parsing_height, parsed,
                 uploader, block>>

\* Mutant: the forked blocks of the height are forgotten.
PendingAtHeight_OwnOnly ==
  {b \in Blocks : b = migrating_hash /\ pending_utxo[b] # << >>}

(***************************************************************************)
(* delete_data.  Each call clears some rows of one table until nothing is  *)
(* left, then erases the endorsements and the consensus rows of the height *)
(* and stores the irreversible block.  Here rows = 0 deletes nothing.      *)
(***************************************************************************)
PendingAtHeight ==
  {b \in Blocks : Height[b] = migrating_height /\ pending_utxo[b] # << >>}
OldSpent == {x \in spent_utxo : x[1] = migrating_height - retained_spent_utxo_blocks}

\* Rows of the forked blocks, oldest first; which block's row is older is left
\* open.
DeletePending(rows) ==
  LET total == MapThenSumSet(LAMBDA b : Len(pending_utxo[b]), PendingAtHeight) IN
  /\ PendingAtHeight # {}
  /\ \E gone \in [PendingAtHeight -> 0..rows] :
       /\ \A b \in PendingAtHeight : gone[b] <= Len(pending_utxo[b])
       /\ MapThenSumSet(LAMBDA b : gone[b], PendingAtHeight) = Min({rows, total})
       /\ pending_utxo' = [b \in Blocks |->
            IF b \in PendingAtHeight THEN SubSeq(pending_utxo[b], gone[b] + 1, Len(pending_utxo[b]))
                                     ELSE pending_utxo[b]]
  /\ UNCHANGED <<status, spent_utxo, consensusRows, block, endorsement>>

DeleteSpent(rows) ==
  /\ PendingAtHeight = {} /\ OldSpent # {}
  /\ \E gone \in SUBSET OldSpent :
       /\ Cardinality(gone) = Min({rows, Cardinality(OldSpent)})
       /\ spent_utxo' = spent_utxo \ gone
  /\ UNCHANGED <<status, pending_utxo, consensusRows, block, endorsement>>

StoreIrreversible ==
  /\ PendingAtHeight = {} /\ OldSpent = {}
  /\ \A b \in block : HeightOf(b) # migrating_height
  /\ EraseEndorsements(migrating_height)
  /\ block' = block \cup {b \in consensus_block : b = migrating_hash}
  /\ consensus_block' = {b \in consensus_block : Height[b] # migrating_height}
  /\ parsed' = parsed \cap consensus_block'
  /\ uploader' = [b \in Blocks |-> IF b \in consensus_block' THEN uploader[b] ELSE NoAccount]
  /\ status' = "distributing_rewards"
  /\ UNCHANGED <<pending_utxo, spent_utxo>>

DeleteData(rows) ==
  /\ DeletePending(rows) \/ DeleteSpent(rows) \/ StoreIrreversible
  /\ UNCHANGED <<head_height, irreversible_height, migrating_height, parsed_height,
                 irreversible_hash, migrationVars, parsing_height, num_utxos, utxo>>

(***************************************************************************)
(* distributing_rewards: one batch per call, and the tip moves with the    *)
(* last.  The reward itself is module RewardDistribution's.                *)
(***************************************************************************)
BatchEnd == Min({num_validators_assigned + num_validators_per_distribution,
                 num_provider_validators})

DistributeRewards ==
  /\ IF BatchEnd < num_provider_validators
       THEN /\ num_validators_assigned' = BatchEnd
            /\ UNCHANGED <<irreversible_height, irreversible_hash, migrating_height,
                           migrating_hash, migrating_num_utxos, migrated_num_utxos,
                           num_provider_validators, status>>
       ELSE /\ irreversible_height' = migrating_height
            /\ irreversible_hash' = migrating_hash
            /\ migrating_height' = 0 /\ migrating_hash' = NoBlock
            /\ migrating_num_utxos' = 0 /\ migrated_num_utxos' = 0
            /\ num_provider_validators' = 0 /\ num_validators_assigned' = 0
            /\ status' = "parsing"
  /\ UNCHANGED <<head_height, parsed_height, consensus_block, parsing_height, parsed, uploader,
                 utxoTables, block, endorsement>>

(***************************************************************************)
(* parsing: the next rows of the block become pending.  With its last row  *)
(* the block is parsed, and with the last block of the height the next     *)
(* height is chosen and perhaps the next migration.                        *)
(***************************************************************************)
ParseRows(s, b, rows) ==
  LET from == Claimed(s, b)[b].rows
      n == AtMost(rows, Len(Ops[b]) - from)
      others == [c \in DOMAIN parsing_progress_of \ {b} |-> Claimed(s, b)[c]] IN
  /\ pending_utxo' = [pending_utxo EXCEPT ![b] = @ \o SubSeq(Ops[b], from + 1, from + n)]
  /\ IF from + n < Len(Ops[b])
       THEN /\ parsing_progress_of' = [Claimed(s, b) EXCEPT ![b].rows = @ + n]
            /\ status' = "parsing"
            /\ UNCHANGED <<parsed, parsed_height, parsing_height, migrating_height, migrationVars>>
       ELSE /\ b \in consensus_block
            /\ parsed' = parsed \cup {b}
            /\ IF DOMAIN others # {}
                 THEN /\ parsing_progress_of' = others
                      /\ status' = "parsing"
                      /\ UNCHANGED <<parsed_height, parsing_height, migrating_height,
                                     migrationVars>>
                 ELSE /\ parsed_height' = parsing_height
                      /\ status' = "waiting"
                      /\ NextParsable(consensus_block, parsed', uploader)
                      /\ NextIrreversible(endorsement, consensus_block, parsed', head_height)
  /\ UNCHANGED <<head_height, irreversible_height, irreversible_hash, consensus_block, uploader,
                 num_utxos, utxo, spent_utxo, block, endorsement>>

ProcessBlock(s, b, rows) ==
  /\ MayProcess(s, b)
  /\ \/ Phase = "migrating" /\ Migrate(rows) /\ parsing_progress_of' = Claimed(s, b)
        /\ UNCHANGED endorsement
     \/ Phase = "deleting_data" /\ DeleteData(rows) /\ parsing_progress_of' = Claimed(s, b)
     \/ Phase = "distributing_rewards" /\ DistributeRewards
        /\ parsing_progress_of' = Claimed(s, b)
     \/ Phase = "parsing" /\ ParseRows(s, b, rows)

\* Time reaches the parse_expiration_time of a block in progress.
ParserTimeout(b) ==
  /\ b \in DOMAIN parsing_progress_of
  /\ ~parsing_progress_of[b].expired
  /\ parsing_progress_of' = [parsing_progress_of EXCEPT ![b].expired = TRUE]

UtxoInit ==
  /\ head_height = START_HEIGHT /\ irreversible_height = START_HEIGHT
  /\ parsed_height = START_HEIGHT /\ migrating_height = 0
  /\ status = "waiting"
  /\ consensus_block = {} /\ parsed = {}
  /\ uploader = [b \in Blocks |-> NoAccount]
  /\ irreversible_hash = Genesis /\ migrating_hash = NoBlock
  /\ migrating_num_utxos = 0 /\ migrated_num_utxos = 0
  /\ num_provider_validators = 0 /\ num_validators_assigned = 0
  /\ parsing_height = 0 /\ parsing_progress_of = << >>
  /\ num_utxos = 0 /\ utxo = {} /\ spent_utxo = {}
  /\ pending_utxo = [b \in Blocks |-> << >>]
  /\ block = {Genesis}

-----------------------------------------------------------------------------
(***************************************************************************)
(* The environment: blkendt.xsat fills and voids the endorsements of the   *)
(* heights it may touch, blksync.xsat verifies blocks whose parent reached *)
(* consensus, and either calls consensus.                                  *)
(***************************************************************************)
EnvironmentRows == {NoRow} \cup
  {[provider_validators |-> P, requested_validators |-> {}] : P \in (SUBSET Validators) \ {{}}}

Endorsed(s, b) ==
  /\ irreversible_height < Height[b] /\ migrating_height # Height[b]
  /\ \E row \in EnvironmentRows :
       /\ row # endorsement[s][b]
       /\ endorsement' = [endorsement EXCEPT ![s][b] = row]
  /\ Consensus(endorsement', SyncNow, b)
  /\ UNCHANGED config

\* Mutant: the parent is not looked up.
Verified_Orphan(s, b) ==
  LET y == Pass(SyncNow, s, b) IN
  /\ ~check_consensus(b)
  /\ \A i \in DOMAIN passed_index[b] : passed_index[b][i] # s
  /\ IF s # Miner[b] /\ b \in y.window
       THEN SetSync(y) /\ UNCHANGED <<utxoVars, synchronizer>>
       ELSE Consensus(endorsement, y, b)
  /\ UNCHANGED <<endorsement, config>>

\* verify at its last step: the parent reached consensus, the block is put on
\* file and, unless its miner has priority, consensus is called.
Verified(s, b) ==
  LET y == Pass(SyncNow, s, b) IN
  /\ ~check_consensus(b)
  /\ Prev[b] \in consensus_block \cup block
  /\ \A i \in DOMAIN passed_index[b] : passed_index[b][i] # s
  /\ IF s # Miner[b] /\ b \in y.window
       THEN SetSync(y) /\ UNCHANGED <<utxoVars, synchronizer>>
       ELSE Consensus(endorsement, y, b)
  /\ UNCHANGED <<endorsement, config>>

\* verify called again once the window of the miner is over.
VerifiedLate(s, b) ==
  /\ \E i \in DOMAIN passed_index[b] : passed_index[b][i] = s
  /\ b \notin miner_window
  /\ ~check_consensus(b)
  /\ Consensus(endorsement, SyncNow, b)
  /\ UNCHANGED <<endorsement, config>>

\* delbucket: the synchronizer withdraws its upload and what it verified.  The code
\* erases all its rows, of which there is at most one (VerifiedOnce).
Withdrawn(s, b) ==
  /\ \E i \in DOMAIN passed_index[b] : passed_index[b][i] = s
  /\ passed_index' = [passed_index EXCEPT ![b] = RemoveFirst(@, s)]
  /\ UNCHANGED <<utxoVars, block_miner, miner_window, synchronizer, endorsement, config>>

WindowExpires(b) ==
  /\ b \in miner_window
  /\ miner_window' = miner_window \ {b}
  /\ UNCHANGED <<utxoVars, passed_index, block_miner, synchronizer, endorsement, config>>

utxoSpecVars == <<utxoVars, syncTables, endorsement, synchronizer, config>>

\* What the synchronizers S do with the blocks B, R rows at a time.
UtxoStep(S, B, R) ==
  \/ \E s \in S, b \in B, rows \in R :
       /\ ProcessBlock(s, b, rows)
       /\ UNCHANGED <<syncTables, synchronizer, config>>
  \/ \E b \in B :
       /\ ParserTimeout(b)
       /\ UNCHANGED <<chainTables, irreversible_hash, migrationVars, parsing_height, parsed,
                      uploader, utxoTables, block, syncTables, synchronizer, endorsement, config>>
  \/ \E s \in Scopes, b \in B : Endorsed(s, b)
  \/ \E s \in S, b \in B : Verified(s, b)
  \/ \E s \in S, b \in B : VerifiedLate(s, b)
  \/ \E s \in S, b \in B : Withdrawn(s, b)
  \/ \E b \in B : WindowExpires(b)

UtxoNext == UtxoStep(Synchronizers, Blocks, ProcessRows)

UtxoSpecInit ==
  /\ UtxoInit /\ SyncInit
  /\ config \in Configs
  /\ endorsement = [s \in Scopes |-> [b \in Blocks |-> NoRow]]
  /\ \E limit \in ProducedLimits : synchronizer = [s \in Synchronizers |->
       [registered |-> TRUE, produced_block_limit |-> limit,
        latest_produced_block_height |-> START_HEIGHT]]

UtxoSpec == UtxoSpecInit /\ [][UtxoNext]_utxoSpecVars

\* Synchronizers keep calling processblock for at least one row, and time
\* passes: whoever holds a block, another may take it over after the timeout.
UtxoFairness ==
  /\ WF_utxoSpecVars(\E s \in Synchronizers, b \in Blocks, rows \in ProcessRows \ {0} :
       ProcessBlock(s, b, rows) /\ UNCHANGED <<syncTables, synchronizer, config>>)
  /\ WF_utxoSpecVars(\E b \in Blocks :
       ParserTimeout(b) /\ UNCHANGED <<chainTables, irreversible_hash, migrationVars,
         parsing_height, parsed, uploader, utxoTables, block, syncTables, synchronizer,
         endorsement, config>>)

FairUtxoSpec == UtxoSpec /\ UtxoFairness

-----------------------------------------------------------------------------
UtxoTypeOK ==
  /\ TablesTypeOK /\ SyncTypeOK
  /\ irreversible_hash \in Blocks \cup {Genesis}
  /\ migrating_hash \in Blocks \cup {NoBlock}
  /\ migrating_num_utxos \in Nat /\ migrated_num_utxos \in Nat
  /\ num_provider_validators \in 0..Cardinality(Validators)
  /\ num_validators_assigned \in 0..Cardinality(Validators)
  /\ parsing_height \in 0..MaxHeight
  /\ DOMAIN parsing_progress_of \subseteq Blocks
  /\ \A b \in DOMAIN parsing_progress_of :
       parsing_progress_of[b] \in [parser : Synchronizers, expired : BOOLEAN, rows : Nat]
  /\ parsed \subseteq consensus_block
  /\ num_utxos \in Nat /\ utxo \subseteq Coins
  /\ spent_utxo \subseteq (Heights \X Coins)
  /\ pending_utxo \in [Blocks -> Seq(OpType)]

\* A migration is under way exactly while the height IRREVERSIBLE_BLOCKS + 1
\* above the tip waits to be parsed, and parsing never runs further ahead.
MigrationWindow ==
  /\ UtxoTypeOK
  /\ parsing_height <= irreversible_height + IRREVERSIBLE_BLOCKS + 1
  /\ migrating_height # 0 <=> parsing_height > irreversible_height + IRREVERSIBLE_BLOCKS

\* The block that is migrated extends the tip and was parsed completely: from
\* an unparsed one find_set_next_irreversible_block would copy a row count of 0,
\* and its outputs would never enter the UTXO set.
MigratedBlockIsParsed ==
  migrating_height # 0 =>
    /\ migrating_height = irreversible_height + 1
    /\ Height[migrating_hash] = migrating_height
    /\ Prev[migrating_hash] = irreversible_hash
    /\ IF status = "distributing_rewards" THEN migrating_hash \in block
                                          ELSE migrating_hash \in parsed

\* Consensus rows, and pending rows, exist only above what is being made
\* irreversible, whatever is verified or endorsed late.
Floor == IF status = "distributing_rewards" THEN migrating_height ELSE irreversible_height
NoRowsBelowTip ==
  \A b \in Blocks : Height[b] <= Floor =>
    /\ b \notin consensus_block
    /\ pending_utxo[b] = << >>

\* The parent of a block in consensus is too, unless its height is already
\* irreversible: find_next_irreversible_block walks back along these rows.
ParentsReachedConsensus ==
  \A b \in consensus_block : Height[b] > Floor + 1 => Prev[b] \in consensus_block

\* The inputs and outputs of a block and all its ancestors.
OpsUpTo[b \in Blocks \cup {Genesis}] ==
  IF b = Genesis THEN << >> ELSE OpsUpTo[Prev[b]] \o Ops[b]

\* The outputs a sequence of rows leaves unspent.
Unspent(rows) ==
  {rows[i].coin : i \in {j \in DOMAIN rows :
     /\ rows[j].type = "vout"
     /\ \A k \in DOMAIN rows : k > j => rows[k] # [type |-> "vin", coin |-> rows[j].coin]}}

\* The UTXO set is that of the irreversible chain followed by the rows migrated
\* so far: no row is lost, repeated or applied out of order by the batches, the
\* takeovers of parsers, the forks or the deletions.
MigratedRows == IF migrating_height = 0 THEN << >>
                ELSE SubSeq(Ops[migrating_hash], 1, migrated_num_utxos)
UtxoSetFollowsChain ==
  /\ migrating_height # 0 => migrated_num_utxos <= Len(Ops[migrating_hash])
  /\ utxo = Unspent(OpsUpTo[irreversible_hash] \o MigratedRows)

\* And num_utxos counts it.
UtxoSetIsLedger == UtxoSetFollowsChain /\ num_utxos = Cardinality(utxo)

\* A block awaits consensus at most once: while it has a consensus row, no
\* verification of it is on file that could add a second row.
NoSecondConsensus ==
  \A b \in consensus_block : ~Passed(SyncNow, b)

\* The irreversible chain, as a sequence.
ChainOfBlocks == [i \in 1..Cardinality(block) |-> CHOOSE b \in block : HeightOf(b) = i - 1]
Promise == INSTANCE IrreversibleChain WITH
  chain <- ChainOfBlocks, agreed <- consensus_block, Depth <- IRREVERSIBLE_BLOCKS
ImplementsIrreversibleChain == Promise!ChainSpec

-----------------------------------------------------------------------------
(***************************************************************************)
(* The inductive invariant: what the properties above rest on.             *)
(***************************************************************************)
\* What is migrated was parsed before, and only one of the two goes on.
PhasesAlternate ==
  /\ migrating_height # 0 <=> migrating_hash # NoBlock
  /\ IF migrating_height = 0 THEN status \in {"waiting", "parsing"} ELSE status # "parsing"
  /\ parsing_height = 0 => status = "waiting"

\* The blocks in progress are the unparsed rows of one height above the tip, and
\* nothing above the window was ever parsed.
ParsingInOrder ==
  /\ parsing_height # 0 => parsing_height > irreversible_height
  /\ \A b \in DOMAIN parsing_progress_of :
       /\ b \in consensus_block \ parsed
       /\ Height[b] = parsing_height
       /\ parsing_progress_of[b].rows <= Len(Ops[b])
  /\ \A b \in parsed : Height[b] <= irreversible_height + IRREVERSIBLE_BLOCKS

\* A row has the synchronizer that verified the block, and what was verified has
\* its parent in consensus or irreversible.
ConsensusRowsVerified ==
  /\ IsFiniteSet(consensus_block)
  /\ \A b \in consensus_block : uploader[b] # NoAccount
  /\ \A b \in Blocks : Passed(SyncNow, b) /\ Height[b] > Floor + 1 => Prev[b] \in consensus_block

\* A synchronizer has one row of a block it verified.
VerifiedOnce ==
  \A b \in Blocks : \A i, j \in DOMAIN passed_index[b] :
    passed_index[b][i] = passed_index[b][j] => i = j

\* There is one irreversible block at every height up to the last one stored.
OneBlockPerHeight ==
  /\ IsFiniteSet(block) /\ Cardinality(block) = Floor + 1
  /\ \A i \in 0..Floor : \E b \in block : HeightOf(b) = i
  /\ \A b \in block : HeightOf(b) <= Floor
  /\ \A b, c \in block : HeightOf(b) = HeightOf(c) => b = c
  /\ irreversible_hash \in block /\ HeightOf(irreversible_hash) = irreversible_height

\* Until it is stored, the migrated block has its line of descendants.
MigratedBlockIsDeep ==
  migrating_height # 0 /\ status # "distributing_rewards" => Promise!DeepEnough(migrating_hash)

\* num_utxos counts every row of the UTXO set, so it never goes below zero.
UtxosCounted == IsFiniteSet(utxo) /\ Cardinality(utxo) <= num_utxos

UtxoInv ==
  /\ MigrationWindow /\ MigratedBlockIsParsed /\ NoRowsBelowTip
  /\ ParentsReachedConsensus /\ NoSecondConsensus
  /\ PhasesAlternate /\ ParsingInOrder /\ ConsensusRowsVerified /\ VerifiedOnce
  /\ OneBlockPerHeight /\ MigratedBlockIsDeep /\ UtxosCounted

\* What the UTXO set rests on: the pending rows of a block are those parsed of it,
\* in order, less those migrated.  Of the migrated height they may go early.
ParsedRows(b) ==
  IF b = migrating_hash THEN SubSeq(Ops[b], migrated_num_utxos + 1, Len(Ops[b]))
  ELSE IF b \in parsed THEN Ops[b]
  ELSE IF b \in DOMAIN parsing_progress_of THEN SubSeq(Ops[b], 1, parsing_progress_of[b].rows)
  ELSE << >>

PendingRows ==
  /\ migrating_height # 0 =>
       /\ migrating_num_utxos = Len(Ops[migrating_hash])
       /\ migrated_num_utxos <= migrating_num_utxos
       /\ status \in {"deleting_data", "distributing_rewards"} =>
            migrated_num_utxos = migrating_num_utxos
  /\ \A b \in Blocks :
       \/ status = "deleting_data" /\ Height[b] = migrating_height
       \/ pending_utxo[b] = ParsedRows(b)

LedgerInv == UtxoInv /\ PendingRows /\ UtxoSetFollowsChain

\* No block and its ancestors output a coin twice, as bitcoin demands (BIP 30).
OutputsOnce ==
  \A b \in Blocks : \A i, j \in DOMAIN OpsUpTo[b] :
    OpsUpTo[b][i].type = "vout" /\ OpsUpTo[b][j] = OpsUpTo[b][i] => i = j

-----------------------------------------------------------------------------
\* Every migration that starts ends with the tip moved.
MigrationsEnd == \A h \in Heights : migrating_height = h ~> irreversible_height = h
=============================================================================
