---------------------------- MODULE SyncTables ----------------------------
(***************************************************************************)
(* The tables that blksync.xsat and utxomng.xsat read of each other: the   *)
(* verified blocks with the priority window of their miners, and the       *)
(* blocks that reached consensus or are irreversible.                      *)
(***************************************************************************)
EXTENDS ExsatTables, Sequences

CONSTANTS
  Genesis,   \* the block at START_HEIGHT
  Prev,      \* Prev[b]: the parent of b
  Miner,     \* Miner[b]: the synchronizer the coinbase of b names, or NoAccount
  NoAccount  \* the empty account name

\* Blocks are uploaded under their heights.  The code finds a parent in consensus by
\* height and hash, but an irreversible one by its hash alone (get_ancestor): a bucket
\* that has the wrong height for such a parent is left out.
ASSUME SyncAssumption ==
  /\ Genesis \notin Blocks
  /\ Prev \in [Blocks -> Blocks \cup {Genesis}]
  /\ \A b \in Blocks : IF Prev[b] = Genesis THEN Height[b] = START_HEIGHT + 1
                                            ELSE Height[b] = Height[Prev[b]] + 1
  /\ NoAccount \notin Synchronizers
  /\ Miner \in [Blocks -> Synchronizers \cup {NoAccount}]

VARIABLES
  passed_index,  \* passedindexs: the synchronizers that verified a block, in the order of the ids
  block_miner,   \* blockminer: the blocks that have a row, verified at least once
  miner_window,  \* those of them whose expired_block_num is not reached
  uploader,      \* consensusblk: the synchronizer of each row, NoAccount without one
  block          \* blocks: the irreversible blocks

syncTables == <<passed_index, block_miner, miner_window>>

HeightOf(b) == IF b = Genesis THEN START_HEIGHT ELSE Height[b]

\* Mutant: the consensus rows are not looked at.
check_consensus_BlocksOnly(b) == \E c \in block : HeightOf(c) = Height[b]

\* utxo_manage::check_consensus: verify and the uploads refuse such a block.
check_consensus(b) ==
  \/ b \in consensus_block
  \/ \E c \in block : HeightOf(c) = Height[b]

\* The three tables as one value: an action that calls consensus inline hands
\* over the tables it has just written.
SyncNow == [passed |-> passed_index, known |-> block_miner, window |-> miner_window]
SetSync(y) == passed_index' = y.passed /\ block_miner' = y.known /\ miner_window' = y.window

Passed(y, b) == y.passed[b] # << >>

\* The row that find(hash) returns is the one with the lowest id.
PassedBy(y, b) == Head(y.passed[b])

\* The miner of the block still has priority and the upload is another's.
WaitsForMiner(y, b) ==
  /\ Miner[b] # NoAccount
  /\ PassedBy(y, b) # Miner[b]
  /\ b \in y.window

\* blksync.xsat::consensus, the inline action of utxomng.xsat, forgets a block.
Forget(y, b) == [passed |-> [y.passed EXCEPT ![b] = << >>],
                 known |-> y.known \ {b}, window |-> y.window \ {b}]

\* Mutant: the miner of the block is put last like everybody.
Pass_Last(y, s, b) ==
  [passed |-> [y.passed EXCEPT ![b] = Append(@, s)], known |-> y.known \cup {b},
   window |-> IF b \notin y.known /\ Miner[b] # NoAccount THEN y.window \cup {b} ELSE y.window]

\* verify saves the miner of the block the first time it passes, and a row for
\* the synchronizer: the miner's own comes first while the window is open.
Pass(y, s, b) ==
  LET window == IF b \notin y.known /\ Miner[b] # NoAccount THEN y.window \cup {b} ELSE y.window
  IN [passed |-> [y.passed EXCEPT ![b] =
                    IF s = Miner[b] /\ b \in window THEN <<s>> \o @ ELSE Append(@, s)],
      known |-> y.known \cup {b}, window |-> window]

\* poolreg.xsat::updateheight for the miner of a block.
updateheight(m, h) ==
  IF ~synchronizer[m].registered
    THEN \E limit \in ProducedLimits : synchronizer' = [synchronizer EXCEPT ![m] =
           [registered |-> TRUE, produced_block_limit |-> limit,
            latest_produced_block_height |-> h]]
    ELSE synchronizer' = [synchronizer EXCEPT ![m].latest_produced_block_height = MaxOf(@, h)]

SyncInit ==
  /\ passed_index = [b \in Blocks |-> << >>]
  /\ block_miner = {} /\ miner_window = {}

SyncTypeOK ==
  /\ passed_index \in [Blocks -> Seq(Synchronizers)]
  /\ block_miner \subseteq Blocks
  /\ miner_window \subseteq block_miner
  /\ uploader \in [Blocks -> Synchronizers \cup {NoAccount}]
  /\ block \subseteq Blocks \cup {Genesis}
=============================================================================
