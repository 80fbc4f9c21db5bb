------------------------- MODULE UtxoManageProofs -------------------------
(***************************************************************************)
(* Proofs about UtxoManage: its invariants hold for every tree of blocks   *)
(* with any inputs and outputs, any depth of irreversibility, any number   *)
(* of validators and synchronizers and any batch sizes.                    *)
(***************************************************************************)
EXTENDS UtxoManage, FoldTheorems, SequenceTheorems

\* The heights of a block and of its parent.
LEMMA Heights0 ==
  /\ MaxHeight \in Nat
  /\ \A b \in Blocks : Height[b] \in Heights /\ Height[b] \in Nat /\ Height[b] > 0
  /\ \A b \in Blocks : HeightOf(b) = Height[b]
  /\ HeightOf(Genesis) = 0
  /\ \A b \in Blocks : Prev[b] \in Blocks \cup {Genesis} /\ HeightOf(Prev[b]) = Height[b] - 1
<1> USE TablesAssumption, SyncAssumption DEF TablesAssumption, SyncAssumption, HeightOf,
      START_HEIGHT, Heights
<1>1. MaxHeight \in Nat
  OBVIOUS
<1>2. \A b \in Blocks : Height[b] \in 1..MaxHeight
  OBVIOUS
<1>3. \A b \in Blocks : HeightOf(b) = Height[b]
  OBVIOUS
<1>4. ASSUME NEW b \in Blocks PROVE Prev[b] \in Blocks \cup {Genesis} /\ HeightOf(Prev[b]) = Height[b] - 1
  <2>1. CASE Prev[b] = Genesis
    BY <2>1
  <2>2. CASE Prev[b] # Genesis
    <3>1. Height[b] = Height[Prev[b]] + 1 /\ Prev[b] \in Blocks
      BY <2>2
    <3>2. Height[Prev[b]] \in 1..MaxHeight
      BY <1>2, <3>1
    <3> QED
      BY <1>1, <2>2, <3>1, <3>2
  <2> QED
    BY <2>1, <2>2
<1> QED
  BY <1>1, <1>2, <1>3, <1>4

-----------------------------------------------------------------------------
\* The invariant holds initially.
LEMMA InitUtxoInv == UtxoSpecInit => UtxoInv
<1> SUFFICES ASSUME UtxoSpecInit PROVE UtxoInv
  OBVIOUS
<1> USE TablesAssumption, SyncAssumption, UtxoAssumption
<1>1. TablesTypeOK
  <2>1. endorsement \in [Scopes -> [Blocks -> Rows]]
    BY DEF UtxoSpecInit, NoRow, Rows
  <2>2. synchronizer \in [Synchronizers -> [registered : BOOLEAN, produced_block_limit : Nat,
                                            latest_produced_block_height : 0..MaxHeight]]
    BY DEF UtxoSpecInit, TablesAssumption, START_HEIGHT
  <2> QED
    BY <2>1, <2>2 DEF UtxoSpecInit, UtxoInit, TablesTypeOK, TablesAssumption, START_HEIGHT, Statuses
<1>2. SyncTypeOK
  BY DEF UtxoSpecInit, UtxoInit, SyncInit, SyncTypeOK
<1>3. DOMAIN parsing_progress_of = {}
  BY DEF UtxoSpecInit, UtxoInit
<1>4. IsFiniteSet(Validators)
  BY DEF TablesAssumption
<1>5. Cardinality(Validators) \in Nat
  BY <1>4, FS_CardinalityType
<1>6. UtxoTypeOK
  <2>1. pending_utxo \in [Blocks -> Seq(OpType)]
    BY DEF UtxoSpecInit, UtxoInit
  <2> QED
    BY <1>1, <1>2, <1>3, <1>5, <2>1
    DEF UtxoSpecInit, UtxoInit, UtxoTypeOK, TablesAssumption, NoBlock
<1>7. MigrationWindow
  BY <1>6 DEF MigrationWindow, UtxoSpecInit, UtxoInit, START_HEIGHT, UtxoAssumption
<1>8. PhasesAlternate /\ MigratedBlockIsParsed /\ MigratedBlockIsDeep
  BY DEF PhasesAlternate, MigratedBlockIsParsed, MigratedBlockIsDeep, UtxoSpecInit, UtxoInit
<1>9. NoRowsBelowTip /\ ParentsReachedConsensus /\ NoSecondConsensus
  BY DEF NoRowsBelowTip, ParentsReachedConsensus, NoSecondConsensus, UtxoSpecInit, UtxoInit
<1>10. ParsingInOrder
  BY <1>3 DEF ParsingInOrder, UtxoSpecInit, UtxoInit
<1>11. ConsensusRowsVerified /\ VerifiedOnce
  BY FS_EmptySet DEF ConsensusRowsVerified, VerifiedOnce, UtxoSpecInit, UtxoInit, SyncInit,
     Passed, SyncNow
<1>12. OneBlockPerHeight
  <2>1. Floor = 0 /\ block = {Genesis} /\ irreversible_hash = Genesis /\ irreversible_height = 0
    BY DEF UtxoSpecInit, UtxoInit, Floor, START_HEIGHT
  <2>2. IsFiniteSet({Genesis}) /\ Cardinality({Genesis}) = 1
    BY FS_Singleton
  <2> QED
    BY <2>1, <2>2, Heights0 DEF OneBlockPerHeight
<1>13. UtxosCounted
  BY FS_EmptySet DEF UtxosCounted, UtxoSpecInit, UtxoInit
<1> QED
  BY <1>7, <1>8, <1>9, <1>10, <1>11, <1>12, <1>13 DEF UtxoInv

-----------------------------------------------------------------------------
(***************************************************************************)
(* Blocks and their ancestors.                                             *)
(***************************************************************************)
\* The parent of an ancestor is the next one.
LEMMA AncestorStep ==
  ASSUME NEW p \in Blocks \cup {Genesis}
  PROVE  /\ Ancestor(p, 0) = p
         /\ \A i \in Nat : Ancestor(p, i) \in Blocks \cup {Genesis}
         /\ \A i \in Nat : Ancestor(p, i + 1) = IF Ancestor(p, i) = Genesis THEN Genesis
                                                ELSE Prev[Ancestor(p, i)]
<1> DEFINE IsWalk(f, i) == f = [k \in 0..i |-> IF k = 0 THEN p
                                 ELSE IF f[k - 1] = Genesis THEN Genesis ELSE Prev[f[k - 1]]]
           walk(i) == CHOOSE f : IsWalk(f, i)
<1>1. \A i : Ancestor(p, i) = walk(i)[i]
  BY DEF Ancestor
<1>2. PICK parent \in [Blocks \cup {Genesis} -> Blocks \cup {Genesis}] :
        parent = [x \in Blocks \cup {Genesis} |-> IF x = Genesis THEN Genesis ELSE Prev[x]]
  BY SyncAssumption DEF SyncAssumption
<1>3. \A i \in Nat : \E f \in [0..i -> Blocks \cup {Genesis}] : IsWalk(f, i)
  <2> TAKE i \in Nat
  <2>1. PICK f \in [0..i -> Blocks \cup {Genesis}] :
          f = [k \in 0..i |-> IF k = 0 THEN p ELSE parent[f[k - 1]]]
    <3>1. PICK Val : Val = Blocks \cup {Genesis}
      OBVIOUS
    <3>2. p \in Val /\ parent \in [Val -> Val]
      BY <3>1
    <3>3. PICK f \in [0..i -> Val] : f[0] = p /\ \A k \in 1..i : f[k] = parent[f[k - 1]]
      BY ONLY <3>2, Iteration, SMTT(60)
    <3>4. f = [k \in 0..i |-> IF k = 0 THEN p ELSE parent[f[k - 1]]]
      BY <3>3
    <3> QED
      BY <3>1, <3>4
  <2>2. \A k \in 0..i : k # 0 => f[k - 1] \in Blocks \cup {Genesis}
    OBVIOUS
  <2>3. IsWalk(f, i)
    BY <1>2, <2>1, <2>2
  <2> QED
    BY <2>3
<1>4. \A i \in Nat : IsWalk(walk(i), i)
  <2> HIDE DEF IsWalk
  <2> QED
    BY <1>3
<1> HIDE DEF walk
<1>5. \A i, j \in Nat : i <= j => \A k \in 0..i : walk(i)[k] = walk(j)[k]
  <2> SUFFICES ASSUME NEW i \in Nat, NEW j \in Nat, i <= j
               PROVE  \A k \in 0..i : walk(i)[k] = walk(j)[k]
    OBVIOUS
  <2> DEFINE P == {k \in Nat : k <= i => walk(i)[k] = walk(j)[k]}
  <2>0. /\ \A k \in 0..i : walk(i)[k] = IF k = 0 THEN p
             ELSE IF walk(i)[k - 1] = Genesis THEN Genesis ELSE Prev[walk(i)[k - 1]]
        /\ \A k \in 0..i : walk(j)[k] = IF k = 0 THEN p
             ELSE IF walk(j)[k - 1] = Genesis THEN Genesis ELSE Prev[walk(j)[k - 1]]
    BY <1>4
  <2>1. 0 \in P
    BY <2>0
  <2>2. ASSUME NEW k \in P PROVE k + 1 \in P
    <3> SUFFICES ASSUME k + 1 <= i PROVE walk(i)[k + 1] = walk(j)[k + 1]
      OBVIOUS
    <3>1. k + 1 \in 0..i /\ k + 1 # 0 /\ (k + 1) - 1 = k /\ walk(i)[k] = walk(j)[k]
      OBVIOUS
    <3> QED
      BY <2>0, <3>1
  <2>3. P = Nat
    <3>1. P \in SUBSET Nat
      OBVIOUS
    <3> HIDE DEF P
    <3> QED
      BY <2>1, <2>2, <3>1, SetOfNaturals
  <2> QED
    BY <2>3
<1>6. Ancestor(p, 0) = p
  BY <1>1, <1>4
<1>7. ASSUME NEW i \in Nat
      PROVE  Ancestor(p, i + 1) = IF Ancestor(p, i) = Genesis THEN Genesis
                                  ELSE Prev[Ancestor(p, i)]
  <2>1. walk(i + 1)[i] = walk(i)[i]
    BY <1>5
  <2>2. walk(i + 1)[i + 1] = IF walk(i + 1)[i] = Genesis THEN Genesis ELSE Prev[walk(i + 1)[i]]
    <3>1. i + 1 \in 0..(i + 1) /\ i + 1 # 0 /\ (i + 1) - 1 = i
      OBVIOUS
    <3> QED
      BY <1>4, <3>1
  <2> QED
    BY <1>1, <2>1, <2>2
<1>8. \A i \in Nat : Ancestor(p, i) \in Blocks \cup {Genesis}
  <2> DEFINE P == {i \in Nat : Ancestor(p, i) \in Blocks \cup {Genesis}}
  <2>1. 0 \in P /\ \A i \in P : i + 1 \in P
    BY <1>6, <1>7, SyncAssumption DEF SyncAssumption
  <2>2. P = Nat
    <3>1. P \in SUBSET Nat
      OBVIOUS
    <3> HIDE DEF P
    <3> QED
      BY <2>1, <3>1, SetOfNaturals
  <2> QED
    BY <2>2
<1> QED
  BY <1>6, <1>7, <1>8

\* Walking back along consensus rows, down to the block above the tip, gives the
\* line of descendants the promise asks for.
LEMMA WalkIsLine ==
  ASSUME NEW p \in Blocks, NEW d \in Nat, NEW cons \in SUBSET Blocks,
         \A i \in 0..d : Ancestor(p, i) \in cons
  PROVE  /\ \A i \in 0..d : Height[Ancestor(p, i)] = Height[p] - i
         /\ \A i \in 0..d : i # 0 => Ancestor(p, i) = Prev[Ancestor(p, i - 1)]
<1>1. \A i \in 0..d : i # 0 => Ancestor(p, i) = Prev[Ancestor(p, i - 1)]
  <2> SUFFICES ASSUME NEW i \in 0..d, i # 0 PROVE Ancestor(p, i) = Prev[Ancestor(p, i - 1)]
    OBVIOUS
  <2>1. i - 1 \in Nat /\ (i - 1) + 1 = i /\ i - 1 \in 0..d
    OBVIOUS
  <2>2. Ancestor(p, i - 1) # Genesis
    BY <2>1, SyncAssumption DEF SyncAssumption
  <2> QED
    BY <2>1, <2>2, AncestorStep
<1> DEFINE P == {i \in Nat : i <= d => Height[Ancestor(p, i)] = Height[p] - i}
<1>2. 0 \in P
  BY AncestorStep, Heights0
<1>3. ASSUME NEW i \in P PROVE i + 1 \in P
  <2> SUFFICES ASSUME i + 1 <= d PROVE Height[Ancestor(p, i + 1)] = Height[p] - (i + 1)
    OBVIOUS
  <2>1. i \in Nat /\ i \in 0..d /\ i + 1 \in 0..d /\ (i + 1) - 1 = i /\ i + 1 # 0
    OBVIOUS
  <2>2. Ancestor(p, i) \in Blocks /\ Ancestor(p, i + 1) \in Blocks
    BY <2>1
  <2>3. Ancestor(p, i + 1) = Prev[Ancestor(p, i)]
    BY <1>1, <2>1
  <2>4. Height[Ancestor(p, i)] = Height[p] - i
    BY <2>1
  <2> HIDE DEF P
  <2>5. Height[Ancestor(p, i + 1)] = Height[Ancestor(p, i)] - 1
    BY <2>2, <2>3, Heights0
  <2> QED
    BY <2>1, <2>4, <2>5, Heights0
<1>4. P = Nat
  <2>1. P \in SUBSET Nat
    OBVIOUS
  <2> HIDE DEF P
  <2> QED
    BY <1>2, <1>3, <2>1, SetOfNaturals
<1> QED
  BY <1>1, <1>4

\* Among rows that are closed under parents every block has its ancestors, as
\* long as they are above the height next to the tip.
LEMMA AncestorsInConsensus ==
  ASSUME NEW cons \in SUBSET Blocks, NEW tip \in Nat, NEW p \in cons,
         \A b \in cons : Height[b] > tip + 1 => Prev[b] \in cons,
         NEW d \in Nat, Height[p] = tip + 1 + d
  PROVE  \A i \in 0..d : Ancestor(p, i) \in cons
<1> DEFINE P == {i \in Nat : i <= d => Ancestor(p, i) \in cons /\ Height[Ancestor(p, i)] = Height[p] - i}
<1>1. 0 \in P
  BY AncestorStep, Heights0
<1>2. ASSUME NEW i \in P PROVE i + 1 \in P
  <2> SUFFICES ASSUME i + 1 <= d
               PROVE  Ancestor(p, i + 1) \in cons /\ Height[Ancestor(p, i + 1)] = Height[p] - (i + 1)
    OBVIOUS
  <2>1. i \in Nat /\ Ancestor(p, i) \in cons /\ Height[Ancestor(p, i)] = Height[p] - i
    OBVIOUS
  <2> HIDE DEF P
  <2>2. Height[Ancestor(p, i)] > tip + 1
    BY <2>1
  <2>3. Prev[Ancestor(p, i)] \in cons
    BY <2>1, <2>2
  <2>4. Ancestor(p, i + 1) = Prev[Ancestor(p, i)]
    BY <2>1, AncestorStep, SyncAssumption DEF SyncAssumption
  <2>5. Height[Ancestor(p, i + 1)] = Height[Ancestor(p, i)] - 1
    BY <2>1, <2>3, <2>4, Heights0
  <2> QED
    BY <2>1, <2>3, <2>4, <2>5, Heights0
<1>3. P = Nat
  <2>1. P \in SUBSET Nat
    OBVIOUS
  <2> HIDE DEF P
  <2> QED
    BY <1>1, <1>2, <2>1, SetOfNaturals
<1> QED
  BY <1>3

\* The promised line, of blocks of a given set.
Deep(b, cons) ==
  \E line \in [1..IRREVERSIBLE_BLOCKS -> cons] :
    /\ line[1] = b
    /\ \A i \in 2..IRREVERSIBLE_BLOCKS : Prev[line[i]] = line[i - 1]

\* The ancestors of a block far enough up are such a line.
LEMMA LineToDeep ==
  ASSUME NEW cons \in SUBSET Blocks, NEW p \in cons, NEW d \in Nat,
         IRREVERSIBLE_BLOCKS - 1 <= d, \A i \in 0..d : Ancestor(p, i) \in cons
  PROVE  Deep(Ancestor(p, d), cons)
<1> DEFINE n == IRREVERSIBLE_BLOCKS
           line == [i \in 1..n |-> Ancestor(p, d + 1 - i)]
<1>1. n \in Nat /\ n > 1
  BY UtxoAssumption DEF UtxoAssumption
<1>2. \A i \in 1..n : d + 1 - i \in 0..d
  BY <1>1
<1>3. line \in [1..n -> cons] /\ line[1] = Ancestor(p, d)
  BY <1>1, <1>2
<1>4. ASSUME NEW i \in 2..n PROVE Prev[line[i]] = line[i - 1]
  <2>1. i \in 1..n /\ i - 1 \in 1..n /\ d + 1 - (i - 1) = (d + 1 - i) + 1
    BY <1>1
  <2> DEFINE k == d + 1 - (i - 1)
  <2>2. k \in 0..d /\ k # 0 /\ k - 1 = d + 1 - i
    BY <1>1, <1>2, <2>1
  <2>3. Ancestor(p, k) = Prev[Ancestor(p, k - 1)]
    <3> HIDE DEF k
    <3> QED
      BY <2>2, WalkIsLine
  <2>4. line[i] = Ancestor(p, k - 1) /\ line[i - 1] = Ancestor(p, k)
    BY <2>1, <2>2
  <2> QED
    BY <2>3, <2>4
<1> HIDE DEF line
<1> QED
  BY <1>3, <1>4 DEF Deep

-----------------------------------------------------------------------------
(***************************************************************************)
(* What is parsed and migrated next.                                       *)
(***************************************************************************)
Uploaders == [Blocks -> Synchronizers \cup {NoAccount}]
ProgressType == [parser : Synchronizers, expired : BOOLEAN, rows : Nat]

ParsesNext(cons, done) ==
  /\ parsing_height' \in 0..MaxHeight
  /\ parsing_height' <= irreversible_height + IRREVERSIBLE_BLOCKS + 1
  /\ parsing_height' # 0 =>
       /\ parsing_height' > irreversible_height
       /\ \A b \in cons \ done : Height[b] > irreversible_height => Height[b] >= parsing_height'
       /\ \E b \in cons : Height[b] = parsing_height'
  /\ DOMAIN parsing_progress_of' \subseteq {b \in cons \ done : Height[b] = parsing_height'}
  /\ \A b \in DOMAIN parsing_progress_of' :
       parsing_progress_of'[b] \in ProgressType /\ parsing_progress_of'[b].rows = 0

\* What is parsed next: the lowest unparsed height, which is in the window because
\* the rows above it are closed under parents.
LEMMA NextParsableEffect ==
  ASSUME NEW cons \in SUBSET Blocks, NEW done \in SUBSET cons, NEW up \in Uploaders,
         \A b \in cons : up[b] # NoAccount,
         irreversible_height \in Nat,
         \A b \in cons : Height[b] > irreversible_height + 1 => Prev[b] \in cons,
         \A b \in done : Height[b] <= irreversible_height + IRREVERSIBLE_BLOCKS,
         NextParsable(cons, done, up)
  PROVE  ParsesNext(cons, done)
<1> DEFINE U == Unparsed(cons, done)
           H == {Height[b] : b \in U}
<1>0. IRREVERSIBLE_BLOCKS \in Nat /\ IRREVERSIBLE_BLOCKS > 1
  BY UtxoAssumption DEF UtxoAssumption
<1>1. CASE U = {}
  <2>1. parsing_height' = 0 /\ parsing_progress_of' = << >>
    BY <1>1 DEF NextParsable
  <2>2. DOMAIN parsing_progress_of' = {}
    BY <2>1
  <2> QED
    BY <1>0, <2>1, <2>2, Heights0 DEF ParsesNext
<1>2. CASE U # {}
  <2>1. /\ parsing_height' = Min(H)
        /\ parsing_progress_of' =
             [b \in {c \in U : Height[c] = Min(H)} |-> NewProgress(up[b])]
    BY <1>2 DEF NextParsable
  <2>2. H \in SUBSET Nat /\ H # {}
    BY <1>2, Heights0, ZenonT(60) DEF Unparsed
  <2>3. Min(H) \in H /\ \A y \in H : Min(H) <= y
    BY <2>2, MinIsLeast
  <2>4. PICK c \in U : Height[c] = Min(H)
    BY <2>3
  <2>5. c \in cons \ done /\ Height[c] > irreversible_height
    BY DEF Unparsed
  <2>6. \A b \in cons \ done : Height[b] > irreversible_height => Height[b] >= Min(H)
    BY <2>3, Heights0 DEF Unparsed
  <2>7. Height[c] <= irreversible_height + IRREVERSIBLE_BLOCKS + 1
    <3> SUFFICES ASSUME Height[c] > irreversible_height + IRREVERSIBLE_BLOCKS + 1 PROVE FALSE
      BY <2>5, <1>0, Heights0
    <3>1. Prev[c] \in cons /\ Height[Prev[c]] = Height[c] - 1
      BY <1>0, <2>5, Heights0
    <3>2. Prev[c] \in cons \ done /\ Height[Prev[c]] > irreversible_height
      <4>1. Height[c] \in Nat
        BY <2>5, Heights0
      <4>2. Height[Prev[c]] > irreversible_height + IRREVERSIBLE_BLOCKS
        BY <1>0, <3>1, <4>1
      <4>3. Height[Prev[c]] \in Nat
        BY <3>1, <4>1, <4>2, <1>0
      <4>4. Prev[c] \notin done
        BY <1>0, <4>2, <4>3
      <4> QED
        BY <1>0, <3>1, <4>2, <4>3, <4>4
    <3> QED
      BY <2>4, <2>5, <2>6, <3>1, <3>2, Heights0
  <2>8. \A b \in DOMAIN parsing_progress_of' : b \in U /\ b \in cons \ done /\ Height[b] = Min(H)
    BY <2>1 DEF Unparsed
  <2>9. ASSUME NEW b \in DOMAIN parsing_progress_of'
        PROVE  parsing_progress_of'[b] \in ProgressType /\ parsing_progress_of'[b].rows = 0
    <3>1. parsing_progress_of'[b] = NewProgress(up[b]) /\ up[b] \in Synchronizers
      BY <2>1, <2>8 DEF Uploaders
    <3> QED
      BY <3>1 DEF NewProgress, ProgressType
  <2> HIDE DEF U, H
  <2> QED
    BY <2>1, <2>4, <2>5, <2>6, <2>7, <2>8, <2>9, Heights0 DEF Heights, ParsesNext
<1> QED
  BY <1>1, <1>2

\* The providers of a block are validators.
LEMMA ProvidersType ==
  ASSUME NEW t \in [Scopes -> [Blocks -> Rows]], NEW b \in Blocks, NEW head
  PROVE  ProvidersToReward(t, b, head) \in 0..Cardinality(Validators)
<1>1. IsFiniteSet(Validators)
  BY TablesAssumption DEF TablesAssumption
<1>2. \A s \in Scopes : t[s][b].provider_validators \subseteq Validators
  BY DEF Rows
<1>3. \A s \in Scopes : Cardinality(t[s][b].provider_validators) \in 0..Cardinality(Validators)
  BY <1>1, <1>2, FS_Subset, FS_CardinalityType
<1> QED
  BY <1>3 DEF ProvidersToReward, MaxOf, Scopes

MigratesNext(cons, done) ==
  /\ migrating_height' = irreversible_height + 1
  /\ migrating_hash' \in done
  /\ Height[migrating_hash'] = irreversible_height + 1
  /\ Prev[migrating_hash'] = irreversible_hash
  /\ Deep(migrating_hash', cons)
  /\ migrating_num_utxos' = Len(Ops[migrating_hash'])
  /\ migrated_num_utxos' = 0 /\ num_validators_assigned' = 0
  /\ num_provider_validators' \in 0..Cardinality(Validators)

\* When a migration is chosen, its block is parsed, extends the tip and has its
\* line of descendants.
LEMMA NextIrreversibleEffect ==
  ASSUME NEW cons \in SUBSET Blocks, IsFiniteSet(cons), NEW done \in SUBSET cons,
         NEW t \in [Scopes -> [Blocks -> Rows]], NEW head,
         irreversible_height \in Nat, migrating_height = 0,
         \A b \in cons : Height[b] > irreversible_height + 1 => Prev[b] \in cons,
         parsing_height' \in Nat,
         parsing_height' > irreversible_height + IRREVERSIBLE_BLOCKS =>
           /\ parsing_height' <= irreversible_height + IRREVERSIBLE_BLOCKS + 1
           /\ \A b \in cons \ done : Height[b] > irreversible_height => Height[b] >= parsing_height'
           /\ \E b \in cons : Height[b] = parsing_height',
         NextIrreversible(t, cons, done, head)
  PROVE  IF parsing_height' <= irreversible_height + IRREVERSIBLE_BLOCKS
           THEN UNCHANGED <<migrating_height, migrationVars>>
           ELSE MigratesNext(cons, done)
<1> DEFINE first == {b \in cons : Height[b] = irreversible_height + 1}
           n == IRREVERSIBLE_BLOCKS
<1>0. n \in Nat /\ n > 1
  BY UtxoAssumption DEF UtxoAssumption
<1>1. CASE parsing_height' <= irreversible_height + n
  BY <1>1 DEF NextIrreversible
<1>2. CASE parsing_height' > irreversible_height + n
  <2>1. PICK b \in find_next_irreversible_block(cons) :
          StartMigration(t, b, head, NumUtxos(b, done))
    BY <1>0, <1>2 DEF NextIrreversible
  <2>2. b \in first /\ Prev[b] = irreversible_hash
    BY DEF find_next_irreversible_block
  <2>3. Height[b] = irreversible_height + 1 /\ b \in Blocks
    BY <2>2
  <2>4. b \in done
    BY <1>0, <1>2, <2>2
  <2>5. Deep(b, cons)
    <3>1. CASE Cardinality(first) = 1
      <4>1. PICK c \in cons : Height[c] = irreversible_height + 1 + n
        BY <1>0, <1>2
      <4>2. \A i \in 0..n : Ancestor(c, i) \in cons
        BY <1>0, <4>1, AncestorsInConsensus
      <4>3. Height[Ancestor(c, n)] = Height[c] - n
        BY <1>0, <4>2, n \in 0..n, WalkIsLine
      <4>4. Ancestor(c, n) \in first
        BY <1>0, <4>1, <4>2, <4>3
      <4>5. IsFiniteSet(first)
        BY FS_Subset
      <4>6. PICK a : first = {a}
        BY <3>1, <4>5, FS_Singleton
      <4>7. Ancestor(c, n) = b
        BY <2>2, <4>4, <4>6
      <4>8. Deep(Ancestor(c, n), cons)
        BY <1>0, <4>2, LineToDeep
      <4> QED
        BY <4>7, <4>8
    <3>2. CASE Cardinality(first) # 1
      <4>1. PICK p \in HeaviestAt(cons, irreversible_height + n) :
              Ancestor(p, n - 1) = b /\ \A i \in 1..(n - 1) : Ancestor(p, i) \in cons
        BY <3>2 DEF find_next_irreversible_block
      <4>2. p \in cons
        BY DEF HeaviestAt
      <4>3. \A i \in 0..(n - 1) : Ancestor(p, i) \in cons
        BY <1>0, <4>1, <4>2, AncestorStep
      <4>4. n - 1 \in Nat
        BY <1>0
      <4>5. Deep(Ancestor(p, n - 1), cons)
        BY <4>2, <4>3, <4>4, LineToDeep
      <4> QED
        BY <4>1, <4>5
    <3> QED
      BY <3>1, <3>2
  <2>6. num_provider_validators' \in 0..Cardinality(Validators)
    BY <2>1, <2>3, ProvidersType DEF StartMigration
  <2>7. ~(parsing_height' <= irreversible_height + n)
    BY <1>0, <1>2
  <2> QED
    BY <2>1, <2>2, <2>3, <2>4, <2>5, <2>6, <2>7 DEF StartMigration, NumUtxos, MigratesNext
<1> QED
  BY <1>0, <1>1, <1>2

-----------------------------------------------------------------------------
(***************************************************************************)
(* The inline action consensus, and the contracts that call it.            *)
(***************************************************************************)
EndorsementType == [Scopes -> [Blocks -> Rows]]
SynchronizerType == [Synchronizers -> [registered : BOOLEAN, produced_block_limit : Nat,
                                       latest_produced_block_height : 0..MaxHeight]]

\* The tables of blksync.xsat that a call of consensus for block b works on: only
\* b differs from what is stored, and if b is verified it extends consensus and, to
\* be stored, is above the tip.
SyncSound(y, b) ==
  /\ y.passed \in [Blocks -> Seq(Synchronizers)]
  /\ y.known \subseteq Blocks /\ y.window \subseteq y.known
  /\ \A c \in Blocks \ {b} : y.passed[c] = passed_index[c]
  /\ \A i, j \in DOMAIN y.passed[b] : y.passed[b][i] = y.passed[b][j] => i = j
  /\ Passed(y, b) =>
       /\ b \notin consensus_block
       /\ Height[b] > Floor + 1 => Prev[b] \in consensus_block

SyncReady(y, b) == SyncSound(y, b) /\ (Passed(y, b) => Height[b] > Floor)

\* Without effect on the chain the verified blocks may still change.
LEMMA SyncOnlyStep ==
  ASSUME UtxoInv, NEW b \in Blocks, NEW y, SyncSound(y, b), SetSync(y),
         UNCHANGED <<utxoVars, synchronizer, config>>, endorsement' \in EndorsementType
  PROVE  UtxoInv'
<1>1. /\ passed_index' = y.passed /\ block_miner' = y.known /\ miner_window' = y.window
      /\ Floor' = Floor
  BY DEF SetSync, Floor, utxoVars, chainTables
<1>2. UtxoTypeOK'
  <2>1. TablesTypeOK'
    BY DEF UtxoInv, MigrationWindow, UtxoTypeOK, TablesTypeOK, utxoVars, chainTables,
       EndorsementType
  <2>2. SyncTypeOK'
    BY <1>1 DEF UtxoInv, MigrationWindow, UtxoTypeOK, SyncTypeOK, SyncSound, utxoVars
  <2> QED
    BY <2>1, <2>2 DEF UtxoInv, MigrationWindow, UtxoTypeOK, utxoVars, chainTables, migrationVars,
       parsingVars, utxoTables
<1>3. MigrationWindow' /\ MigratedBlockIsParsed' /\ PhasesAlternate'
  BY <1>2 DEF UtxoInv, MigrationWindow, MigratedBlockIsParsed, PhasesAlternate, utxoVars,
     chainTables, migrationVars, parsingVars
<1>4. NoRowsBelowTip' /\ ParentsReachedConsensus'
  BY <1>1 DEF UtxoInv, NoRowsBelowTip, ParentsReachedConsensus, utxoVars, chainTables, utxoTables
<1>5. NoSecondConsensus'
  <2> SUFFICES ASSUME NEW c \in consensus_block PROVE y.passed[c] = << >>
    BY <1>1 DEF NoSecondConsensus, utxoVars, chainTables, Passed, SyncNow
  <2>1. c \in Blocks /\ passed_index[c] = << >>
    BY DEF UtxoInv, NoSecondConsensus, Passed, SyncNow, MigrationWindow, UtxoTypeOK, TablesTypeOK
  <2> QED
    BY <2>1 DEF SyncSound, Passed
<1>6. ParsingInOrder' /\ UtxosCounted'
  BY DEF UtxoInv, ParsingInOrder, UtxosCounted, utxoVars, chainTables, parsingVars, utxoTables
<1>7. ConsensusRowsVerified'
  BY <1>1 DEF UtxoInv, ConsensusRowsVerified, SyncSound, utxoVars, chainTables, Passed, SyncNow
<1>8. VerifiedOnce'
  <2> SUFFICES ASSUME NEW c \in Blocks
               PROVE  \A i, j \in DOMAIN y.passed[c] : y.passed[c][i] = y.passed[c][j] => i = j
    BY <1>1 DEF VerifiedOnce
  <2> QED
    BY DEF UtxoInv, VerifiedOnce, SyncSound
<1>9. OneBlockPerHeight'
  BY <1>1 DEF UtxoInv, OneBlockPerHeight, utxoVars, chainTables
<1>10. MigratedBlockIsDeep'
  BY DEF UtxoInv, MigratedBlockIsDeep, utxoVars, chainTables, migrationVars, Promise!DeepEnough
<1> QED
  BY <1>3, <1>4, <1>5, <1>6, <1>7, <1>8, <1>9, <1>10 DEF UtxoInv

\* updateheight keeps the table of synchronizers well typed.
LEMMA UpdateHeightType ==
  ASSUME NEW m \in Synchronizers, NEW h \in Heights, synchronizer \in SynchronizerType,
         updateheight(m, h)
  PROVE  synchronizer' \in SynchronizerType
<1>1. h \in 0..MaxHeight
  BY DEF Heights
<1>2. CASE ~synchronizer[m].registered
  <2>1. PICK limit \in ProducedLimits : synchronizer' = [synchronizer EXCEPT ![m] =
           [registered |-> TRUE, produced_block_limit |-> limit,
            latest_produced_block_height |-> h]]
    BY <1>2 DEF updateheight
  <2>2. limit \in Nat
    BY TablesAssumption DEF TablesAssumption
  <2> QED
    BY <1>1, <2>1, <2>2 DEF SynchronizerType
<1>3. CASE synchronizer[m].registered
  <2>1. MaxOf(synchronizer[m].latest_produced_block_height, h) \in 0..MaxHeight
    BY <1>1 DEF MaxOf, SynchronizerType
  <2> QED
    BY <1>3, <2>1 DEF updateheight, SynchronizerType
<1> QED
  BY <1>2, <1>3

\* A line of descendants stays one when more blocks reach consensus.
LEMMA DeepGrows ==
  ASSUME consensus_block \subseteq consensus_block', UNCHANGED migrating_hash,
         Promise!DeepEnough(migrating_hash)
  PROVE  Promise!DeepEnough(migrating_hash)'
<1>1. PICK line \in [1..IRREVERSIBLE_BLOCKS -> consensus_block] :
        /\ line[1] = migrating_hash
        /\ \A i \in 2..IRREVERSIBLE_BLOCKS : Prev[line[i]] = line[i - 1]
  BY DEF Promise!DeepEnough
<1>2. line \in [1..IRREVERSIBLE_BLOCKS -> consensus_block']
  OBVIOUS
<1> QED
  BY <1>1, <1>2 DEF Promise!DeepEnough

\* The effect of consensus on a block that is verified and endorsed.
LEMMA StoreStep ==
  ASSUME UtxoInv, NEW b \in Blocks, NEW y, SyncReady(y, b), NEW t \in EndorsementType,
         Consensus(t, y, b), MayReachConsensus(t, y, b),
         UNCHANGED config, endorsement' \in EndorsementType
  PROVE  UtxoInv'
<1> DEFINE cons == consensus_block \cup {b}
           n == IRREVERSIBLE_BLOCKS
\* What the call does.
<1>1. /\ consensus_block' = cons
      /\ uploader' = [uploader EXCEPT ![b] = PassedBy(y, b)]
      /\ head_height' = MaxOf(head_height, Height[b])
      /\ IF Miner[b] = NoAccount THEN UNCHANGED synchronizer ELSE updateheight(Miner[b], Height[b])
      /\ IF parsing_height = Height[b]
           THEN /\ parsing_progress_of' = Put(parsing_progress_of, b, NewProgress(PassedBy(y, b)))
                /\ UNCHANGED parsing_height
           ELSE IF parsing_height # 0 THEN UNCHANGED parsingVars
                                      ELSE NextParsable(cons, parsed, uploader')
      /\ NextIrreversible(t, cons, parsed, head_height')
      /\ passed_index' = [y.passed EXCEPT ![b] = << >>]
      /\ block_miner' = y.known \ {b} /\ miner_window' = y.window \ {b}
      /\ UNCHANGED <<irreversible_height, irreversible_hash, parsed_height, status, parsed,
                     utxoTables, block>>
  BY DEF Consensus, SetSync, Forget
<1>2. /\ Passed(y, b) /\ b \notin consensus_block /\ Height[b] > Floor
      /\ Height[b] > Floor + 1 => Prev[b] \in consensus_block
  BY DEF MayReachConsensus, SyncReady, SyncSound
\* What holds before.
<1>3. /\ UtxoTypeOK
      /\ irreversible_height \in 0..MaxHeight /\ migrating_height \in 0..MaxHeight
      /\ parsing_height \in 0..MaxHeight
      /\ parsing_height <= irreversible_height + n + 1
      /\ migrating_height # 0 <=> parsing_height > irreversible_height + n
      /\ consensus_block \subseteq Blocks /\ parsed \subseteq consensus_block
  BY DEF UtxoInv, MigrationWindow, UtxoTypeOK, TablesTypeOK
<1>4. /\ cons \in SUBSET Blocks /\ IsFiniteSet(cons) /\ parsed \in SUBSET cons
  BY <1>3, FS_AddElement DEF UtxoInv, ConsensusRowsVerified
<1>5. n \in Nat /\ n > 1 /\ MaxHeight \in Nat
  BY Heights0, UtxoAssumption DEF UtxoAssumption
<1>6. PassedBy(y, b) \in Synchronizers
  BY <1>2 DEF SyncReady, SyncSound, Passed, PassedBy
<1>7. uploader' \in Uploaders /\ \A c \in cons : uploader'[c] # NoAccount
  <2>1. uploader \in Uploaders
    BY <1>3 DEF UtxoTypeOK, SyncTypeOK, Uploaders
  <2>2. uploader' \in Uploaders
    BY <1>1, <1>6, <2>1 DEF Uploaders
  <2>3. NoAccount \notin Synchronizers
    BY SyncAssumption DEF SyncAssumption
  <2>4. \A c \in consensus_block : uploader[c] # NoAccount
    BY DEF UtxoInv, ConsensusRowsVerified
  <2> QED
    BY <1>1, <1>3, <1>6, <2>1, <2>2, <2>3, <2>4 DEF Uploaders
<1>8. Floor = IF status = "distributing_rewards" THEN migrating_height ELSE irreversible_height
  BY DEF Floor
<1>9. /\ migrating_height # 0 => migrating_height = irreversible_height + 1
      /\ status = "distributing_rewards" => migrating_height # 0
  BY DEF UtxoInv, MigratedBlockIsParsed, PhasesAlternate
<1>10. Floor \in Nat /\ irreversible_height <= Floor /\ Floor <= irreversible_height + 1
       /\ (migrating_height = 0 => Floor = irreversible_height)
  BY <1>3, <1>5, <1>8, <1>9
<1>11. \A c \in cons : Height[c] > Floor + 1 => Prev[c] \in cons
  BY <1>2 DEF UtxoInv, ParentsReachedConsensus
<1>12. \A c \in parsed : Height[c] <= irreversible_height + n
  BY DEF UtxoInv, ParsingInOrder
\* The parsing height.
<1>13. /\ parsing_height' \in 0..MaxHeight
       /\ parsing_height' <= irreversible_height + n + 1
       /\ parsing_height' # 0 => parsing_height' > irreversible_height
       /\ DOMAIN parsing_progress_of' \subseteq {c \in cons \ parsed : Height[c] = parsing_height'}
       /\ \A c \in DOMAIN parsing_progress_of' :
            parsing_progress_of'[c] \in ProgressType /\ parsing_progress_of'[c].rows <= Len(Ops[c])
       /\ parsing_height' = 0 => parsing_height = 0
       /\ parsing_height # 0 => parsing_height' = parsing_height
       /\ parsing_height = 0 /\ parsing_height' # 0 =>
            /\ \A c \in cons \ parsed : Height[c] > irreversible_height => Height[c] >= parsing_height'
            /\ \E c \in cons : Height[c] = parsing_height'
  <2>1. /\ \A c \in DOMAIN parsing_progress_of :
             /\ c \in consensus_block \ parsed /\ Height[c] = parsing_height
             /\ parsing_progress_of[c] \in ProgressType
             /\ parsing_progress_of[c].rows <= Len(Ops[c])
        /\ parsing_height # 0 => parsing_height > irreversible_height
    BY <1>3 DEF UtxoInv, ParsingInOrder, UtxoTypeOK, ProgressType
  <2>2. parsing_height \in Nat /\ Height[b] > 0
    BY <1>3, <1>5, Heights0
  <2>3. CASE parsing_height = Height[b]
    <3>1. /\ parsing_height' = parsing_height
          /\ parsing_progress_of' = Put(parsing_progress_of, b, NewProgress(PassedBy(y, b)))
      BY <1>1, <2>3
    <3>2. b \in cons \ parsed
      BY <1>2, <1>3
    <3>3. NewProgress(PassedBy(y, b)) \in ProgressType /\ NewProgress(PassedBy(y, b)).rows = 0
      BY <1>6 DEF NewProgress, ProgressType
    <3>4. Len(Ops[b]) \in Nat
      BY UtxoAssumption DEF UtxoAssumption
    <3>5. DOMAIN parsing_progress_of' \subseteq {c \in cons \ parsed : Height[c] = parsing_height'}
      BY <2>1, <2>3, <3>1, <3>2 DEF Put
    <3>6. \A c \in DOMAIN parsing_progress_of' :
            parsing_progress_of'[c] \in ProgressType /\ parsing_progress_of'[c].rows <= Len(Ops[c])
      BY <2>1, <3>1, <3>3, <3>4 DEF Put
    <3> QED
      BY <1>3, <2>1, <2>2, <2>3, <3>1, <3>5, <3>6
  <2>4. CASE parsing_height # Height[b] /\ parsing_height # 0
    <3>1. UNCHANGED <<parsing_height, parsing_progress_of>>
      BY <1>1, <2>4 DEF parsingVars
    <3> QED
      BY <1>3, <2>1, <2>2, <2>4, <3>1
  <2>5. CASE parsing_height # Height[b] /\ parsing_height = 0
    <3>1. NextParsable(cons, parsed, uploader')
      BY <1>1, <2>5
    <3>2. migrating_height = 0 /\ Floor = irreversible_height
      BY <1>3, <1>5, <1>10, <2>5
    <3>3. \A c \in cons : Height[c] > irreversible_height + 1 => Prev[c] \in cons
      BY <1>11, <3>2
    <3>4. irreversible_height \in Nat
      BY <1>3
    <3>5. ParsesNext(cons, parsed)
      <4>1. PICK C, D, up : C = cons /\ D = parsed /\ up = uploader'
        OBVIOUS
      <4> HIDE DEF cons
      <4>2. C \in SUBSET Blocks /\ D \in SUBSET C /\ up \in Uploaders
        BY <1>4, <1>7, <4>1
      <4>3. (\A c \in C : up[c] # NoAccount) /\ NextParsable(C, D, up)
        BY <1>7, <3>1, <4>1
      <4>4. /\ \A c \in C : Height[c] > irreversible_height + 1 => Prev[c] \in C
            /\ \A c \in D : Height[c] <= irreversible_height + IRREVERSIBLE_BLOCKS
        BY <1>12, <3>3, <4>1
      <4>5. ParsesNext(C, D)
        BY <3>4, <4>2, <4>3, <4>4, NextParsableEffect
      <4> QED
        BY <4>1, <4>5
    <3>6. \A c \in Blocks : Len(Ops[c]) \in Nat
      BY UtxoAssumption DEF UtxoAssumption
    <3>7. \A c \in DOMAIN parsing_progress_of' : c \in Blocks
      BY <1>4, <3>5 DEF ParsesNext
    <3> QED
      BY <2>5, <3>5, <3>6, <3>7 DEF ParsesNext
  <2> QED
    BY <2>3, <2>4, <2>5
<1>14. IF migrating_height # 0 \/ parsing_height' <= irreversible_height + n
         THEN UNCHANGED <<migrating_height, migrationVars>>
         ELSE MigratesNext(cons, parsed)
  <2>1. CASE migrating_height # 0
    BY <1>1, <2>1 DEF NextIrreversible
  <2>2. CASE migrating_height = 0
    <3>1. \A c \in cons : Height[c] > irreversible_height + 1 => Prev[c] \in cons
      BY <1>10, <1>11, <2>2
    <3>2. parsing_height' > irreversible_height + n =>
           /\ parsing_height' <= irreversible_height + n + 1
           /\ \A c \in cons \ parsed : Height[c] > irreversible_height => Height[c] >= parsing_height'
           /\ \E c \in cons : Height[c] = parsing_height'
      BY <1>3, <1>5, <1>13, <2>2
    <3>3. irreversible_height \in Nat /\ parsing_height' \in Nat
      BY <1>3, <1>13
    <3>4. NextIrreversible(t, cons, parsed, head_height')
      BY <1>1
    <3> HIDE DEF cons
    <3> QED
      BY <1>4, <2>2, <3>1, <3>2, <3>3, <3>4, NextIrreversibleEffect DEF EndorsementType
  <2> QED
    BY <2>1, <2>2
<1>15. /\ migrating_height' \in 0..MaxHeight
       /\ migrating_height' # 0 => migrating_height' = irreversible_height + 1
       /\ migrating_height # 0 => UNCHANGED <<migrating_height, migrationVars>>
       /\ migrating_height' # 0 <=> parsing_height' > irreversible_height + n
  <2>1. CASE migrating_height # 0
    BY <1>3, <1>5, <1>9, <1>13, <1>14, <2>1 DEF MigratesNext
  <2>2. CASE migrating_height = 0
    <3>1. irreversible_height \in Nat /\ parsing_height' \in Nat /\ parsing_height' <= MaxHeight
      BY <1>3, <1>13
    <3> QED
      BY <1>5, <1>14, <2>2, <3>1 DEF MigratesNext
  <2> QED
    BY <2>1, <2>2
<1>16. Floor' = Floor
  BY <1>1, <1>8, <1>9, <1>15 DEF Floor
\* What holds after.
<1>17. /\ migrating_hash' \in Blocks \cup {NoBlock}
       /\ migrating_num_utxos' \in Nat /\ migrated_num_utxos' \in Nat
       /\ num_provider_validators' \in 0..Cardinality(Validators)
       /\ num_validators_assigned' \in 0..Cardinality(Validators)
  <2>1. CASE migrating_height # 0 \/ parsing_height' <= irreversible_height + n
    BY <1>3, <1>14, <2>1 DEF UtxoTypeOK, migrationVars
  <2>2. CASE ~(migrating_height # 0 \/ parsing_height' <= irreversible_height + n)
    <3>1. MigratesNext(cons, parsed)
      BY <1>14, <2>2
    <3>2. migrating_hash' \in Blocks
      BY <1>3, <3>1 DEF MigratesNext
    <3>3. Len(Ops[migrating_hash']) \in Nat
      BY <3>2, UtxoAssumption DEF UtxoAssumption
    <3>4. IsFiniteSet(Validators)
      BY TablesAssumption DEF TablesAssumption
    <3>5. Cardinality(Validators) \in Nat
      BY <3>4, FS_CardinalityType
    <3> QED
      BY <3>1, <3>2, <3>3, <3>5 DEF MigratesNext
  <2> QED
    BY <2>1, <2>2
<1>18. TablesTypeOK'
  <2>1. Height[b] \in Heights /\ Height[b] \in 0..MaxHeight
    BY Heights0 DEF Heights
  <2>2. head_height' \in 0..MaxHeight
    BY <1>1, <1>3, <2>1 DEF MaxOf, UtxoTypeOK, TablesTypeOK
  <2>3. synchronizer \in SynchronizerType
    BY <1>3 DEF UtxoTypeOK, TablesTypeOK, SynchronizerType
  <2>4. synchronizer' \in SynchronizerType
    BY <1>1, <2>1, <2>3, UpdateHeightType, SyncAssumption DEF SyncAssumption
  <2> QED
    BY <1>1, <1>3, <1>4, <1>15, <2>2, <2>4
    DEF UtxoTypeOK, TablesTypeOK, SynchronizerType, EndorsementType
<1>19. SyncTypeOK'
  BY <1>1, <1>3, <1>7 DEF UtxoTypeOK, SyncTypeOK, SyncReady, SyncSound, Uploaders
<1>20. UtxoTypeOK'
  BY <1>1, <1>3, <1>4, <1>13, <1>17, <1>18, <1>19 DEF UtxoTypeOK, ProgressType, utxoTables
<1>21. MigrationWindow'
  BY <1>1, <1>13, <1>15, <1>20 DEF MigrationWindow
<1>22. MigratedBlockIsParsed'
  <2>1. CASE migrating_height # 0
    BY <1>1, <1>15, <2>1 DEF UtxoInv, MigratedBlockIsParsed, migrationVars
  <2>2. CASE migrating_height = 0 /\ migrating_height' # 0
    BY <1>1, <1>9, <1>14, <2>2 DEF MigratedBlockIsParsed, MigratesNext
  <2> QED
    BY <2>1, <2>2 DEF MigratedBlockIsParsed
<1>23. NoRowsBelowTip' /\ ParentsReachedConsensus'
  <2>1. NoRowsBelowTip'
    BY <1>1, <1>2, <1>10, <1>16, Heights0 DEF UtxoInv, NoRowsBelowTip, utxoTables
  <2> QED
    BY <1>1, <1>11, <1>16, <2>1 DEF ParentsReachedConsensus
<1>24. \A c \in Blocks : passed_index'[c] = IF c = b THEN << >> ELSE passed_index[c]
  BY <1>1 DEF SyncReady, SyncSound
<1>25. NoSecondConsensus'
  BY <1>1, <1>3, <1>24 DEF UtxoInv, NoSecondConsensus, Passed, SyncNow
<1>26. PhasesAlternate'
  <2>1. CASE migrating_height # 0
    BY <1>1, <1>3, <1>13, <1>15, <2>1 DEF UtxoInv, PhasesAlternate, migrationVars
  <2>2. CASE migrating_height = 0 /\ parsing_height # 0
    <3>1. parsing_height' <= irreversible_height + n
      <4>1. irreversible_height \in Nat /\ parsing_height \in Nat /\ parsing_height' = parsing_height
        BY <1>3, <1>13, <2>2
      <4> QED
        BY <1>3, <1>5, <2>2, <4>1
    <3>2. UNCHANGED <<migrating_height, migrating_hash>>
      BY <1>14, <2>2, <3>1 DEF migrationVars
    <3> QED
      BY <1>1, <1>13, <2>2, <3>2 DEF UtxoInv, PhasesAlternate
  <2>3. CASE migrating_height = 0 /\ parsing_height = 0
    <3>1. status' = "waiting"
      BY <1>1, <2>3 DEF UtxoInv, PhasesAlternate
    <3>2. migrating_height' # 0 <=> migrating_hash' # NoBlock
      <4>1. CASE parsing_height' <= irreversible_height + n
        BY <1>14, <2>3, <4>1 DEF UtxoInv, PhasesAlternate, migrationVars
      <4>2. CASE ~(parsing_height' <= irreversible_height + n)
        <5>1. MigratesNext(cons, parsed)
          BY <1>14, <2>3, <4>2
        <5>2. migrating_hash' \in Blocks /\ migrating_height' # 0
          BY <1>3, <5>1 DEF MigratesNext
        <5> QED
          BY <5>2, SyncAssumption DEF SyncAssumption, NoBlock
      <4> QED
        BY <4>1, <4>2
    <3> QED
      BY <3>1, <3>2 DEF PhasesAlternate
  <2> QED
    BY <2>1, <2>2, <2>3
<1>27. ParsingInOrder'
  BY <1>1, <1>12, <1>13 DEF ParsingInOrder
<1>28. ConsensusRowsVerified'
  BY <1>1, <1>4, <1>7, <1>16, <1>24 DEF UtxoInv, ConsensusRowsVerified, Passed, SyncNow
<1>29. VerifiedOnce'
  BY <1>24 DEF UtxoInv, VerifiedOnce
<1>30. OneBlockPerHeight'
  BY <1>1, <1>16 DEF UtxoInv, OneBlockPerHeight
<1>31. MigratedBlockIsDeep'
  <2>1. CASE migrating_height # 0
    <3>1. status' # "distributing_rewards" => Promise!DeepEnough(migrating_hash)
      BY <1>1, <2>1 DEF UtxoInv, MigratedBlockIsDeep
    <3>2. UNCHANGED migrating_hash
      BY <1>15, <2>1 DEF migrationVars
    <3>3. status' # "distributing_rewards" => Promise!DeepEnough(migrating_hash)'
      BY <1>1, <3>1, <3>2, DeepGrows
    <3> QED
      BY <3>3 DEF MigratedBlockIsDeep
  <2>2. CASE migrating_height = 0 /\ migrating_height' # 0
    <3>1. Deep(migrating_hash', cons)
      BY <1>14, <2>2 DEF MigratesNext
    <3> QED
      BY <1>1, <3>1 DEF MigratedBlockIsDeep, Deep, Promise!DeepEnough
  <2> QED
    BY <2>1, <2>2 DEF MigratedBlockIsDeep
<1>32. UtxosCounted'
  BY <1>1 DEF UtxoInv, UtxosCounted, utxoTables
<1> QED
  BY <1>21, <1>22, <1>23, <1>25, <1>26, <1>27, <1>28, <1>29, <1>30, <1>31, <1>32 DEF UtxoInv

\* A call of consensus, whatever it decides.
LEMMA ConsensusStep ==
  ASSUME UtxoInv, NEW b \in Blocks, NEW y, SyncReady(y, b), NEW t \in EndorsementType,
         Consensus(t, y, b), UNCHANGED config, endorsement' \in EndorsementType
  PROVE  UtxoInv'
<1>1. CASE MayReachConsensus(t, y, b)
  BY <1>1, StoreStep
<1>2. CASE ~MayReachConsensus(t, y, b)
  <2>1. SetSync(y) /\ UNCHANGED <<utxoVars, synchronizer>>
    BY <1>2 DEF Consensus
  <2> QED
    BY <2>1, SyncOnlyStep DEF SyncReady
<1> QED
  BY <1>1, <1>2

\* A block that check_consensus does not find is above everything irreversible.
LEMMA UncheckedAboveTip ==
  ASSUME UtxoInv, NEW b \in Blocks, ~check_consensus(b)
  PROVE  b \notin consensus_block /\ Height[b] > Floor
<1>1. \A c \in block : HeightOf(c) # Height[b]
  BY DEF check_consensus
<1>2. Height[b] \in Nat
  BY Heights0
<1>3. Floor \in Nat
  BY DEF UtxoInv, MigrationWindow, UtxoTypeOK, TablesTypeOK, Floor
<1>4. Height[b] \notin 0..Floor
  BY <1>1 DEF UtxoInv, OneBlockPerHeight
<1> QED
  BY <1>2, <1>3, <1>4 DEF check_consensus

\* The tables as they are, for a block above the tip.
LEMMA ReadyNow ==
  ASSUME UtxoInv, NEW b \in Blocks, Height[b] > Floor
  PROVE  SyncReady(SyncNow, b)
<1>1. SyncTypeOK
  BY DEF UtxoInv, MigrationWindow, UtxoTypeOK
<1> QED
  BY <1>1 DEF UtxoInv, SyncTypeOK, SyncReady, SyncSound, SyncNow, VerifiedOnce, NoSecondConsensus,
     ConsensusRowsVerified

\* The tables after a verification, of a block whose parent reached consensus.
LEMMA ReadyPassed ==
  ASSUME UtxoInv, NEW b \in Blocks, NEW s \in Synchronizers, ~check_consensus(b),
         Prev[b] \in consensus_block \cup block,
         \A i \in DOMAIN passed_index[b] : passed_index[b][i] # s
  PROVE  SyncReady(Pass(SyncNow, s, b), b)
<1> DEFINE y == Pass(SyncNow, s, b)
           old == passed_index[b]
<1>1. SyncTypeOK
  BY DEF UtxoInv, MigrationWindow, UtxoTypeOK
<1>2. old \in Seq(Synchronizers) /\ passed_index \in [Blocks -> Seq(Synchronizers)]
  BY <1>1 DEF SyncTypeOK
<1>3. PICK new : /\ new = <<s>> \o old \/ new = Append(old, s)
                 /\ y.passed = [passed_index EXCEPT ![b] = new]
  BY DEF Pass, SyncNow
<1>4. y.known = block_miner \cup {b} /\ (y.window = miner_window \/ y.window = miner_window \cup {b})
  BY DEF Pass, SyncNow
<1> HIDE DEF y
<1>5. new \in Seq(Synchronizers)
  <2>1. <<s>> \in Seq(Synchronizers)
    OBVIOUS
  <2>2. <<s>> \o old \in Seq(Synchronizers)
    BY <1>2, <2>1, ConcatProperties
  <2>3. Append(old, s) \in Seq(Synchronizers)
    BY <1>2, AppendProperties
  <2> QED
    BY <1>3, <2>2, <2>3
<1>6. \A i, j \in DOMAIN old : old[i] = old[j] => i = j
  BY DEF UtxoInv, VerifiedOnce
<1>7. \A i, j \in DOMAIN new : new[i] = new[j] => i = j
  <2>1. CASE new = <<s>> \o old
    <3>1. DOMAIN new = 1..(Len(old) + 1) /\ DOMAIN old = 1..Len(old) /\ Len(old) \in Nat
      BY <1>2, <2>1
    <3>2. new[1] = s /\ \A i \in 2..(Len(old) + 1) : i - 1 \in DOMAIN old /\ new[i] = old[i - 1]
      <4>1. <<s>> \in Seq(Synchronizers) /\ Len(<<s>>) = 1 /\ <<s>>[1] = s
        OBVIOUS
      <4>2. \A i \in 1..(Len(old) + 1) : new[i] = IF i <= 1 THEN <<s>>[i] ELSE old[i - 1]
        BY <1>2, <2>1, <4>1, ConcatProperties
      <4> QED
        BY <3>1, <4>1, <4>2
    <3>3. \A i \in 1..Len(old) : old[i] # s
      BY <3>1
    <3>4. \A i \in 2..(Len(old) + 1) : new[i] # s
      BY <3>1, <3>2, <3>3
    <3>5. \A i, j \in 2..(Len(old) + 1) : new[i] = new[j] => i = j
      <4> SUFFICES ASSUME NEW i \in 2..(Len(old) + 1), NEW j \in 2..(Len(old) + 1), new[i] = new[j]
                   PROVE  i = j
        OBVIOUS
      <4>1. i - 1 = j - 1
        BY <1>6, <3>2
      <4> QED
        BY <3>1, <4>1
    <3>6. \A i \in 1..(Len(old) + 1) : i = 1 \/ i \in 2..(Len(old) + 1)
      BY <3>1
    <3> HIDE DEF old
    <3> QED
      BY <3>1, <3>2, <3>4, <3>5, <3>6
  <2>2. CASE new = Append(old, s)
    <3>1. DOMAIN new = 1..(Len(old) + 1) /\ DOMAIN old = 1..Len(old) /\ Len(old) \in Nat
      BY <1>2, <2>2
    <3>2. new[Len(old) + 1] = s /\ \A i \in 1..Len(old) : new[i] = old[i]
      BY <1>2, <2>2, <3>1
    <3> QED
      BY <1>6, <3>1, <3>2
  <2> QED
    BY <1>3, <2>1, <2>2
<1>8. b \notin consensus_block /\ Height[b] > Floor
  BY UncheckedAboveTip
<1>9. Height[b] > Floor + 1 => Prev[b] \in consensus_block
  <2> SUFFICES ASSUME Height[b] > Floor + 1, Prev[b] \in block PROVE FALSE
    OBVIOUS
  <2>1. HeightOf(Prev[b]) = Height[b] - 1 /\ Height[b] \in Nat
    BY Heights0
  <2>2. HeightOf(Prev[b]) <= Floor
    BY DEF UtxoInv, OneBlockPerHeight
  <2>3. Floor \in Nat
    BY DEF UtxoInv, MigrationWindow, UtxoTypeOK, TablesTypeOK, Floor
  <2> QED
    BY <2>1, <2>2, <2>3
<1>10. y.passed \in [Blocks -> Seq(Synchronizers)] /\ y.passed[b] = new
       /\ \A c \in Blocks \ {b} : y.passed[c] = passed_index[c]
  BY <1>2, <1>3, <1>5
<1>11. y.known \subseteq Blocks /\ y.window \subseteq y.known
  BY <1>1, <1>4 DEF SyncTypeOK
<1>12. SyncReady(y, b)
  BY <1>7, <1>8, <1>9, <1>10, <1>11 DEF SyncReady, SyncSound
<1> QED
  BY <1>12 DEF y

\* blkendt.xsat endorses only blocks above what is being made irreversible.
LEMMA EndorsedReady ==
  ASSUME UtxoInv, NEW s \in Scopes, NEW b \in Blocks, Endorsed(s, b)
  PROVE  SyncReady(SyncNow, b)
<1>1. irreversible_height < Height[b] /\ migrating_height # Height[b]
  BY DEF Endorsed
<1>2. irreversible_height \in Nat /\ Height[b] \in Nat
  BY Heights0 DEF UtxoInv, MigrationWindow, UtxoTypeOK, TablesTypeOK
<1>3. status = "distributing_rewards" => migrating_height = irreversible_height + 1
  BY DEF UtxoInv, PhasesAlternate, MigratedBlockIsParsed
<1>4. Height[b] > Floor
  BY <1>1, <1>2, <1>3 DEF Floor
<1> QED
  BY <1>4, ReadyNow

\* An endorsement keeps the invariant, and so does the consensus it may bring about.
LEMMA EndorsedStep ==
  ASSUME UtxoInv, NEW s \in Scopes, NEW b \in Blocks, Endorsed(s, b)
  PROVE  UtxoInv'
<1>1. endorsement \in EndorsementType
  BY DEF UtxoInv, MigrationWindow, UtxoTypeOK, TablesTypeOK, EndorsementType
<1>2. endorsement' \in EndorsementType
  BY <1>1 DEF Endorsed, EnvironmentRows, EndorsementType, NoRow, Rows
<1>3. SyncReady(SyncNow, b)
  BY EndorsedReady
<1> QED
  BY <1>2, <1>3, ConsensusStep DEF Endorsed

\* So does the last step of verify.
LEMMA VerifiedStep ==
  ASSUME UtxoInv, NEW s \in Synchronizers, NEW b \in Blocks, Verified(s, b)
  PROVE  UtxoInv'
<1>1. endorsement' \in EndorsementType /\ endorsement \in EndorsementType /\ UNCHANGED config
  BY DEF Verified, UtxoInv, MigrationWindow, UtxoTypeOK, TablesTypeOK, EndorsementType
<1>2. PICK y : y = Pass(SyncNow, s, b)
  OBVIOUS
<1>3. SyncReady(y, b)
  BY <1>2, ReadyPassed DEF Verified
<1>4. \/ SetSync(y) /\ UNCHANGED <<utxoVars, synchronizer>>
      \/ Consensus(endorsement, y, b)
  BY <1>2 DEF Verified
<1>5. CASE SetSync(y) /\ UNCHANGED <<utxoVars, synchronizer>>
  BY <1>1, <1>3, <1>5, SyncOnlyStep DEF SyncReady
<1>6. CASE Consensus(endorsement, y, b)
  BY <1>1, <1>3, <1>6, ConsensusStep
<1> QED
  BY <1>4, <1>5, <1>6

\* So does verify called again after the window of the miner.
LEMMA VerifiedLateStep ==
  ASSUME UtxoInv, NEW s \in Synchronizers, NEW b \in Blocks, VerifiedLate(s, b)
  PROVE  UtxoInv'
<1>1. endorsement' \in EndorsementType /\ endorsement \in EndorsementType /\ UNCHANGED config
  BY DEF VerifiedLate, UtxoInv, MigrationWindow, UtxoTypeOK, TablesTypeOK, EndorsementType
<1>2. Height[b] > Floor
  BY UncheckedAboveTip DEF VerifiedLate
<1>3. SyncReady(SyncNow, b)
  BY <1>2, ReadyNow
<1> QED
  BY <1>1, <1>3, ConsensusStep DEF VerifiedLate

\* Removing the first occurrence keeps the others, in their order.
LEMMA RemoveFirstEffect ==
  ASSUME NEW S, NEW q \in Seq(S), NEW e, \A i, j \in DOMAIN q : q[i] = q[j] => i = j
  PROVE  /\ RemoveFirst(q, e) \in Seq(S)
         /\ \A i, j \in DOMAIN RemoveFirst(q, e) :
              RemoveFirst(q, e)[i] = RemoveFirst(q, e)[j] => i = j
         /\ RemoveFirst(q, e) # << >> => q # << >>
<1>1. PICK r : r = RemoveFirst(q, e)
  OBVIOUS
<1> DEFINE Inj == \A i, j \in DOMAIN r : r[i] = r[j] => i = j
<1>2. CASE r = q
  BY <1>1, <1>2
<1>3. ASSUME NEW k \in 1..Len(q), q[k] = e, r \in Seq(S), Len(r) = Len(q) - 1,
             \A i \in 1..(Len(q) - 1) : r[i] = q[IF i < k THEN i ELSE i + 1]
      PROVE  Inj /\ q # << >>
  <2> DEFINE from(i) == IF i < k THEN i ELSE i + 1
  <2>1. DOMAIN r = 1..(Len(q) - 1) /\ DOMAIN q = 1..Len(q) /\ Len(q) \in Nat
    BY <1>3
  <2>2. /\ \A i \in DOMAIN r : from(i) \in DOMAIN q /\ r[i] = q[from(i)]
        /\ \A i, j \in DOMAIN r : from(i) = from(j) => i = j
    BY <1>3, <2>1
  <2>3. q # << >>
    BY <1>3
  <2> HIDE DEF from
  <2> QED
    BY <2>2, <2>3
<1> HIDE DEF Inj
<1>4. r \in Seq(S) /\ (r # q => Inj /\ q # << >>)
  BY <1>1, <1>3, RemoveFirstShape
<1> QED
  BY <1>1, <1>2, <1>4 DEF Inj

\* delbucket only takes back what was verified.
LEMMA WithdrawnStep ==
  ASSUME UtxoInv, NEW s \in Synchronizers, NEW b \in Blocks, Withdrawn(s, b)
  PROVE  UtxoInv'
<1> DEFINE y == [SyncNow EXCEPT !.passed = [passed_index EXCEPT ![b] = RemoveFirst(@, s)]]
<1>1. SyncTypeOK /\ endorsement' \in EndorsementType
  BY DEF Withdrawn, UtxoInv, MigrationWindow, UtxoTypeOK, TablesTypeOK, EndorsementType
<1>2. passed_index[b] \in Seq(Synchronizers) /\ passed_index \in [Blocks -> Seq(Synchronizers)]
  BY <1>1 DEF SyncTypeOK
<1>3. PICK new : new = RemoveFirst(passed_index[b], s)
  OBVIOUS
<1>4. /\ new \in Seq(Synchronizers)
      /\ \A i, j \in DOMAIN new : new[i] = new[j] => i = j
      /\ new # << >> => passed_index[b] # << >>
  BY <1>2, <1>3, RemoveFirstEffect DEF UtxoInv, VerifiedOnce
<1>5. /\ y.passed = [passed_index EXCEPT ![b] = new]
      /\ y.known = block_miner /\ y.window = miner_window
  BY <1>3 DEF SyncNow
<1>6. SetSync(y)
  BY <1>5, <1>3 DEF Withdrawn, SetSync
<1> HIDE DEF y
<1>7. y.passed \in [Blocks -> Seq(Synchronizers)] /\ y.passed[b] = new
      /\ \A c \in Blocks \ {b} : y.passed[c] = passed_index[c]
  BY <1>2, <1>4, <1>5
<1>8. Passed(y, b) => Passed(SyncNow, b)
  BY <1>4, <1>7 DEF Passed, SyncNow
<1>9. Passed(y, b) => b \notin consensus_block /\ (Height[b] > Floor + 1 => Prev[b] \in consensus_block)
  BY <1>8 DEF UtxoInv, NoSecondConsensus, ConsensusRowsVerified
<1>10. SyncSound(y, b)
  BY <1>1, <1>4, <1>5, <1>7, <1>9 DEF SyncSound, SyncTypeOK
<1> QED
  BY <1>1, <1>6, <1>10, SyncOnlyStep DEF Withdrawn

\* The end of a window of priority changes nothing that is verified.
LEMMA WindowExpiresStep ==
  ASSUME UtxoInv, NEW b \in Blocks, WindowExpires(b)
  PROVE  UtxoInv'
<1> DEFINE y == [SyncNow EXCEPT !.window = miner_window \ {b}]
<1>1. SyncTypeOK /\ endorsement' \in EndorsementType
  BY DEF WindowExpires, UtxoInv, MigrationWindow, UtxoTypeOK, TablesTypeOK, EndorsementType
<1>2. y.passed = passed_index /\ y.known = block_miner /\ y.window = miner_window \ {b}
  BY DEF SyncNow
<1>3. SetSync(y)
  BY <1>2 DEF WindowExpires, SetSync
<1> HIDE DEF y
<1>4. SyncSound(y, b)
  BY <1>1, <1>2 DEF SyncSound, SyncTypeOK, UtxoInv, VerifiedOnce, NoSecondConsensus,
     ConsensusRowsVerified, Passed, SyncNow
<1> QED
  BY <1>1, <1>3, <1>4, SyncOnlyStep DEF WindowExpires

\* Steps that change only who parses the blocks in progress, or nothing.
LEMMA ProgressStep ==
  ASSUME UtxoInv,
         UNCHANGED <<chainTables, irreversible_hash, migrationVars, parsing_height, parsed,
                     uploader, utxoTables, block, syncTables, synchronizer>>,
         config' \in ConfigType, endorsement' \in EndorsementType,
         DOMAIN parsing_progress_of' = DOMAIN parsing_progress_of,
         \A c \in DOMAIN parsing_progress_of :
           /\ parsing_progress_of'[c] \in ProgressType
           /\ parsing_progress_of'[c].rows = parsing_progress_of[c].rows
  PROVE  UtxoInv'
<1>1. UtxoTypeOK'
  BY DEF UtxoInv, MigrationWindow, UtxoTypeOK, TablesTypeOK, SyncTypeOK, EndorsementType,
     ProgressType, chainTables, migrationVars, utxoTables, syncTables
<1>2. MigrationWindow' /\ MigratedBlockIsParsed' /\ PhasesAlternate' /\ ParsingInOrder'
  BY <1>1 DEF UtxoInv, MigrationWindow, MigratedBlockIsParsed, PhasesAlternate, ParsingInOrder,
     chainTables, migrationVars
<1>3. Floor' = Floor
  BY DEF Floor, chainTables
<1>4. NoRowsBelowTip' /\ ParentsReachedConsensus' /\ NoSecondConsensus' /\ VerifiedOnce'
  BY <1>3 DEF UtxoInv, NoRowsBelowTip, ParentsReachedConsensus, NoSecondConsensus, VerifiedOnce,
     chainTables, utxoTables, syncTables, Passed, SyncNow
<1>5. ConsensusRowsVerified' /\ OneBlockPerHeight' /\ UtxosCounted'
  BY <1>3 DEF UtxoInv, ConsensusRowsVerified, OneBlockPerHeight, UtxosCounted,
     chainTables, utxoTables, syncTables, Passed, SyncNow
<1>6. MigratedBlockIsDeep'
  BY DEF UtxoInv, MigratedBlockIsDeep, chainTables, migrationVars, Promise!DeepEnough
<1> QED
  BY <1>2, <1>4, <1>5, <1>6 DEF UtxoInv

-----------------------------------------------------------------------------
(***************************************************************************)
(* processblock, phase by phase.                                           *)
(***************************************************************************)
\* MigrateRows applies MigrateRow row by row.
LEMMA MigrateFold ==
  ASSUME NEW Val, NEW u \in Val, NEW seq \in Seq(OpType),
         \A v \in Val, row \in OpType : MigrateRow(v, row) \in Val
  PROVE  \E r \in [0..Len(seq) -> Val] :
           /\ r[0] = u
           /\ \A i \in 1..Len(seq) : r[i] = MigrateRow(r[i - 1], seq[i])
           /\ MigrateRows(u, seq) = r[Len(seq)]
<1> DEFINE D == DOMAIN seq
           n == Len(seq)
           IsRows(iter) == iter = [s \in SUBSET D |->
             IF s = {} THEN u ELSE MigrateRow(iter[s \ {Max(s)}], seq[Max(s)])]
           it == CHOOSE iter : IsRows(iter)
           pick == [s \in SUBSET D |-> Max(s)]
           step == [p \in D \X Val |-> MigrateRow(p[2], seq[p[1]])]
<1>1. n \in Nat /\ D = 1..n /\ \A i \in D : seq[i] \in OpType
  BY LenProperties
<1>2. MigrateRows(u, seq) = it[D]
  BY DEF MigrateRows, FoldLeft, MapThenFoldSet
<1>3. \A s \in SUBSET D : s # {} => Max(s) \in s
  <2>1. D \in SUBSET (0..n)
    BY <1>1
  <2> QED
    BY ONLY <1>1, <2>1, MaxIsGreatest
<1>4. IsRows(it)
  <2>1. IsFiniteSet(D)
    BY <1>1, FS_Interval
  <2>2. step \in [D \X Val -> Val] /\ \A s \in SUBSET D : s # {} => pick[s] \in s
    BY <1>1, <1>3
  <2>3. PICK g \in [SUBSET D -> Val] : IsFold(g, D, u, pick, step)
    <3> HIDE DEF D, pick, step
    <3> QED
      BY <2>1, <2>2, FoldExists
  <2>4. ASSUME NEW s \in SUBSET D, s # {}
        PROVE  step[<<pick[s], g[s \ {pick[s]}]>>] = MigrateRow(g[s \ {Max(s)}], seq[Max(s)])
    <3>1. pick[s] = Max(s) /\ Max(s) \in D /\ g[s \ {Max(s)}] \in Val
      BY <1>3, <2>4
    <3> HIDE DEF pick, D
    <3> QED
      BY <3>1
  <2>5. IsRows(g)
    <3> HIDE DEF pick, step, D
    <3> QED
      BY <2>3, <2>4 DEF IsFold
  <2> HIDE DEF IsRows
  <2> QED
    BY <2>5
<1>5. \A s \in SUBSET D : it[s] = IF s = {} THEN u ELSE MigrateRow(it[s \ {Max(s)}], seq[Max(s)])
  <2> HIDE DEF it, D
  <2> QED
    BY <1>4
<1> HIDE DEF it
<1>6. it[1..0] = u
  <2>1. 1..0 = {}
    OBVIOUS
  <2> QED
    BY <1>5, <2>1
<1>7. \A i \in 1..n : it[1..i] = MigrateRow(it[1..(i - 1)], seq[i])
  <2> SUFFICES ASSUME NEW i \in 1..n PROVE it[1..i] = MigrateRow(it[1..(i - 1)], seq[i])
    OBVIOUS
  <2>1. 1..i \in SUBSET D /\ 1..i # {} /\ (1..i) \ {i} = 1..(i - 1)
    <3>1. i \in Nat /\ i <= n /\ n \in Nat /\ i >= 1
      BY <1>1
    <3>2. \A k \in 1..i : k \in 1..n
      BY <3>1
    <3>3. i \in 1..i
      BY <3>1
    <3>4. \A k : k \in (1..i) \ {i} <=> k \in 1..(i - 1)
      BY <3>1
    <3> QED
      BY <1>1, <3>2, <3>3, <3>4
  <2>2. Max(1..i) = i
    BY MaxOfInterval
  <2> QED
    BY <1>5, <2>1, <2>2
<1>8. \A i \in 0..n : it[1..i] \in Val
  <2> DEFINE P == {i \in Nat : i <= n => it[1..i] \in Val}
  <2>1. 0 \in P
    BY <1>6
  <2>2. ASSUME NEW i \in P PROVE i + 1 \in P
    <3> SUFFICES ASSUME i + 1 <= n PROVE it[1..(i + 1)] \in Val
      OBVIOUS
    <3>1. i + 1 \in 1..n /\ (i + 1) - 1 = i /\ it[1..i] \in Val
      BY <1>1
    <3>2. it[1..(i + 1)] = MigrateRow(it[1..i], seq[i + 1]) /\ seq[i + 1] \in OpType
      BY <1>1, <1>7, <3>1
    <3> QED
      BY <3>1, <3>2
  <2>3. P = Nat
    <3>1. P \in SUBSET Nat
      OBVIOUS
    <3> HIDE DEF P
    <3> QED
      BY <2>1, <2>2, <3>1, SetOfNaturals
  <2> QED
    BY <2>3
<1> DEFINE r == [i \in 0..n |-> it[1..i]]
<1>9. r \in [0..n -> Val] /\ r[0] = u /\ r[n] = it[D]
  BY <1>1, <1>6, <1>8
<1>10. \A i \in 1..n : r[i] = MigrateRow(r[i - 1], seq[i])
  <2> SUFFICES ASSUME NEW i \in 1..n PROVE r[i] = MigrateRow(r[i - 1], seq[i])
    OBVIOUS
  <2>1. i \in 0..n /\ i - 1 \in 0..n
    BY <1>1
  <2> QED
    BY <1>7, <2>1
<1> HIDE DEF r
<1> QED
  BY <1>2, <1>9, <1>10

\* What a migration works on: a finite set of coins, all of them counted.
Ledgers ==
  {v \in [utxo : SUBSET Coins, spent : SUBSET (Heights \X Coins), num : Nat] :
     IsFiniteSet(v.utxo) /\ Cardinality(v.utxo) <= v.num}

\* A row keeps the set of coins finite, and no larger than its count.
LEMMA MigrateRowType ==
  ASSUME migrating_height \in Heights
  PROVE  \A v \in Ledgers, row \in OpType : MigrateRow(v, row) \in Ledgers
<1> SUFFICES ASSUME NEW v \in Ledgers, NEW row \in OpType PROVE MigrateRow(v, row) \in Ledgers
  OBVIOUS
<1>1. v \in [utxo : SUBSET Coins, spent : SUBSET (Heights \X Coins), num : Nat]
      /\ IsFiniteSet(v.utxo) /\ Cardinality(v.utxo) <= v.num /\ row.coin \in Coins
  BY DEF Ledgers, OpType
<1>2. Cardinality(v.utxo) \in Nat
  BY <1>1, FS_CardinalityType
<1>3. CASE row.type = "vout"
  <2>1. PICK coins, k : coins = v.utxo \cup {row.coin} /\ k = v.num + 1
    OBVIOUS
  <2>2. PICK w : w = [v EXCEPT !.utxo = coins, !.num = k]
    OBVIOUS
  <2>3. coins \in SUBSET Coins /\ k \in Nat
    BY <1>1, <2>1
  <2>4. w \in [utxo : SUBSET Coins, spent : SUBSET (Heights \X Coins), num : Nat]
        /\ w.utxo = coins /\ w.num = k
    BY <1>1, <2>2, <2>3
  <2>5. /\ IsFiniteSet(coins)
        /\ Cardinality(coins) =
             IF row.coin \in v.utxo THEN Cardinality(v.utxo) ELSE Cardinality(v.utxo) + 1
    BY <1>1, <2>1, FS_AddElement
  <2>6. Cardinality(coins) <= k
    BY <1>1, <1>2, <2>1, <2>5
  <2>7. w \in Ledgers
    BY <2>4, <2>5, <2>6 DEF Ledgers
  <2> QED
    BY <1>3, <2>1, <2>2, <2>7 DEF MigrateRow
<1>4. CASE row.type # "vout" /\ row.coin \in v.utxo
  <2>1. PICK coins, k, old : /\ coins = v.utxo \ {row.coin} /\ k = v.num - 1
                             /\ old = v.spent \cup {<<migrating_height, row.coin>>}
    OBVIOUS
  <2>2. PICK w : w = [v EXCEPT !.utxo = coins, !.num = k, !.spent = old]
    OBVIOUS
  <2>3. IsFiniteSet(coins) /\ Cardinality(coins) = Cardinality(v.utxo) - 1
    BY <1>1, <1>4, <2>1, FS_RemoveElement
  <2>4. Cardinality(coins) \in Nat
    BY <2>3, FS_CardinalityType
  <2>5. k \in Nat /\ Cardinality(coins) <= k
    BY <1>1, <1>2, <2>1, <2>3, <2>4
  <2>6. coins \in SUBSET Coins /\ old \in SUBSET (Heights \X Coins)
    BY <1>1, <2>1
  <2>7. w \in [utxo : SUBSET Coins, spent : SUBSET (Heights \X Coins), num : Nat]
        /\ w.utxo = coins /\ w.num = k
    BY <1>1, <2>2, <2>5, <2>6
  <2>8. w \in Ledgers
    BY <2>3, <2>5, <2>7 DEF Ledgers
  <2> QED
    BY <1>4, <2>1, <2>2, <2>8 DEF MigrateRow
<1>5. CASE row.type # "vout" /\ row.coin \notin v.utxo
  BY <1>5 DEF MigrateRow
<1> QED
  BY <1>3, <1>4, <1>5

\* Who parses a block may change with a call, what is left of it does not.
SameProgress(progress) ==
  /\ DOMAIN progress = DOMAIN parsing_progress_of
  /\ \A c \in DOMAIN parsing_progress_of :
       progress[c] \in ProgressType /\ progress[c].rows = parsing_progress_of[c].rows

\* A call of processblock, by the parser or by who takes the block over, finds the
\* rows that are left as they were.
LEMMA ClaimedProgress ==
  ASSUME UtxoInv, NEW s \in Synchronizers, NEW b \in Blocks, MayProcess(s, b)
  PROVE  /\ SameProgress(Claimed(s, b)) /\ b \in DOMAIN parsing_progress_of
         /\ parsing_height # 0
<1>1. /\ b \in DOMAIN parsing_progress_of
      /\ \A c \in DOMAIN parsing_progress_of : parsing_progress_of[c] \in ProgressType
      /\ parsing_height \in Nat /\ parsing_height > 0
  BY DEF MayProcess, UtxoInv, MigrationWindow, UtxoTypeOK, ProgressType
<1>2. CASE ~parsing_progress_of[b].expired
  BY <1>1, <1>2 DEF Claimed, SameProgress
<1>3. CASE parsing_progress_of[b].expired
  <2>1. Claimed(s, b) = [parsing_progress_of EXCEPT ![b].parser = s, ![b].expired = FALSE]
    BY <1>3 DEF Claimed
  <2>2. PICK v : v = [parsing_progress_of[b] EXCEPT !.parser = s, !.expired = FALSE]
    OBVIOUS
  <2>3. v \in ProgressType /\ v.rows = parsing_progress_of[b].rows
    BY <1>1, <2>2 DEF ProgressType
  <2>4. Claimed(s, b) = [parsing_progress_of EXCEPT ![b] = v]
    BY <1>1, <2>1, <2>2
  <2> QED
    BY <1>1, <2>3, <2>4 DEF SameProgress
<1> QED
  BY <1>1, <1>2, <1>3

\* Nor does the timeout of a parser change what is left.
LEMMA ParserTimeoutStep ==
  ASSUME UtxoInv, NEW b \in Blocks, ParserTimeout(b),
         UNCHANGED <<chainTables, irreversible_hash, migrationVars, parsing_height, parsed,
                     uploader, utxoTables, block, syncTables, synchronizer, endorsement, config>>
  PROVE  UtxoInv'
<1>1. /\ b \in DOMAIN parsing_progress_of
      /\ \A c \in DOMAIN parsing_progress_of : parsing_progress_of[c] \in ProgressType
      /\ endorsement \in EndorsementType /\ config \in ConfigType
  BY DEF ParserTimeout, UtxoInv, MigrationWindow, UtxoTypeOK, TablesTypeOK, EndorsementType, ProgressType
<1>2. PICK v : v = [parsing_progress_of[b] EXCEPT !.expired = TRUE]
  OBVIOUS
<1>3. v \in ProgressType /\ v.rows = parsing_progress_of[b].rows
  BY <1>1, <1>2 DEF ProgressType
<1>4. parsing_progress_of' = [parsing_progress_of EXCEPT ![b] = v]
  BY <1>1, <1>2 DEF ParserTimeout
<1> QED
  BY <1>1, <1>3, <1>4, ProgressStep

\* The calls of a migration that move or delete rows of the UTXO tables.
LEMMA MovingStep ==
  ASSUME UtxoInv, migrating_height # 0, status # "distributing_rewards",
         status' \in {"migrating", "deleting_data"},
         UNCHANGED <<head_height, irreversible_height, migrating_height, parsed_height,
                     consensus_block, irreversible_hash, migrating_hash, migrating_num_utxos,
                     num_provider_validators, num_validators_assigned, parsing_height, parsed,
                     uploader, block, syncTables, synchronizer, config, endorsement>>,
         SameProgress(parsing_progress_of'),
         migrated_num_utxos' \in Nat, num_utxos' \in Nat, utxo' \subseteq Coins,
         spent_utxo' \subseteq (Heights \X Coins), pending_utxo' \in [Blocks -> Seq(OpType)],
         \A c \in Blocks : pending_utxo[c] = << >> => pending_utxo'[c] = << >>,
         IsFiniteSet(utxo'), Cardinality(utxo') <= num_utxos'
  PROVE  UtxoInv'
<1>1. TablesTypeOK' /\ SyncTypeOK'
  BY DEF UtxoInv, MigrationWindow, UtxoTypeOK, TablesTypeOK, SyncTypeOK, syncTables, Statuses
<1>2. UtxoTypeOK'
  BY <1>1 DEF UtxoInv, MigrationWindow, UtxoTypeOK, SameProgress, ProgressType
<1>3. Floor' = Floor
  BY DEF Floor
<1>4. MigrationWindow' /\ MigratedBlockIsParsed' /\ PhasesAlternate' /\ ParsingInOrder'
  <2>1. MigrationWindow'
    BY <1>2 DEF UtxoInv, MigrationWindow
  <2>2. MigratedBlockIsParsed' /\ PhasesAlternate'
    <3>1. parsing_height # 0
      BY UtxoAssumption DEF UtxoInv, MigrationWindow, UtxoTypeOK, TablesTypeOK, UtxoAssumption
    <3> QED
      BY <3>1 DEF UtxoInv, MigratedBlockIsParsed, PhasesAlternate
  <2>3. ParsingInOrder'
    BY DEF UtxoInv, ParsingInOrder, SameProgress
  <2> QED
    BY <2>1, <2>2, <2>3
<1>5. NoRowsBelowTip' /\ ParentsReachedConsensus' /\ NoSecondConsensus' /\ VerifiedOnce'
  BY <1>3 DEF UtxoInv, NoRowsBelowTip, ParentsReachedConsensus, NoSecondConsensus, VerifiedOnce,
     syncTables, Passed, SyncNow
<1>6. ConsensusRowsVerified' /\ OneBlockPerHeight' /\ UtxosCounted'
  BY <1>3 DEF UtxoInv, ConsensusRowsVerified, OneBlockPerHeight, UtxosCounted,
     syncTables, Passed, SyncNow
<1>7. MigratedBlockIsDeep'
  BY DEF UtxoInv, MigratedBlockIsDeep, Promise!DeepEnough
<1> QED
  BY <1>4, <1>5, <1>6, <1>7 DEF UtxoInv

\* A batch is a part of what is there.
LEMMA AtMostType ==
  ASSUME NEW rows \in Nat, NEW n \in Nat
  PROVE  AtMost(rows, n) \in 0..n
BY DEF AtMost

\* A batch of a migration moves rows from the pending ones to the UTXO set.
LEMMA MigrateStep ==
  ASSUME UtxoInv, NEW rows \in Nat, Migrate(rows),
         migrating_height # 0, status # "distributing_rewards",
         SameProgress(parsing_progress_of'), UNCHANGED <<syncTables, synchronizer, config, endorsement>>
  PROVE  UtxoInv'
<1>0. /\ UtxoTypeOK /\ migrating_height \in Heights
      /\ pending_utxo \in [Blocks -> Seq(OpType)] /\ migrated_num_utxos \in Nat
      /\ num_utxos \in Nat /\ utxo \in SUBSET Coins /\ spent_utxo \in SUBSET (Heights \X Coins)
      /\ IsFiniteSet(utxo) /\ Cardinality(utxo) <= num_utxos
  BY Heights0, SMTT(60) DEF UtxoInv, MigrationWindow, UtxoTypeOK, TablesTypeOK, Heights, UtxosCounted
<1>1. migrating_hash \in Blocks
  BY <1>0 DEF UtxoInv, MigratedBlockIsParsed, UtxoTypeOK, TablesTypeOK
<1> DEFINE pending == pending_utxo[migrating_hash]
           n == AtMost(rows, Len(pending))
           u == [utxo |-> utxo, spent |-> spent_utxo, num |-> num_utxos]
<1>2. pending \in Seq(OpType) /\ Len(pending) \in Nat
  BY <1>0, <1>1
<1>3. n \in Nat /\ n <= Len(pending)
  <2>1. n \in 0..Len(pending)
    <3> HIDE DEF pending
    <3> QED
      BY <1>2, AtMostType
  <2> QED
    BY <1>2, <2>1
<1>4. PICK seq, rest : seq = SubSeq(pending, 1, n) /\ rest = SubSeq(pending, n + 1, Len(pending))
  OBVIOUS
<1>5. seq \in Seq(OpType) /\ rest \in Seq(OpType)
  BY <1>2, <1>3, <1>4
<1>6. u \in Ledgers
  BY <1>0 DEF Ledgers
<1>7. PICK v : v = MigrateRows(u, seq)
  OBVIOUS
<1>8. v \in Ledgers
  <2>1. \A w \in Ledgers, row \in OpType : MigrateRow(w, row) \in Ledgers
    BY <1>0, MigrateRowType
  <2>3. PICK r \in [0..Len(seq) -> Ledgers] : v = r[Len(seq)]
    <3> HIDE DEF u
    <3> QED
      BY <1>5, <1>6, <1>7, <2>1, MigrateFold
  <2>2. Len(seq) \in 0..Len(seq)
    BY <1>5
  <2> QED
    BY <2>2, <2>3
<1>9. /\ utxo' = v.utxo /\ spent_utxo' = v.spent /\ num_utxos' = v.num
      /\ pending_utxo' = [pending_utxo EXCEPT ![migrating_hash] = rest]
      /\ migrated_num_utxos' = migrated_num_utxos + n
      /\ status' \in {"migrating", "deleting_data"}
  BY <1>4, <1>7 DEF Migrate
<1>10. pending = << >> => rest = << >>
  BY <1>2, <1>3, <1>4
<1> HIDE DEF pending, n, u
<1>11. /\ pending_utxo' \in [Blocks -> Seq(OpType)]
       /\ \A c \in Blocks : pending_utxo[c] = << >> => pending_utxo'[c] = << >>
  BY <1>0, <1>1, <1>5, <1>9, <1>10 DEF pending
<1>12. migrated_num_utxos' \in Nat
  BY <1>0, <1>3, <1>9
<1> QED
  BY <1>8, <1>9, <1>11, <1>12, MovingStep DEF Migrate, Ledgers

\* The rows of the forked blocks are deleted.
LEMMA DeletePendingStep ==
  ASSUME UtxoInv, NEW rows \in Nat, DeletePending(rows), migrating_height # 0,
         status = "deleting_data",
         UNCHANGED <<head_height, irreversible_height, migrating_height, parsed_height,
                     irreversible_hash, migrationVars, parsing_height, num_utxos, utxo,
                     syncTables, synchronizer, config>>,
         SameProgress(parsing_progress_of')
  PROVE  UtxoInv'
<1>0. /\ pending_utxo \in [Blocks -> Seq(OpType)] /\ migrated_num_utxos \in Nat
      /\ num_utxos \in Nat /\ utxo \in SUBSET Coins /\ spent_utxo \in SUBSET (Heights \X Coins)
      /\ IsFiniteSet(utxo) /\ Cardinality(utxo) <= num_utxos
  BY DEF UtxoInv, MigrationWindow, UtxoTypeOK, UtxosCounted
<1>1. PICK gone \in [PendingAtHeight -> 0..rows] :
        pending_utxo' = [b \in Blocks |->
          IF b \in PendingAtHeight THEN SubSeq(pending_utxo[b], gone[b] + 1, Len(pending_utxo[b]))
                                   ELSE pending_utxo[b]]
  BY DEF DeletePending
<1>2. ASSUME NEW b \in PendingAtHeight
      PROVE  SubSeq(pending_utxo[b], gone[b] + 1, Len(pending_utxo[b])) \in Seq(OpType)
  <2>1. gone[b] \in Nat /\ pending_utxo[b] \in Seq(OpType)
    BY <1>0 DEF PendingAtHeight
  <2> QED
    BY <2>1
<1>3. pending_utxo' \in [Blocks -> Seq(OpType)]
  BY <1>0, <1>1, <1>2
<1>4. \A c \in Blocks : pending_utxo[c] = << >> => pending_utxo'[c] = << >>
  BY <1>1 DEF PendingAtHeight
<1> QED
  BY <1>0, <1>3, <1>4, MovingStep DEF DeletePending, migrationVars, consensusRows

\* Old spent outputs are deleted.
LEMMA DeleteSpentStep ==
  ASSUME UtxoInv, NEW rows \in Nat, DeleteSpent(rows), migrating_height # 0,
         status = "deleting_data",
         UNCHANGED <<head_height, irreversible_height, migrating_height, parsed_height,
                     irreversible_hash, migrationVars, parsing_height, num_utxos, utxo,
                     syncTables, synchronizer, config>>,
         SameProgress(parsing_progress_of')
  PROVE  UtxoInv'
<1>0. /\ pending_utxo \in [Blocks -> Seq(OpType)] /\ migrated_num_utxos \in Nat
      /\ num_utxos \in Nat /\ utxo \in SUBSET Coins /\ spent_utxo \in SUBSET (Heights \X Coins)
      /\ IsFiniteSet(utxo) /\ Cardinality(utxo) <= num_utxos
  BY DEF UtxoInv, MigrationWindow, UtxoTypeOK, UtxosCounted
<1>1. spent_utxo' \subseteq spent_utxo
  BY DEF DeleteSpent
<1> QED
  BY <1>0, <1>1, MovingStep DEF DeleteSpent, migrationVars, consensusRows

\* While a block is migrated, its height is the next one and parsing is ahead.
LEMMA WhileMigrating ==
  ASSUME UtxoInv, migrating_height # 0
  PROVE  /\ irreversible_height \in Nat /\ migrating_height \in Nat
         /\ migrating_height = irreversible_height + 1
         /\ migrating_hash \in Blocks /\ Height[migrating_hash] = migrating_height
         /\ Prev[migrating_hash] = irreversible_hash
         /\ parsing_height \in Nat /\ parsing_height > migrating_height
<1>1. /\ UtxoTypeOK /\ migrating_height = irreversible_height + 1
      /\ Height[migrating_hash] = migrating_height /\ Prev[migrating_hash] = irreversible_hash
      /\ parsing_height > irreversible_height + IRREVERSIBLE_BLOCKS
  BY DEF UtxoInv, MigrationWindow, MigratedBlockIsParsed
<1>2. irreversible_height \in Nat /\ migrating_height \in Nat /\ parsing_height \in Nat
  BY <1>1 DEF UtxoTypeOK, TablesTypeOK
<1>3. parsing_height > migrating_height
  BY <1>1, <1>2, UtxoAssumption DEF UtxoAssumption
<1>4. migrating_hash \in Blocks
  BY <1>1 DEF UtxoInv, PhasesAlternate, UtxoTypeOK, NoBlock
<1> QED
  BY <1>1, <1>2, <1>3, <1>4

\* When nothing is left to delete the block becomes irreversible: the floor rises,
\* and the rows of its height are gone.
LEMMA StoreIrreversibleStep ==
  ASSUME UtxoInv, StoreIrreversible, migrating_height # 0, status = "deleting_data",
         UNCHANGED <<head_height, irreversible_height, migrating_height, parsed_height,
                     irreversible_hash, migrationVars, parsing_height, num_utxos, utxo,
                     syncTables, synchronizer, config>>,
         SameProgress(parsing_progress_of')
  PROVE  UtxoInv'
<1> DEFINE m == migrating_hash
           h == migrating_height
\* What the call does.
<1>1. /\ PendingAtHeight = {} /\ \A b \in block : HeightOf(b) # h
      /\ EraseEndorsements(h)
      /\ block' = block \cup {b \in consensus_block : b = m}
      /\ consensus_block' = {b \in consensus_block : Height[b] # h}
      /\ parsed' = parsed \cap consensus_block'
      /\ uploader' = [b \in Blocks |-> IF b \in consensus_block' THEN uploader[b] ELSE NoAccount]
      /\ status' = "distributing_rewards"
      /\ UNCHANGED <<pending_utxo, spent_utxo>>
  BY DEF StoreIrreversible
\* What holds before.
<1>2. /\ irreversible_height \in Nat /\ h \in Nat /\ h = irreversible_height + 1
      /\ m \in Blocks /\ Height[m] = h /\ parsing_height \in Nat /\ parsing_height > h
      /\ m \in consensus_block
  BY WhileMigrating DEF UtxoInv, MigrationWindow, MigratedBlockIsParsed, UtxoTypeOK
<1>3. Floor = irreversible_height /\ Floor' = h
  BY <1>1 DEF Floor
<1>4. block' = block \cup {m}
  BY <1>1, <1>2
<1>5. UtxoTypeOK /\ consensus_block \subseteq Blocks /\ consensus_block' \subseteq consensus_block
  BY <1>1 DEF UtxoInv, MigrationWindow, UtxoTypeOK, TablesTypeOK
<1>6. \A b \in Blocks : Height[b] \in Nat
  BY Heights0
\* What holds after.
<1>7. UtxoTypeOK'
  <2>1. endorsement' \in [Scopes -> [Blocks -> Rows]]
    BY <1>1, <1>5 DEF EraseEndorsements, UtxoTypeOK, TablesTypeOK, NoRow, Rows
  <2>2. TablesTypeOK'
    BY <1>1, <1>5, <2>1 DEF UtxoTypeOK, TablesTypeOK, Statuses
  <2>3. uploader' \in [Blocks -> Synchronizers \cup {NoAccount}]
    BY <1>1, <1>5 DEF UtxoTypeOK, SyncTypeOK
  <2>4. SyncTypeOK'
    BY <1>2, <1>4, <1>5, <2>3 DEF UtxoTypeOK, SyncTypeOK, syncTables
  <2> QED
    BY <1>1, <1>5, <2>2, <2>4 DEF UtxoTypeOK, SameProgress, ProgressType, migrationVars
<1>8. MigrationWindow'
  BY <1>7 DEF UtxoInv, MigrationWindow
<1>9. MigratedBlockIsParsed' /\ PhasesAlternate' /\ MigratedBlockIsDeep'
  BY <1>1, <1>2, <1>4 DEF UtxoInv, MigratedBlockIsParsed, PhasesAlternate, MigratedBlockIsDeep,
     migrationVars
<1>10. NoRowsBelowTip'
  <2> SUFFICES ASSUME NEW b \in Blocks, Height[b] <= h
               PROVE  b \notin consensus_block' /\ pending_utxo[b] = << >>
    BY <1>1, <1>3 DEF NoRowsBelowTip
  <2>1. CASE Height[b] = h
    BY <1>1, <2>1 DEF PendingAtHeight
  <2>2. CASE Height[b] # h
    <3>1. Height[b] <= irreversible_height
      BY <1>2, <1>6, <2>2
    <3> QED
      BY <1>3, <1>5, <3>1 DEF UtxoInv, NoRowsBelowTip
  <2> QED
    BY <2>1, <2>2
<1>11. \A b \in Blocks : Height[b] > h + 1 /\ Prev[b] \in consensus_block => Prev[b] \in consensus_block'
  <2> SUFFICES ASSUME NEW b \in Blocks, Height[b] > h + 1, Prev[b] \in consensus_block
               PROVE  Prev[b] \in consensus_block'
    OBVIOUS
  <2>1. Height[Prev[b]] = Height[b] - 1
    BY <1>5, Heights0
  <2> QED
    BY <1>1, <1>2, <1>6, <2>1
<1>12. ParentsReachedConsensus'
  BY <1>2, <1>3, <1>5, <1>6, <1>11 DEF UtxoInv, ParentsReachedConsensus
<1>13. NoSecondConsensus' /\ VerifiedOnce'
  BY <1>5 DEF UtxoInv, NoSecondConsensus, VerifiedOnce, syncTables, Passed, SyncNow
<1>14. ParsingInOrder'
  <2>1. \A b \in DOMAIN parsing_progress_of : b \in consensus_block'
    BY <1>1, <1>2 DEF UtxoInv, ParsingInOrder
  <2> QED
    BY <1>1, <2>1 DEF UtxoInv, ParsingInOrder, SameProgress
<1>15. ConsensusRowsVerified'
  <2>1. IsFiniteSet(consensus_block')
    BY <1>5, FS_Subset DEF UtxoInv, ConsensusRowsVerified
  <2>2. \A b \in consensus_block' : uploader'[b] # NoAccount
    BY <1>1, <1>5 DEF UtxoInv, ConsensusRowsVerified
  <2>3. \A b \in Blocks : Passed(SyncNow, b)' /\ Height[b] > h + 1 => Prev[b] \in consensus_block'
    BY <1>2, <1>3, <1>6, <1>11 DEF UtxoInv, ConsensusRowsVerified, Passed, SyncNow, syncTables
  <2> QED
    BY <1>3, <2>1, <2>2, <2>3 DEF ConsensusRowsVerified
<1>16. OneBlockPerHeight'
  <2>1. /\ IsFiniteSet(block) /\ Cardinality(block) = irreversible_height + 1
        /\ \A i \in 0..irreversible_height : \E b \in block : HeightOf(b) = i
        /\ \A b \in block : HeightOf(b) <= irreversible_height
        /\ \A b, c \in block : HeightOf(b) = HeightOf(c) => b = c
        /\ irreversible_hash \in block /\ HeightOf(irreversible_hash) = irreversible_height
    BY <1>3 DEF UtxoInv, OneBlockPerHeight
  <2>2. HeightOf(m) = h
    BY <1>2, Heights0
  <2>3. m \notin block
    BY <1>1, <2>2
  <2>4. IsFiniteSet(block') /\ Cardinality(block') = Cardinality(block) + 1
    BY <1>4, <2>1, <2>3, FS_AddElement
  <2>5. Cardinality(block') = h + 1
    BY <1>2, <2>1, <2>4
  <2>6. \A i \in 0..h : \E b \in block' : HeightOf(b) = i
    <3> SUFFICES ASSUME NEW i \in 0..h PROVE \E b \in block' : HeightOf(b) = i
      OBVIOUS
    <3>1. CASE i = h
      BY <1>4, <2>2, <3>1
    <3>2. CASE i # h
      <4>1. i \in 0..irreversible_height
        BY <1>2, <3>2
      <4> QED
        BY <1>4, <2>1, <4>1
    <3> QED
      BY <3>1, <3>2
  <2>7. \A b \in block : HeightOf(b) \in Nat
    <3>1. block \subseteq Blocks \cup {Genesis}
      BY <1>5 DEF UtxoTypeOK, SyncTypeOK
    <3>2. \A b \in Blocks \cup {Genesis} : HeightOf(b) \in Nat
      BY Heights0
    <3> QED
      BY <3>1, <3>2
  <2>8. \A b \in block' : HeightOf(b) <= h
    BY <1>2, <1>4, <2>1, <2>2, <2>7
  <2>9. \A b, c \in block' : HeightOf(b) = HeightOf(c) => b = c
    BY <1>1, <1>4, <2>1, <2>2
  <2> QED
    BY <1>3, <1>4, <2>1, <2>4, <2>5, <2>6, <2>8, <2>9 DEF OneBlockPerHeight
<1>17. UtxosCounted'
  BY DEF UtxoInv, UtxosCounted
<1> QED
  BY <1>8, <1>9, <1>10, <1>12, <1>13, <1>14, <1>15, <1>16, <1>17 DEF UtxoInv

\* The tip follows with the last batch of rewards.
LEMMA DistributeRewardsStep ==
  ASSUME UtxoInv, DistributeRewards, migrating_height # 0, status = "distributing_rewards",
         UNCHANGED <<syncTables, synchronizer, config>>,
         SameProgress(parsing_progress_of')
  PROVE  UtxoInv'
<1> DEFINE h == migrating_height
           n == IRREVERSIBLE_BLOCKS
<1>1. UNCHANGED <<head_height, parsed_height, consensus_block, parsing_height, parsed, uploader,
                  utxoTables, block, endorsement>>
  BY DEF DistributeRewards
<1>2. /\ irreversible_height \in Nat /\ h \in Nat /\ h = irreversible_height + 1
      /\ migrating_hash \in Blocks /\ Height[migrating_hash] = h
      /\ parsing_height \in Nat /\ parsing_height > h /\ migrating_hash \in block
      /\ UtxoTypeOK /\ parsing_height <= irreversible_height + n + 1
  BY WhileMigrating DEF UtxoInv, MigrationWindow, MigratedBlockIsParsed
<1>3. n \in Nat /\ n > 1
  BY UtxoAssumption DEF UtxoAssumption
<1>4. Floor = h /\ Floor' = h
  BY DEF Floor, DistributeRewards
<1>5. UtxoTypeOK'
  <2>0. /\ irreversible_height' \in 0..MaxHeight /\ migrating_height' \in 0..MaxHeight
        /\ status' \in Statuses
    BY <1>2, Heights0 DEF DistributeRewards, UtxoTypeOK, TablesTypeOK, Statuses
  <2>1. TablesTypeOK' /\ SyncTypeOK'
    BY <1>1, <1>2, <2>0 DEF UtxoTypeOK, TablesTypeOK, SyncTypeOK, syncTables
  <2>2. IsFiniteSet(Validators)
    BY TablesAssumption DEF TablesAssumption
  <2>3. Cardinality(Validators) \in Nat
    BY <2>2, FS_CardinalityType
  <2>4. num_validators_assigned' \in 0..Cardinality(Validators)
        /\ num_provider_validators' \in 0..Cardinality(Validators)
    <3>1. num_provider_validators \in Nat /\ num_provider_validators <= Cardinality(Validators)
      BY <1>2, <2>3 DEF UtxoTypeOK
    <3>2. num_validators_assigned + num_validators_per_distribution \in Nat
      BY <1>2, <2>3, UtxoAssumption DEF UtxoTypeOK, UtxoAssumption
    <3>3. BatchEnd \in Nat /\ BatchEnd <= num_provider_validators
      BY <3>1, <3>2, MinOfTwo DEF BatchEnd
    <3> QED
      BY <2>3, <3>1, <3>3 DEF DistributeRewards
  <2>5. /\ irreversible_hash' \in Blocks \cup {Genesis}
        /\ migrating_hash' \in Blocks \cup {NoBlock}
        /\ migrating_num_utxos' \in Nat /\ migrated_num_utxos' \in Nat
    BY <1>2 DEF DistributeRewards, UtxoTypeOK
  <2> QED
    BY <1>1, <1>2, <2>1, <2>4, <2>5 DEF UtxoTypeOK, SameProgress, ProgressType, utxoTables
<1>6. NoRowsBelowTip' /\ ParentsReachedConsensus' /\ NoSecondConsensus' /\ VerifiedOnce'
  BY <1>1, <1>4 DEF UtxoInv, NoRowsBelowTip, ParentsReachedConsensus, NoSecondConsensus,
     VerifiedOnce, utxoTables, syncTables, Passed, SyncNow
<1>7. ConsensusRowsVerified' /\ UtxosCounted'
  BY <1>1, <1>4 DEF UtxoInv, ConsensusRowsVerified, UtxosCounted, utxoTables, syncTables, Passed, SyncNow
<1>8. CASE BatchEnd < num_provider_validators
  <2>1. UNCHANGED <<irreversible_height, irreversible_hash, migrating_height, migrating_hash, status>>
    BY <1>8 DEF DistributeRewards
  <2>2. MigrationWindow' /\ MigratedBlockIsParsed'
    BY <1>1, <1>5, <2>1 DEF UtxoInv, MigrationWindow, MigratedBlockIsParsed
  <2>3. PhasesAlternate' /\ OneBlockPerHeight' /\ MigratedBlockIsDeep'
    BY <1>1, <1>4, <2>1 DEF UtxoInv, PhasesAlternate, OneBlockPerHeight, MigratedBlockIsDeep
  <2>4. ParsingInOrder'
    BY <1>1, <2>1 DEF UtxoInv, ParsingInOrder, SameProgress
  <2> QED
    BY <1>6, <1>7, <2>2, <2>3, <2>4 DEF UtxoInv
<1>9. CASE ~(BatchEnd < num_provider_validators)
  <2>1. /\ irreversible_height' = h /\ irreversible_hash' = migrating_hash
        /\ migrating_height' = 0 /\ migrating_hash' = NoBlock /\ status' = "parsing"
    BY <1>9 DEF DistributeRewards
  <2>2. MigrationWindow' /\ MigratedBlockIsParsed' /\ MigratedBlockIsDeep'
    BY <1>1, <1>2, <1>3, <1>5, <2>1 DEF MigrationWindow, MigratedBlockIsParsed, MigratedBlockIsDeep
  <2>3. PhasesAlternate'
    BY <1>1, <1>2, <2>1 DEF PhasesAlternate
  <2>4. OneBlockPerHeight'
    BY <1>1, <1>2, <1>4, <2>1, Heights0 DEF UtxoInv, OneBlockPerHeight
  <2>5. ParsingInOrder'
    <3>1. ASSUME NEW b \in parsed PROVE Height[b] <= h + n
      <4>1. Height[b] <= irreversible_height + n
        BY DEF UtxoInv, ParsingInOrder
      <4>2. Height[b] \in Nat
        BY <1>2, Heights0 DEF UtxoTypeOK, TablesTypeOK
      <4> QED
        BY <1>2, <1>3, <4>1, <4>2
    <3>2. \A b \in DOMAIN parsing_progress_of :
            /\ b \in consensus_block \ parsed /\ Height[b] = parsing_height
            /\ parsing_progress_of[b].rows <= Len(Ops[b])
      BY DEF UtxoInv, ParsingInOrder
    <3> QED
      BY <1>1, <1>2, <2>1, <3>1, <3>2 DEF ParsingInOrder, SameProgress
  <2> QED
    BY <1>6, <1>7, <2>2, <2>3, <2>4, <2>5 DEF UtxoInv
<1> QED
  BY <1>8, <1>9

\* A call that parses leaves everything but what is parsed next as it is.
LEMMA ParsedStep ==
  ASSUME UtxoInv, migrating_height = 0, NEW b \in consensus_block, b \notin parsed,
         Height[b] = parsing_height, parsing_height # 0,
         UNCHANGED <<head_height, irreversible_height, irreversible_hash, consensus_block, uploader,
                     num_utxos, utxo, spent_utxo, block, endorsement, syncTables, synchronizer,
                     config>>,
         pending_utxo' \in [Blocks -> Seq(OpType)],
         \A c \in Blocks \ {b} : pending_utxo'[c] = pending_utxo[c],
         parsed' = parsed \/ parsed' = parsed \cup {b},
         parsed_height' \in 0..MaxHeight, status' \in {"waiting", "parsing"},
         ParsesNext(consensus_block, parsed') \/
           (/\ status' = "parsing" /\ parsing_height' = parsing_height
            /\ \A c \in DOMAIN parsing_progress_of' :
                 /\ c \in consensus_block \ parsed' /\ Height[c] = parsing_height
                 /\ parsing_progress_of'[c] \in ProgressType
                 /\ parsing_progress_of'[c].rows <= Len(Ops[c])),
         parsing_height' # 0 \/ status' = "waiting",
         IF parsing_height' <= irreversible_height + IRREVERSIBLE_BLOCKS
           THEN UNCHANGED <<migrating_height, migrationVars>>
           ELSE MigratesNext(consensus_block, parsed') /\ status' = "waiting"
  PROVE  UtxoInv'
<1> DEFINE n == IRREVERSIBLE_BLOCKS
<1>1. /\ UtxoTypeOK /\ irreversible_height \in 0..MaxHeight /\ parsing_height \in 0..MaxHeight
      /\ consensus_block \subseteq Blocks /\ parsed \subseteq consensus_block
      /\ parsed' \subseteq consensus_block
      /\ parsing_height <= irreversible_height + n
  <2>1. UtxoTypeOK
    BY DEF UtxoInv, MigrationWindow
  <2>2. ~(parsing_height > irreversible_height + n)
    BY DEF UtxoInv, MigrationWindow
  <2>3. irreversible_height \in Nat /\ parsing_height \in Nat /\ n \in Nat
    BY <2>1, UtxoAssumption DEF UtxoTypeOK, TablesTypeOK, UtxoAssumption
  <2> QED
    BY <2>1, <2>2, <2>3, SMTT(60) DEF UtxoTypeOK, TablesTypeOK
<1>2. n \in Nat /\ n > 1 /\ MaxHeight \in Nat /\ irreversible_height \in Nat /\ parsing_height \in Nat
  BY <1>1, Heights0, UtxoAssumption DEF UtxoAssumption
<1>3. Floor = irreversible_height /\ Floor' = irreversible_height
  BY DEF Floor, UtxoInv, PhasesAlternate
<1>4. parsing_height > irreversible_height
  BY DEF UtxoInv, ParsingInOrder
<1>5. \A c \in Blocks : Height[c] \in Nat /\ Len(Ops[c]) \in Nat
  BY Heights0, UtxoAssumption DEF UtxoAssumption
<1>6. /\ parsing_height' \in 0..MaxHeight
      /\ parsing_height' <= irreversible_height + n + 1
      /\ parsing_height' # 0 => parsing_height' > irreversible_height
      /\ \A c \in DOMAIN parsing_progress_of' :
           /\ c \in consensus_block \ parsed' /\ Height[c] = parsing_height'
           /\ parsing_progress_of'[c] \in ProgressType
           /\ parsing_progress_of'[c].rows <= Len(Ops[c])
  <2>1. CASE ParsesNext(consensus_block, parsed')
    <3>1. \A c \in DOMAIN parsing_progress_of' :
            /\ c \in consensus_block \ parsed' /\ Height[c] = parsing_height'
            /\ parsing_progress_of'[c] \in ProgressType /\ parsing_progress_of'[c].rows = 0
      BY <2>1 DEF ParsesNext
    <3> QED
      BY <1>1, <1>5, <2>1, <3>1 DEF ParsesNext
  <2>2. CASE parsing_height' = parsing_height
    BY <1>1, <1>2, <1>4, <2>2 DEF ParsesNext
  <2> QED
    BY <2>1, <2>2
<1>7. /\ migrating_height' \in 0..MaxHeight
      /\ migrating_hash' \in Blocks \cup {NoBlock}
      /\ migrating_num_utxos' \in Nat /\ migrated_num_utxos' \in Nat
      /\ num_provider_validators' \in 0..Cardinality(Validators)
      /\ num_validators_assigned' \in 0..Cardinality(Validators)
      /\ migrating_height' # 0 <=> parsing_height' > irreversible_height + n
      /\ migrating_height' # 0 <=> migrating_hash' # NoBlock
  <2>1. CASE parsing_height' <= irreversible_height + n
    <3>1. UNCHANGED <<migrating_height, migrationVars>>
      BY <2>1
    <3>2. ~(parsing_height' > irreversible_height + n)
      BY <1>2, <1>6, <2>1
    <3> QED
      BY <1>1, <3>1, <3>2 DEF UtxoTypeOK, TablesTypeOK, migrationVars, UtxoInv, PhasesAlternate
  <2>2. CASE ~(parsing_height' <= irreversible_height + n)
    <3>1. MigratesNext(consensus_block, parsed')
      BY <2>2
    <3>2. migrating_hash' \in Blocks /\ migrating_height' = irreversible_height + 1
      BY <1>1, <3>1 DEF MigratesNext
    <3>3. migrating_hash' # NoBlock
      BY <3>2, SyncAssumption DEF SyncAssumption, NoBlock
    <3>4. IsFiniteSet(Validators)
      BY TablesAssumption DEF TablesAssumption
    <3>5. Cardinality(Validators) \in Nat
      BY <3>4, FS_CardinalityType
    <3>6. migrating_num_utxos' \in Nat
      BY <1>5, <3>1, <3>2 DEF MigratesNext
    <3>7. migrating_height' # 0 /\ migrating_height' \in 0..MaxHeight
          /\ parsing_height' > irreversible_height + n
      BY <1>2, <1>6, <2>2, <3>2
    <3> QED
      BY <3>1, <3>2, <3>3, <3>5, <3>6, <3>7 DEF MigratesNext
  <2> QED
    BY <2>1, <2>2
<1>8. UtxoTypeOK'
  <2>1. TablesTypeOK' /\ SyncTypeOK'
    BY <1>1, <1>7 DEF UtxoTypeOK, TablesTypeOK, SyncTypeOK, syncTables, Statuses
  <2> QED
    BY <1>1, <1>6, <1>7, <2>1 DEF UtxoTypeOK, ProgressType
<1>9. MigrationWindow'
  BY <1>6, <1>7, <1>8 DEF MigrationWindow
<1>10. MigratedBlockIsParsed' /\ MigratedBlockIsDeep'
  <2>1. CASE parsing_height' <= irreversible_height + n
    BY <2>1 DEF MigratedBlockIsParsed, MigratedBlockIsDeep
  <2>2. CASE ~(parsing_height' <= irreversible_height + n)
    <3>1. MigratesNext(consensus_block, parsed') /\ status' = "waiting"
      BY <2>2
    <3>2. MigratedBlockIsParsed'
      BY <3>1 DEF MigratesNext, MigratedBlockIsParsed
    <3>3. MigratedBlockIsDeep'
      BY <3>1 DEF MigratesNext, MigratedBlockIsDeep, Deep, Promise!DeepEnough
    <3> QED
      BY <3>2, <3>3
  <2> QED
    BY <2>1, <2>2
<1>11. NoRowsBelowTip'
  BY <1>1, <1>2, <1>3, <1>4 DEF UtxoInv, NoRowsBelowTip
<1>12. ParentsReachedConsensus' /\ NoSecondConsensus' /\ VerifiedOnce'
  BY <1>3 DEF UtxoInv, ParentsReachedConsensus, NoSecondConsensus, VerifiedOnce, syncTables,
     Passed, SyncNow
<1>13. PhasesAlternate'
  BY <1>7 DEF PhasesAlternate
<1>14. ParsingInOrder'
  <2>1. \A c \in parsed' : Height[c] <= irreversible_height + n
    BY <1>1 DEF UtxoInv, ParsingInOrder
  <2> QED
    BY <1>6, <2>1 DEF ParsingInOrder
<1>15. ConsensusRowsVerified' /\ OneBlockPerHeight' /\ UtxosCounted'
  BY <1>3 DEF UtxoInv, ConsensusRowsVerified, OneBlockPerHeight, UtxosCounted, syncTables,
     Passed, SyncNow
<1> QED
  BY <1>9, <1>10, <1>11, <1>12, <1>13, <1>14, <1>15 DEF UtxoInv

\* A batch of parsing: rows of the block, its end, or the end of its height.
LEMMA ParseRowsStep ==
  ASSUME UtxoInv, NEW s \in Synchronizers, NEW b \in Blocks, NEW rows \in Nat,
         MayProcess(s, b), ParseRows(s, b, rows), migrating_height = 0,
         UNCHANGED <<syncTables, synchronizer, config>>
  PROVE  UtxoInv'
<1> DEFINE n == IRREVERSIBLE_BLOCKS
           mine == Claimed(s, b)
           from == mine[b].rows
           k == AtMost(rows, Len(Ops[b]) - from)
           others == [c \in DOMAIN parsing_progress_of \ {b} |-> mine[c]]
<1>1. /\ DOMAIN mine = DOMAIN parsing_progress_of /\ b \in DOMAIN parsing_progress_of
      /\ \A c \in DOMAIN parsing_progress_of :
           mine[c] \in ProgressType /\ mine[c].rows = parsing_progress_of[c].rows
      /\ parsing_height # 0
  BY ClaimedProgress DEF SameProgress
<1>2. /\ \A c \in DOMAIN parsing_progress_of :
           /\ c \in consensus_block \ parsed /\ Height[c] = parsing_height
           /\ mine[c] \in ProgressType /\ mine[c].rows <= Len(Ops[c])
      /\ \A c \in parsed : Height[c] <= irreversible_height + n
  BY <1>1 DEF UtxoInv, ParsingInOrder
<1>3. /\ UtxoTypeOK /\ irreversible_height \in Nat /\ parsing_height \in 0..MaxHeight
      /\ n \in Nat /\ n > 1 /\ consensus_block \in SUBSET Blocks /\ parsed \subseteq consensus_block
      /\ pending_utxo \in [Blocks -> Seq(OpType)] /\ Ops[b] \in Seq(OpType)
      /\ IsFiniteSet(consensus_block) /\ uploader \in Uploaders
      /\ endorsement \in [Scopes -> [Blocks -> Rows]] /\ parsed_height \in 0..MaxHeight
  <2>1. UtxoTypeOK /\ TablesTypeOK /\ SyncTypeOK
    BY DEF UtxoInv, MigrationWindow, UtxoTypeOK
  <2>2. n \in Nat /\ n > 1 /\ Ops[b] \in Seq(OpType)
    BY UtxoAssumption DEF UtxoAssumption
  <2>3. irreversible_height \in Nat
    BY <2>1 DEF TablesTypeOK
  <2>4. IsFiniteSet(consensus_block) /\ uploader \in Uploaders
    BY <2>1 DEF UtxoInv, ConsensusRowsVerified, SyncTypeOK, Uploaders
  <2> QED
    BY <2>1, <2>2, <2>3, <2>4 DEF UtxoTypeOK, TablesTypeOK
<1>4. from \in Nat /\ from <= Len(Ops[b]) /\ Len(Ops[b]) \in Nat
  BY <1>1, <1>2, <1>3 DEF ProgressType
<1>5. k \in Nat /\ from + k <= Len(Ops[b])
  <2>1. Len(Ops[b]) - from \in Nat
    BY <1>4
  <2>2. k \in 0..(Len(Ops[b]) - from)
    <3> HIDE DEF from
    <3> QED
      BY <2>1, AtMostType
  <2> QED
    BY <1>4, <2>2
<1>6. parsing_height <= irreversible_height + n /\ Height[b] = parsing_height
      /\ b \in consensus_block /\ b \notin parsed
  <2>1. ~(parsing_height > irreversible_height + n)
    BY DEF UtxoInv, MigrationWindow
  <2>2. parsing_height \in Nat
    BY <1>3
  <2> QED
    BY <1>1, <1>2, <1>3, <2>1, <2>2
<1>7. /\ pending_utxo' = [pending_utxo EXCEPT ![b] = @ \o SubSeq(Ops[b], from + 1, from + k)]
      /\ IF from + k < Len(Ops[b])
           THEN /\ parsing_progress_of' = [mine EXCEPT ![b].rows = @ + k]
                /\ status' = "parsing"
                /\ UNCHANGED <<parsed, parsed_height, parsing_height, migrating_height, migrationVars>>
           ELSE /\ parsed' = parsed \cup {b}
                /\ IF DOMAIN others # {}
                     THEN /\ parsing_progress_of' = others
                          /\ status' = "parsing"
                          /\ UNCHANGED <<parsed_height, parsing_height, migrating_height,
                                         migrationVars>>
                     ELSE /\ parsed_height' = parsing_height
                          /\ status' = "waiting"
                          /\ NextParsable(consensus_block, parsed', uploader)
                          /\ NextIrreversible(endorsement, consensus_block, parsed', head_height)
      /\ UNCHANGED <<head_height, irreversible_height, irreversible_hash, consensus_block, uploader,
                     num_utxos, utxo, spent_utxo, block, endorsement>>
  BY DEF ParseRows
<1>8. /\ pending_utxo' \in [Blocks -> Seq(OpType)]
      /\ \A c \in Blocks \ {b} : pending_utxo'[c] = pending_utxo[c]
  <2>1. PICK batch : batch = SubSeq(Ops[b], from + 1, from + k)
    OBVIOUS
  <2>2. batch \in Seq(OpType)
    <3>1. \A i \in (from + 1)..(from + k) : Ops[b][i] \in OpType
      BY <1>3, <1>4, <1>5, SMTT(60)
    <3>2. from + 1 \in Int /\ from + k \in Int
      BY <1>4, <1>5
    <3> HIDE DEF from, k
    <3> QED
      BY <2>1, <3>1, <3>2, SubSeqProperties
  <2>3. pending_utxo[b] \o batch \in Seq(OpType)
    BY <1>3, <2>2
  <2>4. pending_utxo' = [pending_utxo EXCEPT ![b] = pending_utxo[b] \o batch]
    BY <1>7, <2>1
  <2> QED
    BY <1>3, <2>3, <2>4
<1>9. ~(irreversible_height + n < parsing_height)
  BY <1>3, <1>6
<1> HIDE DEF mine, from, k, others
<1>10. CASE from + k < Len(Ops[b])
  <2>1. PICK v : v = [mine[b] EXCEPT !.rows = from + k]
    OBVIOUS
  <2>2. v \in ProgressType /\ v.rows = from + k
    BY <1>1, <1>4, <1>5, <2>1 DEF ProgressType
  <2>3. parsing_progress_of' = [mine EXCEPT ![b] = v]
    BY <1>1, <1>7, <1>10, <2>1 DEF from
  <2>4. \A c \in DOMAIN parsing_progress_of' :
          /\ c \in consensus_block \ parsed' /\ Height[c] = parsing_height
          /\ parsing_progress_of'[c] \in ProgressType
          /\ parsing_progress_of'[c].rows <= Len(Ops[c])
    BY <1>1, <1>2, <1>5, <1>7, <1>10, <2>2, <2>3
  <2>5. /\ status' = "parsing" /\ parsing_height' = parsing_height /\ parsed' = parsed
        /\ parsed_height' = parsed_height /\ UNCHANGED <<migrating_height, migrationVars>>
    BY <1>7, <1>10
  <2> QED
    BY <1>1, <1>3, <1>6, <1>7, <1>8, <2>4, <2>5, ParsedStep
<1>11. CASE ~(from + k < Len(Ops[b])) /\ DOMAIN others # {}
  <2>1. /\ parsed' = parsed \cup {b} /\ parsing_progress_of' = others
        /\ status' = "parsing" /\ parsing_height' = parsing_height
        /\ parsed_height' = parsed_height /\ UNCHANGED <<migrating_height, migrationVars>>
    BY <1>7, <1>11
  <2>2. \A c \in DOMAIN parsing_progress_of' :
          /\ c \in consensus_block \ parsed' /\ Height[c] = parsing_height
          /\ parsing_progress_of'[c] \in ProgressType
          /\ parsing_progress_of'[c].rows <= Len(Ops[c])
    BY <1>1, <1>2, <2>1 DEF others
  <2> QED
    BY <1>1, <1>3, <1>6, <1>7, <1>8, <2>1, <2>2, ParsedStep
<1>12. CASE ~(from + k < Len(Ops[b])) /\ DOMAIN others = {}
  <2>1. /\ parsed' = parsed \cup {b} /\ parsed_height' = parsing_height /\ status' = "waiting"
        /\ NextParsable(consensus_block, parsed', uploader)
        /\ NextIrreversible(endorsement, consensus_block, parsed', head_height)
    BY <1>7, <1>12
  <2>2. Floor = irreversible_height
    BY DEF Floor, UtxoInv, PhasesAlternate
  <2>3. \A c \in consensus_block : Height[c] > irreversible_height + 1 => Prev[c] \in consensus_block
    BY <2>2 DEF UtxoInv, ParentsReachedConsensus
  <2>4. PICK done : done = parsed'
    OBVIOUS
  <2>5. done \in SUBSET consensus_block /\ \A c \in done : Height[c] <= irreversible_height + n
    BY <1>2, <1>3, <1>6, <2>1, <2>4
  <2>6. \A c \in consensus_block : uploader[c] # NoAccount
    BY DEF UtxoInv, ConsensusRowsVerified
  <2>7. ParsesNext(consensus_block, done)
    BY <1>3, <2>1, <2>3, <2>4, <2>5, <2>6, NextParsableEffect
  <2>8. parsing_height' > irreversible_height + n =>
          /\ parsing_height' <= irreversible_height + n + 1
          /\ \A c \in consensus_block \ done : Height[c] > irreversible_height => Height[c] >= parsing_height'
          /\ \E c \in consensus_block : Height[c] = parsing_height'
    BY <1>3, <2>7 DEF ParsesNext
  <2>9. parsing_height' \in Nat
    BY <2>7 DEF ParsesNext
  <2>10. IF parsing_height' <= irreversible_height + n
           THEN UNCHANGED <<migrating_height, migrationVars>>
           ELSE MigratesNext(consensus_block, done)
    <3>1. PICK head : head = head_height
      OBVIOUS
    <3> QED
      BY <1>3, <2>1, <2>3, <2>4, <2>5, <2>8, <2>9, NextIrreversibleEffect
  <2> QED
    BY <1>1, <1>3, <1>6, <1>7, <1>8, <2>1, <2>4, <2>7, <2>10, ParsedStep
<1> QED
  BY <1>10, <1>11, <1>12

\* Every phase of processblock keeps the invariant.
LEMMA ProcessBlockStep ==
  ASSUME UtxoInv, NEW s \in Synchronizers, NEW b \in Blocks, NEW rows \in Nat,
         ProcessBlock(s, b, rows), UNCHANGED <<syncTables, synchronizer, config>>
  PROVE  UtxoInv'
<1>1. MayProcess(s, b) /\ SameProgress(Claimed(s, b))
  BY ClaimedProgress DEF ProcessBlock
<1>2. status \in Statuses /\ migrating_height \in Nat
  BY DEF UtxoInv, MigrationWindow, UtxoTypeOK, TablesTypeOK
<1>3. /\ Phase \in {"migrating", "deleting_data", "distributing_rewards"} => migrating_height # 0
      /\ Phase = "migrating" => status # "distributing_rewards"
      /\ Phase = "deleting_data" => status = "deleting_data"
      /\ Phase = "distributing_rewards" => status = "distributing_rewards"
      /\ Phase = "parsing" => migrating_height = 0
  BY <1>2 DEF Phase, UtxoInv, PhasesAlternate, Statuses
<1>4. CASE /\ Phase = "migrating" /\ Migrate(rows) /\ parsing_progress_of' = Claimed(s, b)
           /\ UNCHANGED endorsement
  BY <1>1, <1>3, <1>4, MigrateStep
<1>5. CASE Phase = "deleting_data" /\ DeleteData(rows) /\ parsing_progress_of' = Claimed(s, b)
  <2>1. DeletePending(rows) \/ DeleteSpent(rows) \/ StoreIrreversible
    BY <1>5 DEF DeleteData
  <2>2. /\ UNCHANGED <<head_height, irreversible_height, migrating_height, parsed_height,
                       irreversible_hash, migrationVars, parsing_height, num_utxos, utxo,
                       syncTables, synchronizer, config>>
        /\ migrating_height # 0 /\ status = "deleting_data" /\ SameProgress(parsing_progress_of')
    BY <1>1, <1>3, <1>5 DEF DeleteData
  <2>3. CASE DeletePending(rows)
    BY <2>2, <2>3, DeletePendingStep
  <2>4. CASE DeleteSpent(rows)
    BY <2>2, <2>4, DeleteSpentStep
  <2>5. CASE StoreIrreversible
    BY <2>2, <2>5, StoreIrreversibleStep
  <2> QED
    BY <2>1, <2>3, <2>4, <2>5
<1>6. CASE Phase = "distributing_rewards" /\ DistributeRewards /\ parsing_progress_of' = Claimed(s, b)
  BY <1>1, <1>3, <1>6, DistributeRewardsStep
<1>7. CASE Phase = "parsing" /\ ParseRows(s, b, rows)
  BY <1>1, <1>3, <1>7, ParseRowsStep
<1> QED
  BY <1>4, <1>5, <1>6, <1>7 DEF ProcessBlock

-----------------------------------------------------------------------------
\* Every step of utxomng.xsat and of the contracts that call it keeps the invariant.
LEMMA NextUtxoInv == UtxoInv /\ [UtxoNext]_utxoSpecVars => UtxoInv'
<1> SUFFICES ASSUME UtxoInv, [UtxoNext]_utxoSpecVars PROVE UtxoInv'
  OBVIOUS
<1>1. ASSUME NEW s \in Synchronizers, NEW b \in Blocks, NEW rows \in ProcessRows,
             ProcessBlock(s, b, rows), UNCHANGED <<syncTables, synchronizer, config>>
      PROVE  UtxoInv'
  <2>1. rows \in Nat
    BY UtxoAssumption DEF UtxoAssumption
  <2> QED
    BY <1>1, <2>1, ProcessBlockStep
<1>2. ASSUME NEW b \in Blocks, ParserTimeout(b),
             UNCHANGED <<chainTables, irreversible_hash, migrationVars, parsing_height, parsed,
                         uploader, utxoTables, block, syncTables, synchronizer, endorsement, config>>
      PROVE  UtxoInv'
  BY <1>2, ParserTimeoutStep
<1>3. ASSUME NEW s \in Scopes, NEW b \in Blocks, Endorsed(s, b) PROVE UtxoInv'
  BY <1>3, EndorsedStep
<1>4. ASSUME NEW s \in Synchronizers, NEW b \in Blocks, Verified(s, b) PROVE UtxoInv'
  BY <1>4, VerifiedStep
<1>5. ASSUME NEW s \in Synchronizers, NEW b \in Blocks, VerifiedLate(s, b) PROVE UtxoInv'
  BY <1>5, VerifiedLateStep
<1>6. ASSUME NEW s \in Synchronizers, NEW b \in Blocks, Withdrawn(s, b) PROVE UtxoInv'
  BY <1>6, WithdrawnStep
<1>7. ASSUME NEW b \in Blocks, WindowExpires(b) PROVE UtxoInv'
  BY <1>7, WindowExpiresStep
<1>8. CASE UNCHANGED utxoSpecVars
  <2>1. \A c \in DOMAIN parsing_progress_of : parsing_progress_of[c] \in ProgressType
    BY DEF UtxoInv, MigrationWindow, UtxoTypeOK, ProgressType
  <2>2. config' \in ConfigType /\ endorsement' \in EndorsementType
    BY <1>8 DEF UtxoInv, MigrationWindow, UtxoTypeOK, TablesTypeOK, EndorsementType, utxoSpecVars
  <2>3. UNCHANGED <<chainTables, irreversible_hash, migrationVars, parsing_height, parsed,
                    uploader, utxoTables, block, syncTables, synchronizer, config>>
        /\ UNCHANGED parsing_progress_of
    BY <1>8 DEF utxoSpecVars, utxoVars, parsingVars
  <2> QED
    BY <2>1, <2>2, <2>3, ProgressStep
<1> QED
  BY <1>1, <1>2, <1>3, <1>4, <1>5, <1>6, <1>7, <1>8 DEF UtxoNext, UtxoStep

\* utxomng.xsat keeps its invariant, whatever its callers do.
THEOREM UtxoInvHolds == UtxoSpec => []UtxoInv
<1>1. UtxoSpecInit => UtxoInv
  BY InitUtxoInv
<1>2. UtxoInv /\ [UtxoNext]_utxoSpecVars => UtxoInv'
  BY NextUtxoInv
<1> QED
  BY <1>1, <1>2, PTL DEF UtxoSpec

\* The migration window: a migration is under way exactly while the height
\* IRREVERSIBLE_BLOCKS + 1 above the tip waits to be parsed.
THEOREM MigrationWindowHolds == UtxoSpec => []MigrationWindow
BY UtxoInvHolds, PTL DEF UtxoInv

\* find_set_next_irreversible_block never picks a block that is not parsed.
THEOREM MigratedBlockIsParsedHolds == UtxoSpec => []MigratedBlockIsParsed
BY UtxoInvHolds, PTL DEF UtxoInv

\* Nothing verified or endorsed late leaves rows at or below the irreversible heights.
THEOREM NoRowsBelowTipHolds == UtxoSpec => []NoRowsBelowTip
BY UtxoInvHolds, PTL DEF UtxoInv

\* The walk back of find_next_irreversible_block finds the rows it needs.
THEOREM ParentsReachedConsensusHolds == UtxoSpec => []ParentsReachedConsensus
BY UtxoInvHolds, PTL DEF UtxoInv

\* consensus never adds a second row for a block.
THEOREM NoSecondConsensusHolds == UtxoSpec => []NoSecondConsensus
BY UtxoInvHolds, PTL DEF UtxoInv

-----------------------------------------------------------------------------
(***************************************************************************)
(* What utxomng.xsat promises to its users: the irreversible blocks form a *)
(* chain that only grows by agreed blocks (it implements the module        *)
(* IrreversibleChain), and the UTXO set is the one of that chain.          *)
(***************************************************************************)

-----------------------------------------------------------------------------
(***************************************************************************)
(* The promise of module IrreversibleChain.                                *)
(***************************************************************************)
\* The table of irreversible blocks is a chain: its i-th block is the one at
\* height i - 1, and the last one is at the floor.
ChainInShape ==
  /\ Floor \in Nat /\ ChainOfBlocks \in Seq(Blocks \cup {Genesis})
  /\ Len(ChainOfBlocks) = Floor + 1
  /\ \A i \in 1..(Floor + 1) : ChainOfBlocks[i] \in block /\ HeightOf(ChainOfBlocks[i]) = i - 1

\* The invariant says so.
LEMMA ChainShape == UtxoInv => ChainInShape
<1> SUFFICES ASSUME UtxoInv PROVE ChainInShape
  OBVIOUS
<1> DEFINE at(i) == CHOOSE b \in block : HeightOf(b) = i - 1
<1>1. /\ Cardinality(block) = Floor + 1 /\ block \subseteq Blocks \cup {Genesis}
      /\ \A i \in 0..Floor : \E b \in block : HeightOf(b) = i
      /\ Floor \in Nat
  BY DEF UtxoInv, OneBlockPerHeight, MigrationWindow, UtxoTypeOK, TablesTypeOK, SyncTypeOK, Floor
<1>2. \A i \in 1..(Floor + 1) : i - 1 \in 0..Floor
  BY <1>1
<1>3. \A i \in 1..(Floor + 1) : at(i) \in block /\ HeightOf(at(i)) = i - 1
  BY <1>1, <1>2
<1>4. ChainOfBlocks = [i \in 1..(Floor + 1) |-> at(i)]
  BY <1>1 DEF ChainOfBlocks
<1> HIDE DEF at
<1>5. ChainOfBlocks \in [1..(Floor + 1) -> Blocks \cup {Genesis}]
  BY <1>1, <1>3, <1>4
<1>6. \A i \in 1..(Floor + 1) : ChainOfBlocks[i] = at(i)
  BY <1>4
<1>7. Floor + 1 \in Nat
  BY <1>1
<1>8. ChainOfBlocks \in Seq(Blocks \cup {Genesis}) /\ Len(ChainOfBlocks) = Floor + 1
  BY <1>5, <1>7
<1> QED
  BY <1>1, <1>3, <1>6, <1>8 DEF ChainInShape

\* The chain starts as the genesis block alone.
LEMMA ChainStarts == UtxoSpecInit => Promise!ChainInit
<1> SUFFICES ASSUME UtxoSpecInit PROVE Promise!ChainInit
  OBVIOUS
<1>1. block = {Genesis} /\ consensus_block = {}
  BY DEF UtxoSpecInit, UtxoInit
<1>2. Cardinality(block) = 1
  BY <1>1, FS_Singleton
<1>3. ChainOfBlocks = [i \in 1..1 |-> CHOOSE b \in block : HeightOf(b) = i - 1]
  BY <1>2 DEF ChainOfBlocks
<1>4. (CHOOSE b \in block : HeightOf(b) = 1 - 1) = Genesis
  BY <1>1, Heights0
<1>5. ChainOfBlocks = <<Genesis>>
  BY <1>3, <1>4
<1> QED
  BY <1>1, <1>5 DEF Promise!ChainInit

\* A call of consensus that stores the block is agreement on it.
LEMMA ConsensusAgrees ==
  ASSUME UtxoInv, NEW b \in Blocks, NEW y, SyncReady(y, b), NEW t, Consensus(t, y, b)
  PROVE  [Promise!ChainNext]_Promise!chainVars
<1>1. UNCHANGED block
  BY DEF Consensus, utxoVars
<1>2. ChainOfBlocks' = ChainOfBlocks
  BY <1>1 DEF ChainOfBlocks
<1>3. CASE ~MayReachConsensus(t, y, b)
  BY <1>2, <1>3 DEF Consensus, utxoVars, chainTables, Promise!chainVars
<1>4. CASE MayReachConsensus(t, y, b)
  <2>1. consensus_block' = consensus_block \cup {b}
    BY <1>4 DEF Consensus
  <2>2. Height[b] > Floor
    BY <1>4 DEF MayReachConsensus, SyncReady
  <2>3. Promise!TipHeight = Floor
    BY ChainShape DEF Promise!TipHeight, ChainInShape
  <2>4. Promise!Agree(b)
    BY <1>2, <2>1, <2>2, <2>3 DEF Promise!Agree
  <2> QED
    BY <2>4 DEF Promise!ChainNext
<1> QED
  BY <1>3, <1>4

\* Storing the migrated block extends the chain.
LEMMA StoreExtends ==
  ASSUME UtxoInv, UtxoInv', StoreIrreversible, migrating_height # 0, status = "deleting_data",
         UNCHANGED <<irreversible_height, migrating_height, migrationVars>>
  PROVE  Promise!Extend(migrating_hash)
<1> DEFINE m == migrating_hash
           h == migrating_height
<1>1. /\ irreversible_height \in Nat /\ h = irreversible_height + 1 /\ m \in Blocks
      /\ Height[m] = h /\ Prev[m] = irreversible_hash
  BY WhileMigrating
<1>2. m \in consensus_block /\ consensus_block \subseteq Blocks
  BY DEF UtxoInv, MigrationWindow, MigratedBlockIsParsed, UtxoTypeOK, TablesTypeOK
<1>3. Floor = irreversible_height /\ Floor' = h
  BY DEF Floor, StoreIrreversible
<1>4. block' = block \cup {m}
  BY <1>2 DEF StoreIrreversible
<1>5. /\ ChainOfBlocks \in Seq(Blocks \cup {Genesis}) /\ Len(ChainOfBlocks) = h
      /\ \A i \in 1..h : ChainOfBlocks[i] \in block /\ HeightOf(ChainOfBlocks[i]) = i - 1
  BY <1>1, <1>3, ChainShape DEF ChainInShape
<1>6. /\ ChainOfBlocks' \in Seq(Blocks \cup {Genesis}) /\ Len(ChainOfBlocks)' = h + 1
      /\ \A i \in 1..(h + 1) : ChainOfBlocks'[i] \in block' /\ HeightOf(ChainOfBlocks'[i]) = i - 1
  <2>1. ChainInShape'
    BY ChainShape, PTL
  <2> QED
    BY <1>3, <2>1 DEF ChainInShape
\* The blocks of the chain are those of the table, and there is one per height.
<1>7. /\ \A b, c \in block' : HeightOf(b) = HeightOf(c) => b = c
      /\ irreversible_hash \in block /\ HeightOf(irreversible_hash) = irreversible_height
      /\ HeightOf(m) = h
  <2>1. \A b, c \in block' : HeightOf(b) = HeightOf(c) => b = c
    BY DEF UtxoInv, OneBlockPerHeight
  <2> QED
    BY <1>1, <2>1, Heights0 DEF UtxoInv, OneBlockPerHeight
<1>8. ChainOfBlocks' = Append(ChainOfBlocks, m)
  <2> DEFINE longer == Append(ChainOfBlocks, m)
  <2>1. /\ longer \in Seq(Blocks \cup {Genesis}) /\ Len(longer) = h + 1
        /\ \A i \in 1..h : longer[i] = ChainOfBlocks[i]
        /\ longer[h + 1] = m
    BY <1>1, <1>5, AppendProperties
  <2>2. ASSUME NEW i \in 1..(h + 1) PROVE ChainOfBlocks'[i] = longer[i]
    <3>1. ChainOfBlocks'[i] \in block' /\ HeightOf(ChainOfBlocks'[i]) = i - 1
      BY <1>6
    <3>2. longer[i] \in block' /\ HeightOf(longer[i]) = i - 1
      <4>1. CASE i = h + 1
        BY <1>1, <1>4, <1>7, <2>1, <4>1
      <4>2. CASE i # h + 1
        <5>1. i \in 1..h
          BY <1>1, <4>2
        <5> QED
          BY <1>4, <1>5, <2>1, <5>1
      <4> QED
        BY <4>1, <4>2
    <3> QED
      BY <1>7, <3>1, <3>2
  <2> HIDE DEF longer
  <2>3. ChainOfBlocks' = longer
    <3>1. PICK c, l, S : c = ChainOfBlocks' /\ l = longer /\ S = Blocks \cup {Genesis}
      OBVIOUS
    <3>2. /\ c \in Seq(S) /\ l \in Seq(S) /\ Len(c) = Len(l)
          /\ \A i \in 1..Len(c) : c[i] = l[i]
      BY <1>6, <2>1, <2>2, <3>1
    <3> QED
      BY <3>1, <3>2, SeqEqual
  <2> QED
    BY <2>3 DEF longer
<1>9. Promise!Tip = irreversible_hash
  <2>1. h \in 1..h /\ h - 1 = irreversible_height
    BY <1>1
  <2>2. ChainOfBlocks[h] \in block' /\ irreversible_hash \in block'
        /\ HeightOf(ChainOfBlocks[h]) = HeightOf(irreversible_hash)
    BY <1>4, <1>5, <1>7, <2>1
  <2>3. ChainOfBlocks[h] = irreversible_hash
    BY <1>7, <2>2
  <2> QED
    BY <1>5, <2>3 DEF Promise!Tip
<1>10. consensus_block' = {c \in consensus_block : Height[c] > Height[m]}
  <2>1. ASSUME NEW c \in consensus_block PROVE Height[c] # h <=> Height[c] > h
    <3>1. Height[c] \in Nat /\ ~(Height[c] <= irreversible_height)
      BY <1>2, <1>3, Heights0 DEF UtxoInv, NoRowsBelowTip
    <3> QED
      BY <1>1, <3>1
  <2> QED
    BY <1>1, <2>1 DEF StoreIrreversible
<1>11. Promise!DeepEnough(m)
  BY DEF UtxoInv, MigratedBlockIsDeep
<1> QED
  BY <1>1, <1>2, <1>8, <1>9, <1>10, <1>11 DEF Promise!Extend

\* What a step does to the tables of utxomng.xsat, whoever took it: nothing, a call of
\* consensus with the endorsements and the file of the block as they then are, a batch
\* of processblock, or a parser that is late.
UtxoTablesStep ==
  \/ UNCHANGED utxoVars
  \/ \E b \in Blocks : \E t, y : SyncReady(y, b) /\ Consensus(t, y, b)
  \/ \E s \in Synchronizers, b \in Blocks, rows \in ProcessRows : ProcessBlock(s, b, rows)
  \/ \E b \in Blocks :
       /\ ParserTimeout(b)
       /\ UNCHANGED <<chainTables, irreversible_hash, migrationVars, parsed, utxoTables, block>>

\* A verification that completes a block, or not.
LEMMA VerificationOfTables ==
  ASSUME UtxoInv, NEW s \in Synchronizers, NEW b \in Blocks, Verified(s, b) \/ VerifiedLate(s, b) \/ Withdrawn(s, b)
  PROVE  UtxoTablesStep
<1>1. ASSUME NEW t, NEW y, SyncReady(y, b), Consensus(t, y, b) PROVE UtxoTablesStep
  BY <1>1 DEF UtxoTablesStep
<1>2. CASE Verified(s, b)
  <2>1. PICK y : y = Pass(SyncNow, s, b)
    OBVIOUS
  <2>2. SyncReady(y, b)
    BY <1>2, <2>1, ReadyPassed DEF Verified
  <2>3. UNCHANGED utxoVars \/ Consensus(endorsement, y, b)
    BY <1>2, <2>1 DEF Verified
  <2> QED
    BY <1>1, <2>2, <2>3 DEF UtxoTablesStep
<1>3. CASE VerifiedLate(s, b)
  <2>1. SyncReady(SyncNow, b)
    BY <1>3, UncheckedAboveTip, ReadyNow DEF VerifiedLate
  <2> QED
    BY <1>1, <1>3, <2>1 DEF VerifiedLate
<1>4. CASE Withdrawn(s, b)
  BY <1>4 DEF Withdrawn, UtxoTablesStep
<1> QED
  BY <1>2, <1>3, <1>4

\* The steps of the module are such steps.
LEMMA StepOfTables ==
  ASSUME UtxoInv, [UtxoNext]_utxoSpecVars
  PROVE  UtxoTablesStep
<1>1. ASSUME NEW s \in Synchronizers, NEW b \in Blocks, NEW rows \in ProcessRows, ProcessBlock(s, b, rows)
      PROVE  UtxoTablesStep
  BY <1>1 DEF UtxoTablesStep
<1>2. ASSUME NEW b \in Blocks, ParserTimeout(b),
             UNCHANGED <<chainTables, irreversible_hash, migrationVars, parsed, utxoTables, block>>
      PROVE  UtxoTablesStep
  BY <1>2 DEF UtxoTablesStep
<1>3. ASSUME NEW s \in Scopes, NEW b \in Blocks, Endorsed(s, b) PROVE UtxoTablesStep
  <2>1. SyncReady(SyncNow, b)
    BY <1>3, EndorsedReady
  <2> QED
    BY <1>3, <2>1 DEF Endorsed, UtxoTablesStep
<1>4. ASSUME NEW b \in Blocks, WindowExpires(b) PROVE UtxoTablesStep
  BY <1>4 DEF WindowExpires, UtxoTablesStep
<1>5. CASE UNCHANGED utxoSpecVars
  BY <1>5 DEF utxoSpecVars, UtxoTablesStep
<1> QED
  BY <1>1, <1>2, <1>3, <1>4, <1>5, VerificationOfTables DEF UtxoNext, UtxoStep

\* Every one of them is a step of the promise, or leaves what it is about alone.
LEMMA ChainStep ==
  ASSUME UtxoInv, UtxoInv', UtxoTablesStep
  PROVE  [Promise!ChainNext]_Promise!chainVars
<1>1. UNCHANGED <<block, consensus_block>> => [Promise!ChainNext]_Promise!chainVars
  BY DEF Promise!chainVars, ChainOfBlocks
<1>2. ASSUME NEW s \in Synchronizers, NEW b \in Blocks, NEW rows \in ProcessRows,
             ProcessBlock(s, b, rows)
      PROVE  [Promise!ChainNext]_Promise!chainVars
  <2>1. CASE Phase = "deleting_data" /\ StoreIrreversible /\ DeleteData(rows)
    <3>1. status = "deleting_data" /\ migrating_height # 0
      BY <2>1 DEF Phase, UtxoInv, PhasesAlternate
    <3>2. UNCHANGED <<irreversible_height, migrating_height, migrationVars>>
      BY <2>1 DEF DeleteData
    <3>3. Promise!Extend(migrating_hash) /\ migrating_hash \in Blocks
      BY <2>1, <3>1, <3>2, StoreExtends, WhileMigrating
    <3> QED
      BY <3>3 DEF Promise!ChainNext
  <2>2. CASE ~(Phase = "deleting_data" /\ StoreIrreversible /\ DeleteData(rows))
    <3>1. UNCHANGED <<block, consensus_block>>
      BY <1>2, <2>2 DEF ProcessBlock, Migrate, DeleteData, DeletePending, DeleteSpent,
         DistributeRewards, ParseRows, consensusRows
    <3> QED
      BY <1>1, <3>1
  <2> QED
    BY <2>1, <2>2
<1>3. ASSUME NEW b \in Blocks, NEW t, NEW y, SyncReady(y, b), Consensus(t, y, b)
      PROVE  [Promise!ChainNext]_Promise!chainVars
  BY <1>3, ConsensusAgrees
<1>4. CASE UNCHANGED <<chainTables, block>> \/ UNCHANGED utxoVars
  BY <1>1, <1>4 DEF utxoVars, chainTables
<1> QED
  BY <1>2, <1>3, <1>4 DEF UtxoTablesStep

\* utxomng.xsat implements the irreversible chain: whatever the order of
\* verifications, endorsements, batches and takeovers, the blocks it stores only
\* grow by children of the tip that were agreed on with their line of descendants.
THEOREM ImplementsChain == UtxoSpec => ImplementsIrreversibleChain
<1>1. UtxoSpecInit => Promise!ChainInit
  BY ChainStarts
<1>2. UtxoInv /\ UtxoInv' /\ [UtxoNext]_utxoSpecVars => [Promise!ChainNext]_Promise!chainVars
  BY StepOfTables, ChainStep
<1>3. UtxoSpec => []UtxoInv
  BY UtxoInvHolds
<1> QED
  BY <1>1, <1>2, <1>3, PTL DEF UtxoSpec, ImplementsIrreversibleChain, Promise!ChainSpec

-----------------------------------------------------------------------------
(***************************************************************************)
(* The UTXO set follows the chain.                                         *)
(***************************************************************************)
\* The rows of a block and its ancestors are those up to its parent, then its own.
LEMMA OpsUpToStep ==
  /\ OpsUpTo \in [Blocks \cup {Genesis} -> Seq(OpType)]
  /\ OpsUpTo[Genesis] = << >>
  /\ \A b \in Blocks : OpsUpTo[b] = OpsUpTo[Prev[b]] \o Ops[b]
<1> DEFINE B == Blocks \cup {Genesis}
           Val == [B -> Seq(OpType)]
           next(g) == [b \in B |-> IF b = Genesis THEN << >> ELSE g[Prev[b]] \o Ops[b]]
           step == [g \in Val |-> next(g)]
           base == [b \in B |-> << >>]
           n == MaxHeight + 1
<1>1. /\ Ops \in [Blocks -> Seq(OpType)] /\ Genesis \notin Blocks
      /\ MaxHeight \in Nat /\ \A b \in B : HeightOf(b) \in 0..MaxHeight
      /\ \A b \in B : HeightOf(b) = 0 => b = Genesis
      /\ \A b \in Blocks : Prev[b] \in B /\ HeightOf(Prev[b]) = HeightOf(b) - 1
  BY Heights0, UtxoAssumption, SyncAssumption, SMTT(60) DEF UtxoAssumption, SyncAssumption, Heights
<1>2. base \in Val
  BY EmptySeq
<1>3. ASSUME NEW g \in Val PROVE next(g) \in Val
  <2>1. ASSUME NEW b \in B, b # Genesis PROVE g[Prev[b]] \o Ops[b] \in Seq(OpType)
    <3>1. g[Prev[b]] \in Seq(OpType) /\ Ops[b] \in Seq(OpType)
      BY <1>1, <2>1
    <3> QED
      BY <3>1, ConcatProperties
  <2>2. << >> \in Seq(OpType)
    BY EmptySeq
  <2> QED
    BY <2>1, <2>2
<1>4. step \in [Val -> Val]
  BY <1>3
<1>5. PICK f \in [0..n -> Val] : f[0] = base /\ \A k \in 1..n : f[k] = step[f[k - 1]]
  <2>1. n \in Nat
    BY <1>1
  <2>2. PICK m, V, st, v : m = n /\ V = Val /\ st = step /\ v = base
    OBVIOUS
  <2> HIDE DEF base, step, Val, n
  <2>3. m \in Nat /\ v \in V /\ st \in [V -> V]
    BY <1>2, <1>4, <2>1, <2>2
  <2>4. \E f \in [0..m -> V] : f[0] = v /\ \A k \in 1..m : f[k] = st[f[k - 1]]
    BY ONLY <2>3, Iteration, SMTT(30)
  <2> QED
    BY <2>2, <2>4
<1>6. \A k \in 1..n : f[k - 1] \in Val /\ f[k] = next(f[k - 1])
  <2> SUFFICES ASSUME NEW k \in 1..n PROVE f[k - 1] \in Val /\ f[k] = next(f[k - 1])
    OBVIOUS
  <2>1. k - 1 \in 0..n
    BY <1>1
  <2>2. f[k - 1] \in Val
    BY <2>1
  <2> HIDE DEF Val, next, n
  <2> QED
    BY <1>5, <2>2 DEF step
<1>7. \A k \in 1..n, b \in B :
        f[k][b] = IF b = Genesis THEN << >> ELSE f[k - 1][Prev[b]] \o Ops[b]
  BY <1>6
<1> HIDE DEF step
\* Up to its height, an iteration no longer changes the rows of a block.
<1>8. \A k \in 0..MaxHeight : \A b \in B : HeightOf(b) <= k => f[k + 1][b] = f[k][b]
  <2> DEFINE P == {k \in Nat : k <= MaxHeight => \A b \in B : HeightOf(b) <= k => f[k + 1][b] = f[k][b]}
  <2>1. 0 \in P
    <3> SUFFICES ASSUME NEW b \in B, HeightOf(b) <= 0 PROVE f[0 + 1][b] = f[0][b]
      OBVIOUS
    <3>1. b = Genesis
      BY <1>1
    <3>2. 1 \in 1..n
      BY <1>1
    <3>3. f[1][b] = << >>
      BY <1>7, <3>1, <3>2
    <3> QED
      BY <1>5, <3>3
  <2>2. ASSUME NEW k \in P PROVE k + 1 \in P
    <3> SUFFICES ASSUME k + 1 <= MaxHeight, NEW b \in B, HeightOf(b) <= k + 1
                 PROVE  f[k + 2][b] = f[k + 1][b]
      OBVIOUS
    <3>1. k \in Nat /\ k + 1 \in 1..n /\ k + 2 \in 1..n /\ (k + 1) - 1 = k /\ (k + 2) - 1 = k + 1
      BY <1>1
    <3>2. CASE b = Genesis
      BY <1>7, <3>1, <3>2
    <3>3. CASE b # Genesis
      <4>1. Prev[b] \in B /\ HeightOf(Prev[b]) <= k
        BY <1>1, <3>1, <3>3
      <4>2. f[k + 1][Prev[b]] = f[k][Prev[b]]
        BY <1>1, <3>1, <4>1
      <4>3. f[k + 2][b] = f[k + 1][Prev[b]] \o Ops[b] /\ f[k + 1][b] = f[k][Prev[b]] \o Ops[b]
        BY <1>7, <3>1, <3>3
      <4> QED
        BY <4>2, <4>3
    <3> QED
      BY <3>2, <3>3
  <2>3. P \in SUBSET Nat
    OBVIOUS
  <2>4. P = Nat
    <3> HIDE DEF P
    <3> QED
      BY <2>1, <2>2, <2>3, SetOfNaturals
  <2> QED
    BY <2>4
<1> DEFINE g == f[MaxHeight]
<1>9. g \in Val
  <2>1. MaxHeight \in 0..n
    BY <1>1
  <2> HIDE DEF Val, n
  <2> QED
    BY <2>1
<1>10. \A b \in B : g[b] = IF b = Genesis THEN << >> ELSE g[Prev[b]] \o Ops[b]
  <2> SUFFICES ASSUME NEW b \in B
               PROVE  g[b] = IF b = Genesis THEN << >> ELSE g[Prev[b]] \o Ops[b]
    OBVIOUS
  <2>1. MaxHeight + 1 \in 1..n /\ (MaxHeight + 1) - 1 = MaxHeight /\ MaxHeight \in 0..MaxHeight
    BY <1>1
  <2>2. f[MaxHeight + 1][b] = IF b = Genesis THEN << >> ELSE f[MaxHeight][Prev[b]] \o Ops[b]
    BY <1>7, <2>1
  <2>3. HeightOf(b) <= MaxHeight
    BY <1>1
  <2>4. f[MaxHeight + 1][b] = f[MaxHeight][b]
    BY <1>8, <2>1, <2>3
  <2> QED
    BY <2>2, <2>4
<1> HIDE DEF g
<1>11. g = [b \in B |-> IF b = Genesis THEN << >> ELSE g[Prev[b]] \o Ops[b]]
  BY <1>9, <1>10
\* So there is such a function, and it is the only one.
<1>12. OpsUpTo = [b \in B |-> IF b = Genesis THEN << >> ELSE OpsUpTo[Prev[b]] \o Ops[b]]
  <2> DEFINE Is(h) == h = [b \in B |-> IF b = Genesis THEN << >> ELSE h[Prev[b]] \o Ops[b]]
  <2>1. OpsUpTo = CHOOSE h : Is(h)
    BY DEF OpsUpTo
  <2>2. Is(g)
    BY <1>11
  <2> HIDE DEF Is
  <2>3. Is(OpsUpTo)
    BY <2>1, <2>2
  <2> QED
    BY <2>3 DEF Is
<1>13. \A b \in B : OpsUpTo[b] = IF b = Genesis THEN << >> ELSE OpsUpTo[Prev[b]] \o Ops[b]
  BY <1>12
<1>14. \A b \in B : OpsUpTo[b] = g[b]
  <2> DEFINE P == {k \in Nat : \A b \in B : HeightOf(b) = k => OpsUpTo[b] = g[b]}
  <2>1. 0 \in P
    BY <1>1, <1>10, <1>13
  <2>2. ASSUME NEW k \in P PROVE k + 1 \in P
    <3> SUFFICES ASSUME NEW b \in B, HeightOf(b) = k + 1 PROVE OpsUpTo[b] = g[b]
      OBVIOUS
    <3>1. b # Genesis
      BY Heights0
    <3>2. Prev[b] \in B /\ HeightOf(Prev[b]) = k
      BY <1>1, <3>1
    <3>3. OpsUpTo[Prev[b]] = g[Prev[b]]
      BY <3>2
    <3> QED
      BY <1>10, <1>13, <3>1, <3>3
  <2>3. P \in SUBSET Nat
    OBVIOUS
  <2>4. P = Nat
    <3> HIDE DEF P
    <3> QED
      BY <2>1, <2>2, <2>3, SetOfNaturals
  <2> QED
    BY <1>1, <2>4
<1>15. OpsUpTo \in Val
  BY <1>9, <1>12, <1>14
<1> QED
  BY <1>1, <1>13, <1>15

\* A row that follows adds its output or takes it away.
LEMMA UnspentAfter ==
  ASSUME NEW rows \in Seq(OpType), NEW row \in OpType
  PROVE  Unspent(rows \o <<row>>) =
           IF row.type = "vout" THEN Unspent(rows) \cup {row.coin} ELSE Unspent(rows) \ {row.coin}
<1> DEFINE all == rows \o <<row>>
           n == Len(rows)
           Left(q, i, c) == /\ q[i].type = "vout" /\ q[i].coin = c
                            /\ \A k \in DOMAIN q : k > i => q[k] # [type |-> "vin", coin |-> c]
<1>1. /\ n \in Nat /\ DOMAIN rows = 1..n /\ DOMAIN all = 1..(n + 1)
      /\ \A i \in 1..n : all[i] = rows[i]
      /\ all[n + 1] = row
  <2>1. <<row>> \in Seq(OpType) /\ Len(<<row>>) = 1 /\ <<row>>[1] = row
    OBVIOUS
  <2>2. /\ all \in Seq(OpType) /\ Len(all) = n + 1
        /\ \A i \in 1..(n + 1) : all[i] = IF i <= n THEN rows[i] ELSE <<row>>[i - n]
    BY <2>1, ConcatProperties
  <2>3. n \in Nat /\ DOMAIN rows = 1..n /\ DOMAIN all = 1..(n + 1)
    BY <2>2, LenProperties
  <2>4. n + 1 \in 1..(n + 1) /\ ~(n + 1 <= n) /\ (n + 1) - n = 1
    BY <2>3
  <2>5. all[n + 1] = row
    BY <2>1, <2>2, <2>4
  <2>6. \A i \in 1..n : all[i] = rows[i]
    BY <2>2, <2>3
  <2> QED
    BY <2>3, <2>5, <2>6
<1>2. \A c : c \in Unspent(rows) <=> \E i \in 1..n : Left(rows, i, c)
  BY <1>1 DEF Unspent
<1>3. \A c : c \in Unspent(all) <=> \E i \in 1..(n + 1) : Left(all, i, c)
  <2> HIDE DEF all
  <2> QED
    BY <1>1 DEF Unspent
<1> HIDE DEF all
<1>4. row.type \in {"vin", "vout"} /\ row = [type |-> row.type, coin |-> row.coin]
  BY DEF OpType
<1>5. \A c : row = [type |-> "vin", coin |-> c] <=> row.type = "vin" /\ row.coin = c
  BY <1>4
\* The rows before stay unspent unless this one spends them.
<1>6. ASSUME NEW c, NEW i \in 1..n
      PROVE  Left(all, i, c) <=> Left(rows, i, c) /\ ~(row.type = "vin" /\ row.coin = c)
  <2>1. n + 1 > i /\ i \in 1..(n + 1)
    BY <1>1
  <2>2. \A k \in 1..(n + 1) : k \in 1..n \/ k = n + 1
    BY <1>1
  <2>3. \A k \in 1..n : k \in 1..(n + 1) /\ all[k] = rows[k]
    BY <1>1
  <2>4. n + 1 \in 1..(n + 1) /\ (all[n + 1] # [type |-> "vin", coin |-> c] <=> ~(row.type = "vin" /\ row.coin = c))
    BY <1>1, <1>5
  <2> QED
    BY <1>1, <2>1, <2>2, <2>3, <2>4
<1>7. \A c : Left(all, n + 1, c) <=> row.type = "vout" /\ row.coin = c
  <2>1. \A k \in DOMAIN all : ~(k > n + 1)
    BY <1>1
  <2> QED
    BY <1>1, <2>1
<1> HIDE DEF Left
<1>8. \A i : i \in 1..(n + 1) <=> i \in 1..n \/ i = n + 1
  BY <1>1
<1>9. \A c : c \in Unspent(all) <=>
        \/ c \in Unspent(rows) /\ ~(row.type = "vin" /\ row.coin = c)
        \/ row.type = "vout" /\ row.coin = c
  BY <1>2, <1>3, <1>6, <1>7, <1>8
<1> QED
  BY <1>4, <1>9 DEF all

\* How many rows of a block are parsed while it is in progress.
RowsOf(progress, c) == IF c \in DOMAIN progress THEN progress[c].rows ELSE 0

\* A step keeps the UTXO set on the chain, and its count if no output comes twice.
LedgerKept ==
  /\ PendingRows' /\ UtxoSetFollowsChain'
  /\ OutputsOnce /\ num_utxos = Cardinality(utxo) => num_utxos' = Cardinality(utxo')

\* A migration starts, or goes on as it is.
MigrationStartsOrNot ==
  \/ UNCHANGED <<migrating_height, migrating_hash, migrating_num_utxos, migrated_num_utxos>>
  \/ /\ migrating_height = 0 /\ migrating_height' # 0
     /\ migrating_hash' \in parsed' /\ migrating_hash' # NoBlock
     /\ migrating_num_utxos' = Len(Ops[migrating_hash']) /\ migrated_num_utxos' = 0

\* The pending rows of a block outside a migration.
LEMMA ParsedRowsOf ==
  ASSUME NEW c \in Blocks, c # migrating_hash
  PROVE  ParsedRows(c) =
           IF c \in parsed THEN Ops[c] ELSE SubSeq(Ops[c], 1, RowsOf(parsing_progress_of, c))
<1>1. SubSeq(Ops[c], 1, 0) = << >>
  BY SubSeqEmpty
<1> QED
  BY <1>1 DEF ParsedRows, RowsOf

\* Outside a migration, what is on the chain decides.
LEMMA ParsedRowsNext ==
  ASSUME NEW c \in Blocks, c # migrating_hash'
  PROVE  ParsedRows(c)' =
           IF c \in parsed' THEN Ops[c] ELSE SubSeq(Ops[c], 1, RowsOf(parsing_progress_of', c))
<1>1. SubSeq(Ops[c], 1, 0) = << >>
  BY SubSeqEmpty
<1> QED
  BY <1>1 DEF ParsedRows, RowsOf

\* What a migration that starts finds pending is the whole block, none of it migrated.
LEMMA StartIsEmpty ==
  ASSUME NEW m \in Blocks
  PROVE  /\ SubSeq(Ops[m], 1, 0) = << >> /\ SubSeq(Ops[m], 0 + 1, Len(Ops[m])) = Ops[m]
         /\ Len(Ops[m]) \in Nat
<1>1. Ops[m] \in Seq(OpType)
  BY UtxoAssumption DEF UtxoAssumption
<1> QED
  BY <1>1, SubSeqEmpty, SubSeqFull, LenProperties

\* A step that moves no row, and starts a migration at most, keeps the ledger.
LEMMA LedgerStays ==
  ASSUME LedgerInv, UtxoInv', MigrationStartsOrNot,
         UNCHANGED <<irreversible_hash, utxo, num_utxos>>,
         \/ status' = status
         \/ migrating_height = 0 /\ status' \in {"waiting", "parsing"},
         \A c \in Blocks :
           IF migrating_height # 0 /\ c = migrating_hash
             THEN UNCHANGED pending_utxo[c]
             ELSE \/ status' = "deleting_data" /\ Height[c] = migrating_height
                     /\ UNCHANGED migrating_height
                  \/ pending_utxo'[c] = IF c \in parsed' THEN Ops[c]
                       ELSE SubSeq(Ops[c], 1, RowsOf(parsing_progress_of', c))
  PROVE  LedgerKept
<1>1. CASE UNCHANGED <<migrating_height, migrating_hash, migrating_num_utxos, migrated_num_utxos>>
  <2>1. MigratedRows' = MigratedRows
    BY <1>1 DEF MigratedRows
  <2>2. UtxoSetFollowsChain'
    BY <1>1, <2>1 DEF LedgerInv, UtxoSetFollowsChain
  <2>3. status' \in {"deleting_data", "distributing_rewards"} /\ migrating_height # 0 => status' = status
    OBVIOUS
  <2>4. ASSUME NEW c \in Blocks, ~(status' = "deleting_data" /\ Height[c] = migrating_height)
        PROVE  pending_utxo'[c] = ParsedRows(c)'
    <3>1. CASE migrating_height # 0 /\ c = migrating_hash
      <4>1. ParsedRows(c)' = ParsedRows(c)
        BY <1>1, <3>1 DEF ParsedRows
      <4>2. ~(status = "deleting_data" /\ Height[c] = migrating_height)
        BY <2>3, <2>4, <3>1
      <4> QED
        BY <1>1, <2>4, <3>1, <4>1, <4>2 DEF LedgerInv, PendingRows
    <3>2. CASE ~(migrating_height # 0 /\ c = migrating_hash)
      <4>1. c # migrating_hash'
        BY <1>1, <3>2, SyncAssumption DEF LedgerInv, UtxoInv, PhasesAlternate, NoBlock, SyncAssumption
      <4> QED
        BY <1>1, <2>4, <3>2, <4>1, ParsedRowsNext
    <3> QED
      BY <3>1, <3>2
  <2>5. PendingRows'
    BY <1>1, <2>3, <2>4 DEF LedgerInv, PendingRows
  <2> QED
    BY <2>2, <2>5 DEF LedgerKept
<1>2. CASE /\ migrating_height = 0 /\ migrating_height' # 0
           /\ migrating_hash' \in parsed' /\ migrating_hash' # NoBlock
           /\ migrating_num_utxos' = Len(Ops[migrating_hash']) /\ migrated_num_utxos' = 0
  <2>1. PICK m \in Blocks : m = migrating_hash'
    BY <1>2 DEF UtxoInv, MigrationWindow, UtxoTypeOK
  <2>2. SubSeq(Ops[m], 1, 0) = << >> /\ SubSeq(Ops[m], 0 + 1, Len(Ops[m])) = Ops[m] /\ Len(Ops[m]) \in Nat
    BY StartIsEmpty
  <2>3. status' \in {"waiting", "parsing"}
    BY <1>2 DEF LedgerInv, UtxoInv, PhasesAlternate
  <2>4. MigratedRows = << >> /\ MigratedRows' = << >>
    BY <1>2, <2>1, <2>2 DEF MigratedRows
  <2>5. UtxoSetFollowsChain'
    BY <1>2, <2>1, <2>2, <2>4 DEF LedgerInv, UtxoSetFollowsChain
  <2>6. ASSUME NEW c \in Blocks PROVE pending_utxo'[c] = ParsedRows(c)'
    <3>1. pending_utxo'[c] =
                IF c \in parsed' THEN Ops[c] ELSE SubSeq(Ops[c], 1, RowsOf(parsing_progress_of', c))
      BY <1>2, <2>3
    <3>2. CASE c = m
      BY <1>2, <2>1, <2>2, <3>1, <3>2 DEF ParsedRows
    <3>3. CASE c # m
      BY <2>1, <3>1, <3>3, ParsedRowsNext
    <3> QED
      BY <3>2, <3>3
  <2>7. PendingRows'
    BY <1>2, <2>1, <2>2, <2>3, <2>6 DEF PendingRows
  <2> QED
    BY <2>5, <2>7 DEF LedgerKept
<1> QED
  BY <1>1, <1>2 DEF MigrationStartsOrNot

\* Unless a migration deletes it, the rows of a block that is not migrated are those
\* parsed.
LEMMA PendingIsParsed ==
  ASSUME LedgerInv, NEW c \in Blocks, ~(migrating_height # 0 /\ c = migrating_hash),
         ~(status = "deleting_data" /\ Height[c] = migrating_height)
  PROVE  pending_utxo[c] =
           IF c \in parsed THEN Ops[c] ELSE SubSeq(Ops[c], 1, RowsOf(parsing_progress_of, c))
<1>1. c # migrating_hash
  BY SyncAssumption DEF LedgerInv, UtxoInv, PhasesAlternate, NoBlock, SyncAssumption
<1>2. pending_utxo[c] = ParsedRows(c)
  BY DEF LedgerInv, PendingRows
<1> QED
  BY <1>1, <1>2, ParsedRowsOf

\* Steps that leave the tables of the chain alone but for who parses.
LEMMA LedgerQuiet ==
  ASSUME LedgerInv, UtxoInv',
         UNCHANGED <<irreversible_hash, migrating_height, migrating_hash, migrating_num_utxos,
                     migrated_num_utxos, status, parsed, pending_utxo, utxo, num_utxos>>,
         \A c \in Blocks : RowsOf(parsing_progress_of', c) = RowsOf(parsing_progress_of, c)
  PROVE  LedgerKept
<1>1. MigrationStartsOrNot
  BY DEF MigrationStartsOrNot
<1>2. ASSUME NEW c \in Blocks,
             ~(migrating_height # 0 /\ c = migrating_hash),
             ~(status' = "deleting_data" /\ Height[c] = migrating_height)
      PROVE  pending_utxo'[c] =
               IF c \in parsed' THEN Ops[c] ELSE SubSeq(Ops[c], 1, RowsOf(parsing_progress_of', c))
  BY <1>2, PendingIsParsed
<1> QED
  BY <1>1, <1>2, LedgerStays

\* The rows of a block, taken one by one after those of its ancestors.
LEMMA PrefixStep ==
  ASSUME NEW base \in Seq(OpType), NEW ops \in Seq(OpType), NEW k \in Nat, k < Len(ops)
  PROVE  /\ base \o SubSeq(ops, 1, k) \in Seq(OpType) /\ ops[k + 1] \in OpType
         /\ base \o SubSeq(ops, 1, k + 1) = (base \o SubSeq(ops, 1, k)) \o <<ops[k + 1]>>
         /\ Len(base \o SubSeq(ops, 1, k)) = Len(base) + k
         /\ \A i \in 1..(Len(base) + k) : (base \o SubSeq(ops, 1, k))[i] = (base \o ops)[i]
         /\ (base \o ops)[Len(base) + k + 1] = ops[k + 1]
         /\ DOMAIN (base \o ops) = 1..(Len(base) + Len(ops))
<1>1. /\ Len(ops) \in Nat /\ Len(base) \in Nat /\ k + 1 \in 1..Len(ops)
      /\ \A i \in 1..k : i \in 1..Len(ops) /\ ops[i] \in OpType
      /\ ops[k + 1] \in OpType
  BY LenProperties
<1>2. PICK sub, row : sub = SubSeq(ops, 1, k) /\ row = ops[k + 1]
  OBVIOUS
<1>3. sub \in Seq(OpType) /\ Len(sub) = k /\ \A i \in 1..k : sub[i] = ops[i]
  <2>1. k \in Int /\ 1 \in Int
    OBVIOUS
  <2>2. /\ sub \in Seq(OpType) /\ Len(sub) = IF 1 <= k THEN k - 1 + 1 ELSE 0
        /\ \A i \in 1..(k - 1 + 1) : sub[i] = ops[1 + i - 1]
    BY <1>1, <1>2, <2>1, SubSeqProperties
  <2> QED
    BY <2>2
<1>4. SubSeq(ops, 1, k + 1) = sub \o <<row>>
  <2>1. 1 \in 1..Len(ops) /\ k + 1 \in 1..Len(ops) /\ (k + 1) - 1 = k
    BY <1>1
  <2>2. SubSeq(ops, 1, k + 1) = SubSeq(ops, 1, (k + 1) - 1) \o <<ops[k + 1]>>
    BY <2>1, SubSeqRecursiveSecond
  <2> QED
    BY <1>2, <2>1, <2>2
<1>5. <<row>> \in Seq(OpType)
  BY <1>1, <1>2
<1>6. base \o (sub \o <<row>>) = (base \o sub) \o <<row>>
  BY <1>3, <1>5, ConcatAssociative
<1>7. /\ base \o sub \in Seq(OpType) /\ Len(base \o sub) = Len(base) + k
      /\ \A i \in 1..(Len(base) + k) : (base \o sub)[i] = IF i <= Len(base) THEN base[i] ELSE sub[i - Len(base)]
  BY <1>3, ConcatProperties
<1>8. /\ base \o ops \in Seq(OpType) /\ Len(base \o ops) = Len(base) + Len(ops)
      /\ \A i \in 1..(Len(base) + Len(ops)) : (base \o ops)[i] = IF i <= Len(base) THEN base[i] ELSE ops[i - Len(base)]
  BY ConcatProperties
<1>9. DOMAIN (base \o ops) = 1..(Len(base) + Len(ops))
  BY <1>8, LenProperties
<1>10. ASSUME NEW i \in 1..(Len(base) + k) PROVE (base \o sub)[i] = (base \o ops)[i]
  <2>1. i \in 1..(Len(base) + Len(ops))
    BY <1>1
  <2>2. ~(i <= Len(base)) => i - Len(base) \in 1..k
    BY <1>1
  <2> QED
    BY <1>3, <1>7, <1>8, <2>1, <2>2
<1>11. (base \o ops)[Len(base) + k + 1] = ops[k + 1]
  <2>1. /\ Len(base) + k + 1 \in 1..(Len(base) + Len(ops)) /\ ~(Len(base) + k + 1 <= Len(base))
        /\ (Len(base) + k + 1) - Len(base) = k + 1
    BY <1>1
  <2> QED
    BY <1>8, <2>1
<1> QED
  BY <1>1, <1>2, <1>4, <1>6, <1>7, <1>9, <1>10, <1>11

\* An output that comes once is not among the unspent ones when it comes.
LEMMA NewOutput ==
  ASSUME OutputsOnce, NEW m \in Blocks, NEW k \in Nat, k < Len(Ops[m]), Ops[m][k + 1].type = "vout"
  PROVE  Ops[m][k + 1].coin \notin Unspent(OpsUpTo[Prev[m]] \o SubSeq(Ops[m], 1, k))
<1>1. PICK base, ops : base = OpsUpTo[Prev[m]] /\ ops = Ops[m]
  OBVIOUS
<1>2. base \in Seq(OpType) /\ ops \in Seq(OpType) /\ OpsUpTo[m] = base \o ops
  BY <1>1, OpsUpToStep, Heights0, UtxoAssumption DEF UtxoAssumption
<1>3. PICK p, n : p = base \o SubSeq(ops, 1, k) /\ n = Len(base) + k
  OBVIOUS
<1>4. /\ p \in Seq(OpType) /\ Len(p) = n /\ \A i \in 1..n : p[i] = (base \o ops)[i]
      /\ (base \o ops)[n + 1] = ops[k + 1] /\ ops[k + 1] \in OpType
      /\ DOMAIN (base \o ops) = 1..(Len(base) + Len(ops))
  <2>1. k < Len(ops)
    BY <1>1
  <2>2. /\ base \o SubSeq(ops, 1, k) \in Seq(OpType) /\ ops[k + 1] \in OpType
        /\ Len(base \o SubSeq(ops, 1, k)) = Len(base) + k
        /\ \A i \in 1..(Len(base) + k) : (base \o SubSeq(ops, 1, k))[i] = (base \o ops)[i]
        /\ (base \o ops)[Len(base) + k + 1] = ops[k + 1]
        /\ DOMAIN (base \o ops) = 1..(Len(base) + Len(ops))
    BY <1>2, <2>1, PrefixStep, SMTT(60)
  <2> QED
    BY <1>3, <2>2
<1>5. Len(base) \in Nat /\ Len(ops) \in Nat /\ n \in Nat
  BY <1>2, <1>3
<1>6. SUFFICES ASSUME ops[k + 1].coin \in Unspent(p) PROVE FALSE
  BY <1>1, <1>3
<1>7. PICK i \in DOMAIN p : p[i].type = "vout" /\ p[i].coin = ops[k + 1].coin
  BY <1>6 DEF Unspent
<1>8. i \in 1..n /\ p[i] \in OpType
  BY <1>4
<1>9. p[i] = ops[k + 1]
  <2>1. p[i] = [type |-> "vout", coin |-> ops[k + 1].coin]
    BY <1>7, <1>8 DEF OpType
  <2>2. ops[k + 1] = [type |-> "vout", coin |-> ops[k + 1].coin]
    BY <1>1, <1>4 DEF OpType
  <2> QED
    BY <2>1, <2>2
<1>10. i \in DOMAIN OpsUpTo[m] /\ n + 1 \in DOMAIN OpsUpTo[m] /\ i # n + 1
  <2>1. i \in 1..(Len(base) + Len(ops)) /\ n + 1 \in 1..(Len(base) + Len(ops)) /\ i # n + 1
    <3>1. k < Len(ops)
      BY <1>1
    <3>2. n + 1 <= Len(base) + Len(ops) /\ n + 1 \in Nat /\ n + 1 >= 1
      BY <1>3, <1>5, <3>1
    <3>3. i \in Nat /\ i >= 1 /\ i <= n
      BY <1>5, <1>8
    <3> QED
      BY <1>5, <3>2, <3>3
  <2> QED
    BY <1>2, <1>4, <2>1
<1>11. OpsUpTo[m][i] = p[i] /\ OpsUpTo[m][n + 1] = ops[k + 1]
  BY <1>2, <1>4, <1>8
<1> QED
  BY <1>1, <1>7, <1>9, <1>10, <1>11 DEF OutputsOnce

\* What a row does to the set and to the count.
LEMMA MigrateRowEffect ==
  ASSUME NEW v \in Ledgers, NEW row \in OpType
  PROVE  /\ MigrateRow(v, row).utxo =
              IF row.type = "vout" THEN v.utxo \cup {row.coin} ELSE v.utxo \ {row.coin}
         /\ (row.type = "vout" => row.coin \notin v.utxo) /\ v.num = Cardinality(v.utxo) =>
              MigrateRow(v, row).num = Cardinality(MigrateRow(v, row).utxo)
<1>1. v \in [utxo : SUBSET Coins, spent : SUBSET (Heights \X Coins), num : Nat] /\ IsFiniteSet(v.utxo)
  BY DEF Ledgers
<1>2. CASE row.type = "vout"
  <2>1. PICK w : w = MigrateRow(v, row)
    OBVIOUS
  <2>2. w.utxo = v.utxo \cup {row.coin} /\ w.num = v.num + 1
    BY <1>1, <1>2, <2>1 DEF MigrateRow
  <2>3. row.coin \notin v.utxo => Cardinality(v.utxo \cup {row.coin}) = Cardinality(v.utxo) + 1
    BY <1>1, FS_AddElement
  <2> QED
    BY <1>2, <2>1, <2>2, <2>3
<1>3. CASE row.type # "vout" /\ row.coin \in v.utxo
  <2>1. PICK w : w = MigrateRow(v, row)
    OBVIOUS
  <2>2. w.utxo = v.utxo \ {row.coin} /\ w.num = v.num - 1
    BY <1>1, <1>3, <2>1 DEF MigrateRow
  <2>3. Cardinality(v.utxo \ {row.coin}) = Cardinality(v.utxo) - 1
    <3>1. PICK coins, c : coins = v.utxo /\ c = row.coin
      OBVIOUS
    <3>2. Cardinality(coins \ {c}) = Cardinality(coins) - 1
      <4>1. IsFiniteSet(coins) /\ c \in coins
        BY <1>1, <1>3, <3>1
      <4> QED
        BY <4>1, FS_RemoveElement
    <3> QED
      BY <3>1, <3>2
  <2> QED
    BY <1>3, <2>1, <2>2, <2>3
<1>4. CASE row.type # "vout" /\ row.coin \notin v.utxo
  <2>1. MigrateRow(v, row) = v /\ v.utxo \ {row.coin} = v.utxo
    BY <1>4 DEF MigrateRow
  <2> QED
    BY <1>4, <2>1
<1> QED
  BY <1>2, <1>3, <1>4

\* Its effect on the set alone.
LEMMA MigrateRowSet ==
  ASSUME NEW v \in Ledgers, NEW row \in OpType
  PROVE  MigrateRow(v, row).utxo =
           IF row.type = "vout" THEN v.utxo \cup {row.coin} ELSE v.utxo \ {row.coin}
BY MigrateRowEffect

\* A batch of a migration takes the set from one prefix of the block to the next.
LEMMA MigratedBatch ==
  ASSUME migrating_height \in Heights, NEW m \in Blocks, NEW u \in Ledgers, NEW d \in Nat, NEW n \in Nat,
         d + n <= Len(Ops[m]), NEW seq \in Seq(OpType), Len(seq) = n,
         \A i \in 1..n : seq[i] = Ops[m][d + i],
         u.utxo = Unspent(OpsUpTo[Prev[m]] \o SubSeq(Ops[m], 1, d))
  PROVE  /\ MigrateRows(u, seq).utxo = Unspent(OpsUpTo[Prev[m]] \o SubSeq(Ops[m], 1, d + n))
         /\ OutputsOnce /\ u.num = Cardinality(u.utxo) =>
              MigrateRows(u, seq).num = Cardinality(MigrateRows(u, seq).utxo)
<1> DEFINE base == OpsUpTo[Prev[m]]
           At(i) == Unspent(base \o SubSeq(Ops[m], 1, i))
<1>1. base \in Seq(OpType) /\ Ops[m] \in Seq(OpType) /\ Len(Ops[m]) \in Nat
  BY OpsUpToStep, Heights0, UtxoAssumption DEF UtxoAssumption
<1>2. PICK r \in [0..n -> Ledgers] :
        /\ r[0] = u /\ \A i \in 1..n : r[i] = MigrateRow(r[i - 1], seq[i])
        /\ MigrateRows(u, seq) = r[n]
  <2>1. \A v \in Ledgers, row \in OpType : MigrateRow(v, row) \in Ledgers
    BY MigrateRowType
  <2>2. PICK r \in [0..Len(seq) -> Ledgers] :
          /\ r[0] = u /\ \A i \in 1..Len(seq) : r[i] = MigrateRow(r[i - 1], seq[i])
          /\ MigrateRows(u, seq) = r[Len(seq)]
    BY ONLY <2>1, u \in Ledgers, seq \in Seq(OpType), MigrateFold, SMTT(30)
  <2> QED
    BY <2>2
<1> DEFINE Counted(v) == v.num = Cardinality(v.utxo)
           P == {i \in Nat : i <= n => /\ r[i].utxo = At(d + i)
                                       /\ OutputsOnce /\ Counted(u) => Counted(r[i])}
<1>3. 0 \in P
  BY <1>2
<1>4. ASSUME NEW i \in P PROVE i + 1 \in P
  <2> SUFFICES ASSUME i + 1 <= n
               PROVE  /\ r[i + 1].utxo = At(d + (i + 1))
                      /\ OutputsOnce /\ Counted(u) => Counted(r[i + 1])
    OBVIOUS
  <2>1. /\ i \in Nat /\ i \in 0..n /\ i + 1 \in 1..n /\ (i + 1) - 1 = i
        /\ d + i \in Nat /\ d + i < Len(Ops[m]) /\ d + (i + 1) = (d + i) + 1
    BY <1>1, SMTT(60)
  <2>2. r[i] \in Ledgers /\ r[i].utxo = At(d + i) /\ (OutputsOnce /\ Counted(u) => Counted(r[i]))
    BY <1>2, <2>1
  <2>3. PICK row : row = seq[i + 1]
    OBVIOUS
  <2>4. row = Ops[m][(d + i) + 1] /\ r[i + 1] = MigrateRow(r[i], row)
    BY <1>2, <2>1, <2>3
  <2>5. /\ base \o SubSeq(Ops[m], 1, d + i) \in Seq(OpType) /\ row \in OpType
        /\ base \o SubSeq(Ops[m], 1, (d + i) + 1) = (base \o SubSeq(Ops[m], 1, d + i)) \o <<row>>
    <3>1. PICK s, ops, k : s = base /\ ops = Ops[m] /\ k = d + i
      OBVIOUS
    <3>2. s \in Seq(OpType) /\ ops \in Seq(OpType) /\ k \in Nat /\ k < Len(ops)
      BY <1>1, <2>1, <3>1
    <3>3. /\ s \o SubSeq(ops, 1, k) \in Seq(OpType) /\ ops[k + 1] \in OpType
          /\ s \o SubSeq(ops, 1, k + 1) = (s \o SubSeq(ops, 1, k)) \o <<ops[k + 1]>>
      BY ONLY <3>2, PrefixStep, SMTT(60)
    <3> QED
      BY <2>4, <3>1, <3>3
  <2>6. At(d + (i + 1)) = IF row.type = "vout" THEN At(d + i) \cup {row.coin} ELSE At(d + i) \ {row.coin}
    <3>1. PICK p : p = base \o SubSeq(Ops[m], 1, d + i)
      OBVIOUS
    <3>2. p \in Seq(OpType) /\ row \in OpType
      BY <2>5, <3>1
    <3>3. Unspent(p \o <<row>>) =
            IF row.type = "vout" THEN Unspent(p) \cup {row.coin} ELSE Unspent(p) \ {row.coin}
      BY <3>2, UnspentAfter
    <3>4. At(d + i) = Unspent(p) /\ At(d + (i + 1)) = Unspent(p \o <<row>>)
      BY <2>1, <2>5, <3>1
    <3> QED
      BY <3>3, <3>4
  <2>7. r[i + 1].utxo = IF row.type = "vout" THEN r[i].utxo \cup {row.coin} ELSE r[i].utxo \ {row.coin}
    <3>1. PICK v : v = r[i]
      OBVIOUS
    <3>2. v \in Ledgers /\ row \in OpType
      BY <2>2, <2>5, <3>1
    <3>3. MigrateRow(v, row).utxo =
            IF row.type = "vout" THEN v.utxo \cup {row.coin} ELSE v.utxo \ {row.coin}
      BY <3>2, MigrateRowSet
    <3> QED
      BY <2>4, <3>1, <3>3
  <2>8. OutputsOnce /\ row.type = "vout" => row.coin \notin At(d + i)
    BY <2>1, <2>4, NewOutput
  <2>9. OutputsOnce /\ Counted(u) => Counted(r[i + 1])
    <3> HIDE DEF At
    <3> QED
      BY <2>2, <2>4, <2>5, <2>8, MigrateRowEffect, ZenonT(60)
  <2> QED
    BY <2>2, <2>6, <2>7, <2>9
<1>5. P = Nat
  <2>1. P \in SUBSET Nat
    OBVIOUS
  <2> HIDE DEF P
  <2> QED
    BY <1>3, <1>4, <2>1, SetOfNaturals
<1>6. n \in P
  BY <1>5
<1> QED
  BY <1>2, <1>6

\* What is left of a suffix after its first n rows.
LEMMA SuffixOfSuffix ==
  ASSUME NEW ops \in Seq(OpType), NEW d \in Nat, d <= Len(ops), NEW n \in Nat, d + n <= Len(ops),
         NEW pending, pending = SubSeq(ops, d + 1, Len(ops))
  PROVE  /\ pending \in Seq(OpType) /\ Len(pending) = Len(ops) - d
         /\ SubSeq(pending, 1, n) \in Seq(OpType) /\ Len(SubSeq(pending, 1, n)) = n
         /\ \A i \in 1..n : SubSeq(pending, 1, n)[i] = ops[d + i]
         /\ SubSeq(pending, n + 1, Len(pending)) = SubSeq(ops, d + n + 1, Len(ops))
<1>1. Len(ops) \in Nat /\ \A i \in 1..Len(ops) : ops[i] \in OpType
  BY LenProperties
<1> DEFINE L == Len(ops)
<1>2. /\ pending \in Seq(OpType) /\ Len(pending) = L - d
      /\ \A i \in 1..(L - d) : pending[i] = ops[d + i]
  <2>1. \A i \in (d + 1)..L : ops[i] \in OpType
    BY <1>1
  <2>2. d + 1 \in Int /\ L \in Int
    BY <1>1
  <2>3. /\ pending \in Seq(OpType) /\ Len(pending) = IF d + 1 <= L THEN L - (d + 1) + 1 ELSE 0
        /\ \A i \in 1..(L - (d + 1) + 1) : pending[i] = ops[(d + 1) + i - 1]
    BY <2>1, <2>2, SubSeqProperties
  <2>4. L - (d + 1) + 1 = L - d /\ (~(d + 1 <= L) => L - d = 0)
    BY <1>1
  <2>5. \A i \in 1..(L - d) : (d + 1) + i - 1 = d + i
    OBVIOUS
  <2> QED
    BY <2>3, <2>4, <2>5
<1>3. n <= Len(pending) /\ Len(pending) \in Nat
  BY <1>1, <1>2
<1>4. /\ SubSeq(pending, 1, n) \in Seq(OpType) /\ Len(SubSeq(pending, 1, n)) = n
      /\ \A i \in 1..n : SubSeq(pending, 1, n)[i] = ops[d + i]
  <2>1. \A i \in 1..n : i \in 1..(L - d) /\ pending[i] \in OpType
    <3>1. \A i \in 1..n : i \in 1..(L - d) /\ i \in 1..Len(pending)
      BY <1>1, <1>2, <1>3
    <3> QED
      BY <1>2, <3>1, ElementOfSeq
  <2>2. n \in Int /\ 1 \in Int /\ n - 1 + 1 = n /\ (~(1 <= n) => n = 0)
    OBVIOUS
  <2>3. /\ SubSeq(pending, 1, n) \in Seq(OpType) /\ Len(SubSeq(pending, 1, n)) = IF 1 <= n THEN n - 1 + 1 ELSE 0
        /\ \A i \in 1..(n - 1 + 1) : SubSeq(pending, 1, n)[i] = pending[1 + i - 1]
    BY <2>1, <2>2, SubSeqProperties
  <2>4. \A i \in 1..n : 1 + i - 1 = i
    OBVIOUS
  <2> QED
    BY <1>2, <2>1, <2>2, <2>3, <2>4
<1>5. PICK s, t : s = SubSeq(pending, n + 1, Len(pending)) /\ t = SubSeq(ops, d + n + 1, L)
  OBVIOUS
<1>6. /\ s \in Seq(OpType) /\ Len(s) = L - d - n /\ \A i \in 1..(L - d - n) : s[i] = pending[n + i]
  <2>1. \A i \in (n + 1)..(L - d) : pending[i] \in OpType
    <3>1. \A i \in (n + 1)..(L - d) : i \in 1..Len(pending)
      BY <1>1, <1>2, <1>3
    <3> QED
      BY <1>2, <3>1, ElementOfSeq
  <2>2. n + 1 \in Int /\ L - d \in Int
    BY <1>1
  <2>3. /\ s \in Seq(OpType) /\ Len(s) = IF n + 1 <= L - d THEN (L - d) - (n + 1) + 1 ELSE 0
        /\ \A i \in 1..((L - d) - (n + 1) + 1) : s[i] = pending[(n + 1) + i - 1]
    BY <1>2, <1>5, <2>1, <2>2, SubSeqProperties
  <2>4. (L - d) - (n + 1) + 1 = L - d - n /\ (~(n + 1 <= L - d) => L - d - n = 0)
    BY <1>1
  <2>5. \A i \in 1..(L - d - n) : (n + 1) + i - 1 = n + i
    OBVIOUS
  <2> QED
    BY <2>3, <2>4, <2>5
<1>7. /\ t \in Seq(OpType) /\ Len(t) = L - d - n /\ \A i \in 1..(L - d - n) : t[i] = ops[d + n + i]
  <2>1. \A i \in (d + n + 1)..L : ops[i] \in OpType
    BY <1>1
  <2>2. d + n + 1 \in Int /\ L \in Int
    BY <1>1
  <2>3. /\ t \in Seq(OpType) /\ Len(t) = IF d + n + 1 <= L THEN L - (d + n + 1) + 1 ELSE 0
        /\ \A i \in 1..(L - (d + n + 1) + 1) : t[i] = ops[(d + n + 1) + i - 1]
    BY <1>5, <2>1, <2>2, SubSeqProperties
  <2>4. L - (d + n + 1) + 1 = L - d - n /\ (~(d + n + 1 <= L) => L - d - n = 0)
    BY <1>1
  <2>5. \A i \in 1..(L - d - n) : (d + n + 1) + i - 1 = d + n + i
    OBVIOUS
  <2> QED
    BY <2>3, <2>4, <2>5
<1>8. s = t
  <2>1. \A i \in 1..(L - d - n) : n + i \in 1..(L - d) /\ d + (n + i) = d + n + i
    BY <1>1
  <2>2. ASSUME NEW i \in 1..(L - d - n) PROVE s[i] = t[i]
    <3>1. s[i] = pending[n + i] /\ t[i] = ops[d + n + i]
      BY <1>6, <1>7
    <3>2. n + i \in 1..(L - d) /\ d + (n + i) = d + n + i
      BY <2>1
    <3>3. pending[n + i] = ops[d + (n + i)]
      BY <1>2, <3>2
    <3> QED
      BY <3>1, <3>2, <3>3
  <2> QED
    BY <1>6, <1>7, <2>2, SeqEqual
<1> QED
  BY <1>2, <1>4, <1>5, <1>8

\* A batch of the migration.
LEMMA LedgerMigrate ==
  ASSUME LedgerInv, UtxoInv', NEW rows \in Nat, Migrate(rows), migrating_height # 0,
         status \in {"waiting", "migrating"},
         \A c \in Blocks : RowsOf(parsing_progress_of', c) = RowsOf(parsing_progress_of, c)
  PROVE  LedgerKept
<1> DEFINE m == migrating_hash
           d == migrated_num_utxos
           L == Len(Ops[m])
           pending == pending_utxo[m]
           n == AtMost(rows, Len(pending))
           u == [utxo |-> utxo, spent |-> spent_utxo, num |-> num_utxos]
           seq == SubSeq(pending, 1, n)
           rest == SubSeq(pending, n + 1, Len(pending))
<1>1. /\ migrating_height \in Nat /\ m \in Blocks /\ Height[m] = migrating_height
      /\ Prev[m] = irreversible_hash
  BY WhileMigrating DEF LedgerInv
<1>2. /\ d \in Nat /\ migrating_num_utxos = L /\ d <= L /\ L \in Nat
      /\ Ops[m] \in Seq(OpType)
      /\ pending = SubSeq(Ops[m], d + 1, L)
  <2>1. pending = ParsedRows(m)
    BY <1>1 DEF LedgerInv, PendingRows
  <2>2. d \in Nat /\ Ops[m] \in Seq(OpType)
    BY <1>1, UtxoAssumption DEF LedgerInv, UtxoInv, MigrationWindow, UtxoTypeOK, UtxoAssumption
  <2> QED
    BY <2>1, <2>2, LenProperties DEF LedgerInv, PendingRows, ParsedRows
<1>3. Len(pending) = L - d /\ L - d \in Nat
  <2>1. d + 0 <= L /\ 0 \in Nat
    BY <1>2
  <2>2. PICK ops, k, p : ops = Ops[m] /\ k = d /\ p = pending
    OBVIOUS
  <2>3. ops \in Seq(OpType) /\ k \in Nat /\ k <= Len(ops) /\ k + 0 <= Len(ops) /\ p = SubSeq(ops, k + 1, Len(ops))
    BY <1>2, <2>1, <2>2
  <2>4. Len(p) = Len(ops) - k
    BY <2>3, SuffixOfSuffix
  <2> QED
    BY <1>2, <2>2, <2>4
<1>4. n \in Nat /\ d + n <= L
  <2>1. n \in 0..(L - d)
    BY <1>3, AtMostType
  <2> QED
    BY <1>2, <1>3, <2>1
<1>5. /\ seq \in Seq(OpType) /\ Len(seq) = n /\ \A i \in 1..n : seq[i] = Ops[m][d + i]
      /\ rest = SubSeq(Ops[m], d + n + 1, L)
  <2>2. PICK ops, k, p, j : ops = Ops[m] /\ k = d /\ p = pending /\ j = n
    OBVIOUS
  <2>3. /\ ops \in Seq(OpType) /\ k \in Nat /\ k <= Len(ops) /\ j \in Nat /\ k + j <= Len(ops)
        /\ p = SubSeq(ops, k + 1, Len(ops))
    BY <1>2, <1>4, <2>2
  <2>4. /\ SubSeq(p, 1, j) \in Seq(OpType) /\ Len(SubSeq(p, 1, j)) = j
        /\ \A i \in 1..j : SubSeq(p, 1, j)[i] = ops[k + i]
        /\ SubSeq(p, j + 1, Len(p)) = SubSeq(ops, k + j + 1, Len(ops))
    BY <2>3, SuffixOfSuffix, SMTT(60)
  <2> QED
    BY <2>2, <2>4
<1>6. u \in Ledgers
  BY DEF LedgerInv, UtxoInv, MigrationWindow, UtxoTypeOK, UtxosCounted, Ledgers
<1>7. u.utxo = Unspent(OpsUpTo[Prev[m]] \o SubSeq(Ops[m], 1, d)) /\ u.utxo = utxo /\ u.num = num_utxos
  BY <1>1 DEF LedgerInv, UtxoSetFollowsChain, MigratedRows
<1>8. PICK v : v = MigrateRows(u, seq)
  OBVIOUS
<1>9. /\ v.utxo = Unspent(OpsUpTo[Prev[m]] \o SubSeq(Ops[m], 1, d + n))
      /\ OutputsOnce /\ num_utxos = Cardinality(utxo) => v.num = Cardinality(v.utxo)
  <2>1. migrating_height \in Heights
    BY <1>1, Heights0
  <2>2. PICK k, j, w, s : k = d /\ j = n /\ w = u /\ s = seq
    OBVIOUS
  <2>3. /\ k \in Nat /\ j \in Nat /\ k + j <= Len(Ops[m]) /\ w \in Ledgers
        /\ s \in Seq(OpType) /\ Len(s) = j /\ \A i \in 1..j : s[i] = Ops[m][k + i]
        /\ w.utxo = Unspent(OpsUpTo[Prev[m]] \o SubSeq(Ops[m], 1, k))
    BY <1>2, <1>4, <1>5, <1>6, <1>7, <2>2
  <2>4. /\ MigrateRows(w, s).utxo = Unspent(OpsUpTo[Prev[m]] \o SubSeq(Ops[m], 1, k + j))
        /\ OutputsOnce /\ w.num = Cardinality(w.utxo) =>
              MigrateRows(w, s).num = Cardinality(MigrateRows(w, s).utxo)
    <3>1. m \in Blocks
      BY <1>1
    <3> QED
      BY ONLY <2>1, <2>3, <3>1, MigratedBatch, SMTT(60)
  <2> QED
    BY <1>7, <1>8, <2>2, <2>4
<1>10. /\ utxo' = v.utxo /\ num_utxos' = v.num
       /\ pending_utxo' = [pending_utxo EXCEPT ![m] = rest]
       /\ migrated_num_utxos' = d + n
       /\ status' = IF d + n = migrating_num_utxos THEN "deleting_data" ELSE "migrating"
       /\ UNCHANGED <<migrating_height, consensus_block, irreversible_hash, migrating_hash,
                      migrating_num_utxos, parsed>>
  BY <1>8 DEF Migrate
<1>11. pending_utxo'[m] = rest /\ \A c \in Blocks : c # m => pending_utxo'[c] = pending_utxo[c]
  BY <1>1, <1>10 DEF LedgerInv, UtxoInv, MigrationWindow, UtxoTypeOK
<1> HIDE DEF pending, n, u, seq, rest
<1>12. UtxoSetFollowsChain'
  BY <1>1, <1>2, <1>4, <1>9, <1>10 DEF UtxoSetFollowsChain, MigratedRows
<1>13. PendingRows'
  <2>1. ASSUME NEW c \in Blocks, ~(status' = "deleting_data" /\ Height[c] = migrating_height')
        PROVE  pending_utxo'[c] = ParsedRows(c)'
    <3>1. CASE c = m
      BY <1>5, <1>10, <1>11, <3>1 DEF ParsedRows
    <3>2. CASE c # m
      BY <1>10, <1>11, <2>1, <3>2, PendingIsParsed, ParsedRowsNext
    <3> QED
      BY <3>1, <3>2
  <2>2. migrating_num_utxos' = L /\ migrated_num_utxos' <= migrating_num_utxos'
    BY <1>2, <1>4, <1>10
  <2>3. status' \in {"deleting_data", "distributing_rewards"} => migrated_num_utxos' = migrating_num_utxos'
    BY <1>10
  <2> QED
    BY <1>10, <2>1, <2>2, <2>3 DEF PendingRows
<1> QED
  BY <1>9, <1>10, <1>12, <1>13 DEF LedgerKept

\* Deleting pending rows of the migrated height concerns no row that still counts.
LEMMA LedgerDeletePending ==
  ASSUME LedgerInv, UtxoInv', NEW rows \in Nat, DeletePending(rows), status = "deleting_data",
         UNCHANGED <<irreversible_hash, migrating_height, migrationVars, parsed, num_utxos, utxo>>,
         \A c \in Blocks : RowsOf(parsing_progress_of', c) = RowsOf(parsing_progress_of, c)
  PROVE  LedgerKept
<1>1. \A c \in Blocks : Height[c] # migrating_height => pending_utxo'[c] = pending_utxo[c]
  <2>1. PICK gone : pending_utxo' = [b \in Blocks |->
          IF b \in PendingAtHeight THEN SubSeq(pending_utxo[b], gone[b] + 1, Len(pending_utxo[b]))
                                   ELSE pending_utxo[b]]
    BY DEF DeletePending
  <2> QED
    BY <2>1 DEF PendingAtHeight
<1>2. status' = status
  BY DEF DeletePending
<1>3. ASSUME NEW c \in Blocks, ~(status' = "deleting_data" /\ Height[c] = migrating_height')
      PROVE  pending_utxo'[c] = ParsedRows(c)'
  <2>1. Height[c] # migrating_height
    BY <1>2, <1>3
  <2>2. CASE c = migrating_hash
    <3>1. ParsedRows(c)' = ParsedRows(c)
      BY <2>2 DEF ParsedRows, migrationVars
    <3> QED
      BY <1>1, <1>2, <1>3, <2>1, <3>1 DEF LedgerInv, PendingRows
  <2>3. CASE c # migrating_hash
    BY <1>1, <1>2, <2>1, <2>3, PendingIsParsed, ParsedRowsNext DEF migrationVars
  <2> QED
    BY <2>2, <2>3
<1>4. PendingRows'
  BY <1>2, <1>3 DEF LedgerInv, PendingRows, migrationVars
<1>5. UtxoSetFollowsChain'
  BY DEF LedgerInv, UtxoSetFollowsChain, MigratedRows, migrationVars
<1> QED
  BY <1>4, <1>5 DEF LedgerKept

\* The rows of the migrated height are all gone when the block is stored.
LEMMA LedgerStoreIrreversible ==
  ASSUME LedgerInv, UtxoInv', StoreIrreversible, status = "deleting_data", migrating_height # 0,
         UNCHANGED <<irreversible_hash, migrating_height, migrationVars, num_utxos, utxo>>,
         DOMAIN parsing_progress_of' = DOMAIN parsing_progress_of,
         \A c \in Blocks : RowsOf(parsing_progress_of', c) = RowsOf(parsing_progress_of, c)
  PROVE  LedgerKept
<1> DEFINE m == migrating_hash
           h == migrating_height
<1>1. /\ m \in Blocks /\ Height[m] = h /\ parsing_height \in Nat /\ parsing_height > h
      /\ h \in Nat /\ parsed \subseteq consensus_block /\ consensus_block \subseteq Blocks
  BY WhileMigrating DEF LedgerInv, UtxoInv, MigrationWindow, UtxoTypeOK, TablesTypeOK
<1>2. /\ pending_utxo' = pending_utxo /\ status' = "distributing_rewards"
      /\ \A c \in Blocks : Height[c] = h => pending_utxo[c] = << >> /\ c \notin parsed'
      /\ \A c \in Blocks : Height[c] # h => (c \in parsed' <=> c \in parsed)
  BY <1>1 DEF StoreIrreversible, PendingAtHeight
<1>3. \A c \in DOMAIN parsing_progress_of : Height[c] # h
  BY <1>1 DEF LedgerInv, UtxoInv, ParsingInOrder
<1>4. /\ migrating_num_utxos = Len(Ops[m]) /\ migrated_num_utxos = Len(Ops[m]) /\ Len(Ops[m]) \in Nat
  <2>1. Ops[m] \in Seq(OpType)
    BY <1>1, UtxoAssumption DEF UtxoAssumption
  <2> QED
    BY <2>1, LenProperties DEF LedgerInv, PendingRows
<1>5. ASSUME NEW c \in Blocks PROVE pending_utxo'[c] = ParsedRows(c)'
  <2>1. CASE c = m
    <3>1. SubSeq(Ops[m], Len(Ops[m]) + 1, Len(Ops[m])) = << >>
      <4>1. Len(Ops[m]) + 1 \in Int /\ Len(Ops[m]) \in Int /\ Len(Ops[m]) < Len(Ops[m]) + 1
        BY <1>4
      <4> QED
        BY <4>1, SubSeqEmpty
    <3> QED
      BY <1>1, <1>2, <1>4, <2>1, <3>1 DEF ParsedRows, migrationVars
  <2>2. CASE c # m /\ Height[c] = h
    <3>1. c \notin DOMAIN parsing_progress_of'
      BY <1>3, <2>2
    <3> QED
      BY <1>2, <2>2, <3>1 DEF ParsedRows, migrationVars
  <2>3. CASE Height[c] # h
    BY <1>1, <1>2, <2>3, PendingIsParsed, ParsedRowsNext DEF migrationVars
  <2> QED
    BY <2>1, <2>2, <2>3
<1>6. PendingRows'
  BY <1>4, <1>5 DEF PendingRows, migrationVars
<1>7. UtxoSetFollowsChain'
  BY DEF LedgerInv, UtxoSetFollowsChain, MigratedRows, migrationVars
<1> QED
  BY <1>6, <1>7 DEF LedgerKept

\* When the tip moves, the rows of the migrated block are those of the tip.
LEMMA LedgerDistributeRewards ==
  ASSUME LedgerInv, UtxoInv', DistributeRewards, migrating_height # 0,
         status = "distributing_rewards",
         DOMAIN parsing_progress_of' = DOMAIN parsing_progress_of,
         \A c \in Blocks : RowsOf(parsing_progress_of', c) = RowsOf(parsing_progress_of, c)
  PROVE  LedgerKept
<1> DEFINE m == migrating_hash
           h == migrating_height
<1>1. UNCHANGED <<parsed, pending_utxo, utxo, num_utxos>>
  BY DEF DistributeRewards, utxoTables
<1>2. CASE BatchEnd < num_provider_validators
  <2>1. UNCHANGED <<irreversible_hash, migrating_height, migrating_hash, migrating_num_utxos,
                    migrated_num_utxos, status>>
    BY <1>2 DEF DistributeRewards
  <2> QED
    BY <1>1, <2>1, LedgerQuiet
<1>3. CASE ~(BatchEnd < num_provider_validators)
  <2>1. /\ irreversible_hash' = m /\ migrating_height' = 0 /\ migrating_hash' = NoBlock
        /\ status' = "parsing"
    BY <1>3 DEF DistributeRewards
  <2>2. /\ m \in Blocks /\ Height[m] = h /\ parsing_height \in Nat /\ parsing_height > h
        /\ h \in Nat /\ Prev[m] = irreversible_hash /\ parsed \subseteq consensus_block
    BY WhileMigrating DEF LedgerInv, UtxoInv, MigrationWindow, UtxoTypeOK
  <2>3. m \notin parsed /\ m \notin DOMAIN parsing_progress_of
    BY <2>2 DEF LedgerInv, UtxoInv, NoRowsBelowTip, Floor, ParsingInOrder
  <2>4. migrated_num_utxos = Len(Ops[m]) /\ Ops[m] \in Seq(OpType) /\ Len(Ops[m]) \in Nat
    BY <2>2, UtxoAssumption, LenProperties DEF LedgerInv, PendingRows, UtxoAssumption
  <2>5. ASSUME NEW c \in Blocks PROVE pending_utxo'[c] = ParsedRows(c)'
    <3>1. c # NoBlock
      BY SyncAssumption DEF SyncAssumption, NoBlock
    <3>2. CASE c = m
      <4>1. SubSeq(Ops[m], Len(Ops[m]) + 1, Len(Ops[m])) = << >>
        <5>1. Len(Ops[m]) + 1 \in Int /\ Len(Ops[m]) \in Int /\ Len(Ops[m]) < Len(Ops[m]) + 1
          BY <2>4
        <5> QED
          BY <5>1, SubSeqEmpty
      <4>2. pending_utxo[m] = << >>
        BY <2>2, <2>4, <4>1 DEF LedgerInv, PendingRows, ParsedRows
      <4> QED
        BY <1>1, <2>1, <2>3, <3>1, <3>2, <4>2 DEF ParsedRows
    <3>3. CASE c # m
      BY <1>1, <2>1, <3>1, <3>3, PendingIsParsed, ParsedRowsNext
    <3> QED
      BY <3>2, <3>3
  <2>6. PendingRows'
    BY <2>1, <2>5 DEF PendingRows
  <2>7. UtxoSetFollowsChain'
    <3>1. MigratedRows = Ops[m] /\ MigratedRows' = << >>
      BY <2>1, <2>2, <2>4, SubSeqFull DEF MigratedRows
    <3>2. OpsUpTo[m] = OpsUpTo[irreversible_hash] \o Ops[m] /\ OpsUpTo[m] \in Seq(OpType)
      BY <2>2, OpsUpToStep
    <3>3. OpsUpTo[m] \o << >> = OpsUpTo[m]
      BY <3>2, ConcatEmptySeq
    <3> QED
      BY <1>1, <2>1, <3>1, <3>2, <3>3 DEF LedgerInv, UtxoSetFollowsChain
  <2> QED
    BY <1>1, <2>6, <2>7 DEF LedgerKept
<1> QED
  BY <1>2, <1>3

\* A migration that starts takes over what was parsed.
LEMMA StartsOrNot ==
  ASSUME UtxoInv, UtxoInv', NEW t, NEW cons, NEW done, done = parsed', NEW head,
         NextIrreversible(t, cons, done, head), migrating_height # 0 \/ status' \in {"waiting", "parsing"},
         \A b \in cons : b \in Blocks
  PROVE  MigrationStartsOrNot
<1>1. CASE UNCHANGED <<migrating_height, migrationVars>>
  BY <1>1 DEF MigrationStartsOrNot, migrationVars
<1>2. CASE ~UNCHANGED <<migrating_height, migrationVars>>
  <2>1. /\ migrating_height = 0
        /\ \E b \in find_next_irreversible_block(cons) : StartMigration(t, b, head, NumUtxos(b, done))
    BY <1>2 DEF NextIrreversible
  <2>2. PICK b \in find_next_irreversible_block(cons) : StartMigration(t, b, head, NumUtxos(b, done))
    BY <2>1
  <2>3. b \in cons
    BY DEF find_next_irreversible_block
  <2>4. /\ migrating_height' = Height[b] /\ migrating_hash' = b
        /\ migrating_num_utxos' = NumUtxos(b, done) /\ migrated_num_utxos' = 0
    BY <2>2 DEF StartMigration
  <2>5. migrating_height' # 0
    BY <2>3, <2>4, Heights0
  <2>6. b \in parsed' /\ migrating_hash' # NoBlock
    BY <2>1, <2>4, <2>5 DEF UtxoInv, MigratedBlockIsParsed, PhasesAlternate
  <2> QED
    BY <2>1, <2>4, <2>5, <2>6 DEF MigrationStartsOrNot, NumUtxos
<1> QED
  BY <1>1, <1>2

\* A height that is parsed next starts from its first row.
LEMMA NextParsableRows ==
  ASSUME NEW cons, NEW done, NEW up, NextParsable(cons, done, up), NEW c
  PROVE  RowsOf(parsing_progress_of', c) = 0
<1>1. CASE Unparsed(cons, done) = {}
  <2>1. parsing_progress_of' = << >>
    BY <1>1 DEF NextParsable
  <2>2. DOMAIN parsing_progress_of' = {}
    BY <2>1
  <2> QED
    BY <2>2 DEF RowsOf
<1>2. CASE Unparsed(cons, done) # {}
  <2>1. PICK h : parsing_progress_of' =
          [b \in {x \in Unparsed(cons, done) : Height[x] = h} |-> NewProgress(up[b])]
    BY <1>2 DEF NextParsable
  <2>2. \A x : NewProgress(x).rows = 0
    BY DEF NewProgress
  <2> QED
    BY <2>1, <2>2 DEF RowsOf
<1> QED
  BY <1>1, <1>2

\* A call of consensus moves no row.
LEMMA LedgerConsensus ==
  ASSUME LedgerInv, UtxoInv', NEW b \in Blocks, NEW y, SyncReady(y, b), NEW t, Consensus(t, y, b)
  PROVE  LedgerKept
<1>1. CASE ~MayReachConsensus(t, y, b)
  <2>1. UNCHANGED utxoVars
    BY <1>1 DEF Consensus
  <2> QED
    BY <2>1, LedgerQuiet DEF utxoVars, chainTables, migrationVars, parsingVars, utxoTables
<1>2. CASE MayReachConsensus(t, y, b)
  <2> DEFINE cons == consensus_block \cup {b}
  <2>1. /\ IF parsing_height = Height[b]
             THEN parsing_progress_of' = Put(parsing_progress_of, b, NewProgress(PassedBy(y, b)))
             ELSE IF parsing_height # 0 THEN UNCHANGED parsingVars
                                        ELSE NextParsable(cons, parsed, uploader')
        /\ NextIrreversible(t, cons, parsed, head_height')
        /\ UNCHANGED <<irreversible_hash, status, parsed, utxoTables>>
    BY <1>2 DEF Consensus
  <2>2. /\ b \notin consensus_block /\ consensus_block \subseteq Blocks
        /\ UtxoInv
    BY <1>2 DEF LedgerInv, UtxoInv, MigrationWindow, UtxoTypeOK, TablesTypeOK, MayReachConsensus,
       SyncReady, SyncSound
  <2>3. migrating_height # 0 \/ status' \in {"waiting", "parsing"}
    BY <2>1, <2>2 DEF UtxoInv, PhasesAlternate
  <2>4. MigrationStartsOrNot
    <3>1. PICK C, D : C = cons /\ D = parsed'
      OBVIOUS
    <3>2. (\A c \in C : c \in Blocks) /\ NextIrreversible(t, C, D, head_height')
      BY <2>1, <2>2, <3>1
    <3>3. PICK head : head = head_height'
      OBVIOUS
    <3> QED
      BY <2>2, <2>3, <3>1, <3>2, <3>3, StartsOrNot
  <2>5. ASSUME NEW c \in Blocks PROVE RowsOf(parsing_progress_of', c) = RowsOf(parsing_progress_of, c)
    <3>1. b \notin DOMAIN parsing_progress_of
      BY <2>2 DEF UtxoInv, ParsingInOrder
    <3>2. CASE parsing_height = Height[b]
      <4>1. parsing_progress_of' = Put(parsing_progress_of, b, NewProgress(PassedBy(y, b)))
        BY <2>1, <3>2
      <4> QED
        BY <3>1, <4>1 DEF RowsOf, Put, NewProgress
    <3>3. CASE parsing_height # Height[b] /\ parsing_height # 0
      BY <2>1, <3>3 DEF parsingVars
    <3>4. CASE parsing_height # Height[b] /\ parsing_height = 0
      <4>1. RowsOf(parsing_progress_of', c) = 0
        BY <2>1, <3>4, NextParsableRows
      <4>2. \A x \in DOMAIN parsing_progress_of : x \in Blocks /\ Height[x] = 0
        BY <2>2, <3>4 DEF UtxoInv, ParsingInOrder
      <4>3. c \notin DOMAIN parsing_progress_of
        BY <4>2, Heights0
      <4> QED
        BY <4>1, <4>3 DEF RowsOf
    <3> QED
      BY <3>2, <3>3, <3>4
  <2>6. ASSUME NEW c \in Blocks
        PROVE  IF migrating_height # 0 /\ c = migrating_hash
                 THEN UNCHANGED pending_utxo[c]
                 ELSE \/ status' = "deleting_data" /\ Height[c] = migrating_height
                         /\ UNCHANGED migrating_height
                      \/ pending_utxo'[c] = IF c \in parsed' THEN Ops[c]
                           ELSE SubSeq(Ops[c], 1, RowsOf(parsing_progress_of', c))
    <3>1. CASE status = "deleting_data" /\ Height[c] = migrating_height
      <4>1. UNCHANGED migrating_height
        BY <2>3, <2>4, <3>1, <2>1 DEF MigrationStartsOrNot
      <4> QED
        BY <2>1, <3>1, <4>1 DEF utxoTables
    <3>2. CASE ~(status = "deleting_data" /\ Height[c] = migrating_height)
      BY <2>1, <2>5, <3>2, PendingIsParsed DEF utxoTables
    <3> QED
      BY <3>1, <3>2
  <2> QED
    BY <2>1, <2>4, <2>6, LedgerStays DEF utxoTables
<1> QED
  BY <1>1, <1>2

\* A batch of parsing appends the next rows of the block to its pending ones.
LEMMA LedgerParse ==
  ASSUME LedgerInv, UtxoInv', NEW s \in Synchronizers, NEW b \in Blocks, NEW rows \in Nat,
         MayProcess(s, b), ParseRows(s, b, rows), migrating_height = 0
  PROVE  LedgerKept
<1> DEFINE mine == Claimed(s, b)
           from == mine[b].rows
           L == Len(Ops[b])
           k == AtMost(rows, L - from)
           others == [c \in DOMAIN parsing_progress_of \ {b} |-> mine[c]]
<1>1. /\ DOMAIN mine = DOMAIN parsing_progress_of /\ b \in DOMAIN parsing_progress_of
      /\ \A c \in DOMAIN parsing_progress_of :
           mine[c] \in ProgressType /\ mine[c].rows = parsing_progress_of[c].rows
  BY ClaimedProgress DEF LedgerInv, SameProgress
<1>2. /\ UtxoInv /\ consensus_block \subseteq Blocks /\ status \in {"waiting", "parsing"}
      /\ b \notin parsed /\ b \in Blocks /\ Ops[b] \in Seq(OpType) /\ L \in Nat
      /\ from \in Nat /\ from <= L
      /\ pending_utxo \in [Blocks -> Seq(OpType)]
  <2>1. Ops[b] \in Seq(OpType)
    BY UtxoAssumption DEF UtxoAssumption
  <2>2. b \notin parsed /\ from <= L
    BY <1>1 DEF LedgerInv, UtxoInv, ParsingInOrder
  <2>3. from \in Nat
    BY <1>1 DEF ProgressType
  <2> QED
    BY <2>1, <2>2, <2>3, LenProperties DEF LedgerInv, UtxoInv, PhasesAlternate, MigrationWindow,
       UtxoTypeOK, TablesTypeOK
<1>3. k \in Nat /\ from + k <= L /\ (from + k = L \/ from + k < L)
  <2>1. L - from \in Nat
    BY <1>2
  <2>2. k \in 0..(L - from)
    <3> HIDE DEF from
    <3> QED
      BY <2>1, AtMostType
  <2> HIDE DEF from, k, L
  <2>3. from \in Nat /\ L \in Nat
    BY <1>2
  <2> QED
    BY <2>2, <2>3
<1>4. /\ pending_utxo' = [pending_utxo EXCEPT ![b] = @ \o SubSeq(Ops[b], from + 1, from + k)]
      /\ IF from + k < L
           THEN /\ parsing_progress_of' = [mine EXCEPT ![b].rows = @ + k]
                /\ status' = "parsing"
                /\ UNCHANGED <<parsed, parsing_height, migrating_height, migrationVars>>
           ELSE /\ parsed' = parsed \cup {b}
                /\ IF DOMAIN others # {}
                     THEN /\ parsing_progress_of' = others
                          /\ status' = "parsing"
                          /\ UNCHANGED <<parsing_height, migrating_height, migrationVars>>
                     ELSE /\ status' = "waiting"
                          /\ NextParsable(consensus_block, parsed', uploader)
                          /\ NextIrreversible(endorsement, consensus_block, parsed', head_height)
      /\ UNCHANGED <<irreversible_hash, num_utxos, utxo>>
  BY DEF ParseRows
<1>5. pending_utxo'[b] = SubSeq(Ops[b], 1, from + k)
      /\ \A c \in Blocks : c # b => pending_utxo'[c] = pending_utxo[c]
  <2>1. pending_utxo[b] = SubSeq(Ops[b], 1, from)
    <3>1. RowsOf(parsing_progress_of, b) = from
      BY <1>1 DEF RowsOf
    <3> QED
      BY <1>2, <3>1, PendingIsParsed
  <2>2. SubSeq(Ops[b], 1, from) \o SubSeq(Ops[b], from + 1, from + k) = SubSeq(Ops[b], 1, from + k)
    <3>1. PICK ops, i, j : ops = Ops[b] /\ i = from /\ j = from + k
      OBVIOUS
    <3>2. /\ ops \in Seq(OpType) /\ 1 \in 1..(Len(ops) + 1) /\ i \in 1 - 1..Len(ops) /\ j \in i..Len(ops)
      <4> HIDE DEF from, k
      <4> QED
        BY <1>2, <1>3, <3>1
    <3>3. SubSeq(ops, 1, i) \o SubSeq(ops, i + 1, j) = SubSeq(ops, 1, j)
      BY <3>2, ConcatAdjacentSubSeq
    <3> QED
      BY <3>1, <3>3
  <2> HIDE DEF from, k
  <2> QED
    BY <1>2, <1>4, <2>1, <2>2
<1> HIDE DEF mine, from, k, others
\* It ends as it goes on, or with the block.
<1>6. /\ parsed' = parsed \/ (parsed' = parsed \cup {b} /\ from + k = L)
      /\ \A c \in Blocks : c # b /\ c \notin parsed' =>
           RowsOf(parsing_progress_of', c) = RowsOf(parsing_progress_of, c)
      /\ b \notin parsed' => RowsOf(parsing_progress_of', b) = from + k
      /\ MigrationStartsOrNot
      /\ status' \in {"waiting", "parsing"}
  <2>1. CASE from + k < L
    <3>1. PICK v : v = [mine[b] EXCEPT !.rows = from + k]
      OBVIOUS
    <3>2. v.rows = from + k
      BY <1>1, <3>1 DEF ProgressType
    <3>3. parsing_progress_of' = [mine EXCEPT ![b] = v]
      BY <1>1, <1>4, <2>1, <3>1 DEF from
    <3>4. /\ parsed' = parsed /\ status' = "parsing" /\ MigrationStartsOrNot
      BY <1>4, <2>1 DEF MigrationStartsOrNot, migrationVars
    <3>5. /\ DOMAIN parsing_progress_of' = DOMAIN parsing_progress_of
          /\ parsing_progress_of'[b].rows = from + k
          /\ \A c \in DOMAIN parsing_progress_of :
               c # b => parsing_progress_of'[c].rows = parsing_progress_of[c].rows
      BY <1>1, <3>2, <3>3
    <3> QED
      BY <1>1, <3>4, <3>5 DEF RowsOf
  <2>2. CASE ~(from + k < L) /\ DOMAIN others # {}
    <3>1. /\ parsed' = parsed \cup {b} /\ status' = "parsing" /\ parsing_progress_of' = others
          /\ MigrationStartsOrNot
      BY <1>4, <2>2 DEF MigrationStartsOrNot, migrationVars
    <3>2. from + k = L
      BY <1>3, <2>2
    <3> QED
      BY <1>1, <3>1, <3>2 DEF RowsOf, others
  <2>3. CASE ~(from + k < L) /\ DOMAIN others = {}
    <3>1. /\ parsed' = parsed \cup {b} /\ status' = "waiting"
          /\ NextParsable(consensus_block, parsed', uploader)
          /\ NextIrreversible(endorsement, consensus_block, parsed', head_height)
      BY <1>4, <2>3
    <3>2. from + k = L
      BY <1>3, <2>3
    <3>3. MigrationStartsOrNot
      <4>1. PICK D : D = parsed'
        OBVIOUS
      <4> QED
        BY <1>2, <3>1, <4>1, StartsOrNot
    <3>4. \A c : RowsOf(parsing_progress_of', c) = 0
      BY <3>1, NextParsableRows
    <3>5. \A c : c # b => c \notin DOMAIN parsing_progress_of
      BY <2>3 DEF others
    <3> QED
      BY <3>1, <3>2, <3>3, <3>4, <3>5 DEF RowsOf
  <2> QED
    BY <2>1, <2>2, <2>3
<1>7. ASSUME NEW c \in Blocks
      PROVE  pending_utxo'[c] = IF c \in parsed' THEN Ops[c]
                                ELSE SubSeq(Ops[c], 1, RowsOf(parsing_progress_of', c))
  <2>1. CASE c = b
    BY <1>2, <1>5, <1>6, <2>1, SubSeqFull
  <2>2. CASE c # b
    BY <1>2, <1>5, <1>6, <2>2, PendingIsParsed
  <2> QED
    BY <2>1, <2>2
<1> QED
  BY <1>4, <1>6, <1>7, LedgerStays

\* Every step keeps the UTXO set on the chain.
LEMMA LedgerNext ==
  ASSUME LedgerInv, UtxoInv', UtxoTablesStep
  PROVE  LedgerKept
<1>0. UtxoInv
  BY DEF LedgerInv
<1>1. ASSUME NEW s \in Synchronizers, NEW b \in Blocks, NEW rows \in ProcessRows,
             ProcessBlock(s, b, rows)
      PROVE  LedgerKept
  <2>1. rows \in Nat
    BY UtxoAssumption DEF UtxoAssumption
  <2>2. MayProcess(s, b) /\ SameProgress(Claimed(s, b))
    BY <1>0, <1>1, ClaimedProgress DEF ProcessBlock
  <2>3. status \in Statuses /\ migrating_height \in Nat
    BY <1>0 DEF UtxoInv, MigrationWindow, UtxoTypeOK, TablesTypeOK
  <2>4. /\ Phase \in {"migrating", "deleting_data", "distributing_rewards"} => migrating_height # 0
        /\ Phase = "migrating" => status \in {"waiting", "migrating"}
        /\ Phase = "deleting_data" => status = "deleting_data"
        /\ Phase = "distributing_rewards" => status = "distributing_rewards"
        /\ Phase = "parsing" => migrating_height = 0
    BY <1>0, <2>3 DEF Phase, UtxoInv, PhasesAlternate, Statuses
  <2>5. parsing_progress_of' = Claimed(s, b) =>
          /\ DOMAIN parsing_progress_of' = DOMAIN parsing_progress_of
          /\ \A c \in Blocks : RowsOf(parsing_progress_of', c) = RowsOf(parsing_progress_of, c)
    BY <2>2 DEF SameProgress, RowsOf
  <2>6. CASE Phase = "migrating" /\ Migrate(rows) /\ parsing_progress_of' = Claimed(s, b)
    BY <2>1, <2>4, <2>5, <2>6, LedgerMigrate
  <2>7. CASE Phase = "deleting_data" /\ DeleteData(rows) /\ parsing_progress_of' = Claimed(s, b)
    <3>1. /\ DeletePending(rows) \/ DeleteSpent(rows) \/ StoreIrreversible
          /\ UNCHANGED <<irreversible_hash, migrating_height, migrationVars, num_utxos, utxo>>
          /\ migrating_height # 0 /\ status = "deleting_data"
      BY <2>4, <2>7 DEF DeleteData
    <3>2. CASE DeletePending(rows)
      BY <2>1, <2>5, <2>7, <3>1, <3>2, LedgerDeletePending DEF DeletePending, consensusRows
    <3>3. CASE DeleteSpent(rows)
      BY <2>5, <2>7, <3>1, <3>3, LedgerQuiet DEF DeleteSpent, consensusRows, migrationVars
    <3>4. CASE StoreIrreversible
      BY <2>5, <2>7, <3>1, <3>4, LedgerStoreIrreversible
    <3> QED
      BY <3>1, <3>2, <3>3, <3>4
  <2>8. CASE Phase = "distributing_rewards" /\ DistributeRewards /\ parsing_progress_of' = Claimed(s, b)
    BY <2>4, <2>5, <2>8, LedgerDistributeRewards
  <2>9. CASE Phase = "parsing" /\ ParseRows(s, b, rows)
    BY <2>1, <2>2, <2>4, <2>9, LedgerParse
  <2> QED
    BY <1>1, <2>6, <2>7, <2>8, <2>9 DEF ProcessBlock
<1>2. ASSUME NEW b \in Blocks, ParserTimeout(b),
             UNCHANGED <<chainTables, irreversible_hash, migrationVars, parsed, utxoTables>>
      PROVE  LedgerKept
  <2>1. \A c : parsing_progress_of[c] = parsing_progress_of[c] /\ b \in DOMAIN parsing_progress_of
    BY <1>2 DEF ParserTimeout
  <2>2. PICK v : v = [parsing_progress_of[b] EXCEPT !.expired = TRUE]
    OBVIOUS
  <2>3. v.rows = parsing_progress_of[b].rows
    BY <1>0, <2>1, <2>2 DEF UtxoInv, MigrationWindow, UtxoTypeOK
  <2>4. parsing_progress_of' = [parsing_progress_of EXCEPT ![b] = v]
    BY <1>2, <2>1, <2>2 DEF ParserTimeout
  <2>5. \A c \in Blocks : RowsOf(parsing_progress_of', c) = RowsOf(parsing_progress_of, c)
    BY <2>1, <2>3, <2>4 DEF RowsOf
  <2> QED
    BY <1>2, <2>5, LedgerQuiet DEF chainTables, migrationVars, utxoTables
<1>3. ASSUME NEW b \in Blocks, NEW t, NEW y, SyncReady(y, b), Consensus(t, y, b) PROVE LedgerKept
  BY <1>3, LedgerConsensus
<1>4. UNCHANGED utxoVars => LedgerKept
  BY LedgerQuiet DEF utxoVars, chainTables, migrationVars, parsingVars, utxoTables
<1> QED
  BY <1>1, <1>2, <1>3, <1>4 DEF UtxoTablesStep

\* Before the first block nothing is pending and nothing unspent.
LEMMA LedgerInit ==
  UtxoSpecInit => PendingRows /\ UtxoSetFollowsChain /\ num_utxos = Cardinality(utxo)
<1> SUFFICES ASSUME UtxoSpecInit
             PROVE  PendingRows /\ UtxoSetFollowsChain /\ num_utxos = Cardinality(utxo)
  OBVIOUS
<1>1. /\ migrating_height = 0 /\ migrating_hash = NoBlock /\ status = "waiting" /\ parsed = {}
      /\ parsing_progress_of = << >> /\ irreversible_hash = Genesis /\ num_utxos = 0 /\ utxo = {}
      /\ pending_utxo = [b \in Blocks |-> << >>]
  BY DEF UtxoSpecInit, UtxoInit
<1>2. DOMAIN parsing_progress_of = {}
  BY <1>1
<1>3. PendingRows
  BY <1>1, <1>2, SyncAssumption DEF PendingRows, ParsedRows, NoBlock, SyncAssumption
<1>4. OpsUpTo[irreversible_hash] \o MigratedRows = << >>
  BY <1>1, OpsUpToStep DEF MigratedRows
<1>5. Unspent(<< >>) = {}
  BY DEF Unspent
<1>6. Cardinality({}) = 0
  BY FS_EmptySet
<1> QED
  BY <1>1, <1>3, <1>4, <1>5, <1>6 DEF UtxoSetFollowsChain

\* The UTXO set is always that of the irreversible chain followed by the rows
\* migrated so far.
THEOREM LedgerInvHolds == UtxoSpec => []LedgerInv
<1>1. UtxoSpecInit => LedgerInv
  BY InitUtxoInv, LedgerInit DEF LedgerInv
<1>2. LedgerInv /\ UtxoInv' /\ [UtxoNext]_utxoSpecVars => LedgerInv'
  BY StepOfTables, LedgerNext DEF LedgerInv, LedgerKept
<1> QED
  BY <1>1, <1>2, UtxoInvHolds, PTL DEF UtxoSpec

\* And where no output comes twice, num_utxos counts it.
THEOREM UtxoSetIsLedgerHolds ==
  ASSUME OutputsOnce
  PROVE  UtxoSpec => []UtxoSetIsLedger
<1> DEFINE Counted == LedgerInv /\ num_utxos = Cardinality(utxo)
<1>1. UtxoSpecInit => Counted
  BY InitUtxoInv, LedgerInit DEF LedgerInv
<1>2. Counted /\ UtxoInv' /\ [UtxoNext]_utxoSpecVars => Counted'
  BY StepOfTables, LedgerNext DEF LedgerInv, LedgerKept
<1>3. Counted => UtxoSetIsLedger
  BY DEF LedgerInv, UtxoSetIsLedger
<1> QED
  BY <1>1, <1>2, <1>3, UtxoInvHolds, PTL DEF UtxoSpec
=============================================================================
